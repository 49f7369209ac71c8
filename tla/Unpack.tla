------------------------------- MODULE Unpack --------------------------------
(***************************************************************************)
(* The artifact of a task on a host: fetched over http or s3               *)
(* (runner/src/artifact.rs, runner/src/host/download.rs) and unpacked into *)
(* the task's directory (runner/src/host/extract/), as tar through gzip or *)
(* the bzip2 program, or as zip.                                           *)
(*                                                                         *)
(* An archive is made of logical entries, a file, a directory or a link    *)
(* with a name, laid out as the format lays them out.  A tar is a sequence *)
(* of cells, BLOCK to a block, in one or more compressed members set end   *)
(* to end; gzip and bzip2 differ in what a stream that is cut off looks    *)
(* like (Inflate has the decoder).  A zip has a directory whose 16 and 32  *)
(* bit fields are at their limit when the value is in the 64 bit extra.    *)
(* Names are sequences of parts.                                           *)
(***************************************************************************)
EXTENDS Integers, Sequences, FiniteSets, SequencesExt

CONSTANTS
  BLOCK,       \* cells of a tar block
  MAX_LONG,    \* longest special header
  MAX_CDIR,    \* largest directory of a zip
  LIM,         \* the value a narrow field of a zip cannot hold
  ENTRY,       \* size of a directory entry of a zip
  BUF,         \* bytes that a copy out of a zip writes at a time
  Artifacts    \* the artifacts to try

VARIABLES
  art,   \* the artifact: how it is asked for and what it holds
  body,  \* the same as the server sends it
  up,    \* the node: where it is, cells of the download it has
  unPend,  \* the name and the size that special headers left for the next one
  disk   \* the task's directory: path -> a file's content, or DirMark

unVars == <<art, body, up, unPend, disk>>

DirMark == <<-1>>
DOWNLOAD == <<".download">>

-----------------------------------------------------------------------------
(* Names and the directory.                                                *)

Illegal == <<"..">>

\* safe_join: the parts left after cleaning, <<>> for the root itself, or
\* Illegal when the name climbs out.
SafeJoin(name) ==
  FoldLeft(LAMBDA parts, p : CASE parts = Illegal \/ p \in {"", "."} -> parts
                               [] p = ".." -> IF parts = <<>> THEN Illegal ELSE Front(parts)
                               [] OTHER -> Append(parts, p),
           <<>>, name)

\* The file system: directories are made as they are needed, and a name is
\* not both.
Parents(path) == {SubSeq(path, 1, n) : n \in 1..(Len(path) - 1)}
IsFile(d, p) == p \in DOMAIN d /\ d[p] # DirMark
CanMkdir(d, path) == \A p \in Parents(path) \cup {path} : ~IsFile(d, p)
Mkdir(d, path) ==
  [p \in DOMAIN d \cup Parents(path) \cup {path} |-> IF p \in DOMAIN d THEN d[p] ELSE DirMark]
CanCreate(d, path) == (\A p \in Parents(path) : ~IsFile(d, p)) /\ (path \in DOMAIN d => d[path] # DirMark)
Create(d, path, data) ==
  LET m == IF Len(path) = 1 THEN d ELSE Mkdir(d, Front(path))
  IN  [p \in DOMAIN m \cup {path} |-> IF p = path THEN data ELSE m[p]]
Without(d, path) == [p \in DOMAIN d \ {path} |-> d[p]]

-----------------------------------------------------------------------------
(* How entries are laid out.                                               *)

Cell(c, v) == [c |-> c, v |-> v]
Pad(n) == [i \in 1..((BLOCK - (n % BLOCK)) % BLOCK) |-> Cell("pad", <<>>)]
HeadCells(type, name, size) ==
  <<Cell("head", [type |-> type, name |-> name, size |-> size])>> \o [i \in 1..(BLOCK - 1) |-> Cell("pad", <<>>)]
DataCells(data) == [i \in DOMAIN data |-> Cell("data", data[i])] \o Pad(Len(data))

\* A name may stand in the header, in a long name before it, or in a pax
\* header, which may hold the size too.
Special(e) ==
  LET key(k, v) == Cell("pax", [key |-> k, value |-> v])
      name == [c |-> "name", v |-> e.name]
  IN  CASE e.via = "plain" -> <<>>
        [] e.via = "long" -> HeadCells("L", <<"@LongLink">>, 1) \o <<name>> \o Pad(1)
        [] e.via = "pax" -> HeadCells("x", <<"Pax">>, 2) \o <<key("mtime", 0), key("path", e.name)>> \o Pad(2)
        [] e.via = "paxsize" -> HeadCells("x", <<"Pax">>, 3)
                                  \o <<key("path", e.name), key("size", Len(e.data)), key("uid", 0)>> \o Pad(3)
        [] e.via = "huge" -> HeadCells("L", <<"@LongLink">>, MAX_LONG + 1) \o DataCells([i \in 1..(MAX_LONG + 1) |-> 0])
TarEntry(e) ==
  Special(e)
    \o HeadCells(CASE e.type = "file" -> "0" [] e.type = "dir" -> "5" [] OTHER -> "2",
                 IF e.via = "plain" THEN e.name ELSE <<"short">>,
                 IF e.via = "paxsize" THEN 0 ELSE Len(e.data))
    \o DataCells(e.data)
Tar(entries) ==
  FlattenSeq([i \in DOMAIN entries |-> TarEntry(entries[i])]) \o [i \in 1..(2 * BLOCK) |-> Cell("zero", <<>>)]

Narrow(v) == IF v >= LIM THEN LIM ELSE v
Wide(v) == IF v >= LIM THEN <<v>> ELSE <<>>
Packed(e) == IF e.method = 8 THEN 1 ELSE Len(e.data)     \* size in the archive
Offset(entries, i) == FoldLeft(LAMBDA a, j : a + 1 + Packed(entries[j]), 0, [j \in 1..(i - 1) |-> j])
ZipEntry(entries, i) ==
  LET e == entries[i]
  IN  [name |-> e.name, method |-> e.method, encrypted |-> e.locked, crc |-> e.crc,
       csize |-> Narrow(Packed(e)), usize |-> Narrow(e.claim), offset |-> Narrow(Offset(entries, i)),
       dirMode |-> e.type = "dir",
       extra |-> <<[id |-> 9, data |-> <<7>>],
                   [id |-> 1, data |-> Wide(e.claim) \o Wide(Packed(e)) \o Wide(Offset(entries, i))]>>]
ZipFile(entries) ==
  LET n == Len(entries)
      size == n * ENTRY
      off == Offset(entries, n + 1)
  IN  [locals |-> [o \in {Offset(entries, i) : i \in 1..n} |-> CHOOSE i \in 1..n : Offset(entries, i) = o],
       cd |-> [i \in 1..n |-> ZipEntry(entries, i)], cdAt |-> off,
       count |-> Narrow(n), size |-> Narrow(size), off |-> Narrow(off),
       end64 |-> IF n >= LIM \/ size >= LIM \/ off >= LIM THEN <<n, size, off>> ELSE <<>>]

\* What the server holds, in cells; a zip that is cut off has no end.
BodyOf(a) ==
  CASE a.extract \in {"tar.gz", "tar.bz2"} -> Tar(a.entries)
    [] a.extract = "zip" -> <<1, 2>>
    [] OTHER -> a.entries[1].data

-----------------------------------------------------------------------------
UnStarts ==
  /\ body = BodyOf(art)
  /\ up = [pc |-> "check", got |-> 0, at |-> 0, i |-> 1]
  /\ unPend = [path |-> <<>>, size |-> -1]
  /\ disk = << >>

UnInit == art \in Artifacts /\ UnStarts

Ends(how) == up' = [up EXCEPT !.pc = how]

\* The archive goes, also after a failure.
UnFinished(how, d) ==
  /\ Ends(how)
  /\ disk' = IF art.extract = "" THEN d ELSE Without(d, DOWNLOAD)

-----------------------------------------------------------------------------
(* The download.                                                           *)

Target == IF art.extract = "" THEN <<art.filename>> ELSE DOWNLOAD

\* What can never work: the scheme, the format, a name that is none, and s3
\* without keys.
Check ==
  /\ up.pc = "check"
  /\ IF \/ art.scheme \notin {"http", "https", "s3"}
        \/ art.extract \notin {"", "tar.gz", "tar.bz2", "zip"}
        \/ art.extract = "" /\ art.filename \in {"", ".", "..", "a/b"}
     THEN Ends("failed") /\ UNCHANGED disk
     ELSE \/ disk' = Create(disk, Target, <<>>) /\ Ends("ask")
          \/ Ends("failed") /\ UNCHANGED disk          \* the file cannot be made
  /\ UNCHANGED <<art, body, unPend>>

S3Refused == art.scheme = "s3" /\ ~art.keys

\* No keys; a dial, a handshake or a status that is not 200; or an answer.
Asks ==
  /\ up.pc = "ask"
  /\ \/ UnFinished("failed", disk)
     \/ ~S3Refused /\ Ends("pump") /\ UNCHANGED disk
  /\ UNCHANGED <<art, body, unPend>>

\* The bytes of an archive do not matter as a file.
Arrived(n) == IF art.extract = "" THEN SubSeq(body, 1, n) ELSE [i \in 1..n |-> 0]

\* pump: a piece comes in and is written.
Pumps ==
  /\ up.pc = "pump" /\ up.got < Len(body)
  /\ \E n \in 1..(Len(body) - up.got) :
       /\ n \in {1, Len(body) - up.got}
       /\ up' = [up EXCEPT !.got = @ + n]
       /\ disk' = [disk EXCEPT ![Target] = Arrived(up.got + n)]
  /\ UNCHANGED <<art, body, unPend>>

WriteFails ==
  /\ up.pc = "pump"
  /\ UnFinished("failed", disk)
  /\ UNCHANGED <<art, body, unPend>>

\* With a length, a body that ends early is short; without one nobody sees it.
Short == art.length /\ up.got < Len(body)

\* The file is closed; a plain one is made executable, which may fail.
BodyEnds ==
  /\ up.pc = "pump"
  /\ IF Short THEN UnFinished("failed", disk)
     ELSE /\ \E next \in CASE art.extract = "" -> {"ok", "failed"}
                           [] art.extract = "zip" -> {"zip"}
                           [] OTHER -> {"tar"} : Ends(next)
          /\ UNCHANGED disk
  /\ UNCHANGED <<art, body, unPend>>

-----------------------------------------------------------------------------
(* Tar.                                                                    *)

Cut == up.got < Len(body)

\* The decompressor sees that its stream was cut off: not at the end of a member.
Broken == Cut /\ up.got \notin art.members

\* n cells from p on, if the stream has them.
There(p, n) == p + n <= up.got
Cells(p, n) == SubSeq(body, p + 1, p + n)

PaddedSkip(size) == (BLOCK - (size % BLOCK)) % BLOCK

Beyond(p) == p > up.got

\* The end of the stream on the boundary of a block ends the archive; a
\* gzip stream that breaks off inside a member is an error of its own.
TarEnds ==
  /\ up.pc = "tar"
  /\ \/ up.at = up.got /\ ~(art.extract = "tar.gz" /\ Broken)
     \/ There(up.at, BLOCK) /\ \A i \in 1..BLOCK : Cells(up.at, BLOCK)[i].c = "zero"
  /\ IF art.extract = "tar.bz2" /\ Broken THEN UnFinished("refused", disk)     \* bzip2's exit status
     ELSE UnFinished("ok", disk)
  /\ UNCHANGED <<art, body, unPend>>

BlockRead ==
  /\ There(up.at, BLOCK)
  /\ \E i \in 1..BLOCK : Cells(up.at, BLOCK)[i].c # "zero"

Header == body[up.at + 1]
IsHeader ==
  /\ Header.c = "head"
  /\ \A i \in 2..BLOCK : Cells(up.at, BLOCK)[i].c = "pad"

\* The stream ends inside a block, or a block is no header.
TarBreaks ==
  /\ up.pc = "tar"
  /\ \/ ~There(up.at, BLOCK) /\ (up.at < up.got \/ (art.extract = "tar.gz" /\ Broken))
     \/ BlockRead /\ ~IsHeader
  /\ UnFinished("refused", disk)
  /\ UNCHANGED <<art, body, unPend>>

Size == IF unPend.size >= 0 THEN unPend.size ELSE Header.v.size

\* A long name or a pax header: its content is for the next header.
TarSpecial ==
  /\ up.pc = "tar" /\ BlockRead /\ IsHeader /\ Header.v.type \in {"L", "x"}
  /\ LET data == Cells(up.at + BLOCK, Size)
         next == up.at + BLOCK + Size + PaddedSkip(Size)
         last(k) == SelectSeq(data, LAMBDA c : c.c = "pax" /\ c.v.key = k)
     IN  IF Size > MAX_LONG \/ Beyond(next)
         THEN UnFinished("refused", disk) /\ UNCHANGED unPend
         ELSE /\ up' = [up EXCEPT !.at = next]
              /\ unPend' = IF Header.v.type = "L" THEN [path |-> data[1].v, size |-> -1]
                         ELSE [path |-> IF last("path") = <<>> THEN unPend.path ELSE Last(last("path")).v.value,
                               size |-> IF last("size") = <<>> THEN -1 ELSE Last(last("size")).v.value]
              /\ UNCHANGED disk
  /\ UNCHANGED <<art, body>>

PendingKept == [unPend EXCEPT !.size = -1]

\* What a header leaves for the next one: nothing.
PendingTaken == [path |-> <<>>, size |-> -1]

TarPlain ==
  /\ up.pc = "tar" /\ BlockRead /\ IsHeader /\ Header.v.type \notin {"L", "x"}
  /\ LET path == SafeJoin(IF unPend.path # <<>> THEN unPend.path ELSE Header.v.name)
         from == up.at + BLOCK
         size == IF There(from, Size) THEN Size ELSE up.got - from
         data == [i \in 1..size |-> Cells(from, size)[i].v]
         next == from + Size + PaddedSkip(Size)
         isDir == Header.v.type = "5" /\ path # <<>>
         isFile == Header.v.type = "0" /\ path # <<>>
     IN  CASE \/ path = Illegal
              \/ isDir /\ ~CanMkdir(disk, path)
              \/ isFile /\ ~CanCreate(disk, path) -> UnFinished("refused", disk)
           [] OTHER -> LET d == CASE isDir -> Mkdir(disk, path) [] isFile -> Create(disk, path, data)
                                  [] OTHER -> disk
                       IN  IF Beyond(next) THEN UnFinished("refused", d)
                           ELSE up' = [up EXCEPT !.at = next] /\ disk' = d
  /\ unPend' = PendingTaken
  /\ UNCHANGED <<art, body>>

-----------------------------------------------------------------------------
(* Zip.                                                                    *)

File == ZipFile(art.entries)

\* central_directory: the numbers of the end, and those of the 64 bit end
\* when one of them is at its limit.
CdEnd == IF File.count = LIM \/ File.size = LIM \/ File.off = LIM THEN File.end64
         ELSE <<File.count, File.size, File.off>>

ZipOpens ==
  /\ up.pc = "zip"
  /\ IF Cut \/ CdEnd = <<>> \/ CdEnd[2] > MAX_CDIR \/ CdEnd[3] # File.cdAt
     THEN UnFinished("refused", disk)
     ELSE Ends("entries") /\ UNCHANGED disk
  /\ UNCHANGED <<art, body, unPend>>

\* zip64_extra: each field that is at its limit takes the next value of the
\* 64 bit extra.
Widened(e) ==
  LET x == SelectSeq(e.extra, LAMBDA r : r.id = 1)
      wide == IF x = <<>> THEN <<>> ELSE x[1].data
      take(n, v) == IF v = LIM /\ n < Len(wide) THEN wide[n + 1] ELSE v
      used(n, v) == IF v = LIM /\ n < Len(wide) THEN n + 1 ELSE n
      n1 == used(0, e.usize)
      n2 == used(n1, e.csize)
  IN  [e EXCEPT !.usize = take(0, @), !.csize = take(n1, @), !.offset = take(n2, @)]

\* copy_checked: what is written before the limit is passed, BUF at a time.
CopiedTo(data, max) == IF Len(data) > max THEN SubSeq(data, 1, (max \div BUF) * BUF) ELSE data

ZipEntryOut ==
  /\ up.pc = "entries" /\ up.i <= CdEnd[1]
  /\ LET e == Widened(File.cd[up.i])
         path == SafeJoin(e.name)
         isDir == Last(e.name) = "" \/ e.dirMode
         here == e.offset \in DOMAIN File.locals
         raw == art.entries[File.locals[e.offset]]
         \* A stored entry is as long as the directory says; a deflated one
         \* ends by itself, unless it was cut short.
         data == IF e.method = 0 THEN SubSeq(raw.data, 1, e.csize) ELSE raw.data
         out == CopiedTo(data, e.usize)
         fails(d) == UnFinished("refused", d)
         goes(d) == up' = [up EXCEPT !.i = @ + 1] /\ disk' = d
     IN  CASE path = Illegal -> fails(disk)
           [] path = <<>> -> goes(disk)
           [] path \notin {Illegal, <<>>} /\ isDir ->
                IF CanMkdir(disk, path) THEN goes(Mkdir(disk, path)) ELSE fails(disk)
           [] OTHER -> CASE e.encrypted \/ ~here \/ ~CanCreate(disk, path) -> fails(disk)
                         [] e.method \notin {0, 8} -> fails(Create(disk, path, <<>>))
                         [] Len(out) = e.usize /\ out = e.crc -> goes(Create(disk, path, out))
                         [] OTHER -> fails(Create(disk, path, out))
  /\ UNCHANGED <<art, body, unPend>>

ZipEnds ==
  /\ up.pc = "entries" /\ up.i > CdEnd[1]
  /\ UnFinished("ok", disk)
  /\ UNCHANGED <<art, body, unPend>>

UnDone == up.pc \in {"ok", "failed", "refused"} /\ UNCHANGED unVars

UnNext ==
  \/ Check \/ Asks \/ Pumps \/ WriteFails \/ BodyEnds
  \/ TarEnds \/ TarBreaks \/ TarSpecial \/ TarPlain
  \/ ZipOpens \/ ZipEntryOut \/ ZipEnds \/ UnDone

UnSpec == UnInit /\ [][UnNext]_unVars

-----------------------------------------------------------------------------
(* What an archive means.                                                  *)

\* Where a name leads, walked from the directory: <<>> is the directory
\* itself, and outside it there is no way back.
Walk(name) ==
  LET at[n \in 0..Len(name)] ==
        IF n = 0 THEN [in |-> TRUE, p |-> <<>>]
        ELSE LET b == at[n - 1] IN
             CASE ~b.in \/ name[n] \in {"", "."} -> b
               [] name[n] = ".." /\ b.p = <<>> -> [in |-> FALSE, p |-> <<>>]
               [] name[n] = ".." /\ b.p # <<>> -> [in |-> TRUE, p |-> SubSeq(b.p, 1, Len(b.p) - 1)]
               [] OTHER -> [in |-> TRUE, p |-> Append(b.p, name[n])]
  IN  at[Len(name)]

\* The entry may be written, and what it makes of the directory.
May(d, e) ==
  /\ Walk(e.name).in /\ e.via # "huge"
  /\ art.extract = "zip" /\ e.type = "file" =>
       ~e.locked /\ e.method \in {0, 8} /\ e.claim = Len(e.data) /\ e.crc = e.data
  /\ LET p == Walk(e.name).p IN
     p # <<>> => (e.type = "file" => CanCreate(d, p)) /\ (e.type = "dir" => CanMkdir(d, p))
Does(d, e) ==
  LET p == Walk(e.name).p
  IN  CASE p = <<>> \/ e.type = "link" -> d
        [] e.type = "dir" -> Mkdir(d, p)
        [] OTHER -> Create(d, p, e.data)
Meaning(entries) ==
  FoldLeft(LAMBDA r, e : IF r.ok /\ May(r.d, e) THEN [ok |-> TRUE, d |-> Does(r.d, e)] ELSE [r EXCEPT !.ok = FALSE],
           [ok |-> TRUE, d |-> << >>], entries)

\* The entries of a tar that lie before the place where it was cut.
EntryEnd(n) == Len(FlattenSeq([i \in 1..n |-> TarEntry(art.entries[i])]))
Came == CHOOSE n \in 0..Len(art.entries) :
          EntryEnd(n) <= up.got /\ \A m \in (n + 1)..Len(art.entries) : EntryEnd(m) > up.got

-----------------------------------------------------------------------------
UnTypeOK ==
  /\ up.got \in 0..Len(body) /\ up.at \in 0..up.got /\ up.i \in Nat
  /\ up.pc \in {"check", "ask", "pump", "tar", "zip", "entries", "ok", "failed", "refused"}
  /\ unPend.size \in Int

\* Nothing is written outside the task's directory, and no name in it is a
\* way out (safe_join, raw_name).
StaysInside == \A p \in DOMAIN disk : p # <<>> /\ \A i \in DOMAIN p : p[i] \notin {"..", ".", ""}

\* An archive that was unpacked without an error is there in full, every
\* file with its content and nothing else, however its names and sizes were
\* written down and wherever the download broke off, with one exception: a tar
\* that came without a length and broke off exactly between two of its compressed
\* members, and between two of its entries, is unpacked as the entries before
\* that place and nothing else.  The archive itself is gone in every case
\* (extract_tar, Gzip::member_end, extract_zip, download_artifact).
UnpackedIsTheArchive ==
  /\ up.pc = "ok" /\ art.extract # "" =>
       LET short == Cut /\ ~Broken /\ ~art.length
           m == Meaning(IF short THEN SubSeq(art.entries, 1, Came) ELSE art.entries)
       IN  m.ok /\ disk = m.d
  /\ up.pc \in {"ok", "failed", "refused"} => DOWNLOAD \notin DOMAIN disk

\* A plain file with a known length is whole when the download succeeded
\* (pump).
PlainIsWhole ==
  up.pc = "ok" /\ art.extract = "" /\ art.length => disk[<<art.filename>>] = body

\* An archive that arrived whole and can be written is not refused: no
\* padding, special header or wide field puts the reader out of step.
WholeIsNotRefused ==
  up.pc = "refused" /\ ~Cut => ~Meaning(art.entries).ok

\* A file from a zip is never longer than its directory entry says, also
\* when the entry turns out to be wrong (copy_checked).
WithinTheClaim ==
  art.extract = "zip" => \A p \in DOMAIN disk : IsFile(disk, p) /\ p # DOWNLOAD =>
    \E i \in DOMAIN art.entries : Walk(art.entries[i].name).p = p /\ Len(disk[p]) <= art.entries[i].claim

\* What a download and its unpacking leave, whatever archive arrives and wherever
\* it is cut.
UnInv ==
  /\ UnTypeOK
  /\ StaysInside
  /\ UnpackedIsTheArchive
  /\ PlainIsWhole
  /\ WholeIsNotRefused
  /\ WithinTheClaim
==============================================================================
