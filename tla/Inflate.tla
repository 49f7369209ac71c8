------------------------------- MODULE Inflate -------------------------------
(***************************************************************************)
(* The decoder of gzip and deflate (runner/src/host/extract/inflate.rs):   *)
(* canonical codes read bit by bit, a window that goes round, and members  *)
(* with a header and a trailer, read in calls of any size.  The widths and *)
(* tables are the code's, scaled down: a byte has W bits, the window has   *)
(* WSIZE bytes, and the symbols are 2^W literals, the end of the block and *)
(* the length symbols.                                                     *)
(*                                                                         *)
(* The input is a stream the reference encoder at the end of this module   *)
(* made of a script, whole or cut off anywhere, or bits of no script.      *)
(***************************************************************************)
EXTENDS Integers, Sequences, FiniteSets, SequencesExt, Bitwise

CONSTANTS
  W,              \* bits of a byte
  WSIZE,          \* bytes of the window
  MAXBITS,        \* longest code
  MAXLCODES,      \* literal and length symbols of the fixed table
  MAXDCODES,      \* distance symbols of the fixed table
  LEN_BASE, LEN_EXTRA, DIST_BASE, DIST_EXTRA,
  CL_ORDER,       \* order of the code length codes
  FixedLengths,   \* code lengths of the fixed table
  Repeats17,      \* base and extra bits of the three repeat symbols
  CRCBITS, POLY,  \* width and reflected polynomial of the checksum
  ReadSizes,      \* room in the reader's buffer, per call
  Scripts,        \* what the reference encoder encodes: sequences of members
  OtherStreams    \* bits no script describes

VARIABLES
  zMade,    \* where the stream came from: script, cut, or arbitrary
  zSrc,     \* its bits
  zPos,     \* bits read
  z,        \* the decoder: state, last block, what is left of a block or copy
  win,      \* the window
  wpos,
  zTotal,   \* bytes of this member
  tables,   \* codes of the running block
  zOut,     \* all bytes that came out
  call,     \* the read call: room and bytes it has got; no call when room is 0
  zCrc, zSize

zVars == <<zMade, zSrc, zPos, z, win, wpos, zTotal, tables, zOut, call, zCrc, zSize>>

END == 2 ^ W
SumSeq(s) == FoldLeft(LAMBDA a, b : a + b, 0, s)

-----------------------------------------------------------------------------
(* Bits, least significant first.  A read beyond the end is corrupt.       *)

Has(p, n) == p + n <= Len(zSrc)
BitAt(i) == IF i <= Len(zSrc) THEN zSrc[i] ELSE 0
BitsAt(p, n) == SumSeq([i \in 1..n |-> BitAt(p + i) * 2 ^ (i - 1)])
Aligned(p) == ((p + W - 1) \div W) * W

-----------------------------------------------------------------------------
(* Canonical codes: a sequence of code lengths, symbol s at place s + 1.   *)

CountOf(lens, l) == Cardinality({i \in DOMAIN lens : lens[i] = l})

\* What is left of the code space after each length; a set of lengths that
\* takes more than there is, is refused.  A set that takes less is not.
Left(lens) ==
  LET left[l \in 0..MAXBITS] == IF l = 0 THEN 1 ELSE left[l - 1] * 2 - CountOf(lens, l)
  IN  left

OverSubscribed(lens) == \E l \in 1..MAXBITS : Left(lens)[l] < 0

\* The symbols in the order of their codes: by length, then by number.
Symbols(lens) ==
  FlattenSeq([l \in 1..MAXBITS |->
    SelectSeq([i \in DOMAIN lens |-> i - 1], LAMBDA s : lens[s + 1] = l)])

NoTable17 == [count |-> [l \in 1..MAXBITS |-> 0], symbol |-> <<>>]
Huffman(lens) == [count |-> [l \in 1..MAXBITS |-> CountOf(lens, l)], symbol |-> Symbols(lens)]

NoCode == [ok |-> FALSE, v |-> 0, pos |-> 0]

\* decode: one symbol, and the position behind it.
DecodeAt(h, p) ==
  LET at[l \in 0..MAXBITS] ==
        IF l = 0 THEN [code |-> 0, first |-> 0, index |-> 0, hit |-> FALSE]
        ELSE LET b == at[l - 1]
                 code == b.code + BitAt(p + l)
             IN  IF b.hit THEN b
                 ELSE IF Has(p, l) /\ code - h.count[l] < b.first
                 THEN [code |-> l, first |-> 0, index |-> b.index + (code - b.first), hit |-> TRUE]
                 ELSE [code |-> 2 * code, first |-> 2 * (b.first + h.count[l]),
                       index |-> b.index + h.count[l], hit |-> FALSE]
      r == at[MAXBITS]
  IN  IF r.hit /\ r.index < Len(h.symbol)
      THEN [ok |-> TRUE, v |-> h.symbol[r.index + 1], pos |-> p + r.code]
      ELSE NoCode

\* A symbol of a base and extra bits.
WithExtra(base, extra, i, p) ==
  IF i \notin DOMAIN base \/ ~Has(p, extra[i]) THEN NoCode
  ELSE [ok |-> TRUE, v |-> base[i] + BitsAt(p, extra[i]), pos |-> p + extra[i]]

-----------------------------------------------------------------------------
(* The tables of a dynamic block.                                          *)

\* The lengths of the two codes, by the code of code lengths.
LengthsFrom(clcode, p, total) ==
  LET read[n \in 0..total] ==       \* after n symbols
        IF n = 0 THEN [ok |-> TRUE, v |-> <<>>, pos |-> p]
        ELSE LET b == read[n - 1]
                 d == DecodeAt(clcode, b.pos)
                 k == d.v - MAXBITS
                 rep == WithExtra([i \in 1..3 |-> Repeats17[i][1]], [i \in 1..3 |-> Repeats17[i][2]],
                                  k, d.pos)
                 value == IF k = 1 THEN Last(b.v) ELSE 0
             IN  IF ~b.ok \/ Len(b.v) = total THEN b
                 ELSE IF ~d.ok THEN NoCode
                 ELSE IF k < 1 THEN [ok |-> TRUE, v |-> Append(b.v, d.v), pos |-> d.pos]
                 ELSE IF (k = 1 /\ b.v = <<>>) \/ ~rep.ok \/ Len(b.v) + rep.v > total THEN NoCode
                 ELSE [ok |-> TRUE, v |-> b.v \o [i \in 1..rep.v |-> value], pos |-> rep.pos]
  IN  read[total]

\* The two codes, of the lengths read.
CodesOf(lens, nlen) ==
  LET lit == SubSeq(lens.v, 1, nlen)
      dist == SubSeq(lens.v, nlen + 1, Len(lens.v))
  IN  IF ~lens.ok \/ lens.v[END + 1] = 0 \/ OverSubscribed(lit) \/ OverSubscribed(dist) THEN NoCode
      ELSE [ok |-> TRUE, pos |-> lens.pos, v |-> [lit |-> Huffman(lit), dist |-> Huffman(dist)]]

\* The counts, the code of code lengths and the two codes.
Dynamic(p) ==
  LET nlen == BitsAt(p, 2) + END + 1
      ndist == BitsAt(p + 2, 2) + 1
      ncode == BitsAt(p + 4, 2) + Len(CL_ORDER) - 3
      q == p + 6 + 2 * ncode
      cl == [s \in 1..Len(CL_ORDER) |->
               LET at == IndexFirstSubSeq(<<s - 1>>, CL_ORDER)
               IN  IF at <= ncode THEN BitsAt(p + 6 + 2 * (at - 1), 2) ELSE 0]
  IN  IF \/ ~Has(p, 6)
         \/ nlen > END + 1 + Len(LEN_BASE) \/ ndist > Len(DIST_BASE)
         \/ ~Has(p, 6 + 2 * ncode)
         \/ OverSubscribed(cl)
      THEN NoCode
      ELSE CodesOf(LengthsFrom(Huffman(cl), q, nlen + ndist), nlen)

Fixed == [lit |-> Huffman(FixedLengths), dist |-> Huffman([i \in 1..MAXDCODES |-> 2])]

-----------------------------------------------------------------------------
(* The decoder.                                                            *)

NoBlock == [at |-> "head", last |-> FALSE, left |-> 0, copy_len |-> 0, copy_dist |-> 0]
NoCodes == [lit |-> NoTable17, dist |-> NoTable17]
NoCall == [room |-> 0, got |-> <<>>]

Corrupt ==
  /\ z' = [z EXCEPT !.at = "corrupt"]
  /\ UNCHANGED <<zPos, win, wpos, zTotal, tables, zOut, call, zCrc, zSize>>

NextPlace == (wpos + 1) % WSIZE

\* emit: into the window, to the reader.
PutByte(b) ==
  /\ win' = [win EXCEPT ![wpos] = b]
  /\ wpos' = NextPlace
  /\ zTotal' = zTotal + 1
  /\ zOut' = Append(zOut, b)
  /\ call' = [call EXCEPT !.got = Append(@, b)]

Running == call.room > Len(call.got) /\ z.at \in {"header", "stored", "codes"}

CopyByteLate == win[(wpos + WSIZE - z.copy_dist + 1) % WSIZE]

CopyByte == win[(wpos + WSIZE - z.copy_dist) % WSIZE]

Copies ==
  /\ Running /\ z.copy_len > 0
  /\ PutByte(CopyByte)
  /\ z' = [z EXCEPT !.copy_len = @ - 1]
  /\ UNCHANGED <<zMade, zSrc, zPos, tables, zCrc, zSize>>

\* header: where a block of each kind begins; its kind is in the two bits
\* before p.
BadBlock == [ok |-> FALSE]
Block(at, left, codes, q) == [ok |-> TRUE, at |-> at, left |-> left, codes |-> codes, pos |-> q]
DynamicBlock(dyn) == IF dyn.ok THEN Block("codes", 0, dyn.v, dyn.pos) ELSE BadBlock

BlockAt(kind, p) ==
  LET s == Aligned(p)
      len == BitsAt(s, 2 * W)
  IN  CASE ~Has(p, 0) \/ kind = 3 -> BadBlock
        [] kind = 0 -> IF Has(s, 4 * W) /\ BitsAt(s + 2 * W, 2 * W) = 2 ^ (2 * W) - 1 - len
                       THEN Block("stored", len, tables, s + 4 * W) ELSE BadBlock
        [] kind = 1 -> Block("codes", 0, Fixed, p)
        [] OTHER -> DynamicBlock(Dynamic(p))

BlockHeader ==
  /\ Running /\ z.copy_len = 0 /\ z.at = "header"
  /\ \E block \in {BlockAt(BitsAt(zPos + 1, 2), zPos + 3)} :
         CASE z.last -> /\ z' = [z EXCEPT !.at = "done"]
                        /\ UNCHANGED <<zPos, win, wpos, zTotal, tables, zOut, call, zCrc, zSize>>
           [] ~z.last /\ block.ok ->
                /\ z' = [z EXCEPT !.at = block.at, !.last = BitAt(zPos + 1) = 1, !.left = block.left]
                /\ zPos' = block.pos /\ tables' = block.codes
                /\ UNCHANGED <<win, wpos, zTotal, zOut, call, zCrc, zSize>>
           [] OTHER -> Corrupt
  /\ UNCHANGED <<zMade, zSrc>>

Stored ==
  /\ Running /\ z.copy_len = 0 /\ z.at = "stored"
  /\ \/ /\ z.left = 0
        /\ z' = [z EXCEPT !.at = "header"]
        /\ UNCHANGED <<zPos, win, wpos, zTotal, zOut, call, tables, zCrc, zSize>>
     \/ /\ z.left > 0 /\ Has(zPos, W)
        /\ PutByte(BitsAt(zPos, W))
        /\ zPos' = zPos + W
        /\ z' = [z EXCEPT !.left = @ - 1]
        /\ UNCHANGED <<tables, zCrc, zSize>>
     \/ z.left > 0 /\ ~Has(zPos, W) /\ Corrupt
  /\ UNCHANGED <<zMade, zSrc>>

\* A distance further back than the member is long.
TooFar(dist) == dist > zTotal

Codes ==
  /\ Running /\ z.copy_len = 0 /\ z.at = "codes"
  /\ \E sym \in {DecodeAt(tables.lit, zPos)} :
     \E len \in {WithExtra(LEN_BASE, LEN_EXTRA, sym.v - END, sym.pos)} :
     \E d \in {DecodeAt(tables.dist, len.pos)} :
     \E dist \in {WithExtra(DIST_BASE, DIST_EXTRA, d.v + 1, d.pos)} :
         \/ /\ sym.ok /\ sym.v < END
            /\ PutByte(sym.v) /\ zPos' = sym.pos
            /\ UNCHANGED <<z, tables, zCrc, zSize>>
         \/ /\ sym.ok /\ sym.v = END
            /\ z' = [z EXCEPT !.at = "header"] /\ zPos' = sym.pos
            /\ UNCHANGED <<win, wpos, zTotal, zOut, call, tables, zCrc, zSize>>
         \/ /\ sym.ok /\ sym.v > END /\ len.ok /\ d.ok /\ dist.ok /\ ~TooFar(dist.v)
            /\ z' = [z EXCEPT !.copy_len = len.v, !.copy_dist = dist.v]
            /\ zPos' = dist.pos
            /\ UNCHANGED <<win, wpos, zTotal, zOut, call, tables, zCrc, zSize>>
         \/ ~sym.ok /\ Corrupt
         \/ sym.ok /\ sym.v > END /\ (~len.ok \/ ~d.ok \/ ~dist.ok \/ TooFar(dist.v)) /\ Corrupt
  /\ UNCHANGED <<zMade, zSrc>>

-----------------------------------------------------------------------------
(* Members and calls.                                                      *)

\* Crc32::update, bit by bit.
CrcByte(crc, b) ==
  LET c[i \in 0..W] == IF i = 0 THEN crc ^^ b
                       ELSE IF c[i - 1] % 2 = 1 THEN (c[i - 1] \div 2) ^^ POLY ELSE c[i - 1] \div 2
  IN  c[W]
CrcStart == 2 ^ CRCBITS - 1
CrcSum(crc) == CrcStart - crc

\* member_header: magic, method, flags, a byte nobody reads, and by the flags
\* an extra field, a name, a comment and a checksum that nobody compares.
HeaderAt(p) ==
  LET byte(q) == BitsAt(q, W)
      has(flag) == (BitsAt(p + 2 * W, 2 * W) \div flag) % 2 = 1
      past(q, n) == IF q >= 0 /\ Has(q, n) THEN q + n ELSE -1
      zeros(q) == {k \in 0..(Len(zSrc) \div W) : q >= 0 /\ Has(q, (k + 1) * W) /\ byte(q + k * W) = 0}
      text(q) == IF zeros(q) = {} THEN -1 ELSE q + (Min(zeros(q)) + 1) * W
      fields == past(p, 5 * W)
      name == IF has(1) THEN past(past(fields, 2 * W), W * BitsAt(fields, 2 * W)) ELSE fields
      comment == IF has(2) THEN text(name) ELSE name
      sum == IF has(4) THEN text(comment) ELSE comment
      end == IF has(8) THEN past(sum, 2 * W) ELSE sum
  IN  IF fields < 0 \/ byte(p) # END - 1 \/ byte(p + W) # 1 \/ end < 0 THEN NoCode
      ELSE [ok |-> TRUE, v |-> 0, pos |-> end]

MemberHeader ==
  /\ z.at = "head"
  /\ LET h == HeaderAt(zPos)
     IN  IF ~h.ok THEN Corrupt
         ELSE /\ z' = [NoBlock EXCEPT !.at = "header"]
              /\ zPos' = h.pos
              /\ win' = [i \in 0..(WSIZE - 1) |-> 0] /\ wpos' = 0 /\ zTotal' = 0
              /\ tables' = NoCodes /\ zCrc' = CrcStart /\ zSize' = 0
              /\ UNCHANGED <<zOut, call>>
  /\ UNCHANGED <<zMade, zSrc>>

ReadCall ==
  /\ call.room = 0 /\ z.at \notin {"head", "ended", "corrupt"}
  /\ \E n \in ReadSizes : call' = [room |-> n, got |-> <<>>]
  /\ UNCHANGED <<zMade, zSrc, zPos, z, win, wpos, zTotal, tables, zOut, zCrc, zSize>>

\* A call ends with a full buffer, or with what there is when the last block
\* is done.
CallEnds ==
  /\ call.room > 0 /\ call.got # <<>> /\ z.at # "corrupt"
  /\ Len(call.got) = call.room \/ z.at = "done"
  /\ zCrc' = FoldLeft(CrcByte, zCrc, call.got)
  /\ zSize' = (zSize + Len(call.got)) % (2 ^ (2 * W))
  /\ call' = NoCall
  /\ UNCHANGED <<zMade, zSrc, zPos, z, win, wpos, zTotal, tables, zOut>>

MemberEnd ==
  /\ call.room > 0 /\ call.got = <<>> /\ z.at = "done"
  /\ LET p == Aligned(zPos)
         q == p + CRCBITS + 2 * W
     IN  IF \/ ~Has(p, CRCBITS + 2 * W)
            \/ BitsAt(p, CRCBITS) # CrcSum(zCrc)
            \/ BitsAt(p + CRCBITS, 2 * W) # zSize
         THEN Corrupt
         ELSE /\ zPos' = q
              /\ z' = [z EXCEPT !.at = IF q = Len(zSrc) THEN "ended" ELSE "head"]
              /\ UNCHANGED <<win, wpos, zTotal, tables, zOut, call, zCrc, zSize>>
  /\ UNCHANGED <<zMade, zSrc>>

-----------------------------------------------------------------------------
(* The reference: what a script means, and its encoding.                   *)
(* A member is a header flag word and blocks; a block is stored bytes, or  *)
(* operations under the fixed code or under a code of its own; an          *)
(* operation is <<"lit", byte>> or <<"copy", length, distance>>.           *)

RanOn(out, op) ==
  IF op[1] = "lit" THEN Append(out, op[2])
  ELSE LET r[n \in 0..op[2]] == IF n = 0 THEN out
                                ELSE Append(r[n - 1], r[n - 1][Len(out) + n - op[3]])
       IN  r[op[2]]
Content(member) == FoldLeft(RanOn, <<>>, FlattenSeq([b \in DOMAIN member.blocks |-> member.blocks[b].ops]))
Contents(script, n) == FlattenSeq([m \in 1..n |-> Content(script[m])])

Bit(v, i) == (v \div 2 ^ i) % 2
Low(v, n) == [i \in 1..n |-> Bit(v, i - 1)]
High(v, n) == [i \in 1..n |-> Bit(v, n - i)]

\* The code of a symbol: the share of the code space that shorter codes and
\* equally long codes of smaller symbols take.
Kraft(lens, l, S) == SumSeq([i \in DOMAIN lens |-> IF i \in S /\ lens[i] > 0 THEN 2 ^ (l - lens[i]) ELSE 0])
CodeWord(lens, s) ==
  LET l == lens[s + 1]
      before == {i \in DOMAIN lens : lens[i] < l \/ (lens[i] = l /\ i < s + 1)}
  IN  High(Kraft(lens, l, before), l)

SymbolFor(base, extra, v) == CHOOSE i \in DOMAIN base : v >= base[i] /\ v < base[i] + 2 ^ extra[i]
OpBits(op, lit, dist) ==
  IF op[1] = "lit" THEN CodeWord(lit, op[2])
  ELSE LET i == SymbolFor(LEN_BASE, LEN_EXTRA, op[2])
           j == SymbolFor(DIST_BASE, DIST_EXTRA, op[3])
       IN  CodeWord(lit, END + i) \o Low(op[2] - LEN_BASE[i], LEN_EXTRA[i])
             \o CodeWord(dist, j - 1) \o Low(op[3] - DIST_BASE[j], DIST_EXTRA[j])
OpsBits(b, lit, dist) ==
  FlattenSeq([i \in DOMAIN b.ops |-> OpBits(b.ops[i], lit, dist)]) \o CodeWord(lit, END)

\* Code lengths as a script writes them: <<"len", l>> or <<"rep", k, n>>,
\* with repeat symbol k for n lengths.
Spread(lens, item) ==
  IF item[1] = "len" THEN Append(lens, item[2])
  ELSE lens \o [i \in 1..item[3] |-> IF item[2] = 1 THEN Last(lens) ELSE 0]
LensOf(b) == FoldLeft(Spread, <<>>, b.items)
ItemBits(b, item) ==
  IF item[1] = "len" THEN CodeWord(b.cl, item[2])
  ELSE CodeWord(b.cl, MAXBITS + item[2]) \o Low(item[3] - Repeats17[item[2]][1], Repeats17[item[2]][2])
DynamicBits(b) ==
  LET lens == LensOf(b)
      lit == SubSeq(lens, 1, b.nlen)
      dist == SubSeq(lens, b.nlen + 1, Len(lens))
  IN  Low(b.nlen - END - 1, 2) \o Low(Len(dist) - 1, 2) \o Low(3, 2)
        \o FlattenSeq([i \in DOMAIN CL_ORDER |-> Low(b.cl[CL_ORDER[i] + 1], 2)])
        \o FlattenSeq([i \in DOMAIN b.items |-> ItemBits(b, b.items[i])])
        \o OpsBits(b, lit, dist)

Padded(s) == s \o [i \in 1..(Aligned(Len(s)) - Len(s)) |-> 0]
BlockBits(s, b, last) ==
  LET h(k) == s \o <<IF last THEN 1 ELSE 0>> \o Low(k, 2)
  IN  CASE b.kind = "stored" ->
             Padded(h(0)) \o Low(Len(b.ops), 2 * W) \o Low(2 ^ (2 * W) - 1 - Len(b.ops), 2 * W)
               \o FlattenSeq([i \in DOMAIN b.ops |-> Low(b.ops[i][2], W)])
        [] b.kind = "fixed" -> h(1) \o OpsBits(b, FixedLengths, [i \in 1..MAXDCODES |-> 2])
        [] OTHER -> h(2) \o DynamicBits(b)

\* The checksum by long division: the message, its first CRCBITS bits
\* inverted, over the polynomial, most significant coefficient first.
Remainder(bits) ==
  LET n == CRCBITS
      poly == <<1>> \o [i \in 1..n |-> Bit(POLY, i - 1)]
      all == [i \in 1..(Len(bits) + n) |->
                LET b == IF i <= Len(bits) THEN bits[i] ELSE 0 IN IF i <= n THEN 1 - b ELSE b]
      step(a, i) == IF a[i] = 0 THEN a
                    ELSE [j \in DOMAIN a |-> IF j \in i..(i + n) THEN (a[j] + poly[j - i + 1]) % 2 ELSE a[j]]
      rest == FoldLeft(step, all, [i \in 1..Len(bits) |-> i])
  IN  [i \in 1..n |-> 1 - rest[Len(bits) + i]]

HeaderBits(flags) ==
  Low(END - 1, W) \o Low(1, W) \o Low(flags, 2 * W) \o Low(0, W)
    \o (IF flags % 2 = 1 THEN Low(1, 2 * W) \o Low(2, W) ELSE <<>>)
    \o (IF (flags \div 2) % 2 = 1 THEN Low(1, W) \o Low(0, W) ELSE <<>>)
    \o (IF (flags \div 4) % 2 = 1 THEN Low(2, W) \o Low(3, W) \o Low(0, W) ELSE <<>>)
    \o (IF flags >= 8 THEN Low(9, 2 * W) ELSE <<>>)
MemberBits(s, m) ==
  LET n == Len(m.blocks)
      body == FoldLeft(LAMBDA t, i : BlockBits(t, m.blocks[i], i = n), s \o HeaderBits(m.flags),
                       [i \in 1..n |-> i])
      out == Content(m)
  IN  Padded(body) \o Remainder(FlattenSeq([i \in DOMAIN out |-> Low(out[i], W)]))
        \o Low(Len(out) % 2 ^ (2 * W), 2 * W)
StreamOf(script, n) == FoldLeft(MemberBits, <<>>, SubSeq(script, 1, n))

-----------------------------------------------------------------------------
ZStarts ==
  /\ zPos = 0 /\ z = NoBlock
  /\ win = [i \in 0..(WSIZE - 1) |-> 0] /\ wpos = 0 /\ zTotal = 0
  /\ tables = NoCodes /\ zOut = <<>> /\ call = NoCall /\ zCrc = CrcStart /\ zSize = 0

\* A stream is what a script makes, whole or cut, or any other bits.
Stream ==
  \/ \E script \in Scripts :
       LET whole == StreamOf(script, Len(script))
       IN  \E n \in 0..Len(whole) :
             zMade = [how |-> "script", of |-> script, cut |-> n < Len(whole)] /\ zSrc = SubSeq(whole, 1, n)
  \/ zMade = [how |-> "any", of |-> <<>>, cut |-> FALSE] /\ zSrc \in OtherStreams

ZInit == Stream /\ ZStarts

ZNext ==
  \/ MemberHeader \/ ReadCall \/ Copies \/ BlockHeader \/ Stored \/ Codes
  \/ CallEnds \/ MemberEnd

ZSpec == ZInit /\ [][ZNext]_zVars

-----------------------------------------------------------------------------
ZTypeOK ==
  /\ zPos \in 0..Len(zSrc)
  /\ z.at \in {"head", "header", "stored", "codes", "done", "ended", "corrupt"}
  /\ win \in [0..(WSIZE - 1) -> 0..(END - 1)] /\ wpos \in 0..(WSIZE - 1)
  /\ z.copy_dist \in 0..WSIZE /\ Len(call.got) <= call.room
  /\ zCrc \in 0..CrcStart /\ zSize \in 0..(2 ^ (2 * W) - 1)

\* The window holds the last bytes of the member, and a copy reads only
\* bytes that came out before it, whatever the stream says and however the
\* calls of the reader cut it up (Inflate::emit, Inflate::symbol).
WindowIsTheTail ==
  z.at # "head" =>
    /\ \A i \in 1..Len(zOut) : i <= zTotal /\ i <= WSIZE
         => win[(wpos + WSIZE - i) % WSIZE] = zOut[Len(zOut) - i + 1]
    /\ z.copy_len > 0 => z.copy_dist <= zTotal

\* A stream of the reference encoder decodes to what its script means, and
\* one that is cut off gives a beginning of it: the end is reported only
\* behind the trailer of a member, with all the members before it out, and
\* an uncut stream is never corrupt (Gzip::read, Gzip::member_end).
DecodesTheReference ==
  zMade.how = "script" =>
    /\ IsPrefix(zOut, Contents(zMade.of, Len(zMade.of)))
    /\ z.at = "ended" => \E n \in DOMAIN zMade.of :
                            zOut = Contents(zMade.of, n) /\ zSrc = StreamOf(zMade.of, n)
    /\ z.at = "corrupt" => zMade.cut

\* The codes of a running block are the canonical prefix code of some set of
\* lengths: no two symbols share a code word or begin one another's, which a
\* set of lengths that takes more than the code space would do
\* (Huffman::new).
CodesArePrefixFree ==
  \A t \in {tables.lit, tables.dist} :
    LET spent[l \in 0..MAXBITS] == IF l = 0 THEN 0 ELSE 2 * spent[l - 1] + t.count[l]
    IN  \A l \in 1..MAXBITS : spent[l] <= 2 ^ l

\* What the decoder has written, and the codes it takes, whatever bits arrive.
ZInv ==
  /\ ZTypeOK
  /\ WindowIsTheTail
  /\ DecodesTheReference
  /\ CodesArePrefixFree
==============================================================================
