-------------------------------- MODULE Dns --------------------------------
(***************************************************************************)
(* hopdns: one question in, one answer out (server.rs), with the message   *)
(* format on both sides (wire.rs), the static CNAMEs (cnames.rs) and the   *)
(* cache the watchers fill (cache.rs; Watch models how).                   *)
(*                                                                         *)
(* Messages are sequences of bytes, so every length, count, offset and     *)
(* compression pointer is the real one.  A name is a sequence of labels of *)
(* one byte each; UDP_MAX and EDNS_MAX are constants, so that a few        *)
(* addresses fill an answer.                                               *)
(***************************************************************************)
EXTENDS Integers, Sequences, FiniteSets, SequencesExt

CONSTANTS
  UDP_MAX,     \* largest answer without EDNS
  EDNS_MAX,    \* largest answer with EDNS
  CLUSTERS,    \* the clusters, in the table's order
  JobTables,   \* what a watcher may put in for a cluster: job -> addresses
  CnameSets,   \* configured CNAMEs: name (a leading 42 is the *) -> target
  Questions    \* what clients ask, see Question

VARIABLES
  cnames,  \* the configuration's table
  cache,   \* cluster -> its table of jobs, or NoTable
  asking,  \* the question, NoQuestion before it
  answer   \* the bytes of the answer, <<>> when there is none

dnsVars == <<cnames, cache, asking, answer>>

ZONE == <<122>>
NoTable == [x \in {-1} |-> <<>>]
NoQuestion == [none |-> TRUE]
HEADER_LEN == 12
NAME_MAX == 255
LABEL_MAX == 63
OPT_LEN == 11
TTL == 5

A == 1
CNAME == 5
SOA == 6
OPT == 41
ANY == 255
CLASS_IN == 1

NoError == 0
FormErr == 1
ServFail == 2
NxDomain == 3
NotImp == 4
RefusedCode == 5

-----------------------------------------------------------------------------
(* Bytes.                                                                  *)

Be16(n) == <<n \div 256, n % 256>>

Be32(n) == <<0, 0>> \o Be16(n)
Get16(m, i) == IF i + 1 \in DOMAIN m THEN 256 * m[i] + m[i + 1] ELSE -1
Zeros(n) == [k \in 1..n |-> 0]

(* put_name.  Positions in this module count from 1.                       *)
PutName(name) == FlattenSeq([k \in DOMAIN name |-> <<1, name[k]>>]) \o <<0>>

Failed == 0

(* skip_plain_name: past a name without pointers, or Failed.               *)
RECURSIVE SkipPlain(_, _, _)
SkipPlain(m, i, start) ==
  CASE i \notin DOMAIN m -> Failed
    [] m[i] = 0 -> IF i + 1 - start <= NAME_MAX THEN i + 1 ELSE Failed
    [] m[i] > LABEL_MAX -> Failed
    [] OTHER -> SkipPlain(m, i + 1 + m[i], start)

(* skip_name: a pointer ends the name.                                     *)
RECURSIVE SkipName(_, _)
SkipName(m, i) ==
  CASE i \notin DOMAIN m -> Failed
    [] m[i] = 0 -> i + 1
    [] m[i] \in 1..63 -> SkipName(m, i + 1 + m[i])
    [] m[i] >= 192 /\ i + 1 \in DOMAIN m -> i + 2
    [] OTHER -> Failed

(* find_opt: the size an OPT record among the next records offers, or -1.  *)
RECURSIVE FindOpt(_, _, _)
FindOpt(m, i, count) ==
  LET end == SkipName(m, i)
      rdlen == Get16(m, end + 8)
  IN  CASE count = 0 \/ end = Failed \/ rdlen < 0 -> -1
        [] Get16(m, end) = OPT -> Get16(m, end + 2)
        [] OTHER -> FindOpt(m, end + 10 + rdlen, count - 1)

(* read_name of the decoder: pointers may only point back.                 *)
RECURSIVE ReadName(_, _, _)
ReadName(m, i, name) ==
  CASE m[i] = 0 -> name
    [] m[i] \in 1..63 -> ReadName(m, i + 1 + m[i], Append(name, m[i + 1]))
    [] OTHER -> ReadName(m, (Get16(m, i) % 16384) + 1, name)

-----------------------------------------------------------------------------
(* parse_query: Drop, an error code to answer with, or the question.       *)

Drop == [kind |-> "drop"]
Malformed(code, id, flags) == [kind |-> "bad", code |-> code, id |-> id, flags |-> flags]

ParseQuery(m) ==
  LET id == Get16(m, 1)
      flags == Get16(m, 3)
      end == SkipPlain(m, HEADER_LEN + 1, HEADER_LEN + 1)
      rrs == Get16(m, 7) + Get16(m, 9) + Get16(m, 11)
  IN  CASE Len(m) < HEADER_LEN \/ flags \div 32768 = 1 -> Drop
        [] (flags \div 2048) % 16 # 0 -> Malformed(NotImp, id, flags)
        [] Get16(m, 5) # 1 \/ end = Failed \/ Get16(m, end + 2) < 0 -> Malformed(FormErr, id, flags)
        [] OTHER ->
             [kind |-> "query", id |-> id, flags |-> flags,
              question |-> SubSeq(m, HEADER_LEN + 1, end + 3),
              qname |-> SubSeq(m, HEADER_LEN + 1, end - 1),
              qtype |-> Get16(m, end), qclass |-> Get16(m, end + 2),
              edns |-> FindOpt(m, end + 4, rrs)]

(* name_text: lower case; a byte that is no printable character, or a dot, *)
(* makes no name.                                                          *)
RECURSIVE Labels(_)
Labels(w) == IF w[1] = 0 THEN <<>> ELSE <<SubSeq(w, 2, w[1] + 1)>> \o Labels(SubSeq(w, w[1] + 2, Len(w)))

Lower(b) == IF b \in 65..90 THEN b + 32 ELSE b
IsText(w) == \A l \in ToSet(Labels(w)) : \A b \in ToSet(l) : b \in 33..126 /\ b # 46
NameText(w) == [k \in DOMAIN Labels(w) |-> Lower(Labels(w)[k][1])]

-----------------------------------------------------------------------------
(* Reply: what is written so far, its counts and its limit.                *)

Start(q, limit) ==
  [id |-> q.id, flags |-> q.flags, code |-> NoError, question |-> q.question, body |-> <<>>,
   an |-> 0, ns |-> 0, edns |-> q.edns >= 0, limit |-> limit, ok |-> TRUE]

Bare(bad) ==
  [id |-> bad.id, flags |-> bad.flags, code |-> bad.code, question |-> <<>>, body |-> <<>>,
   an |-> 0, ns |-> 0, edns |-> FALSE, limit |-> UDP_MAX, ok |-> TRUE]

DnsRoom(r) ==
  r.limit - (HEADER_LEN + Len(r.question) + Len(r.body) + (IF r.edns THEN OPT_LEN ELSE 0))

Put(r, bytes) == IF Len(bytes) > DnsRoom(r) THEN [r EXCEPT !.ok = FALSE] ELSE [r EXCEPT !.body = @ \o bytes]

(* A record of the name asked for: a pointer to it stands for its name.    *)
Rr(type, rdata) ==
  <<192, HEADER_LEN>> \o Be16(type) \o Be16(CLASS_IN) \o Be32(TTL) \o Be16(Len(rdata)) \o rdata

Answered(r, bytes) ==
  LET s == Put(r, bytes)
  IN  IF s.ok THEN [s EXCEPT !.an = @ + 1] ELSE s

AnswerA(r, ip) == Answered(r, Rr(A, <<10, 0, 0, ip>>))
AnswerCname(r, target) == Answered(r, Rr(CNAME, PutName(target)))

(* authority_soa writes the zone's name out, and ns. and hostmaster. of it.*)
AuthoritySoa(r, zone) ==
  LET rdata == <<2, 110, 115>> \o PutName(zone)
               \o <<10, 104, 111, 115, 116, 109, 97, 115, 116, 101, 114>> \o PutName(zone)
               \o Be32(1) \o Be32(TTL) \o Be32(TTL) \o Be32(TTL) \o Be32(TTL)
      s == Put(r, PutName(zone) \o Be16(SOA) \o Be16(CLASS_IN) \o Be32(TTL) \o Be16(Len(rdata)) \o rdata)
  IN  IF s.ok THEN [s EXCEPT !.ns = @ + 1] ELSE s

(* finish: the flags QR and AA, the opcode, RD and CD of the question, and *)
(* an OPT record of our own for a client that sent one.                    *)
Finish(r) ==
  LET rd == (r.flags \div 256) % 2
      cd == (r.flags \div 16) % 2
      op == (r.flags \div 2048) % 16
      flags == 32768 + op * 2048 + 1024 + rd * 256 + (cd * 16) + r.code
  IN  Be16(r.id) \o Be16(flags) \o Be16(IF r.question = <<>> THEN 0 ELSE 1) \o Be16(r.an)
      \o Be16(r.ns) \o Be16(IF r.edns THEN 1 ELSE 0) \o r.question \o r.body
      \o (IF r.edns THEN <<0>> \o Be16(OPT) \o Be16(EDNS_MAX) \o Zeros(6) ELSE <<>>)

-----------------------------------------------------------------------------
(* The CNAME table.                                                        *)

Wild(name) == Len(name) > 1 /\ name[1] = 42
Exact == {n \in DOMAIN cnames : ~Wild(n)}
WildParents == {Tail(n) : n \in {w \in DOMAIN cnames : Wild(w)}}
InZone(name, zone) == Len(zone) <= Len(name) /\ SubSeq(name, Len(name) - Len(zone) + 1, Len(name)) = zone

RECURSIVE Ancestor(_)
Ancestor(name) ==
  IF Len(name) <= 1 THEN <<>>
  ELSE IF Tail(name) \in WildParents THEN Tail(name) ELSE Ancestor(Tail(name))

LookupWildFirst(name) ==
  IF Ancestor(name) # <<>> THEN <<cnames[<<42>> \o Ancestor(name)]>>
  ELSE IF name \in Exact THEN <<cnames[name]>> ELSE <<>>

(* lookup: the name itself, or the nearest ancestor with a wildcard.       *)
LookupCname(name) ==
  IF name \in Exact THEN <<cnames[name]>>
  ELSE IF Ancestor(name) # <<>> THEN <<cnames[<<42>> \o Ancestor(name)]>> ELSE <<>>

(* zone_of: the longest zone with a CNAME that holds the name.             *)
ZonesOf(name) ==
  {z \in {Tail(n) : n \in Exact} \cup WildParents : z # <<>> /\ InZone(name, z)}
ZoneOf(name) == CHOOSE z \in ZonesOf(name) : \A y \in ZonesOf(name) : Len(y) <= Len(z)

-----------------------------------------------------------------------------
(* The cache.                                                              *)

Known == SelectSeq(CLUSTERS, LAMBDA c : cache[c] # NoTable)
Merged(job) == [k \in DOMAIN SelectSeq(Known, LAMBDA c : job \in DOMAIN cache[c]) |->
                  cache[SelectSeq(Known, LAMBDA c : job \in DOMAIN cache[c])[k]][job]]
HasCluster(name) == name \in ToSet(Known)
GetCluster(c, job) == IF HasCluster(c) /\ job \in DOMAIN cache[c] THEN <<cache[c][job]>> ELSE <<>>

ClusterNamed(name) == HasCluster(name)

(* What a name in our zone stands for: the addresses to write, in order,   *)
(* whether they come from every cluster, and whether the name exists.      *)
ServiceLookup(name) ==
  LET prefix == SubSeq(name, 1, Len(name) - Len(ZONE))
      cluster == IF Len(prefix) = 2 THEN GetCluster(prefix[2], prefix[1]) ELSE <<>>
  IN  CASE prefix = <<>> -> [ips |-> <<>>, merged |-> FALSE, exists |-> TRUE]
        [] Len(prefix) = 1 -> [ips |-> FlattenSeq(Merged(prefix[1])), merged |-> TRUE,
                               exists |-> Merged(prefix[1]) # <<>> \/ ClusterNamed(prefix[1])]
        [] OTHER -> [ips |-> FlattenSeq(cluster), merged |-> FALSE, exists |-> cluster # <<>>]

(* The loop over one cluster, and write_merged: the first that fit, and    *)
(* those of several clusters (once) each address once.                     *)
RECURSIVE WriteAll(_, _, _, _)
WriteAll(r, ips, once, seen) ==
  IF ips = <<>> THEN r
  ELSE IF once /\ Head(ips) \in seen THEN WriteAll(r, Tail(ips), once, seen)
  ELSE LET s == AnswerA(r, Head(ips))
       IN  IF s.ok THEN WriteAll(s, Tail(ips), once, seen \cup {Head(ips)}) ELSE r

Service(r, name, qtype) ==
  LET found == ServiceLookup(name)
      s == IF qtype \in {A, ANY} THEN WriteAll(r, found.ips, found.merged, {}) ELSE r
      t == [s EXCEPT !.code = IF found.exists THEN NoError ELSE NxDomain]
  IN  IF s.an = 0 THEN AuthoritySoa(t, ZONE) ELSE s

(* answer: a CNAME wins, then our zone, then a zone of CNAMEs.             *)
AnswerQuery(q, r) ==
  LET name == NameText(q.qname)
  IN  CASE ~IsText(q.qname) \/ q.qclass \notin {CLASS_IN, 255} -> [r EXCEPT !.code = RefusedCode]
        [] LookupCname(name) # <<>> -> AnswerCname(r, LookupCname(name)[1])
        [] InZone(name, ZONE) -> Service(r, name, q.qtype)
        [] ZonesOf(name) # {} -> AuthoritySoa([r EXCEPT !.code = NxDomain], ZoneOf(name))
        [] OTHER -> [r EXCEPT !.code = RefusedCode]

Limit(edns) ==
  CASE edns < UDP_MAX -> UDP_MAX [] edns > EDNS_MAX -> EDNS_MAX [] OTHER -> edns

(* handle: the answer's bytes, <<>> for none.  An answer that does not fit *)
(* becomes SERVFAIL.                                                       *)
Handle(m) ==
  LET q == ParseQuery(m)
      r == AnswerQuery(q, Start(q, Limit(q.edns)))
  IN  CASE q = Drop -> <<>>
        [] q.kind = "bad" -> Finish(Bare(q))
        [] DnsRoom(Start(q, Limit(q.edns))) < 0 -> <<>>
        [] OTHER -> Finish(IF r.ok THEN r ELSE [r EXCEPT !.code = ServFail])

-----------------------------------------------------------------------------
(* The client: a well-formed question (encode_query), perhaps with a       *)
(* record before the OPT, or one broken in a way.                          *)

EncodeQuery(q) ==
  LET extra == IF q.extra THEN <<192, HEADER_LEN>> \o Be16(A) \o Be16(1) \o Be32(0) \o Be16(4) \o Zeros(4)
               ELSE <<>>
      opt == IF q.edns >= 0 THEN <<0>> \o Be16(OPT) \o Be16(q.edns) \o Zeros(6) ELSE <<>>
      rrs == (IF q.extra THEN 1 ELSE 0) + (IF q.edns >= 0 THEN 1 ELSE 0)
  IN  Be16(7) \o Be16(256) \o Be16(1) \o Be16(0) \o Be16(0) \o Be16(rrs)
      \o PutName(q.name) \o Be16(q.qtype) \o Be16(q.qclass) \o extra \o opt

Sent(q) ==
  LET m == EncodeQuery(q)
  IN  CASE q.how = "response" -> [m EXCEPT ![3] = @ + 128]
        [] q.how = "opcode" -> [m EXCEPT ![3] = @ + 16]
        [] q.how = "two" -> [m EXCEPT ![6] = 2]
        [] q.how = "pointer" -> [m EXCEPT ![13] = 192]
        [] q.how = "cut" -> SubSeq(m, 1, q.cut)
        [] OTHER -> m

(* Decoding an answer, as a resolver does (decode).                        *)
RECURSIVE Records(_, _, _)
Records(m, i, n) ==
  IF n = 0 THEN <<>>
  ELSE LET at == SkipName(m, i)
           rd == at + 10
       IN  <<[name |-> ReadName(m, i, <<>>), type |-> Get16(m, at),
              data |-> IF Get16(m, at) = A THEN m[rd + 3] ELSE ReadName(m, rd, <<>>)]>>
           \o Records(m, rd + Get16(m, at + 8), n - 1)

Decode(m) ==
  LET at == IF Get16(m, 5) = 0 THEN HEADER_LEN + 1 ELSE SkipName(m, HEADER_LEN + 1) + 4
      recs == Records(m, at, Get16(m, 7) + Get16(m, 9))
  IN  [code |-> Get16(m, 3) % 16, an |-> SubSeq(recs, 1, Get16(m, 7)),
       ns |-> SubSeq(recs, Get16(m, 7) + 1, Len(recs))]

-----------------------------------------------------------------------------
DnsInit ==
  /\ cnames \in CnameSets
  /\ cache = [c \in ToSet(CLUSTERS) |-> NoTable]
  /\ asking = NoQuestion /\ answer = <<>>

(* A watcher's update: a whole cluster, or one job of it.                  *)
UpdateCluster(c) ==
  /\ asking = NoQuestion
  /\ \E t \in JobTables : cache' = [cache EXCEPT ![c] = t]
  /\ UNCHANGED <<cnames, asking, answer>>

SetJob(c) ==
  /\ asking = NoQuestion
  /\ \E t \in JobTables : \E j \in DOMAIN t :
       cache' = [cache EXCEPT ![c] = IF @ = NoTable THEN [x \in {j} |-> t[j]]
                                     ELSE [x \in DOMAIN @ \cup {j} |-> IF x = j THEN t[j] ELSE @[x]]]
  /\ UNCHANGED <<cnames, asking, answer>>

AskDns(q) ==
  /\ asking = NoQuestion
  /\ asking' = q
  /\ answer' = Handle(Sent(q))
  /\ UNCHANGED <<cnames, cache>>

DnsNext ==
  \/ \E c \in ToSet(CLUSTERS) : UpdateCluster(c) \/ SetJob(c)
  \/ \E q \in Questions : AskDns(q)

DnsSpec == DnsInit /\ [][DnsNext]_dnsVars

-----------------------------------------------------------------------------
DnsTypeOK ==
  /\ asking = NoQuestion \/ asking \in Questions
  /\ \A i \in DOMAIN answer : answer[i] \in 0..255
  /\ \A c \in ToSet(CLUSTERS) : cache[c] # NoTable => DOMAIN cache[c] \subseteq UNION {DOMAIN t : t \in JobTables}

Asked == asking # NoQuestion /\ asking.how = "well" /\ asking.qclass = CLASS_IN
         /\ \A b \in ToSet(asking.name) : b # 46
AskedName == [k \in DOMAIN asking.name |-> Lower(asking.name[k])]
Got == Decode(answer)

(* What the tables say: the addresses a name stands for.                   *)
DnsAddresses(name) ==
  CASE Len(name) = 2 /\ name[2] = ZONE[1] ->
         UNION {ToSet(cache[c][name[1]]) : c \in {d \in ToSet(CLUSTERS) : cache[d] # NoTable /\ name[1] \in DOMAIN cache[d]}}
    [] Len(name) = 3 /\ name[3] = ZONE[1] ->
         IF name[2] \in ToSet(CLUSTERS) /\ cache[name[2]] # NoTable /\ name[1] \in DOMAIN cache[name[2]]
         THEN ToSet(cache[name[2]][name[1]]) ELSE {}
    [] OTHER -> {}

(* An exact CNAME, else the wildcard closest above the name.               *)
Target(name) ==
  LET above == {k \in 1..(Len(name) - 1) : <<42>> \o SubSeq(name, k + 1, Len(name)) \in DOMAIN cnames}
  IN  IF name \in DOMAIN cnames /\ ~Wild(name) THEN {cnames[name]}
      ELSE {cnames[<<42>> \o SubSeq(name, k + 1, Len(name))] : k \in {x \in above : \A y \in above : x <= y}}

(* What a resolver decodes is what the tables say: the CNAME where there   *)
(* is one, else each address of the name at most once, and all of them     *)
(* unless one more record would not fit; every record carries the name     *)
(* asked for, and only an answer without records carries a SOA.            *)
AnswersAreTheTables ==
  Asked /\ Got.code # ServFail =>
    /\ \A k \in DOMAIN Got.an : Got.an[k].name = asking.name
    /\ IF Target(AskedName) # {}
       THEN Len(Got.an) = 1 /\ {Got.an[1].data} = Target(AskedName)
       ELSE LET ips == {Got.an[k].data : k \in DOMAIN Got.an}
                want == IF asking.qtype \in {A, ANY} THEN DnsAddresses(AskedName) ELSE {}
            IN  /\ ips \subseteq want /\ Len(Got.an) = Cardinality(ips)
                /\ ips = want \/ Len(answer) + 16 > Limit(asking.edns)
                /\ (Got.an = <<>> /\ Got.code # RefusedCode) <=> Len(Got.ns) = 1

(* No answer is longer than the client can take: UDP_MAX, or what its OPT  *)
(* offers up to EDNS_MAX - with room kept for the OPT of the answer.       *)
FitsTheAsker ==
  asking # NoQuestion => Len(answer) <= IF asking.how = "well" THEN Limit(asking.edns) ELSE UDP_MAX

(* A message that is no question gets no data: a response or a message cut *)
(* inside the header gets nothing (so two servers never answer each        *)
(* other), the rest an error without records.                              *)
NoDataForTheBroken ==
  asking # NoQuestion /\ asking.how # "well" /\ answer # <<>> =>
    /\ asking.how # "response" /\ (asking.how = "cut" => asking.cut >= HEADER_LEN)
    /\ Got.code \in {FormErr, NotImp} \/ asking.how = "cut"
    /\ asking.how = "cut" /\ Got.an # <<>> =>
         asking.cut >= HEADER_LEN + Len(PutName(asking.name)) + 4

(* NXDOMAIN covers everything below a name (RFC 8020; server.rs:20 says    *)
(* why a cluster's name must not get it), so no service's address may be   *)
(* found below a name that gets it.                                        *)
NxHidesNoService ==
  Asked /\ Got.code = NxDomain =>
    \A q \in Questions : DnsAddresses(q.name) # {} /\ InZone(q.name, AskedName) => q.name = asking.name

(* The same for every record the server would give, CNAMEs included.       *)
NxHidesNothing ==
  Asked /\ Got.code = NxDomain =>
    \A q \in Questions : q.how = "well" /\ InZone(q.name, AskedName) =>
      LookupCname(q.name) = <<>> /\ DnsAddresses(q.name) = {}

\* What holds of every answer, to the byte.
DnsInv ==
  /\ DnsTypeOK
  /\ AnswersAreTheTables
  /\ FitsTheAsker
  /\ NoDataForTheBroken
  /\ NxHidesNoService
==============================================================================
