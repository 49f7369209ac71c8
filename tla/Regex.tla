------------------------------- MODULE Regex -------------------------------
(***************************************************************************)
(* The regular expressions of the tunnel's ingress paths (regex.rs): the   *)
(* recursive-descent parser, the code generator and the Pike machine that  *)
(* runs all threads of a program in step over the text.                    *)
(*                                                                         *)
(* An instance draws an expression as a tree, writes it down as a pattern, *)
(* and lets the code parse, compile and run that pattern on a text.  The   *)
(* reference is what the tree denotes: the set of positions where a match  *)
(* that starts at i may end (Ends).                                        *)
(*                                                                         *)
(* A text is made of a small alphabet with a newline, a brace and a letter *)
(* in two cases; a set of 256 bits is a subset of it.                      *)
(***************************************************************************)
EXTENDS Integers, Sequences, FiniteSets, SequencesExt

CONSTANTS
  MAX_PROG,    \* instructions of the largest program
  MAX_NEST,    \* deepest parentheses
  MAX_REPEAT,  \* largest number in braces
  MAX_JUMPS,   \* jumps of one alternative
  MaxText,     \* bound: length of a text
  Trees,       \* expressions to draw from
  Folds        \* whether the pattern starts with (?i)

VARIABLES
  reTree,  \* the expression and whether it folds case
  reProg,  \* the compiled program, or Refused
  text,    \* the text; NoText before it is chosen
  at,      \* position of the machine, 1..Len(text)+1; 0 when it is done
  threads, \* program counters alive at this position
  matched

reVars == <<reTree, reProg, text, at, threads, matched>>

Refused == <<>>    \* a program ends in match, so it is never empty
NoText == <<"?">>

(* The characters of the patterns in ASCII order, and those of the texts.  *)
Ascii == <<"tab", "nl", "vt", "ff", "cr", "$", "(", ")", "*", "+", ",", "-", ".", "0", "1", "2", "3", ":",
           "=", "?", "A", "D", "[", "\\", "]", "^", "a", "b", "d", "i", "n", "s", "w", "z", "{", "|", "}">>
Alphabet == {"nl", "0", "A", "a", "{"}
Ord(c) == CHOOSE n \in DOMAIN Ascii : Ascii[n] = c
Between(lo, hi) == {Ascii[n] : n \in Ord(lo)..Ord(hi)} \cap Alphabet
Punctuation == {"$", "(", ")", "*", "+", ",", "-", ".", ":", "=", "?", "[", "\\", "]", "^", "{", "|", "}"}

BothCases(S) == IF S \cap {"a", "A"} # {} THEN S \cup {"a", "A"} ELSE S

-----------------------------------------------------------------------------
(* The parser.  A parser state is [i, fold, depth]; a result adds the node *)
(* it read, or carries Bad.                                                *)

Bad == [t |-> "bad"]
Node(p, n) == [p EXCEPT !.n = n]
Peek(s, p) == IF p.i <= Len(s) THEN s[p.i] ELSE "eof"
Past(p, k) == [p EXCEPT !.i = @ + k]
Chars(S) == [t |-> "set", set |-> S]

Perl(c) ==
  LET digit == {"0"}
      word == {"0", "A", "a"}
      space == {"nl"}
  IN  CASE c = "d" -> digit [] c = "w" -> word [] c = "s" -> space
        [] c = "D" -> Alphabet \ digit [] c = "W" -> Alphabet \ word [] c = "S" -> Alphabet \ space

PerlClasses == {"d", "w", "s", "D", "W", "S"}

(* escaped_byte: a control character by its letter, or punctuation; "eof"  *)
(* is none.                                                                *)
Controls == [n |-> "nl", t |-> "tab", r |-> "cr", f |-> "ff", v |-> "vt"]
EscapedByte(c) ==
  IF c \in DOMAIN Controls THEN Controls[c] ELSE IF c \in Punctuation THEN c ELSE "eof"

(* A byte of a class, escaped or not, and the place after it.              *)
ClassByte(s, p) ==
  IF Peek(s, p) = "\\" THEN [c |-> EscapedByte(Peek(s, Past(p, 1))), to |-> Past(p, 2)]
  ELSE [c |-> Peek(s, p), to |-> Past(p, 1)]

(* A class after its [: single characters, ranges and Perl classes, and a  *)
(* ] that is not the first character.  A - before the ] is a character,    *)
(* and the classes of POSIX are refused.                                   *)
RECURSIVE ClassItems(_, _, _, _)
ClassItems(s, p, S, first) ==
  LET c == Peek(s, p)
      after == Peek(s, Past(p, 1))
      lo == ClassByte(s, p)
      hi == ClassByte(s, Past(lo.to, 1))
      range == Peek(s, lo.to) = "-" /\ Peek(s, Past(lo.to, 1)) \notin {"]", "eof"}
  IN  IF c = "]" /\ ~first THEN Node(Past(p, 1), Chars(S))
      ELSE IF c = "\\" /\ after \in PerlClasses THEN ClassItems(s, Past(p, 2), S \cup Perl(after), FALSE)
      ELSE IF lo.c = "eof" \/ (c = "[" /\ after = ":") THEN Node(p, Bad)
      ELSE IF ~range THEN ClassItems(s, lo.to, S \cup Between(lo.c, lo.c), FALSE)
      ELSE IF hi.c = "eof" \/ Ord(hi.c) < Ord(lo.c) THEN Node(p, Bad)
      ELSE ClassItems(s, hi.to, S \cup Between(lo.c, hi.c), FALSE)

(* A slip: negation comes before folding.                                  *)
ClassSetNegatesFirst(r, negate) ==
  IF r.n = Bad THEN r
  ELSE LET set == IF negate THEN Alphabet \ r.n.set ELSE r.n.set
       IN  Node(r, Chars(IF r.fold THEN BothCases(set) ELSE set))

(* Folding comes before negation.                                          *)
ClassSet(r, negate) ==
  IF r.n = Bad THEN r
  ELSE LET set == IF r.fold THEN BothCases(r.n.set) ELSE r.n.set
       IN  Node(r, Chars(IF negate THEN Alphabet \ set ELSE set))

Class(s, p) ==
  LET negate == Peek(s, p) = "^"
  IN  ClassSet(ClassItems(s, Past(p, IF negate THEN 1 ELSE 0), {}, TRUE), negate)

Literal(p, c) == Chars(IF p.fold THEN BothCases({c} \cap Alphabet) ELSE {c} \cap Alphabet)

Escape(s, p) ==
  LET c == Peek(s, p)
      q == Past(p, 1)
  IN  CASE c \in PerlClasses -> Node(q, Chars(Perl(c)))
        [] c = "A" -> Node(q, [t |-> "begin"])
        [] c = "z" -> Node(q, [t |-> "end"])
        [] EscapedByte(c) # "eof" -> Node(q, Literal(p, EscapedByte(c)))
        [] OTHER -> Node(p, Bad)

(* A number from i on: its value and the place after it, which is i itself *)
(* when there is none.                                                     *)
Digits == <<"0", "1", "2", "3">>
Digit(c) == CHOOSE n \in 0..3 : Digits[n + 1] = c
NoMax == -1

RECURSIVE Number(_, _, _)
Number(s, i, v) ==
  IF i <= Len(s) /\ s[i] \in ToSet(Digits) THEN Number(s, i + 1, 10 * v + Digit(s[i])) ELSE [v |-> v, i |-> i]

(* {m}, {m,} and {m,n}, refused above MAX_REPEAT and the wrong way round;  *)
(* anything else is a literal brace.                                       *)
Braces(s, p) ==
  LET a == Number(s, p.i + 1, 0)
      comma == a.i <= Len(s) /\ s[a.i] = ","
      b == IF comma THEN Number(s, a.i + 1, 0) ELSE a
      max == IF comma /\ b.i = a.i + 1 THEN NoMax ELSE b.v
  IN  IF a.i = p.i + 1 \/ b.i > Len(s) \/ s[b.i] # "}" THEN [ok |-> FALSE]
      ELSE [ok |-> TRUE, min |-> a.v, max |-> max, len |-> b.i + 1 - p.i,
            bad |-> a.v > MAX_REPEAT \/ (max # NoMax /\ (max > MAX_REPEAT \/ max < a.v))]

Bounds(s, p) ==
  LET c == Peek(s, p)
  IN  CASE c = "*" -> [ok |-> TRUE, min |-> 0, max |-> NoMax, len |-> 1, bad |-> FALSE]
        [] c = "+" -> [ok |-> TRUE, min |-> 1, max |-> NoMax, len |-> 1, bad |-> FALSE]
        [] c = "?" -> [ok |-> TRUE, min |-> 0, max |-> 1, len |-> 1, bad |-> FALSE]
        [] c = "{" -> Braces(s, p)
        [] OTHER -> [ok |-> FALSE]

RECURSIVE Alt(_, _), Concat(_, _, _), Quantifiers(_, _)

GroupClosed(s, r) ==
  IF r.n = Bad \/ Peek(s, r) # ")" THEN Node(r, Bad) ELSE [Past(r, 1) EXCEPT !.depth = @ - 1]

(* A group after its (.  (?i) counts only at the start of the pattern.     *)
Group(s, p) ==
  LET flag == SubSeq(s, p.i, p.i + 2) = <<"?", "i", ")">> /\ p.i = 2
      open == IF Peek(s, p) = "?" /\ Peek(s, Past(p, 1)) = ":" THEN Past(p, 2) ELSE p
  IN  CASE flag -> Node([Past(p, 3) EXCEPT !.fold = TRUE], [t |-> "empty"])
        [] ~flag /\ Peek(s, open) = "?" -> Node(p, Bad)
        [] p.depth = MAX_NEST -> Node(p, Bad)
        [] OTHER -> GroupClosed(s, Alt(s, [open EXCEPT !.depth = @ + 1]))

Atom(s, p) ==
  LET c == Peek(s, p)
      q == Past(p, 1)
  IN  CASE c = "(" -> Group(s, q)
        [] c = "[" -> Class(s, q)
        [] c = "." -> Node(q, Chars(Alphabet \ {"nl"}))
        [] c = "^" -> Node(q, [t |-> "begin"])
        [] c = "$" -> Node(q, [t |-> "end"])
        [] c = "\\" -> Escape(s, q)
        [] c \in {"*", "+", "?", ")"} -> Node(p, Bad)
        [] OTHER -> Node(q, Literal(p, c))

(* Any number of quantifiers; a ? after one only makes it lazy.            *)
PastLazy(s, p) == IF Peek(s, p) = "?" THEN Past(p, 1) ELSE p

Quantified(s, p, b) ==
  IF p.n = Bad \/ ~b.ok THEN p
  ELSE IF b.bad \/ p.n.t \in {"begin", "end"} THEN Node(p, Bad)
  ELSE Quantifiers(s, Node(PastLazy(s, Past(p, b.len)),
                           [t |-> "repeat", of |-> p.n, min |-> b.min, max |-> b.max]))

Quantifiers(s, p) == Quantified(s, p, Bounds(s, p))

(* The items up to a |, a ) or the end.                                    *)
Following(s, r, items) == IF r.n = Bad THEN r ELSE Concat(s, r, Append(items, r.n))

Concat(s, p, items) ==
  CASE Peek(s, p) \notin {"|", ")", "eof"} -> Following(s, Quantifiers(s, Atom(s, p)), items)
    [] OTHER -> Node(p, CASE Len(items) = 0 -> [t |-> "empty"]
                          [] Len(items) = 1 -> items[1]
                          [] OTHER -> [t |-> "concat", items |-> items])

(* The arms from l on, r being those after it.                             *)
Arms(l, r) ==
  IF r.n = Bad THEN r
  ELSE Node(r, [t |-> "alt", arms |-> <<l.n>> \o (IF r.n.t = "alt" THEN r.n.arms ELSE <<r.n>>)])

OtherArms(s, l) == IF l.n = Bad \/ Peek(s, l) # "|" THEN l ELSE Arms(l, Alt(s, Past(l, 1)))

Alt(s, p) == OtherArms(s, Concat(s, p, <<>>))

ReadWhole(s, r) == IF r.i = Len(s) + 1 THEN r.n ELSE Bad

Parse(s) ==
  ReadWhole(s, Alt(s, [i |-> 1, fold |-> FALSE, depth |-> 0, n |-> [t |-> "empty"]]))

-----------------------------------------------------------------------------
(* The code generator.  A program is a sequence of instructions; targets   *)
(* are known after the part they jump over was emitted (patch).            *)

Split(a, b) == [op |-> "split", a |-> a, b |-> b]
Jmp(a) == [op |-> "jmp", a |-> a]

RECURSIVE EmitNode(_, _), EmitAll(_, _), EmitAlt(_, _, _), EmitOptional(_, _, _, _)

EmitAll(nodes, prog) ==
  IF nodes = <<>> THEN prog ELSE EmitAll(Tail(nodes), EmitNode(Head(nodes), prog))

(* Every arm but the last is preceded by a split and followed by a jump to *)
(* the end.  The jumps are noted in an array: with more of them than it    *)
(* holds the program is TooLarge.                                          *)
TooLarge == [op |-> "too large"]

EmitAlt(arms, prog, jumps) ==
  IF Cardinality(jumps) > MAX_JUMPS THEN Append(prog, TooLarge)
  ELSE IF Len(arms) = 1
  THEN LET all == EmitNode(arms[1], prog)
       IN  [pc \in DOMAIN all |-> IF pc \in jumps THEN Jmp(Len(all) + 1) ELSE all[pc]]
  ELSE LET arm == Append(EmitNode(arms[1], Append(prog, Split(0, 0))), Jmp(0))
           next == Len(arm) + 1
       IN  EmitAlt(Tail(arms), [arm EXCEPT ![Len(prog) + 1] = Split(Len(prog) + 2, next)],
                   jumps \cup {Len(arm)})

(* Up to n more: each preceded by a split to the end.                      *)
EmitOptional(node, n, prog, splits) ==
  IF n = 0
  THEN [pc \in DOMAIN prog |-> IF pc \in splits THEN Split(pc + 1, Len(prog) + 1) ELSE prog[pc]]
  ELSE EmitOptional(node, n - 1, EmitNode(node, Append(prog, Split(0, 0))),
                    splits \cup {Len(prog) + 1})

EmitLoop(node, prog) ==
  LET top == Len(prog) + 1
      body == Append(EmitNode(node, Append(prog, Split(0, 0))), Jmp(top))
  IN  [body EXCEPT ![top] = Split(top + 1, Len(body) + 1)]

EmitNode(node, prog) ==
  CASE node.t = "empty" -> prog
    [] node.t = "set" -> Append(prog, [op |-> "set", set |-> node.set])
    [] node.t \in {"begin", "end"} -> Append(prog, [op |-> node.t])
    [] node.t = "concat" -> EmitAll(node.items, prog)
    [] node.t = "alt" -> EmitAlt(node.arms, prog, {})
    [] node.t = "repeat" ->
         LET must == EmitAll([k \in 1..node.min |-> node.of], prog)
         IN  IF node.max = NoMax
             THEN EmitLoop(node.of, must)
             ELSE EmitOptional(node.of, node.max - node.min, must, {})

(* Regex::new.  Every emit checks that the program still fits.             *)
Limited(prog) == IF Len(prog) > MAX_PROG \/ TooLarge \in ToSet(prog) THEN Refused ELSE prog

Emitted(node) ==
  IF node = Bad THEN Refused ELSE Limited(Append(EmitNode(node, <<>>), [op |-> "match"]))

Compile(s) == Emitted(Parse(s))

-----------------------------------------------------------------------------
(* The machine.                                                            *)

(* add: the counters reached from pc without reading a character.  The     *)
(* list takes each counter once, which also ends an empty loop.            *)
RECURSIVE Add(_, _, _, _)
Add(stack, list, pos, len) ==
  IF stack = {} THEN list
  ELSE LET pc == CHOOSE x \in stack : TRUE
           i == reProg[pc]
           more == CASE i.op = "jmp" -> {i.a}
                     [] i.op = "split" -> {i.a, i.b}
                     [] i.op = "begin" -> IF pos = 1 THEN {pc + 1} ELSE {}
                     [] i.op = "end" -> IF pos = len + 1 THEN {pc + 1} ELSE {}
                     [] OTHER -> {}
       IN  Add((stack \cup more) \ (list \cup {pc}), list \cup {pc}, pos, len)

Hits(list) == \E pc \in list : reProg[pc].op = "match"

Over(pos, hit) == hit \/ pos > Len(text)

(* is_match, one position: a thread may start anywhere, and those that     *)
(* read this character go on.                                              *)
Seeded(pos) == Add({1}, threads, pos, Len(text))

MachineStep ==
  /\ at > 0
  /\ \E cur \in {Seeded(at)} :
     \E next \in {IF at > Len(text) THEN {}
                  ELSE Add({pc + 1 : pc \in {x \in cur : reProg[x].op = "set" /\ text[at] \in reProg[x].set}},
                           {}, at + 1, Len(text))} :
       /\ matched' = (Hits(cur) \/ Hits(next))
       /\ at' = IF Over(at, matched') THEN 0 ELSE at + 1
       /\ threads' = IF at' = 0 THEN {} ELSE next
  /\ UNCHANGED <<reTree, reProg, text>>

-----------------------------------------------------------------------------
(* The patterns: a tree written down.                                      *)

Loose == {"alt", "concat"}
Leaf == {"lit", "cls", "empty", "begin", "end", "odd"}

RECURSIVE Show(_)
Show(t) ==
  LET Inner(u, loose) ==
        IF u.t \in loose \/ u.t = "empty" THEN <<"(", "?", ":">> \o Show(u) \o <<")">> ELSE Show(u)
  IN  CASE t.t \in Leaf -> t.text
        [] t.t = "concat" -> Inner(t.l, {"alt"}) \o Inner(t.r, {"alt"})
        [] t.t = "alt" -> Show(t.l) \o <<"|">> \o Show(t.r)
        [] t.t = "repeat" ->
             (IF t.of.t \in Loose \cup {"repeat"} THEN <<"(">> \o Show(t.of) \o <<")">>
              ELSE Inner(t.of, {})) \o t.text

Pattern(r) == (IF r.fold THEN <<"(", "?", "i", ")">> ELSE <<>>) \o Show(r.tree)

(* The trees that the code documents as refused: syntax it does not know,  *)
(* a repeated anchor, a repetition, an alternative, a program or a nesting *)
(* too large.  A part repeated zero times is parsed but not emitted.       *)
RECURSIVE Size(_), Nest(_), Within(_), ArmsOf(_), Wide(_)
Size(t) ==
  CASE t.t \in {"lit", "cls", "begin", "end", "odd"} -> 1
    [] t.t = "empty" -> 0
    [] t.t = "concat" -> Size(t.l) + Size(t.r)
    [] t.t = "alt" -> Size(t.l) + Size(t.r) + 2
    [] t.t = "repeat" -> t.min * Size(t.of) + (IF t.max = NoMax THEN Size(t.of) + 2
                                               ELSE (t.max - t.min) * (Size(t.of) + 1))
Within(t) ==
  {t} \cup (CASE t.t \in Loose -> Within(t.l) \cup Within(t.r)
              [] t.t = "repeat" -> Within(t.of)
              [] OTHER -> {})
ArmsOf(t) == IF t.t = "alt" THEN ArmsOf(t.l) + ArmsOf(t.r) ELSE 1
Wide(t) ==
  CASE t.t \in Loose -> ArmsOf(t) > MAX_JUMPS + 1 \/ Wide(t.l) \/ Wide(t.r)
    [] t.t = "repeat" -> t.max # 0 /\ Wide(t.of)
    [] OTHER -> FALSE
Ill(t) ==
  \/ t.t = "odd"
  \/ t.t = "repeat" /\ (t.of.t \in {"begin", "end"} \/ t.min > MAX_REPEAT \/ t.max > MAX_REPEAT)
Nest(t) ==
  LET Deeper(u, loose) == Nest(u) + (IF u.t \in loose THEN 1 ELSE 0)
      Greater(a, b) == IF a > b THEN a ELSE b
  IN  CASE t.t = "alt" -> Greater(Nest(t.l), Nest(t.r))
        [] t.t = "concat" -> Greater(Deeper(t.l, {"alt", "empty"}), Deeper(t.r, {"alt", "empty"}))
        [] t.t = "repeat" -> Deeper(t.of, Loose \cup {"repeat", "empty"})
        [] OTHER -> 0

(* What a tree denotes: the positions where a match from i may end.        *)
Means(t, fold) ==
  LET S == IF t.t = "lit" THEN {t.c} ELSE t.set
      yes == IF fold /\ ~(t.t = "cls" /\ t.perl) THEN BothCases(S) ELSE S
  IN  IF t.t = "cls" /\ t.neg THEN Alphabet \ yes ELSE yes

RECURSIVE Ends(_, _, _, _), Times(_, _, _, _, _)
Ends(t, fold, s, i) ==
  CASE t.t \in {"lit", "cls"} -> IF i <= Len(s) /\ s[i] \in Means(t, fold) THEN {i + 1} ELSE {}
    [] t.t = "empty" -> {i}
    [] t.t = "begin" -> {i} \cap {1}
    [] t.t = "end" -> {i} \cap {Len(s) + 1}
    [] t.t = "concat" -> UNION {Ends(t.r, fold, s, j) : j \in Ends(t.l, fold, s, i)}
    [] t.t = "alt" -> Ends(t.l, fold, s, i) \cup Ends(t.r, fold, s, i)
    [] t.t = "repeat" ->
         UNION {Times(t.of, k, fold, s, {i}) :
                  k \in t.min..(IF t.max = NoMax THEN t.min + Len(s) + 1 ELSE t.max)}
Times(t, k, fold, s, from) ==
  IF k = 0 THEN from ELSE Times(t, k - 1, fold, s, UNION {Ends(t, fold, s, j) : j \in from})

-----------------------------------------------------------------------------
ReStarts ==
  /\ reProg = Compile(Pattern(reTree))
  /\ text = NoText /\ at = 0 /\ threads = {} /\ matched = FALSE

ReInit == reTree \in [tree : Trees, fold : Folds] /\ ReStarts

MatchText ==
  /\ text = NoText /\ reProg # Refused
  /\ text' \in UNION {[1..n -> Alphabet] : n \in 0..MaxText}
  /\ at' = 1
  /\ UNCHANGED <<reTree, reProg, threads, matched>>

ReNext == MatchText \/ MachineStep

ReSpec == ReInit /\ [][ReNext]_reVars

(* The machine finds a match in exactly the texts that hold one, for every *)
(* tree: parsing, precedence, case folding, code generation and the        *)
(* machine together mean what the expression means (Regex::is_match).      *)
MatchesWhatItMeans ==
  text # NoText /\ at = 0 =>
    (matched <=> \E i \in 1..(Len(text) + 1) : Ends(reTree.tree, reTree.fold, text, i) # {})

(* A pattern is refused for the documented reasons and for no other: its   *)
(* syntax, a repeated anchor, a number above MAX_REPEAT, more arms than an *)
(* alternative's jumps, its size or its nesting; and whatever is accepted  *)
(* fits and jumps inside the program (Regex::new): add never leaves it.    *)
RefusedForAReason ==
  LET reason == \/ \E t \in Within(reTree.tree) : Ill(t)
                \/ Wide(reTree.tree) \/ Size(reTree.tree) + 1 > MAX_PROG
                \/ Nest(reTree.tree) > MAX_NEST
  IN  /\ reProg = Refused <=> reason
      /\ \A pc \in DOMAIN reProg :
           LET i == reProg[pc]
           IN  CASE i.op = "jmp" -> i.a \in DOMAIN reProg
                 [] i.op = "split" -> {i.a, i.b} \subseteq DOMAIN reProg
                 [] i.op = "match" -> pc = Len(reProg)
                 [] OTHER -> pc < Len(reProg)

(* Every thread the machine keeps is a real one: it stands at an           *)
(* instruction of the program, at most one thread per instruction.         *)
ReTypeOK ==
  /\ at \in 0..(MaxText + 1) /\ matched \in BOOLEAN
  /\ threads # {} => threads \subseteq DOMAIN reProg

\* Every expression is refused for a reason or matches exactly what it means.
RegexInv ==
  /\ ReTypeOK
  /\ MatchesWhatItMeans
  /\ RefusedForAReason
==============================================================================
