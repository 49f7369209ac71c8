-------------------------------- MODULE MCEdge --------------------------------
(***************************************************************************)
(* What answers requests: the API of the nodes (Api), the proxy and the    *)
(* balancer of hoplb (Proxy, Balancer) and the expressions of the tunnel's *)
(* rules (Regex).  The models share no state, so a behaviour runs one of   *)
(* them and TLC explores the sum, not the product.                         *)
(***************************************************************************)
EXTENDS MCApi, MCProxy, Balancer, Regex

\* The tables and the clients of the balancer.

R(p, bs) == [pattern |-> p, backends |-> bs]

MCTables == <<
  <<R(<<"c", "x">>, <<"b1">>), R(<<"*", "x">>, <<"b2">>), R(<<"c", "x">>, <<"b3">>)>> >>

MCHostNames == { <<"c", "x">>, <<"d", "x">>, <<"d", "c", "x">> }

MCScenarios ==
  [build : {"HopOS", "host"}, conns : {3}, asks : {1}, scrapes : {0}]
    \cup [build : {"HopOS", "host"}, conns : {1}, asks : {3}, scrapes : {2}]

\* The expressions.

Lit(c, sh) == [t |-> "lit", c |-> c, text |-> sh]
Cls(sh, S, neg, perl) == [t |-> "cls", text |-> sh, set |-> S, neg |-> neg, perl |-> perl]
Begin(sh) == [t |-> "begin", text |-> sh]
End(sh) == [t |-> "end", text |-> sh]
Odd(sh) == [t |-> "odd", text |-> sh]
A == Lit("a", <<"a">>)
Nothing == [t |-> "empty", text |-> <<>>]
Leaves == {A, Lit("0", <<"0">>), Nothing, Begin(<<"^">>), End(<<"$">>),
           Cls(<<".">>, Alphabet \ {"nl"}, FALSE, TRUE), Cls(<<"\\", "D">>, Alphabet \ {"0"}, FALSE, TRUE),
           Cls(<<"[", "^", "a", "]">>, {"a"}, TRUE, FALSE),
           Cls(<<"[", "0", "-", "A", "]">>, {"0", "A"}, FALSE, FALSE)}

\* Escapes, ranges with escaped ends, the characters a class takes as they
\* are, and syntax the compiler does not know.
Escapes == {Lit("nl", <<"\\", "n">>), Lit("{", <<"\\", "{">>), Lit("{", <<"{">>),
            Begin(<<"\\", "A">>), End(<<"\\", "z">>),
            Cls(<<"\\", "s">>, {"nl"}, FALSE, TRUE),
            Cls(<<"[", "\\", "n", "-", "0", "]">>, {"nl", "0"}, FALSE, FALSE),
            Cls(<<"[", "A", "-", "\\", "{", "]">>, {"A", "a", "{"}, FALSE, FALSE),
            Cls(<<"[", "]", "\\", "w", "-", "]">>, {"0", "A", "a"}, FALSE, FALSE),
            Odd(<<"\\", "b">>), Odd(<<"(", "?", "=", "a", ")">>), Odd(<<"[", "a", "-", "0", "]">>),
            Odd(<<"[", "[", ":", "a", ":", "]", "]">>), Odd(<<"[", "0", "-", "\\", "d", "]">>)}

Rep(t, sh, min, max) == [t |-> "repeat", of |-> t, text |-> sh, min |-> min, max |-> max]
Repeats(S) == UNION {{Rep(t, <<"*">>, 0, NoMax), Rep(t, <<"+">>, 1, NoMax), Rep(t, <<"?">>, 0, 1),
                      Rep(t, <<"{", "1", ",", "2", "}">>, 1, 2), Rep(t, <<"{", "2", "}", "?">>, 2, 2)}
                       : t \in S}
Counts(S) == UNION {{Rep(t, <<"{", "0", "}">>, 0, 0), Rep(t, <<"{", "0", "2", ",", "}">>, 2, NoMax),
                     Rep(t, <<"{", "3", "}">>, 3, 3), Rep(t, <<"{", "1", ",", "1", "0", "}">>, 1, 10)}
                      : t \in S}
Pairs(P, Q) == [t : {"concat", "alt"}, l : P, r : Q]
Two == Repeats(Leaves) \cup Pairs(Leaves, Leaves)
Few == {A, Begin(<<"^">>), End(<<"$">>), Rep(A, <<"*">>, 0, NoMax)}

\* Four arms in a program that would fit.
Arm4 == [t |-> "alt", l |-> [t |-> "alt", l |-> Nothing, r |-> A], r |-> [t |-> "alt", l |-> A, r |-> Nothing]]

MCTrees == Leaves \cup Two \cup Repeats(Two) \cup Pairs(Two, Few) \cup Pairs(Few, Two)
             \cup Escapes \cup Repeats(Escapes) \cup Pairs(Escapes, Few) \cup Pairs(Few, Escapes)
             \cup Counts(Leaves \cup Escapes \cup {Arm4}) \cup {Arm4} \cup Pairs({Arm4}, Few)

VARIABLE part

edgeVars == <<part, apiVars, pxVars, lbVars, reVars>>

Health == CHOOSE s \in Setups : s.req.path = <<"health">>

\* The part that runs starts from each of its inputs, the others rest in one.
EdgeInit ==
  /\ part \in {"api", "proxy", "balancer", "regex"}
  /\ IF part = "api" THEN ApiInit ELSE setup = Health /\ ApiStarts
  /\ IF part = "proxy" THEN PxInit
     ELSE asks = <<Req("GET", 1, "none", -1, "none", FALSE, "no")>> /\ PxStarts
  /\ part = "balancer" \/ lb = [build |-> "host", conns |-> 1, asks |-> 3, scrapes |-> 2]
  /\ LBInit
  /\ IF part = "regex" THEN ReInit ELSE reTree = [tree |-> A, fold |-> FALSE] /\ ReStarts

\* A balancer waits for its clients, and a matched text is done.
Rests == part \in {"balancer", "regex"} /\ UNCHANGED edgeVars

EdgeNext ==
  \/ part = "api" /\ ApiNext /\ UNCHANGED <<part, pxVars, lbVars, reVars>>
  \/ part = "proxy" /\ PxNext /\ UNCHANGED <<part, apiVars, lbVars, reVars>>
  \/ part = "balancer" /\ LBNext /\ UNCHANGED <<part, apiVars, pxVars, reVars>>
  \/ part = "regex" /\ ReNext /\ UNCHANGED <<part, apiVars, pxVars, lbVars>>
  \/ Rests

EdgeSpec == EdgeInit /\ [][EdgeNext]_edgeVars
===============================================================================
