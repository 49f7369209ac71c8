------------------------------- MODULE MCNames --------------------------------
(***************************************************************************)
(* How the apps come to know what runs where (Watch), and what the name    *)
(* server answers from that (Dns).  The models share no state - Dns takes  *)
(* the tables that Watch builds as given - so a behaviour runs one of them *)
(* and TLC explores the sum, not the product.                              *)
(***************************************************************************)
EXTENDS Watch, Dns, TLC

\* The tables and the questions of the name server.

\* Job 99 has the name of a cluster.
JobLists == {<<>>, <<1>>, <<2, 1, 3, 4>>}
MCJobTables == {t \in UNION {[S -> JobLists] : S \in SUBSET {97, 99}} :
                  (99 \in DOMAIN t => Len(t[99]) < 2) /\ (97 \in DOMAIN t => t[97] # <<>>)}
MCCnameSets == {<<>>, (<<109, 122>> :> <<120>>), (<<42, 99, 122>> :> <<120>>) @@ (<<97, 99, 122>> :> <<121>>),
                (<<109, 101, 120>> :> <<122>>) @@ (<<42, 101, 120>> :> <<119>>), (<<42, 100, 122>> :> <<120, 120, 120, 120, 120, 120, 120, 120, 120, 120>>)}
MCClusters == <<99, 100>>
Labs == {97, 99, 100}
AskedNames == {<<>>, <<122>>, <<120>>, <<101, 120>>, <<109, 101, 120>>, <<109, 122>>, <<97, 97, 100, 122>>, <<97, 98, 101, 120>>}
         \cup {<<l, 122>> : l \in Labs} \cup {<<l, k, 122>> : l \in Labs, k \in Labs}
Well(n, t, e, x) == [how |-> "well", name |-> n, qtype |-> t, qclass |-> 1, edns |-> e, extra |-> x, cut |-> 0]
Broken(n, how, cut) == [how |-> how, name |-> n, qtype |-> 1, qclass |-> 1, edns |-> 90, extra |-> FALSE, cut |-> cut]
MCQuestions == {Well(n, 1, e, FALSE) : n \in AskedNames, e \in {-1, 90}}
          \cup {Well(n, t, -1, FALSE) : n \in AskedNames, t \in {28, 255}}
          \cup {Well(<<97, 67, 122>>, 1, e, TRUE) : e \in {-1, 3, 100, 500}}
          \cup {[Well(<<97, 122>>, 1, -1, FALSE) EXCEPT !.qclass = 3], Well(<<46, 122>>, 1, -1, FALSE)}
          \cup {Broken(<<97, 99, 122>>, h, 0) : h \in {"response", "opcode", "two", "pointer"}}
          \cup {Broken(<<97, 99, 122>>, "cut", k) : k \in {0, 5, 11, 12, 13, 17, 19, 20, 21, 30, 33}}

VARIABLE part

nameVars == <<part, watchVars, dnsVars>>

\* The part that runs starts from each of its inputs, the other rests in one.
NameInit ==
  /\ part \in {"watch", "dns"}
  /\ part = "watch" \/ kind = "dns"
  /\ part = "dns" \/ cnames = <<>>
  /\ WatchInit /\ DnsInit

\* A name server waits for the next question.
Rests == part = "dns" /\ UNCHANGED nameVars

NameNext ==
  \/ part = "watch" /\ WatchNext /\ UNCHANGED <<part, dnsVars>>
  \/ part = "dns" /\ DnsNext /\ UNCHANGED <<part, watchVars>>
  \/ Rests

NameSpec == NameInit /\ [][NameNext]_nameVars
===============================================================================
