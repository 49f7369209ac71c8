------------------------------- MODULE MCApi -------------------------------
(***************************************************************************)
(* Three nodes of which n1 leads, two or three jobs, and the requests that *)
(* tell the routes apart.                                                  *)
(***************************************************************************)
EXTENDS Api

MCNameOrder == <<<<"a">>, <<"b">>, <<"b", "priority">>, <<"c">>>>

\* A question mark after the a, and an a that is still escaped.
MCReread == ("a?b" :> [as |-> "a", cut |-> TRUE]) @@ ("%61" :> [as |-> "a", cut |-> FALSE])

JobBody(name, prio) == Body("job", name, NoNode, prio, 1)

\* method, path, query, body
AskedFor ==
  {<<"GET", <<"health">>, {}, NoBody>>,
   <<"GET", <<"leader">>, {}, NoBody>>,
   <<"OPTIONS", <<"v1", "jobs">>, {}, NoBody>>,
   <<"GET", <<"nowhere">>, {}, NoBody>>,
   <<"GET", <<"capacity">>, {}, NoBody>>,
   <<"GET", <<"tasks">>, {}, NoBody>>,
   <<"GET", <<"logs", "t1", "stdout">>, {"follow=1"}, NoBody>>,
   <<"GET", <<"logs", "t1">>, {}, NoBody>>,
   <<"POST", <<"run">>, {"replace"}, JobBody(<<"a">>, NoPriority)>>,
   <<"GET", <<"run">>, {}, NoBody>>,
   <<"POST", <<"run">>, {}, Body("garbage", NoName, NoNode, NoPriority, 1)>>,
   <<"DELETE", <<"delete", "a">>, {}, NoBody>>,
   <<"DELETE", <<"delete", "">>, {}, NoBody>>,
   <<"POST", <<"stop", "a">>, {}, NoBody>>,
   <<"POST", <<"stop-task", "t1">>, {}, NoBody>>,
   <<"POST", <<"flip">>, {}, Body("image", NoName, NoNode, NoPriority, 1)>>,
   <<"POST", <<"flip">>, {}, Body("image and more", NoName, NoNode, NoPriority, 1)>>,
   <<"POST", <<"restart">>, {}, NoBody>>,
   <<"GET", <<"v1", "tasks">>, {}, NoBody>>,
   <<"GET", <<"v1", "jobs", "a", "status">>, {}, NoBody>>,
   <<"GET", <<"v1", "jobs", "b", "priority", "status">>, {}, NoBody>>,
   <<"GET", <<"v1", "jobs", "a">>, {}, NoBody>>,
   <<"GET", <<"v1", "events">>, {}, NoBody>>,
   <<"POST", <<"v1", "events">>, {}, NoBody>>,
   <<"GET", <<"v1", "agents", "n2", "capacity">>, {}, NoBody>>,
   <<"GET", <<"v1", "agents", "n2", "logs", "t1", "stdout">>, {}, NoBody>>,
   <<"GET", <<"v1", "agents", "n2", "logs", "t1", "stdout">>, {"follow=0"}, NoBody>>,
   <<"GET", <<"v1", "agents", "n9", "logs", "t1", "stderr">>, {}, NoBody>>,
   <<"GET", <<"v1", "agents", "n2", "logs", "t1", "stdin">>, {}, NoBody>>,
   <<"GET", <<"v1", "status">>, {}, NoBody>>,
   <<"POST", <<"v1", "jobs">>, {}, JobBody(<<"c">>, NoPriority)>>,
   <<"POST", <<"v1", "jobs">>, {}, JobBody(<<"c">>, 0)>>,
   <<"POST", <<"v1", "jobs">>, {}, JobBody(<<"c">>, 1)>>,
   <<"POST", <<"v1", "jobs">>, {}, JobBody(<<"a">>, NoPriority)>>,
   <<"POST", <<"v1", "jobs">>, {}, JobBody(<<"a">>, 1)>>,
   <<"POST", <<"v1", "jobs">>, {}, JobBody(<<"b">>, 0)>>,
   <<"POST", <<"v1", "jobs">>, {}, JobBody(<<"b">>, 1)>>,
   <<"POST", <<"v1", "jobs">>, {}, Body("job", NoName, NoNode, NoPriority, 1)>>,
   <<"POST", <<"v1", "jobs">>, {}, Body("fixed port", <<"c">>, NoNode, NoPriority, 1)>>,
   <<"POST", <<"v1", "jobs">>, {}, Body("job", <<"c">>, NoNode, NoPriority, 3)>>,
   <<"POST", <<"v1", "agents">>, {}, Body("agent", <<"n2">>, "n2", NoPriority, 1)>>,
   <<"POST", <<"v1", "agents">>, {}, Body("agent", <<"n2">>, "n3", NoPriority, 1)>>,
   <<"POST", <<"v1", "agents">>, {}, Body("agent", <<"n2">>, NoNode, NoPriority, 1)>>,
   <<"POST", <<"v1", "heartbeat">>, {}, Body("agent", <<"n2">>, "n2", NoPriority, 1)>>,
   <<"POST", <<"v1", "notify">>, {}, Body("handback", <<"a">>, "n2", NoPriority, 1)>>,
   <<"POST", <<"v1", "notify">>, {}, NoBody>>,
   <<"DELETE", <<"v1", "agents", "n2">>, {}, NoBody>>,
   <<"DELETE", <<"v1", "agents", "">>, {}, NoBody>>,
   <<"DELETE", <<"v1", "jobs", "a">>, {}, NoBody>>,
   <<"DELETE", <<"v1", "jobs", "b", "priority">>, {}, NoBody>>,
   <<"DELETE", <<"v1", "jobs", "">>, {}, NoBody>>,
   <<"DELETE", <<"v1", "jobs", "a?b">>, {}, NoBody>>,
   <<"DELETE", <<"v1", "jobs", "%61">>, {}, NoBody>>,
   <<"PATCH", <<"v1", "jobs", "b", "priority">>, {}, Body("prio", NoName, NoNode, 0, 1)>>,
   <<"PATCH", <<"v1", "jobs", "c", "priority">>, {}, Body("prio", NoName, NoNode, 0, 1)>>,
   <<"PATCH", <<"v1", "jobs", "b", "priority", "priority">>, {}, Body("prio", NoName, NoNode, 0, 1)>>,
   <<"PATCH", <<"v1", "jobs", "a">>, {}, Body("prio", NoName, NoNode, 0, 1)>>}

Signed(q, key) == HttpRequest(q[1], q[2], q[3], q[4], SignCall(key, q[1], [path |-> q[2], query |-> q[3]], q[4]))

ClusterOf(jobs) ==
  [leads |-> "n1", jobs |-> jobs, agents |-> [n \in {"n1", "n2", "n3"} |-> n], settled |-> TRUE]
Clus == ClusterOf((<<"a">> :> 0) @@ (<<"b">> :> 1))

\* Jobs that found no room, with the number that they asked for, before the next
\* reconcile: one beyond the others, and three with the same.
Pending == {ClusterOf((<<"a">> :> 2) @@ (<<"b">> :> 0)),
            ClusterOf((<<"a">> :> 0) @@ (<<"b">> :> 0) @@ (<<"c">> :> 0))}

\* The key and how the client signed: well, not at all, or with another key.
Keys == {<<"key", "key">>}
OtherKeys == {<<NoKey, NoKey>>, <<"key", NoKey>>, <<"key", "other">>}

\* What n2 and n3 believe of the leader, and which agents answer.
Minds == {<<"n1", "n1", {"n3"}>>, <<"n2", "nobody", {"n1", "n2"}>>}

\* A node that cannot flip matters only to the requests for it.
MCSetups ==
  {[key |-> k[1], flips |-> TRUE, req |-> Signed(q, k[2]), port |-> p, clus |-> Clus,
    views |-> [n1 |-> "n1", n2 |-> m[1], n3 |-> m[2]], live |-> m[3]] :
     k \in Keys, q \in AskedFor, p \in {"agent port", "leader port"}, m \in Minds}
  \cup
  {[key |-> k[1], flips |-> TRUE, req |-> Signed(q, k[2]), port |-> p, clus |-> Clus,
    views |-> [n \in ApiNodes |-> "n1"], live |-> ApiNodes] :
     k \in OtherKeys, q \in AskedFor, p \in {"agent port", "leader port"}}
  \cup
  {[key |-> NoKey, flips |-> TRUE, req |-> Signed(q, NoKey), port |-> "agent port", clus |-> c,
    views |-> [n \in ApiNodes |-> "n1"], live |-> ApiNodes] :
     q \in {q \in AskedFor : q[1] # "GET" /\ IsPrefix(<<"v1", "jobs">>, q[2])}, c \in Pending}
  \cup
  {[key |-> NoKey, flips |-> FALSE, req |-> Signed(q, NoKey), port |-> "agent port", clus |-> Clus,
    views |-> [n \in ApiNodes |-> "n1"], live |-> ApiNodes] :
     q \in {q \in AskedFor : q[2] \in {<<"flip">>, <<"restart">>}}}
=============================================================================
