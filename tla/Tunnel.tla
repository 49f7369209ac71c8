------------------------------- MODULE Tunnel -------------------------------
(***************************************************************************)
(* The tunnel app (cloudflared-lean): one task per connection index keeps  *)
(* a connection to the edge up, registers it on the control stream the     *)
(* edge opens, takes configuration pushes on any connection, and passes    *)
(* visitors on to the services the ingress table names.                    *)
(*                                                                         *)
(* Everything runs on one core, so a step is what happens between two      *)
(* awaits.  The edge, the network and the origins are external: they open  *)
(* streams, answer, refuse, break off or stay silent as they like.  The    *)
(* edge opens one control stream per connection.                           *)
(***************************************************************************)
EXTENDS Integers, FiniteSets, FiniteSetsExt

CONSTANTS
  CONNECTIONS,     \* connection indexes (config.rs, at most MAX_CONNECTIONS)
  EDGES,           \* names of the edge in the configuration
  DeadEdges,       \* those that never answer, as positions 0..EDGES-1
  BACKOFF_MAX,     \* the longest wait of our own, in units of BACKOFF_MIN
  RetryAfters,     \* waits an edge may ask for
  MaxEdgeFaults,   \* bound: failures, breaks and refusals that allow a retry
  MaxOpened        \* bound: pushes and visitors in all, and versions pushed

ASSUME TunAssumption ==
  /\ CONNECTIONS \in Nat \ {0} /\ EDGES \in Nat \ {0} /\ BACKOFF_MAX \in Nat \ {0}
  /\ RetryAfters \subseteq Nat
  /\ MaxEdgeFaults \in Nat /\ MaxOpened \in Nat

\* Arithmetic that the provers have no rule for.
ASSUME PowersOfTwo ==
  \A n \in 0..BACKOFF_MAX : 2 ^ n \in Nat \ {0} /\ 2 ^ (n + 1) = 2 * (2 ^ n)

VARIABLES
  task,      \* index -> step, try (position in the edge list), backoff
  slot,      \* index -> registered, failed attempts in a row, how control ended
  ctl,       \* index -> the control stream: none, call, drain, over
  bell,      \* index -> its stop bell was rung
  push,      \* index -> the push whose body is being read
  visit,     \* index -> the visitor's stream
  rules,     \* version of the live table
  up,        \* UP
  liveTasks, \* LIVE
  gaveUp,    \* GAVE_UP
  appStop,   \* the kernel asked the app to stop
  mainAt,    \* main: run, closed (close_all was called), failed
  edgeFaults, opened,  \* spent of the bounds
  lost,      \* history: index -> connections lost since it was last registered
  asked      \* history: index -> the wait the edge asked for at the last loss

tunVars == <<task, slot, ctl, bell, push, visit, rules, up, liveTasks, gaveUp, appStop,
             mainAt, edgeFaults, opened, lost, asked>>

Index == 0..(CONNECTIONS - 1)
BACKOFF_MIN == 1
NoPush == [version |-> 0, good |-> FALSE, seen |-> 0]
NoVisit == "none"
NoEnd == [kind |-> "none", retry |-> TRUE, after |-> 0]
Least(a, b) == IF a <= b THEN a ELSE b

TunTypeOK ==
  /\ \A i \in Index :
       /\ task[i].pc \in {"dial", "serve", "wait", "gone", "stopped"}
       /\ task[i].try \in 0..(EDGES - 1)
       /\ task[i].backoff \in 1..(10 * BACKOFF_MAX)
       /\ slot[i].registered \in BOOLEAN /\ slot[i].attempts \in 0..(MaxEdgeFaults + 1)
       /\ slot[i].end.kind \in {"none", "refused", "exception", "broken"}
       /\ ctl[i] \in {"none", "call", "drain", "over"}
       /\ visit[i] \in {NoVisit, "early", "headed", "whole", "served",
                        "told", "reset"}
  /\ bell \in [Index -> BOOLEAN]
  /\ rules \in 0..MaxOpened /\ up \in Int /\ liveTasks \in 0..CONNECTIONS
  /\ mainAt \in {"run", "closed", "failed"}

(* main: the table of the environment is version 0, and every task is      *)
(* spawned before anything is awaited.  A stop may have been asked before. *)
TunInit ==
  /\ task = [i \in Index |-> [pc |-> "dial", try |-> i % EDGES, backoff |-> BACKOFF_MIN]]
  /\ slot = [i \in Index |-> [registered |-> FALSE, attempts |-> 0, end |-> NoEnd]]
  /\ ctl = [i \in Index |-> "none"]
  /\ bell = [i \in Index |-> FALSE]
  /\ push = [i \in Index |-> NoPush] /\ visit = [i \in Index |-> NoVisit]
  /\ rules = 0 /\ up = 0 /\ liveTasks = CONNECTIONS
  /\ gaveUp = FALSE /\ appStop \in BOOLEAN /\ mainAt = "run"
  /\ edgeFaults = 0 /\ opened = 0
  /\ lost = [i \in Index |-> 0] /\ asked = [i \in Index |-> 0]

Mishap == edgeFaults < MaxEdgeFaults /\ edgeFaults' = edgeFaults + 1

-----------------------------------------------------------------------------
(* keep_connected, after connect_once returned.                            *)

(* The back-off before the next try: back to the shortest one after a      *)
(* connection that was up, and not less than what a refusal asks for.  The *)
(* time really slept is a random share of it (leanrand::jitter), and       *)
(* WaitOver may come at any moment; this value is what the next doubling   *)
(* starts from.                                                            *)
NextBackoff(backoff, wasUp, why) ==
  LET own == IF wasUp THEN BACKOFF_MIN ELSE backoff
  IN  IF why.kind = "refused" /\ why.after > own
      THEN Least(why.after, 10 * BACKOFF_MAX)
      ELSE own

(* A refusal for good ends the task; the last one to go tells main.        *)
GivesUp(i) ==
  /\ liveTasks' = liveTasks - 1
  /\ gaveUp' = (gaveUp \/ liveTasks = 1)

UpAfterAny(wasUp) == up - 1

(* UP counts the registered connections.                                   *)
UpAfter(wasUp) == IF wasUp THEN up - 1 ELSE up

(* The connection closes, with every stream on it, and the task decides    *)
(* whether to come back.                                                   *)
Lost(i, why) ==
  LET wasUp == slot[i].registered
      back == NextBackoff(task[i].backoff, wasUp, why)
      forGood == why.kind = "refused" /\ ~why.retry
  IN  /\ slot' = [slot EXCEPT ![i].registered = FALSE, ![i].end = NoEnd]
      /\ up' = UpAfter(wasUp)
      /\ ctl' = [ctl EXCEPT ![i] = "none"]
      /\ push' = [push EXCEPT ![i] = NoPush] /\ visit' = [visit EXCEPT ![i] = NoVisit]
      /\ IF appStop
         THEN /\ task' = [task EXCEPT ![i].pc = "stopped"]
              /\ UNCHANGED <<liveTasks, gaveUp, lost, asked>>
         ELSE IF forGood
         THEN /\ task' = [task EXCEPT ![i].pc = "gone"]
              /\ GivesUp(i)
              /\ UNCHANGED <<lost, asked>>
         ELSE /\ task' = [task EXCEPT ![i].pc = "wait", ![i].backoff = back]
              /\ lost' = [lost EXCEPT ![i] = IF wasUp THEN 1 ELSE Least(@ + 1, BACKOFF_MAX)]
              /\ asked' = [asked EXCEPT ![i] = why.after]
              /\ UNCHANGED <<liveTasks, gaveUp>>

WaitOverSameEdge(i) ==
  /\ task[i].pc = "wait"
  /\ IF appStop
     THEN task' = [task EXCEPT ![i].pc = "stopped"]
     ELSE task' = [task EXCEPT ![i] = [pc |-> "dial", try |-> @.try,
                                       backoff |-> Least(2 * @.backoff, BACKOFF_MAX)]]
  /\ asked' = [asked EXCEPT ![i] = 0]
  /\ UNCHANGED <<slot, ctl, bell, push, visit, rules, up, liveTasks, gaveUp, appStop, mainAt,
                 edgeFaults, opened, lost>>

(* The wait is over: the next name of the list, and a longer wait should   *)
(* it fail too.  A stop during the wait ends the task instead.             *)
WaitOver(i) ==
  /\ task[i].pc = "wait"
  /\ IF appStop
     THEN task' = [task EXCEPT ![i].pc = "stopped"]
     ELSE task' = [task EXCEPT ![i] = [pc |-> "dial", try |-> (@.try + 1) % EDGES,
                                       backoff |-> Least(2 * @.backoff, BACKOFF_MAX)]]
  /\ asked' = [asked EXCEPT ![i] = 0]
  /\ UNCHANGED <<slot, ctl, bell, push, visit, rules, up, liveTasks, gaveUp, appStop, mainAt,
                 edgeFaults, opened, lost>>

-----------------------------------------------------------------------------
(* connect_once.                                                           *)

(* The name does not resolve, the clock is not synced, or TCP and TLS do   *)
(* not come up in time.                                                    *)
DialFails(i) ==
  /\ task[i].pc = "dial"
  /\ IF task[i].try \in DeadEdges THEN UNCHANGED edgeFaults ELSE Mishap
  /\ Lost(i, NoEnd)
  /\ UNCHANGED <<bell, rules, appStop, mainAt, opened>>

(* The session is there: a fresh slot, and the bell of an earlier          *)
(* connection is taken off.                                                *)
Dialled(i) ==
  /\ task[i].pc = "dial" /\ task[i].try \notin DeadEdges
  /\ task' = [task EXCEPT ![i].pc = "serve"]
  /\ slot' = [slot EXCEPT ![i].registered = FALSE, ![i].end = NoEnd]
  /\ bell' = [bell EXCEPT ![i] = FALSE]
  /\ UNCHANGED <<ctl, push, visit, rules, up, liveTasks, gaveUp, appStop, mainAt, edgeFaults,
                 opened, lost, asked>>

(* The registration window closes on a connection that is not registered;  *)
(* a registered one is left alone from then on.                            *)
Watchdog(i) ==
  /\ task[i].pc = "serve" /\ ~slot[i].registered /\ Mishap
  /\ Lost(i, NoEnd)
  /\ UNCHANGED <<bell, rules, appStop, mainAt, opened>>

(* The bell: the control stream ended, or the app stops.                   *)
BellRings(i) ==
  /\ task[i].pc = "serve" /\ bell[i]
  /\ Lost(i, slot[i].end)
  /\ UNCHANGED <<bell, rules, appStop, mainAt, edgeFaults, opened>>

(* HTTP/2 or the transport under it ends.                                  *)
ServeEnds(i) ==
  /\ task[i].pc = "serve" /\ Mishap
  /\ Lost(i, slot[i].end)
  /\ UNCHANGED <<bell, rules, appStop, mainAt, opened>>

-----------------------------------------------------------------------------
(* The control stream.                                                     *)

tunUnseen == <<task, push, visit, rules, liveTasks, gaveUp, appStop, mainAt, opened,
               asked>>

(* The edge opens it; the app answers 200, bootstraps and asks to be       *)
(* registered.                                                             *)
ControlOpens(i) ==
  /\ task[i].pc = "serve" /\ ctl[i] = "none"
  /\ ctl' = [ctl EXCEPT ![i] = "call"]
  /\ UNCHANGED <<slot, bell, up, edgeFaults, lost>> /\ UNCHANGED tunUnseen

Registered(i) ==
  /\ task[i].pc = "serve" /\ ctl[i] = "call"
  /\ ctl' = [ctl EXCEPT ![i] = "drain"]
  /\ slot' = [slot EXCEPT ![i].registered = TRUE, ![i].attempts = 0]
  /\ up' = up + 1
  /\ lost' = [lost EXCEPT ![i] = 0]
  /\ UNCHANGED <<bell, edgeFaults>> /\ UNCHANGED tunUnseen

(* control ends: a registration that failed counts, and the bell rings     *)
(* either way.                                                             *)
ControlEnds(i, end) ==
  /\ ctl' = [ctl EXCEPT ![i] = "over"]
  /\ slot' = [slot EXCEPT ![i].end = end,
                          ![i].attempts = IF slot[i].registered THEN @ ELSE @ + 1]
  /\ bell' = [bell EXCEPT ![i] = TRUE]

(* The edge refuses, raises an exception, breaks off, or sends eight       *)
(* messages that are no answer.                                            *)
Refused(i) ==
  /\ task[i].pc = "serve" /\ ctl[i] = "call"
  /\ \/ /\ ControlEnds(i, [kind |-> "refused", retry |-> FALSE, after |-> 0])
        /\ UNCHANGED edgeFaults
     \/ /\ \E after \in RetryAfters :
             ControlEnds(i, [kind |-> "refused", retry |-> TRUE, after |-> after])
        /\ Mishap
     \/ /\ \E kind \in {"exception", "broken"} :
             ControlEnds(i, [kind |-> kind, retry |-> TRUE, after |-> 0])
        /\ Mishap
  /\ UNCHANGED <<up, lost>> /\ UNCHANGED tunUnseen

(* A registered connection's control stream ends or breaks (drain).        *)
ControlBreaks(i) ==
  /\ task[i].pc = "serve" /\ ctl[i] = "drain" /\ Mishap
  /\ ControlEnds(i, [kind |-> "broken", retry |-> TRUE, after |-> 0])
  /\ UNCHANGED <<up, lost>> /\ UNCHANGED tunUnseen

-----------------------------------------------------------------------------
(* config_update: the body is read piece by piece, then the version is     *)
(* compared and the table replaced without an await in between.            *)

tunServing == <<task, slot, ctl, bell, up, liveTasks, gaveUp, appStop, mainAt, edgeFaults,
                lost, asked>>

PushOpens(i) ==
  /\ task[i].pc = "serve" /\ push[i] = NoPush /\ opened < MaxOpened
  /\ \E v \in 1..MaxOpened, good \in BOOLEAN :
       push' = [push EXCEPT ![i] = [version |-> v, good |-> good, seen |-> rules]]
  /\ opened' = opened + 1
  /\ UNCHANGED <<rules, visit>> /\ UNCHANGED tunServing

UpdateAgainstSeen(p) == IF p.version > p.seen /\ p.good THEN p.version ELSE rules

(* ingress::update: only a newer version whose rules can be read.          *)
Update(p) == IF p.version > rules /\ p.good THEN p.version ELSE rules

PushRead(i) ==
  /\ task[i].pc = "serve" /\ push[i] # NoPush
  /\ rules' = Update(push[i])
  /\ push' = [push EXCEPT ![i] = NoPush]
  /\ UNCHANGED <<visit, opened>> /\ UNCHANGED tunServing

-----------------------------------------------------------------------------
(* A visitor (serve_stream, proxy and origin::proxy): the table names an   *)
(* origin, or the tunnel answers itself ("told").  `headed' means that the *)
(* origin's status and headers went to the edge.                           *)

Visit(i, from, to) ==
  /\ task[i].pc = "serve" /\ visit[i] = from
  /\ visit' = [visit EXCEPT ![i] = to]

VisitorComes(i) ==
  /\ opened < MaxOpened /\ opened' = opened + 1
  /\ \/ Visit(i, NoVisit, "early")
     \/ Visit(i, NoVisit, "told")         \* no rule, a fixed status, a websocket, plain TCP
  /\ UNCHANGED <<rules, push>> /\ UNCHANGED tunServing

(* The name is resolved, the request's body read (up to MAX_BODY), the     *)
(* origin connected and its headers received; then its body passed on.     *)
VisitGoesOn(i) ==
  /\ Visit(i, "early", "headed") \/ Visit(i, "headed", "whole") \/ Visit(i, "whole", "served")
  /\ UNCHANGED <<rules, push, opened>> /\ UNCHANGED tunServing

(* A failure: an answer of the tunnel's own (502, or 413 for a body too    *)
(* large) while nothing was sent; a second set of headers is refused by    *)
(* the stream, which is then reset.                                        *)
AfterFailure(v) == IF v = "headed" THEN "reset" ELSE "told"

VisitFails(i) ==
  /\ visit[i] \in {"early", "headed"}
  /\ Visit(i, visit[i], AfterFailure(visit[i]))
  /\ UNCHANGED <<rules, push, opened>> /\ UNCHANGED tunServing

VisitorLeaves(i) ==
  /\ \E v \in {"served", "told", "reset"} : Visit(i, v, NoVisit)
  /\ UNCHANGED <<rules, push, opened>> /\ UNCHANGED tunServing

-----------------------------------------------------------------------------
(* The app's own end.                                                      *)

StopAsked ==
  /\ ~appStop /\ mainAt = "run" /\ appStop' = TRUE
  /\ UNCHANGED <<task, slot, ctl, bell, push, visit, rules, up, liveTasks, gaveUp, mainAt,
                 edgeFaults, opened, lost, asked>>

(* main was waiting for a stop or for GAVE_UP, the stop first.             *)
CloseAll ==
  /\ mainAt = "run" /\ appStop
  /\ bell' = [i \in Index |-> TRUE]
  /\ mainAt' = "closed"
  /\ UNCHANGED <<task, slot, ctl, push, visit, rules, up, liveTasks, gaveUp, appStop,
                 edgeFaults, opened, lost, asked>>

GaveUpEnds ==
  /\ mainAt = "run" /\ ~appStop /\ gaveUp
  /\ mainAt' = "failed"
  /\ UNCHANGED <<task, slot, ctl, bell, push, visit, rules, up, liveTasks, gaveUp, appStop,
                 edgeFaults, opened, lost, asked>>

TaskStep(i) == WaitOver(i) \/ Dialled(i) \/ BellRings(i)

TunNext ==
  \/ \E i \in Index :
       \/ TaskStep(i) \/ DialFails(i) \/ ServeEnds(i) \/ Watchdog(i)
       \/ ControlOpens(i) \/ Registered(i) \/ Refused(i) \/ ControlBreaks(i)
       \/ PushOpens(i) \/ PushRead(i)
       \/ VisitorComes(i) \/ VisitGoesOn(i) \/ VisitFails(i) \/ VisitorLeaves(i)
  \/ StopAsked \/ CloseAll \/ GaveUpEnds

(* Timers and bells go off and main runs; an edge that answers opens the   *)
(* control stream and registers.                                           *)
TunFair ==
  /\ \A i \in Index :
       /\ WF_tunVars(WaitOver(i)) /\ WF_tunVars(Dialled(i) \/ DialFails(i))
       /\ WF_tunVars(BellRings(i))
       /\ WF_tunVars(ControlOpens(i)) /\ WF_tunVars(Registered(i))
  /\ WF_tunVars(CloseAll)

TunSpec == TunInit /\ [][TunNext]_tunVars /\ TunFair

-----------------------------------------------------------------------------
(* UP is the number of registered connections at every moment: a loss by   *)
(* bell, watchdog or transport is counted once, and only if it was up.     *)
UpCounts == up = Cardinality({i \in Index : slot[i].registered})

(* GAVE_UP goes off exactly when the edge refused every index for good     *)
(* (tunnel.rs keep_connected): main never stops a tunnel that some index   *)
(* still tries to bring up.                                                *)
GaveUpOnlyWhenAll == gaveUp <=> \A i \in Index : task[i].pc = "gone"

(* The wait grows with the losses in a row since the connection was last   *)
(* up, honours what the last refusal asked, and never outgrows both.       *)
BackoffFollows ==
  \A i \in Index : task[i].pc = "wait" =>
    LET own == Least(2 ^ (lost[i] - 1), BACKOFF_MAX)
    IN  /\ task[i].backoff >= Least(asked[i], 10 * BACKOFF_MAX)
        /\ task[i].backoff <= Max({own, asked[i], BACKOFF_MAX})
        /\ lost[i] = 1 /\ asked[i] = 0 => task[i].backoff = BACKOFF_MIN
        /\ task[i].backoff >= own

(* The table's version never goes back, however many connections carry     *)
(* pushes and whichever body is read last (config_update).                 *)
RulesNeverGoBack ==
  rules' >= rules

(* A stream that ends as served carried the origin's whole body: a failure *)
(* after the headers resets it (tunnel.rs proxy).                          *)
ServedIsWhole ==
  \A i \in Index : visit'[i] = "served" /\ visit[i] # "served" => visit[i] = "whole"

(* Every index ends up registered again when the mishaps are over, past    *)
(* the names of the list that never answer - unless the app stops or the   *)
(* edge refused it for good.                                               *)
ComesBack ==
  <>[](appStop \/ \A i \in Index : slot[i].registered \/ task[i].pc = "gone")

(* What the comment at close_all (tunnel.rs:188) says: after it, the tasks *)
(* break their connections off and do not come back.                       *)
ClosedStaysDown == [][mainAt = "closed" => up' <= up]_tunVars

\* What holds of the connections, their count and their pauses at any time.
TunInv ==
  /\ TunTypeOK
  /\ UpCounts
  /\ GaveUpOnlyWhenAll
  /\ BackoffFollows

\* What no step may do: bring back rules of before, or end a stream as served
\* that was cut.
TunKeeps ==
  [][/\ RulesNeverGoBack
     /\ ServedIsWhole]_tunVars
==============================================================================
