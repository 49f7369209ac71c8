---------------------------- MODULE ServiceProofs ----------------------------
(***************************************************************************)
(* What a node runs beside its agent, proved: the tunnel (Tunnel) counts   *)
(* its connections, gives up only when every index was refused for good    *)
(* and waits as it should; the HTTP port of a node (Front) neither loses   *)
(* nor doubles a connection, and its owner's count of streams and answers  *)
(* fit, whoever moves first; and the runner of a host (HostRunner),        *)
(* whatever order exits, reaps, probes, kills, failed calls, crashes and   *)
(* restarts come in, takes no directory from under a living process,       *)
(* signals no group that was proved gone, and loses no container without   *)
(* a call to Docker having failed.                                         *)
(***************************************************************************)
EXTENDS Front, Tunnel, HostRunner, QueueLemmas, FiniteSetTheorems, TLAPS

-----------------------------------------------------------------------------
(* Tunnel: the inductive invariant *)

Tasks == [pc : {"dial", "serve", "wait", "gone", "stopped"},
          try : 0..(EDGES - 1), backoff : 1..(10 * BACKOFF_MAX)]

EndKinds == {"none", "refused", "exception", "broken"}
Ends == [kind : EndKinds, retry : BOOLEAN, after : Nat]
Slots == [registered : BOOLEAN, attempts : Nat, end : Ends]
Pushes == [version : 0..MaxOpened, good : BOOLEAN, seen : 0..MaxOpened]
Visits == {NoVisit, "early", "headed", "whole", "served", "told", "reset"}
Controls == {"none", "call", "drain", "over"}

TunShape ==
  /\ task \in [Index -> Tasks]
  /\ slot \in [Index -> Slots]
  /\ ctl \in [Index -> Controls]
  /\ bell \in [Index -> BOOLEAN]
  /\ push \in [Index -> Pushes]
  /\ visit \in [Index -> Visits]
  /\ rules \in 0..MaxOpened /\ up \in Nat /\ liveTasks \in Nat
  /\ gaveUp \in BOOLEAN /\ appStop \in BOOLEAN /\ mainAt \in {"run", "closed", "failed"}
  /\ edgeFaults \in 0..MaxEdgeFaults /\ opened \in Nat
  /\ lost \in [Index -> 0..BACKOFF_MAX] /\ asked \in [Index -> Nat]

\* Only a refusal asks for a wait, and only a refusal is for good.
PlainEnd(e) == e.kind # "refused" => e.retry /\ e.after = 0
ForGood(e) == e.kind = "refused" /\ ~e.retry

\* The control stream is how a connection is registered, and a bell rings for its
\* end or for the app's.
ControlFits(i) ==
  /\ task[i].pc # "serve" => ctl[i] = "none"
  /\ slot[i].registered => ctl[i] \in {"drain", "over"}
  /\ ctl[i] = "drain" => slot[i].registered
  /\ ctl[i] # "over" => slot[i].end = NoEnd
  /\ PlainEnd(slot[i].end)
  /\ task[i].pc = "serve" /\ bell[i] /\ ~appStop => ctl[i] = "over"

\* Each failed attempt was a mishap, but for a refusal after which there is no
\* other attempt.
AttemptsPaid(i) ==
  slot[i].attempts <= IF ForGood(slot[i].end) \/ task[i].pc \in {"gone", "stopped"}
                      THEN edgeFaults + 1 ELSE edgeFaults

\* While a connection is tried the wait for the next failure is already doubled.
TryingWait(i) ==
  /\ task[i].backoff <= BACKOFF_MAX
  /\ task[i].backoff >= Least(2 ^ lost[i], BACKOFF_MAX)
  /\ lost[i] = 0 /\ ~slot[i].registered => task[i].backoff = 1

\* While a task waits it waits as BackoffFollows says, and it has lost something.
WaitingWait(i) ==
  /\ lost[i] >= 1
  /\ task[i].backoff >= Least(asked[i], 10 * BACKOFF_MAX)
  /\ task[i].backoff <= BACKOFF_MAX \/ task[i].backoff <= asked[i]
  /\ lost[i] = 1 /\ asked[i] = 0 => task[i].backoff = 1
  /\ task[i].backoff >= Least(2 ^ (lost[i] - 1), BACKOFF_MAX)

TunOK(i) ==
  /\ ControlFits(i)
  /\ AttemptsPaid(i)
  /\ task[i].pc \in {"dial", "serve"} => TryingWait(i)
  /\ task[i].pc = "wait" => WaitingWait(i)

UpSet == {i \in Index : slot[i].registered}
LiveSet == {i \in Index : task[i].pc # "gone"}

TunCounts ==
  /\ up = Cardinality(UpSet)
  /\ liveTasks = Cardinality(LiveSet)
  /\ gaveUp <=> liveTasks = 0

TunIInv == TunShape /\ (\A i \in Index : TunOK(i)) /\ TunCounts

-----------------------------------------------------------------------------
(* Tunnel: what the steps need *)

\* One element of a function replaced.
LEMMA Put ==
  ASSUME NEW S, NEW T, NEW f \in [S -> T], NEW i \in S, NEW x \in T
  PROVE  /\ [f EXCEPT ![i] = x] \in [S -> T]
         /\ [f EXCEPT ![i] = x][i] = x
         /\ \A j \in S : j # i => [f EXCEPT ![i] = x][j] = f[j]
  OBVIOUS

\* There are finitely many connections.
LEMMA IndexFinite == IsFiniteSet(Index) /\ \A S \in SUBSET Index : IsFiniteSet(S)
<1>1. IsFiniteSet(0..(CONNECTIONS - 1))
  BY TunAssumption, FS_Interval
<1> QED
  BY <1>1, FS_Subset DEF Index

\* The counted sets are finite sets of indexes.
LEMMA CountedSets ==
  /\ IsFiniteSet(UpSet) /\ Cardinality(UpSet) \in Nat
  /\ IsFiniteSet(LiveSet) /\ Cardinality(LiveSet) \in Nat
  /\ Cardinality(LiveSet) = 0 <=> LiveSet = {}
<1>1. UpSet \in SUBSET Index /\ LiveSet \in SUBSET Index
  BY DEF UpSet, LiveSet
<1> QED
  BY <1>1, IndexFinite, FS_CardinalityType, FS_EmptySet

\* The initial state.
LEMMA TunStarts == TunInit => TunIInv
<1> SUFFICES ASSUME TunInit PROVE TunIInv
  OBVIOUS
<1>1. NoEnd \in Ends /\ NoPush \in Pushes
  BY TunAssumption DEF NoEnd, NoPush, Ends, EndKinds, Pushes
<1>2. \A i \in Index : i % EDGES \in 0..(EDGES - 1)
  BY TunAssumption DEF Index
<1>3. 1 \in 1..(10 * BACKOFF_MAX) /\ 0 \in 0..BACKOFF_MAX /\ 0 \in 0..MaxEdgeFaults /\ 0 \in 0..MaxOpened
  BY TunAssumption
<1>4. TunShape
  BY <1>1, <1>2, <1>3, TunAssumption DEF TunInit, TunShape, BACKOFF_MIN, NoVisit, Tasks, Slots, Visits, Controls
<1>5. 2 ^ 0 = 1
  OBVIOUS
<1>6. \A i \in Index : TunOK(i)
  <2> SUFFICES ASSUME NEW i \in Index PROVE TunOK(i)
    OBVIOUS
  <2>1. /\ task[i].pc = "dial" /\ task[i].backoff = 1 /\ lost[i] = 0
        /\ ~slot[i].registered /\ slot[i].attempts = 0 /\ slot[i].end = NoEnd
        /\ ctl[i] = "none" /\ ~bell[i] /\ edgeFaults = 0
    BY DEF TunInit, BACKOFF_MIN
  <2>2. ControlFits(i) /\ AttemptsPaid(i)
    BY <2>1 DEF ControlFits, AttemptsPaid, PlainEnd, ForGood, NoEnd
  <2>3. TryingWait(i)
    BY <2>1, <1>5, TunAssumption DEF TryingWait, Least
  <2> QED
    BY <2>1, <2>2, <2>3 DEF TunOK
<1>7. UpSet = {} /\ LiveSet = 0..(CONNECTIONS - 1)
  BY DEF TunInit, UpSet, LiveSet, Index
<1>8. Cardinality(UpSet) = 0 /\ Cardinality(LiveSet) = CONNECTIONS
  BY <1>7, FS_EmptySet, FS_Interval, TunAssumption
<1>9. TunCounts
  BY <1>8, TunAssumption DEF TunInit, TunCounts
<1> QED
  BY <1>4, <1>6, <1>9 DEF TunIInv

\* An index that a step leaves alone stays as it is: mishaps only grow, and the
\* app is asked to stop once.
LEMMA Untouched ==
  ASSUME NEW i \in Index, TunOK(i), TunShape,
         task'[i] = task[i], slot'[i] = slot[i], ctl'[i] = ctl[i],
         lost'[i] = lost[i], asked'[i] = asked[i],
         (bell'[i] <=> bell[i]) \/ appStop',
         edgeFaults' \in Nat, edgeFaults' >= edgeFaults, appStop => appStop'
  PROVE  TunOK(i)'
<1>1. ControlFits(i)'
  BY DEF TunOK, ControlFits
<1>2. AttemptsPaid(i)'
  BY DEF TunOK, AttemptsPaid, TunShape, Slots
<1>3. TryingWait(i) => TryingWait(i)'
  BY DEF TryingWait
<1>4. WaitingWait(i) => WaitingWait(i)'
  BY DEF WaitingWait
<1> QED
  BY <1>1, <1>2, <1>3, <1>4 DEF TunOK

\* The counts stay when the counted sets do.
LEMMA SameCounts ==
  ASSUME TunCounts, UpSet' = UpSet, LiveSet' = LiveSet, up' = up, liveTasks' = liveTasks, gaveUp' <=> gaveUp
  PROVE  TunCounts'
  BY DEF TunCounts

\* A connection that was tried and lost waits as it should.
LEMMA WaitsRight ==
  ASSUME NEW b \in 1..BACKOFF_MAX, NEW n \in 0..BACKOFF_MAX, NEW wasUp \in BOOLEAN,
         NEW why \in Ends, PlainEnd(why),
         b >= Least(2 ^ n, BACKOFF_MAX),
         n = 0 /\ ~wasUp => b = 1
  PROVE  /\ NextBackoff(b, wasUp, why) \in 1..(10 * BACKOFF_MAX)
         /\ LET m == IF wasUp THEN 1 ELSE Least(n + 1, BACKOFF_MAX)
            IN  /\ m \in 1..BACKOFF_MAX
                /\ NextBackoff(b, wasUp, why) >= Least(why.after, 10 * BACKOFF_MAX)
                /\ NextBackoff(b, wasUp, why) <= BACKOFF_MAX \/ NextBackoff(b, wasUp, why) <= why.after
                /\ m = 1 /\ why.after = 0 => NextBackoff(b, wasUp, why) = 1
                /\ NextBackoff(b, wasUp, why) >= Least(2 ^ (m - 1), BACKOFF_MAX)
<1> DEFINE mine == IF wasUp THEN 1 ELSE b
           m == IF wasUp THEN 1 ELSE Least(n + 1, BACKOFF_MAX)
           pause == NextBackoff(b, wasUp, why)
<1>1. why.after \in Nat /\ why.retry \in BOOLEAN
  BY DEF Ends
<1>2. pause = IF why.kind = "refused" /\ why.after > mine THEN Least(why.after, 10 * BACKOFF_MAX) ELSE mine
  BY DEF NextBackoff, BACKOFF_MIN
<1>3. mine \in 1..BACKOFF_MAX
  BY TunAssumption
<1>4. m \in 1..BACKOFF_MAX
  BY TunAssumption DEF Least
<1>5. 2 ^ 0 = 1
  OBVIOUS
<1>6. mine >= Least(2 ^ (m - 1), BACKOFF_MAX)
  <2>1. CASE wasUp
    BY <2>1, <1>5, TunAssumption DEF Least
  <2>2. CASE ~wasUp /\ n + 1 <= BACKOFF_MAX
    <3>1. m - 1 = n
      BY <2>2 DEF Least
    <3> QED
      BY <2>2, <3>1
  <2>3. CASE ~wasUp /\ n = BACKOFF_MAX
    <3>1. m = BACKOFF_MAX /\ m - 1 \in 0..BACKOFF_MAX /\ (m - 1) + 1 = n
      BY <2>3, TunAssumption DEF Least
    <3> DEFINE k == m - 1
    <3> HIDE DEF k
    <3>2. 2 ^ k \in Nat \ {0} /\ 2 ^ (k + 1) = 2 * (2 ^ k)
      BY <3>1, PowersOfTwo DEF k
    <3>3. k + 1 = n
      BY <3>1 DEF k
    <3>4. 2 ^ n = 2 * (2 ^ k) 
      BY <3>2, <3>3
    <3>5. mine >= Least(2 ^ k, BACKOFF_MAX)
      BY <2>3, <3>2, <3>4, TunAssumption DEF Least
    <3> QED
      BY <3>5 DEF k
  <2>4. n = BACKOFF_MAX \/ n + 1 <= BACKOFF_MAX
    BY TunAssumption
  <2> QED
    BY <2>1, <2>2, <2>3, <2>4
<1>7. 2 ^ (m - 1) \in Nat
  <2>1. m - 1 \in 0..BACKOFF_MAX
    BY <1>4, TunAssumption
  <2> HIDE DEF m
  <2> QED
    BY <2>1, PowersOfTwo
<1>8. m = 1 /\ why.after = 0 => mine = 1
  <2>1. m = 1 /\ ~wasUp => n = 0 \/ BACKOFF_MAX = 1
    BY TunAssumption DEF Least
  <2> QED
    BY <2>1, TunAssumption
<1> HIDE DEF m, mine, pause
<1>9. CASE why.kind = "refused" /\ why.after > mine
  BY <1>9, <1>1, <1>2, <1>3, <1>4, <1>6, <1>7, <1>8, TunAssumption DEF Least, m, pause
<1>10. CASE ~(why.kind = "refused" /\ why.after > mine)
  <2>1. why.after <= mine
    BY <1>1, <1>3, <1>10 DEF PlainEnd
  <2> QED
    BY <2>1, <1>10, <1>1, <1>2, <1>3, <1>4, <1>6, <1>7, <1>8, TunAssumption DEF Least, m, pause
<1> QED
  BY <1>9, <1>10

\* The wait that is over is doubled.
LEMMA WaitsLonger ==
  ASSUME NEW b \in 1..(10 * BACKOFF_MAX), NEW n \in 1..BACKOFF_MAX,
         b >= Least(2 ^ (n - 1), BACKOFF_MAX)
  PROVE  /\ Least(2 * b, BACKOFF_MAX) \in 1..BACKOFF_MAX
         /\ Least(2 * b, BACKOFF_MAX) >= Least(2 ^ n, BACKOFF_MAX)
<1> DEFINE k == n - 1
<1>1. k \in 0..BACKOFF_MAX /\ k + 1 = n
  BY TunAssumption
<1>2. 2 ^ k \in Nat \ {0} /\ 2 ^ (k + 1) = 2 * (2 ^ k)
  BY <1>1, PowersOfTwo
<1>3. 2 ^ n = 2 * (2 ^ k) /\ b >= Least(2 ^ k, BACKOFF_MAX)
  BY <1>1, <1>2
<1> HIDE DEF k
<1> QED
  BY <1>2, <1>3, TunAssumption DEF Least

\* A connection is lost: its index comes back, stops or is gone, and is counted off.
LEMMA LostOK ==
  ASSUME TunIInv, NEW i \in Index, task[i].pc \in {"dial", "serve"},
         NEW why \in Ends, PlainEnd(why),
         \/ slot[i].attempts <= edgeFaults'
         \/ slot[i].attempts <= edgeFaults' + 1 /\ (appStop \/ ForGood(why)),
         edgeFaults' \in 0..MaxEdgeFaults, edgeFaults' >= edgeFaults,
         Lost(i, why),
         UNCHANGED <<bell, rules, appStop, mainAt, opened>>
  PROVE  TunIInv'
<1> DEFINE wasUp == slot[i].registered
           pause == NextBackoff(task[i].backoff, slot[i].registered, why)
           n == IF slot[i].registered THEN 1 ELSE Least(lost[i] + 1, BACKOFF_MAX)
<1>1. TunShape /\ TunOK(i) /\ TunCounts
  BY DEF TunIInv
<1>2. /\ task[i].backoff \in 1..(10 * BACKOFF_MAX) /\ lost[i] \in 0..BACKOFF_MAX
      /\ slot[i].registered \in BOOLEAN /\ slot[i].attempts \in Nat
  BY <1>1 DEF TunShape, Tasks, Slots
<1>3. TryingWait(i)
  BY <1>1 DEF TunOK
<1>4. /\ pause \in 1..(10 * BACKOFF_MAX)
      /\ n \in 1..BACKOFF_MAX
      /\ pause >= Least(why.after, 10 * BACKOFF_MAX)
      /\ pause <= BACKOFF_MAX \/ pause <= why.after
      /\ n = 1 /\ why.after = 0 => pause = 1
      /\ pause >= Least(2 ^ (n - 1), BACKOFF_MAX)
  <2>1. task[i].backoff \in 1..BACKOFF_MAX
    BY <1>2, <1>3, TunAssumption DEF TryingWait
  <2>2. lost[i] = 0 /\ ~slot[i].registered => task[i].backoff = 1
    BY <1>3 DEF TryingWait
  <2>3. task[i].backoff >= Least(2 ^ lost[i], BACKOFF_MAX)
    BY <1>3 DEF TryingWait
  <2> QED
    BY <2>1, <2>2, <2>3, <1>2, WaitsRight
<1>5. why.after \in Nat
  BY DEF Ends
<1>6. NoEnd \in Ends /\ NoPush \in Pushes
  BY TunAssumption DEF NoEnd, NoPush, Ends, EndKinds, Pushes
<1>7. /\ slot' = [slot EXCEPT ![i].registered = FALSE, ![i].end = NoEnd]
      /\ ctl' = [ctl EXCEPT ![i] = "none"]
      /\ push' = [push EXCEPT ![i] = NoPush]
      /\ visit' = [visit EXCEPT ![i] = NoVisit]
      /\ up' = IF slot[i].registered THEN up - 1 ELSE up
  BY DEF Lost, UpAfter
<1> HIDE DEF wasUp, pause, n
<1>8. \/ /\ appStop
         /\ task' = [task EXCEPT ![i].pc = "stopped"]
         /\ UNCHANGED <<liveTasks, gaveUp, lost, asked>>
      \/ /\ ~appStop /\ ForGood(why)
         /\ task' = [task EXCEPT ![i].pc = "gone"]
         /\ liveTasks' = liveTasks - 1 /\ (gaveUp' <=> gaveUp \/ liveTasks = 1)
         /\ UNCHANGED <<lost, asked>>
      \/ /\ ~appStop /\ ~ForGood(why)
         /\ task' = [task EXCEPT ![i].pc = "wait", ![i].backoff = pause]
         /\ lost' = [lost EXCEPT ![i] = n]
         /\ asked' = [asked EXCEPT ![i] = why.after]
         /\ UNCHANGED <<liveTasks, gaveUp>>
  BY DEF Lost, ForGood, GivesUp, pause, n
<1>9. UpSet' = UpSet \ {i} /\ (i \in UpSet <=> slot[i].registered)
  BY <1>1, <1>7 DEF UpSet, TunShape
<1>10. i \in LiveSet
  BY DEF LiveSet
<1>11. Cardinality(UpSet') = IF slot[i].registered THEN Cardinality(UpSet) - 1 ELSE Cardinality(UpSet)
  BY <1>9, CountedSets, FS_RemoveElement
<1>12. up' = Cardinality(UpSet') /\ up' \in Nat
  <2>1. Cardinality(UpSet') \in Nat
    BY <1>9, CountedSets, FS_RemoveElement, FS_Subset, FS_CardinalityType
  <2> QED
    BY <2>1, <1>1, <1>7, <1>11 DEF TunCounts
<1>13. LiveSet' = IF ~appStop /\ ForGood(why) THEN LiveSet \ {i} ELSE LiveSet
  BY <1>1, <1>8 DEF LiveSet, TunShape, Tasks
<1>14. Cardinality(LiveSet \ {i}) = Cardinality(LiveSet) - 1 /\ Cardinality(LiveSet) \in Nat
       /\ Cardinality(LiveSet) # 0
  BY <1>10, CountedSets, FS_RemoveElement
<1>15. TunCounts'
  <2>1. CASE ~appStop /\ ForGood(why)
    BY <2>1, <1>1, <1>8, <1>12, <1>13, <1>14 DEF TunCounts
  <2>2. CASE ~(~appStop /\ ForGood(why))
    BY <2>2, <1>1, <1>8, <1>12, <1>13 DEF TunCounts
  <2> QED
    BY <2>1, <2>2
<1>16. liveTasks' \in Nat /\ gaveUp' \in BOOLEAN
  <2>1. liveTasks = Cardinality(LiveSet) /\ gaveUp \in BOOLEAN
    BY <1>1 DEF TunCounts, TunShape
  <2>2. liveTasks' \in Nat
    BY <2>1, <1>8, <1>14
  <2>3. gaveUp' \in BOOLEAN
    <3>1. gaveUp' = gaveUp \/ gaveUp' = (gaveUp \/ liveTasks = 1)
      BY DEF Lost, GivesUp
    <3> QED
      BY <2>1, <3>1
  <2> QED
    BY <2>2, <2>3
<1>17. TunShape'
  <2>1. slot' \in [Index -> Slots]
    <3> DEFINE r == [slot[i] EXCEPT !.registered = FALSE, !.end = NoEnd]
    <3>1. r \in Slots
      BY <1>1, <1>6 DEF TunShape, Slots
    <3>2. slot' = [slot EXCEPT ![i] = r]
      BY <1>7
    <3> QED
      BY <1>1, <3>1, <3>2, Put DEF TunShape
  <2>2. task' \in [Index -> Tasks]
    <3>1. CASE task' = [task EXCEPT ![i].pc = "wait", ![i].backoff = pause]
      <4> DEFINE r == [task[i] EXCEPT !.pc = "wait", !.backoff = pause]
      <4>1. r \in Tasks
        BY <1>1, <1>4 DEF TunShape, Tasks
      <4>2. task' = [task EXCEPT ![i] = r]
        BY <3>1
      <4> QED
        BY <1>1, <4>1, <4>2, Put DEF TunShape
    <3>2. CASE \E pc \in {"stopped", "gone"} : task' = [task EXCEPT ![i].pc = pc]
      BY <3>2, <1>1 DEF TunShape, Tasks
    <3> QED
      BY <3>1, <3>2, <1>8
  <2>3. lost' \in [Index -> 0..BACKOFF_MAX] /\ asked' \in [Index -> Nat]
    <3>1. n \in 0..BACKOFF_MAX
      BY <1>4, TunAssumption
    <3>2. lost' = lost \/ lost' = [lost EXCEPT ![i] = n]
      BY <1>8
    <3>3. asked' = asked \/ asked' = [asked EXCEPT ![i] = why.after]
      BY <1>8
    <3> QED
      BY <1>1, <1>5, <3>1, <3>2, <3>3, Put DEF TunShape
  <2>4. /\ bell' = bell /\ rules' = rules /\ appStop' = appStop /\ mainAt' = mainAt /\ opened' = opened
    OBVIOUS
  <2>5. ctl' \in [Index -> Controls] /\ push' \in [Index -> Pushes] /\ visit' \in [Index -> Visits]
    BY <1>1, <1>6, <1>7, Put DEF TunShape, Controls, Visits
  <2> QED
    BY <2>1, <2>2, <2>3, <2>4, <2>5, <1>1, <1>12, <1>16 DEF TunShape
<1>18. TunOK(i)'
  <2>1. /\ slot'[i].end = NoEnd /\ ~slot'[i].registered /\ ctl'[i] = "none"
        /\ slot'[i].attempts = slot[i].attempts
    BY <1>1, <1>7 DEF TunShape
  <2>2. /\ task'[i].pc \in {"stopped", "gone", "wait"}
        /\ task'[i].pc = "wait" => /\ ~appStop /\ ~ForGood(why)
                                  /\ task'[i].backoff = pause /\ lost'[i] = n /\ asked'[i] = why.after
    BY <1>1, <1>8 DEF TunShape, Tasks
  <2>3. ControlFits(i)'
    BY <2>1, <2>2 DEF ControlFits, PlainEnd, NoEnd
  <2>4. AttemptsPaid(i)'
    BY <2>1, <2>2, <1>2 DEF AttemptsPaid, ForGood, NoEnd
  <2>5. task'[i].pc = "wait" => WaitingWait(i)'
    BY <2>2, <1>4 DEF WaitingWait
  <2> QED
    BY <2>2, <2>3, <2>4, <2>5 DEF TunOK
<1>19. \A j \in Index : TunOK(j)'
  <2> SUFFICES ASSUME NEW j \in Index, j # i PROVE TunOK(j)'
    BY <1>18
  <2>1. /\ task'[j] = task[j] /\ slot'[j] = slot[j] /\ ctl'[j] = ctl[j]
        /\ lost'[j] = lost[j] /\ asked'[j] = asked[j]
    BY <1>1, <1>7, <1>8 DEF TunShape
  <2>2. TunOK(j) /\ edgeFaults' \in Nat /\ (bell'[j] <=> bell[j]) /\ (appStop => appStop')
    BY DEF TunIInv
  <2> QED
    BY <1>1, <2>1, <2>2, Untouched
<1> QED
  BY <1>15, <1>17, <1>19 DEF TunIInv

-----------------------------------------------------------------------------
(* Tunnel: the steps *)

\* A mishap is spent within its bound.
LEMMA MishapSpent ==
  ASSUME TunShape, Mishap
  PROVE  edgeFaults' \in 0..MaxEdgeFaults /\ edgeFaults' = edgeFaults + 1
  BY TunAssumption DEF TunShape, Mishap

\* DialFails, Watchdog, BellRings and ServeEnds.
LEMMA LosingSteps ==
  ASSUME TunIInv, NEW i \in Index,
         DialFails(i) \/ Watchdog(i) \/ BellRings(i) \/ ServeEnds(i)
  PROVE  TunIInv'
<1>1. TunShape /\ TunOK(i) /\ ControlFits(i) /\ AttemptsPaid(i)
  BY DEF TunIInv, TunOK
<1>2. /\ slot[i].end \in Ends /\ slot[i].attempts \in Nat /\ edgeFaults \in 0..MaxEdgeFaults
      /\ edgeFaults \in Nat
  BY <1>1, TunAssumption DEF TunShape, Slots
<1>3. NoEnd \in Ends /\ PlainEnd(NoEnd) /\ ~ForGood(NoEnd)
  BY DEF NoEnd, Ends, EndKinds, PlainEnd, ForGood
<1>4. CASE DialFails(i)
  <2>1. task[i].pc = "dial" /\ Lost(i, NoEnd) /\ UNCHANGED <<bell, rules, appStop, mainAt, opened>>
    BY <1>4 DEF DialFails
  <2>2. slot[i].end = NoEnd
    BY <1>1, <2>1 DEF ControlFits
  <2>3. edgeFaults' \in 0..MaxEdgeFaults /\ edgeFaults' >= edgeFaults
    <3>1. edgeFaults' = edgeFaults \/ Mishap
      BY <1>4 DEF DialFails
    <3> QED
      BY <1>1, <1>2, <3>1, MishapSpent
  <2>4. slot[i].attempts <= edgeFaults'
    BY <1>1, <1>2, <1>3, <2>1, <2>2, <2>3 DEF AttemptsPaid
  <2> QED
    BY <1>3, <2>1, <2>3, <2>4, LostOK
<1>5. CASE Watchdog(i)
  <2>1. task[i].pc = "serve" /\ Lost(i, NoEnd) /\ UNCHANGED <<bell, rules, appStop, mainAt, opened>>
        /\ Mishap
    BY <1>5 DEF Watchdog
  <2>2. edgeFaults' \in 0..MaxEdgeFaults /\ edgeFaults' = edgeFaults + 1
    BY <1>1, <2>1, MishapSpent
  <2>3. slot[i].attempts <= edgeFaults' /\ edgeFaults' >= edgeFaults
    BY <1>1, <1>2, <2>2 DEF AttemptsPaid
  <2> QED
    BY <1>3, <2>1, <2>2, <2>3, LostOK
<1>6. CASE BellRings(i)
  <2>1. /\ task[i].pc = "serve" /\ bell[i] /\ Lost(i, slot[i].end) /\ edgeFaults' = edgeFaults
        /\ UNCHANGED <<bell, rules, appStop, mainAt, opened>>
    BY <1>6 DEF BellRings
  <2>2. PlainEnd(slot[i].end)
    BY <1>1 DEF ControlFits
  <2>3. \/ slot[i].attempts <= edgeFaults'
        \/ slot[i].attempts <= edgeFaults' + 1 /\ (appStop \/ ForGood(slot[i].end))
    BY <1>1, <1>2, <2>1 DEF AttemptsPaid
  <2> QED
    BY <1>2, <2>1, <2>2, <2>3, LostOK
<1>7. CASE ServeEnds(i)
  <2>1. /\ task[i].pc = "serve" /\ Lost(i, slot[i].end) /\ Mishap
        /\ UNCHANGED <<bell, rules, appStop, mainAt, opened>>
    BY <1>7 DEF ServeEnds
  <2>2. edgeFaults' \in 0..MaxEdgeFaults /\ edgeFaults' = edgeFaults + 1
    BY <1>1, <2>1, MishapSpent
  <2>3. slot[i].attempts <= edgeFaults' /\ edgeFaults' >= edgeFaults
    BY <1>1, <1>2, <2>2 DEF AttemptsPaid
  <2>4. PlainEnd(slot[i].end)
    BY <1>1 DEF ControlFits
  <2> QED
    BY <1>2, <2>1, <2>2, <2>3, <2>4, LostOK
<1> QED
  BY <1>4, <1>5, <1>6, <1>7

\* The wait is over.
LEMMA WaitOverOK ==
  ASSUME TunIInv, NEW i \in Index, WaitOver(i)
  PROVE  TunIInv'
<1> DEFINE longer == Least(2 * task[i].backoff, BACKOFF_MAX)
           next == [pc |-> "dial", try |-> (task[i].try + 1) % EDGES, backoff |-> longer]
           stop == [task[i] EXCEPT !.pc = "stopped"]
<1>1. TunShape /\ TunOK(i) /\ TunCounts /\ task[i].pc = "wait" /\ WaitingWait(i)
  BY DEF TunIInv, TunOK, WaitOver
<1>2. /\ task[i] \in Tasks /\ task[i].try \in 0..(EDGES - 1) /\ task[i].backoff \in 1..(10 * BACKOFF_MAX)
      /\ lost[i] \in 0..BACKOFF_MAX
  BY <1>1 DEF TunShape, Tasks
<1>3. lost[i] \in 1..BACKOFF_MAX /\ task[i].backoff >= Least(2 ^ (lost[i] - 1), BACKOFF_MAX)
  BY <1>1, <1>2 DEF WaitingWait
<1>4. longer \in 1..BACKOFF_MAX /\ longer >= Least(2 ^ lost[i], BACKOFF_MAX)
  BY <1>2, <1>3, WaitsLonger
<1>5. longer \in 1..(10 * BACKOFF_MAX) /\ longer <= BACKOFF_MAX
  BY <1>4, TunAssumption
<1>6. (task[i].try + 1) % EDGES \in 0..(EDGES - 1)
  BY <1>2, TunAssumption
<1>7. /\ UNCHANGED <<slot, ctl, bell, push, visit, rules, up, liveTasks, gaveUp, appStop, mainAt,
                     edgeFaults, opened, lost>>
      /\ asked' = [asked EXCEPT ![i] = 0]
      /\ task' = [task EXCEPT ![i] = next] \/ task' = [task EXCEPT ![i] = stop]
  BY DEF WaitOver
<1> HIDE DEF longer
<1>8. next \in Tasks /\ stop \in Tasks
  BY <1>2, <1>5, <1>6 DEF Tasks
<1>9. /\ next.pc = "dial" /\ next.backoff = longer /\ stop.pc = "stopped"
  BY <1>2 DEF Tasks
<1> HIDE DEF next, stop
<1>10. /\ task' \in [Index -> Tasks] /\ task'[i] \in {next, stop}
       /\ \A j \in Index : j # i => task'[j] = task[j]
  BY <1>1, <1>7, <1>8, Put DEF TunShape
<1>11. /\ asked' \in [Index -> Nat] /\ \A j \in Index : j # i => asked'[j] = asked[j]
  BY <1>1, <1>7, Put DEF TunShape
<1>12. TunShape'
  BY <1>1, <1>7, <1>10, <1>11 DEF TunShape
<1>13. TunOK(i)'
  <2>1. ~slot[i].registered /\ slot'[i] = slot[i] /\ lost'[i] = lost[i] /\ ctl'[i] = ctl[i]
    BY <1>1, <1>7 DEF TunOK, ControlFits
  <2>2. task'[i].pc \in {"dial", "stopped"} /\ (task'[i].pc = "dial" => task'[i].backoff = longer)
    BY <1>9, <1>10
  <2>3. ControlFits(i)'
    BY <1>1, <1>7, <2>1, <2>2 DEF TunOK, ControlFits
  <2>4. AttemptsPaid(i)'
    BY <1>1, <1>7, <2>1, <2>2, TunAssumption DEF TunOK, AttemptsPaid, TunShape, Slots
  <2>5. task'[i].pc = "dial" => TryingWait(i)'
    BY <1>3, <1>4, <1>5, <2>1, <2>2 DEF TryingWait
  <2> QED
    BY <2>2, <2>3, <2>4, <2>5 DEF TunOK
<1>14. \A j \in Index : TunOK(j)'
  <2> SUFFICES ASSUME NEW j \in Index, j # i PROVE TunOK(j)'
    BY <1>13
  <2>1. TunOK(j) /\ edgeFaults' \in Nat /\ edgeFaults' >= edgeFaults
    BY <1>1, <1>7, TunAssumption DEF TunIInv, TunShape
  <2> QED
    BY <1>1, <1>7, <1>10, <1>11, <2>1, Untouched
<1>15. LiveSet' = LiveSet /\ UpSet' = UpSet
  <2>1. \A j \in Index : task'[j].pc = "gone" <=> task[j].pc = "gone"
    BY <1>1, <1>9, <1>10
  <2> QED
    BY <1>7, <2>1 DEF LiveSet, UpSet
<1>16. TunCounts'
  BY <1>1, <1>7, <1>15, SameCounts
<1> QED
  BY <1>12, <1>14, <1>16 DEF TunIInv

\* The session is there.
LEMMA DialledOK ==
  ASSUME TunIInv, NEW i \in Index, Dialled(i)
  PROVE  TunIInv'
<1> DEFINE t == [task[i] EXCEPT !.pc = "serve"]
           r == [slot[i] EXCEPT !.registered = FALSE, !.end = NoEnd]
<1>1. TunShape /\ TunOK(i) /\ TunCounts /\ task[i].pc = "dial" /\ ControlFits(i) /\ AttemptsPaid(i)
      /\ TryingWait(i)
  BY DEF TunIInv, TunOK, Dialled
<1>2. ~slot[i].registered /\ ctl[i] = "none" /\ slot[i].end = NoEnd
  BY <1>1 DEF ControlFits
<1>3. task[i] \in Tasks /\ slot[i] \in Slots
  BY <1>1 DEF TunShape
<1>4. NoEnd \in Ends /\ PlainEnd(NoEnd) /\ ~ForGood(NoEnd)
  BY DEF NoEnd, Ends, EndKinds, PlainEnd, ForGood
<1>5. /\ task' = [task EXCEPT ![i] = t]
      /\ slot' = [slot EXCEPT ![i] = r]
      /\ bell' = [bell EXCEPT ![i] = FALSE]
      /\ UNCHANGED <<ctl, push, visit, rules, up, liveTasks, gaveUp, appStop, mainAt, edgeFaults,
                     opened, lost, asked>>
  BY DEF Dialled
<1>6. /\ t \in Tasks /\ t.pc = "serve" /\ t.backoff = task[i].backoff
      /\ r \in Slots /\ ~r.registered /\ r.end = NoEnd /\ r.attempts = slot[i].attempts
  BY <1>3, <1>4 DEF Tasks, Slots
<1> HIDE DEF t, r
<1>7. /\ task' \in [Index -> Tasks] /\ task'[i] = t /\ \A j \in Index : j # i => task'[j] = task[j]
      /\ slot' \in [Index -> Slots] /\ slot'[i] = r /\ \A j \in Index : j # i => slot'[j] = slot[j]
  BY <1>1, <1>5, <1>6, Put DEF TunShape
<1>8. /\ bell' \in [Index -> BOOLEAN] /\ ~bell'[i] /\ \A j \in Index : j # i => (bell'[j] <=> bell[j])
  BY <1>1, <1>5 DEF TunShape
<1>9. TunShape'
  BY <1>1, <1>5, <1>7, <1>8 DEF TunShape
<1>10. edgeFaults \in Nat /\ slot[i].attempts \in Nat
  BY <1>1, <1>3, TunAssumption DEF TunShape, Slots
<1>11. TunOK(i)'
  <2>1. ControlFits(i)'
    BY <1>2, <1>4, <1>5, <1>6, <1>7, <1>8 DEF ControlFits
  <2>2. AttemptsPaid(i)'
    <3>1. slot[i].attempts <= edgeFaults
      <4>1. ~ForGood(slot[i].end)
        BY <1>2, <1>4
      <4> QED
        BY <1>1, <1>10, <4>1 DEF AttemptsPaid
    <3> QED
      BY <1>4, <1>5, <1>6, <1>7, <1>10, <3>1 DEF AttemptsPaid
  <2>3. TryingWait(i)'
    BY <1>1, <1>2, <1>5, <1>6, <1>7 DEF TryingWait
  <2> QED
    BY <1>6, <1>7, <2>1, <2>2, <2>3 DEF TunOK
<1>12. \A j \in Index : TunOK(j)'
  <2> SUFFICES ASSUME NEW j \in Index, j # i PROVE TunOK(j)'
    BY <1>11
  <2>1. TunOK(j) /\ edgeFaults' \in Nat /\ edgeFaults' >= edgeFaults
    BY <1>5, <1>10 DEF TunIInv
  <2> QED
    BY <1>1, <1>5, <1>7, <1>8, <2>1, Untouched
<1>13. LiveSet' = LiveSet /\ UpSet' = UpSet
  <2>1. \A j \in Index : (task'[j].pc = "gone" <=> task[j].pc = "gone")
                         /\ (slot'[j].registered <=> slot[j].registered)
    BY <1>1, <1>2, <1>6, <1>7
  <2> QED
    BY <2>1 DEF LiveSet, UpSet
<1>14. TunCounts'
  BY <1>1, <1>5, <1>13, SameCounts
<1> QED
  BY <1>9, <1>12, <1>14 DEF TunIInv

\* The control stream opens.
LEMMA ControlOpensOK ==
  ASSUME TunIInv, NEW i \in Index, ControlOpens(i)
  PROVE  TunIInv'
<1>1. /\ TunShape /\ TunCounts /\ TunOK(i) /\ ControlFits(i) /\ AttemptsPaid(i)
      /\ task[i].pc = "serve" /\ ctl[i] = "none" /\ ctl' = [ctl EXCEPT ![i] = "call"]
      /\ UNCHANGED <<slot, bell, up, edgeFaults, lost, task, push, visit, rules, liveTasks, gaveUp, appStop,
                     mainAt, opened, asked>>
  BY DEF TunIInv, TunOK, ControlOpens, tunUnseen
<1>2. /\ ctl' \in [Index -> Controls] /\ ctl'[i] = "call" /\ \A j \in Index : j # i => ctl'[j] = ctl[j]
  BY <1>1, Put DEF TunShape, Controls
<1>3. TunShape'
  BY <1>1, <1>2 DEF TunShape
<1>4. edgeFaults' \in Nat /\ edgeFaults' >= edgeFaults
  BY <1>1, TunAssumption DEF TunShape
<1>5. TunOK(i)'
  <2>1. ControlFits(i)'
    BY <1>1, <1>2 DEF ControlFits
  <2>2. AttemptsPaid(i)' /\ TryingWait(i)'
    BY <1>1 DEF AttemptsPaid, TryingWait, TunOK
  <2> QED
    BY <1>1, <2>1, <2>2 DEF TunOK
<1>6. \A j \in Index : TunOK(j)'
  <2> SUFFICES ASSUME NEW j \in Index, j # i PROVE TunOK(j)'
    BY <1>5
  <2>1. TunOK(j)
    BY DEF TunIInv
  <2> QED
    BY <1>1, <1>2, <1>4, <2>1, Untouched
<1>7. TunCounts'
  <2>1. UpSet' = UpSet /\ LiveSet' = LiveSet
    BY <1>1 DEF UpSet, LiveSet
  <2> QED
    BY <1>1, <2>1, SameCounts
<1> QED
  BY <1>3, <1>6, <1>7 DEF TunIInv

\* The edge registers the connection.
LEMMA RegisteredOK ==
  ASSUME TunIInv, NEW i \in Index, Registered(i)
  PROVE  TunIInv'
<1> DEFINE r == [slot[i] EXCEPT !.registered = TRUE, !.attempts = 0]
<1>1. /\ TunShape /\ TunCounts /\ TunOK(i) /\ ControlFits(i)
      /\ task[i].pc = "serve" /\ ctl[i] = "call" /\ ctl' = [ctl EXCEPT ![i] = "drain"]
      /\ slot' = [slot EXCEPT ![i] = r] /\ up' = up + 1 /\ lost' = [lost EXCEPT ![i] = 0]
      /\ UNCHANGED <<bell, edgeFaults, task, push, visit, rules, liveTasks, gaveUp, appStop,
                     mainAt, opened, asked>>
  BY DEF TunIInv, TunOK, Registered, tunUnseen
<1>2. slot[i] \in Slots /\ task[i] \in Tasks
  BY <1>1 DEF TunShape
<1>3. /\ r \in Slots /\ r.registered /\ r.attempts = 0 /\ r.end = slot[i].end
  BY <1>2 DEF Slots
<1>4. slot[i].end = NoEnd /\ ~slot[i].registered
  BY <1>1 DEF ControlFits
<1> HIDE DEF r
<1>5. /\ ctl' \in [Index -> Controls] /\ ctl'[i] = "drain" /\ \A j \in Index : j # i => ctl'[j] = ctl[j]
      /\ slot' \in [Index -> Slots] /\ slot'[i] = r /\ \A j \in Index : j # i => slot'[j] = slot[j]
  BY <1>1, <1>3, Put DEF TunShape, Controls
<1>6. /\ lost' \in [Index -> 0..BACKOFF_MAX] /\ lost'[i] = 0 /\ \A j \in Index : j # i => lost'[j] = lost[j]
  <2>1. 0 \in 0..BACKOFF_MAX
    BY TunAssumption
  <2> QED
    BY <1>1, <2>1, Put DEF TunShape
<1>7. up' \in Nat
  BY <1>1 DEF TunShape
<1>8. TunShape'
  BY <1>1, <1>5, <1>6, <1>7 DEF TunShape
<1>9. edgeFaults' \in Nat /\ edgeFaults' >= edgeFaults
  BY <1>1, TunAssumption DEF TunShape
<1>10. TunOK(i)'
  <2>1. ControlFits(i)'
    BY <1>1, <1>3, <1>4, <1>5 DEF ControlFits
  <2>2. AttemptsPaid(i)'
    BY <1>3, <1>5, <1>9 DEF AttemptsPaid
  <2>3. TryingWait(i)'
    <3>1. task[i].backoff <= BACKOFF_MAX /\ task[i].backoff >= 1
      BY <1>1, <1>2, TunAssumption DEF TunOK, TryingWait, Tasks
    <3>2. 2 ^ 0 = 1
      OBVIOUS
    <3>3. task[i].backoff >= Least(2 ^ 0, BACKOFF_MAX)
      BY <1>2, <3>1, <3>2, TunAssumption DEF Least, Tasks
    <3> QED
      BY <1>1, <1>3, <1>5, <1>6, <3>1, <3>3 DEF TryingWait
  <2> QED
    BY <1>1, <2>1, <2>2, <2>3 DEF TunOK
<1>11. \A j \in Index : TunOK(j)'
  <2> SUFFICES ASSUME NEW j \in Index, j # i PROVE TunOK(j)'
    BY <1>10
  <2>1. TunOK(j)
    BY DEF TunIInv
  <2> QED
    BY <1>1, <1>5, <1>6, <1>9, <2>1, Untouched
<1>12. TunCounts'
  <2>1. UpSet' = UpSet \cup {i} /\ i \notin UpSet
    BY <1>3, <1>4, <1>5 DEF UpSet
  <2>2. Cardinality(UpSet') = Cardinality(UpSet) + 1
    BY <2>1, CountedSets, FS_AddElement
  <2>3. LiveSet' = LiveSet
    BY <1>1 DEF LiveSet
  <2> QED
    BY <1>1, <2>2, <2>3 DEF TunCounts
<1> QED
  BY <1>8, <1>11, <1>12 DEF TunIInv

\* The control stream ends, and the bell rings.
LEMMA ControlEndsOK ==
  ASSUME TunIInv, NEW i \in Index, task[i].pc = "serve", ctl[i] \in {"call", "drain"},
         NEW e \in Ends, PlainEnd(e), ControlEnds(i, e),
         edgeFaults' \in 0..MaxEdgeFaults,
         edgeFaults' = edgeFaults + 1 \/ (edgeFaults' = edgeFaults /\ ForGood(e)),
         UNCHANGED <<up, lost>>, UNCHANGED tunUnseen
  PROVE  TunIInv'
<1> DEFINE n == IF slot[i].registered THEN slot[i].attempts ELSE slot[i].attempts + 1
           r == [slot[i] EXCEPT !.end = e, !.attempts = n]
<1>1. /\ TunShape /\ TunCounts /\ TunOK(i) /\ ControlFits(i) /\ AttemptsPaid(i)
      /\ ctl' = [ctl EXCEPT ![i] = "over"]
      /\ slot' = [slot EXCEPT ![i] = r]
      /\ bell' = [bell EXCEPT ![i] = TRUE]
      /\ UNCHANGED <<up, lost, task, push, visit, rules, liveTasks, gaveUp, appStop,
                     mainAt, opened, asked>>
  BY DEF TunIInv, TunOK, ControlEnds, tunUnseen
<1>2. slot[i] \in Slots /\ slot[i].attempts \in Nat /\ edgeFaults \in Nat /\ edgeFaults' \in Nat
  BY <1>1, TunAssumption DEF TunShape, Slots
<1>3. /\ r \in Slots /\ (r.registered <=> slot[i].registered) /\ r.end = e
      /\ r.attempts <= slot[i].attempts + 1 /\ r.attempts \in Nat
  <2>1. n \in Nat /\ n <= slot[i].attempts + 1
    BY <1>2
  <2> HIDE DEF n
  <2>2. r \in Slots /\ r.attempts = n /\ r.end = e /\ r.registered = slot[i].registered
    BY <1>2, <2>1 DEF Slots
  <2> QED
    BY <2>1, <2>2
<1>4. slot[i].end = NoEnd
  BY <1>1 DEF ControlFits
<1> HIDE DEF r
<1>5. /\ ctl' \in [Index -> Controls] /\ ctl'[i] = "over" /\ \A j \in Index : j # i => ctl'[j] = ctl[j]
      /\ slot' \in [Index -> Slots] /\ slot'[i] = r /\ \A j \in Index : j # i => slot'[j] = slot[j]
  BY <1>1, <1>3, Put DEF TunShape, Controls
<1>6. /\ bell' \in [Index -> BOOLEAN] /\ \A j \in Index : j # i => (bell'[j] <=> bell[j])
  BY <1>1 DEF TunShape
<1>7. TunShape'
  BY <1>1, <1>5, <1>6 DEF TunShape
<1>8. TunOK(i)'
  <2>1. ControlFits(i)'
    BY <1>1, <1>3, <1>5 DEF ControlFits
  <2>2. AttemptsPaid(i)'
    <3>1. slot[i].attempts <= edgeFaults
      BY <1>1, <1>2, <1>4 DEF AttemptsPaid, ForGood, NoEnd
    <3> QED
      BY <1>2, <1>3, <1>5, <3>1 DEF AttemptsPaid
  <2>3. TryingWait(i)'
    BY <1>1, <1>3, <1>5 DEF TryingWait, TunOK
  <2> QED
    BY <1>1, <2>1, <2>2, <2>3 DEF TunOK
<1>9. \A j \in Index : TunOK(j)'
  <2> SUFFICES ASSUME NEW j \in Index, j # i PROVE TunOK(j)'
    BY <1>8
  <2>1. TunOK(j) /\ edgeFaults' >= edgeFaults
    BY <1>2 DEF TunIInv
  <2> QED
    BY <1>1, <1>2, <1>5, <1>6, <2>1, Untouched
<1>10. TunCounts'
  <2>1. UpSet' = UpSet
    BY <1>3, <1>5 DEF UpSet
  <2>2. LiveSet' = LiveSet
    BY <1>1 DEF LiveSet
  <2> QED
    BY <1>1, <2>1, <2>2, SameCounts
<1> QED
  BY <1>7, <1>9, <1>10 DEF TunIInv

\* Refused and ControlBreaks.
LEMMA ControlEndSteps ==
  ASSUME TunIInv, NEW i \in Index, Refused(i) \/ ControlBreaks(i)
  PROVE  TunIInv'
<1>1. TunShape
  BY DEF TunIInv
<1>2. edgeFaults \in 0..MaxEdgeFaults
  BY <1>1 DEF TunShape
<1>3. CASE Refused(i)
  <2>1. task[i].pc = "serve" /\ ctl[i] = "call" /\ UNCHANGED <<up, lost>> /\ UNCHANGED tunUnseen
    BY <1>3 DEF Refused
  <2>2. CASE /\ ControlEnds(i, [kind |-> "refused", retry |-> FALSE, after |-> 0])
             /\ UNCHANGED edgeFaults
    <3> DEFINE e == [kind |-> "refused", retry |-> FALSE, after |-> 0]
    <3>1. e \in Ends /\ PlainEnd(e) /\ ForGood(e)
      BY DEF Ends, EndKinds, PlainEnd, ForGood
    <3> HIDE DEF e
    <3>2. ControlEnds(i, e) /\ edgeFaults' = edgeFaults
      BY <2>2 DEF e
    <3> QED
      BY <1>2, <2>1, <3>1, <3>2, ControlEndsOK
  <2>3. ASSUME NEW after \in RetryAfters,
               ControlEnds(i, [kind |-> "refused", retry |-> TRUE, after |-> after]), Mishap
        PROVE  TunIInv'
    <3> DEFINE e == [kind |-> "refused", retry |-> TRUE, after |-> after]
    <3>1. e \in Ends /\ PlainEnd(e)
      BY TunAssumption DEF Ends, EndKinds, PlainEnd
    <3> HIDE DEF e
    <3>2. ControlEnds(i, e)
      BY <2>3 DEF e
    <3> QED
      BY <1>1, <2>1, <2>3, <3>1, <3>2, ControlEndsOK, MishapSpent
  <2>4. ASSUME NEW kind \in {"exception", "broken"},
               ControlEnds(i, [kind |-> kind, retry |-> TRUE, after |-> 0]), Mishap
        PROVE  TunIInv'
    <3> DEFINE e == [kind |-> kind, retry |-> TRUE, after |-> 0]
    <3>1. e \in Ends /\ PlainEnd(e)
      BY DEF Ends, EndKinds, PlainEnd
    <3> HIDE DEF e
    <3>2. ControlEnds(i, e)
      BY <2>4 DEF e
    <3> QED
      BY <1>1, <2>1, <2>4, <3>1, <3>2, ControlEndsOK, MishapSpent
  <2> QED
    BY <1>3, <2>2, <2>3, <2>4 DEF Refused
<1>4. CASE ControlBreaks(i)
  <2> DEFINE e == [kind |-> "broken", retry |-> TRUE, after |-> 0]
  <2>1. e \in Ends /\ PlainEnd(e)
    BY DEF Ends, EndKinds, PlainEnd
  <2>2. /\ task[i].pc = "serve" /\ ctl[i] = "drain" /\ Mishap /\ ControlEnds(i, e)
        /\ UNCHANGED <<up, lost>> /\ UNCHANGED tunUnseen
    BY <1>4 DEF ControlBreaks
  <2> HIDE DEF e
  <2> QED
    BY <1>1, <2>1, <2>2, ControlEndsOK, MishapSpent
<1> QED
  BY <1>3, <1>4

\* Pushes and visitors leave the connections alone.
LEMMA StreamsAside ==
  ASSUME TunIInv, UNCHANGED tunServing,
         push' \in [Index -> Pushes], visit' \in [Index -> Visits], rules' \in 0..MaxOpened, opened' \in Nat
  PROVE  TunIInv'
<1>1. UNCHANGED <<task, slot, ctl, bell, up, liveTasks, gaveUp, appStop, mainAt, edgeFaults, lost, asked>>
  BY DEF tunServing
<1>2. TunShape /\ TunCounts /\ \A i \in Index : TunOK(i)
  BY DEF TunIInv
<1>3. TunShape'
  BY <1>1, <1>2 DEF TunShape
<1>4. edgeFaults' \in Nat /\ edgeFaults' >= edgeFaults
  BY <1>1, <1>2, TunAssumption DEF TunShape
<1>5. \A i \in Index : TunOK(i)'
  BY <1>1, <1>2, <1>4, Untouched
<1>6. UpSet' = UpSet /\ LiveSet' = LiveSet
  BY <1>1 DEF UpSet, LiveSet
<1>7. TunCounts'
  BY <1>1, <1>2, <1>6, SameCounts
<1> QED
  BY <1>3, <1>5, <1>7 DEF TunIInv

\* A push is read, and the table is a version that was pushed.
LEMMA PushSteps ==
  ASSUME TunIInv, NEW i \in Index, PushOpens(i) \/ PushRead(i)
  PROVE  TunIInv'
<1>1. TunShape /\ opened \in Nat /\ rules \in 0..MaxOpened /\ push[i] \in Pushes
  BY DEF TunIInv, TunShape
<1>2. CASE PushOpens(i)
  <2>1. PICK v \in 1..MaxOpened, good \in BOOLEAN :
          push' = [push EXCEPT ![i] = [version |-> v, good |-> good, seen |-> rules]]
    BY <1>2 DEF PushOpens
  <2>2. [version |-> v, good |-> good, seen |-> rules] \in Pushes
    BY <1>1, TunAssumption DEF Pushes
  <2>3. push' \in [Index -> Pushes]
    BY <1>1, <2>1, <2>2, Put DEF TunShape
  <2>4. opened' \in Nat /\ rules' = rules /\ visit' = visit /\ UNCHANGED tunServing
    BY <1>1, <1>2 DEF PushOpens
  <2> QED
    BY <1>1, <2>3, <2>4, StreamsAside DEF TunShape
<1>3. CASE PushRead(i)
  <2>1. rules' = Update(push[i]) /\ push' = [push EXCEPT ![i] = NoPush] /\ visit' = visit
        /\ opened' = opened /\ UNCHANGED tunServing
    BY <1>3 DEF PushRead
  <2>2. rules' \in 0..MaxOpened
    BY <1>1, <2>1 DEF Update, Pushes
  <2>3. NoPush \in Pushes
    BY TunAssumption DEF NoPush, Pushes
  <2>4. push' \in [Index -> Pushes]
    BY <1>1, <2>1, <2>3, Put DEF TunShape
  <2> QED
    BY <1>1, <2>1, <2>2, <2>4, StreamsAside DEF TunShape
<1> QED
  BY <1>2, <1>3

\* A visitor's steps.
LEMMA VisitSteps ==
  ASSUME TunIInv, NEW i \in Index,
         VisitorComes(i) \/ VisitGoesOn(i) \/ VisitFails(i) \/ VisitorLeaves(i)
  PROVE  TunIInv'
<1>1. TunShape /\ opened \in Nat /\ visit \in [Index -> Visits]
  BY DEF TunIInv, TunShape
<1>2. \E to \in Visits : visit' = [visit EXCEPT ![i] = to]
  BY DEF VisitorComes, VisitGoesOn, VisitFails, VisitorLeaves, Visit, AfterFailure, Visits
<1>3. visit' \in [Index -> Visits]
  BY <1>1, <1>2, Put
<1>4. UNCHANGED <<rules, push>> /\ UNCHANGED tunServing /\ (opened' = opened \/ opened' = opened + 1)
  BY DEF VisitorComes, VisitGoesOn, VisitFails, VisitorLeaves
<1> QED
  BY <1>1, <1>3, <1>4, StreamsAside DEF TunShape

\* The app's own end.
LEMMA EndSteps ==
  ASSUME TunIInv, StopAsked \/ CloseAll \/ GaveUpEnds
  PROVE  TunIInv'
<1>1. TunShape /\ TunCounts /\ \A i \in Index : TunOK(i)
  BY DEF TunIInv
<1>2. /\ UNCHANGED <<task, slot, ctl, push, visit, rules, up, liveTasks, gaveUp, edgeFaults, opened, lost, asked>>
      /\ appStop' \in BOOLEAN /\ (appStop => appStop')
      /\ mainAt' \in {"run", "closed", "failed"}
  BY <1>1 DEF StopAsked, CloseAll, GaveUpEnds, TunShape
<1>3. bell' \in [Index -> BOOLEAN] /\ \A i \in Index : (bell'[i] <=> bell[i]) \/ appStop'
  BY <1>1 DEF StopAsked, CloseAll, GaveUpEnds, TunShape
<1>4. TunShape'
  BY <1>1, <1>2, <1>3 DEF TunShape
<1>5. edgeFaults' \in Nat /\ edgeFaults' >= edgeFaults
  BY <1>1, <1>2, TunAssumption DEF TunShape
<1>6. \A i \in Index : TunOK(i)'
  BY <1>1, <1>2, <1>3, <1>5, Untouched
<1>7. UpSet' = UpSet /\ LiveSet' = LiveSet
  BY <1>2 DEF UpSet, LiveSet
<1>8. TunCounts'
  BY <1>1, <1>2, <1>7, SameCounts
<1> QED
  BY <1>4, <1>6, <1>8 DEF TunIInv

\* Every step keeps the invariant.
LEMMA TunSteps ==
  ASSUME TunIInv, [TunNext]_tunVars
  PROVE  TunIInv'
<1>1. CASE UNCHANGED tunVars
  <2>1. UNCHANGED <<push, visit, rules, opened>> /\ UNCHANGED tunServing
    BY <1>1 DEF tunVars, tunServing
  <2>2. TunShape
    BY DEF TunIInv
  <2> QED
    BY <2>1, <2>2, StreamsAside DEF TunShape
<1>2. ASSUME NEW i \in Index,
             \/ TaskStep(i) \/ DialFails(i) \/ ServeEnds(i) \/ Watchdog(i)
             \/ ControlOpens(i) \/ Registered(i) \/ Refused(i) \/ ControlBreaks(i)
             \/ PushOpens(i) \/ PushRead(i)
             \/ VisitorComes(i) \/ VisitGoesOn(i) \/ VisitFails(i) \/ VisitorLeaves(i)
      PROVE  TunIInv'
  BY <1>2, WaitOverOK, DialledOK, LosingSteps, ControlOpensOK, RegisteredOK, ControlEndSteps, PushSteps,
     VisitSteps DEF TaskStep
<1>3. CASE StopAsked \/ CloseAll \/ GaveUpEnds
  BY <1>3, EndSteps
<1> QED
  BY <1>1, <1>2, <1>3 DEF TunNext

\* The largest of three numbers.
LEMMA MaxOfThree ==
  ASSUME NEW a \in Nat, NEW b \in Nat, NEW c \in Nat
  PROVE  /\ Max({a, b, c}) >= a /\ Max({a, b, c}) >= b /\ Max({a, b, c}) >= c
         /\ Max({a, b, c}) \in {a, b, c}
<1>1. \E x \in {a, b, c} : \A y \in {a, b, c} : x >= y
  <2>1. CASE a >= b /\ a >= c
    BY <2>1
  <2>2. CASE b >= a /\ b >= c
    BY <2>2
  <2>3. CASE c >= a /\ c >= b
    BY <2>3
  <2> QED
    BY <2>1, <2>2, <2>3
<1> QED
  BY <1>1 DEF Max

\* The invariant says what the run checks.
LEMMA TunInvFollows == TunIInv => TunInv
<1> SUFFICES ASSUME TunIInv PROVE TunInv
  OBVIOUS
<1>1. TunShape /\ TunCounts /\ \A i \in Index : TunOK(i)
  BY DEF TunIInv
<1>2. UpCounts
  BY <1>1 DEF TunCounts, UpCounts, UpSet
<1>3. GaveUpOnlyWhenAll
  <2>1. gaveUp <=> LiveSet = {}
    BY <1>1, CountedSets DEF TunCounts
  <2> QED
    BY <2>1 DEF GaveUpOnlyWhenAll, LiveSet
<1>4. liveTasks \in 0..CONNECTIONS
  <2>1. LiveSet \subseteq 0..(CONNECTIONS - 1)
    BY DEF LiveSet, Index
  <2>2. Cardinality(0..(CONNECTIONS - 1)) = CONNECTIONS /\ IsFiniteSet(0..(CONNECTIONS - 1))
    BY FS_Interval, TunAssumption
  <2>3. Cardinality(LiveSet) <= CONNECTIONS
    BY <2>1, <2>2, FS_Subset
  <2> QED
    BY <1>1, <2>3, CountedSets, TunAssumption DEF TunCounts
<1>5. TunTypeOK
  <2>1. ASSUME NEW i \in Index
        PROVE  /\ task[i].pc \in {"dial", "serve", "wait", "gone", "stopped"}
               /\ task[i].try \in 0..(EDGES - 1)
               /\ task[i].backoff \in 1..(10 * BACKOFF_MAX)
               /\ slot[i].registered \in BOOLEAN /\ slot[i].attempts \in 0..(MaxEdgeFaults + 1)
               /\ slot[i].end.kind \in {"none", "refused", "exception", "broken"}
               /\ ctl[i] \in {"none", "call", "drain", "over"}
               /\ visit[i] \in {NoVisit, "early", "headed", "whole", "served", "told", "reset"}
    <3>1. task[i] \in Tasks /\ slot[i] \in Slots /\ ctl[i] \in Controls /\ visit[i] \in Visits
      BY <1>1 DEF TunShape
    <3>2. slot[i].attempts \in Nat /\ AttemptsPaid(i) /\ edgeFaults \in 0..MaxEdgeFaults
      BY <1>1, <3>1 DEF TunShape, Slots, TunOK
    <3>3. slot[i].attempts \in 0..(MaxEdgeFaults + 1)
      BY <3>2, TunAssumption DEF AttemptsPaid
    <3>4. slot[i].end \in Ends /\ slot[i].registered \in BOOLEAN
      BY <3>1 DEF Slots
    <3>5. slot[i].end.kind \in {"none", "refused", "exception", "broken"}
      BY <3>4 DEF Ends, EndKinds
    <3> QED
      BY <3>1, <3>3, <3>4, <3>5 DEF Tasks, Controls, Visits
  <2> QED
    BY <1>1, <1>4, <2>1 DEF TunTypeOK, TunShape
<1>6. BackoffFollows
  <2> SUFFICES ASSUME NEW i \in Index, task[i].pc = "wait"
               PROVE  /\ task[i].backoff >= Least(asked[i], 10 * BACKOFF_MAX)
                      /\ task[i].backoff <= Max({Least(2 ^ (lost[i] - 1), BACKOFF_MAX), asked[i], BACKOFF_MAX})
                      /\ lost[i] = 1 /\ asked[i] = 0 => task[i].backoff = BACKOFF_MIN
                      /\ task[i].backoff >= Least(2 ^ (lost[i] - 1), BACKOFF_MAX)
    BY DEF BackoffFollows
  <2>1. WaitingWait(i) /\ asked[i] \in Nat /\ lost[i] \in 0..BACKOFF_MAX /\ task[i].backoff \in Nat
    BY <1>1, TunAssumption DEF TunOK, TunShape, Tasks
  <2> DEFINE mine == Least(2 ^ (lost[i] - 1), BACKOFF_MAX)
  <2>2. mine \in Nat
    <3>1. lost[i] - 1 \in 0..BACKOFF_MAX
      BY <2>1, TunAssumption DEF WaitingWait
    <3>2. 2 ^ (lost[i] - 1) \in Nat
      BY <3>1, PowersOfTwo
    <3> QED
      BY <3>2, TunAssumption DEF Least
  <2> HIDE DEF mine
  <2>3. Max({mine, asked[i], BACKOFF_MAX}) >= asked[i] /\ Max({mine, asked[i], BACKOFF_MAX}) >= BACKOFF_MAX
        /\ Max({mine, asked[i], BACKOFF_MAX}) \in Nat
    BY <2>1, <2>2, MaxOfThree, TunAssumption
  <2>4. task[i].backoff <= Max({mine, asked[i], BACKOFF_MAX})
    BY <2>1, <2>3, TunAssumption DEF WaitingWait
  <2> QED
    BY <2>1, <2>4 DEF WaitingWait, BACKOFF_MIN, mine
<1> QED
  BY <1>2, <1>3, <1>5, <1>6 DEF TunInv

(* Whatever the edge, the network and the app do, and in which order: UP   *)
(* is the number of registered connections, GAVE_UP goes off exactly when  *)
(* every index was refused for good, and each wait follows the losses in a *)
(* row and what the edge asked for (keep_connected of tunnel.rs), for any  *)
(* number of connections and names and any longest wait.                   *)
THEOREM TunnelSafe == TunSpec => []TunInv
<1>1. TunIInv /\ [TunNext]_tunVars => TunIInv'
  BY TunSteps
<1> QED
  BY <1>1, TunStarts, TunInvFollows, PTL DEF TunSpec

(* No step brings back the rules of before, however many connections carry *)
(* pushes and whichever is read last (config_update), and a visitor's      *)
(* stream ends as served only with the origin's whole body (proxy).        *)
THEOREM TunnelKeeps == TunSpec => TunKeeps
<1> DEFINE Keeps == RulesNeverGoBack /\ ServedIsWhole
<1>1. ASSUME TunShape, [TunNext]_tunVars PROVE [Keeps]_tunVars
  <2>1. rules \in Nat
    BY <1>1, TunAssumption DEF TunShape
  <2>2. RulesNeverGoBack
    <3>1. rules' = rules \/ \E i \in Index : PushRead(i)
      BY <1>1 DEF TunNext, tunVars, TaskStep, WaitOver, Dialled, BellRings, DialFails, ServeEnds, Watchdog,
         ControlOpens, Registered, Refused, ControlBreaks, tunUnseen, PushOpens, VisitorComes,
         VisitGoesOn, VisitFails, VisitorLeaves, StopAsked, CloseAll, GaveUpEnds
    <3>2. ASSUME NEW i \in Index, PushRead(i) PROVE rules' >= rules
      <4>1. push[i] \in Pushes /\ rules' = Update(push[i])
        BY <1>1, <3>2 DEF TunShape, PushRead
      <4> QED
        BY <2>1, <4>1, TunAssumption DEF Update, Pushes
    <3> QED
      BY <2>1, <3>1, <3>2 DEF RulesNeverGoBack
  <2>3. ServedIsWhole
    <3> SUFFICES ASSUME NEW j \in Index, visit'[j] = "served", visit[j] # "served"
                 PROVE  visit[j] = "whole"
      BY DEF ServedIsWhole
    <3>1. \/ visit' = visit
          \/ \E i \in Index : visit' = [visit EXCEPT ![i] = NoVisit]
          \/ \E i \in Index : VisitorComes(i) \/ VisitGoesOn(i) \/ VisitFails(i)
      BY ZenonT(30), <1>1 DEF TunNext, tunVars, TaskStep, WaitOver, Dialled, BellRings, DialFails, ServeEnds, Watchdog,
         Lost, ControlOpens, Registered, Refused, ControlBreaks, tunUnseen, PushOpens, PushRead, tunServing,
         VisitorLeaves, Visit, StopAsked, CloseAll, GaveUpEnds
    <3>2. visit \in [Index -> Visits]
      BY <1>1 DEF TunShape
    <3>3. ASSUME NEW i \in Index, NEW from, NEW to \in Visits, Visit(i, from, to)
          PROVE  to # "served" \/ from = "whole" => visit[j] = "whole"
      <4>1. visit[i] = from /\ visit' = [visit EXCEPT ![i] = to]
        BY <3>3 DEF Visit
      <4>2. j = i /\ to = "served"
        BY <3>2, <4>1
      <4> QED
        BY <4>1, <4>2
    <3>4. ASSUME NEW i \in Index, VisitorComes(i) PROVE visit[j] = "whole"
      BY <3>3, <3>4 DEF VisitorComes, Visits
    <3>5. ASSUME NEW i \in Index, VisitGoesOn(i) PROVE visit[j] = "whole"
      BY <3>3, <3>5 DEF VisitGoesOn, Visits
    <3>6. ASSUME NEW i \in Index, VisitFails(i) PROVE visit[j] = "whole"
      BY <3>3, <3>6 DEF VisitFails, AfterFailure, Visits
    <3>7. ~(\E i \in Index : visit' = [visit EXCEPT ![i] = NoVisit])
      BY <3>2 DEF NoVisit
    <3> QED
      BY <3>1, <3>4, <3>5, <3>6, <3>7
  <2> QED
    BY <2>2, <2>3
<1>2. TunIInv => TunShape
  BY DEF TunIInv
<1>3. TunIInv /\ [TunNext]_tunVars => TunIInv'
  BY TunSteps
<1> QED
  BY <1>1, <1>2, <1>3, TunStarts, PTL DEF TunSpec, TunKeeps

-----------------------------------------------------------------------------
(* Front: the inductive invariant *)

Conns == [state : {"new", "open", "closed"}, said : Nat, fin : BOOLEAN, served : BOOLEAN]
Steps == {"idle", "accepted", "read", "asked", "gaveup", "forward", "stream", "polled", "over", "relay", "write"}
Workers == [pc : Steps, conn : Conn \cup {NoConn}, close : BOOLEAN]
Questions == (0..WORKERS) \X (Kinds \cup {"poll", "done"})
Replies == Kinds \cup {None, "more", "end"}

FrontShape ==
  /\ build \in {"HopOS", "host"}
  /\ conn \in [Conn -> Conns]
  /\ backlog \in Seq(Conn) /\ due \in Seq(Conn) /\ back \in Seq(Conn)
  /\ park \in SUBSET Conn /\ gone \in SUBSET Conn
  /\ wk \in [Worker -> Workers]
  /\ inbox \in Seq(Questions)
  /\ reply \in [Worker -> Replies]
  /\ streams \in 0..MAX_STREAMS /\ deaf \in Nat /\ says \in 0..MaxSays

\* A worker without a connection is idle.  Only the host's workers accept, and only
\* on HopOS does anything wait for a worker.
WorkersFit ==
  /\ \A w \in Worker : wk[w].pc = "idle" <=> wk[w].conn = NoConn
  /\ build = "HopOS" => \A w \in Worker : wk[w].pc # "accepted"
  /\ build = "host" => due = <<>>

\* Nothing is said that was not counted, and who was not dialled was not served.
SaidFits ==
  \A c \in Conn : conn[c].said <= says /\ (conn[c].state = "new" => ~conn[c].served)

Holders(c) == {w \in Worker : wk[w].conn = c}
PlacesOf(c) ==
  Cardinality(Holders(c)) + Times(backlog, c) + Times(due, c) + Times(back, c)
  + (IF c \in park THEN 1 ELSE 0) + (IF c \in gone THEN 1 ELSE 0)
InPlace == \A c \in Conn : PlacesOf(c) = IF conn[c].state = "open" THEN 1 ELSE 0

\* The park stays within its room.
ParkFits == Cardinality(park) <= PARK_CAP

\* Every return follows a hand-over, and with a hand-over the mailbox is empty.
BusyWorkers == {w \in Worker : Busy(w)}
ReturnsFit == build = "HopOS" => Len(back) + Cardinality(BusyWorkers) <= WORKERS

\* On HopOS what waits for a worker was not served yet, or can be read.
QuietWaits ==
  build = "HopOS" =>
    /\ \A c \in ToSet(backlog) : ~conn[c].served
    /\ \A c \in ToSet(due) : conn[c].served => Readable(c)
    /\ \A w \in Worker : wk[w].pc = "read" /\ conn[wk[w].conn].served => Readable(wk[w].conn)

\* Each question in the inbox is the one its worker waits for.
Of(w) == {w} \X (Kinds \cup {"poll"})
QuestionsFit ==
  \A i \in DOMAIN inbox :
    /\ inbox[i][2] = "poll" /\ inbox[i][1] # 0 => wk[inbox[i][1]].pc = "polled"
    /\ inbox[i][2] \in Kinds /\ inbox[i][1] # 0 => wk[inbox[i][1]].pc \in {"asked", "gaveup"}

AskedOnce ==
  \A w \in Worker :
    /\ Tally(inbox, Of(w)) + (IF reply[w] = None THEN 0 ELSE 1)
         <= IF wk[w].pc \in {"asked", "polled", "gaveup"} THEN 1 ELSE 0
    /\ reply[w] # None => wk[w].pc = IF reply[w] \in Kinds THEN "asked" ELSE "polled"

\* The count of streams.
AdmittedOnes == {w \in Worker : Admitted(w)}
Dones == (0..WORKERS) \X {"done"}
StreamsFit == streams = Cardinality(AdmittedOnes) + deaf + Tally(inbox, Dones)

\* Where the connections are, and who asked what.
PlacesInv == WorkersFit /\ SaidFits /\ InPlace /\ ParkFits /\ ReturnsFit /\ QuietWaits
AskInv == QuestionsFit /\ AskedOnce /\ StreamsFit

FrontIInv == FrontShape /\ PlacesInv /\ AskInv

-----------------------------------------------------------------------------
(* Front: what the steps need *)

\* Two sets that differ in one element at most.
LEMMA OneApart ==
  ASSUME NEW A, NEW B, NEW x, IsFiniteSet(A), IsFiniteSet(B), A \ {x} = B \ {x}
  PROVE  Cardinality(B) = Cardinality(A) - (IF x \in A THEN 1 ELSE 0) + (IF x \in B THEN 1 ELSE 0)
<1>1. Cardinality(A) \in Nat /\ Cardinality(B) \in Nat
  BY FS_CardinalityType
<1>2. Cardinality(A \ {x}) = IF x \in A THEN Cardinality(A) - 1 ELSE Cardinality(A)
  BY FS_RemoveElement
<1>3. Cardinality(B \ {x}) = IF x \in B THEN Cardinality(B) - 1 ELSE Cardinality(B)
  BY FS_RemoveElement
<1> DEFINE a == Cardinality(A)
           b == Cardinality(B)
           d == Cardinality(A \ {x})
<1>4. /\ a \in Nat /\ b \in Nat
      /\ d = IF x \in A THEN a - 1 ELSE a
      /\ d = IF x \in B THEN b - 1 ELSE b
  BY <1>1, <1>2, <1>3
<1> HIDE DEF a, b, d
<1>5. b = a - (IF x \in A THEN 1 ELSE 0) + (IF x \in B THEN 1 ELSE 0)
  BY <1>4
<1> QED
  BY <1>5 DEF a, b

\* There are finitely many workers and connections.
LEMMA FrontFinite ==
  /\ IsFiniteSet(Worker) /\ Cardinality(Worker) = WORKERS
  /\ \A S \in SUBSET Worker : IsFiniteSet(S) /\ Cardinality(S) \in Nat /\ Cardinality(S) <= WORKERS
  /\ \A S \in SUBSET Conn : IsFiniteSet(S) /\ Cardinality(S) \in Nat
  /\ NoConn \notin Conn
<1>1. /\ IsFiniteSet(1..WORKERS) /\ Cardinality(1..WORKERS) = WORKERS /\ IsFiniteSet(1..CONNS)
  <2>1. Cardinality(1..WORKERS) = IF 1 > WORKERS THEN 0 ELSE WORKERS - 1 + 1
    BY FrontAssumption, FS_Interval
  <2> QED
    BY <2>1, FrontAssumption, FS_Interval
<1>2. NoConn \notin Conn
  BY DEF NoConn, Conn
<1> QED
  BY ZenonT(30), <1>1, <1>2, FS_Subset, FS_CardinalityType DEF Worker, Conn

\* A worker that is given another record.
LEMMA WorkerPut ==
  ASSUME FrontShape, NEW w \in Worker, NEW r \in Workers, wk' = [wk EXCEPT ![w] = r]
  PROVE  /\ wk' \in [Worker -> Workers] /\ wk'[w] = r
         /\ \A v \in Worker : v # w => wk'[v] = wk[v]
         /\ wk[w] \in Workers
  BY Put DEF FrontShape

\* Who holds a connection, after one worker changed.
LEMMA HoldersMove ==
  ASSUME FrontShape, NEW w \in Worker, NEW r \in Workers, wk' = [wk EXCEPT ![w] = r], NEW c \in Conn
  PROVE  /\ Cardinality(Holders(c)) \in Nat
         /\ Cardinality(Holders(c)') = Cardinality(Holders(c)) - (IF wk[w].conn = c THEN 1 ELSE 0)
                                                              + (IF r.conn = c THEN 1 ELSE 0)
<1> DEFINE A == Holders(c)
           B == {v \in Worker : wk'[v].conn = c}
<1>1. /\ wk'[w] = r /\ \A v \in Worker : v # w => wk'[v] = wk[v]
  BY WorkerPut
<1>2. Holders(c)' = B
  BY DEF Holders
<1>3. A \in SUBSET Worker /\ B \in SUBSET Worker /\ (w \in A <=> wk[w].conn = c) /\ (w \in B <=> r.conn = c)
  BY <1>1 DEF Holders
<1>4. A \ {w} = B \ {w}
  BY <1>1 DEF Holders
<1>5. IsFiniteSet(A) /\ IsFiniteSet(B) /\ Cardinality(A) \in Nat /\ Cardinality(B) \in Nat
  BY <1>3, FrontFinite
<1> HIDE DEF A, B
<1>8. Cardinality(B) = Cardinality(A) - (IF w \in A THEN 1 ELSE 0) + (IF w \in B THEN 1 ELSE 0)
  BY <1>4, <1>5, OneApart
<1> QED
  BY <1>2, <1>3, <1>5, <1>8 DEF A

\* How many workers are busy, after one changed.
LEMMA BusyMove ==
  ASSUME FrontShape, NEW w \in Worker, NEW r \in Workers, wk' = [wk EXCEPT ![w] = r]
  PROVE  /\ Cardinality(BusyWorkers) \in Nat /\ Cardinality(BusyWorkers') \in Nat
         /\ Cardinality(BusyWorkers') <= WORKERS
         /\ Cardinality(BusyWorkers') = Cardinality(BusyWorkers)
              - (IF wk[w].pc \notin {"idle", "accepted"} THEN 1 ELSE 0)
              + (IF r.pc \notin {"idle", "accepted"} THEN 1 ELSE 0)
<1> DEFINE A == BusyWorkers
           B == {v \in Worker : wk'[v].pc \notin {"idle", "accepted"}}
<1>1. /\ wk'[w] = r /\ \A v \in Worker : v # w => wk'[v] = wk[v]
  BY WorkerPut
<1>2. BusyWorkers' = B
  BY DEF BusyWorkers, Busy
<1>3. A \in SUBSET Worker /\ B \in SUBSET Worker /\ (w \in A <=> wk[w].pc \notin {"idle", "accepted"})
      /\ (w \in B <=> r.pc \notin {"idle", "accepted"})
  BY <1>1 DEF BusyWorkers, Busy
<1>4. A \ {w} = B \ {w}
  BY <1>1 DEF BusyWorkers, Busy
<1>5. IsFiniteSet(A) /\ IsFiniteSet(B) /\ Cardinality(A) \in Nat /\ Cardinality(B) \in Nat
      /\ Cardinality(B) <= WORKERS
  BY <1>3, FrontFinite
<1> HIDE DEF A, B
<1>8. Cardinality(B) = Cardinality(A) - (IF w \in A THEN 1 ELSE 0) + (IF w \in B THEN 1 ELSE 0)
  BY <1>4, <1>5, OneApart
<1> QED
  BY <1>2, <1>3, <1>5, <1>8 DEF A

\* The terms of PlacesOf are numbers.
LEMMA PlacesAreNumbers ==
  ASSUME FrontShape, NEW c
  PROVE  /\ Cardinality(Holders(c)) \in Nat
         /\ Times(backlog, c) \in Nat /\ Times(due, c) \in Nat /\ Times(back, c) \in Nat
         /\ Times(backlog, c) = 0 <=> c \notin ToSet(backlog)
         /\ Times(due, c) = 0 <=> c \notin ToSet(due)
         /\ Times(back, c) = 0 <=> c \notin ToSet(back)
<1>1. Holders(c) \in SUBSET Worker
  BY DEF Holders
<1>2. backlog \in Seq(Conn) /\ due \in Seq(Conn) /\ back \in Seq(Conn)
  BY DEF FrontShape
<1> QED
  BY <1>1, <1>2, FrontFinite, TimesElement

\* What a worker holds is open, and is nowhere else.
LEMMA HeldIsOpen ==
  ASSUME FrontShape, PlacesInv, NEW w \in Worker, wk[w].pc # "idle"
  PROVE  LET c == wk[w].conn
         IN  /\ c \in Conn /\ conn[c].state = "open"
             /\ c \notin ToSet(backlog) /\ c \notin ToSet(due) /\ c \notin ToSet(back)
             /\ c \notin park /\ c \notin gone
             /\ Cardinality(Holders(c)) = 1
             /\ Times(backlog, c) = 0 /\ Times(due, c) = 0 /\ Times(back, c) = 0
             /\ \A v \in Worker : wk[v].conn = c => v = w
<1> DEFINE c == wk[w].conn
<1>1. c \in Conn
  BY DEF FrontShape, Workers, PlacesInv, WorkersFit
<1>2. w \in Holders(c) /\ Holders(c) \in SUBSET Worker
  BY DEF Holders
<1>3. IsFiniteSet(Holders(c)) /\ Cardinality(Holders(c)) \in Nat
  BY <1>2, FrontFinite
<1>4. Cardinality(Holders(c)) # 0
  BY <1>2, <1>3, FS_EmptySet
<1>5. PlacesOf(c) = IF conn[c].state = "open" THEN 1 ELSE 0
  BY <1>1 DEF PlacesInv, InPlace
<1> HIDE DEF c
<1>6. /\ Cardinality(Holders(c)) = 1 /\ conn[c].state = "open"
      /\ Times(backlog, c) = 0 /\ Times(due, c) = 0 /\ Times(back, c) = 0
      /\ c \notin park /\ c \notin gone
  BY <1>3, <1>4, <1>5, PlacesAreNumbers DEF PlacesOf
<1>7. \E x : Holders(c) = {x}
  BY <1>3, <1>6, FS_Singleton
<1>8. \A v \in Worker : wk[v].conn = c => v = w
  BY <1>2, <1>7 DEF Holders
<1>9. c \notin ToSet(backlog) /\ c \notin ToSet(due) /\ c \notin ToSet(back)
  BY <1>6, PlacesAreNumbers
<1> QED
  BY <1>1, <1>6, <1>8, <1>9 DEF c

-----------------------------------------------------------------------------
(* Front: where the connections are *)

\* A client dials: the connection waits in the backlog.
LEMMA DialPlaces ==
  ASSUME FrontShape, PlacesInv, NEW c \in Conn, Dial(c)
  PROVE  FrontShape' /\ PlacesInv'
<1> DEFINE r == [conn[c] EXCEPT !.state = "open"]
<1>1. /\ conn[c].state = "new" /\ conn' = [conn EXCEPT ![c] = r] /\ backlog' = Append(backlog, c)
      /\ UNCHANGED <<build, due, park, gone, back, wk, inbox, reply, streams, deaf, says>>
  BY DEF Dial
<1>2. conn[c] \in Conns /\ backlog \in Seq(Conn)
  BY DEF FrontShape
<1>3. /\ r \in Conns /\ r.state = "open" /\ r.said = conn[c].said
      /\ (r.served <=> conn[c].served) /\ (r.fin <=> conn[c].fin)
  BY <1>2 DEF Conns
<1> HIDE DEF r
<1>4. conn' \in [Conn -> Conns] /\ conn'[c] = r /\ \A b \in Conn : b # c => conn'[b] = conn[b]
  BY <1>1, <1>3, Put DEF FrontShape
<1>5. backlog' \in Seq(Conn) /\ ToSet(backlog') = ToSet(backlog) \cup {c}
  BY <1>1, <1>2, Appended, Elements
<1>6. FrontShape'
  BY <1>1, <1>4, <1>5 DEF FrontShape
<1>7. WorkersFit' /\ ParkFits' /\ ReturnsFit'
  BY <1>1 DEF PlacesInv, WorkersFit, ParkFits, ReturnsFit, BusyWorkers, Busy
<1>8. SaidFits'
  BY <1>1, <1>3, <1>4 DEF PlacesInv, SaidFits
<1>9. InPlace'
  <2> SUFFICES ASSUME NEW b \in Conn
               PROVE  PlacesOf(b)' = IF conn'[b].state = "open" THEN 1 ELSE 0
    BY DEF InPlace
  <2>1. Times(backlog', b) = Times(backlog, b) + (IF b = c THEN 1 ELSE 0)
    BY <1>1, <1>2, TimesAppended
  <2>2. Holders(b)' = Holders(b)
    BY <1>1 DEF Holders
  <2>3. PlacesOf(b) = IF conn[b].state = "open" THEN 1 ELSE 0
    BY DEF PlacesInv, InPlace
  <2> QED
    BY <1>1, <1>3, <1>4, <2>1, <2>2, <2>3, PlacesAreNumbers DEF PlacesOf
<1>10. QuietWaits'
  <2>1. \A b \in Conn : (conn'[b].served <=> conn[b].served) /\ (Readable(b)' <=> Readable(b))
    BY <1>3, <1>4 DEF Readable
  <2>2. ~conn[c].served
    BY <1>1 DEF PlacesInv, SaidFits
  <2>3. \A w \in Worker : wk[w].pc = "read" => wk[w].conn \in Conn
    BY DEF PlacesInv, WorkersFit, FrontShape, Workers
  <2>4. ToSet(backlog) \subseteq Conn /\ ToSet(due) \subseteq Conn
    BY Elements DEF FrontShape
  <2> QED
    BY <1>1, <1>5, <2>1, <2>2, <2>3, <2>4 DEF PlacesInv, QuietWaits
<1> QED
  BY <1>6, <1>7, <1>8, <1>9, <1>10 DEF PlacesInv

\* A client says something, or ends.
LEMMA SayPlaces ==
  ASSUME FrontShape, PlacesInv, NEW c \in Conn, Say(c) \/ HangUp(c)
  PROVE  FrontShape' /\ PlacesInv'
<1>1. /\ says < MaxSays /\ says' = says + 1 /\ conn[c].state = "open"
      /\ UNCHANGED <<build, backlog, due, park, gone, back, wk, inbox, reply, streams, deaf>>
  BY DEF Say, HangUp
<1>2. conn[c] \in Conns /\ says \in 0..MaxSays
  BY DEF FrontShape
<1>3. \E r \in Conns : /\ conn' = [conn EXCEPT ![c] = r]
                       /\ r.state = "open" /\ r.said \in {conn[c].said, conn[c].said + 1}
                       /\ (r.served <=> conn[c].served) /\ (conn[c].fin => r.fin)
  <2>1. CASE Say(c)
    <3> DEFINE r == [conn[c] EXCEPT !.said = @ + 1]
    <3>1. conn' = [conn EXCEPT ![c] = r]
      BY <2>1 DEF Say
    <3>2. /\ r \in Conns /\ r.state = "open" /\ r.said = conn[c].said + 1
          /\ (r.served <=> conn[c].served) /\ (conn[c].fin => r.fin)
      BY <1>1, <1>2 DEF Conns
    <3> HIDE DEF r
    <3> QED
      BY <3>1, <3>2
  <2>2. CASE HangUp(c)
    <3> DEFINE r == [conn[c] EXCEPT !.fin = TRUE]
    <3>1. conn' = [conn EXCEPT ![c] = r]
      BY <2>2 DEF HangUp
    <3>2. /\ r \in Conns /\ r.state = "open" /\ r.said = conn[c].said
          /\ (r.served <=> conn[c].served) /\ (conn[c].fin => r.fin)
      BY <1>1, <1>2 DEF Conns
    <3> HIDE DEF r
    <3> QED
      BY <3>1, <3>2
  <2> QED
    BY <2>1, <2>2
<1>4. PICK r \in Conns : /\ conn' = [conn EXCEPT ![c] = r]
                         /\ r.state = "open" /\ r.said \in {conn[c].said, conn[c].said + 1}
                         /\ (r.served <=> conn[c].served) /\ (conn[c].fin => r.fin)
  BY <1>3
<1>5. conn' \in [Conn -> Conns] /\ conn'[c] = r /\ \A b \in Conn : b # c => conn'[b] = conn[b]
  BY <1>4, Put DEF FrontShape
<1>6. says' \in 0..MaxSays
  BY <1>1, <1>2, FrontAssumption
<1>7. FrontShape'
  BY <1>1, <1>5, <1>6 DEF FrontShape
<1>8. WorkersFit' /\ ParkFits' /\ ReturnsFit'
  BY <1>1 DEF PlacesInv, WorkersFit, ParkFits, ReturnsFit, BusyWorkers, Busy
<1>9. \A b \in Conn : conn[b].said \in Nat /\ conn[b].said <= says
  BY DEF FrontShape, Conns, PlacesInv, SaidFits
<1>10. SaidFits'
  <2> SUFFICES ASSUME NEW b \in Conn
               PROVE  conn'[b].said <= says' /\ (conn'[b].state = "new" => ~conn'[b].served)
    BY DEF SaidFits
  <2>1. CASE b = c
    BY <1>1, <1>2, <1>4, <1>5, <1>9, <2>1
  <2>2. CASE b # c
    BY <1>1, <1>2, <1>5, <1>9, <2>2 DEF PlacesInv, SaidFits
  <2> QED
    BY <2>1, <2>2
<1>11. InPlace'
  <2> SUFFICES ASSUME NEW b \in Conn
               PROVE  PlacesOf(b)' = IF conn'[b].state = "open" THEN 1 ELSE 0
    BY DEF InPlace
  <2>1. Holders(b)' = Holders(b) /\ conn'[b].state = conn[b].state
    BY <1>1, <1>4, <1>5 DEF Holders
  <2>2. PlacesOf(b)' = PlacesOf(b)
    BY <1>1, <2>1 DEF PlacesOf
  <2> QED
    BY <2>1, <2>2 DEF PlacesInv, InPlace
<1>12. QuietWaits'
  <2>1. \A b \in Conn : (conn'[b].served <=> conn[b].served) /\ (Readable(b) => Readable(b)')
    BY <1>4, <1>5, <1>9 DEF Readable
  <2>2. \A w \in Worker : wk[w].pc = "read" => wk[w].conn \in Conn
    BY DEF PlacesInv, WorkersFit, FrontShape, Workers
  <2>3. ToSet(backlog) \subseteq Conn /\ ToSet(due) \subseteq Conn
    BY Elements DEF FrontShape
  <2> QED
    BY <1>1, <2>1, <2>2, <2>3 DEF PlacesInv, QuietWaits
<1> QED
  BY <1>7, <1>8, <1>10, <1>11, <1>12 DEF PlacesInv

\* A worker that goes on with its connection, reading nothing.
LEMMA PlacesKept ==
  ASSUME FrontShape, PlacesInv, NEW w \in Worker, NEW r \in Workers,
         wk' = [wk EXCEPT ![w] = r], r.conn = wk[w].conn,
         wk[w].pc \notin {"idle", "accepted"}, r.pc \notin {"idle", "accepted", "read"},
         UNCHANGED <<build, conn, backlog, due, park, gone, back, says>>
  PROVE  PlacesInv'
<1>1. /\ wk'[w] = r /\ \A v \in Worker : v # w => wk'[v] = wk[v]
  BY WorkerPut
<1>2. \A v \in Worker : /\ wk'[v].conn = wk[v].conn /\ (wk'[v].pc = "idle" <=> wk[v].pc = "idle")
                        /\ (wk'[v].pc = "accepted" <=> wk[v].pc = "accepted")
                        /\ (wk'[v].pc = "read" => wk[v].pc = "read")
  BY <1>1
<1>3. WorkersFit' /\ SaidFits' /\ ParkFits'
  BY <1>2 DEF PlacesInv, WorkersFit, SaidFits, ParkFits
<1>4. BusyWorkers' = BusyWorkers
  BY <1>2 DEF BusyWorkers, Busy
<1>5. ReturnsFit'
  BY <1>4 DEF PlacesInv, ReturnsFit
<1>6. \A c \in Conn : Holders(c)' = Holders(c)
  BY <1>2 DEF Holders
<1>7. InPlace'
  BY <1>6 DEF PlacesInv, InPlace, PlacesOf
<1>8. QuietWaits'
  BY <1>2 DEF PlacesInv, QuietWaits, Readable
<1> QED
  BY <1>3, <1>5, <1>7, <1>8 DEF PlacesInv

\* The host's thread accepts a connection.
LEMMA AcceptPlaces ==
  ASSUME FrontShape, PlacesInv, NEW w \in Worker, worker_accept(w)
  PROVE  FrontShape' /\ PlacesInv'
<1> DEFINE r == [pc |-> "accepted", conn |-> Head(backlog), close |-> FALSE]
<1>1. /\ build = "host" /\ wk[w].pc = "idle" /\ backlog # <<>> /\ wk' = [wk EXCEPT ![w] = r]
      /\ backlog' = Tail(backlog)
      /\ UNCHANGED <<build, conn, due, park, gone, back, inbox, reply, streams, deaf, says>>
  BY DEF worker_accept
<1>2. backlog \in Seq(Conn)
  BY DEF FrontShape
<1>3. Head(backlog) \in Conn /\ Tail(backlog) \in Seq(Conn)
  BY <1>1, <1>2, Tailed
<1>4. r \in Workers /\ r.conn = Head(backlog) /\ r.pc = "accepted"
  BY <1>3 DEF Workers, Steps
<1>5. Head(backlog) # NoConn
  BY <1>3, FrontFinite
<1> HIDE DEF r
<1>6. /\ wk' \in [Worker -> Workers] /\ wk'[w] = r /\ \A v \in Worker : v # w => wk'[v] = wk[v]
  BY <1>1, <1>4, WorkerPut
<1>7. FrontShape'
  BY <1>1, <1>3, <1>6 DEF FrontShape
<1>8. WorkersFit'
  BY <1>1, <1>4, <1>5, <1>6 DEF PlacesInv, WorkersFit
<1>9. SaidFits' /\ ParkFits' /\ ReturnsFit' /\ QuietWaits'
  BY <1>1 DEF PlacesInv, SaidFits, ParkFits, ReturnsFit, QuietWaits
<1>10. wk[w].conn = NoConn
  BY <1>1 DEF PlacesInv, WorkersFit
<1>11. InPlace'
  <2> SUFFICES ASSUME NEW c \in Conn
               PROVE  PlacesOf(c)' = IF conn'[c].state = "open" THEN 1 ELSE 0
    BY DEF InPlace
  <2>1. Times(backlog', c) = Times(backlog, c) - (IF c = Head(backlog) THEN 1 ELSE 0)
    BY <1>1, <1>2, TimesTailed
  <2>2. wk[w].conn # c
    BY <1>10, FrontFinite
  <2>3. Cardinality(Holders(c)') = Cardinality(Holders(c)) + (IF c = Head(backlog) THEN 1 ELSE 0)
        /\ Cardinality(Holders(c)) \in Nat
    <3>1. Cardinality(Holders(c)') = Cardinality(Holders(c)) - (IF wk[w].conn = c THEN 1 ELSE 0)
                                                            + (IF r.conn = c THEN 1 ELSE 0)
          /\ Cardinality(Holders(c)) \in Nat
      BY <1>1, <1>4, HoldersMove
    <3> QED
      BY <1>4, <2>2, <3>1
  <2>4. PlacesOf(c) = IF conn[c].state = "open" THEN 1 ELSE 0
    BY DEF PlacesInv, InPlace
  <2> QED
    BY <1>1, <2>1, <2>3, <2>4, PlacesAreNumbers DEF PlacesOf
<1> QED
  BY <1>7, <1>8, <1>9, <1>11 DEF PlacesInv

\* The host's thread counts itself busy.
LEMMA CountedPlaces ==
  ASSUME FrontShape, PlacesInv, NEW w \in Worker, counted(w)
  PROVE  FrontShape' /\ PlacesInv'
<1> DEFINE r == [wk[w] EXCEPT !.pc = "read"]
<1>1. /\ wk[w].pc = "accepted" /\ wk' = [wk EXCEPT ![w] = r]
      /\ UNCHANGED <<build, conn, backlog, due, park, gone, back, inbox, reply, streams, deaf, says>>
  BY DEF counted, To
<1>2. wk[w] \in Workers /\ build \in {"HopOS", "host"}
  BY DEF FrontShape
<1>3. build = "host"
  BY <1>1, <1>2 DEF PlacesInv, WorkersFit
<1>4. r \in Workers /\ r.conn = wk[w].conn /\ r.pc = "read"
  BY <1>2 DEF Workers, Steps
<1> HIDE DEF r
<1>5. /\ wk' \in [Worker -> Workers] /\ wk'[w] = r /\ \A v \in Worker : v # w => wk'[v] = wk[v]
  BY <1>1, <1>4, WorkerPut
<1>6. FrontShape'
  BY <1>1, <1>5 DEF FrontShape
<1>7. \A v \in Worker : wk'[v].conn = wk[v].conn /\ (wk'[v].pc = "idle" <=> wk[v].pc = "idle")
  BY <1>1, <1>4, <1>5
<1>8. WorkersFit'
  BY <1>1, <1>3, <1>7 DEF PlacesInv, WorkersFit
<1>9. SaidFits' /\ ParkFits' /\ ReturnsFit' /\ QuietWaits'
  BY <1>1, <1>3 DEF PlacesInv, SaidFits, ParkFits, ReturnsFit, QuietWaits
<1>10. \A c \in Conn : Holders(c)' = Holders(c)
  BY <1>7 DEF Holders
<1>11. InPlace'
  BY <1>1, <1>10 DEF PlacesInv, InPlace, PlacesOf
<1> QED
  BY <1>6, <1>8, <1>9, <1>11 DEF PlacesInv

\* A worker reads a request.
LEMMA ReadPlaces ==
  ASSUME FrontShape, PlacesInv, NEW w \in Worker, NEW k \in Kinds, read_request(w, k)
  PROVE  FrontShape' /\ PlacesInv'
<1> DEFINE c == wk[w].conn
           r == [wk[w] EXCEPT !.pc = "asked", !.close = none_free]
           n == conn[c].said - 1
           d == [conn[c] EXCEPT !.said = n, !.served = TRUE]
<1>1. /\ wk[w].pc = "read" /\ conn[c].said > 0 /\ inbox' = Append(inbox, <<w, k>>)
      /\ conn' = [conn EXCEPT ![c] = d]
      /\ wk' = [wk EXCEPT ![w] = r]
      /\ UNCHANGED <<build, backlog, due, park, gone, back, reply, streams, deaf, says>>
  BY DEF read_request
<1>2. /\ c \in Conn /\ conn[c].state = "open"
      /\ c \notin ToSet(backlog) /\ c \notin ToSet(due)
      /\ \A v \in Worker : wk[v].conn = c => v = w
  BY <1>1, HeldIsOpen
<1>3. wk[w] \in Workers /\ conn[c] \in Conns
  BY <1>2 DEF FrontShape
<1>4. none_free \in BOOLEAN
  BY DEF none_free
<1>5. r \in Workers /\ r.conn = c /\ r.pc = "asked"
  BY <1>3, <1>4 DEF Workers, Steps
<1>6. d \in Conns /\ d.state = "open" /\ d.said = conn[c].said - 1
  <2>1. n \in Nat
    BY <1>1, <1>3 DEF Conns
  <2> HIDE DEF n
  <2>2. d \in Conns /\ d.state = "open" /\ d.said = n
    BY <1>2, <1>3, <2>1 DEF Conns
  <2> QED
    BY <2>2 DEF n
<1> HIDE DEF r, d, c
<1>7. /\ wk' \in [Worker -> Workers] /\ wk'[w] = r /\ \A v \in Worker : v # w => wk'[v] = wk[v]
  BY <1>1, <1>5, WorkerPut
<1>8. /\ conn' \in [Conn -> Conns] /\ conn'[c] = d /\ \A b \in Conn : b # c => conn'[b] = conn[b]
  BY <1>1, <1>2, <1>6, Put DEF FrontShape
<1>9. inbox' \in Seq(Questions)
  <2>1. <<w, k>> \in Questions
    BY DEF Questions, Worker
  <2>2. inbox \in Seq(Questions)
    BY DEF FrontShape
  <2> QED
    BY <1>1, <2>1, <2>2, Appended
<1>10. FrontShape'
  BY <1>1, <1>7, <1>8, <1>9 DEF FrontShape
<1>11. \A v \in Worker : /\ wk'[v].conn = wk[v].conn
                         /\ (wk'[v].pc = "idle" <=> wk[v].pc = "idle")
                         /\ (wk'[v].pc = "accepted" <=> wk[v].pc = "accepted")
                         /\ (wk'[v].pc = "read" => wk[v].pc = "read" /\ v # w)
  BY <1>1, <1>5, <1>7 DEF c
<1>12. WorkersFit' /\ ParkFits'
  BY <1>1, <1>11 DEF PlacesInv, WorkersFit, ParkFits
<1>13. SaidFits'
  <2>1. conn[c].said \in Nat /\ conn[c].said <= says /\ says \in Nat
    BY <1>2, <1>3, FrontAssumption DEF PlacesInv, SaidFits, Conns, FrontShape
  <2> QED
    BY <1>1, <1>6, <1>8, <2>1 DEF PlacesInv, SaidFits
<1>14. BusyWorkers' = BusyWorkers
  BY <1>11 DEF BusyWorkers, Busy
<1>15. ReturnsFit'
  BY <1>1, <1>14 DEF PlacesInv, ReturnsFit
<1>16. \A b \in Conn : Holders(b)' = Holders(b) /\ conn'[b].state = conn[b].state
  BY <1>2, <1>6, <1>8, <1>11 DEF Holders
<1>17. InPlace'
  BY <1>1, <1>16 DEF PlacesInv, InPlace, PlacesOf
<1>18. QuietWaits'
  <2>1. ToSet(backlog) \subseteq Conn /\ ToSet(due) \subseteq Conn
    BY Elements DEF FrontShape
  <2>2. \A b \in ToSet(backlog) \cup ToSet(due) : conn'[b] = conn[b]
    BY <1>2, <1>8, <2>1
  <2>3. \A v \in Worker : wk'[v].pc = "read" => wk[v].conn \in Conn /\ conn'[wk[v].conn] = conn[wk[v].conn]
    BY <1>2, <1>8, <1>11 DEF PlacesInv, WorkersFit, FrontShape, Workers
  <2> QED
    BY <1>1, <1>11, <2>2, <2>3 DEF PlacesInv, QuietWaits, Readable
<1> QED
  BY <1>10, <1>12, <1>13, <1>15, <1>17, <1>18 DEF PlacesInv

\* Connections that are shut.
LEMMA ShutConns ==
  ASSUME FrontShape, NEW cs \in SUBSET Conn, conn' = Shut(cs)
  PROVE  /\ conn' \in [Conn -> Conns]
         /\ \A c \in Conn \ cs : conn'[c] = conn[c]
         /\ \A c \in cs : conn'[c].state = "closed" /\ conn'[c].said = 0 /\ ~conn'[c].served
<1> DEFINE z == [state |-> "closed", said |-> 0, fin |-> FALSE, served |-> FALSE]
<1>1. z \in Conns
  BY DEF Conns
<1>2. conn' = [c \in Conn |-> IF c \in cs THEN z ELSE conn[c]]
  BY DEF Shut
<1>3. z.state = "closed" /\ z.said = 0 /\ ~z.served
  OBVIOUS
<1> HIDE DEF z
<1> QED
  BY <1>1, <1>2, <1>3 DEF FrontShape

\* What was said stays counted when connections are shut.
LEMMA SaidAfterShut ==
  ASSUME FrontShape, PlacesInv, NEW cs \in SUBSET Conn, conn' = Shut(cs), says' = says
  PROVE  SaidFits'
<1>1. says \in Nat
  BY FrontAssumption DEF FrontShape
<1>2. /\ \A c \in Conn \ cs : conn'[c] = conn[c]
      /\ \A c \in cs : conn'[c].state = "closed" /\ conn'[c].said = 0
  BY ShutConns
<1> SUFFICES ASSUME NEW c \in Conn
             PROVE  conn'[c].said <= says' /\ (conn'[c].state = "new" => ~conn'[c].served)
  BY DEF SaidFits
<1>3. CASE c \in cs
  BY <1>1, <1>2, <1>3
<1>4. CASE c \notin cs
  BY <1>2, <1>4 DEF PlacesInv, SaidFits
<1> QED
  BY <1>3, <1>4

\* A worker closes its connection and is idle.
LEMMA WorkerCloses ==
  ASSUME FrontShape, PlacesInv, NEW w \in Worker, wk[w].pc \notin {"idle", "accepted"},
         wk' = [wk EXCEPT ![w] = Idle], conn' = Shut({wk[w].conn}),
         UNCHANGED <<build, backlog, due, park, gone, back, inbox, reply, streams, deaf, says>>
  PROVE  FrontShape' /\ PlacesInv'
<1> DEFINE c == wk[w].conn
<1>1. /\ c \in Conn /\ conn[c].state = "open"
      /\ c \notin ToSet(backlog) /\ c \notin ToSet(due) /\ c \notin park /\ c \notin gone
      /\ Cardinality(Holders(c)) = 1
      /\ Times(backlog, c) = 0 /\ Times(due, c) = 0 /\ Times(back, c) = 0
      /\ \A v \in Worker : wk[v].conn = c => v = w
  BY HeldIsOpen
<1>2. Idle \in Workers /\ Idle.conn = NoConn /\ Idle.pc = "idle"
  BY DEF Idle, Workers, Steps
<1>3. /\ conn' \in [Conn -> Conns] /\ conn'[c].state = "closed"
      /\ \A b \in Conn : b # c => conn'[b] = conn[b]
  <2>1. {c} \in SUBSET Conn /\ conn' = Shut({c})
    BY <1>1
  <2> HIDE DEF c
  <2>2. \A b \in Conn \ {c} : conn'[b] = conn[b]
    BY <2>1, ShutConns
  <2>3. conn' \in [Conn -> Conns] /\ \A b \in {c} : conn'[b].state = "closed"
    BY <2>1, ShutConns
  <2> QED
    BY <2>2, <2>3
<1>4. SaidFits'
  BY <1>1, SaidAfterShut
<1>11. UNCHANGED <<build, backlog, due, park, gone, back>> /\ c = wk[w].conn
  OBVIOUS
<1> HIDE DEF c
<1>5. /\ wk' \in [Worker -> Workers] /\ wk'[w] = Idle /\ \A v \in Worker : v # w => wk'[v] = wk[v]
  BY <1>2, WorkerPut
<1>6. FrontShape'
  BY <1>3, <1>5 DEF FrontShape
<1>7. WorkersFit' /\ ParkFits'
  BY <1>2, <1>5 DEF PlacesInv, WorkersFit, ParkFits
<1>8. ReturnsFit'
  <2>1. Cardinality(BusyWorkers') = Cardinality(BusyWorkers)
              - (IF wk[w].pc \notin {"idle", "accepted"} THEN 1 ELSE 0)
              + (IF Idle.pc \notin {"idle", "accepted"} THEN 1 ELSE 0)
        /\ Cardinality(BusyWorkers) \in Nat
    BY <1>2, BusyMove
  <2>2. Cardinality(BusyWorkers') = Cardinality(BusyWorkers) - 1 /\ Cardinality(BusyWorkers) \in Nat
    BY <1>2, <2>1
  <2>3. Len(back) \in Nat
    BY Sequence DEF FrontShape
  <2> QED
    BY <2>2, <2>3, FrontAssumption DEF PlacesInv, ReturnsFit
<1>9. InPlace'
  <2> SUFFICES ASSUME NEW b \in Conn
               PROVE  PlacesOf(b)' = IF conn'[b].state = "open" THEN 1 ELSE 0
    BY DEF InPlace
  <2>1. Cardinality(Holders(b)') = Cardinality(Holders(b)) - (IF wk[w].conn = b THEN 1 ELSE 0)
                                                          + (IF Idle.conn = b THEN 1 ELSE 0)
        /\ Cardinality(Holders(b)) \in Nat
    BY <1>2, HoldersMove
  <2>2. Idle.conn # b
    BY <1>2, FrontFinite
  <2>3. PlacesOf(b) = IF conn[b].state = "open" THEN 1 ELSE 0
    BY DEF PlacesInv, InPlace
  <2>6. PlacesOf(b)' = Cardinality(Holders(b)') + Times(backlog, b) + Times(due, b) + Times(back, b)
                       + (IF b \in park THEN 1 ELSE 0) + (IF b \in gone THEN 1 ELSE 0)
    BY <1>11 DEF PlacesOf
  <2>4. CASE b = c
    <3>1. Cardinality(Holders(b)') = 0
      BY <1>1, <1>11, <2>1, <2>2, <2>4
    <3> QED
      BY <1>1, <1>3, <2>4, <2>6, <3>1
  <2>5. CASE b # c
    <3>1. Cardinality(Holders(b)') = Cardinality(Holders(b))
      BY <1>11, <2>1, <2>2, <2>5
    <3> QED
      BY <1>3, <2>3, <2>5, <2>6, <3>1 DEF PlacesOf
  <2> QED
    BY <2>4, <2>5
<1>10. QuietWaits'
  <2>1. ToSet(backlog) \subseteq Conn /\ ToSet(due) \subseteq Conn
    BY Elements DEF FrontShape
  <2>2. \A b \in ToSet(backlog) \cup ToSet(due) : conn'[b] = conn[b]
    BY <1>1, <1>3, <2>1
  <2>3. \A v \in Worker : wk'[v].pc = "read" =>
          /\ wk'[v] = wk[v] /\ wk[v].conn \in Conn /\ conn'[wk[v].conn] = conn[wk[v].conn]
    BY <1>1, <1>2, <1>3, <1>5 DEF PlacesInv, WorkersFit, FrontShape, Workers
  <2> SUFFICES ASSUME build = "HopOS"
               PROVE  /\ \A b \in ToSet(backlog) : ~conn'[b].served
                      /\ \A b \in ToSet(due) : conn'[b].served => conn'[b].said > 0 \/ conn'[b].fin
                      /\ \A v \in Worker : wk'[v].pc = "read" /\ conn'[wk'[v].conn].served
                                            => conn'[wk'[v].conn].said > 0 \/ conn'[wk'[v].conn].fin
    BY <1>11 DEF QuietWaits, Readable
  <2>4. /\ \A b \in ToSet(backlog) : ~conn[b].served
        /\ \A b \in ToSet(due) : conn[b].served => Readable(b)
        /\ \A v \in Worker : wk[v].pc = "read" /\ conn[wk[v].conn].served => Readable(wk[v].conn)
    BY DEF PlacesInv, QuietWaits
  <2>5. \A b \in ToSet(backlog) : ~conn'[b].served
    BY <2>2, <2>4
  <2>6. \A b \in ToSet(due) : conn'[b].served => conn'[b].said > 0 \/ conn'[b].fin
    BY <2>2, <2>4 DEF Readable
  <2>7. ASSUME NEW v \in Worker, wk'[v].pc = "read", conn'[wk'[v].conn].served
        PROVE  conn'[wk'[v].conn].said > 0 \/ conn'[wk'[v].conn].fin
    <3>1. wk'[v] = wk[v] /\ conn'[wk[v].conn] = conn[wk[v].conn] /\ wk[v].pc = "read"
      BY <2>3, <2>7
    <3>2. Readable(wk[v].conn)
      BY <2>4, <2>7, <3>1
    <3> QED
      BY <3>1, <3>2 DEF Readable
  <2> QED
    BY <2>5, <2>6, <2>7
<1> QED
  BY <1>4, <1>6, <1>7, <1>8, <1>9, <1>10 DEF PlacesInv

\* A read that fails.
LEMMA ReadFailsPlaces ==
  ASSUME FrontShape, PlacesInv, NEW w \in Worker, read_fails(w)
  PROVE  FrontShape' /\ PlacesInv'
  BY WorkerCloses DEF read_fails

\* The answer is out: the worker reads on, returns the connection or closes it.
LEMMA WrittenPlaces ==
  ASSUME FrontShape, PlacesInv, NEW w \in Worker, written(w)
  PROVE  FrontShape' /\ PlacesInv'
<1> DEFINE c == wk[w].conn
<1>1. /\ wk[w].pc = "write"
      /\ UNCHANGED <<build, backlog, due, park, gone, inbox, reply, streams, deaf, says>>
  BY DEF written
<1>2. /\ c \in Conn /\ conn[c].state = "open"
      /\ c \notin ToSet(backlog) /\ c \notin ToSet(due) /\ c \notin park /\ c \notin gone
      /\ Cardinality(Holders(c)) = 1
      /\ Times(backlog, c) = 0 /\ Times(due, c) = 0 /\ Times(back, c) = 0
      /\ \A v \in Worker : wk[v].conn = c => v = w
  BY <1>1, HeldIsOpen
<1>3. \/ /\ build = "host" \/ conn[c].said > 0
         /\ wk' = [wk EXCEPT ![w].pc = "read", ![w].close = FALSE] /\ UNCHANGED <<conn, back>>
      \/ /\ build = "HopOS" /\ wk' = [wk EXCEPT ![w] = Idle]
         /\ back' = Append(back, c) /\ UNCHANGED conn
      \/ wk' = [wk EXCEPT ![w] = Idle] /\ conn' = Shut({c}) /\ UNCHANGED back
  BY DEF written
<1>4. CASE /\ build = "host" \/ conn[c].said > 0
           /\ wk' = [wk EXCEPT ![w].pc = "read", ![w].close = FALSE] /\ UNCHANGED <<conn, back>>
  <2> DEFINE r == [wk[w] EXCEPT !.pc = "read", !.close = FALSE]
  <2>1. wk[w] \in Workers /\ wk' = [wk EXCEPT ![w] = r]
    BY <1>4 DEF FrontShape
  <2>2. r \in Workers /\ r.conn = c /\ r.pc = "read"
    BY <2>1 DEF Workers, Steps
  <2> HIDE DEF r, c
  <2>3. /\ wk' \in [Worker -> Workers] /\ wk'[w] = r /\ \A v \in Worker : v # w => wk'[v] = wk[v]
    BY <2>1, <2>2, WorkerPut
  <2>4. FrontShape'
    BY <1>1, <1>4, <2>3 DEF FrontShape
  <2>5. \A v \in Worker : /\ wk'[v].conn = wk[v].conn
                          /\ (wk'[v].pc = "idle" <=> wk[v].pc = "idle")
                          /\ (wk'[v].pc = "accepted" <=> wk[v].pc = "accepted")
                          /\ (wk'[v].pc = "read" => wk[v].pc = "read" \/ v = w)
    BY <1>1, <2>2, <2>3 DEF c
  <2>6. WorkersFit' /\ ParkFits' /\ SaidFits'
    BY <1>1, <1>4, <2>5 DEF PlacesInv, WorkersFit, ParkFits, SaidFits
  <2>7. BusyWorkers' = BusyWorkers /\ \A b \in Conn : Holders(b)' = Holders(b)
    BY <2>5 DEF BusyWorkers, Busy, Holders
  <2>8. ReturnsFit' /\ InPlace'
    BY <1>1, <1>4, <2>7 DEF PlacesInv, ReturnsFit, InPlace, PlacesOf
  <2>9. QuietWaits'
    <3>1. build = "HopOS" => Readable(c)
      BY <1>4 DEF Readable
    <3> QED
      BY <1>1, <1>4, <2>5, <3>1 DEF PlacesInv, QuietWaits, Readable, c
  <2> QED
    BY <2>4, <2>6, <2>8, <2>9 DEF PlacesInv
<1>5. CASE /\ build = "HopOS" /\ wk' = [wk EXCEPT ![w] = Idle]
           /\ back' = Append(back, c) /\ UNCHANGED conn
  <2>1. Idle \in Workers /\ Idle.conn = NoConn /\ Idle.pc = "idle"
    BY DEF Idle, Workers, Steps
  <2>2. /\ wk' \in [Worker -> Workers] /\ wk'[w] = Idle /\ \A v \in Worker : v # w => wk'[v] = wk[v]
    BY <1>5, <2>1, WorkerPut
  <2>3. back \in Seq(Conn)
    BY DEF FrontShape
  <2>4. back' \in Seq(Conn) /\ Len(back') = Len(back) + 1 /\ Len(back) \in Nat
    BY <1>2, <1>5, <2>3, Appended, Sequence
  <2>5. FrontShape'
    BY <1>1, <1>5, <2>2, <2>4 DEF FrontShape
  <2>6. WorkersFit' /\ ParkFits' /\ SaidFits'
    BY <1>1, <1>5, <2>1, <2>2 DEF PlacesInv, WorkersFit, ParkFits, SaidFits
  <2>7. ReturnsFit'
    <3>1. Cardinality(BusyWorkers') = Cardinality(BusyWorkers)
                - (IF wk[w].pc \notin {"idle", "accepted"} THEN 1 ELSE 0)
                + (IF Idle.pc \notin {"idle", "accepted"} THEN 1 ELSE 0)
          /\ Cardinality(BusyWorkers) \in Nat
      BY <1>5, <2>1, BusyMove
    <3>2. Cardinality(BusyWorkers') = Cardinality(BusyWorkers) - 1 /\ Cardinality(BusyWorkers) \in Nat
      BY <1>1, <2>1, <3>1
    <3> QED
      BY <1>1, <2>4, <3>2, FrontAssumption DEF PlacesInv, ReturnsFit
  <2>8. InPlace'
    <3> SUFFICES ASSUME NEW b \in Conn
                 PROVE  PlacesOf(b)' = IF conn'[b].state = "open" THEN 1 ELSE 0
      BY DEF InPlace
    <3>1. Cardinality(Holders(b)') = Cardinality(Holders(b)) - (IF wk[w].conn = b THEN 1 ELSE 0)
                                                            + (IF Idle.conn = b THEN 1 ELSE 0)
          /\ Cardinality(Holders(b)) \in Nat
      BY <1>5, <2>1, HoldersMove
    <3>2. Idle.conn # b
      BY <2>1, FrontFinite
    <3>3. PlacesOf(b) = IF conn[b].state = "open" THEN 1 ELSE 0
      BY DEF PlacesInv, InPlace
    <3>4. Times(back', b) = Times(back, b) + (IF b = c THEN 1 ELSE 0)
      BY <1>2, <1>5, <2>3, TimesAppended
    <3>5. Cardinality(Holders(b)') = Cardinality(Holders(b)) - (IF b = c THEN 1 ELSE 0)
      BY <3>1, <3>2
    <3> DEFINE h == Cardinality(Holders(b))
               t == Times(back, b)
               e == IF b = c THEN 1 ELSE 0
               l == Times(backlog, b)
               d == Times(due, b)
               p == IF b \in park THEN 1 ELSE 0
               g == IF b \in gone THEN 1 ELSE 0
    <3>6. /\ h \in Nat /\ t \in Nat /\ l \in Nat /\ d \in Nat
          /\ e \in {0, 1} /\ p \in {0, 1} /\ g \in {0, 1}
      BY PlacesAreNumbers
    <3>7. PlacesOf(b) = h + l + d + t + p + g
      BY DEF PlacesOf
    <3>8. PlacesOf(b)' = (h - e) + l + d + (t + e) + p + g
      BY <1>1, <3>4, <3>5 DEF PlacesOf
    <3> HIDE DEF h, t, e, l, d, p, g
    <3>9. PlacesOf(b)' = PlacesOf(b)
      BY <3>6, <3>7, <3>8
    <3> QED
      BY <1>5, <3>3, <3>9
  <2>9. QuietWaits'
    <3>1. \A v \in Worker : wk'[v].pc = "read" => wk'[v] = wk[v]
      BY <2>1, <2>2
    <3> QED
      BY <1>1, <1>5, <3>1 DEF PlacesInv, QuietWaits, Readable
  <2> QED
    BY <2>5, <2>6, <2>7, <2>8, <2>9 DEF PlacesInv
<1>6. CASE wk' = [wk EXCEPT ![w] = Idle] /\ conn' = Shut({c}) /\ UNCHANGED back
  BY <1>1, <1>6, WorkerCloses
<1> QED
  BY <1>3, <1>4, <1>5, <1>6

\* What the acceptor takes back: what fits is parked, the rest is to be closed.
LEMMA TakenBack ==
  ASSUME FrontShape, PlacesInv
  PROVE  /\ Fits \in SUBSET Conn /\ Overflow \in SUBSET Conn
         /\ Cardinality(park \cup Fits) <= PARK_CAP
         /\ \A c \in Conn : (Times(back, c) # 0 <=> c \in Fits \/ c \in Overflow) /\ ~(c \in Fits /\ c \in Overflow)
<1> DEFINE room == PARK_CAP - Cardinality(park)
           k == IF Len(back) < room THEN Len(back) ELSE room
<1>1. park \in SUBSET Conn /\ back \in Seq(Conn)
  BY DEF FrontShape
<1>2. IsFiniteSet(park) /\ Cardinality(park) \in Nat /\ Cardinality(park) <= PARK_CAP /\ Len(back) \in Nat
  BY <1>1, FrontFinite, Sequence DEF PlacesInv, ParkFits
<1>3. k \in 0..Len(back) /\ k <= room /\ room \in Nat
  BY <1>2, FrontAssumption
<1>4. Fits = ToSet(SubSeq(back, 1, k))
  BY DEF Fits
<1> HIDE DEF k
<1>5. /\ Fits \subseteq ToSet(back) /\ IsFiniteSet(Fits)
      /\ Cardinality(Fits) <= k /\ Cardinality(Fits) \in Nat
  BY <1>1, <1>3, <1>4, FirstFew
<1>6. ToSet(back) \subseteq Conn
  BY <1>1, Elements
<1>7. Cardinality(park \cup Fits) = Cardinality(park) + Cardinality(Fits) - Cardinality(park \cap Fits)
  BY <1>2, <1>5, FS_Union
<1>8. Cardinality(park \cap Fits) \in Nat
  BY <1>2, FS_Subset, FS_CardinalityType
<1>9. Cardinality(park \cup Fits) <= PARK_CAP
  BY <1>2, <1>3, <1>5, <1>7, <1>8, FrontAssumption
<1>10. \A c \in Conn : Times(back, c) = 0 <=> c \notin ToSet(back)
  BY PlacesAreNumbers
<1> QED
  BY <1>5, <1>6, <1>9, <1>10 DEF Overflow

\* What is taken back is nowhere else.
LEMMA ReturnedOnce ==
  ASSUME FrontShape, PlacesInv, NEW c \in Conn
  PROVE  /\ Cardinality(Holders(c)) + Times(backlog, c) + Times(due, c)
              + (IF c \in park \cup Fits THEN 1 ELSE 0) + (IF c \in gone \cup Overflow THEN 1 ELSE 0)
              = IF conn[c].state = "open" THEN 1 ELSE 0
         /\ Cardinality(Holders(c)) \in Nat /\ Times(backlog, c) \in Nat /\ Times(due, c) \in Nat
<1>1. /\ Cardinality(Holders(c)) \in Nat
      /\ Times(backlog, c) \in Nat /\ Times(due, c) \in Nat /\ Times(back, c) \in Nat
  BY PlacesAreNumbers
<1>2. (Times(back, c) # 0 <=> c \in Fits \/ c \in Overflow) /\ ~(c \in Fits /\ c \in Overflow)
  BY TakenBack
<1>3. Cardinality(Holders(c)) + Times(backlog, c) + Times(due, c) + Times(back, c)
        + (IF c \in park THEN 1 ELSE 0) + (IF c \in gone THEN 1 ELSE 0)
        = IF conn[c].state = "open" THEN 1 ELSE 0
  BY DEF PlacesInv, InPlace, PlacesOf
<1> DEFINE h == Cardinality(Holders(c))
           l == Times(backlog, c)
           d == Times(due, c)
           b == Times(back, c)
           p == IF c \in park THEN 1 ELSE 0
           g == IF c \in gone THEN 1 ELSE 0
           o == IF conn[c].state = "open" THEN 1 ELSE 0
<1>7. h \in Nat /\ l \in Nat /\ d \in Nat /\ b \in Nat /\ p \in {0, 1} /\ g \in {0, 1} /\ o \in {0, 1}
  BY <1>1
<1> HIDE DEF h, l, d, b, p, g, o
<1>4. CASE c \in Fits
  <2>1. Times(back, c) = 1 /\ c \notin park /\ c \notin gone
    <3>1. Times(back, c) >= 1
      BY <1>1, <1>2, <1>4
    <3>2. b >= 1 /\ h + l + d + b + p + g = o
      BY <1>3, <3>1 DEF h, l, d, b, p, g, o
    <3>3. b = 1 /\ p = 0 /\ g = 0
      BY <1>7, <3>2
    <3> QED
      BY <3>3 DEF b, p, g
  <2> QED
    BY <1>1, <1>2, <1>3, <1>4, <2>1
<1>5. CASE c \in Overflow
  <2>1. Times(back, c) = 1 /\ c \notin park /\ c \notin gone
    <3>1. Times(back, c) >= 1
      BY <1>1, <1>2, <1>5
    <3>2. b >= 1 /\ h + l + d + b + p + g = o
      BY <1>3, <3>1 DEF h, l, d, b, p, g, o
    <3>3. b = 1 /\ p = 0 /\ g = 0
      BY <1>7, <3>2
    <3> QED
      BY <3>3 DEF b, p, g
  <2> QED
    BY <1>1, <1>2, <1>3, <1>5, <2>1
<1>6. CASE c \notin Fits /\ c \notin Overflow
  <2>1. Times(back, c) = 0
    BY <1>1, <1>2, <1>6
  <2> QED
    BY <1>1, <1>3, <1>6, <2>1
<1> QED
  BY <1>4, <1>5, <1>6

\* There is a free worker when not every worker is busy.
LEMMA FreeWorker ==
  ASSUME FrontShape, PlacesInv, build = "HopOS", ~none_free, NEW c \in Conn, give(c)
  PROVE  \E w \in Worker : /\ wk[w].pc = "idle" /\ wk[w].conn = NoConn
                           /\ wk' = [wk EXCEPT ![w] = [pc |-> "read", conn |-> c, close |-> FALSE]]
<1> DEFINE T == {w \in Worker : ~Busy(w)}
           free == CHOOSE w \in Worker : ~Busy(w) /\ \A v \in Worker : ~Busy(v) => w <= v
<1>1. T \subseteq Nat /\ T # {}
  BY DEF none_free, Worker
<1>2. \E x \in T : \A y \in T : x <= y
  BY <1>1, LeastOf
<1>3. free \in Worker /\ ~Busy(free)
  BY <1>2
<1>4. wk' = [wk EXCEPT ![free] = [pc |-> "read", conn |-> c, close |-> FALSE]]
  BY DEF give
<1> HIDE DEF free
<1>5. wk[free].pc = "idle" /\ wk[free].conn = NoConn
  BY <1>3 DEF Busy, PlacesInv, WorkersFit
<1> QED
  BY <1>3, <1>4, <1>5

\* Park::place.
LEMMA PlacePlaces ==
  ASSUME FrontShape, PlacesInv, place
  PROVE  FrontShape' /\ PlacesInv'
<1>1. /\ due # <<>> /\ park' = park \cup Fits /\ gone' = gone \cup Overflow /\ back' = <<>>
      /\ UNCHANGED <<build, conn, backlog, inbox, reply, streams, deaf, says>>
  BY DEF place
<1>2. build = "HopOS" /\ due \in Seq(Conn)
  BY <1>1 DEF PlacesInv, WorkersFit, FrontShape
<1>3. park' \in SUBSET Conn /\ gone' \in SUBSET Conn /\ ParkFits' /\ back' \in Seq(Conn) /\ Len(back') = 0
  BY <1>1, TakenBack DEF ParkFits, FrontShape
<1>4. SaidFits'
  BY <1>1 DEF PlacesInv, SaidFits
<1>5. \A c \in Conn : Times(back', c) = 0
  BY <1>1, TimesNone
<1>6. ToSet(due) \subseteq Conn /\ Head(due) \in ToSet(due) /\ ToSet(Tail(due)) \subseteq ToSet(due)
      /\ Tail(due) \in Seq(Conn) /\ Head(due) \in Conn
  BY <1>1, <1>2, Elements, Tailed
<1>7. CASE none_free
  <2>1. UNCHANGED <<due, wk>>
    BY <1>7 DEF place
  <2>2. FrontShape'
    BY <1>1, <1>3, <2>1 DEF FrontShape
  <2>3. WorkersFit'
    BY <1>1, <2>1 DEF PlacesInv, WorkersFit
  <2>4. ReturnsFit'
    <3>1. BusyWorkers' \in SUBSET Worker
      BY DEF BusyWorkers
    <3>2. Cardinality(BusyWorkers') \in Nat /\ Cardinality(BusyWorkers') <= WORKERS
      BY <3>1, FrontFinite
    <3> QED
      BY <1>3, <3>2 DEF ReturnsFit
  <2>5. InPlace'
    <3> SUFFICES ASSUME NEW c \in Conn
                 PROVE  PlacesOf(c)' = IF conn'[c].state = "open" THEN 1 ELSE 0
      BY DEF InPlace
    <3>1. Holders(c)' = Holders(c)
      BY <2>1 DEF Holders
    <3>2. PlacesOf(c)' = Cardinality(Holders(c)) + Times(backlog, c) + Times(due, c) + 0
              + (IF c \in park \cup Fits THEN 1 ELSE 0) + (IF c \in gone \cup Overflow THEN 1 ELSE 0)
      BY <1>1, <1>5, <2>1, <3>1 DEF PlacesOf
    <3> QED
      BY <1>1, <3>2, ReturnedOnce
  <2>6. QuietWaits'
    BY <1>1, <2>1 DEF PlacesInv, QuietWaits, Readable
  <2> QED
    BY <1>3, <1>4, <2>2, <2>3, <2>4, <2>5, <2>6 DEF PlacesInv
<1>8. CASE ~none_free
  <2> DEFINE h == Head(due)
             r == [pc |-> "read", conn |-> h, close |-> FALSE]
  <2>1. give(h) /\ due' = Tail(due)
    BY <1>8 DEF place
  <2>2. PICK w \in Worker : wk[w].pc = "idle" /\ wk[w].conn = NoConn /\ wk' = [wk EXCEPT ![w] = r]
    BY <1>2, <1>6, <1>8, <2>1, FreeWorker
  <2>3. r \in Workers /\ r.conn = h /\ r.pc = "read"
    BY <1>6 DEF Workers, Steps
  <2> HIDE DEF r
  <2>4. /\ wk' \in [Worker -> Workers] /\ wk'[w] = r /\ \A v \in Worker : v # w => wk'[v] = wk[v]
    BY <2>2, <2>3, WorkerPut
  <2>5. FrontShape'
    BY <1>1, <1>3, <1>6, <2>1, <2>4 DEF FrontShape
  <2>6. WorkersFit'
    <3>1. h # NoConn
      BY <1>6, FrontFinite
    <3> QED
      BY <1>1, <1>2, <2>3, <2>4, <3>1 DEF PlacesInv, WorkersFit
  <2>7. ReturnsFit'
    <3>1. BusyWorkers' \in SUBSET Worker
      BY DEF BusyWorkers
    <3>2. Cardinality(BusyWorkers') \in Nat /\ Cardinality(BusyWorkers') <= WORKERS
      BY <3>1, FrontFinite
    <3> QED
      BY <1>3, <3>2 DEF ReturnsFit
  <2>8. InPlace'
    <3> SUFFICES ASSUME NEW c \in Conn
                 PROVE  PlacesOf(c)' = IF conn'[c].state = "open" THEN 1 ELSE 0
      BY DEF InPlace
    <3>1. Cardinality(Holders(c)') = Cardinality(Holders(c)) - (IF wk[w].conn = c THEN 1 ELSE 0)
                                                            + (IF r.conn = c THEN 1 ELSE 0)
          /\ Cardinality(Holders(c)) \in Nat
      BY <2>2, <2>3, HoldersMove
    <3>2. wk[w].conn # c
      BY <2>2, FrontFinite
    <3>3. Cardinality(Holders(c)') = Cardinality(Holders(c)) + (IF c = h THEN 1 ELSE 0)
      BY <2>3, <3>1, <3>2
    <3>4. Times(due', c) = Times(due, c) - (IF c = h THEN 1 ELSE 0)
      BY <1>1, <1>2, <2>1, TimesTailed
    <3>5. PlacesOf(c)' = Cardinality(Holders(c)') + Times(backlog, c) + Times(due', c) + 0
              + (IF c \in park \cup Fits THEN 1 ELSE 0) + (IF c \in gone \cup Overflow THEN 1 ELSE 0)
      BY <1>1, <1>5 DEF PlacesOf
    <3>6. Times(due, c) \in Nat /\ Times(backlog, c) \in Nat
      BY PlacesAreNumbers
    <3> HIDE DEF h
    <3> QED
      BY <1>1, <3>1, <3>3, <3>4, <3>5, <3>6, ReturnedOnce
  <2>9. QuietWaits'
    <3>1. /\ \A c \in ToSet(backlog) : ~conn[c].served
          /\ \A c \in ToSet(due) : conn[c].served => Readable(c)
          /\ \A v \in Worker : wk[v].pc = "read" /\ conn[wk[v].conn].served => Readable(wk[v].conn)
      BY <1>2 DEF PlacesInv, QuietWaits
    <3>2. \A v \in Worker : wk'[v] = wk[v] \/ wk'[v].conn = h
      BY <2>3, <2>4
    <3> QED
      BY <1>1, <1>6, <2>1, <3>1, <3>2 DEF QuietWaits, Readable
  <2> QED
    BY <1>3, <1>4, <2>5, <2>6, <2>7, <2>8, <2>9 DEF PlacesInv
<1> QED
  BY <1>7, <1>8

\* A round of the acceptor.
LEMMA RoundPlaces ==
  ASSUME FrontShape, PlacesInv, NEW quiet \in SUBSET park, accept_round(quiet)
  PROVE  FrontShape' /\ PlacesInv'
<1> DEFINE parked == park \cup Fits
           heard == {c \in parked \ quiet : Readable(c)}
           shut == gone \cup Overflow \cup quiet
<1>1. /\ build = "HopOS" /\ due = <<>>
      /\ park' = parked \ (quiet \cup heard)
      /\ due' = backlog \o SetToSeq(heard)
      /\ conn' = Shut(shut)
      /\ back' = <<>> /\ backlog' = <<>> /\ gone' = {}
      /\ UNCHANGED <<build, wk, inbox, reply, streams, deaf, says>>
  BY DEF accept_round
<1>2. /\ park \in SUBSET Conn /\ gone \in SUBSET Conn /\ backlog \in Seq(Conn)
      /\ Fits \in SUBSET Conn /\ Overflow \in SUBSET Conn /\ Cardinality(parked) <= PARK_CAP
  BY TakenBack DEF FrontShape
<1>3. heard \in SUBSET Conn /\ shut \in SUBSET Conn /\ parked \in SUBSET Conn
  BY <1>2
<1>4. IsFiniteSet(heard) /\ IsFiniteSet(parked)
  BY <1>3, FrontFinite
<1>6. /\ conn' \in [Conn -> Conns] /\ \A c \in Conn \ shut : conn'[c] = conn[c]
      /\ \A c \in shut : conn'[c].state = "closed"
  BY <1>1, <1>3, ShutConns
<1>7. \A c \in heard : Readable(c)
  OBVIOUS
<1>8. \A c \in Conn : c \in heard => c \in parked /\ c \notin quiet
  OBVIOUS
<1>9. quiet \subseteq park
  OBVIOUS
<1>10. SaidFits'
  BY <1>1, <1>3, SaidAfterShut
<1> HIDE DEF heard, shut
<1>5. /\ SetToSeq(heard) \in Seq(Conn) /\ ToSet(SetToSeq(heard)) = heard
      /\ \A x : Times(SetToSeq(heard), x) = IF x \in heard THEN 1 ELSE 0
  BY <1>3, <1>4, SetQueue
<1>11. due' \in Seq(Conn) /\ \A c : Times(due', c) = Times(backlog, c) + (IF c \in heard THEN 1 ELSE 0)
  <2>1. due' \in Seq(Conn)
    BY <1>1, <1>2, <1>5, TimesJoined
  <2>2. ASSUME NEW c PROVE Times(due', c) = Times(backlog, c) + (IF c \in heard THEN 1 ELSE 0)
    <3>1. Times(due', c) = Times(backlog, c) + Times(SetToSeq(heard), c)
      BY <1>1, <1>2, <1>5, TimesJoined
    <3> QED
      BY <1>5, <3>1
  <2> QED
    BY <2>1, <2>2
<1>12. park' \in SUBSET Conn /\ back' \in Seq(Conn) /\ backlog' \in Seq(Conn) /\ gone' \in SUBSET Conn
       /\ Len(back') = 0
  BY <1>1, <1>3
<1>13. FrontShape'
  BY <1>1, <1>6, <1>11, <1>12 DEF FrontShape
<1>14. WorkersFit'
  BY <1>1 DEF PlacesInv, WorkersFit
<1>15. ParkFits'
  <2>1. park' \subseteq parked
    BY <1>1
  <2>2. Cardinality(park') <= Cardinality(parked) /\ Cardinality(park') \in Nat
    BY <1>4, <2>1, FS_Subset, FS_CardinalityType
  <2>3. Cardinality(parked) \in Nat
    BY <1>4, FS_CardinalityType
  <2> QED
    BY <1>2, <2>2, <2>3, FrontAssumption DEF ParkFits
<1>16. ReturnsFit'
  <2>1. BusyWorkers' \in SUBSET Worker
    BY DEF BusyWorkers
  <2>2. Cardinality(BusyWorkers') \in Nat /\ Cardinality(BusyWorkers') <= WORKERS
    BY <2>1, FrontFinite
  <2> QED
    BY <1>12, <2>2 DEF ReturnsFit
<1>17. \A c \in Conn : Times(due, c) = 0 /\ Times(back', c) = 0 /\ Times(backlog', c) = 0
  BY <1>1, TimesNone
<1>18. \A c \in Conn : Holders(c)' = Holders(c)
  BY <1>1 DEF Holders
<1>19. InPlace'
  <2> SUFFICES ASSUME NEW c \in Conn
               PROVE  PlacesOf(c)' = IF conn'[c].state = "open" THEN 1 ELSE 0
    BY DEF InPlace
  <2>1. PlacesOf(c)' = Cardinality(Holders(c)) + 0 + (Times(backlog, c) + (IF c \in heard THEN 1 ELSE 0)) + 0
            + (IF c \in park' THEN 1 ELSE 0) + 0
    BY <1>1, <1>11, <1>17, <1>18 DEF PlacesOf
  <2>2. /\ Cardinality(Holders(c)) + Times(backlog, c) + 0
            + (IF c \in parked THEN 1 ELSE 0) + (IF c \in gone \cup Overflow THEN 1 ELSE 0)
            = IF conn[c].state = "open" THEN 1 ELSE 0
        /\ Cardinality(Holders(c)) \in Nat /\ Times(backlog, c) \in Nat
    BY <1>17, ReturnedOnce
  <2>3. CASE c \in shut
    <3>1. conn'[c].state = "closed" /\ (c \in gone \cup Overflow \/ c \in quiet)
      BY <1>6, <2>3 DEF shut
    <3>2. c \in quiet => c \in parked
      BY <1>9
    <3>3. Cardinality(Holders(c)) = 0 /\ Times(backlog, c) = 0
      BY <2>2, <3>1, <3>2
    <3>4. c \notin heard /\ c \notin park'
      BY <1>1, <1>8, <2>2, <3>1, <3>2
    <3> QED
      BY <2>1, <3>1, <3>3, <3>4
  <2>4. CASE c \notin shut
    <3>1. conn'[c] = conn[c] /\ c \notin gone \cup Overflow /\ c \notin quiet
      BY <1>6, <2>4 DEF shut
    <3>2. (c \in park' <=> c \in parked /\ c \notin heard) /\ (c \in heard => c \in parked)
      BY <1>1, <1>8, <3>1
    <3> QED
      BY <2>1, <2>2, <3>1, <3>2
  <2> QED
    BY <2>3, <2>4
<1>20. QuietWaits'
  <2>1. /\ \A c \in ToSet(backlog) : ~conn[c].served
        /\ \A v \in Worker : wk[v].pc = "read" /\ conn[wk[v].conn].served => Readable(wk[v].conn)
    BY <1>1 DEF PlacesInv, QuietWaits
  <2>2. ASSUME NEW c \in Conn, c \in ToSet(due')
        PROVE  (c \in ToSet(backlog) \/ c \in heard) /\ conn'[c] = conn[c]
    <3>1. Times(due', c) # 0
      BY <1>11, <2>2, TimesElement
    <3>2. Times(backlog, c) # 0 \/ c \in heard
      BY <1>11, <3>1, PlacesAreNumbers
    <3>3. c \in ToSet(backlog) \/ c \in heard
      BY <3>2, PlacesAreNumbers
    <3>4. conn'[c].state = "open" \/ c \notin shut
      <4>1. PlacesOf(c)' = IF conn'[c].state = "open" THEN 1 ELSE 0
        BY <1>19 DEF InPlace
      <4>2. PlacesOf(c)' # 0
        <5>1. FrontShape' => Cardinality(Holders(c)') \in Nat /\ Times(backlog', c) \in Nat
                             /\ Times(due', c) \in Nat /\ Times(back', c) \in Nat
          <6>1. Holders(c) \in SUBSET Worker
            BY DEF Holders
          <6> QED
            BY <1>11, <1>12, <1>18, <6>1, FrontFinite, TimesElement
        <5> QED
          BY <1>13, <3>1, <5>1 DEF PlacesOf
      <4> QED
        BY <4>1, <4>2
    <3>5. c \notin shut
      BY <1>6, <3>4
    <3> QED
      BY <1>6, <3>3, <3>5
  <2>3. ASSUME NEW v \in Worker, wk[v].pc = "read"
        PROVE  wk[v].conn \in Conn /\ conn'[wk[v].conn] = conn[wk[v].conn]
    <3> DEFINE c == wk[v].conn
    <3>1. c \in Conn /\ Cardinality(Holders(c)) = 1
      BY <2>3, HeldIsOpen
    <3> HIDE DEF c
    <3>2. /\ Cardinality(Holders(c)) + Times(backlog, c) + 0
              + (IF c \in parked THEN 1 ELSE 0) + (IF c \in gone \cup Overflow THEN 1 ELSE 0)
              = IF conn[c].state = "open" THEN 1 ELSE 0
          /\ Times(backlog, c) \in Nat
      BY <1>17, <3>1, ReturnedOnce
    <3>3. c \notin parked /\ c \notin gone \cup Overflow
      BY <3>1, <3>2
    <3>4. c \notin shut
      BY <1>9, <3>3 DEF shut
    <3> QED
      BY <1>6, <3>1, <3>4 DEF c
  <2>4. ToSet(due') \subseteq Conn /\ ToSet(backlog') = {}
    BY <1>1, <1>11, Elements DEF ToSet
  <2>5. \A c \in ToSet(due') : conn'[c].served => conn'[c].said > 0 \/ conn'[c].fin
    BY <1>7, <2>1, <2>2, <2>4 DEF Readable
  <2>6. \A v \in Worker : wk[v].pc = "read" /\ conn'[wk[v].conn].served
                         => conn'[wk[v].conn].said > 0 \/ conn'[wk[v].conn].fin
    BY <2>1, <2>3 DEF Readable
  <2> QED
    BY <1>1, <2>4, <2>5, <2>6 DEF QuietWaits, Readable
<1> QED
  BY <1>10, <1>13, <1>14, <1>15, <1>16, <1>19, <1>20 DEF PlacesInv

-----------------------------------------------------------------------------
(* Front: who asked what *)

\* A question, as the tallies see it.
LEMMA QuestionParts ==
  ASSUME NEW q \in Questions, NEW w
  PROVE  /\ q[1] \in 0..WORKERS /\ q[2] \in Kinds \cup {"poll", "done"}
         /\ q[1] # 0 => q[1] \in Worker
         /\ q \in Of(w) <=> q[1] = w /\ q[2] # "done"
         /\ q \in Dones <=> q[2] = "done"
         /\ "poll" \notin Kinds /\ "done" \notin Kinds
<1>1. PICK a \in 0..WORKERS, k \in Kinds \cup {"poll", "done"} : q = <<a, k>>
  BY DEF Questions
<1>2. q[1] = a /\ q[2] = k
  BY <1>1
<1>3. "poll" \notin Kinds /\ "done" \notin Kinds
  BY DEF Kinds
<1>4. a # 0 => a \in Worker
  BY FrontAssumption DEF Worker
<1>5. q \in Of(w) <=> a = w /\ k # "done"
  <2>1. q \in Of(w) <=> a \in {w} /\ k \in Kinds \cup {"poll"}
    BY <1>1 DEF Of
  <2> QED
    BY <1>3, <2>1
<1>6. q \in Dones <=> k = "done"
  BY <1>1 DEF Dones
<1> QED
  BY <1>2, <1>3, <1>4, <1>5, <1>6

\* What is in the inbox are questions.
LEMMA InboxParts ==
  ASSUME FrontShape
  PROVE  /\ inbox \in Seq(Questions) /\ DOMAIN inbox = 1..Len(inbox)
         /\ \A i \in DOMAIN inbox : inbox[i] \in Questions
         /\ Tally(inbox, Dones) \in Nat
         /\ \A w : Tally(inbox, Of(w)) \in Nat
         /\ \A w : Tally(inbox, Of(w)) = 0 <=> \A i \in DOMAIN inbox : inbox[i] \notin Of(w)
         /\ Tally(inbox, Dones) = 0 <=> \A i \in DOMAIN inbox : inbox[i] \notin Dones
<1>1. inbox \in Seq(Questions)
  BY DEF FrontShape
<1>2. DOMAIN inbox = 1..Len(inbox) /\ \A i \in DOMAIN inbox : inbox[i] \in Questions
  BY <1>1, Sequence
<1>3. ASSUME NEW T
      PROVE  Tally(inbox, T) \in Nat /\ (Tally(inbox, T) = 0 <=> \A i \in DOMAIN inbox : inbox[i] \notin T)
  BY <1>1, Tallied
<1>4. ASSUME NEW w
      PROVE  /\ Tally(inbox, Of(w)) \in Nat
             /\ Tally(inbox, Of(w)) = 0 <=> \A i \in DOMAIN inbox : inbox[i] \notin Of(w)
  BY <1>3
<1> QED
  BY <1>1, <1>2, <1>3, <1>4

\* A worker whose answer is there, or who waits for none, has no question in the inbox.
LEMMA Unasked ==
  ASSUME FrontShape, AskInv, NEW w \in Worker,
         wk[w].pc \notin {"asked", "polled", "gaveup"} \/ reply[w] # None
  PROVE  /\ Tally(inbox, Of(w)) = 0
         /\ \A i \in DOMAIN inbox : inbox[i] \notin Of(w)
         /\ wk[w].pc \notin {"asked", "polled"} => reply[w] = None
<1>1. Tally(inbox, Of(w)) \in Nat
  BY InboxParts
<1>2. /\ Tally(inbox, Of(w)) + (IF reply[w] = None THEN 0 ELSE 1)
           <= IF wk[w].pc \in {"asked", "polled", "gaveup"} THEN 1 ELSE 0
      /\ reply[w] # None => wk[w].pc = IF reply[w] \in Kinds THEN "asked" ELSE "polled"
  BY DEF AskInv, AskedOnce
<1>3. Tally(inbox, Of(w)) = 0
  BY <1>1, <1>2
<1> QED
  BY <1>2, <1>3, InboxParts

\* The streams admitted, after one worker or its answer changed.
LEMMA AdmittedMove ==
  ASSUME NEW w \in Worker, \A v \in Worker : v # w => wk'[v].pc = wk[v].pc /\ reply'[v] = reply[v]
  PROVE  /\ Cardinality(AdmittedOnes) \in Nat /\ Cardinality(AdmittedOnes') \in Nat
         /\ Cardinality(AdmittedOnes') = Cardinality(AdmittedOnes)
              - (IF Admitted(w) THEN 1 ELSE 0) + (IF Admitted(w)' THEN 1 ELSE 0)
<1> DEFINE A == AdmittedOnes
           B == AdmittedOnes'
<1>1. A \in SUBSET Worker /\ B \in SUBSET Worker /\ (w \in A <=> Admitted(w)) /\ (w \in B <=> Admitted(w)')
  BY DEF AdmittedOnes
<1>2. A \ {w} = B \ {w}
  BY DEF AdmittedOnes, Admitted
<1>3. IsFiniteSet(A) /\ IsFiniteSet(B) /\ Cardinality(A) \in Nat /\ Cardinality(B) \in Nat
  BY <1>1, FrontFinite
<1> HIDE DEF A, B
<1>4. Cardinality(B) = Cardinality(A) - (IF w \in A THEN 1 ELSE 0) + (IF w \in B THEN 1 ELSE 0)
  BY <1>2, <1>3, OneApart
<1> QED
  BY <1>1, <1>3, <1>4 DEF A, B

Waiting == {"asked", "gaveup", "polled", "over", "stream", "relay"}

\* A step that leaves the inbox, the answers and those who wait for one alone.
LEMMA AsksKept ==
  ASSUME FrontShape, AskInv, UNCHANGED <<inbox, reply, streams, deaf>>,
         \A v \in Worker : wk'[v].pc = wk[v].pc \/ (wk'[v].pc \notin Waiting /\ wk[v].pc \notin Waiting)
  PROVE  AskInv'
<1>1. \A v \in Worker : \A p \in Waiting : wk'[v].pc = p <=> wk[v].pc = p
  OBVIOUS
<1>2. \A i \in DOMAIN inbox : inbox[i][1] # 0 => inbox[i][1] \in Worker
  <2>1. \A q \in Questions : q[1] # 0 => q[1] \in Worker
    BY QuestionParts
  <2> QED
    BY <2>1, InboxParts
<1>3. \A v \in Worker : /\ wk'[v].pc = "asked" <=> wk[v].pc = "asked"
                        /\ wk'[v].pc = "gaveup" <=> wk[v].pc = "gaveup"
                        /\ wk'[v].pc = "polled" <=> wk[v].pc = "polled"
                        /\ wk'[v].pc = "over" <=> wk[v].pc = "over"
                        /\ wk'[v].pc = "stream" <=> wk[v].pc = "stream"
                        /\ wk'[v].pc = "relay" <=> wk[v].pc = "relay"
  BY <1>1 DEF Waiting
<1>4. QuestionsFit'
  BY <1>2, <1>3 DEF AskInv, QuestionsFit
<1>5. AskedOnce'
  BY <1>3 DEF AskInv, AskedOnce
<1>6. AdmittedOnes' = AdmittedOnes
  BY <1>3 DEF AdmittedOnes, Admitted
<1>7. StreamsFit'
  BY <1>6 DEF AskInv, StreamsFit
<1> QED
  BY <1>4, <1>5, <1>7 DEF AskInv

\* A step of one worker: what the others asked stays as it is.
LEMMA OneAsks ==
  ASSUME FrontShape, AskInv, NEW w \in Worker,
         \A v \in Worker : v # w => wk'[v] = wk[v] /\ reply'[v] = reply[v],
         \A v \in Worker : v # w => Tally(inbox', Of(v)) = Tally(inbox, Of(v)),
         \A i \in DOMAIN inbox' : /\ inbox'[i] \in Questions
                                  /\ inbox'[i][1] \notin {0, w} => \E j \in DOMAIN inbox : inbox'[i] = inbox[j],
         \A i \in DOMAIN inbox' : inbox'[i][1] = w =>
           /\ inbox'[i][2] = "poll" => wk'[w].pc = "polled"
           /\ inbox'[i][2] \in Kinds => wk'[w].pc \in {"asked", "gaveup"},
         Tally(inbox', Of(w)) + (IF reply'[w] = None THEN 0 ELSE 1)
           <= IF wk'[w].pc \in {"asked", "polled", "gaveup"} THEN 1 ELSE 0,
         reply'[w] # None => wk'[w].pc = IF reply'[w] \in Kinds THEN "asked" ELSE "polled"
  PROVE  QuestionsFit' /\ AskedOnce'
<1>1. QuestionsFit'
  <2> SUFFICES ASSUME NEW i \in DOMAIN inbox'
               PROVE  /\ inbox'[i][2] = "poll" /\ inbox'[i][1] # 0 => wk'[inbox'[i][1]].pc = "polled"
                      /\ inbox'[i][2] \in Kinds /\ inbox'[i][1] # 0
                           => wk'[inbox'[i][1]].pc \in {"asked", "gaveup"}
    BY DEF QuestionsFit
  <2>2. CASE inbox'[i][1] \in {0, w}
    BY <2>2
  <2>3. CASE inbox'[i][1] \notin {0, w}
    <3>1. PICK j \in DOMAIN inbox : inbox'[i] = inbox[j]
      BY <2>3
    <3>2. inbox[j] \in Questions
      BY InboxParts
    <3>3. inbox[j][1] # 0 => inbox[j][1] \in Worker
      BY <3>2, QuestionParts
    <3>4. wk'[inbox[j][1]] = wk[inbox[j][1]]
      BY <2>3, <3>1, <3>3
    <3> QED
      BY <2>3, <3>1, <3>4 DEF AskInv, QuestionsFit
  <2> QED
    BY <2>2, <2>3
<1>2. AskedOnce'
  <2> SUFFICES ASSUME NEW v \in Worker
               PROVE  /\ Tally(inbox', Of(v)) + (IF reply'[v] = None THEN 0 ELSE 1)
                           <= IF wk'[v].pc \in {"asked", "polled", "gaveup"} THEN 1 ELSE 0
                      /\ reply'[v] # None => wk'[v].pc = IF reply'[v] \in Kinds THEN "asked" ELSE "polled"
    <3>1. \A v : Of(v)' = Of(v)
      BY DEF Of
    <3> QED
      BY <3>1 DEF AskedOnce
  <2>1. CASE v = w
    BY <2>1
  <2>2. CASE v # w
    BY <2>2 DEF AskInv, AskedOnce
  <2> QED
    BY <2>1, <2>2
<1> QED
  BY <1>1, <1>2

\* A question sent.
LEMMA AskAppended ==
  ASSUME FrontShape, NEW w \in Worker, NEW k \in Kinds \cup {"poll", "done"}, inbox' = Append(inbox, <<w, k>>)
  PROVE  /\ inbox' \in Seq(Questions)
         /\ \A i \in DOMAIN inbox' : /\ inbox'[i] \in Questions
                                     /\ \/ inbox'[i][1] = w /\ inbox'[i][2] = k
                                        \/ \E j \in DOMAIN inbox : inbox'[i] = inbox[j]
         /\ \A v : Tally(inbox', Of(v)) = Tally(inbox, Of(v)) + (IF v = w /\ k # "done" THEN 1 ELSE 0)
         /\ Tally(inbox', Dones) = Tally(inbox, Dones) + (IF k = "done" THEN 1 ELSE 0)
<1> DEFINE x == <<w, k>>
<1>1. inbox \in Seq(Questions) /\ x \in Questions /\ x[1] = w /\ x[2] = k
  <2>1. w \in 0..WORKERS
    BY DEF Worker
  <2> QED
    BY <2>1 DEF FrontShape, Questions
<1>2. inbox' = Append(inbox, x)
  OBVIOUS
<1> HIDE DEF x
<1>3. inbox' \in Seq(Questions) /\ Len(inbox') = Len(inbox) + 1 /\ inbox'[Len(inbox) + 1] = x
      /\ \A i \in 1..Len(inbox) : inbox'[i] = inbox[i]
  BY SMTT(30), <1>1, <1>2, Appended
<1>4. DOMAIN inbox' = 1..Len(inbox) + 1 /\ DOMAIN inbox = 1..Len(inbox) /\ Len(inbox) \in Nat
      /\ \A i \in DOMAIN inbox' : inbox'[i] \in Questions
  BY <1>1, <1>3, Sequence
<1>5. \A i \in DOMAIN inbox' : i \in DOMAIN inbox \/ i = Len(inbox) + 1
  BY <1>4
<1>6. \A i \in DOMAIN inbox' : /\ inbox'[i] \in Questions
                               /\ \/ inbox'[i][1] = w /\ inbox'[i][2] = k
                                  \/ \E j \in DOMAIN inbox : inbox'[i] = inbox[j]
  BY <1>1, <1>3, <1>4, <1>5
<1>7. ASSUME NEW v
      PROVE  Tally(inbox', Of(v)) = Tally(inbox, Of(v)) + (IF v = w /\ k # "done" THEN 1 ELSE 0)
  <2>1. Tally(inbox', Of(v)) = Tally(inbox, Of(v)) + (IF x \in Of(v) THEN 1 ELSE 0)
    BY <1>1, <1>2, TallyAppended
  <2>2. x \in Of(v) <=> v = w /\ k # "done"
    BY <1>1, QuestionParts
  <2> QED
    BY <2>1, <2>2
<1>8. Tally(inbox', Dones) = Tally(inbox, Dones) + (IF k = "done" THEN 1 ELSE 0)
  <2>1. Tally(inbox', Dones) = Tally(inbox, Dones) + (IF x \in Dones THEN 1 ELSE 0)
    BY <1>1, <1>2, TallyAppended
  <2>2. x \in Dones <=> k = "done"
    BY <1>1, QuestionParts
  <2> QED
    BY <2>1, <2>2
<1> QED
  BY <1>3, <1>6, <1>7, <1>8

\* A worker sends its question, or says that a stream of it is over, while none of it waits.
LEMMA Asks ==
  ASSUME FrontShape, AskInv, NEW w \in Worker, NEW k \in Kinds \cup {"poll", "done"}, NEW r \in Workers,
         inbox' = Append(inbox, <<w, k>>), wk' = [wk EXCEPT ![w] = r],
         reply' \in [Worker -> Replies], \A v \in Worker : v # w => reply'[v] = reply[v],
         reply'[w] = None, wk[w].pc \notin {"asked", "polled", "gaveup"} \/ reply[w] # None,
         k = "poll" => r.pc = "polled", k \in Kinds => r.pc = "asked"
  PROVE  QuestionsFit' /\ AskedOnce'
<1>1. /\ wk'[w] = r /\ \A v \in Worker : v # w => wk'[v] = wk[v]
  BY WorkerPut
<1>2. Tally(inbox, Of(w)) = 0 /\ \A i \in DOMAIN inbox : inbox[i] \notin Of(w)
  BY Unasked
<1>3. /\ \A i \in DOMAIN inbox' : /\ inbox'[i] \in Questions
                                  /\ \/ inbox'[i][1] = w /\ inbox'[i][2] = k
                                     \/ \E j \in DOMAIN inbox : inbox'[i] = inbox[j]
      /\ \A v : Tally(inbox', Of(v)) = Tally(inbox, Of(v)) + (IF v = w /\ k # "done" THEN 1 ELSE 0)
  BY AskAppended
<1>4. \A v \in Worker : Tally(inbox, Of(v)) \in Nat
  BY InboxParts
<1>5. ASSUME NEW v \in Worker, v # w
      PROVE  Tally(inbox', Of(v)) = Tally(inbox, Of(v))
  <2>1. Tally(inbox', Of(v)) = Tally(inbox, Of(v)) + (IF v = w /\ k # "done" THEN 1 ELSE 0)
    BY <1>3
  <2>2. Tally(inbox, Of(v)) \in Nat
    BY <1>4
  <2> QED
    BY <1>5, <2>1, <2>2
<1>7. w # 0 /\ "poll" \notin Kinds /\ "done" \notin Kinds
  BY DEF Worker, Kinds
<1>9. ASSUME NEW j \in DOMAIN inbox, inbox[j][1] = w
      PROVE  inbox[j][2] = "done"
  <2>1. inbox[j] \in Questions
    BY InboxParts
  <2>2. inbox[j] \in Of(w) <=> inbox[j][1] = w /\ inbox[j][2] # "done"
    BY <2>1, QuestionParts
  <2> QED
    BY <1>2, <1>9, <2>2
<1>10. \A i \in DOMAIN inbox' : inbox'[i][1] = w =>
         /\ inbox'[i][2] = "poll" => wk'[w].pc = "polled"
         /\ inbox'[i][2] \in Kinds => wk'[w].pc \in {"asked", "gaveup"}
  BY <1>1, <1>3, <1>7, <1>9
<1>11. Tally(inbox', Of(w)) + (IF reply'[w] = None THEN 0 ELSE 1)
           <= IF wk'[w].pc \in {"asked", "polled", "gaveup"} THEN 1 ELSE 0
  <2>1. Tally(inbox', Of(w)) = IF k # "done" THEN 1 ELSE 0
    BY SMTT(30), <1>2, <1>3
  <2>2. k # "done" => wk'[w].pc \in {"asked", "polled", "gaveup"}
    BY <1>1
  <2> QED
    BY <2>1, <2>2
<1>12. \A i \in DOMAIN inbox' : /\ inbox'[i] \in Questions
                                /\ inbox'[i][1] \notin {0, w} => \E j \in DOMAIN inbox : inbox'[i] = inbox[j]
  BY <1>3
<1> QED
  BY <1>1, <1>5, <1>10, <1>11, <1>12, OneAsks

\* The count of streams, after a step of one worker.
LEMMA StreamsMove ==
  ASSUME FrontShape, AskInv, NEW w \in Worker, NEW n \in {0, 1}, UNCHANGED <<streams, deaf>>,
         \A v \in Worker : v # w => wk'[v] = wk[v] /\ reply'[v] = reply[v],
         Tally(inbox', Dones) = Tally(inbox, Dones) + n,
         Admitted(w) <=> Admitted(w)' \/ n = 1, n = 1 => ~Admitted(w)'
  PROVE  StreamsFit'
<1> DEFINE a == Cardinality(AdmittedOnes)
           b == Cardinality(AdmittedOnes')
<1>1. a \in Nat /\ b \in Nat
      /\ b = a - (IF Admitted(w) THEN 1 ELSE 0) + (IF Admitted(w)' THEN 1 ELSE 0)
  BY AdmittedMove
<1>2. b = a - n
  BY <1>1
<1>3. streams = a + deaf + Tally(inbox, Dones) /\ deaf \in Nat /\ Tally(inbox, Dones) \in Nat
  BY InboxParts DEF AskInv, StreamsFit, FrontShape
<1> HIDE DEF a, b
<1>4. streams' = b + deaf' + Tally(inbox', Dones)
  BY <1>1, <1>2, <1>3
<1>5. Dones' = Dones
  BY DEF Dones
<1> QED
  BY <1>4, <1>5 DEF StreamsFit, b

\* The owner is asked for the request that was read.
LEMMA ReadAsks ==
  ASSUME FrontShape, AskInv, NEW w \in Worker, NEW k \in Kinds, read_request(w, k)
  PROVE  AskInv'
<1> DEFINE r == [wk[w] EXCEPT !.pc = "asked", !.close = none_free]
<1>1. /\ wk[w].pc = "read" /\ inbox' = Append(inbox, <<w, k>>) /\ wk' = [wk EXCEPT ![w] = r]
      /\ UNCHANGED <<reply, streams, deaf>>
  BY DEF read_request
<1>2. none_free \in BOOLEAN /\ wk[w] \in Workers
  BY DEF none_free, FrontShape
<1>3. r \in Workers /\ r.pc = "asked"
  BY <1>2 DEF Workers, Steps
<1> HIDE DEF r
<1>4. reply[w] = None /\ reply' \in [Worker -> Replies]
  BY <1>1, Unasked DEF FrontShape
<1>5. k # "poll" /\ k # "done"
  BY DEF Kinds
<1>6. QuestionsFit' /\ AskedOnce'
  BY <1>1, <1>3, <1>4, <1>5, Asks
<1>7. wk'[w] = r /\ \A v \in Worker : v # w => wk'[v] = wk[v]
  BY <1>1, <1>3, WorkerPut
<1>8. ~Admitted(w) /\ ~Admitted(w)'
  BY <1>1, <1>3, <1>4, <1>7 DEF Admitted, None, Streaming
<1>9. Tally(inbox', Dones) = Tally(inbox, Dones) + 0
  BY <1>1, <1>5, AskAppended
<1>10. StreamsFit'
  BY <1>1, <1>7, <1>8, <1>9, StreamsMove
<1> QED
  BY <1>6, <1>10 DEF AskInv

\* The steps of a worker between its question and the end of its answer.
LEMMA Onward ==
  ASSUME FrontShape, PlacesInv, NEW w \in Worker, NEW r \in Workers,
         wk' = [wk EXCEPT ![w] = r], r.conn = wk[w].conn,
         wk[w].pc \notin {"idle", "accepted"}, r.pc \notin {"idle", "accepted", "read"},
         inbox' \in Seq(Questions), reply' \in [Worker -> Replies],
         UNCHANGED <<build, conn, backlog, due, park, gone, back, streams, deaf, says>>
  PROVE  FrontShape' /\ PlacesInv'
<1>1. wk' \in [Worker -> Workers]
  BY WorkerPut
<1>2. FrontShape'
  BY <1>1 DEF FrontShape
<1> QED
  BY <1>2, PlacesKept

\* The answer of the owner is there.
LEMMA AnsweredOK ==
  ASSUME FrontIInv, NEW w \in Worker, answered(w)
  PROVE  FrontIInv'
<1> DEFINE b == wk[w].close \/ (build = "HopOS" /\ none_free)
           r == [wk[w] EXCEPT !.pc = execute(reply[w]), !.close = b]
<1>1. /\ wk[w].pc = "asked" /\ reply[w] # None /\ wk' = [wk EXCEPT ![w] = r]
      /\ reply' = [reply EXCEPT ![w] = None]
      /\ UNCHANGED <<build, conn, backlog, due, park, gone, back, inbox, streams, deaf, says>>
  BY DEF answered
<1>2. FrontShape /\ PlacesInv /\ AskInv /\ wk[w] \in Workers /\ reply \in [Worker -> Replies]
  BY DEF FrontIInv, FrontShape
<1>3. reply[w] \in Kinds
  <2>1. wk[w].pc = IF reply[w] \in Kinds THEN "asked" ELSE "polled"
    BY <1>1, <1>2 DEF AskInv, AskedOnce
  <2> QED
    BY <1>1, <2>1
<1>4. /\ execute(reply[w]) \in {"write", "forward", "stream", "relay"}
      /\ execute(reply[w]) \in {"stream", "relay"} <=> reply[w] \in Streaming
  BY <1>3 DEF execute, Kinds, Streaming
<1>5. b \in BOOLEAN
  BY <1>2 DEF Workers
<1> DEFINE e == execute(reply[w])
<1> HIDE DEF b, e
<1>6. r \in Workers /\ r.conn = wk[w].conn /\ r.pc = e
  BY <1>2, <1>4, <1>5 DEF Workers, Steps, e
<1> HIDE DEF r
<1>7. e \in {"write", "forward", "stream", "relay"} /\ (e \in {"stream", "relay"} <=> reply[w] \in Streaming)
  BY <1>4 DEF e
<1>8. reply'[w] = None /\ reply' \in [Worker -> Replies] /\ \A v \in Worker : v # w => reply'[v] = reply[v]
  <2>1. None \in Replies
    BY DEF Replies
  <2> QED
    BY <1>1, <1>2, <2>1, Put
<1>9. inbox \in Seq(Questions)
  BY <1>2 DEF FrontShape
<1>10. FrontShape' /\ PlacesInv'
  BY <1>1, <1>2, <1>6, <1>7, <1>8, <1>9, Onward
<1>11. wk'[w] = r /\ \A v \in Worker : v # w => wk'[v] = wk[v]
  BY <1>1, <1>2, <1>6, WorkerPut
<1>12. Tally(inbox, Of(w)) = 0 /\ \A i \in DOMAIN inbox : inbox[i] \notin Of(w)
  BY <1>1, <1>2, Unasked
<1>13. ASSUME NEW i \in DOMAIN inbox
       PROVE  /\ inbox[i] \in Questions
              /\ inbox[i][1] = w => inbox[i][2] \notin Kinds \cup {"poll"}
  <2>1. inbox[i] \in Questions
    BY <1>2, InboxParts
  <2>2. inbox[i] \in Of(w) <=> inbox[i][1] = w /\ inbox[i][2] # "done"
    BY <2>1, QuestionParts
  <2>4. "done" \notin Kinds \cup {"poll"}
    BY DEF Kinds
  <2> QED
    BY <1>12, <2>1, <2>2, <2>4
<1>14. QuestionsFit' /\ AskedOnce'
  <2>1. Tally(inbox', Of(w)) + (IF reply'[w] = None THEN 0 ELSE 1)
           <= IF wk'[w].pc \in {"asked", "polled", "gaveup"} THEN 1 ELSE 0
    BY <1>1, <1>8, <1>12
  <2>2. \A v \in Worker : v # w => Tally(inbox', Of(v)) = Tally(inbox, Of(v))
    BY <1>1
  <2> QED
    BY <1>1, <1>2, <1>8, <1>11, <1>13, <2>1, <2>2, OneAsks
<1>15. Admitted(w) <=> Admitted(w)'
  BY <1>1, <1>6, <1>7, <1>8, <1>11 DEF Admitted
<1>16. Tally(inbox', Dones) = Tally(inbox, Dones) + 0
  BY <1>1, <1>2, InboxParts
<1>17. StreamsFit'
  BY <1>1, <1>2, <1>8, <1>11, <1>15, <1>16, StreamsMove
<1> QED
  BY <1>10, <1>14, <1>17 DEF FrontIInv, AskInv

\* A worker asks the owner what came since.
LEMMA PollOK ==
  ASSUME FrontIInv, NEW w \in Worker, poll(w)
  PROVE  FrontIInv'
<1> DEFINE r == [wk[w] EXCEPT !.pc = "polled"]
<1>1. /\ wk[w].pc = "stream" /\ inbox' = Append(inbox, <<w, "poll">>) /\ wk' = [wk EXCEPT ![w] = r]
      /\ UNCHANGED <<build, conn, backlog, due, park, gone, back, reply, streams, deaf, says>>
  BY DEF poll, To
<1>2. FrontShape /\ PlacesInv /\ AskInv /\ wk[w] \in Workers /\ reply \in [Worker -> Replies]
  BY DEF FrontIInv, FrontShape
<1>3. r \in Workers /\ r.conn = wk[w].conn /\ r.pc = "polled"
  BY <1>2 DEF Workers, Steps
<1> HIDE DEF r
<1>4. reply[w] = None
  BY <1>1, <1>2, Unasked
<1>5. "poll" \notin Kinds
  BY DEF Kinds
<1>6. inbox' \in Seq(Questions) /\ Tally(inbox', Dones) = Tally(inbox, Dones) + 0
  <2> DEFINE k == "poll"
  <2>1. k \in Kinds \cup {"poll", "done"} /\ inbox' = Append(inbox, <<w, k>>) /\ k # "done"
    BY <1>1
  <2> HIDE DEF k
  <2> QED
    BY <1>2, <2>1, AskAppended
<1>7. FrontShape' /\ PlacesInv'
  BY <1>1, <1>2, <1>3, <1>6, Onward
<1>8. QuestionsFit' /\ AskedOnce'
  <2> DEFINE k == "poll"
  <2>1. k \in Kinds \cup {"poll", "done"} /\ inbox' = Append(inbox, <<w, k>>) /\ k \notin Kinds
    BY <1>1, <1>5
  <2>2. wk[w].pc \notin {"asked", "polled", "gaveup"}
    BY <1>1
  <2> HIDE DEF k
  <2> QED
    BY <1>1, <1>2, <1>3, <1>4, <2>1, <2>2, Asks
<1>9. wk'[w] = r /\ \A v \in Worker : v # w => wk'[v] = wk[v]
  BY <1>1, <1>2, <1>3, WorkerPut
<1>10. Admitted(w) <=> Admitted(w)'
  BY <1>1, <1>3, <1>9 DEF Admitted
<1>11. StreamsFit'
  <2>1. Tally(inbox', Dones) = Tally(inbox, Dones) + 0
    BY <1>6
  <2>2. \A v \in Worker : v # w => wk'[v] = wk[v] /\ reply'[v] = reply[v]
    BY <1>1, <1>9
  <2>3. UNCHANGED <<streams, deaf>>
    BY <1>1
  <2> QED
    BY <1>2, <1>10, <2>1, <2>2, <2>3, StreamsMove
<1> QED
  BY <1>7, <1>8, <1>11 DEF FrontIInv, AskInv

\* A stream of a worker is over: it says so.
LEMMA StreamOver ==
  ASSUME FrontIInv, NEW w \in Worker, NEW r \in Workers,
         wk[w].pc \in {"relay", "over"} \/ (wk[w].pc = "polled" /\ reply[w] # None),
         wk' = [wk EXCEPT ![w] = r], r.conn = wk[w].conn, r.pc = "write",
         inbox' = Append(inbox, <<w, "done">>), reply' = [reply EXCEPT ![w] = None],
         UNCHANGED <<build, conn, backlog, due, park, gone, back, streams, deaf, says>>
  PROVE  FrontIInv'
<1> DEFINE k == "done"
<1>1. FrontShape /\ PlacesInv /\ AskInv /\ reply \in [Worker -> Replies]
  BY DEF FrontIInv, FrontShape
<1>2. k \in Kinds \cup {"poll", "done"} /\ inbox' = Append(inbox, <<w, k>>) /\ k = "done" /\ k # "poll"
      /\ k \notin Kinds
  BY DEF Kinds
<1> HIDE DEF k
<1>3. reply'[w] = None /\ reply' \in [Worker -> Replies] /\ \A v \in Worker : v # w => reply'[v] = reply[v]
  <2>1. None \in Replies
    BY DEF Replies
  <2> QED
    BY <1>1, <2>1, Put
<1>4. inbox' \in Seq(Questions) /\ Tally(inbox', Dones) = Tally(inbox, Dones) + 1
  BY <1>1, <1>2, AskAppended
<1>5. FrontShape' /\ PlacesInv'
  BY <1>1, <1>3, <1>4, Onward
<1>6. wk[w].pc \notin {"asked", "polled", "gaveup"} \/ reply[w] # None
  OBVIOUS
<1>7. QuestionsFit' /\ AskedOnce'
  BY <1>1, <1>2, <1>3, <1>6, Asks
<1>8. wk'[w] = r /\ \A v \in Worker : v # w => wk'[v] = wk[v]
  BY <1>1, WorkerPut
<1>9. /\ Admitted(w) <=> Admitted(w)' \/ 1 = 1
      /\ ~Admitted(w)'
  BY <1>8 DEF Admitted
<1>10. StreamsFit'
  BY <1>1, <1>3, <1>4, <1>8, <1>9, StreamsMove
<1> QED
  BY <1>5, <1>7, <1>10 DEF FrontIInv, AskInv

\* A relayed stream ends, or one the owner was asked for in vain.
LEMMA RelayedOK ==
  ASSUME FrontIInv, NEW w \in Worker, relayed(w) \/ stream_over(w)
  PROVE  FrontIInv'
<1> DEFINE r == [wk[w] EXCEPT !.pc = "write"]
<1>1. /\ wk[w].pc \in {"relay", "over"} /\ inbox' = Append(inbox, <<w, "done">>) /\ wk' = [wk EXCEPT ![w] = r]
      /\ UNCHANGED <<build, conn, backlog, due, park, gone, back, reply, streams, deaf, says>>
  BY DEF relayed, stream_over, To
<1>2. FrontShape /\ AskInv /\ wk[w] \in Workers /\ reply \in [Worker -> Replies]
  BY DEF FrontIInv, FrontShape
<1>3. r \in Workers /\ r.conn = wk[w].conn /\ r.pc = "write"
  BY <1>2 DEF Workers, Steps
<1> HIDE DEF r
<1>4. reply[w] = None
  BY <1>1, <1>2, Unasked
<1>5. reply' = [reply EXCEPT ![w] = None]
  BY <1>1, <1>2, <1>4
<1> QED
  BY <1>1, <1>3, <1>5, StreamOver

\* A chunk of a stream.
LEMMA ChunkOK ==
  ASSUME FrontIInv, NEW w \in Worker, chunk(w)
  PROVE  FrontIInv'
<1>1. /\ wk[w].pc = "polled" /\ reply[w] # None /\ reply' = [reply EXCEPT ![w] = None]
      /\ UNCHANGED <<build, conn, backlog, due, park, gone, back, streams, deaf, says>>
  BY DEF chunk
<1>2. FrontShape /\ PlacesInv /\ AskInv /\ wk[w] \in Workers /\ reply \in [Worker -> Replies]
      /\ inbox \in Seq(Questions)
  BY DEF FrontIInv, FrontShape
<1>3. CASE To(w, "write") /\ inbox' = Append(inbox, <<w, "done">>)
  <2> DEFINE r == [wk[w] EXCEPT !.pc = "write"]
  <2>1. r \in Workers /\ r.conn = wk[w].conn /\ r.pc = "write" /\ wk' = [wk EXCEPT ![w] = r]
    BY <1>2, <1>3 DEF Workers, Steps, To
  <2> HIDE DEF r
  <2> QED
    BY <1>1, <1>3, <2>1, StreamOver
<1>4. CASE To(w, "stream") /\ UNCHANGED inbox
  <2> DEFINE r == [wk[w] EXCEPT !.pc = "stream"]
  <2>1. r \in Workers /\ r.conn = wk[w].conn /\ r.pc = "stream" /\ wk' = [wk EXCEPT ![w] = r]
    BY <1>2, <1>4 DEF Workers, Steps, To
  <2> HIDE DEF r
  <2>2. reply'[w] = None /\ reply' \in [Worker -> Replies] /\ \A v \in Worker : v # w => reply'[v] = reply[v]
    <3>1. None \in Replies
      BY DEF Replies
    <3> QED
      BY <1>1, <1>2, <3>1, Put
  <2>3. FrontShape' /\ PlacesInv'
    BY <1>1, <1>2, <1>4, <2>1, <2>2, Onward
  <2>4. wk'[w] = r /\ \A v \in Worker : v # w => wk'[v] = wk[v]
    BY <1>2, <2>1, WorkerPut
  <2>5. Tally(inbox, Of(w)) = 0 /\ \A i \in DOMAIN inbox : inbox[i] \notin Of(w)
    BY <1>1, <1>2, Unasked
  <2>6. ASSUME NEW i \in DOMAIN inbox
        PROVE  /\ inbox[i] \in Questions
               /\ inbox[i][1] = w => inbox[i][2] \notin Kinds \cup {"poll"}
    <3>1. inbox[i] \in Questions
      BY <1>2, InboxParts
    <3>2. inbox[i] \in Of(w) <=> inbox[i][1] = w /\ inbox[i][2] # "done"
      BY <3>1, QuestionParts
    <3>4. "done" \notin Kinds \cup {"poll"}
      BY DEF Kinds
    <3> QED
      BY <2>5, <3>1, <3>2, <3>4
  <2>7. QuestionsFit' /\ AskedOnce'
    <3>1. Tally(inbox', Of(w)) + (IF reply'[w] = None THEN 0 ELSE 1)
             <= IF wk'[w].pc \in {"asked", "polled", "gaveup"} THEN 1 ELSE 0
      BY <1>4, <2>2, <2>5
    <3>2. \A v \in Worker : v # w => Tally(inbox', Of(v)) = Tally(inbox, Of(v))
      BY <1>4
    <3> QED
      BY <1>2, <1>4, <2>2, <2>4, <2>6, <3>1, <3>2, OneAsks
  <2>8. Admitted(w) <=> Admitted(w)'
    BY <1>1, <2>1, <2>4 DEF Admitted
  <2>9. Tally(inbox', Dones) = Tally(inbox, Dones) + 0
    BY <1>2, <1>4, InboxParts
  <2>10. StreamsFit'
    BY <1>1, <1>2, <2>2, <2>4, <2>8, <2>9, StreamsMove
  <2> QED
    BY <2>3, <2>7, <2>10 DEF FrontIInv, AskInv
<1> QED
  BY <1>3, <1>4 DEF chunk

\* On the host a worker gives up on the owner.
LEMMA GivesUpOK ==
  ASSUME FrontIInv, NEW w \in Worker, gives_up(w)
  PROVE  FrontIInv'
<1> DEFINE r == [wk[w] EXCEPT !.pc = "gaveup"]
<1>1. /\ wk[w].pc = "asked" /\ reply[w] = None /\ wk' = [wk EXCEPT ![w] = r]
      /\ UNCHANGED <<build, conn, backlog, due, park, gone, back, inbox, reply, streams, deaf, says>>
  BY DEF gives_up, To
<1>2. FrontShape /\ PlacesInv /\ AskInv /\ wk[w] \in Workers /\ reply \in [Worker -> Replies]
      /\ inbox \in Seq(Questions)
  BY DEF FrontIInv, FrontShape
<1>3. r \in Workers /\ r.conn = wk[w].conn /\ r.pc = "gaveup"
  BY <1>2 DEF Workers, Steps
<1> HIDE DEF r
<1>4. FrontShape' /\ PlacesInv'
  BY <1>1, <1>2, <1>3, Onward
<1>5. wk'[w] = r /\ \A v \in Worker : v # w => wk'[v] = wk[v]
  BY <1>1, <1>2, <1>3, WorkerPut
<1>6. ASSUME NEW i \in DOMAIN inbox
      PROVE  inbox[i] \in Questions /\ (inbox[i][1] = w => inbox[i][2] # "poll")
  BY <1>1, <1>2, InboxParts, FrontAssumption DEF AskInv, QuestionsFit, Worker
<1>7. QuestionsFit' /\ AskedOnce'
  <2>1. Tally(inbox', Of(w)) + (IF reply'[w] = None THEN 0 ELSE 1)
           <= IF wk'[w].pc \in {"asked", "polled", "gaveup"} THEN 1 ELSE 0
    BY <1>1, <1>2, <1>3, <1>5 DEF AskInv, AskedOnce
  <2>2. \A v \in Worker : v # w => Tally(inbox', Of(v)) = Tally(inbox, Of(v))
    BY <1>1
  <2> QED
    BY <1>1, <1>2, <1>3, <1>5, <1>6, <2>1, <2>2, OneAsks
<1>8. ~Admitted(w) /\ ~Admitted(w)'
  BY <1>1, <1>3, <1>5 DEF Admitted, None, Streaming
<1>9. Tally(inbox', Dones) = Tally(inbox, Dones) + 0
  BY <1>1, <1>2, InboxParts
<1>10. StreamsFit'
  BY <1>1, <1>2, <1>5, <1>8, <1>9, StreamsMove
<1> QED
  BY <1>4, <1>7, <1>10 DEF FrontIInv, AskInv

\* A worker stops listening: its question stays in the inbox, and nobody asked it.
LEMMA StopsListening ==
  ASSUME FrontIInv, NEW w \in Worker, NEW r \in Workers, reply[w] = None,
         wk' = [wk EXCEPT ![w] = r], r.conn = wk[w].conn,
         \/ wk[w].pc = "gaveup" /\ r.pc = "write"
         \/ wk[w].pc = "polled" /\ r.pc = "over",
         DOMAIN inbox' = DOMAIN inbox,
         \A i \in DOMAIN inbox : inbox'[i] = IF inbox[i][1] = w /\ inbox[i][2] # "done"
                                           THEN <<0, inbox[i][2]>> ELSE inbox[i],
         inbox' = [i \in DOMAIN inbox |-> inbox'[i]],
         UNCHANGED <<build, conn, backlog, due, park, gone, back, reply, streams, deaf, says>>
  PROVE  FrontIInv'
<1>2. FrontShape /\ PlacesInv /\ AskInv /\ wk[w] \in Workers /\ reply \in [Worker -> Replies]
      /\ inbox \in Seq(Questions)
  BY DEF FrontIInv, FrontShape
<1>5. DOMAIN inbox = 1..Len(inbox) /\ Len(inbox) \in Nat
  BY <1>2, Sequence
<1>6. ASSUME NEW i \in DOMAIN inbox
      PROVE  /\ inbox'[i] \in Questions
             /\ inbox'[i][1] # w \/ inbox'[i][2] = "done"
             /\ inbox'[i][1] \notin {0, w} => inbox'[i] = inbox[i]
             /\ inbox'[i][2] = inbox[i][2]
             /\ inbox'[i] \in Dones <=> inbox[i] \in Dones
             /\ \A v \in Worker : v # w => (inbox'[i] \in Of(v) <=> inbox[i] \in Of(v))
  <2>1. inbox[i] \in Questions
    BY <1>2, InboxParts
  <2>2. inbox[i][2] \in Kinds \cup {"poll", "done"}
    BY <2>1, QuestionParts
  <2>4. CASE inbox[i][1] = w /\ inbox[i][2] # "done"
    <3>1. inbox'[i] = <<0, inbox[i][2]>>
      BY <2>4
    <3>2. inbox'[i][1] = 0 /\ inbox'[i][2] = inbox[i][2]
      BY <3>1
    <3>3. <<0, inbox[i][2]>> \in Questions
      BY <2>2, FrontAssumption DEF Questions
    <3>4. inbox'[i] \in Questions
      BY <3>1, <3>3
    <3>5. w # 0 /\ \A v \in Worker : v # 0
      BY DEF Worker
    <3>6. \A v : /\ inbox[i] \in Of(v) <=> inbox[i][1] = v /\ inbox[i][2] # "done"
                 /\ inbox'[i] \in Of(v) <=> inbox'[i][1] = v /\ inbox'[i][2] # "done"
                 /\ inbox[i] \in Dones <=> inbox[i][2] = "done"
                 /\ inbox'[i] \in Dones <=> inbox'[i][2] = "done"
      BY <2>1, <3>4, QuestionParts
    <3> QED
      BY <2>4, <3>2, <3>4, <3>5, <3>6
  <2>5. CASE ~(inbox[i][1] = w /\ inbox[i][2] # "done")
    <3>1. inbox'[i] = inbox[i]
      BY <2>5
    <3> QED
      BY <2>1, <2>5, <3>1
  <2> QED
    BY <2>4, <2>5
<1>7. inbox' \in Seq(Questions)
  <2>1. inbox' = [i \in 1..Len(inbox) |-> inbox'[i]]
    BY <1>5
  <2> QED
    BY <1>5, <1>6, <2>1
<1>8. FrontShape' /\ PlacesInv'
  BY <1>2, <1>7, Onward
<1>9. wk'[w] = r /\ \A v \in Worker : v # w => wk'[v] = wk[v]
  BY <1>2, WorkerPut
<1>10. ASSUME NEW v \in Worker, v # w
       PROVE  Tally(inbox', Of(v)) = Tally(inbox, Of(v))
  <2>1. {i \in DOMAIN inbox' : inbox'[i] \in Of(v)} = {i \in DOMAIN inbox : inbox[i] \in Of(v)}
    BY <1>5, <1>6, <1>10
  <2> QED
    BY <2>1 DEF Tally
<1>11. Tally(inbox', Dones) = Tally(inbox, Dones) + 0
  <2>1. {i \in DOMAIN inbox' : inbox'[i] \in Dones} = {i \in DOMAIN inbox : inbox[i] \in Dones}
    BY <1>5, <1>6
  <2>2. Tally(inbox', Dones) = Tally(inbox, Dones)
    BY <2>1 DEF Tally
  <2> QED
    BY <1>2, <2>2, InboxParts
<1>12. Tally(inbox', Of(w)) = 0
  <2>1. \A i \in DOMAIN inbox' : inbox'[i] \notin Of(w)
    BY <1>5, <1>6, QuestionParts
  <2> QED
    BY <1>7, <2>1, Tallied
<1>13. QuestionsFit' /\ AskedOnce'
  <2>1. Tally(inbox', Of(w)) + (IF reply'[w] = None THEN 0 ELSE 1)
           <= IF wk'[w].pc \in {"asked", "polled", "gaveup"} THEN 1 ELSE 0
    BY <1>12
  <2>2. \A i \in DOMAIN inbox' : /\ inbox'[i] \in Questions
                                 /\ inbox'[i][1] \notin {0, w} => \E j \in DOMAIN inbox : inbox'[i] = inbox[j]
    BY <1>5, <1>6
  <2>4. \A i \in DOMAIN inbox' : inbox'[i][1] = w =>
          /\ inbox'[i][2] = "poll" => wk'[w].pc = "polled"
          /\ inbox'[i][2] \in Kinds => wk'[w].pc \in {"asked", "gaveup"}
    <3>1. "done" \notin Kinds /\ "done" # "poll"
      BY DEF Kinds
    <3> QED
      BY <1>5, <1>6, <3>1
  <2>5. \A v \in Worker : v # w => wk'[v] = wk[v] /\ reply'[v] = reply[v]
    BY <1>9
  <2>6. reply'[w] # None => wk'[w].pc = IF reply'[w] \in Kinds THEN "asked" ELSE "polled"
    OBVIOUS
  <2> QED
    BY <1>2, <1>10, <2>1, <2>2, <2>4, <2>5, <2>6, OneAsks
<1>14. Admitted(w) <=> Admitted(w)'
  BY <1>9 DEF Admitted
<1>15. StreamsFit'
  <2>1. \A v \in Worker : v # w => wk'[v] = wk[v] /\ reply'[v] = reply[v]
    BY <1>9
  <2>2. UNCHANGED <<streams, deaf>>
    OBVIOUS
  <2> QED
    BY <1>2, <1>11, <1>14, <2>1, <2>2, StreamsMove
<1> QED
  BY <1>8, <1>13, <1>15 DEF FrontIInv, AskInv

\* It drops its channel: the owner's answer to it will come back.
LEMMA DropsOK ==
  ASSUME FrontIInv, NEW w \in Worker, drops(w)
  PROVE  FrontIInv'
<1> DEFINE r == [wk[w] EXCEPT !.pc = "write"]
<1>1. /\ wk[w].pc = "gaveup" /\ wk' = [wk EXCEPT ![w] = r]
      /\ inbox' = [i \in DOMAIN inbox |-> IF inbox[i][1] = w /\ inbox[i][2] \in Kinds
                                          THEN <<0, inbox[i][2]>> ELSE inbox[i]]
      /\ UNCHANGED <<build, conn, backlog, due, park, gone, back, reply, streams, deaf, says>>
  BY DEF drops, To
<1>2. AskInv /\ FrontShape /\ wk[w] \in Workers
  BY DEF FrontIInv, FrontShape
<1>3. r \in Workers /\ r.conn = wk[w].conn /\ r.pc = "write"
  BY <1>2 DEF Workers, Steps
<1> HIDE DEF r
<1>4. reply[w] = None
  <2>1. reply[w] # None => wk[w].pc = IF reply[w] \in Kinds THEN "asked" ELSE "polled"
    BY <1>2 DEF AskInv, AskedOnce
  <2> QED
    BY <1>1, <2>1
<1>5. ASSUME NEW i \in DOMAIN inbox, inbox[i][1] = w
      PROVE  inbox[i][2] \in Kinds <=> inbox[i][2] # "done"
  <2>1. inbox[i][2] \in Kinds \cup {"poll", "done"} /\ "done" \notin Kinds /\ w # 0
    BY <1>2, InboxParts, QuestionParts DEF Worker
  <2>2. inbox[i][2] # "poll"
    BY <1>1, <1>2, <1>5, <2>1 DEF AskInv, QuestionsFit
  <2> QED
    BY <2>1, <2>2
<1>6. /\ DOMAIN inbox' = DOMAIN inbox /\ inbox' = [i \in DOMAIN inbox |-> inbox'[i]]
      /\ \A i \in DOMAIN inbox : inbox'[i] = IF inbox[i][1] = w /\ inbox[i][2] \in Kinds
                                            THEN <<0, inbox[i][2]>> ELSE inbox[i]
  BY <1>1
<1>7. \A i \in DOMAIN inbox : inbox'[i] = IF inbox[i][1] = w /\ inbox[i][2] # "done"
                                        THEN <<0, inbox[i][2]>> ELSE inbox[i]
  BY <1>5, <1>6
<1> QED
  BY <1>1, <1>3, <1>4, <1>6, <1>7, StopsListening

\* It gives up on a poll: the stream is over.
LEMMA PollFailsOK ==
  ASSUME FrontIInv, NEW w \in Worker, poll_fails(w)
  PROVE  FrontIInv'
<1> DEFINE r == [wk[w] EXCEPT !.pc = "over"]
<1>1. /\ wk[w].pc = "polled" /\ reply[w] = None /\ wk' = [wk EXCEPT ![w] = r]
      /\ inbox' = [i \in DOMAIN inbox |-> IF inbox[i] = <<w, "poll">> THEN <<0, "poll">> ELSE inbox[i]]
      /\ UNCHANGED <<build, conn, backlog, due, park, gone, back, reply, streams, deaf, says>>
  BY DEF poll_fails, To
<1>2. AskInv /\ FrontShape /\ wk[w] \in Workers
  BY DEF FrontIInv, FrontShape
<1>3. r \in Workers /\ r.conn = wk[w].conn /\ r.pc = "over"
  BY <1>2 DEF Workers, Steps
<1> HIDE DEF r
<1>4. ASSUME NEW i \in DOMAIN inbox
      PROVE  inbox[i] = <<w, "poll">> <=> inbox[i][1] = w /\ inbox[i][2] # "done"
  <2>1. PICK a \in 0..WORKERS, k \in Kinds \cup {"poll", "done"} : inbox[i] = <<a, k>>
    BY <1>2, InboxParts DEF Questions
  <2>2. inbox[i][1] = a /\ inbox[i][2] = k
    BY <2>1
  <2>3. a = w => k \notin Kinds
    <3>1. w # 0
      BY DEF Worker
    <3> QED
      BY <1>1, <1>2, <2>2, <3>1 DEF AskInv, QuestionsFit
  <2> QED
    BY <2>1, <2>2, <2>3
<1>5. /\ DOMAIN inbox' = DOMAIN inbox /\ inbox' = [i \in DOMAIN inbox |-> inbox'[i]]
      /\ \A i \in DOMAIN inbox : inbox'[i] = IF inbox[i] = <<w, "poll">> THEN <<0, "poll">> ELSE inbox[i]
  BY <1>1
<1>6. \A i \in DOMAIN inbox : inbox'[i] = IF inbox[i][1] = w /\ inbox[i][2] # "done"
                                        THEN <<0, inbox[i][2]>> ELSE inbox[i]
  <2>1. \A i \in DOMAIN inbox : inbox[i] = <<w, "poll">> => inbox[i][2] = "poll"
    OBVIOUS
  <2> QED
    BY <1>4, <1>5, <2>1
<1> QED
  BY <1>1, <1>3, <1>5, <1>6, StopsListening

\* A step that moves no connection and no worker.
LEMMA PlacesUnchanged ==
  ASSUME PlacesInv, UNCHANGED <<build, conn, backlog, due, park, gone, back, wk, says>>
  PROVE  PlacesInv'
<1>1. WorkersFit' /\ SaidFits' /\ ParkFits'
  BY DEF PlacesInv, WorkersFit, SaidFits, ParkFits
<1>2. BusyWorkers' = BusyWorkers /\ \A c : Holders(c)' = Holders(c)
  BY DEF BusyWorkers, Busy, Holders
<1>3. ReturnsFit'
  BY <1>2 DEF PlacesInv, ReturnsFit
<1>4. InPlace'
  BY <1>2 DEF PlacesInv, InPlace, PlacesOf
<1>5. QuietWaits'
  BY DEF PlacesInv, QuietWaits, Readable
<1> QED
  BY <1>1, <1>3, <1>4, <1>5 DEF PlacesInv

\* The owner takes a question from the inbox.
LEMMA OwnerTakes ==
  ASSUME FrontShape, AskInv, inbox # <<>>, inbox' = Tail(inbox), UNCHANGED wk
  PROVE  LET h == Head(inbox)
         IN  /\ h \in Questions /\ inbox' \in Seq(Questions) /\ QuestionsFit'
             /\ \A v : Tally(inbox', Of(v)) = Tally(inbox, Of(v)) - (IF h[1] = v /\ h[2] # "done" THEN 1 ELSE 0)
             /\ \A v : h[1] = v /\ h[2] # "done" => Tally(inbox, Of(v)) # 0
             /\ Tally(inbox', Dones) = Tally(inbox, Dones) - (IF h[2] = "done" THEN 1 ELSE 0)
             /\ h[2] = "done" => Tally(inbox, Dones) # 0
             /\ h[2] = "poll" /\ h[1] # 0 => h[1] \in Worker /\ wk[h[1]].pc = "polled"
             /\ h[2] \in Kinds /\ h[1] # 0 => h[1] \in Worker /\ wk[h[1]].pc \in {"asked", "gaveup"}
<1> DEFINE h == Head(inbox)
<1>1. inbox \in Seq(Questions)
  BY DEF FrontShape
<1>2. /\ h = inbox[1] /\ Len(inbox) \in Nat \ {0} /\ h \in Questions /\ inbox' \in Seq(Questions)
      /\ Len(inbox') = Len(inbox) - 1 /\ \A i \in 1..Len(inbox) - 1 : inbox'[i] = inbox[i + 1]
  BY <1>1, Tailed
<1>3. DOMAIN inbox = 1..Len(inbox) /\ DOMAIN inbox' = 1..Len(inbox) - 1 /\ 1 \in DOMAIN inbox
  BY <1>1, <1>2, Sequence
<1>4. \A i \in DOMAIN inbox' : i + 1 \in DOMAIN inbox /\ inbox'[i] = inbox[i + 1]
  BY <1>2, <1>3
<1>5. QuestionsFit'
  BY <1>4 DEF AskInv, QuestionsFit
<1>6. /\ h[2] = "poll" /\ h[1] # 0 => wk[h[1]].pc = "polled"
      /\ h[2] \in Kinds /\ h[1] # 0 => wk[h[1]].pc \in {"asked", "gaveup"}
  BY <1>2, <1>3 DEF AskInv, QuestionsFit
<1>7. h[1] # 0 => h[1] \in Worker
  BY <1>2, QuestionParts
<1>8. ASSUME NEW v
      PROVE  /\ Tally(inbox', Of(v)) = Tally(inbox, Of(v)) - (IF h[1] = v /\ h[2] # "done" THEN 1 ELSE 0)
             /\ h[1] = v /\ h[2] # "done" => Tally(inbox, Of(v)) # 0
  <2>1. h \in Of(v) <=> h[1] = v /\ h[2] # "done"
    BY <1>2, QuestionParts
  <2>2. Tally(inbox', Of(v)) = Tally(inbox, Of(v)) - (IF h \in Of(v) THEN 1 ELSE 0)
    BY <1>1, TallyTailed
  <2>3. h \in Of(v) => Tally(inbox, Of(v)) # 0
    BY <1>2, <1>3, InboxParts
  <2> HIDE DEF h
  <2> QED
    BY <2>1, <2>2, <2>3
<1>9. /\ Tally(inbox', Dones) = Tally(inbox, Dones) - (IF h[2] = "done" THEN 1 ELSE 0)
      /\ h[2] = "done" => Tally(inbox, Dones) # 0
  <2>1. h \in Dones <=> h[2] = "done"
    BY <1>2, QuestionParts
  <2>2. Tally(inbox', Dones) = Tally(inbox, Dones) - (IF h \in Dones THEN 1 ELSE 0)
    BY <1>1, TallyTailed
  <2>3. h \in Dones => Tally(inbox, Dones) # 0
    BY <1>2, <1>3, InboxParts
  <2> HIDE DEF h
  <2> QED
    BY <2>1, <2>2, <2>3
<1> QED
  BY <1>2, <1>5, <1>6, <1>7, <1>8, <1>9

\* The owner answers a worker: nobody else's question changes.
LEMMA OwnerAnswers ==
  ASSUME FrontShape, AskInv, inbox # <<>>, inbox' = Tail(inbox), UNCHANGED wk,
         NEW w \in Worker, NEW x \in Replies, Head(inbox)[1] = w, Head(inbox)[2] # "done",
         reply' = [reply EXCEPT ![w] = x],
         x = None \/ wk[w].pc = IF x \in Kinds THEN "asked" ELSE "polled"
  PROVE  /\ AskedOnce' /\ reply[w] = None /\ reply'[w] = x /\ reply' \in [Worker -> Replies]
         /\ \A v \in Worker : v # w => reply'[v] = reply[v]
<1>1. reply \in [Worker -> Replies]
  BY DEF FrontShape
<1>2. reply'[w] = x /\ reply' \in [Worker -> Replies] /\ \A v \in Worker : v # w => reply'[v] = reply[v]
  BY <1>1, Put
<1>3. /\ \A v : Tally(inbox', Of(v)) = Tally(inbox, Of(v))
                  - (IF Head(inbox)[1] = v /\ Head(inbox)[2] # "done" THEN 1 ELSE 0)
      /\ Tally(inbox, Of(w)) # 0
  BY OwnerTakes
<1>4. ASSUME NEW v \in Worker
      PROVE  /\ Tally(inbox, Of(v)) \in Nat
             /\ Tally(inbox, Of(v)) + (IF reply[v] = None THEN 0 ELSE 1)
                  <= IF wk[v].pc \in {"asked", "polled", "gaveup"} THEN 1 ELSE 0
             /\ reply[v] # None => wk[v].pc = IF reply[v] \in Kinds THEN "asked" ELSE "polled"
  BY InboxParts DEF AskInv, AskedOnce
<1>5. Tally(inbox, Of(w)) = 1 /\ reply[w] = None /\ wk[w].pc \in {"asked", "polled", "gaveup"}
  BY <1>3, <1>4
<1>6. AskedOnce'
  <2> SUFFICES ASSUME NEW v \in Worker
               PROVE  /\ Tally(inbox', Of(v)) + (IF reply'[v] = None THEN 0 ELSE 1)
                           <= IF wk'[v].pc \in {"asked", "polled", "gaveup"} THEN 1 ELSE 0
                      /\ reply'[v] # None => wk'[v].pc = IF reply'[v] \in Kinds THEN "asked" ELSE "polled"
    <3>1. \A v : Of(v)' = Of(v)
      BY DEF Of
    <3> QED
      BY <3>1 DEF AskedOnce
  <2>1. CASE v = w
    <3>1. Tally(inbox', Of(v)) = 0
      BY <1>3, <1>5, <2>1
    <3> QED
      BY <1>2, <1>5, <2>1, <3>1
  <2>2. CASE v # w
    <3>1. Tally(inbox', Of(v)) = Tally(inbox, Of(v)) - (IF Head(inbox)[1] = v /\ Head(inbox)[2] # "done" THEN 1 ELSE 0)
      BY <1>3
    <3>2. Tally(inbox', Of(v)) = Tally(inbox, Of(v))
      BY <1>4, <2>2, <3>1
    <3> QED
      BY <1>2, <1>4, <2>2, <3>2
  <2> QED
    BY <2>1, <2>2
<1> QED
  BY <1>2, <1>5, <1>6

\* The owner's step, when the answers and the count come out right.
LEMMA OwnerStep ==
  ASSUME FrontIInv, inbox # <<>>, inbox' = Tail(inbox), AskedOnce', StreamsFit',
         reply' \in [Worker -> Replies], streams' \in 0..MAX_STREAMS, deaf' \in Nat,
         UNCHANGED <<build, conn, backlog, due, park, gone, back, wk, says>>
  PROVE  FrontIInv'
<1>1. FrontShape /\ PlacesInv /\ AskInv
  BY DEF FrontIInv
<1>2. inbox' \in Seq(Questions) /\ QuestionsFit'
  BY <1>1, OwnerTakes
<1>3. FrontShape'
  BY <1>1, <1>2 DEF FrontShape
<1>4. PlacesInv'
  BY <1>1, PlacesUnchanged
<1> QED
  BY <1>2, <1>3, <1>4 DEF FrontIInv, AskInv

\* The owner tells a worker what came since.
LEMMA OwnerPolled ==
  ASSUME FrontIInv, inbox # <<>>, inbox' = Tail(inbox),
         Head(inbox)[2] = "poll", Head(inbox)[1] # 0, owner_poll(Head(inbox)[1]),
         UNCHANGED <<build, conn, backlog, due, park, gone, back, wk, says>>
  PROVE  FrontIInv'
<1>1. FrontShape /\ AskInv
  BY DEF FrontIInv
<1>2. PICK w \in Worker : Head(inbox)[1] = w
  BY <1>1, OwnerTakes
<1>3. PICK x \in {"more", "end"} : reply' = [reply EXCEPT ![w] = x]
  BY <1>2 DEF owner_poll
<1>4. UNCHANGED <<streams, deaf>>
  BY DEF owner_poll
<1>5. /\ w \in Worker /\ wk[w].pc = "polled"
      /\ Tally(inbox', Dones) = Tally(inbox, Dones) - (IF Head(inbox)[2] = "done" THEN 1 ELSE 0)
  BY <1>1, <1>2, OwnerTakes
<1>6. x \in Replies /\ x \notin Kinds
  BY <1>3 DEF Replies, Kinds
<1>7. AskedOnce' /\ reply' \in [Worker -> Replies] /\ \A v \in Worker : v # w => reply'[v] = reply[v]
  BY <1>1, <1>3, <1>5, <1>6, <1>2, OwnerAnswers
<1>8. Tally(inbox', Dones) = Tally(inbox, Dones) + 0
  <2>1. Tally(inbox, Dones) \in Nat
    BY <1>1, InboxParts
  <2>2. Tally(inbox', Dones) = Tally(inbox, Dones) - 0
    BY <1>5
  <2> QED
    BY <2>1, <2>2
<1>9. Admitted(w) <=> Admitted(w)'
  BY <1>5 DEF Admitted
<1>10. \A v \in Worker : v # w => wk'[v] = wk[v] /\ reply'[v] = reply[v]
  BY <1>7
<1>11. StreamsFit'
  <2>1. w \in Worker /\ UNCHANGED <<streams, deaf>>
    BY <1>4, <1>5
  <2> QED
    BY <1>1, <1>8, <1>9, <1>10, <2>1, StreamsMove
<1>12. streams' \in 0..MAX_STREAMS /\ deaf' \in Nat
  BY <1>1, <1>4 DEF FrontShape
<1> QED
  BY <1>7, <1>11, <1>12, OwnerStep

\* What nobody waits for leaves the answers as they are.
LEMMA OwnerHeedless ==
  ASSUME FrontShape, AskInv, inbox # <<>>, inbox' = Tail(inbox), UNCHANGED <<wk, reply>>,
         \A v \in Worker : ~(Head(inbox)[1] = v /\ Head(inbox)[2] # "done")
  PROVE  AskedOnce' /\ AdmittedOnes' = AdmittedOnes
<1>1. ASSUME NEW v \in Worker
      PROVE  Tally(inbox', Of(v)) = Tally(inbox, Of(v))
  <2>1. Tally(inbox', Of(v)) = Tally(inbox, Of(v)) - (IF Head(inbox)[1] = v /\ Head(inbox)[2] # "done" THEN 1 ELSE 0)
    BY OwnerTakes
  <2>2. Tally(inbox, Of(v)) \in Nat
    BY InboxParts
  <2> QED
    BY <2>1, <2>2
<1>2. \A v : Of(v)' = Of(v)
  BY DEF Of
<1>3. AskedOnce'
  BY <1>1, <1>2 DEF AskInv, AskedOnce
<1> QED
  BY <1>3 DEF AdmittedOnes, Admitted

\* A poll nobody waits for any more.
LEMMA OwnerPolledInVain ==
  ASSUME FrontIInv, inbox # <<>>, inbox' = Tail(inbox),
         Head(inbox)[2] = "poll", Head(inbox)[1] = 0, owner_poll(0),
         UNCHANGED <<build, conn, backlog, due, park, gone, back, wk, says>>
  PROVE  FrontIInv'
<1>1. FrontShape /\ AskInv /\ reply \in [Worker -> Replies] /\ streams \in 0..MAX_STREAMS /\ deaf \in Nat
  BY DEF FrontIInv, FrontShape
<1>2. UNCHANGED <<reply, streams, deaf>>
  BY DEF owner_poll
<1>3. \A v \in Worker : v # 0
  BY DEF Worker
<1>4. AskedOnce' /\ AdmittedOnes' = AdmittedOnes
  BY <1>1, <1>2, <1>3, OwnerHeedless
<1>5. Tally(inbox', Dones) = Tally(inbox, Dones)
  <2>1. Tally(inbox', Dones) = Tally(inbox, Dones) - (IF Head(inbox)[2] = "done" THEN 1 ELSE 0)
    BY <1>1, OwnerTakes
  <2>2. Tally(inbox, Dones) \in Nat
    BY <1>1, InboxParts
  <2> QED
    BY <2>1, <2>2
<1>6. StreamsFit'
  <2>1. Dones' = Dones
    BY DEF Dones
  <2> QED
    BY <1>1, <1>2, <1>4, <1>5, <2>1 DEF AskInv, StreamsFit
<1> QED
  BY <1>1, <1>2, <1>4, <1>6, OwnerStep

\* The owner counts a stream off.
LEMMA OwnerDone ==
  ASSUME FrontIInv, inbox # <<>>, inbox' = Tail(inbox),
         Head(inbox)[2] = "done", stream_done,
         UNCHANGED <<build, conn, backlog, due, park, gone, back, wk, says>>
  PROVE  FrontIInv'
<1>1. FrontShape /\ AskInv /\ reply \in [Worker -> Replies] /\ streams \in 0..MAX_STREAMS /\ deaf \in Nat
  BY DEF FrontIInv, FrontShape
<1>2. streams' = (IF streams > 0 THEN streams - 1 ELSE 0) /\ UNCHANGED <<reply, deaf>>
  BY DEF stream_done
<1>3. Tally(inbox, Dones) # 0 /\ Tally(inbox', Dones) = Tally(inbox, Dones) - 1
  <2>1. /\ Tally(inbox', Dones) = Tally(inbox, Dones) - (IF Head(inbox)[2] = "done" THEN 1 ELSE 0)
        /\ Tally(inbox, Dones) # 0
    BY <1>1, OwnerTakes
  <2> QED
    BY <2>1
<1>4. AskedOnce' /\ AdmittedOnes' = AdmittedOnes
  BY <1>1, <1>2, OwnerHeedless
<1> DEFINE a == Cardinality(AdmittedOnes)
<1>5. a \in Nat /\ Tally(inbox, Dones) \in Nat /\ streams = a + deaf + Tally(inbox, Dones)
  <2>1. AdmittedOnes \in SUBSET Worker
    BY DEF AdmittedOnes
  <2> QED
    BY <1>1, <2>1, FrontFinite, InboxParts DEF AskInv, StreamsFit
<1> HIDE DEF a
<1>6. streams' = a + deaf + Tally(inbox', Dones) /\ streams' \in 0..MAX_STREAMS
  BY <1>1, <1>2, <1>3, <1>5, FrontAssumption
<1>7. StreamsFit'
  <2>1. Dones' = Dones /\ Cardinality(AdmittedOnes') = a
    BY <1>4 DEF Dones, a
  <2> QED
    BY <1>2, <1>6, <2>1 DEF StreamsFit
<1> QED
  BY <1>1, <1>2, <1>4, <1>6, <1>7, OwnerStep

\* The count of streams, after the owner answered a request.
LEMMA StreamsAnswered ==
  ASSUME FrontShape, AskInv, UNCHANGED wk, NEW w \in Worker, NEW m \in {0, 1}, NEW n \in {0, 1},
         \A v \in Worker : v # w => reply'[v] = reply[v],
         Tally(inbox', Dones) = Tally(inbox, Dones),
         streams' = streams + m + n, deaf' = deaf + n,
         ~Admitted(w), Admitted(w)' <=> m = 1
  PROVE  StreamsFit'
<1> DEFINE a == Cardinality(AdmittedOnes)
           b == Cardinality(AdmittedOnes')
<1>1. \A v \in Worker : v # w => wk'[v].pc = wk[v].pc /\ reply'[v] = reply[v]
  OBVIOUS
<1>2. a \in Nat /\ b \in Nat
      /\ b = a - (IF Admitted(w) THEN 1 ELSE 0) + (IF Admitted(w)' THEN 1 ELSE 0)
  BY <1>1, AdmittedMove
<1>3. b = a + m
  BY <1>2
<1>4. streams = a + deaf + Tally(inbox, Dones) /\ deaf \in Nat /\ Tally(inbox, Dones) \in Nat
  BY InboxParts DEF AskInv, StreamsFit, FrontShape
<1> HIDE DEF a, b
<1>5. streams' = b + deaf' + Tally(inbox', Dones)
  BY <1>2, <1>3, <1>4
<1>6. Dones' = Dones
  BY DEF Dones
<1> QED
  BY <1>5, <1>6 DEF StreamsFit, b

\* The owner answers a request.
LEMMA OwnerAnswered ==
  ASSUME FrontIInv, inbox # <<>>, inbox' = Tail(inbox), NEW w, NEW k \in Kinds,
         Head(inbox)[1] = w, Head(inbox)[2] = k, owner_http(w, k),
         UNCHANGED <<build, conn, backlog, due, park, gone, back, wk, says>>
  PROVE  FrontIInv'
<1> DEFINE ok == k \in Streaming => streams < MAX_STREAMS
           stream == k \in Streaming /\ ok
<1>1. FrontShape /\ AskInv /\ reply \in [Worker -> Replies] /\ streams \in 0..MAX_STREAMS /\ deaf \in Nat
  BY DEF FrontIInv, FrontShape
<1>2. "done" \notin Kinds /\ "poll" \notin Kinds /\ Streaming \subseteq Kinds /\ "plain" \in Kinds
      /\ "plain" \notin Streaming /\ Kinds \subseteq Replies /\ None \in Replies /\ None \notin Kinds
  BY DEF Kinds, Streaming, Replies, None
<1>3. /\ w # 0 => w \in Worker /\ wk[w].pc \in {"asked", "gaveup"}
      /\ Tally(inbox', Dones) = Tally(inbox, Dones) - (IF Head(inbox)[2] = "done" THEN 1 ELSE 0)
  BY <1>1, OwnerTakes
<1>4. Tally(inbox', Dones) = Tally(inbox, Dones) /\ Tally(inbox, Dones) \in Nat
  <2>1. Tally(inbox, Dones) \in Nat
    BY <1>1, InboxParts
  <2>2. Tally(inbox', Dones) = Tally(inbox, Dones) - 0
    BY <1>2, <1>3
  <2> QED
    BY <2>1, <2>2
<1>5. CASE w = 0
  <2>1. UNCHANGED <<reply, streams, deaf>>
    BY <1>5 DEF owner_http
  <2>2. \A v \in Worker : ~(Head(inbox)[1] = v /\ Head(inbox)[2] # "done")
    BY <1>5 DEF Worker
  <2>3. AskedOnce' /\ AdmittedOnes' = AdmittedOnes
    BY <1>1, <2>1, <2>2, OwnerHeedless
  <2>4. StreamsFit'
    <3>1. Dones' = Dones
      BY DEF Dones
    <3> QED
      BY <1>1, <1>4, <2>1, <2>3, <3>1 DEF AskInv, StreamsFit
  <2> QED
    BY <1>1, <2>1, <2>3, <2>4, OwnerStep
<1>6. CASE w # 0 /\ wk[w].pc = "asked"
  <2> DEFINE x == IF ok THEN k ELSE "plain"
             m == IF stream THEN 1 ELSE 0
  <2>1. /\ reply' = [reply EXCEPT ![w] = x] /\ deaf' = deaf
        /\ streams' = IF stream THEN streams + 1 ELSE streams
    BY <1>6 DEF owner_http, admits
  <2>2. streams' = streams + m + 0 /\ m \in {0, 1} /\ deaf' = deaf + 0 /\ (m = 1 <=> stream)
        /\ streams' \in 0..MAX_STREAMS
    BY <1>1, <2>1, FrontAssumption
  <2>3. x \in Kinds /\ (x \in Streaming <=> stream)
    BY <1>2
  <2>4. w \in Worker
    BY <1>3, <1>6
  <2> HIDE DEF x, m, stream
  <2>5. x \in Replies /\ Head(inbox)[2] # "done"
    BY <1>2, <2>3
  <2>6. AskedOnce' /\ reply[w] = None /\ reply'[w] = x /\ reply' \in [Worker -> Replies]
        /\ \A v \in Worker : v # w => reply'[v] = reply[v]
    BY <1>1, <1>6, <2>1, <2>3, <2>4, <2>5, OwnerAnswers
  <2>7. ~Admitted(w)
    BY <1>2, <1>6, <2>6 DEF Admitted
  <2>8. Admitted(w)' <=> m = 1
    BY <1>6, <2>2, <2>3, <2>6 DEF Admitted
  <2>9. StreamsFit'
    BY <1>1, <1>4, <2>2, <2>4, <2>6, <2>7, <2>8, StreamsAnswered
  <2> QED
    BY <1>1, <2>1, <2>2, <2>6, <2>9, OwnerStep
<1>7. CASE w # 0 /\ wk[w].pc = "gaveup"
  <2> DEFINE n == IF stream THEN 1 ELSE 0
  <2>1. /\ reply' = reply /\ deaf' = IF stream THEN deaf + 1 ELSE deaf
        /\ streams' = IF stream THEN streams + 1 ELSE streams
    BY <1>7 DEF owner_http, admits
  <2>2. streams' = streams + 0 + n /\ n \in {0, 1} /\ deaf' = deaf + n /\ deaf' \in Nat
        /\ streams' \in 0..MAX_STREAMS
    BY <1>1, <2>1, FrontAssumption
  <2>3. w \in Worker
    BY <1>3, <1>7
  <2> HIDE DEF n, stream
  <2>4. reply[w] = None
    <3>1. reply[w] # None => wk[w].pc = IF reply[w] \in Kinds THEN "asked" ELSE "polled"
      BY <1>1, <2>3 DEF AskInv, AskedOnce
    <3> QED
      BY <1>7, <3>1
  <2>5. reply' = [reply EXCEPT ![w] = None] /\ None \in Replies /\ Head(inbox)[2] # "done"
    BY <1>1, <1>2, <2>1, <2>4
  <2>6. AskedOnce'
    BY <1>1, <2>3, <2>5, OwnerAnswers
  <2>7. ~Admitted(w) /\ ~Admitted(w)'
    BY <1>7 DEF Admitted
  <2>8. StreamsFit'
    BY <1>1, <1>4, <2>1, <2>2, <2>3, <2>7, StreamsAnswered
  <2> QED
    BY <1>1, <2>1, <2>2, <2>6, <2>8, OwnerStep
<1> QED
  BY <1>3, <1>5, <1>6, <1>7

\* Every step of the owner.
LEMMA OwnerOK ==
  ASSUME FrontIInv, Owner
  PROVE  FrontIInv'
<1>1. /\ inbox # <<>> /\ inbox' = Tail(inbox)
      /\ UNCHANGED <<build, conn, backlog, due, park, gone, back, wk, says>>
  BY DEF Owner
<1>2. Head(inbox) \in Questions
  BY <1>1, OwnerTakes DEF FrontIInv
<1>3. Head(inbox)[2] \in Kinds \cup {"poll", "done"} /\ "poll" \notin Kinds /\ "done" \notin Kinds
  BY <1>2, QuestionParts
<1>4. CASE Head(inbox)[2] = "poll"
  <2>1. owner_poll(Head(inbox)[1])
    BY <1>4 DEF Owner
  <2> QED
    BY <1>1, <1>4, <2>1, OwnerPolled, OwnerPolledInVain
<1>5. CASE Head(inbox)[2] = "done"
  <2>1. stream_done
    BY <1>5 DEF Owner
  <2> QED
    BY <1>1, <1>5, <2>1, OwnerDone
<1>6. CASE Head(inbox)[2] \in Kinds
  <2>1. PICK w, k : w = Head(inbox)[1] /\ k = Head(inbox)[2]
    OBVIOUS
  <2>2. owner_http(w, k)
    BY <1>3, <1>6, <2>1 DEF Owner
  <2> QED
    BY <1>1, <1>6, <2>1, <2>2, OwnerAnswered
<1> QED
  BY <1>3, <1>4, <1>5, <1>6

-----------------------------------------------------------------------------
(* Front: the theorem *)

\* The invariant holds at the start.
LEMMA FrontStarts == FrontInit => FrontIInv
<1> SUFFICES ASSUME FrontInit PROVE FrontIInv
  OBVIOUS
<1> DEFINE c0 == [state |-> "new", said |-> 0, fin |-> FALSE, served |-> FALSE]
           w0 == [pc |-> "idle", conn |-> NoConn, close |-> FALSE]
<1>1. /\ build \in Builds /\ conn = [c \in Conn |-> c0]
      /\ backlog = <<>> /\ due = <<>> /\ back = <<>> /\ park = {} /\ gone = {}
      /\ wk = [w \in Worker |-> w0]
      /\ inbox = <<>> /\ reply = [w \in Worker |-> None]
      /\ streams = 0 /\ deaf = 0 /\ says = 0
  BY DEF FrontInit
<1>2. c0 \in Conns /\ c0.state = "new" /\ c0.said = 0 /\ ~c0.served
  BY DEF Conns
<1>3. w0 \in Workers /\ w0.pc = "idle" /\ w0.conn = NoConn
  BY DEF Workers, Steps
<1> HIDE DEF c0, w0
<1>4. /\ \A c \in Conn : conn[c] = c0
      /\ \A w \in Worker : wk[w] = w0 /\ reply[w] = None
  BY <1>1
<1>5. FrontShape
  <2>1. build \in {"HopOS", "host"} /\ streams \in 0..MAX_STREAMS /\ deaf \in Nat /\ says \in 0..MaxSays
    BY <1>1, FrontAssumption
  <2>2. conn \in [Conn -> Conns] /\ wk \in [Worker -> Workers]
    BY <1>1, <1>2, <1>3
  <2>3. reply \in [Worker -> Replies]
    BY <1>1 DEF Replies
  <2>4. backlog \in Seq(Conn) /\ due \in Seq(Conn) /\ back \in Seq(Conn) /\ inbox \in Seq(Questions)
    BY <1>1
  <2> QED
    BY <1>1, <2>1, <2>2, <2>3, <2>4 DEF FrontShape
<1>6. WorkersFit /\ SaidFits
  BY <1>1, <1>2, <1>3, <1>4 DEF WorkersFit, SaidFits
<1>7. ParkFits
  BY <1>1, FS_EmptySet, FrontAssumption DEF ParkFits
<1>8. ReturnsFit
  <2>1. BusyWorkers = {}
    BY <1>3, <1>4 DEF BusyWorkers, Busy
  <2>2. Cardinality(BusyWorkers) = 0 /\ Len(back) = 0
    BY <1>1, <2>1, FS_EmptySet
  <2> QED
    BY <2>2, FrontAssumption DEF ReturnsFit
<1>9. InPlace
  <2> SUFFICES ASSUME NEW c \in Conn PROVE PlacesOf(c) = IF conn[c].state = "open" THEN 1 ELSE 0
    BY DEF InPlace
  <2>1. Holders(c) = {}
    BY <1>3, <1>4, FrontFinite DEF Holders
  <2>2. Cardinality(Holders(c)) = 0 /\ Times(backlog, c) = 0 /\ Times(due, c) = 0 /\ Times(back, c) = 0
    BY <1>1, <2>1, FS_EmptySet, TimesNone
  <2>3. conn[c].state # "open"
    BY <1>2, <1>4
  <2> QED
    BY <1>1, <2>2, <2>3 DEF PlacesOf
<1>10. QuietWaits
  BY <1>1, <1>3, <1>4 DEF QuietWaits, ToSet
<1>11. QuestionsFit
  BY <1>1 DEF QuestionsFit
<1>12. \A T : Tally(inbox, T) = 0
  BY <1>1, TallyNone
<1>13. AskedOnce
  <2>1. \A w \in Worker : Tally(inbox, Of(w)) = 0
    BY <1>12
  <2> QED
    BY <1>4, <2>1 DEF AskedOnce
<1>14. StreamsFit
  <2>1. AdmittedOnes = {}
    BY <1>3, <1>4 DEF AdmittedOnes, Admitted
  <2>2. Cardinality(AdmittedOnes) = 0 /\ Tally(inbox, Dones) = 0
    BY <1>12, <2>1, FS_EmptySet
  <2> QED
    BY <1>1, <2>2 DEF StreamsFit
<1> QED
  BY <1>5, <1>6, <1>7, <1>8, <1>9, <1>10, <1>11, <1>13, <1>14 DEF FrontIInv, PlacesInv, AskInv

\* Steps of a worker that ask nothing and wait for nothing.
LEMMA WorkerAside ==
  ASSUME FrontIInv, NEW w \in Worker, NEW r, wk' = [wk EXCEPT ![w] = r],
         wk[w].pc \notin Waiting, r.pc \notin Waiting, UNCHANGED <<inbox, reply, streams, deaf>>
  PROVE  AskInv'
<1>1. FrontShape /\ AskInv /\ wk \in [Worker -> Workers]
  BY DEF FrontIInv, FrontShape
<1>2. \A v \in Worker : wk'[v] = IF v = w THEN r ELSE wk[v]
  BY <1>1
<1>3. \A v \in Worker : wk'[v].pc = wk[v].pc \/ (wk'[v].pc \notin Waiting /\ wk[v].pc \notin Waiting)
  BY <1>2
<1> QED
  BY <1>1, <1>3, AsksKept

\* The acceptor and the clients leave the owner alone.
LEMMA NodeAside ==
  ASSUME FrontIInv, UNCHANGED <<wk, inbox, reply, streams, deaf>>
  PROVE  AskInv'
  BY AsksKept DEF FrontIInv

\* Every step keeps the invariant.
LEMMA FrontSteps == FrontIInv /\ [FrontNext]_frontVars => FrontIInv'
<1> SUFFICES ASSUME FrontIInv, [FrontNext]_frontVars PROVE FrontIInv'
  OBVIOUS
<1>1. FrontShape /\ PlacesInv /\ AskInv
  BY DEF FrontIInv
<1>2. ASSUME NEW c \in Conn, Dial(c) \/ HangUp(c) \/ Say(c) PROVE FrontIInv'
  <2>1. FrontShape' /\ PlacesInv'
    BY <1>1, <1>2, DialPlaces, SayPlaces
  <2>2. UNCHANGED <<wk, inbox, reply, streams, deaf>>
    BY <1>2 DEF Dial, HangUp, Say
  <2> QED
    BY <2>1, <2>2, NodeAside DEF FrontIInv
<1>3. ASSUME NEW quiet \in SUBSET park, accept_round(quiet) PROVE FrontIInv'
  <2>1. FrontShape' /\ PlacesInv'
    BY <1>1, <1>3, RoundPlaces
  <2>2. UNCHANGED <<wk, inbox, reply, streams, deaf>>
    BY <1>3 DEF accept_round
  <2> QED
    BY <2>1, <2>2, NodeAside DEF FrontIInv
<1>4. CASE place
  <2>1. FrontShape' /\ PlacesInv'
    BY <1>1, <1>4, PlacePlaces
  <2>2. UNCHANGED <<inbox, reply, streams, deaf>> /\ due # <<>>
    BY <1>4 DEF place
  <2>3. CASE none_free
    <3>1. UNCHANGED wk
      BY <1>4, <2>3 DEF place
    <3> QED
      BY <2>1, <2>2, <3>1, NodeAside DEF FrontIInv
  <2>4. CASE ~none_free
    <3>1. give(Head(due)) /\ build = "HopOS" /\ Head(due) \in Conn
      BY <1>1, <1>4, <2>2, <2>4, Tailed DEF place, PlacesInv, WorkersFit, FrontShape
    <3>2. PICK w \in Worker : /\ wk[w].pc = "idle"
                              /\ wk' = [wk EXCEPT ![w] = [pc |-> "read", conn |-> Head(due), close |-> FALSE]]
      BY <1>1, <2>4, <3>1, FreeWorker
    <3> DEFINE r == [pc |-> "read", conn |-> Head(due), close |-> FALSE]
    <3>3. r.pc \notin Waiting /\ wk[w].pc \notin Waiting
      BY <3>2 DEF Waiting
    <3> HIDE DEF r
    <3>4. wk' = [wk EXCEPT ![w] = r]
      BY <3>2 DEF r
    <3> QED
      BY <2>1, <2>2, <3>3, <3>4, WorkerAside DEF FrontIInv
  <2> QED
    BY <2>3, <2>4
<1>5. ASSUME NEW w \in Worker, worker_accept(w) \/ counted(w) \/ read_fails(w) \/ written(w)
      PROVE  FrontIInv'
  <2>1. FrontShape' /\ PlacesInv'
    BY <1>1, <1>5, AcceptPlaces, CountedPlaces, ReadFailsPlaces, WrittenPlaces
  <2>2. UNCHANGED <<inbox, reply, streams, deaf>> /\ wk[w].pc \in {"idle", "accepted", "read", "write"}
    BY <1>5 DEF worker_accept, counted, read_fails, written
  <2>3. \E r : wk' = [wk EXCEPT ![w] = r] /\ r.pc \in {"accepted", "read", "idle"}
    <3>5. Idle.pc = "idle"
      BY DEF Idle
    <3>1. CASE worker_accept(w)
      <4> DEFINE r == [pc |-> "accepted", conn |-> Head(backlog), close |-> FALSE]
      <4>1. wk' = [wk EXCEPT ![w] = r] /\ r.pc = "accepted"
        BY <3>1 DEF worker_accept
      <4> HIDE DEF r
      <4> QED
        BY <4>1
    <3>2. CASE counted(w)
      <4> DEFINE r == [wk[w] EXCEPT !.pc = "read"]
      <4>1. wk' = [wk EXCEPT ![w] = r]
        BY <3>2 DEF counted, To
      <4>2. r.pc = "read"
        BY <1>1 DEF FrontShape, Workers
      <4> QED
        BY <4>1, <4>2
    <3>3. CASE read_fails(w)
      BY <3>3, <3>5 DEF read_fails
    <3>4. CASE written(w)
      <4>1. CASE wk' = [wk EXCEPT ![w] = Idle]
        BY <3>5, <4>1
      <4>2. CASE wk' = [wk EXCEPT ![w].pc = "read", ![w].close = FALSE]
        <5> DEFINE r == [wk[w] EXCEPT !.pc = "read", !.close = FALSE]
        <5>1. wk' = [wk EXCEPT ![w] = r]
          BY <4>2
        <5>2. r.pc = "read"
          BY <1>1 DEF FrontShape, Workers
        <5> QED
          BY <5>1, <5>2
      <4> QED
        BY <3>4, <4>1, <4>2 DEF written
    <3> QED
      BY <1>5, <3>1, <3>2, <3>3, <3>4
  <2>4. PICK r : wk' = [wk EXCEPT ![w] = r] /\ r.pc \in {"accepted", "read", "idle"}
    BY <2>3
  <2>5. wk[w].pc \notin Waiting /\ r.pc \notin Waiting
    BY <2>2, <2>4 DEF Waiting
  <2> QED
    BY <2>1, <2>2, <2>4, <2>5, WorkerAside DEF FrontIInv
<1>6. ASSUME NEW w \in Worker, NEW k \in Kinds, read_request(w, k) PROVE FrontIInv'
  BY <1>1, <1>6, ReadPlaces, ReadAsks DEF FrontIInv
<1>7. ASSUME NEW w \in Worker, forwarded(w) PROVE FrontIInv'
  <2> DEFINE r == [wk[w] EXCEPT !.pc = "write"]
  <2>1. /\ wk[w].pc = "forward" /\ wk' = [wk EXCEPT ![w] = r]
        /\ UNCHANGED <<build, conn, backlog, due, park, gone, back, inbox, reply, streams, deaf, says>>
    BY <1>7 DEF forwarded, To
  <2>2. wk[w] \in Workers /\ inbox \in Seq(Questions) /\ reply \in [Worker -> Replies]
    BY <1>1 DEF FrontShape
  <2>3. r \in Workers /\ r.conn = wk[w].conn /\ r.pc = "write"
    BY <2>2 DEF Workers, Steps
  <2> HIDE DEF r
  <2>4. FrontShape' /\ PlacesInv'
    BY <1>1, <2>1, <2>2, <2>3, Onward
  <2>5. wk[w].pc \notin Waiting /\ r.pc \notin Waiting
    BY <2>1, <2>3 DEF Waiting
  <2> QED
    BY <2>1, <2>4, <2>5, WorkerAside DEF FrontIInv
<1>8. CASE UNCHANGED frontVars
  <2>1. FrontShape' /\ PlacesInv'
    BY <1>1, <1>8, PlacesUnchanged DEF frontVars, FrontShape
  <2> QED
    BY <1>8, <2>1, NodeAside DEF frontVars, FrontIInv
<1>9. ASSUME NEW w \in Worker, WorkerStep(w) \/ relayed(w) \/ gives_up(w) \/ poll_fails(w) PROVE FrontIInv'
  BY <1>5, <1>6, <1>7, <1>9, AnsweredOK, PollOK, ChunkOK, DropsOK, RelayedOK, GivesUpOK, PollFailsOK DEF WorkerStep
<1> QED
  BY <1>2, <1>3, <1>4, <1>8, <1>9, OwnerOK DEF FrontNext, Client

\* The invariant says what FrontInv says.
LEMMA FrontInvFollows == FrontIInv => FrontInv
<1> SUFFICES ASSUME FrontIInv PROVE FrontInv
  OBVIOUS
<1>1. FrontShape /\ PlacesInv /\ AskInv
  BY DEF FrontIInv
<1>2. FrontTypeOK
  <2>1. conn \in [Conn -> [state : {"new", "open", "closed"}, said : 0..MaxSays, fin : BOOLEAN,
                           served : BOOLEAN]]
    <3>1. ASSUME NEW c \in Conn
          PROVE  conn[c] \in [state : {"new", "open", "closed"}, said : 0..MaxSays, fin : BOOLEAN, served : BOOLEAN]
      <4>1. conn[c] \in Conns /\ says \in 0..MaxSays /\ conn[c].said <= says
        BY <1>1 DEF FrontShape, PlacesInv, SaidFits
      <4>2. conn[c].said \in 0..MaxSays
        BY <4>1, FrontAssumption DEF Conns
      <4> QED
        BY <4>1, <4>2 DEF Conns
    <3> QED
      BY <1>1, <3>1 DEF FrontShape
  <2>2. \A s \in {backlog, due, back} : ToSet(s) \subseteq Conn
    BY <1>1, Elements DEF FrontShape
  <2>3. wk \in [Worker -> [pc : {"idle", "accepted", "read", "asked", "gaveup", "forward", "stream",
                                 "polled", "over", "relay", "write"},
                           conn : Conn \cup {NoConn}, close : BOOLEAN]]
    BY <1>1 DEF FrontShape, Workers, Steps
  <2>4. \A i \in DOMAIN inbox : inbox[i] \in (0..WORKERS) \X (Kinds \cup {"poll", "done"})
    BY <1>1, InboxParts DEF Questions
  <2>5. reply \in [Worker -> Kinds \cup {None, "more", "end"}] /\ streams \in 0..MAX_STREAMS /\ deaf \in Nat
    BY <1>1 DEF FrontShape, Replies
  <2>6. park \subseteq Conn /\ Cardinality(park) <= PARK_CAP /\ gone \subseteq Conn
    BY <1>1 DEF FrontShape, PlacesInv, ParkFits
  <2> QED
    BY <2>1, <2>2, <2>3, <2>4, <2>5, <2>6 DEF FrontTypeOK
<1>3. NoneLost
  <2>1. \A c \in Conn : Places(c) = PlacesOf(c)
    BY DEF Places, PlacesOf, Holders, Times
  <2> QED
    BY <1>1, <2>1 DEF NoneLost, PlacesInv, InPlace
<1>4. \A i \in DOMAIN inbox : inbox[i] \in Questions
  BY <1>1, InboxParts
<1>5. StreamsCounted
  <2>1. {i \in DOMAIN inbox : inbox[i][2] = "done"} = {i \in DOMAIN inbox : inbox[i] \in Dones}
    BY <1>4, QuestionParts
  <2>2. streams = Cardinality(AdmittedOnes) + deaf + Cardinality({i \in DOMAIN inbox : inbox[i] \in Dones})
    BY <1>1 DEF AskInv, StreamsFit, Tally
  <2> QED
    BY <2>1, <2>2 DEF StreamsCounted, AdmittedOnes
<1>6. QuietHoldsNoWorker
  BY <1>1 DEF QuietHoldsNoWorker, PlacesInv, QuietWaits
<1>7. AnswersFit
  <2> SUFFICES ASSUME NEW w \in Worker
               PROVE  /\ Asked(w) <= IF wk[w].pc \in {"asked", "polled", "gaveup"} THEN 1 ELSE 0
                      /\ reply[w] # None => wk[w].pc = IF reply[w] \in Kinds THEN "asked" ELSE "polled"
    BY DEF AnswersFit
  <2>1. {i \in DOMAIN inbox : inbox[i][1] = w /\ inbox[i][2] # "done"} = {i \in DOMAIN inbox : inbox[i] \in Of(w)}
    BY <1>4, QuestionParts
  <2>2. Asked(w) = Tally(inbox, Of(w)) + (IF reply[w] = None THEN 0 ELSE 1)
    BY <2>1 DEF Asked, Tally
  <2> QED
    BY <1>1, <2>2 DEF AskInv, AskedOnce
<1>8. BackHasRoom
  <2> SUFFICES ASSUME NEW w \in Worker, build = "HopOS", wk[w].pc = "write" PROVE Len(back) < WORKERS
    BY DEF BackHasRoom
  <2>1. w \in BusyWorkers /\ BusyWorkers \in SUBSET Worker
    BY DEF BusyWorkers, Busy
  <2>2. Cardinality(BusyWorkers) \in Nat /\ IsFiniteSet(BusyWorkers)
    BY <2>1, FrontFinite
  <2>3. Cardinality(BusyWorkers) # 0
    BY <2>1, <2>2, FS_EmptySet
  <2>4. Len(back) \in Nat /\ Len(back) + Cardinality(BusyWorkers) <= WORKERS
    BY <1>1, Sequence DEF FrontShape, PlacesInv, ReturnsFit
  <2> QED
    BY <2>2, <2>3, <2>4, FrontAssumption
<1> QED
  BY <1>2, <1>3, <1>5, <1>6, <1>7, <1>8 DEF FrontInv

(* What FrontInv says holds of every port, whatever the number of          *)
(* connections, workers, streams and places in the park: no connection is  *)
(* lost or held twice between the acceptor, the park and the workers, the  *)
(* owner's count of streams is what runs and what was sent to a worker     *)
(* that no longer listened, an answer is the answer to the last question,  *)
(* a quiet connection holds no worker, and the mailbox back is never full  *)
(* (Park, Handoff, Hub and work of agentd-hopos, on_msg of agentd).        *)
THEOREM FrontSafe == FrontSpec => []FrontInv
<1>1. FrontIInv => FrontInv
  BY FrontInvFollows
<1>2. FrontIInv /\ [FrontNext]_frontVars => FrontIInv'
  BY FrontSteps
<1> QED
  BY <1>1, <1>2, FrontStarts, PTL DEF FrontSpec
-----------------------------------------------------------------------------
(* HostRunner: the inductive invariant *)

\* What was not launched yet has neither processes nor a container.
NothingBeforeLaunch ==
  \A t \in HostIds :
    own[t] \in {"new", "worker", "message"} =>
      grp[t].lead = "none" /\ ~grp[t].kids /\ box[t] = "none"

\* A group that was proved gone has nobody left: the proof cannot be overtaken by
\* an exit, a reap or a reuse of its number.
GoneIsGone ==
  \A t \in Execs : rec[t].group_gone => grp[t].lead \notin {"alive", "zombie"} /\ ~grp[t].kids

\* A process is finished only by that proof.
FinishedIsGone ==
  \A t \in Execs : rec[t].stop = "gone" => rec[t].group_gone

\* A directory waits in the quarantine without anybody living in it.
QuarantineIsEmpty ==
  \A t \in Execs : own[t] = "quarantine" => ~Alive(t)

\* The outcome of a stop is about a container that was launched.
StopsFollowLaunch ==
  \A t \in HostIds : <<"stopping", t>> \in mail \/ <<"stopped", t>> \in mail =>
    own[t] \notin {"new", "worker", "message"}

\* A container that counts as stopped is gone, or the call for it failed.
StoppedIsGone ==
  \A t \in Boxes :
    (<<"stopped", t>> \in mail \/ rec[t].docker_done \/ rec[t].stop = "gone") =>
      box[t] = "none" \/ <<"docker", t>> \in lostTrack

HostLinks ==
  /\ NothingBeforeLaunch /\ GoneIsGone /\ FinishedIsGone
  /\ QuarantineIsEmpty /\ StopsFollowLaunch /\ StoppedIsGone

HostIInv == HostTypeOK /\ BoxKnownOrFailed /\ HostLinks

-----------------------------------------------------------------------------
(* Signals *)

HostRec == [reaped: BOOLEAN, group_gone: BOOLEAN, open: BOOLEAN,
            stop: {"no", "term", "killed", "gone"}, docker_done: BOOLEAN]
HostGrp == [lead: {"none", "alive", "zombie", "reaped"}, kids: BOOLEAN,
            killed: {"no", "lead", "all"}, stranger: BOOLEAN]
Handled == [g: HostGrp, r: HostRec, struck: BOOLEAN]

\* A record that says its group is gone is right.
Truthful(g, r) == r.group_gone => g.lead \notin {"alive", "zombie"} /\ ~g.kids

\* What handling a group leaves as it was: who lives, the logs, the proof once made.
SameLives(g, h) == (h.lead = "alive" <=> g.lead = "alive") /\ (h.kids <=> g.kids)

\* What any handling of a group and its record promises.
Kept(g, r, x) ==
  /\ x \in Handled /\ Truthful(x.g, x.r) /\ SameLives(g, x.g)
  /\ r.group_gone => x.r.group_gone /\ ~x.struck
  /\ x.r.docker_done = r.docker_done

\* Collecting an exit keeps what is known of the group.
LEMMA Reaped ==
  ASSUME NEW g \in HostGrp, NEW r \in HostRec, Truthful(g, r)
  PROVE  /\ Kept(g, r, Reap(g, r))
         /\ Reap(g, r).r.stop = r.stop
<1>1. Reap(g, r).g \in HostGrp /\ SameLives(g, Reap(g, r).g)
  BY DEF Reap, HostGrp, SameLives
<1>2. /\ Reap(g, r).r \in HostRec /\ Reap(g, r).r.stop = r.stop
      /\ Reap(g, r).r.group_gone = r.group_gone /\ Reap(g, r).r.docker_done = r.docker_done
  BY DEF Reap, HostRec, HostGrp
<1>3. Reap(g, r).struck = FALSE /\ Reap(g, r) \in Handled
  BY <1>1, <1>2 DEF Reap, Handled
<1>4. Truthful(Reap(g, r).g, Reap(g, r).r)
  BY <1>2 DEF Truthful, Reap, HostGrp
<1> QED
  BY <1>1, <1>2, <1>3, <1>4 DEF Kept

\* A signal keeps it, and a group proved gone gets none.
LEMMA Signalled ==
  ASSUME NEW x \in Handled, Truthful(x.g, x.r), NEW sig, NEW fail \in BOOLEAN,
         x.r.group_gone => ~x.struck
  PROVE  /\ Kept(x.g, x.r, Signal(x, sig, fail))
         /\ Signal(x, sig, fail).r.stop = x.r.stop
         /\ Signal(x, sig, fail).r.reaped = x.r.reaped
         /\ sig = "0" => Signal(x, sig, fail).struck = x.struck
<1> DEFINE ours == x.g.lead \in {"alive", "zombie"} \/ x.g.kids
<1>1. CASE x.r.group_gone \/ fail
  <2>1. Signal(x, sig, fail) = x
    BY <1>1 DEF Signal, SignalGroup
  <2> QED
    BY <2>1 DEF Kept, SameLives
<1>2. CASE ~x.r.group_gone /\ ~fail /\ ~ours /\ ~x.g.stranger
  <2>1. Signal(x, sig, fail) = [x EXCEPT !.r.group_gone = TRUE]
    BY <1>2 DEF Signal, SignalGroup
  <2>2. Signal(x, sig, fail) \in Handled
    BY ZenonT(30), <2>1 DEF Handled, HostRec
  <2> QED
    BY <1>2, <2>1, <2>2 DEF Handled, HostRec, HostGrp, Kept, SameLives, Truthful
<1>3. CASE ~x.r.group_gone /\ ~fail /\ ours
  <2>1. Signal(x, sig, fail) = [x EXCEPT !.g.killed = IF sig = "KILL" THEN "all" ELSE @]
    BY <1>3 DEF Signal, SignalGroup
  <2>2. Signal(x, sig, fail) \in Handled
    BY <2>1 DEF Handled, HostGrp
  <2> QED
    BY <1>3, <2>1, <2>2 DEF Handled, HostRec, HostGrp, Kept, SameLives, Truthful
<1>4. CASE ~x.r.group_gone /\ ~fail /\ ~ours /\ x.g.stranger
  <2>1. Signal(x, sig, fail) = [x EXCEPT !.struck = @ \/ sig # "0", !.g.stranger = sig # "KILL"]
    BY <1>4 DEF Signal, SignalGroup
  <2>2. (x.struck \/ sig # "0") \in BOOLEAN /\ (sig # "KILL") \in BOOLEAN
    OBVIOUS
  <2>3. [x.g EXCEPT !.stranger = sig # "KILL"] \in HostGrp
    BY <2>2 DEF Handled, HostGrp
  <2>4. Signal(x, sig, fail) = [[x EXCEPT !.g = [x.g EXCEPT !.stranger = sig # "KILL"]]
                                  EXCEPT !.struck = x.struck \/ sig # "0"]
    BY <2>1 DEF Handled
  <2>5. Signal(x, sig, fail) \in Handled
    BY <2>2, <2>3, <2>4 DEF Handled
  <2> QED
    BY <1>4, <2>1, <2>5 DEF Handled, HostRec, HostGrp, Kept, SameLives, Truthful
<1> QED
  BY <1>1, <1>2, <1>3, <1>4

\* A probe of a collected leader's group.
LEMMA Probed ==
  ASSUME NEW x \in Handled, Truthful(x.g, x.r), ~x.struck
  PROVE  LET y == IF x.r.reaped THEN Signal(x, "0", FALSE) ELSE x
         IN  Kept(x.g, x.r, y) /\ y.r.stop = x.r.stop /\ ~y.struck
<1>1. CASE x.r.reaped
  BY <1>1, Signalled
<1>2. CASE ~x.r.reaped
  BY <1>2 DEF Kept, SameLives
<1> QED
  BY <1>1, <1>2

\* What a finish rests on: the record of a stop that is over has the proof.
Proved(r) == r.stop = "gone" => r.group_gone

\* The escalation of a stop ends on the proof alone.
LEMMA Escalated ==
  ASSUME NEW x \in Handled, Truthful(x.g, x.r), Proved(x.r), ~x.struck,
         NEW late \in BOOLEAN, NEW fail \in BOOLEAN
  PROVE  /\ Kept(x.g, x.r, Escalate(x, late, fail))
         /\ Proved(Escalate(x, late, fail).r)
<1> DEFINE y == IF x.r.reaped THEN Signal(x, "0", FALSE) ELSE x
           k == Signal(y, "KILL", fail)
           z == [k EXCEPT !.r.stop = "killed",
                          !.g.killed = IF @ = "no" /\ ~y.r.reaped THEN "lead" ELSE @]
<1>1. Kept(x.g, x.r, y) /\ y.r.stop = x.r.stop /\ ~y.struck
  BY Probed
<1>2. Kept(y.g, y.r, k)
  <2>1. y \in Handled /\ Truthful(y.g, y.r) /\ ~y.struck
    BY <1>1 DEF Kept
  <2> HIDE DEF y
  <2> QED
    BY <2>1, Signalled
<1>3. Kept(x.g, x.r, k)
  BY <1>1, <1>2 DEF Kept, SameLives
<1>4. /\ Escalate(x, late, fail) = IF y.r.reaped /\ y.r.group_gone THEN [y EXCEPT !.r.stop = "gone"]
                                   ELSE IF late /\ y.r.stop = "term" THEN z ELSE y
  BY DEF Escalate
<1>5. CASE y.r.reaped /\ y.r.group_gone
  <2> HIDE DEF y
  <2>1. Escalate(x, late, fail) = [y EXCEPT !.r.stop = "gone"]
    BY <1>4, <1>5
  <2>2. y \in Handled
    BY <1>1 DEF Kept
  <2>3. [y EXCEPT !.r.stop = "gone"] \in Handled
    BY <2>2 DEF Handled, HostRec
  <2> QED
    BY <1>1, <1>5, <2>1, <2>2, <2>3 DEF Kept, Proved, Truthful, Handled, HostRec
<1>6. CASE ~(y.r.reaped /\ y.r.group_gone) /\ late /\ y.r.stop = "term"
  <2> HIDE DEF y, k
  <2>1. Escalate(x, late, fail) = z
    BY <1>4, <1>6
  <2>2. k \in Handled
    BY <1>3 DEF Kept
  <2>3. z \in Handled
    BY <2>2 DEF Handled, HostRec, HostGrp
  <2>4. /\ z.r.stop = "killed" /\ z.r.group_gone = k.r.group_gone /\ z.r.docker_done = k.r.docker_done
        /\ z.g.lead = k.g.lead /\ z.g.kids = k.g.kids /\ z.struck = k.struck
    BY <2>2 DEF Handled, HostRec, HostGrp
  <2> HIDE DEF z
  <2> QED
    BY <1>3, <2>1, <2>3, <2>4 DEF Kept, Proved, Truthful, SameLives
<1>7. CASE ~(y.r.reaped /\ y.r.group_gone) /\ ~(late /\ y.r.stop = "term")
  <2>1. Proved(y.r)
    BY <1>1 DEF Kept, Proved
  <2> HIDE DEF y
  <2> QED
    BY <1>1, <1>4, <1>7, <2>1
<1> QED
  BY <1>5, <1>6, <1>7

\* HostRunner::stop of a process keeps what is known of its group.
LEMMA StopKeeps ==
  ASSUME NEW t, grp[t] \in HostGrp, rec[t] \in HostRec, Truthful(grp[t], rec[t]), NEW fail \in BOOLEAN
  PROVE  /\ Kept(grp[t], rec[t], Stopped(t, fail))
         /\ Stopped(t, fail).r.stop = "term"
<1> DEFINE x == Reap(grp[t], rec[t])
           y == Signal(x, "TERM", fail)
<1>1. Kept(grp[t], rec[t], x) /\ ~x.struck
  <2>1. x.struck = FALSE
    BY DEF Reap
  <2> QED
    BY <2>1, Reaped
<1>2. Kept(x.g, x.r, y)
  BY <1>1, Signalled DEF Kept
<1>3. Stopped(t, fail) = [y EXCEPT !.r.stop = "term"]
  BY DEF Stopped
<1>4. Kept(grp[t], rec[t], y)
  BY <1>1, <1>2 DEF Kept, SameLives
<1> HIDE DEF x, y
<1>5. y \in Handled /\ [y EXCEPT !.r.stop = "term"] \in Handled
  BY <1>4 DEF Kept, Handled, HostRec
<1>6. /\ [y EXCEPT !.r.stop = "term"].r.stop = "term"
      /\ [y EXCEPT !.r.stop = "term"].r.group_gone = y.r.group_gone
      /\ [y EXCEPT !.r.stop = "term"].r.docker_done = y.r.docker_done
      /\ [y EXCEPT !.r.stop = "term"].g = y.g
      /\ [y EXCEPT !.r.stop = "term"].struck = y.struck
  BY <1>5 DEF Handled, HostRec
<1> QED
  BY <1>3, <1>4, <1>5, <1>6 DEF Kept, Truthful

\* A tick keeps what is known of a group and lets a stop end only on its proof.
LEMMA TickKeeps ==
  ASSUME NEW t, grp[t] \in HostGrp, rec[t] \in HostRec, NEW late \in BOOLEAN, NEW fail \in BOOLEAN
  PROVE  /\ t \in Execs /\ Truthful(grp[t], rec[t]) /\ Proved(rec[t]) =>
              /\ Ticked(t, late, fail) \in Handled
              /\ Truthful(Ticked(t, late, fail).g, Ticked(t, late, fail).r)
              /\ SameLives(grp[t], Ticked(t, late, fail).g)
              /\ Proved(Ticked(t, late, fail).r)
              /\ rec[t].group_gone => ~Ticked(t, late, fail).struck
         /\ t \notin Execs =>
              /\ Ticked(t, late, fail) \in Handled
              /\ Ticked(t, late, fail).g = grp[t]
              /\ Ticked(t, late, fail).struck = FALSE
              /\ Ticked(t, late, fail).r.group_gone = rec[t].group_gone
              /\ \/ Ticked(t, late, fail).r.stop = "gone"
                 \/ Ticked(t, late, fail).r.docker_done
                 => rec[t].docker_done \/ rec[t].stop = "gone" \/ <<"stopped", t>> \in mail
<1> DEFINE drained == [rec[t] EXCEPT !.open = @ /\ <<"eof", t>> \notin mail,
                                     !.docker_done = @ \/ (<<"stopped", t>> \in mail /\ rec[t].stop # "no")]
           x == Reap(grp[t], drained)
           b == [g |-> grp[t], r |-> drained, struck |-> FALSE]
<1>1. /\ drained \in HostRec /\ drained.stop = rec[t].stop /\ drained.group_gone = rec[t].group_gone
      /\ drained.docker_done => rec[t].docker_done \/ <<"stopped", t>> \in mail
  BY DEF HostRec
<1>2. ASSUME t \in Execs, Truthful(grp[t], rec[t]), Proved(rec[t])
      PROVE  /\ Kept(grp[t], drained, Ticked(t, late, fail))
             /\ Proved(Ticked(t, late, fail).r)
  <2>1. Ticked(t, late, fail) = IF x.r.stop \in {"no", "gone"} THEN x ELSE Escalate(x, late, fail)
    BY <1>2 DEF Ticked
  <2> HIDE DEF drained
  <2>2. Truthful(grp[t], drained) /\ Proved(drained)
    BY <1>1, <1>2 DEF Truthful, Proved
  <2>3. Kept(grp[t], drained, x) /\ x.r.stop = drained.stop /\ ~x.struck
    <3>1. x.struck = FALSE
      BY DEF Reap
    <3> QED
      BY <1>1, <2>2, <3>1, Reaped
  <2>4. Proved(x.r)
    BY <2>2, <2>3 DEF Proved, Kept
  <2> HIDE DEF x
  <2>5. Kept(x.g, x.r, Escalate(x, late, fail)) /\ Proved(Escalate(x, late, fail).r)
    BY <2>3, <2>4, Escalated DEF Kept
  <2>6. Kept(grp[t], drained, Escalate(x, late, fail))
    BY <2>3, <2>5 DEF Kept, SameLives
  <2> QED
    BY <2>1, <2>3, <2>4, <2>5, <2>6
<1>3. ASSUME t \notin Execs
      PROVE  /\ Ticked(t, late, fail) \in Handled
             /\ Ticked(t, late, fail).g = grp[t]
             /\ Ticked(t, late, fail).struck = FALSE
             /\ Ticked(t, late, fail).r.group_gone = rec[t].group_gone
             /\ Ticked(t, late, fail).r.docker_done = drained.docker_done
             /\ Ticked(t, late, fail).r.stop = "gone" => rec[t].stop = "gone" \/ drained.docker_done
  <2>1. Ticked(t, late, fail) = IF b.r.stop \in {"no", "gone"} THEN b
                                ELSE IF b.r.docker_done THEN [b EXCEPT !.r.stop = "gone"] ELSE b
    BY <1>3 DEF Ticked
  <2> HIDE DEF drained
  <2>2. b \in Handled /\ [b EXCEPT !.r.stop = "gone"] \in Handled
    BY <1>1 DEF Handled, HostRec
  <2> QED
    BY <1>1, <2>1, <2>2 DEF Handled, HostRec
<1> HIDE DEF drained
<1> QED
  BY <1>1, <1>2, <1>3 DEF Kept

-----------------------------------------------------------------------------
(* Every step *)

\* What every step owes: the invariant, and nothing done to the living or to strangers.
HostStep == HostIInv' /\ NotFromUnderTheLiving /\ ProvedGoneIsLeftAlone

\* The budget of failures is respected.
LEMMA FailType ==
  ASSUME NEW S, IsFiniteSet(S), faults \in 0..MaxFaults, Fail(S)
  PROVE  faults' \in 0..MaxFaults
<1>1. Cardinality(S) \in Nat
  BY FS_CardinalityType
<1> QED
  BY <1>1, HostAssumption DEF Fail

\* At most one call of a step fails.
LEMMA OneFailType ==
  ASSUME NEW t, NEW fail \in BOOLEAN, faults \in 0..MaxFaults, Fail(IF fail THEN {t} ELSE {})
  PROVE  faults' \in 0..MaxFaults
<1>1. IsFiniteSet(IF fail THEN {t} ELSE {})
  BY FS_EmptySet, FS_Singleton
<1> QED
  BY <1>1, FailType

\* A new task has a clean record.
LEMMA FreshRecord ==
  ASSUME NEW open \in BOOLEAN
  PROVE  LET n == [NoRec EXCEPT !.open = open]
         IN  /\ n \in HostRec /\ ~n.group_gone /\ n.stop = "no" /\ ~n.docker_done
             /\ ~open => n = NoRec
<1>1. CASE open = TRUE
  BY <1>1 DEF NoRec, HostRec
<1>2. CASE open = FALSE
  <2>1. ASSUME NEW r \in HostRec PROVE [r EXCEPT !.open = r.open] = r
    BY DEF HostRec
  <2>2. NoRec \in HostRec /\ NoRec.open = FALSE
    BY DEF NoRec, HostRec
  <2>3. [NoRec EXCEPT !.open = open] = NoRec
    BY <1>2, <2>1, <2>2
  <2> QED
    BY <2>2, <2>3 DEF NoRec
<1> QED
  BY <1>1, <1>2

\* What the kernel does to a group.
LEMMA LeaderEnds ==
  ASSUME NEW g \in HostGrp, NEW lead \in {"zombie", "reaped"}, NEW kids \in BOOLEAN
  PROVE  LET d == [g EXCEPT !.lead = lead, !.kids = kids]
         IN  d \in HostGrp /\ d.lead \in {"zombie", "reaped"}
  BY DEF HostGrp

\* The rest of a group ends.
LEMMA KidsEnd ==
  ASSUME NEW g \in HostGrp
  PROVE  LET d == [g EXCEPT !.kids = FALSE]
         IN  d \in HostGrp /\ d.lead = g.lead /\ d.kids = FALSE
  BY DEF HostGrp

\* A stranger takes a free number, or leaves it.
LEMMA StrangerMoves ==
  ASSUME NEW g \in HostGrp
  PROVE  LET d == [g EXCEPT !.stranger = ~@]
         IN  d \in HostGrp /\ d.lead = g.lead /\ d.kids = g.kids
<1>1. (~g.stranger) \in BOOLEAN
  OBVIOUS
<1> QED
  BY <1>1 DEF HostGrp

\* The first life starts in the invariant.
LEMMA StartHolds == HostStart => HostIInv
  BY HostAssumption DEF HostStart, HostIInv, HostTypeOK, HostLinks, BoxKnownOrFailed, NothingBeforeLaunch,
     GoneIsGone, FinishedIsGone, QuarantineIsEmpty, StopsFollowLaunch, StoppedIsGone, Alive, NoRec, NoGrp,
     HostIds

\* The steps before a launch.
LEMMA PreparationSteps ==
  ASSUME HostIInv, NEW t \in HostIds, NEW ok \in BOOLEAN, NEW fail \in BOOLEAN
  PROVE  /\ HostSubmit(t) => HostStep
         /\ \A kind \in {"bare", "mounted"} : MakeDir(t, kind) => HostStep
         /\ HostPrepare(t, ok, fail) => HostStep
         /\ Discard(t, fail) => HostStep
<1> USE DEF HostIInv, HostTypeOK, HostLinks, BoxKnownOrFailed, NothingBeforeLaunch, GoneIsGone, FinishedIsGone,
            QuarantineIsEmpty, StopsFollowLaunch, StoppedIsGone, HostStep, NotFromUnderTheLiving,
            ProvedGoneIsLeftAlone, Alive
<1>1. ASSUME HostSubmit(t) PROVE HostStep
  BY <1>1 DEF HostSubmit, HostIds
<1>2. ASSUME NEW kind \in {"bare", "mounted"}, MakeDir(t, kind) PROVE HostStep
  BY <1>2 DEF MakeDir, HostIds
<1>3. ASSUME HostPrepare(t, ok, fail) PROVE HostStep
  <2>1. faults' \in 0..MaxFaults
    BY <1>3, OneFailType DEF HostPrepare
  <2> QED
    BY <1>3, <2>1 DEF HostPrepare, Cleaned, HostIds
<1>4. ASSUME Discard(t, fail) PROVE HostStep
  <2>1. faults' \in 0..MaxFaults
    BY <1>4, OneFailType DEF Discard
  <2> QED
    BY <1>4, <2>1 DEF Discard, Cleaned, HostIds
<1> QED
  BY <1>1, <1>2, <1>3, <1>4

\* The launches.
LEMMA LaunchSteps ==
  ASSUME HostIInv, NEW t \in HostIds, NEW c \in BOOLEAN, NEW s \in BOOLEAN, NEW r \in BOOLEAN
  PROVE  LaunchProc(t, c, s) \/ LaunchDocker(t, c, s, r) => HostStep
<1> USE DEF HostIInv, HostTypeOK, HostLinks, BoxKnownOrFailed, NothingBeforeLaunch, GoneIsGone, FinishedIsGone,
            QuarantineIsEmpty, StopsFollowLaunch, StoppedIsGone, HostStep, NotFromUnderTheLiving,
            ProvedGoneIsLeftAlone, Alive
<1>1. ASSUME LaunchProc(t, c, s) PROVE HostStep
  <2>1. faults' \in 0..MaxFaults
    BY <1>1, OneFailType DEF LaunchProc
  <2> DEFINE n == [NoRec EXCEPT !.open = c]
             g == IF c THEN [NoGrp EXCEPT !.lead = "alive"] ELSE NoGrp
             l == IF s THEN {<<"umount", t>>} ELSE {}
  <2>2. /\ n \in HostRec /\ ~n.group_gone /\ n.stop = "no" /\ ~n.docker_done
        /\ ~c => n = NoRec
    BY FreshRecord
  <2>3. g \in HostGrp
    BY DEF NoGrp, HostGrp
  <2>4. l \subseteq {"umount"} \X HostIds
    OBVIOUS
  <2>5. /\ own[t] = "message" /\ daemon = "up" /\ t \in Execs /\ UNCHANGED <<box, mail, daemon, lives>>
        /\ own' = [own EXCEPT ![t] = IF c THEN "task" ELSE "nobody"]
        /\ rec' = [rec EXCEPT ![t] = n]
        /\ grp' = [grp EXCEPT ![t] = g]
        /\ lostTrack' = lostTrack \cup l
    BY <1>1 DEF LaunchProc
  <2>6. PICK left \in IF c THEN {dir[t]} ELSE Cleaned(t, s) : dir' = [dir EXCEPT ![t] = left]
    BY <1>1 DEF LaunchProc
  <2>7. left \in {dir[t], "bare", "none"}
    BY <2>6 DEF Cleaned
  <2> HIDE DEF n, g, l
  <2> QED
    BY <2>1, <2>2, <2>3, <2>4, <2>5, <2>6, <2>7, HostAssumption DEF HostRec, HostGrp, HostIds
<1>2. ASSUME LaunchDocker(t, c, s, r) PROVE HostStep
  <2> DEFINE failed == {d \in {"create", "start", "rm"} :
                          \/ d = "create" /\ ~c
                          \/ d = "start" /\ c /\ ~s
                          \/ d = "rm" /\ c /\ ~s /\ ~r}
  <2>1. faults' \in 0..MaxFaults
    <3>1. IsFiniteSet({"create", "start", "rm"})
      <4>1. IsFiniteSet({"create"} \cup {"start"})
        BY FS_Singleton, FS_AddElement
      <4>2. IsFiniteSet(({"create"} \cup {"start"}) \cup {"rm"})
        BY <4>1, FS_AddElement
      <4> QED
        BY <4>2
    <3>2. IsFiniteSet(failed)
      BY <3>1, FS_Subset
    <3>3. Fail(failed)
      BY <1>2 DEF LaunchDocker
    <3> QED
      BY <3>2, <3>3, FailType
  <2>2. PICK left \in DockerLeft(c, s, r) : box' = [box EXCEPT ![t] = left]
    BY <1>2 DEF LaunchDocker
  <2>3. /\ left \in {"none", "created", "running"}
        /\ c /\ s => left = "running"
        /\ c /\ ~s /\ r => left = "none"
    BY <2>2 DEF DockerLeft
  <2>4. /\ lostTrack \subseteq lostTrack' /\ lostTrack' \subseteq lostTrack \cup {<<"docker", t>>}
        /\ ~c \/ (~s /\ ~r) => <<"docker", t>> \in lostTrack'
    BY <1>2 DEF LaunchDocker
  <2> DEFINE n == [NoRec EXCEPT !.open = c /\ s]
  <2>5. /\ n \in HostRec /\ ~n.group_gone /\ n.stop = "no" /\ ~n.docker_done
        /\ ~(c /\ s) => n = NoRec
    BY FreshRecord
  <2>6. /\ own[t] = "message" /\ daemon = "up" /\ t \in Boxes /\ UNCHANGED <<dir, grp, mail, daemon, lives>>
        /\ own' = [own EXCEPT ![t] = IF c /\ s THEN "task" ELSE "nobody"]
        /\ rec' = [rec EXCEPT ![t] = n]
    BY <1>2 DEF LaunchDocker
  <2> HIDE DEF n
  <2> QED
    <3>1. HostTypeOK'
      BY <2>1, <2>2, <2>3, <2>4, <2>5, <2>6 DEF HostRec, HostIds
    <3>2. BoxKnownOrFailed'
      BY <2>2, <2>3, <2>4, <2>6 DEF HostIds
    <3>3. HostLinks'
      BY <2>2, <2>3, <2>4, <2>5, <2>6, HostAssumption DEF HostIds
    <3>4. NotFromUnderTheLiving /\ ProvedGoneIsLeftAlone
      BY <2>4, <2>6
    <3> QED
      BY <3>1, <3>2, <3>3, <3>4
<1> QED
  BY <1>1, <1>2

\* The stops.
LEMMA StopSteps ==
  ASSUME HostIInv, NEW t \in HostIds, NEW fail \in BOOLEAN
  PROVE  StopTaskProc(t, fail) \/ StopTaskBox(t) \/ StopAndRemove(t, fail) \/ HostStatus(t) => HostStep
<1> USE DEF HostIInv, HostTypeOK, HostLinks, BoxKnownOrFailed, NothingBeforeLaunch, GoneIsGone, FinishedIsGone,
            QuarantineIsEmpty, StopsFollowLaunch, StoppedIsGone, HostStep, NotFromUnderTheLiving,
            ProvedGoneIsLeftAlone, Alive
<1>t. rec[t] \in HostRec /\ grp[t] \in HostGrp /\ (t \in Execs => Truthful(grp[t], rec[t]))
  BY DEF HostRec, HostGrp, Truthful
<1>1. ASSUME StopTaskProc(t, fail) PROVE HostStep
  <2>1. faults' \in 0..MaxFaults
    BY <1>1, OneFailType DEF StopTaskProc
  <2> DEFINE x == Stopped(t, fail)
  <2>2. Kept(grp[t], rec[t], x) /\ x.r.stop = "term"
    BY <1>1, <1>t, StopKeeps DEF StopTaskProc
  <2>3. /\ rec' = [rec EXCEPT ![t] = x.r]
        /\ grp' = [grp EXCEPT ![t] = x.g]
        /\ lostTrack' = lostTrack \cup (IF x.struck THEN {<<"struck", t>>} ELSE {})
    BY <1>1 DEF StopTaskProc
  <2> HIDE DEF x
  <2> QED
    BY <1>1, <2>1, <2>2, <2>3, HostAssumption
    DEF StopTaskProc, Kept, Handled, HostRec, HostGrp, Truthful, SameLives, HostIds
<1>2. ASSUME StopTaskBox(t) PROVE HostStep
  BY <1>2, HostAssumption DEF StopTaskBox, HostIds
<1>3. ASSUME StopAndRemove(t, fail) PROVE HostStep
  <2>1. faults' \in 0..MaxFaults
    BY <1>3, OneFailType DEF StopAndRemove
  <2> QED
    BY <1>3, <2>1, HostAssumption DEF StopAndRemove, HostIds
<1>4. ASSUME HostStatus(t) PROVE HostStep
  <2> DEFINE x == Reap(grp[t], rec[t])
             y == IF x.r.reaped THEN Signal(x, "0", FALSE) ELSE x
  <2>1. Kept(grp[t], rec[t], x) /\ x.r.stop = rec[t].stop /\ ~x.struck
    <3>1. x.struck = FALSE
      BY DEF Reap
    <3> QED
      BY <1>4, <1>t, <3>1, Reaped DEF HostStatus
  <2>2. Kept(grp[t], rec[t], y) /\ y.r.stop = rec[t].stop
    <3> HIDE DEF x
    <3>1. x \in Handled /\ Truthful(x.g, x.r)
      BY <2>1 DEF Kept
    <3>2. Kept(x.g, x.r, y) /\ y.r.stop = x.r.stop
      BY <2>1, <3>1, Probed
    <3> HIDE DEF y
    <3> QED
      BY <2>1, <3>2 DEF Kept, SameLives
  <2>3. rec' = [rec EXCEPT ![t] = y.r] /\ grp' = [grp EXCEPT ![t] = y.g]
    BY <1>4 DEF HostStatus
  <2> HIDE DEF x, y
  <2> QED
    <3>1. /\ own[t] = "task" /\ t \in Execs
          /\ UNCHANGED <<own, dir, box, mail, daemon, lives, faults, lostTrack>>
      BY <1>4 DEF HostStatus
    <3>2. HostTypeOK'
      BY <2>2, <2>3, <3>1 DEF Kept, Handled, HostRec, HostGrp
    <3>3. HostLinks'
      BY <2>2, <2>3, <3>1, HostAssumption DEF Kept, Truthful, SameLives, HostIds
    <3> QED
      BY <3>1, <3>2, <3>3
<1> QED
  BY <1>1, <1>2, <1>3, <1>4

\* The kernel and the Docker daemon.
LEMMA WorldSteps ==
  ASSUME HostIInv, NEW t \in HostIds, NEW kids \in BOOLEAN
  PROVE  LeaderDies(t, kids) \/ KidsDie(t) \/ Reuse(t) \/ HostEof(t) \/ BoxExits(t) => HostStep
<1> USE DEF HostIInv, HostTypeOK, HostLinks, BoxKnownOrFailed, NothingBeforeLaunch, GoneIsGone, FinishedIsGone,
            QuarantineIsEmpty, StopsFollowLaunch, StoppedIsGone, HostStep, NotFromUnderTheLiving,
            ProvedGoneIsLeftAlone, Alive
<1>1. ASSUME LeaderDies(t, kids) PROVE HostStep
  <2> DEFINE lead == IF daemon = "down" THEN "reaped" ELSE "zombie"
             g == [grp[t] EXCEPT !.lead = lead, !.kids = kids]
  <2>1. /\ grp[t].lead = "alive" /\ grp' = [grp EXCEPT ![t] = g]
        /\ UNCHANGED <<own, rec, dir, box, mail, daemon, lives, faults, lostTrack>>
    BY ZenonT(30), <1>1 DEF LeaderDies
  <2>2. g \in HostGrp /\ g.lead \in {"zombie", "reaped"}
    <3>1. grp[t] \in HostGrp
      BY DEF HostGrp
    <3>2. lead \in {"zombie", "reaped"}
      OBVIOUS
    <3> HIDE DEF lead
    <3> QED
      BY <3>1, <3>2, LeaderEnds
  <2> HIDE DEF g
  <2> QED
    BY <2>1, <2>2 DEF HostGrp, HostIds
<1>2. ASSUME KidsDie(t) PROVE HostStep
  <2> DEFINE g == [grp[t] EXCEPT !.kids = FALSE]
  <2>1. /\ grp[t].kids /\ grp' = [grp EXCEPT ![t] = g]
        /\ UNCHANGED <<own, rec, dir, box, mail, daemon, lives, faults, lostTrack>>
    BY <1>2 DEF KidsDie
  <2>2. g \in HostGrp /\ g.lead = grp[t].lead /\ ~g.kids
    <3>1. grp[t] \in HostGrp
      BY DEF HostGrp
    <3> QED
      BY <3>1, KidsEnd
  <2> HIDE DEF g
  <2> QED
    BY <2>1, <2>2 DEF HostGrp, HostIds
<1>3. ASSUME Reuse(t) PROVE HostStep
  <2> DEFINE g == [grp[t] EXCEPT !.stranger = ~@]
  <2>1. /\ ~grp[t].kids /\ grp' = [grp EXCEPT ![t] = g]
        /\ UNCHANGED <<own, rec, dir, box, mail, daemon, lives, faults, lostTrack>>
    BY <1>3 DEF Reuse
  <2>2. g \in HostGrp /\ g.lead = grp[t].lead /\ g.kids = grp[t].kids
    <3>1. grp[t] \in HostGrp
      BY DEF HostGrp
    <3> QED
      BY <3>1, StrangerMoves
  <2> HIDE DEF g
  <2> QED
    BY <2>1, <2>2 DEF HostGrp, HostIds
<1>4. ASSUME HostEof(t) PROVE HostStep
  BY <1>4 DEF HostEof, HostIds
<1>5. ASSUME BoxExits(t) PROVE HostStep
  BY <1>5 DEF BoxExits, HostIds
<1> QED
  BY <1>1, <1>2, <1>3, <1>4, <1>5

\* The record and the group of a task have their types, and the record is right.
LEMMA Known ==
  ASSUME HostIInv, NEW t \in HostIds
  PROVE  /\ rec[t] \in HostRec /\ grp[t] \in HostGrp
         /\ t \in Execs => Truthful(grp[t], rec[t]) /\ Proved(rec[t])
  BY DEF HostIInv, HostTypeOK, HostLinks, GoneIsGone, FinishedIsGone, HostRec, HostGrp, Truthful, Proved

\* The end of a life keeps the invariant: the records go, nothing else is claimed.
LEMMA EndKeeps ==
  ASSUME HostIInv, NEW keep, NEW bare, Ended(keep, bare), faults' \in 0..MaxFaults, lostTrack' = lostTrack
  PROVE  HostIInv'
<1>1. ASSUME NEW t \in HostIds
      PROVE  /\ grp'[t] \in HostGrp
             /\ grp'[t].lead = "alive" <=> grp[t].lead = "alive"
             /\ grp'[t].lead = "none" <=> grp[t].lead = "none"
             /\ grp'[t].kids = grp[t].kids
  <2>1. grp'[t] = [grp[t] EXCEPT !.lead = IF @ = "zombie" THEN "reaped" ELSE @]
    BY DEF Ended
  <2>2. grp[t] \in HostGrp
    BY Known
  <2> QED
    BY <2>1, <2>2 DEF HostGrp
<1>2. /\ daemon' = "down" /\ mail' = {} /\ UNCHANGED <<box, lives>>
      /\ own' = [t \in HostIds |-> IF own[t] = "new" THEN "new" ELSE "nobody"]
      /\ rec' = [t \in HostIds |-> NoRec]
      /\ dir' = [t \in HostIds |-> Left(t, HostIds \ keep, bare)]
      /\ grp' = [t \in HostIds |-> grp'[t]]
  BY DEF Ended
<1>3. HostTypeOK'
  BY <1>1, <1>2 DEF HostIInv, HostTypeOK, NoRec, HostGrp, Left
<1>4. HostLinks'
  BY <1>1, <1>2 DEF HostIInv, HostLinks, NothingBeforeLaunch, GoneIsGone, FinishedIsGone, QuarantineIsEmpty,
     StopsFollowLaunch, StoppedIsGone, NoRec, HostIds
<1>5. BoxKnownOrFailed'
  BY <1>2 DEF BoxKnownOrFailed
<1> QED
  BY <1>3, <1>4, <1>5 DEF HostIInv

\* The lives of the daemon.
LEMMA LifeSteps ==
  ASSUME HostIInv
  PROVE  HostClose \/ HostExit \/ HostCrash \/ HostInit => HostStep
<1>1. ASSUME HostClose PROVE HostStep
  <2> DEFINE procs == {t \in Execs : own[t] = "task" /\ rec[t].stop = "no"}
             boxes == {t \in Boxes : own[t] = "task" /\ rec[t].stop = "no"}
  <2>1. ASSUME NEW t \in procs
        PROVE  Kept(grp[t], rec[t], Stopped(t, FALSE)) /\ Stopped(t, FALSE).r.stop = "term"
    BY Known, StopKeeps DEF HostIds
  <2>2. /\ UNCHANGED <<own, dir, box, lives, faults>> /\ daemon' = "closing" /\ daemon = "up"
        /\ mail' = mail \cup {<<"stopping", t>> : t \in boxes}
        /\ lostTrack' = lostTrack \cup {<<"struck", t>> : t \in {u \in procs : Stopped(u, FALSE).struck}}
    BY <1>1 DEF HostClose
  <2>e. /\ rec' = [t \in HostIds |-> IF t \in procs THEN Stopped(t, FALSE).r
                                     ELSE IF t \in boxes THEN [rec[t] EXCEPT !.stop = "term"] ELSE rec[t]]
        /\ grp' = [t \in HostIds |-> IF t \in procs THEN Stopped(t, FALSE).g ELSE grp[t]]
    BY <1>1 DEF HostClose
  <2>3. ASSUME NEW t \in HostIds
        PROVE  /\ rec'[t] \in HostRec /\ grp'[t] \in HostGrp
               /\ SameLives(grp[t], grp'[t])
               /\ t \in Execs => Truthful(grp'[t], rec'[t]) /\ Proved(rec'[t])
               /\ t \in Boxes => rec'[t].docker_done = rec[t].docker_done
                                 /\ (rec'[t].stop = "gone" => rec[t].stop = "gone")
               /\ own[t] # "task" => rec'[t] = rec[t] /\ grp'[t] = grp[t]
    <3>1. CASE t \in procs
      BY <2>1, <2>e, <3>1, HostAssumption DEF Kept, Handled, Proved, HostIds
    <3>2. CASE t \in boxes /\ t \notin procs
      <4>1. [rec[t] EXCEPT !.stop = "term"] \in HostRec
        BY Known DEF HostRec
      <4> QED
        BY <2>e, <3>2, <4>1, Known, HostAssumption DEF HostRec, SameLives
    <3>3. CASE t \notin boxes /\ t \notin procs
      BY <2>e, <3>3, Known DEF SameLives
    <3> QED
      BY <3>1, <3>2, <3>3
  <2>4. /\ mail' \subseteq {"eof", "stopped", "stopping"} \X HostIds
        /\ \A t \in HostIds : <<"stopped", t>> \in mail' <=> <<"stopped", t>> \in mail
        /\ \A t \in HostIds : <<"stopping", t>> \in mail' => <<"stopping", t>> \in mail \/ own[t] = "task"
    BY <2>2 DEF HostIInv, HostTypeOK, HostIds
  <2>5. /\ lostTrack' \subseteq {"umount", "kill", "docker", "struck"} \X HostIds
        /\ \A t \in HostIds : <<"docker", t>> \in lostTrack' <=> <<"docker", t>> \in lostTrack
        /\ \A t \in Execs : rec[t].group_gone /\ <<"struck", t>> \in lostTrack' => <<"struck", t>> \in lostTrack
    <3>1. ASSUME NEW t \in procs, rec[t].group_gone PROVE ~Stopped(t, FALSE).struck
      BY <2>1, <3>1 DEF Kept
    <3> DEFINE struck == {u \in procs : Stopped(u, FALSE).struck}
    <3>2. struck \subseteq HostIds /\ \A t \in struck : ~rec[t].group_gone
      BY <3>1 DEF HostIds
    <3>3. lostTrack' = lostTrack \cup {<<"struck", t>> : t \in struck}
      BY <2>2
    <3> HIDE DEF struck
    <3> QED
      BY <3>2, <3>3 DEF HostIInv, HostTypeOK, HostIds
  <2> HIDE DEF procs, boxes
  <2>f. rec' = [t \in HostIds |-> rec'[t]] /\ grp' = [t \in HostIds |-> grp'[t]]
    BY <2>e
  <2>6. HostTypeOK'
    <3>1. rec' \in [HostIds -> HostRec] /\ grp' \in [HostIds -> HostGrp]
      BY <2>3, <2>f
    <3>2. UNCHANGED <<own, dir, box, lives, faults>> /\ daemon' = "closing"
      BY <2>2
    <3>3. \A t \in HostIds : own'[t] # "task" => rec'[t] = NoRec
      BY <2>3, <3>2 DEF HostIInv, HostTypeOK
    <3> QED
      BY <2>4, <2>5, <3>1, <3>2, <3>3 DEF HostIInv, HostTypeOK, HostRec, HostGrp
  <2>7. HostLinks'
    BY <2>2, <2>3, <2>4, <2>5 DEF HostIInv, HostLinks, NothingBeforeLaunch, GoneIsGone, FinishedIsGone,
       QuarantineIsEmpty, StopsFollowLaunch, StoppedIsGone, HostIds, SameLives, Truthful, Proved, Alive
  <2>8. BoxKnownOrFailed'
    BY <2>2, <2>5 DEF HostIInv, BoxKnownOrFailed, HostIds
  <2> QED
    BY <2>2, <2>5, <2>6, <2>7, <2>8 DEF HostStep, HostIInv, NotFromUnderTheLiving, ProvedGoneIsLeftAlone
<1>2. ASSUME HostExit PROVE HostStep
  <2>1. PICK stuck \in SUBSET {t \in HostIds : own[t] \in {"message", "quarantine"} /\ dir[t] # "none"} :
          /\ Fail(stuck)
          /\ \E bare \in SUBSET stuck :
               Ended({t \in HostIds : own[t] \in {"task", "worker", "nobody"}} \cup stuck, bare)
    BY <1>2 DEF HostExit
  <2>2. faults' \in 0..MaxFaults
    <3>1. IsFiniteSet(stuck)
      BY HostAssumption, FS_Subset
    <3> QED
      BY <2>1, <3>1, FailType DEF HostIInv, HostTypeOK
  <2>3. lostTrack' = lostTrack
    BY <1>2 DEF HostExit
  <2>4. HostIInv'
    BY <2>1, <2>2, <2>3, EndKeeps
  <2>5. NotFromUnderTheLiving
    BY <2>1 DEF Ended, Left, NotFromUnderTheLiving, HostIInv, HostTypeOK, HostLinks, NothingBeforeLaunch,
       QuarantineIsEmpty, Alive, HostIds
  <2> QED
    BY <2>3, <2>4, <2>5 DEF HostStep, ProvedGoneIsLeftAlone
<1>3. ASSUME HostCrash PROVE HostStep
  <2>1. HostIInv'
    BY <1>3, EndKeeps DEF HostCrash, HostIInv, HostTypeOK
  <2> QED
    BY <1>3, <2>1 DEF HostCrash, HostStep, Ended, Left, NotFromUnderTheLiving, ProvedGoneIsLeftAlone, HostIds
<1>4. ASSUME HostInit PROVE HostStep
  <2>1. PICK why \in {"no", "sweep", "ping", "list"},
             stays \in SUBSET {t \in HostIds : dir[t] = "bare"},
             kept \in SUBSET {t \in Boxes : box[t] # "none"} :
          /\ Fail(({why} \ {"no"}) \cup stays \cup kept)
          /\ dir' = [t \in HostIds |-> Swept(t, stays, why)]
          /\ \E left \in SUBSET kept : box' = ListedAway(why, left)
          /\ IF why \in {"sweep", "list"} \/ kept # {}
             THEN UNCHANGED <<daemon, lives>>
             ELSE daemon' = "up" /\ lives' = lives + 1
          /\ lostTrack' = lostTrack \cup
               {<<"docker", t>> : t \in {u \in Boxes : why = "ping" /\ box[u] # "none"}}
    BY <1>4 DEF HostInit
  <2>2. faults' \in 0..MaxFaults
    <3>1. IsFiniteSet(stays) /\ IsFiniteSet(kept)
      <4>1. stays \subseteq HostIds /\ kept \subseteq HostIds
        BY DEF HostIds
      <4> QED
        BY <4>1, HostAssumption, FS_Subset
    <3>2. IsFiniteSet({why} \ {"no"})
      <4>1. IsFiniteSet({why}) /\ {why} \ {"no"} \subseteq {why}
        BY FS_Singleton
      <4> QED
        BY <4>1, FS_Subset
    <3>3. IsFiniteSet(({why} \ {"no"}) \cup stays)
      BY <3>1, <3>2, FS_Union
    <3>4. IsFiniteSet((({why} \ {"no"}) \cup stays) \cup kept)
      BY <3>1, <3>3, FS_Union
    <3> QED
      BY <2>1, <3>4, FailType DEF HostIInv, HostTypeOK
  <2>3. /\ daemon = "down" /\ lives < MaxLives /\ daemon' \in {"up", "down"} /\ lives' \in {lives, lives + 1}
        /\ UNCHANGED <<own, rec, grp, mail>>
    BY <1>4, <2>1 DEF HostInit
  <2>4. /\ box' \in [HostIds -> {"none", "created", "running"}]
        /\ \A t \in HostIds : box'[t] \in {box[t], "none"}
    BY <2>1 DEF ListedAway, HostIInv, HostTypeOK
  <2>5. /\ lostTrack' \subseteq {"umount", "kill", "docker", "struck"} \X HostIds
        /\ lostTrack \subseteq lostTrack'
        /\ \A t \in Boxes : box'[t] # "none" /\ daemon' # "down" => <<"docker", t>> \in lostTrack'
        /\ \A t \in Execs : <<"struck", t>> \in lostTrack' => <<"struck", t>> \in lostTrack
    BY <2>1, <2>3 DEF HostIInv, HostTypeOK, HostIds, ListedAway
  <2>6. HostTypeOK'
    <3>1. /\ dir' \in [HostIds -> {"none", "bare", "mounted"}]
          /\ \A t \in HostIds : dir'[t] = "none" => dir[t] \in {"none", "bare"}
      BY <2>1 DEF HostIInv, HostTypeOK, Swept
    <3>2. \A t \in HostIds : own[t] # "quarantine"
      BY <2>3 DEF HostIInv, HostTypeOK
    <3> QED
      BY <2>2, <2>3, <2>4, <2>5, <3>1, <3>2, HostAssumption DEF HostIInv, HostTypeOK
  <2>7. HostLinks'
    BY <2>3, <2>4, <2>5 DEF HostIInv, HostLinks, NothingBeforeLaunch, GoneIsGone, FinishedIsGone,
       QuarantineIsEmpty, StopsFollowLaunch, StoppedIsGone, HostIds, Alive
  <2>8. BoxKnownOrFailed'
    BY <2>5 DEF BoxKnownOrFailed
  <2> QED
    BY <2>3, <2>5, <2>6, <2>7, <2>8 DEF HostStep, HostIInv, NotFromUnderTheLiving, ProvedGoneIsLeftAlone
<1> QED
  BY <1>1, <1>2, <1>3, <1>4

\* A tick: every task moves on, and a directory goes only with the proof in hand.
LEMMA TickSteps ==
  ASSUME HostIInv, NEW late, NEW sick, NEW stuck, NEW bare, HostTick(late, sick, stuck, bare)
  PROVE  HostStep
<1> DEFINE tasks == {t \in HostIds : own[t] = "task"}
           held == {t \in HostIds : own[t] = "quarantine"}
           x == [t \in tasks |-> Ticked(t, t \in late, t \in sick)]
           done == {t \in tasks : x[t].r.stop = "gone" /\ (~x[t].r.open \/ t \in late)}
           clean == held \cup (done \cap Execs)
           struck == {t \in tasks : x[t].struck}
<1>1. /\ daemon # "down" /\ UNCHANGED <<box, daemon, lives>>
      /\ sick \subseteq Execs /\ sick \subseteq HostIds
      /\ stuck \subseteq {t \in clean : dir[t] # "none"} /\ bare \subseteq stuck
      /\ mail' = {m \in mail : m[1] = "stopping"}
  BY DEF HostTick, HostIds
<1>2. /\ Fail(sick \cup stuck)
      /\ own' = [t \in HostIds |-> IF t \in stuck THEN "quarantine"
                                   ELSE IF t \in clean \cup done THEN "nobody" ELSE own[t]]
      /\ rec' = [t \in HostIds |-> IF t \in done THEN NoRec ELSE IF t \in tasks THEN x[t].r ELSE rec[t]]
      /\ grp' = [t \in HostIds |-> IF t \in tasks THEN x[t].g ELSE grp[t]]
      /\ dir' = [t \in HostIds |-> Left(t, clean \ stuck, bare)]
      /\ lostTrack' = lostTrack \cup {<<"kill", t>> : t \in sick} \cup {<<"struck", t>> : t \in struck}
  BY DEF HostTick
<1>3. ASSUME NEW t \in tasks
      PROVE  /\ x[t] \in Handled /\ SameLives(grp[t], x[t].g)
             /\ t \in Execs => /\ Truthful(x[t].g, x[t].r) /\ Proved(x[t].r)
                               /\ rec[t].group_gone => ~x[t].struck
             /\ t \in Boxes => /\ x[t].g = grp[t]
                               /\ x[t].r.stop = "gone" \/ x[t].r.docker_done =>
                                    rec[t].docker_done \/ rec[t].stop = "gone" \/ <<"stopped", t>> \in mail
  <2>1. t \in HostIds /\ x[t] = Ticked(t, t \in late, t \in sick)
    OBVIOUS
  <2>2. (t \in late) \in BOOLEAN /\ (t \in sick) \in BOOLEAN
    OBVIOUS
  <2>3. CASE t \in Execs
    BY <2>1, <2>2, <2>3, Known, TickKeeps, HostAssumption
  <2>4. CASE t \notin Execs
    <3>1. SameLives(grp[t], grp[t])
      BY DEF SameLives
    <3> QED
      BY <2>1, <2>2, <2>4, <3>1, Known, TickKeeps
  <2> QED
    BY <2>3, <2>4
<1> HIDE DEF x
<1>4. tasks \subseteq HostIds /\ done \subseteq tasks /\ held \subseteq HostIds /\ struck \subseteq tasks
  OBVIOUS
<1>5. ASSUME NEW t \in done \cap Execs PROVE ~Alive(t)
  BY <1>3, <1>4 DEF Truthful, Proved, SameLives, Alive
<1>6. ASSUME NEW t \in done \cap Boxes PROVE box[t] = "none" \/ <<"docker", t>> \in lostTrack
  BY <1>3, <1>4 DEF HostIInv, HostLinks, StoppedIsGone
<1>7. ASSUME NEW t \in clean \cap Execs PROVE ~Alive(t)
  BY <1>5 DEF HostIInv, HostLinks, QuarantineIsEmpty
<1>8. faults' \in 0..MaxFaults
  <2>1. IsFiniteSet(sick) /\ IsFiniteSet(stuck)
    BY <1>1, <1>4, HostAssumption, FS_Subset
  <2>2. IsFiniteSet(sick \cup stuck)
    BY <2>1, FS_Union
  <2> QED
    BY <1>2, <2>2, FailType DEF HostIInv, HostTypeOK
<1>9. ASSUME NEW t \in HostIds
      PROVE  /\ rec'[t] \in HostRec /\ grp'[t] \in HostGrp
             /\ SameLives(grp[t], grp'[t])
             /\ t \in Execs => Truthful(grp'[t], rec'[t]) /\ Proved(rec'[t])
             /\ t \in Boxes /\ (rec'[t].stop = "gone" \/ rec'[t].docker_done) =>
                  rec[t].docker_done \/ rec[t].stop = "gone" \/ <<"stopped", t>> \in mail
             /\ t \notin tasks => grp'[t] = grp[t] /\ rec'[t] = rec[t]
             /\ t \in done => rec'[t] = NoRec
  <2>1. CASE t \in done
    <3>1. rec'[t] = NoRec /\ grp'[t] = x[t].g
      BY <1>2, <1>4, <2>1
    <3> HIDE DEF done, tasks
    <3> QED
      <4>1. NoRec \in HostRec /\ ~NoRec.group_gone /\ NoRec.stop = "no" /\ ~NoRec.docker_done
        BY DEF NoRec, HostRec
      <4> QED
        BY <1>3, <1>4, <2>1, <3>1, <4>1 DEF Handled, Truthful, Proved
  <2>2. CASE t \in tasks \ done
    <3>1. rec'[t] = x[t].r /\ grp'[t] = x[t].g
      BY <1>2, <2>2
    <3> HIDE DEF done, tasks
    <3> QED
      BY <1>3, <2>2, <3>1 DEF Handled
  <2>3. CASE t \notin tasks
    <3>1. rec'[t] = rec[t] /\ grp'[t] = grp[t]
      BY <1>2, <1>4, <2>3
    <3> HIDE DEF done, tasks
    <3> QED
      BY <1>4, <2>3, <3>1, Known DEF SameLives
  <2> QED
    BY <2>1, <2>2, <2>3
<1>10. /\ \A t \in HostIds : own'[t] \in {"quarantine", "nobody", own[t]}
       /\ \A t \in HostIds : own'[t] = "quarantine" => own[t] = "quarantine" \/ t \in stuck
       /\ \A t \in HostIds : t \in tasks => own[t] = "task"
       /\ \A t \in HostIds : own[t] = "task" /\ own'[t] # "task" => t \in done
       /\ \A t \in HostIds : own'[t] # "task" => t \in done \/ t \notin tasks
       /\ \A t \in HostIds : own'[t] = "quarantine" => dir'[t] # "none"
  BY <1>1, <1>2, <1>4 DEF Left
<1>11. /\ dir' \in [HostIds -> {"none", "bare", "mounted"}]
       /\ \A t \in HostIds : dir[t] # "none" /\ dir'[t] = "none" => t \in clean
  BY <1>2 DEF Left, HostIInv, HostTypeOK
<1>12. /\ lostTrack \subseteq lostTrack'
       /\ lostTrack' \subseteq {"umount", "kill", "docker", "struck"} \X HostIds
       /\ \A t \in Execs : <<"struck", t>> \in lostTrack' => <<"struck", t>> \in lostTrack \/ t \in struck
  <2>1. struck \subseteq HostIds
    BY <1>4
  <2> HIDE DEF struck
  <2> QED
    BY <1>1, <1>2, <2>1 DEF HostIInv, HostTypeOK
<1>13. /\ mail' \subseteq mail
       /\ \A t \in HostIds : <<"stopped", t>> \notin mail'
  BY <1>1
<1>14. own' = [t \in HostIds |-> own'[t]] /\ rec' = [t \in HostIds |-> rec'[t]] /\ grp' = [t \in HostIds |-> grp'[t]]
  BY <1>2
<1>15. ProvedGoneIsLeftAlone
  BY <1>3, <1>4, <1>12 DEF ProvedGoneIsLeftAlone
<1>16. NotFromUnderTheLiving
  BY <1>7, <1>11 DEF NotFromUnderTheLiving, HostIds
<1>17. stuck \subseteq clean /\ clean \subseteq HostIds
  BY <1>1, <1>4
<1> HIDE DEF tasks, held, done, clean, struck
<1>18. HostTypeOK'
  <2>1. own' \in [HostIds -> {"new", "worker", "message", "task", "quarantine", "nobody"}]
    BY <1>10, <1>14 DEF HostIInv, HostTypeOK
  <2>2. rec' \in [HostIds -> HostRec] /\ grp' \in [HostIds -> HostGrp]
    BY <1>9, <1>14
  <2>3. \A t \in HostIds : own'[t] # "task" => rec'[t] = NoRec
    BY <1>9, <1>10 DEF HostIInv, HostTypeOK
  <2> QED
    BY <1>1, <1>8, <1>10, <1>11, <1>12, <1>13, <2>1, <2>2, <2>3 DEF HostIInv, HostTypeOK, HostRec, HostGrp
<1>19. BoxKnownOrFailed'
  BY <1>1, <1>6, <1>10, <1>12 DEF HostIInv, BoxKnownOrFailed, HostIds
<1>20. HostLinks'
  <2>1. NothingBeforeLaunch'
    BY <1>1, <1>9, <1>10 DEF HostIInv, HostLinks, NothingBeforeLaunch
  <2>2. GoneIsGone' /\ FinishedIsGone'
    BY <1>9 DEF GoneIsGone, FinishedIsGone, Truthful, Proved, HostIds
  <2>3. QuarantineIsEmpty'
    BY <1>7, <1>9, <1>10, <1>17 DEF HostIInv, HostLinks, QuarantineIsEmpty, SameLives, Alive, HostIds
  <2>4. StopsFollowLaunch'
    BY <1>10, <1>13 DEF HostIInv, HostLinks, StopsFollowLaunch
  <2>5. StoppedIsGone'
    BY <1>1, <1>9, <1>12, <1>13 DEF HostIInv, HostLinks, StoppedIsGone, HostIds
  <2> QED
    BY <2>1, <2>2, <2>3, <2>4, <2>5 DEF HostLinks
<1> QED
  BY <1>15, <1>16, <1>18, <1>19, <1>20 DEF HostStep, HostIInv

-----------------------------------------------------------------------------
(* The theorems *)

\* Every step of the runner, the kernel and Docker.
LEMMA HostSteps ==
  ASSUME HostIInv, HostNext
  PROVE  HostStep
<1>1. CASE \E late \in SUBSET {t \in HostIds : own[t] = "task"}, stuck \in SUBSET {t \in HostIds : dir[t] # "none"} :
             \E sick \in SUBSET {t \in late : rec[t].stop = "term"}, bare \in SUBSET stuck :
               HostTick(late, sick, stuck, bare)
  BY <1>1, TickSteps
<1>2. CASE HostClose \/ HostExit \/ HostCrash \/ HostInit
  BY <1>2, LifeSteps
<1>3. ASSUME NEW t \in HostIds,
             \/ HostSubmit(t) \/ HostStatus(t) \/ StopTaskBox(t) \/ HostEof(t) \/ BoxExits(t)
             \/ KidsDie(t) \/ Reuse(t)
             \/ \E kind \in {"bare", "mounted"} : MakeDir(t, kind)
             \/ \E ok, fail \in BOOLEAN : HostPrepare(t, ok, fail) \/ LaunchProc(t, ok, fail)
             \/ \E fail \in BOOLEAN : Discard(t, fail) \/ StopTaskProc(t, fail) \/ StopAndRemove(t, fail)
                                      \/ LeaderDies(t, fail)
             \/ \E c, s, r \in BOOLEAN : LaunchDocker(t, c, s, r)
      PROVE  HostStep
  BY <1>3, PreparationSteps, LaunchSteps, StopSteps, WorldSteps
<1> QED
  BY <1>1, <1>2, <1>3 DEF HostNext

\* A step of somebody else.
LEMMA HostStutters ==
  ASSUME HostIInv, UNCHANGED hostVars
  PROVE  HostIInv'
  BY DEF hostVars, HostIInv, HostTypeOK, HostLinks, BoxKnownOrFailed, NothingBeforeLaunch, GoneIsGone,
     FinishedIsGone, QuarantineIsEmpty, StopsFollowLaunch, StoppedIsGone, Alive

\* The inductive invariant holds in every reachable state.
LEMMA HostAlways == HostSpec => []HostIInv
<1>1. HostIInv /\ [HostNext]_hostVars => HostIInv'
  BY HostSteps, HostStutters DEF HostStep
<1> QED
  BY <1>1, StartHolds, PTL DEF HostSpec

\* Whatever tasks there are and however many calls fail and lives end: the types
\* hold, and a container that Docker still has belongs to a task of the runner or
\* to a call to Docker that failed (HostRunner::launch_docker, stop, shutdown, init).
THEOREM HostSafe == HostSpec => []HostInv
<1>1. HostIInv => HostInv
  BY DEF HostIInv, HostInv
<1> QED
  BY <1>1, HostAlways, PTL

\* No step of a running daemon removes the directory of a task under a process of
\* its group, and none signals a group number after the group was proved gone
\* (Proc::signal, escalate, TaskDir::cleanup).
THEOREM TheLivingAreLeftAlone == HostSpec => HostKeeps
<1>1. HostIInv /\ [HostNext]_hostVars => [NotFromUnderTheLiving /\ ProvedGoneIsLeftAlone]_hostVars
  BY HostSteps DEF HostStep
<1> QED
  BY <1>1, HostAlways, PTL DEF HostSpec, HostKeeps
=============================================================================
