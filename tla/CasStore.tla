------------------------------ MODULE CasStore ------------------------------
(***************************************************************************)
(* What a lease store promises: one object that changes only by a request  *)
(* that was asked and names the object as it is at that very moment, and   *)
(* otherwise only when the store itself fails.                             *)
(***************************************************************************)
EXTENDS Naturals

CONSTANTS Body, None

VARIABLES obj, asked, faults

casVars == <<obj, asked, faults>>

Request == [over : {None} \cup Body, body : {None} \cup Body]

CasInit == obj = None /\ asked = {} /\ faults = 0

\* Requests come and go: lost, answered, refused.
Ask == asked' \subseteq Request /\ UNCHANGED <<obj, faults>>

Apply ==
  \E r \in asked :
    /\ r.over = obj
    /\ obj' = r.body
    /\ asked' \subseteq Request
    /\ UNCHANGED faults

Fault ==
  /\ faults' = faults + 1
  /\ obj' \in {None} \cup Body
  /\ asked' \subseteq Request

CasNext == Ask \/ Apply \/ Fault

CasSpec == CasInit /\ [][CasNext]_casVars
=============================================================================
