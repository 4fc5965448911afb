----------------------------- MODULE OrderOnce ------------------------------
(***************************************************************************)
(* What the executor promises for each order intent, whatever is delivered *)
(* and whenever it crashes: the intent is reserved at most once, a live    *)
(* order is placed only from a fresh reservation and at most once, and its *)
(* outcome is recorded at most once - an acknowledgement only for an order *)
(* that really went out (a paper order: that never did).                   *)
(***************************************************************************)
EXTENDS Naturals

CONSTANTS Intent, LiveIntent

VARIABLES
  stage,   \* how far the order of each intent has got
  sent     \* how many orders the exchange received for it

onceVars == <<stage, sent>>

Init ==
  /\ stage = [i \in Intent |-> "absent"]
  /\ sent = [i \in Intent |-> 0]

Reserve(i) ==
  /\ stage[i] = "absent"
  /\ stage' = [stage EXCEPT ![i] = "reserved"]
  /\ UNCHANGED sent

Place(i) ==
  /\ i \in LiveIntent /\ stage[i] = "reserved"
  /\ stage' = [stage EXCEPT ![i] = "placed"]
  /\ sent' = [sent EXCEPT ![i] = @ + 1]

Acknowledge(i) ==
  /\ stage[i] = IF i \in LiveIntent THEN "placed" ELSE "reserved"
  /\ stage' = [stage EXCEPT ![i] = "acknowledged"]
  /\ UNCHANGED sent

\* The answer was an error: the exchange may or may not have the order.
Fail(i) ==
  /\ i \in LiveIntent /\ stage[i] \in {"reserved", "placed"}
  /\ stage' = [stage EXCEPT ![i] = "failed"]
  /\ UNCHANGED sent

Next == \E i \in Intent : Reserve(i) \/ Place(i) \/ Acknowledge(i) \/ Fail(i)

Spec == Init /\ [][Next]_onceVars
=============================================================================
