--------------------------- MODULE OutboxDelivery ---------------------------
(***************************************************************************)
(* What the outbox promises for the events services write to it: nothing   *)
(* is sent before its transaction commits, what is settled was sent, and   *)
(* after an event is settled or given up it is not sent any more.  An      *)
(* event may be sent any number of times until then.                       *)
(***************************************************************************)
CONSTANT Event

VARIABLES
  stage,   \* "absent", "owed", "settled" or "abandoned", for each event
  sent     \* events that reached Redis at least once

deliveryVars == <<stage, sent>>

Init ==
  /\ stage = [e \in Event |-> "absent"]
  /\ sent = {}

\* The events of one transaction appear together.
Commit(S) ==
  /\ \A e \in S : stage[e] = "absent"
  /\ stage' = [e \in Event |-> IF e \in S THEN "owed" ELSE stage[e]]
  /\ UNCHANGED sent

Send(e) ==
  /\ stage[e] = "owed"
  /\ sent' = sent \cup {e}
  /\ UNCHANGED stage

Settle(e) ==
  /\ stage[e] = "owed" /\ e \in sent
  /\ stage' = [stage EXCEPT ![e] = "settled"]
  /\ UNCHANGED sent

Abandon(e) ==
  /\ stage[e] = "owed"
  /\ stage' = [stage EXCEPT ![e] = "abandoned"]
  /\ UNCHANGED sent

Next ==
  \/ \E S \in SUBSET Event : Commit(S)
  \/ \E e \in Event : Send(e) \/ Settle(e) \/ Abandon(e)

Spec == Init /\ [][Next]_deliveryVars
=============================================================================
