------------------------ MODULE IntentExecutorProofs ------------------------
(***************************************************************************)
(* The safety properties of IntentExecutor for every set of intents,       *)
(* deliveries and bots, every queue bound and every set of replies.        *)
(*                                                                         *)
(* No property is inductive by itself.  IInv adds what the task may assume *)
(* at each of its awaits: while it holds a message it is the only one that *)
(* touches the reserved row, so a row found pending at "execute" has not   *)
(* been sent, and a bot that reached "reserve" has not been auto-stopped.  *)
(***************************************************************************)
EXTENDS IntentExecutor, TLAPS

\* The task holds a message exactly while it works on one.
TaskOK ==
  /\ cur = NoDelivery <=> pc \in {"idle", "dead"}
  /\ pc = "persist" => reply # "none"

\* An order without a row was never sent, and none is sent twice.
RowOK ==
  \A i \in Intent :
    /\ order[i] = "none" => placed[i] = 0 /\ ~exchangeId[i]
    /\ BotOf[i] \notin LiveBot => placed[i] = 0
    /\ placed[i] <= 1
    /\ i \in reconciled => exchangeId[i]

\* The row the task has reserved is its own until the outcome is persisted.
AttemptOK ==
  /\ pc \in {"execute", "persist"} =>
       order[CurIntent] = "pending" /\ ~exchangeId[CurIntent]
  /\ pc = "execute" => placed[CurIntent] = 0
  /\ pc = "persist" =>
       IF CurBot \in LiveBot THEN reply # "error" => placed[CurIntent] = 1
                             ELSE reply = "filled"

\* An auto-stopped bot is stopped in the table, and past "validate" there is none.
StopOK ==
  /\ \A b \in autoStopped : emergency[b]
  /\ pc = "validate" /\ CurBot \in autoStopped => stopSeen
  /\ pc = "reserve" => CurBot \notin autoStopped

\* Rows of orders and of intents appear together.
DecisionOK ==
  /\ \A i \in Intent : order[i] # "none" => intentRow[i] # "none"
  /\ \A i \in Intent : intentRow[i] = "validated" => order[i] # "none"
  /\ \A d \in inbox : intentRow[IntentOf[d]] # "none"
  /\ pc = "inbox" => intentRow[CurIntent] # "none"

IInv == TypeOK /\ TaskOK /\ RowOK /\ AttemptOK /\ StopOK /\ DecisionOK /\ OutboxMatchesOrder

-----------------------------------------------------------------------------
\* "none" and "error" are no statuses an exchange reports, and the events of an outcome
\* are events of the outbox.
LEMMA StatusFacts ==
  /\ Reply \subseteq OrderStatus
  /\ "filled" \in OrderStatus /\ "failed" \in OrderStatus /\ "pending" \in OrderStatus
  /\ "none" \notin OrderStatus /\ "error" \notin OrderStatus
  /\ \A s \in OrderStatus : OutcomeEvents(s) \in SUBSET EventType
BY ExecutorAssumption
   DEF ExecutorAssumption, OrderStatus, EventType, OutcomeEvents, OrderEvent, ExecutionEvents

\* The step of the task that handles a message has a delivery in hand.
LEMMA TaskHolds ==
  ASSUME TypeOK, TaskOK, pc \notin {"idle", "dead"}
  PROVE  cur \in Delivery /\ CurIntent \in Intent /\ CurBot \in Bot
BY ExecutorAssumption DEF ExecutorAssumption, TypeOK, TaskOK, CurIntent, CurBot

LEMMA InitIInv == Init => IInv
<1> SUFFICES ASSUME Init PROVE IInv
  OBVIOUS
<1>1. TypeOK
  <2>1. queue \in Seq(Delivery)
    BY DEF Init
  <2>2. emitted \in [Intent -> SUBSET EventType] /\ pc \in Step
    BY DEF Init, Step
  <2> QED BY <2>1, <2>2 DEF Init, TypeOK
<1>2. TaskOK /\ RowOK /\ AttemptOK /\ StopOK
  BY DEF Init, TaskOK, RowOK, AttemptOK, StopOK
<1>3. DecisionOK /\ OutboxMatchesOrder
  BY DEF Init, DecisionOK, OutboxMatchesOrder
<1> QED BY <1>1, <1>2, <1>3 DEF IInv

\* Every step keeps the types and the task's bookkeeping.
LEMMA TypeStep == TypeOK /\ TaskOK /\ [Next]_vars => TypeOK' /\ TaskOK'
<1> SUFFICES ASSUME TypeOK, TaskOK, [Next]_vars PROVE TypeOK' /\ TaskOK'
  OBVIOUS
<1> USE ExecutorAssumption, StatusFacts DEF ExecutorAssumption, TypeOK, TaskOK, Step
<1>1. CASE Blpop
  <2>1. Head(queue) \in Delivery /\ Tail(queue) \in Seq(Delivery)
    BY <1>1 DEF Blpop
  <2> QED BY <1>1, <2>1 DEF Blpop, dbVars, riskVars
<1>2. CASE CheckInbox
  BY <1>2 DEF CheckInbox, NextMessage, Goto, dbVars, riskVars
<1>3. CASE LoadSettings
  BY <1>3, TaskHolds DEF LoadSettings, dbVars, riskVars
<1>4. CASE RiskPass \/ RiskReject \/ RiskAutoStop
  BY <1>4 DEF RiskPass, RiskReject, RiskAutoStop, Goto, dbVars, riskVars
<1>5. CASE AutoStopEmergency
  BY <1>5, TaskHolds DEF AutoStopEmergency, Goto, dbVars
<1>6. CASE AutoStopPause
  BY <1>6 DEF AutoStopPause, Goto, dbVars
<1>7. CASE SaveRejected
  BY <1>7, TaskHolds DEF SaveRejected, Emit, EventType, Goto, riskVars
<1>8. CASE ReserveOrder
  BY <1>8, TaskHolds DEF ReserveOrder, Emit, EventType, Goto, riskVars
<1>9. CASE SkipDuplicate \/ ReserveFails
  BY <1>9 DEF SkipDuplicate, ReserveFails, NextMessage, Goto, dbVars, riskVars
<1>10. CASE ExecutePaper
  BY <1>10 DEF ExecutePaper, dbVars, riskVars
<1>11. CASE ExecuteLive
  BY <1>11, TaskHolds DEF ExecuteLive, dbVars, riskVars
<1>12. CASE ExecuteLiveFails
  BY <1>12 DEF ExecuteLiveFails, dbVars, riskVars
<1>13. CASE PersistOutcome
  <2> DEFINE s == IF reply = "error" THEN "failed" ELSE reply
  <2>1. s \in OrderStatus
    BY <1>13 DEF PersistOutcome
  <2>2. order' = [order EXCEPT ![CurIntent] = s] /\ Emit(CurIntent, OutcomeEvents(s))
    BY <1>13 DEF PersistOutcome
  <2>3. OutcomeEvents(s) \in SUBSET EventType
    BY <2>1
  <2> HIDE DEF s
  <2>4. order' \in [Intent -> OrderStatus \cup {"none"}]
    BY <2>1, <2>2
  <2>5. emitted' \in [Intent -> SUBSET EventType]
    BY <2>2, <2>3 DEF Emit
  <2> QED BY <1>13, <2>4, <2>5 DEF PersistOutcome, NextMessage, Goto, riskVars
<1>14. CASE SaveInbox
  BY <1>14, TaskHolds DEF SaveInbox, NextMessage, riskVars
<1>15. CASE DbError \/ Restart
  BY <1>15 DEF DbError, Restart, NextMessage, dbVars, riskVars
<1>16. CASE BrokerError
  <2>1. queue # <<>> => Tail(queue) \in Seq(Delivery)
    OBVIOUS
  <2>2. queue' \in Seq(Delivery)
    BY <1>16, <2>1 DEF BrokerError
  <2> QED BY <1>16, <2>2 DEF BrokerError, Goto, dbVars, riskVars
<1>17. ASSUME NEW b \in Bot, NEW value \in BOOLEAN, SetEmergency(b, value)
       PROVE  TypeOK' /\ TaskOK'
  BY <1>17 DEF SetEmergency, dbVars, taskVars
<1>18. ASSUME NEW b \in Bot, NEW s \in {"active", "inactive"}, SetBotStatus(b, s)
       PROVE  TypeOK' /\ TaskOK'
  BY <1>18 DEF SetBotStatus, dbVars, taskVars
<1>19. ASSUME NEW d \in Delivery, Deliver(d) PROVE TypeOK' /\ TaskOK'
  BY <1>19 DEF Deliver, dbVars, riskVars, taskVars
<1>20. ASSUME NEW i \in Intent, Reconcile(i) PROVE TypeOK' /\ TaskOK'
  BY <1>20 DEF Reconcile, riskVars, taskVars
<1>21. CASE UNCHANGED vars
  BY <1>21 DEF vars
<1> QED
  BY <1>1, <1>2, <1>3, <1>4, <1>5, <1>6, <1>7, <1>8, <1>9, <1>10, <1>11, <1>12, <1>13,
     <1>14, <1>15, <1>16, <1>17, <1>18, <1>19, <1>20, <1>21
     DEF Next, ExecutorStep, Fault, ApiStep

-----------------------------------------------------------------------------
\* Four kinds of step write the rows of orders and intents, one kind reaches the exchange.
LEMMA Writers ==
  ASSUME [Next]_vars
  PROVE  /\ \/ UNCHANGED <<intentRow, order, exchangeId, emitted, reconciled>>
            \/ SaveRejected \/ ReserveOrder \/ PersistOutcome
            \/ \E i \in Intent : Reconcile(i)
         /\ UNCHANGED placed \/ ExecuteLive
<1> USE DEF dbVars, riskVars, taskVars
<1>1. CASE Blpop \/ CheckInbox \/ LoadSettings \/ RiskPass \/ RiskReject \/ RiskAutoStop
  BY <1>1 DEF Blpop, CheckInbox, LoadSettings, RiskPass, RiskReject, RiskAutoStop
<1>2. CASE AutoStopEmergency \/ AutoStopPause \/ SaveInbox
  BY <1>2 DEF AutoStopEmergency, AutoStopPause, SaveInbox
<1>3. CASE SaveRejected \/ ReserveOrder \/ PersistOutcome
  BY <1>3 DEF SaveRejected, ReserveOrder, PersistOutcome
<1>4. CASE SkipDuplicate \/ ReserveFails
  BY <1>4 DEF SkipDuplicate, ReserveFails
<1>5. CASE ExecutePaper \/ ExecuteLive \/ ExecuteLiveFails
  BY <1>5 DEF ExecutePaper, ExecuteLive, ExecuteLiveFails
<1>6. CASE Fault
  BY <1>6 DEF Fault, DbError, BrokerError, Restart
<1>7. CASE ApiStep \/ \E d \in Delivery : Deliver(d)
  BY <1>7 DEF ApiStep, SetEmergency, SetBotStatus, Deliver
<1>8. CASE \E i \in Intent : Reconcile(i)
  BY <1>8 DEF Reconcile
<1>9. CASE UNCHANGED vars
  BY <1>9 DEF vars
<1> QED
  BY <1>1, <1>2, <1>3, <1>4, <1>5, <1>6, <1>7, <1>8, <1>9 DEF Next, ExecutorStep

\* The task enters "execute" only by reserving and "persist" only by executing; in
\* between, its message and its row stay as they are.
LEMMA AttemptMoves ==
  ASSUME TypeOK, TaskOK, [Next]_vars, pc' \in {"execute", "persist"}
  PROVE  \/ ReserveOrder \/ ExecutePaper \/ ExecuteLive \/ ExecuteLiveFails
         \/ UNCHANGED <<pc, cur, reply>>
<1> USE DEF taskVars
<1>1. CASE ExecutorStep
  BY <1>1 DEF ExecutorStep, Blpop, CheckInbox, LoadSettings, RiskPass, RiskReject,
              RiskAutoStop, AutoStopEmergency, AutoStopPause, SaveRejected, SkipDuplicate,
              ReserveFails, PersistOutcome, SaveInbox, Goto, NextMessage
<1>2. CASE Fault
  BY <1>2 DEF Fault, DbError, BrokerError, Restart, Goto, NextMessage
<1>3. CASE ApiStep
  BY <1>3 DEF ApiStep, SetEmergency, SetBotStatus
<1>4. CASE \E d \in Delivery : Deliver(d)
  BY <1>4 DEF Deliver
<1>5. CASE \E i \in Intent : Reconcile(i)
  BY <1>5 DEF Reconcile
<1>6. CASE UNCHANGED vars
  BY <1>6 DEF vars
<1> QED BY <1>1, <1>2, <1>3, <1>4, <1>5, <1>6 DEF Next

\* Every step keeps the rows in order: only the reserved row is sent, and once.
LEMMA RowStep ==
  ASSUME TypeOK, TaskOK, RowOK, AttemptOK, [Next]_vars
  PROVE  RowOK'
<1>1. CASE UNCHANGED <<order, exchangeId, reconciled, placed>>
  BY <1>1 DEF RowOK
<1>2. CASE SaveRejected
  BY <1>2, Writers DEF SaveRejected, RowOK
<1>3. CASE ReserveOrder
  BY <1>3, TaskHolds DEF ReserveOrder, RowOK, TypeOK, riskVars
<1>4. CASE PersistOutcome
  <2>1. CurIntent \in Intent
    BY <1>4, TaskHolds DEF PersistOutcome
  <2>2. order[CurIntent] # "none" /\ ~exchangeId[CurIntent]
    BY <1>4 DEF PersistOutcome, AttemptOK
  <2>3. order'[CurIntent] # "none"
    BY <1>4, <2>1, StatusFacts DEF PersistOutcome, TaskOK, TypeOK
  <2> QED BY <1>4, <2>1, <2>2, <2>3 DEF PersistOutcome, RowOK, TypeOK
<1>5. ASSUME NEW i \in Intent, Reconcile(i) PROVE RowOK'
  BY <1>5, StatusFacts DEF Reconcile, RowOK, TypeOK
<1>6. CASE ExecuteLive
  <2>1. CurIntent \in Intent
    BY <1>6, TaskHolds DEF ExecuteLive
  <2>2. order[CurIntent] = "pending" /\ placed[CurIntent] = 0
    BY <1>6 DEF ExecuteLive, AttemptOK
  <2> QED BY <1>6, <2>1, <2>2 DEF ExecuteLive, RowOK, TypeOK, CurBot, dbVars
<1> QED BY <1>1, <1>2, <1>3, <1>4, <1>5, <1>6, Writers

\* What the task knows of the reserved row stays true until it persists the outcome.
LEMMA AttemptStep ==
  ASSUME TypeOK, TaskOK, RowOK, AttemptOK, [Next]_vars
  PROVE  AttemptOK'
<1> SUFFICES ASSUME pc' \in {"execute", "persist"} PROVE AttemptOK'
  BY DEF AttemptOK
<1>1. CASE ReserveOrder
  BY <1>1, TaskHolds DEF ReserveOrder, Reservable, Goto, RowOK, AttemptOK, TypeOK, CurIntent, CurBot
<1>2. CASE ExecutePaper
  BY <1>2 DEF ExecutePaper, AttemptOK, dbVars, CurIntent, CurBot
<1>3. CASE ExecuteLive
  BY <1>3, TaskHolds DEF ExecuteLive, AttemptOK, TypeOK, dbVars, CurIntent, CurBot
<1>4. CASE ExecuteLiveFails
  BY <1>4 DEF ExecuteLiveFails, AttemptOK, dbVars, CurIntent, CurBot
<1>5. CASE UNCHANGED <<pc, cur, reply>>
  <2>1. UNCHANGED <<CurIntent, CurBot>>
    BY <1>5 DEF CurIntent, CurBot
  <2>2. ~SaveRejected /\ ~ReserveOrder /\ ~PersistOutcome /\ ~ExecuteLive
    BY <1>5 DEF SaveRejected, ReserveOrder, PersistOutcome, ExecuteLive, Goto, NextMessage
  <2>3. CASE UNCHANGED <<order, exchangeId, placed>>
    BY <1>5, <2>1, <2>3 DEF AttemptOK
  <2>4. ASSUME NEW i \in Intent, Reconcile(i) PROVE AttemptOK'
    <3>1. CurIntent # i
      BY <1>5, <2>4 DEF Reconcile, AttemptOK
    <3> QED BY <1>5, <2>1, <2>4, <3>1 DEF Reconcile, AttemptOK, TypeOK
  <2> QED BY <2>2, <2>3, <2>4, Writers
<1> QED BY <1>1, <1>2, <1>3, <1>4, <1>5, AttemptMoves

\* An auto-stop is on record before the task goes on, and only the API takes it back.
LEMMA StopStep ==
  ASSUME TypeOK, TaskOK, StopOK, [Next]_vars
  PROVE  StopOK'
<1> USE DEF StopOK, CurIntent, CurBot, taskVars
<1>1. CASE UNCHANGED <<emergency, autoStopped, pc, cur, stopSeen>>
  BY <1>1
<1>2. CASE UNCHANGED <<emergency, autoStopped>> /\ pc' \notin {"validate", "reserve"}
  BY <1>2
<1>3. CASE LoadSettings
  BY <1>3, TaskHolds DEF LoadSettings, riskVars, TypeOK
<1>4. CASE RiskPass
  BY <1>4 DEF RiskPass, PassesEmergencyStop, Goto, riskVars
<1>5. CASE AutoStopEmergency
  BY <1>5, TaskHolds DEF AutoStopEmergency, Goto, TypeOK
<1>6. CASE AutoStopPause
  BY <1>6, <1>2 DEF AutoStopPause, Goto
<1>7. CASE ExecutorStep /\ ~LoadSettings /\ ~RiskPass /\ ~AutoStopEmergency /\ ~AutoStopPause
  <2>1. UNCHANGED <<emergency, autoStopped>> /\ pc' \notin {"validate", "reserve"}
    BY <1>7 DEF ExecutorStep, Blpop, CheckInbox, RiskReject, RiskAutoStop, SaveRejected,
                ReserveOrder, SkipDuplicate, ReserveFails, ExecutePaper, ExecuteLive,
                ExecuteLiveFails, PersistOutcome, SaveInbox, Goto, NextMessage, riskVars
  <2> QED BY <2>1, <1>2
<1>8. CASE Fault
  BY <1>8, <1>2 DEF Fault, DbError, BrokerError, Restart, Goto, NextMessage, riskVars
<1>9. ASSUME NEW b \in Bot, NEW value \in BOOLEAN, SetEmergency(b, value) PROVE StopOK'
  BY <1>9 DEF SetEmergency, TypeOK
<1>10. CASE \E b \in Bot : \E s \in {"active", "inactive"} : SetBotStatus(b, s)
  BY <1>10, <1>1 DEF SetBotStatus
<1>11. CASE \E d \in Delivery : Deliver(d)
  BY <1>11, <1>1 DEF Deliver, riskVars
<1>12. CASE \E i \in Intent : Reconcile(i)
  BY <1>12, <1>1 DEF Reconcile, riskVars
<1>13. CASE UNCHANGED vars
  BY <1>13, <1>1 DEF vars
<1> QED
  BY <1>3, <1>4, <1>5, <1>6, <1>7, <1>8, <1>9, <1>10, <1>11, <1>12, <1>13 DEF Next, ApiStep

\* The inbox grows only by a message whose intent is decided.
LEMMA InboxMoves ==
  ASSUME TypeOK, TaskOK, [Next]_vars
  PROVE  /\ UNCHANGED inbox \/ SaveInbox
         /\ \/ pc' # "inbox"
            \/ SaveRejected \/ SkipDuplicate \/ PersistOutcome
            \/ UNCHANGED <<pc, cur>>
<1> USE DEF dbVars, taskVars
<1>1. CASE ExecutorStep
  BY <1>1 DEF ExecutorStep, Blpop, CheckInbox, LoadSettings, RiskPass, RiskReject,
              RiskAutoStop, AutoStopEmergency, AutoStopPause, SaveRejected, ReserveOrder,
              SkipDuplicate, ReserveFails, ExecutePaper, ExecuteLive, ExecuteLiveFails,
              PersistOutcome, SaveInbox, Goto, NextMessage
<1>2. CASE Fault
  BY <1>2 DEF Fault, DbError, BrokerError, Restart, Goto, NextMessage
<1>3. CASE ApiStep \/ \E d \in Delivery : Deliver(d)
  BY <1>3 DEF ApiStep, SetEmergency, SetBotStatus, Deliver
<1>4. CASE \E i \in Intent : Reconcile(i)
  BY <1>4 DEF Reconcile
<1>5. CASE UNCHANGED vars
  BY <1>5 DEF vars
<1> QED BY <1>1, <1>2, <1>3, <1>4, <1>5 DEF Next

\* Every step keeps decisions and orders together.
LEMMA DecisionStep ==
  ASSUME TypeOK, TaskOK, AttemptOK, DecisionOK, [Next]_vars
  PROVE  DecisionOK'
<1> DEFINE Rows   == /\ \A i \in Intent : order[i] # "none" => intentRow[i] # "none"
                     /\ \A i \in Intent : intentRow[i] = "validated" => order[i] # "none"
           Kept   == \A i \in Intent : intentRow[i] # "none" => intentRow'[i] # "none"
<1>1. Rows' /\ Kept
  <2>1. CASE UNCHANGED <<intentRow, order>>
    BY <2>1 DEF DecisionOK
  <2>2. CASE SaveRejected
    BY <2>2, TaskHolds DEF SaveRejected, DecisionOK, TypeOK
  <2>3. CASE ReserveOrder
    BY <2>3, TaskHolds DEF ReserveOrder, DecisionOK, TypeOK
  <2>4. CASE PersistOutcome
    <3>1. order'[CurIntent] # "none" /\ order[CurIntent] # "none" /\ CurIntent \in Intent
      BY <2>4, TaskHolds, StatusFacts DEF PersistOutcome, AttemptOK, TaskOK, TypeOK
    <3> QED BY <2>4, <3>1 DEF PersistOutcome, DecisionOK, TypeOK
  <2>5. ASSUME NEW i \in Intent, Reconcile(i) PROVE Rows' /\ Kept
    BY <2>5, StatusFacts DEF Reconcile, DecisionOK, TypeOK, OpenStatus
  <2> QED BY <2>1, <2>2, <2>3, <2>4, <2>5, Writers
<1>2. \A d \in inbox' : intentRow'[IntentOf[d]] # "none"
  <2>1. CASE UNCHANGED inbox
    BY <2>1, <1>1, ExecutorAssumption DEF DecisionOK, TypeOK, ExecutorAssumption
  <2>2. CASE SaveInbox
    BY <2>2, <1>1, ExecutorAssumption
       DEF SaveInbox, DecisionOK, TypeOK, CurIntent, ExecutorAssumption
  <2> QED BY <2>1, <2>2, InboxMoves
<1>3. pc' = "inbox" => intentRow'[CurIntent'] # "none"
  <2> SUFFICES ASSUME pc' = "inbox" PROVE intentRow'[CurIntent'] # "none"
    OBVIOUS
  <2>1. CASE SaveRejected
    BY <2>1, TaskHolds DEF SaveRejected, Goto, CurIntent, TypeOK
  <2>2. CASE SkipDuplicate
    BY <2>2, TaskHolds DEF SkipDuplicate, Reservable, Goto, dbVars, CurIntent, DecisionOK
  <2>3. CASE PersistOutcome
    <3>1. UNCHANGED CurIntent
      BY <2>3 DEF PersistOutcome, Goto, NextMessage, CurIntent
    <3> QED BY <2>3, <3>1, TaskHolds DEF PersistOutcome, AttemptOK, DecisionOK
  <2>4. CASE UNCHANGED <<pc, cur>>
    BY <2>4, <1>1, TaskHolds DEF DecisionOK, CurIntent
  <2> QED BY <2>1, <2>2, <2>3, <2>4, InboxMoves
<1> QED BY <1>1, <1>2, <1>3 DEF DecisionOK

\* The events of an outcome are the ones OutboxMatchesOrder asks for.
LEMMA OutcomeFacts ==
  ASSUME NEW s \in OrderStatus
  PROVE  LET e == OutcomeEvents(s) IN
         /\ "risk.check.passed" \notin e
         /\ "order.accepted" \in e <=> s \in {"accepted", "filled", "partially_filled"}
         /\ "order.rejected" \in e <=> s \in {"rejected", "cancelled", "failed"}
         /\ "execution.filled" \in e <=> s = "filled"
         /\ "execution.failed" \in e <=> "order.rejected" \in e
BY DEF OrderStatus, OutcomeEvents, OrderEvent, ExecutionEvents

\* Every transaction writes the row and its events together.
LEMMA OutboxStep ==
  ASSUME TypeOK, TaskOK, RowOK, AttemptOK, OutboxMatchesOrder, [Next]_vars
  PROVE  OutboxMatchesOrder'
<1>1. CASE UNCHANGED <<intentRow, order, exchangeId, emitted, reconciled>>
  BY <1>1 DEF OutboxMatchesOrder
<1>2. CASE SaveRejected
  <2>1. \A i \in Intent : emitted'[i] \in {emitted[i], emitted[i] \cup {"risk.check.failed"}}
    BY <1>2, TaskHolds DEF SaveRejected, Emit, TypeOK
  <2> QED BY <1>2, <2>1 DEF SaveRejected, OutboxMatchesOrder
<1>3. CASE ReserveOrder
  <2>1. CurIntent \in Intent /\ order[CurIntent] = "none"
    BY <1>3, TaskHolds DEF ReserveOrder, Reservable
  <2>2. CurIntent \notin reconciled
    BY <2>1 DEF RowOK
  <2>3. /\ emitted'[CurIntent] = emitted[CurIntent] \cup {"risk.check.passed", "order.submitted"}
        /\ order'[CurIntent] = "pending" /\ reconciled' = reconciled
        /\ \A i \in Intent \ {CurIntent} : order'[i] = order[i] /\ emitted'[i] = emitted[i]
    BY <1>3, <2>1 DEF ReserveOrder, Emit, TypeOK
  <2> QED BY <2>1, <2>2, <2>3 DEF OutboxMatchesOrder
<1>4. CASE PersistOutcome
  <2> DEFINE s == IF reply = "error" THEN "failed" ELSE reply
  <2>1. CurIntent \in Intent /\ order[CurIntent] = "pending" /\ ~exchangeId[CurIntent]
    BY <1>4, TaskHolds DEF PersistOutcome, AttemptOK
  <2>2. CurIntent \notin reconciled
    BY <2>1 DEF RowOK
  <2>3. s \in OrderStatus
    BY <1>4, StatusFacts DEF PersistOutcome, TaskOK, TypeOK
  <2>4. order' = [order EXCEPT ![CurIntent] = s] /\ Emit(CurIntent, OutcomeEvents(s))
    BY <1>4 DEF PersistOutcome
  <2> HIDE DEF s
  <2>5. /\ emitted'[CurIntent] = emitted[CurIntent] \cup OutcomeEvents(s)
        /\ order'[CurIntent] = s /\ reconciled' = reconciled
        /\ \A i \in Intent \ {CurIntent} : order'[i] = order[i] /\ emitted'[i] = emitted[i]
    BY <1>4, <2>1, <2>4 DEF PersistOutcome, Emit, TypeOK
  <2>6. s # "none"
    BY <2>3, StatusFacts
  <2> QED BY <2>1, <2>2, <2>3, <2>5, <2>6, OutcomeFacts DEF OutboxMatchesOrder
<1>5. ASSUME NEW i \in Intent, Reconcile(i) PROVE OutboxMatchesOrder'
  BY <1>5 DEF Reconcile, OutboxMatchesOrder, TypeOK
<1> QED BY <1>1, <1>2, <1>3, <1>4, <1>5, Writers

-----------------------------------------------------------------------------
\* The inductive invariant holds in every state of every behaviour.
THEOREM Invariance == Spec => []IInv
<1>1. IInv /\ [Next]_vars => IInv'
  BY TypeStep, RowStep, AttemptStep, StopStep, DecisionStep, OutboxStep DEF IInv
<1> QED BY <1>1, InitIInv, PTL DEF Spec

\* Each variable of the executor's state keeps its type (TypeOK).
THEOREM TypeCorrect == Spec => []TypeOK
<1>1. IInv => TypeOK
  BY DEF IInv
<1> QED BY <1>1, Invariance, PTL

\* The exchange receives at most one order for an intent, however often it is delivered
\* and wherever the executor stops (app.rs, reserve before execution).
THEOREM OneOrderPerIntent == Spec => []AtMostOnePlacement
<1>1. IInv => AtMostOnePlacement
  BY DEF IInv, RowOK, AtMostOnePlacement
<1> QED BY <1>1, Invariance, PTL

\* The outbox tells the story of every order row the reconciler has not moved on.
THEOREM OutboxFaithful == Spec => []OutboxMatchesOrder
<1>1. IInv => OutboxMatchesOrder
  BY DEF IInv
<1> QED BY <1>1, Invariance, PTL

\* An inbox row stands for a decided intent, with its order if it was accepted.
THEOREM InboxFaithful == Spec => []InboxMeansDecided
<1>1. IInv => InboxMeansDecided
  BY ExecutorAssumption DEF IInv, DecisionOK, InboxMeansDecided, TypeOK, ExecutorAssumption
<1> QED BY <1>1, Invariance, PTL

\* A bot the risk engine has stopped gets no new order until the API clears the stop.
THEOREM AutoStopFinal == Spec => AutoStopHolds
<1> DEFINE Quiet == \A i \in Intent : BotOf[i] \in autoStopped /\ order[i] = "none"
                                         => order'[i] = "none"
<1>1. IInv /\ [Next]_vars => [Quiet]_vars
  <2> SUFFICES ASSUME IInv, [Next]_vars PROVE Quiet
    OBVIOUS
  <2> USE DEF IInv
  <2>1. CASE UNCHANGED order \/ SaveRejected
    BY <2>1 DEF SaveRejected
  <2>2. CASE ReserveOrder
    BY <2>2, TaskHolds DEF ReserveOrder, StopOK, CurBot, TypeOK
  <2>3. CASE PersistOutcome
    BY <2>3, TaskHolds DEF PersistOutcome, AttemptOK, TypeOK
  <2>4. ASSUME NEW i \in Intent, Reconcile(i) PROVE Quiet
    BY <2>4 DEF Reconcile, OpenStatus, TypeOK
  <2> QED BY <2>1, <2>2, <2>3, <2>4, Writers
<1> QED BY <1>1, Invariance, PTL DEF Spec, AutoStopHolds

-----------------------------------------------------------------------------
\* The orders of all intents as OrderOnce sees them.
Stages == [i \in Intent |-> Stage(i)]

\* Every step of the executor is a step of OrderOnce or leaves its state alone.
LEMMA OnceStep == IInv /\ [Next]_vars => [Once!Next]_<<Stages, placed>>
<1> SUFFICES ASSUME IInv, [Next]_vars PROVE [Once!Next]_<<Stages, placed>>
  OBVIOUS
<1> USE DEF IInv
<1>1. CASE UNCHANGED <<order, exchangeId, placed>>
  BY <1>1 DEF Stages, Stage
<1>2. CASE SaveRejected
  BY <1>2, <1>1 DEF SaveRejected
<1>3. CASE ReserveOrder
  <2>1. /\ CurIntent \in Intent /\ order[CurIntent] = "none" /\ order'[CurIntent] = "pending"
        /\ UNCHANGED <<exchangeId, placed>>
        /\ \A j \in Intent \ {CurIntent} : order'[j] = order[j]
    BY <1>3, TaskHolds DEF ReserveOrder, Reservable, TypeOK
  <2>2. placed[CurIntent] = 0 /\ ~exchangeId[CurIntent]
    BY <2>1 DEF RowOK
  <2> DEFINE i == CurIntent
  <2>3. Stage(i) = "absent"
    BY <2>1 DEF Stage
  <2>4. Stages' = [Stages EXCEPT ![i] = "reserved"]
    <3>1. \A k \in Intent : Stage(k)' = IF k = i THEN "reserved" ELSE Stage(k)
      BY <2>1, <2>2 DEF Stage
    <3> QED BY <3>1 DEF Stages
  <2>5. Once!Reserve(i)
    BY <2>1, <2>3, <2>4 DEF Once!Reserve, Stages
  <2> QED BY <2>1, <2>5 DEF Once!Next
<1>4. CASE ExecuteLive
  <2> DEFINE i == CurIntent
  <2>1. /\ i \in Intent /\ BotOf[i] \in LiveBot
        /\ order[i] = "pending" /\ placed[i] = 0 /\ ~exchangeId[i]
    BY <1>4, TaskHolds DEF ExecuteLive, AttemptOK, CurBot
  <2>2. UNCHANGED <<order, exchangeId>> /\ placed' = [placed EXCEPT ![i] = @ + 1]
    BY <1>4 DEF ExecuteLive, dbVars
  <2>3. Stages' = [Stages EXCEPT ![i] = "placed"]
    <3>1. \A k \in Intent : Stage(k)' = IF k = i THEN "placed" ELSE Stage(k)
      BY <2>1, <2>2 DEF Stage, TypeOK
    <3> QED BY <3>1 DEF Stages
  <2>4. Once!Place(i)
    BY <2>1, <2>2, <2>3 DEF Once!Place, Stages, Stage
  <2> QED BY <2>1, <2>4 DEF Once!Next
<1>5. CASE PersistOutcome
  <2> DEFINE i == CurIntent
  <2>1. i \in Intent /\ order[i] = "pending" /\ ~exchangeId[i] /\ placed[i] \in Nat /\ placed[i] <= 1
    BY <1>5, TaskHolds DEF PersistOutcome, AttemptOK, RowOK, TypeOK
  <2>2. /\ UNCHANGED placed
        /\ exchangeId' = [exchangeId EXCEPT ![i] = (reply # "error")]
        /\ order' = [order EXCEPT ![i] = IF reply = "error" THEN "failed" ELSE reply]
    BY <1>5 DEF PersistOutcome
  <2>3. CASE reply = "error"
    <3>1. BotOf[i] \in LiveBot
      BY <1>5, <2>3 DEF PersistOutcome, AttemptOK, CurBot
    <3>2. \A k \in Intent : Stage(k)' = IF k = i THEN "failed" ELSE Stage(k)
      BY <2>1, <2>2, <2>3 DEF Stage, TypeOK
    <3>3. Stages' = [Stages EXCEPT ![i] = "failed"]
      BY <3>2 DEF Stages
    <3>4. Once!Fail(i)
      BY <2>1, <2>2, <3>1, <3>3 DEF Once!Fail, Stages, Stage
    <3> QED BY <2>1, <3>4 DEF Once!Next
  <2>4. CASE reply # "error"
    <3>1. order'[i] # "none"
      BY <1>5, <2>1, <2>2, <2>4, StatusFacts DEF PersistOutcome, TaskOK, TypeOK
    <3>2. \A k \in Intent : Stage(k)' = IF k = i THEN "acknowledged" ELSE Stage(k)
      BY <2>1, <2>2, <2>4, <3>1 DEF Stage, TypeOK
    <3>3. Stages' = [Stages EXCEPT ![i] = "acknowledged"]
      BY <3>2 DEF Stages
    <3>4. Stage(i) = IF BotOf[i] \in LiveBot THEN "placed" ELSE "reserved"
      BY <1>5, <2>1, <2>4 DEF PersistOutcome, AttemptOK, RowOK, Stage, CurBot
    <3>5. Once!Acknowledge(i)
      BY <2>1, <2>2, <3>3, <3>4 DEF Once!Acknowledge, Stages
    <3> QED BY <2>1, <3>5 DEF Once!Next
  <2> QED BY <2>3, <2>4
<1>6. ASSUME NEW i \in Intent, Reconcile(i) PROVE UNCHANGED <<Stages, placed>>
  <2>1. order[i] # "none" /\ order'[i] # "none" /\ exchangeId[i] /\ UNCHANGED <<exchangeId, placed>>
    BY <1>6, StatusFacts DEF Reconcile, OpenStatus, TypeOK
  <2>2. \A k \in Intent : Stage(k)' = Stage(k)
    BY <1>6, <2>1 DEF Reconcile, Stage, TypeOK
  <2> QED BY <2>1, <2>2 DEF Stages
<1> QED BY <1>1, <1>2, <1>3, <1>4, <1>5, <1>6, Writers

\* The executor implements OrderOnce: whatever is delivered and wherever it stops, each
\* intent is reserved, sent and answered at most once, in that order.
THEOREM Refinement == Spec => ImplementsOrderOnce
<1>1. Init => Once!Init
  BY DEF Init, Once!Init, Stage
<1>2. IInv /\ [Next]_vars => [Once!Next]_Once!onceVars
  BY OnceStep DEF Once!onceVars, Stages
<1> QED BY <1>1, <1>2, Invariance, PTL DEF Spec, ImplementsOrderOnce, Once!Spec
=============================================================================
