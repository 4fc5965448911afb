-------------------------- MODULE OrderPipelineProofs -----------------------
(***************************************************************************)
(* The pipeline for every set of intents and bots and every bound: it      *)
(* implements the executor alone, so all that IntentExecutorProofs proves  *)
(* holds of it, and no order goes before its signal.                       *)
(***************************************************************************)
EXTENDS OrderPipeline, TLAPS

P == INSTANCE IntentExecutorProofs WITH IntentOf <- [d \in Delivery |-> d[2]]

\* What the feeders hold has its type.
FeederOK ==
  /\ row \in [Intent -> {"none", "pending", "processed", "failed"}]
  /\ retries \in [Intent -> 0..MaxRetries]
  /\ activeBots \subseteq Bot
  /\ pushing \in Intent \cup {NoIntent}
  /\ marking \in Intent \cup {NoIntent}
  /\ faults \in 0..MaxFaults

\* A row that is due, or is still to come, has retries left.
RetriesLeft == \A i \in Intent : row[i] \in {"none", "pending"} => retries[i] < MaxRetries

\* Whatever is on its way to the executor, or with it, has a row.
Committed ==
  /\ \A n \in 1..Len(queue) : row[queue[n][2]] # "none"
  /\ cur # NoDelivery => row[cur[2]] # "none"
  /\ pushing # NoIntent => row[pushing] # "none"
  /\ marking # NoIntent => row[marking] # "none"

-----------------------------------------------------------------------------
\* The deliveries of the pipeline are deliveries to the executor.
LEMMA Deliveries ==
  /\ \A i \in Intent : Raw(i) \in Delivery /\ Env(i) \in Delivery
  /\ \A i \in Intent : Raw(i)[2] = i /\ Env(i)[2] = i
  /\ \A d \in Delivery : d[2] \in Intent
BY DEF Raw, Env, Delivery

LEMMA ExecutorAssumed == P!ExecutorAssumption
BY PipelineAssumption
   DEF PipelineAssumption, P!ExecutorAssumption, Delivery, P!OrderStatus, X!OrderStatus

\* The feeders begin with nothing on its way, and no decision is taken.
LEMMA FeederInit == Init => FeederOK /\ RetriesLeft /\ Committed /\ OrderHasSignal
BY PipelineAssumption
   DEF PipelineAssumption, Init, FeederOK, RetriesLeft, Committed, OrderHasSignal, X!Init

\* Rows are made of the statuses that exist, and none disappears.
LEMMA FeederStep ==
  ASSUME FeederOK, RetriesLeft, [Next]_vars
  PROVE  /\ FeederOK' /\ RetriesLeft'
         /\ \A i \in Intent : row[i] # "none" => row'[i] # "none"
<1>0. MaxRetries \in Nat \ {0} /\ MaxFaults \in Nat /\ NoIntent \notin Intent
  BY PipelineAssumption DEF PipelineAssumption
<1>1. CASE UNCHANGED feederVars /\ (UNCHANGED faults \/ CountFault)
  <2>1. faults' \in 0..MaxFaults
    BY <1>0, <1>1 DEF FeederOK, CountFault
  <2> QED BY <1>1, <2>1 DEF feederVars, FeederOK, RetriesLeft
<1>2. CASE ScannerStep
  BY <1>0, <1>2
     DEF ScannerStep, Scan, PushRaw, NoTrade, SaveSignal, FeederOK, RetriesLeft
<1>3. CASE RelayStep
  BY <1>0, <1>3 DEF RelayStep, RelayMark, RelayPublish, Due, FeederOK, RetriesLeft
<1>4. CASE FeederFault
  <2>1. ASSUME PushRawFails \/ RelayMarkFails
        PROVE  FeederOK' /\ RetriesLeft' /\ row' = row
    BY <1>0, <2>1 DEF PushRawFails, RelayMarkFails, CountFault, FeederOK, RetriesLeft
  <2>2. ASSUME NEW i \in Intent, RelayPublishFails(i)
        PROVE  /\ FeederOK' /\ RetriesLeft'
               /\ \A j \in Intent : row[j] # "none" => row'[j] # "none"
    <3>1. /\ retries[i] \in 0..MaxRetries /\ retries[i] < MaxRetries
          /\ retries' = [retries EXCEPT ![i] = retries[i] + 1]
          /\ row' = [row EXCEPT ![i] = IF retries[i] + 1 >= MaxRetries THEN "failed"
                                                                       ELSE "pending"]
          /\ UNCHANGED <<activeBots, pushing, marking>> /\ faults' \in 0..MaxFaults
      BY <1>0, <2>2 DEF RelayPublishFails, Due, FeederOK, RetriesLeft, CountFault
    <3>2. retries[i] + 1 \in 0..MaxRetries
      BY <1>0, <3>1
    <3>3. FeederOK'
      BY <3>1, <3>2 DEF FeederOK
    <3>4. RetriesLeft'
      BY <1>0, <3>1, <3>2 DEF FeederOK, RetriesLeft
    <3> QED BY <3>1, <3>3, <3>4 DEF FeederOK
  <2> QED BY <1>4, <2>1, <2>2 DEF FeederFault
<1>5. ASSUME Executor \/ Reconcile \/ Api \/ ExecutorFault \/ UNCHANGED vars
      PROVE  UNCHANGED feederVars /\ (UNCHANGED faults \/ CountFault)
  BY <1>5 DEF Executor, Reconcile, Api, ExecutorFault, vars
<1> QED BY <1>1, <1>2, <1>3, <1>4, <1>5 DEF Next

\* Every step of the pipeline is one of the executor and its environment, or none.
LEMMA StepIsExecutors ==
  ASSUME FeederOK, [Next]_vars
  PROVE  [X!Next]_(X!vars)
<1>1. CASE UNCHANGED executorVars
  BY <1>1 DEF executorVars, X!vars
<1>2. ASSUME NEW d \in Delivery, Push(d), KeepExecutor PROVE X!Next
  BY <1>2 DEF Push, KeepExecutor, X!Next, X!Deliver, X!dbVars, X!riskVars, X!taskVars
<1>3. CASE ScannerStep
  BY <1>1, <1>2, <1>3, Deliveries
     DEF FeederOK, ScannerStep, Scan, PushRaw, NoTrade, SaveSignal
<1>4. CASE RelayStep
  BY <1>1, <1>2, <1>4, Deliveries DEF RelayStep, RelayMark, RelayPublish
<1>5. CASE FeederFault
  BY <1>1, <1>2, <1>5, Deliveries
     DEF FeederFault, PushRawFails, RelayMarkFails, RelayPublishFails, executorVars, KeepExecutor
<1>6. CASE Executor \/ Reconcile \/ Api \/ ExecutorFault
  BY <1>6 DEF Executor, Reconcile, Api, ExecutorFault, X!Next, X!Fault
<1> QED BY <1>1, <1>3, <1>4, <1>5, <1>6 DEF Next, vars

\* What the scanner and the outbox processor hold has its type.
THEOREM FeederTypes == Spec => [](FeederOK /\ RetriesLeft)
<1> QED BY FeederInit, FeederStep, PTL DEF Spec

\* To the executor the scanner and the outbox processor are its environment.
THEOREM PipelineImplements == Spec => ImplementsExecutor
<1>1. Init => X!Init
  BY DEF Init
<1> QED BY <1>1, StepIsExecutors, FeederTypes, PTL DEF Spec, ImplementsExecutor, X!Spec

\* The executor the theorems are about is the one of the pipeline.
LEMMA SameExecutor == [X!Next]_(X!vars) => [P!Next]_(P!vars)
BY Zenon DEF
   X!CurIntent, P!CurIntent, X!CurBot, P!CurBot, X!Goto, P!Goto, X!NextMessage,
   P!NextMessage, X!Deliver, P!Deliver, X!Blpop, P!Blpop, X!CheckInbox,
   P!CheckInbox, X!LoadSettings, P!LoadSettings, X!PassesEmergencyStop,
   P!PassesEmergencyStop, X!RiskPass, P!RiskPass, X!RiskReject, P!RiskReject,
   X!RiskAutoStop, P!RiskAutoStop, X!AutoStopEmergency, P!AutoStopEmergency,
   X!AutoStopPause, P!AutoStopPause, X!Emit, P!Emit, X!SaveRejected,
   P!SaveRejected, X!Reservable, P!Reservable, X!ReserveOrder, P!ReserveOrder,
   X!ShouldSkipExisting, P!ShouldSkipExisting, X!SkipDuplicate, P!SkipDuplicate,
   X!ReserveFails, P!ReserveFails, X!ExecutePaper, P!ExecutePaper, X!ExecuteLive,
   P!ExecuteLive, X!ExecuteLiveFails, P!ExecuteLiveFails, X!OrderEvent,
   P!OrderEvent, X!ExecutionEvents, P!ExecutionEvents, X!OutcomeEvents,
   P!OutcomeEvents, X!PersistOutcome, P!PersistOutcome, X!SaveInbox, P!SaveInbox,
   X!DbError, P!DbError, X!BrokerError, P!BrokerError, X!Restart, P!Restart,
   X!SetEmergency, P!SetEmergency, X!SetBotStatus, P!SetBotStatus, X!OpenStatus,
   P!OpenStatus, X!Reconcile, P!Reconcile, X!ExecutorStep, P!ExecutorStep,
   X!Fault, P!Fault, X!ApiStep, P!ApiStep, X!dbVars, P!dbVars, X!riskVars,
   P!riskVars, X!taskVars, P!taskVars, X!vars, P!vars, X!Next, P!Next

LEMMA PipelineExecutes == Spec => P!Spec
<1>1. X!Init => P!Init
  BY DEF X!Init, P!Init
<1> QED BY <1>1, SameExecutor, PipelineImplements, PTL DEF ImplementsExecutor, X!Spec, P!Spec

\* The invariant of the executor, in the pipeline.
THEOREM ExecutorInvariance == Spec => []P!IInv
<1>1. P!Spec => []P!IInv
  BY ExecutorAssumed, P!Invariance
<1> QED BY <1>1, PipelineExecutes, PTL

\* Scanner, outbox processor and executor together keep the promise of OrderOnce: what the
\* two deliveries of an intent bring about is one reservation, one placement and one outcome.
THEOREM PipelineOrdersOnce == Spec => P!ImplementsOrderOnce
<1>1. P!Spec => P!ImplementsOrderOnce
  BY ExecutorAssumed, P!Refinement
<1> QED BY <1>1, PipelineExecutes, PTL

\* In the pipeline, too, a bot stopped by the risk engine gets no order from the intents the
\* scanner or the outbox processor had already pushed, until the API clears the stop.
THEOREM PipelineStopHolds == Spec => P!AutoStopHolds
<1>1. P!Spec => P!AutoStopHolds
  BY ExecutorAssumed, P!AutoStopFinal
<1> QED BY <1>1, PipelineExecutes, PTL

\* In the pipeline, too, the outbox tells the story of each order row until the reconciler
\* moves it on.
THEOREM PipelineOutboxFaithful == Spec => []P!OutboxMatchesOrder
<1>1. P!Spec => []P!OutboxMatchesOrder
  BY ExecutorAssumed, P!OutboxFaithful
<1> QED BY <1>1, PipelineExecutes, PTL

-----------------------------------------------------------------------------
\* Every step leaves the list and the message in hand alone, appends to the list a
\* delivery of an intent with a row, or takes the first one off it.
LEMMA ListMoves ==
  ASSUME FeederOK, Committed, [Next]_vars
  PROVE  \/ queue' = queue /\ cur' \in {cur, NoDelivery}
         \/ /\ cur' = cur
            /\ \E d \in Delivery : queue' = Append(queue, d) /\ row[d[2]] # "none"
         \/ queue # <<>> /\ queue' = Tail(queue) /\ cur' \in {cur, Head(queue)}
<1>1. CASE UNCHANGED executorVars
  BY <1>1 DEF executorVars
<1>2. ASSUME NEW i \in Intent, row[i] # "none", Push(Raw(i)) \/ Push(Env(i)), KeepExecutor
      PROVE  /\ cur' = cur
             /\ \E d \in Delivery : queue' = Append(queue, d) /\ row[d[2]] # "none"
  BY <1>2, Deliveries DEF Push, KeepExecutor
<1>3. CASE ScannerStep
  BY <1>1, <1>2, <1>3
     DEF FeederOK, Committed, ScannerStep, Scan, PushRaw, NoTrade, SaveSignal
<1>4. CASE RelayStep
  BY <1>1, <1>2, <1>4 DEF RelayStep, RelayMark, RelayPublish, Due
<1>5. CASE FeederFault
  BY <1>1, <1>2, <1>5
     DEF FeederFault, PushRawFails, RelayMarkFails, RelayPublishFails, Due, executorVars,
         KeepExecutor
<1>6. CASE Executor
  BY <1>6
     DEF Executor, X!ExecutorStep, X!taskVars, X!Goto, X!NextMessage, X!Blpop, X!CheckInbox,
         X!LoadSettings, X!RiskPass, X!RiskReject, X!RiskAutoStop, X!AutoStopEmergency,
         X!AutoStopPause, X!SaveRejected, X!ReserveOrder, X!SkipDuplicate, X!ReserveFails,
         X!ExecutePaper, X!ExecuteLive, X!ExecuteLiveFails, X!PersistOutcome, X!SaveInbox
<1>7. CASE Reconcile \/ Api \/ ExecutorFault
  BY <1>7
     DEF Reconcile, Api, ExecutorFault, X!Reconcile, X!ApiStep, X!SetEmergency,
         X!SetBotStatus, X!DbError, X!Restart, X!NextMessage, X!taskVars
<1> QED BY <1>1, <1>3, <1>4, <1>5, <1>6, <1>7 DEF Next, vars

\* The rows of what is on its way are there.
LEMMA CommittedStep ==
  ASSUME FeederOK, RetriesLeft, P!TypeOK, Committed, [Next]_vars
  PROVE  Committed'
<1>1. \A i \in Intent : row[i] # "none" => row'[i] # "none"
  BY FeederStep
<1>2. \A d \in Delivery : row[d[2]] # "none" => row'[d[2]] # "none"
  BY <1>1, Deliveries
<1>3. queue \in Seq(Delivery) /\ cur \in Delivery \cup {NoDelivery}
  BY DEF P!TypeOK
<1>4. \A n \in 1..Len(queue) : queue[n] \in Delivery /\ row'[queue[n][2]] # "none"
  BY <1>2, <1>3 DEF Committed
<1>5. cur # NoDelivery => row'[cur[2]] # "none"
  BY <1>2, <1>3 DEF Committed
<1>6. /\ \A n \in 1..Len(queue') : row'[queue'[n][2]] # "none"
      /\ cur' # NoDelivery => row'[cur'[2]] # "none"
  <2>1. CASE queue' = queue /\ cur' \in {cur, NoDelivery}
    BY <1>4, <1>5, <2>1
  <2>2. ASSUME cur' = cur, NEW d \in Delivery, queue' = Append(queue, d), row[d[2]] # "none"
        PROVE  <1>6
    <3>1. \A n \in 1..Len(queue') : queue'[n] = d \/ (n \in 1..Len(queue) /\ queue'[n] = queue[n])
      BY <1>3, <2>2
    <3> QED BY <1>2, <1>4, <1>5, <2>2, <3>1
  <2>3. CASE queue # <<>> /\ queue' = Tail(queue) /\ cur' \in {cur, Head(queue)}
    <3>1. \A n \in 1..Len(queue') : n + 1 \in 1..Len(queue) /\ queue'[n] = queue[n + 1]
      BY <1>3, <2>3
    <3>2. 1 \in 1..Len(queue) /\ Head(queue) = queue[1]
      BY <1>3, <2>3
    <3> QED BY <1>4, <1>5, <2>3, <3>1, <3>2
  <2> QED BY <2>1, <2>2, <2>3, ListMoves
<1>7. /\ pushing' # NoIntent => row'[pushing'] # "none"
      /\ marking' # NoIntent => row'[marking'] # "none"
  <2>1. /\ pushing # NoIntent => row'[pushing] # "none"
        /\ marking # NoIntent => row'[marking] # "none"
    BY <1>1 DEF FeederOK, Committed
  <2>2. pushing' \in {pushing, NoIntent} \/ \E i \in Intent : SaveSignal(i)
    BY DEF Next, vars, feederVars, ScannerStep, Scan, PushRaw, NoTrade, RelayStep, RelayMark,
           RelayPublish, FeederFault, PushRawFails, RelayMarkFails, RelayPublishFails,
           Executor, Reconcile, Api, ExecutorFault
  <2>3. marking' \in {marking, NoIntent} \/ \E i \in Intent : RelayPublish(i)
    BY DEF Next, vars, feederVars, ScannerStep, Scan, PushRaw, NoTrade, SaveSignal, RelayStep,
           RelayMark, FeederFault, PushRawFails, RelayMarkFails, RelayPublishFails,
           Executor, Reconcile, Api, ExecutorFault
  <2>4. pushing' # NoIntent => row'[pushing'] # "none"
    BY <2>1, <2>2 DEF SaveSignal, FeederOK
  <2>5. marking' # NoIntent => row'[marking'] # "none"
    BY <2>1, <2>3 DEF RelayPublish, Due
  <2> QED BY <2>4, <2>5
<1> QED BY <1>6, <1>7 DEF Committed

\* The executor writes about the intent in hand, or about one with an order.
LEMMA SignalStep ==
  ASSUME FeederOK, RetriesLeft, P!TypeOK, P!TaskOK, Committed, OrderHasSignal, [Next]_vars
  PROVE  OrderHasSignal'
<1>1. \A i \in Intent : row[i] # "none" => row'[i] # "none"
  BY FeederStep
<1>2. [P!Next]_(P!vars)
  BY StepIsExecutors, SameExecutor
<1>3. intentRow \in [Intent -> {"none", "validated", "rejected"}]
      /\ order \in [Intent -> P!OrderStatus \cup {"none"}]
  BY DEF P!TypeOK
<1>4. CASE UNCHANGED <<intentRow, order>>
  BY <1>1, <1>4 DEF OrderHasSignal
<1>5. CASE P!SaveRejected \/ P!ReserveOrder \/ P!PersistOutcome
  <2>1. cur \in Delivery /\ P!CurIntent \in Intent
    BY <1>5, ExecutorAssumed, P!TaskHolds DEF P!SaveRejected, P!ReserveOrder, P!PersistOutcome
  <2>2. P!CurIntent = cur[2] /\ row[cur[2]] # "none"
    BY <2>1, PipelineAssumption DEF PipelineAssumption, P!CurIntent, Committed
  <2>3. \A i \in Intent : i # P!CurIntent => intentRow'[i] = intentRow[i] /\ order'[i] = order[i]
    BY <1>3, <1>5, <2>1 DEF P!SaveRejected, P!ReserveOrder, P!PersistOutcome
  <2> QED BY <1>1, <2>1, <2>2, <2>3 DEF OrderHasSignal
<1>6. ASSUME NEW i \in Intent, P!Reconcile(i) PROVE OrderHasSignal'
  <2>1. order[i] # "none" /\ intentRow' = intentRow
    BY <1>6 DEF P!Reconcile, P!OpenStatus
  <2>2. \A j \in Intent : j # i => order'[j] = order[j]
    BY <1>3, <1>6 DEF P!Reconcile
  <2> QED BY <1>1, <2>1, <2>2 DEF OrderHasSignal
<1> QED BY <1>2, <1>4, <1>5, <1>6, ExecutorAssumed, P!Writers

\* Every row and every process has its type, the executor's among them.
THEOREM PipelineTypes == Spec => []TypeOK
<1>1. P!IInv /\ FeederOK => TypeOK
  BY DEF P!IInv, P!TypeOK, X!TypeOK, P!OrderStatus, X!OrderStatus, P!EventType, X!EventType,
         P!Step, X!Step, FeederOK, TypeOK
<1> QED BY <1>1, FeederTypes, ExecutorInvariance, PTL

\* No order, and no decision about an intent, without a committed signal.
THEOREM SignalFirst == Spec => []OrderHasSignal
<1>1. P!IInv => P!TypeOK /\ P!TaskOK
  BY DEF P!IInv
<1> QED BY <1>1, FeederInit, CommittedStep, SignalStep, FeederTypes, ExecutorInvariance, PTL
        DEF Spec

\* However the two paths overlap, the exchange receives an intent at most once.
THEOREM OneOrderInThePipeline == Spec => []X!AtMostOnePlacement
<1>1. P!IInv => X!AtMostOnePlacement
  BY DEF P!IInv, P!RowOK, X!AtMostOnePlacement
<1> QED BY <1>1, ExecutorInvariance, PTL
=============================================================================
