------------------------- MODULE OutboxRelayProofs -------------------------
(***************************************************************************)
(* The safety of OutboxRelay for any rows, transactions, batch sizes and   *)
(* limits.                                                                 *)
(*                                                                         *)
(* Order is the argument for CausalOrder.  A row that was neither sent nor *)
(* erred is due from its commit on, so a batch with a younger row has it   *)
(* too, and the older one is taken first.                                  *)
(***************************************************************************)
EXTENDS OutboxRelay, FiniteSetTheorems, TLAPS

\* What the processor holds is pending, and it publishes or marks a row of its batch.
Held ==
  /\ \A e \in batch : status[e] = "pending"
  /\ pc \in {"mark", "retry"} => current \in batch
  /\ pc = "mark" => current \in sent
  /\ pc = "retry" => current \in erred

Begun == {t \in Tx : stamp[t] # 0}

\* Transactions: stamps are in the order they began, their rows appear together, and what
\* was committed when one began has an earlier stamp.
Stamps ==
  /\ \A t \in Tx : stamp[t] <= Cardinality(Begun)
  /\ \A e, f \in Event : TxOf[e] = TxOf[f] => (status[e] = "none" <=> status[f] = "none")
  /\ \A e \in Event : status[e] # "none" => stamp[TxOf[e]] # 0
  /\ \A t, u \in Tx : t \in before[u] => stamp[t] # 0 /\ stamp[t] < stamp[u]
  /\ \A e \in Event, u \in Tx : TxOf[e] \in before[u] => status[e] # "none"

Settled(e) == e \in sent \cup erred

\* A row committed and not attempted is due; a batch that has a row has those that caused it.
Order ==
  /\ \A e \in Event : ~Settled(e) /\ status[e] # "none" => Due(e)
  /\ \A e \in Event : Settled(e) => status[e] # "none"
  /\ \A e \in Event : status[e] = "none" => wait[e] = 0
  /\ \A e \in Event, f \in batch : TxOf[e] \in before[TxOf[f]] /\ ~Settled(e) => e \in batch

RelayInv == TypeOK /\ Held /\ DeadLetterExact /\ Stamps /\ Order /\ CausalOrder

-----------------------------------------------------------------------------
\* What stays when only the processor's own variables change.
LEMMA RelayFacts ==
  /\ MaxRetries \in Nat \ {0} /\ MaxFaults \in Nat /\ MaxBackoff \in Nat \ {0}
  /\ \A e \in Event : TxOf[e] \in Tx
  /\ NoEvent \notin Event
  BY RelayAssumption DEF RelayAssumption

\* Whatever the attempt, a row waits no longer than outboxMaxBackoff.
LEMMA DelayBounded == \A attempt : RetryDelay(attempt) \in 0..MaxBackoff
  BY RelayAssumption DEF RelayAssumption, RetryDelay

LEMMA BegunFinite == IsFiniteSet(Begun) /\ Cardinality(Begun) \in Nat
<1>1. Begun \subseteq Tx
  BY DEF Begun
<1>2. IsFiniteSet(Begun)
  BY <1>1, RelayAssumption, FS_Subset DEF RelayAssumption
<1> QED BY <1>2, FS_CardinalityType

LEMMA InitInv == Init => RelayInv
<1> SUFFICES ASSUME Init PROVE RelayInv
  OBVIOUS
<1>1. TypeOK
  BY RelayFacts DEF Init, TypeOK
<1>2. Held
  BY DEF Init, Held
<1>3. DeadLetterExact
  BY RelayFacts DEF Init, DeadLetterExact
<1>4. Stamps
  BY RelayFacts, BegunFinite DEF Init, Stamps
<1>5. Order /\ CausalOrder
  BY RelayFacts DEF Init, Order, CausalOrder, Settled, Due
<1> QED BY <1>1, <1>2, <1>3, <1>4, <1>5 DEF RelayInv

\* An attempt that is not the last leaves the counter below the limit.
LEMMA MarkRetryStep ==
  ASSUME RelayInv, MarkRetry
  PROVE  /\ current \in Event /\ current \in batch /\ retries[current] < MaxRetries
         /\ retries' = [retries EXCEPT ![current] = retries[current] + 1]
         /\ status' = [status EXCEPT ![current] =
                         IF retries[current] + 1 = MaxRetries THEN "failed" ELSE "pending"]
         /\ \A e \in Event : e # current => wait'[e] = wait[e]
<1>1. current \in batch /\ current \in Event
  BY DEF MarkRetry, RelayInv, Held, TypeOK
<1>2. status[current] = "pending"
  BY <1>1 DEF RelayInv, Held
<1>3. retries[current] \in 0..MaxRetries /\ retries[current] # MaxRetries
  BY <1>1, <1>2 DEF RelayInv, TypeOK, DeadLetterExact
<1>4. Exhausted(retries[current] + 1) <=> retries[current] + 1 = MaxRetries
  BY <1>3, RelayFacts DEF Exhausted
<1>5. \A e \in Event : e # current => wait'[e] = wait[e]
  BY DEF MarkRetry, RelayInv, TypeOK
<1>6. retries' = [retries EXCEPT ![current] = retries[current] + 1]
  BY DEF MarkRetry
<1>7. status' = [status EXCEPT ![current] =
                   IF Exhausted(retries[current] + 1) THEN "failed" ELSE "pending"]
  BY DEF MarkRetry
<1>8. retries[current] < MaxRetries
  BY <1>3, RelayFacts
<1> HIDE DEF Exhausted
<1> QED BY <1>1, <1>4, <1>5, <1>6, <1>7, <1>8

LEMMA RelayTypeStep ==
  ASSUME RelayInv, [Next]_vars
  PROVE  TypeOK'
<1> USE RelayFacts
<1>0. TypeOK
  BY DEF RelayInv
<1>1. ASSUME NEW t \in Tx, Begin(t) PROVE TypeOK'
  <2>1. 1 + Cardinality({u \in Tx : stamp[u] # 0}) \in Nat
    BY BegunFinite DEF Begun
  <2>2. {u \in Tx : Committed(u)} \in SUBSET Tx
    OBVIOUS
  <2>3. stamp' \in [Tx -> Nat] /\ before' \in [Tx -> SUBSET Tx]
    BY <1>0, <1>1, <2>1, <2>2 DEF Begin, TypeOK
  <2> QED BY <1>0, <1>1, <2>3 DEF Begin, TypeOK, rowVars, relayVars
<1>2. ASSUME NEW t \in Tx, Commit(t) PROVE TypeOK'
  BY <1>0, <1>2 DEF Commit, TypeOK, txVars, relayVars
<1>3. CASE Fetch
  BY <1>0, <1>3 DEF Fetch, TypeOK, txVars, rowVars
<1>4. ASSUME NEW e \in Event, Publish(e) PROVE TypeOK'
  BY <1>0, <1>4 DEF Publish, TypeOK, txVars, rowVars
<1>5. ASSUME NEW e \in Event, PublishFails(e) PROVE TypeOK'
  BY <1>0, <1>5 DEF PublishFails, TypeOK, txVars, rowVars
<1>6. CASE Mark
  <2>1. wait' \in [Event -> 0..MaxBackoff]
    <3>1. wait \in [Event -> 0..MaxBackoff] /\ 0 \in 0..MaxBackoff
      BY <1>0 DEF TypeOK
    <3>2. wait' = [wait EXCEPT ![current] = 0]
      BY <1>6 DEF Mark
    <3> QED BY <3>1, <3>2
  <2>2. status' \in [Event -> {"none", "pending", "processed", "failed"}]
    BY <1>0, <1>6 DEF Mark, TypeOK
  <2> QED BY <1>0, <1>6, <2>1, <2>2 DEF Mark, NextOfBatch, TypeOK, txVars
<1>7. CASE MarkRetry
  <2>1. retries' \in [Event -> 0..MaxRetries]
        /\ status' \in [Event -> {"none", "pending", "processed", "failed"}]
    BY <1>0, <1>7, MarkRetryStep DEF TypeOK
  <2>2. wait' \in [Event -> 0..MaxBackoff]
    <3> DEFINE left == IF Exhausted(retries[current] + 1) THEN 0
                       ELSE RetryDelay(retries[current] + 1)
    <3>1. left \in 0..MaxBackoff
      BY DelayBounded, RelayAssumption DEF RelayAssumption
    <3>2. wait' = [wait EXCEPT ![current] = left]
      BY <1>7 DEF MarkRetry
    <3> HIDE DEF left
    <3> QED BY <1>0, <3>1, <3>2 DEF TypeOK
  <2> QED BY <1>0, <1>7, <2>1, <2>2 DEF MarkRetry, NextOfBatch, TypeOK, txVars
<1>8. CASE UpdateFails
  BY <1>0, <1>8 DEF UpdateFails, CountFault, NextOfBatch, TypeOK, txVars, rowVars
<1>9. CASE Crash
  BY <1>0, <1>9 DEF Crash, CountFault, TypeOK, txVars, rowVars
<1>10. CASE Tick
  <2>1. wait' \in [Event -> 0..MaxBackoff]
    BY <1>0, <1>10 DEF Tick, TypeOK
  <2> QED BY <1>0, <1>10, <2>1 DEF Tick, TypeOK, txVars, relayVars
<1>11. CASE UNCHANGED vars
  BY <1>0, <1>11 DEF TypeOK, vars
<1> QED BY <1>1, <1>2, <1>3, <1>4, <1>5, <1>6, <1>7, <1>8, <1>9, <1>10, <1>11
        DEF Next, Attempt

LEMMA HeldStep ==
  ASSUME RelayInv, [Next]_vars
  PROVE  Held'
<1> USE RelayFacts
<1>0. TypeOK /\ Held
  BY DEF RelayInv
<1>1. ASSUME NEW t \in Tx, Begin(t) PROVE Held'
  BY <1>0, <1>1 DEF Begin, Held, rowVars, relayVars
<1>2. ASSUME NEW t \in Tx, Commit(t) PROVE Held'
  BY <1>0, <1>2 DEF Commit, Held, TypeOK, relayVars
<1>3. CASE Fetch
  <2>1. PICK B \in SUBSET Event : B \subseteq {e \in Event : Due(e)} /\ batch' = B
    BY <1>3 DEF Fetch, Oldest
  <2> QED BY <1>0, <1>3, <2>1 DEF Fetch, Held, Due, txVars, rowVars
<1>4. ASSUME NEW e \in Event, Publish(e) PROVE Held'
  BY <1>0, <1>4 DEF Publish, Held, FirstOfBatch, txVars, rowVars
<1>5. ASSUME NEW e \in Event, PublishFails(e) PROVE Held'
  BY <1>0, <1>5 DEF PublishFails, Held, FirstOfBatch, txVars, rowVars
<1>6. CASE Mark
  BY <1>0, <1>6 DEF Mark, NextOfBatch, Held, TypeOK, txVars
<1>7. CASE MarkRetry
  <2>1. batch' = batch \ {current} /\ pc' \notin {"mark", "retry"}
    BY <1>7 DEF MarkRetry, NextOfBatch
  <2>2. \A e \in batch' : status'[e] = status[e]
    BY <1>0, <1>7, <2>1, MarkRetryStep DEF TypeOK
  <2> QED BY <1>0, <2>1, <2>2 DEF Held
<1>8. CASE UpdateFails
  BY <1>0, <1>8 DEF UpdateFails, NextOfBatch, Held, rowVars
<1>9. CASE Crash
  BY <1>9 DEF Crash, Held
<1>10. CASE Tick \/ UNCHANGED vars
  BY <1>0, <1>10 DEF Tick, Held, relayVars, vars
<1> QED BY <1>1, <1>2, <1>3, <1>4, <1>5, <1>6, <1>7, <1>8, <1>9, <1>10
        DEF Next, Attempt

LEMMA DeadLetterStep ==
  ASSUME RelayInv, [Next]_vars
  PROVE  DeadLetterExact'
<1> USE RelayFacts
<1>0. TypeOK /\ Held /\ DeadLetterExact
  BY DEF RelayInv
<1>1. CASE UNCHANGED <<status, retries>>
  BY <1>0, <1>1 DEF DeadLetterExact
<1>2. ASSUME NEW t \in Tx, Commit(t) PROVE DeadLetterExact'
  BY <1>0, <1>2 DEF Commit, Rows, DeadLetterExact, TypeOK
<1>3. CASE Mark
  <2>1. status[current] = "pending" /\ current \in Event
    BY <1>0, <1>3 DEF Mark, Held, TypeOK
  <2> QED BY <1>0, <1>3, <2>1 DEF Mark, DeadLetterExact, TypeOK
<1>4. CASE MarkRetry
  BY <1>0, <1>4, MarkRetryStep DEF DeadLetterExact, TypeOK
<1> QED BY <1>1, <1>2, <1>3, <1>4
        DEF Next, Attempt, vars, rowVars, Begin, Fetch, Publish, PublishFails, UpdateFails,
            Crash, Tick

\* The rows that change: a commit makes some pending, and an update keeps what is committed
\* so.
LEMMA StatusMoves ==
  ASSUME RelayInv, [Next]_vars
  PROVE  \/ \E t \in Tx : Commit(t)
         \/ \A e \in Event : status'[e] = "none" <=> status[e] = "none"
<1> USE RelayFacts
<1>0. TypeOK /\ Held
  BY DEF RelayInv
<1>1. CASE Mark
  BY <1>0, <1>1 DEF Mark, Held, TypeOK
<1>2. CASE MarkRetry
  BY <1>0, <1>2, MarkRetryStep DEF Held, TypeOK
<1> QED BY <1>1, <1>2
        DEF Next, Attempt, vars, rowVars, Begin, Fetch, Publish, PublishFails, UpdateFails,
            Crash, Tick

LEMMA StampsStep ==
  ASSUME RelayInv, [Next]_vars
  PROVE  Stamps'
<1> USE RelayFacts
<1>0. TypeOK /\ Stamps
  BY DEF RelayInv
<1>1. ASSUME NEW t \in Tx, Begin(t) PROVE Stamps'
  <2> DEFINE n == Cardinality(Begun)
  <2>1. /\ stamp' = [stamp EXCEPT ![t] = 1 + n] /\ stamp[t] = 0
        /\ before' = [before EXCEPT ![t] = {u \in Tx : Committed(u)}]
        /\ status' = status
    BY <1>1 DEF Begin, Begun, rowVars
  <2>2. n \in Nat /\ IsFiniteSet(Begun) /\ t \notin Begun
    BY <2>1, BegunFinite DEF Begun
  <2>20. \A u \in Tx : stamp'[u] = IF u = t THEN 1 + n ELSE stamp[u]
    BY <1>0, <2>1 DEF TypeOK
  <2>3. Begun' = Begun \cup {t}
    <3> HIDE DEF n
    <3>1. 1 + n # 0
      BY <2>2
    <3> QED BY <2>20, <3>1 DEF Begun
  <2>4. Cardinality(Begun') = n + 1
    BY <2>2, <2>3, FS_AddElement
  <2> HIDE DEF n
  <2>5. \A u \in Tx : stamp'[u] <= Cardinality(Begun')
    BY <1>0, <2>1, <2>2, <2>4 DEF Stamps, TypeOK, n
  <2>6. \A u \in Tx : Committed(u) => stamp[u] # 0 /\ \A e \in Rows(u) : status[e] # "none"
    BY <1>0 DEF Committed, Rows, Stamps
  <2>7. \A u \in Tx : u \notin before[t]
    BY <1>0, <2>1 DEF Stamps, TypeOK
  <2>8. \A u, v \in Tx : u \in before'[v] => stamp'[u] < stamp'[v]
    <3>1. ASSUME NEW u \in Tx, Committed(u) PROVE u # t /\ stamp[u] \in Nat /\ stamp[u] <= n
      BY <1>0, <2>1, <2>6, <3>1 DEF Stamps, TypeOK, n
    <3>2. ASSUME NEW u \in Tx, Committed(u) PROVE stamp'[u] < stamp'[t]
      BY <2>2, <2>20, <3>1, <3>2
    <3>3. \A u, v \in Tx : v # t /\ u \in before'[v] => u # t /\ stamp[u] < stamp[v]
      BY <1>0, <2>1 DEF Stamps, TypeOK
    <3>4. \A u, v \in Tx : v # t /\ u \in before'[v] => stamp'[u] < stamp'[v]
      BY <2>20, <3>3
    <3>5. \A u \in Tx : u \in before'[t] => Committed(u)
      BY <1>0, <2>1 DEF TypeOK
    <3> QED BY <3>2, <3>4, <3>5
  <2>80. \A u, v \in Tx : u \in before'[v] => stamp'[u] # 0
    <3>1. \A u \in Tx : stamp[u] # 0 => stamp'[u] # 0
      BY <2>1, <2>20
    <3>2. \A u, v \in Tx : u \in before'[v] => stamp[u] # 0
      BY <1>0, <2>1, <2>6 DEF Stamps, TypeOK
    <3> QED BY <3>1, <3>2
  <2>9. \A e \in Event, u \in Tx : TxOf[e] \in before'[u] => status'[e] # "none"
    BY <1>0, <2>1, <2>6 DEF Stamps, TypeOK, Rows
  <2>10. \A e \in Event : status'[e] # "none" => stamp'[TxOf[e]] # 0
    BY <1>0, <2>1, <2>2 DEF Stamps, TypeOK
  <2> QED BY <1>0, <2>1, <2>5, <2>8, <2>80, <2>9, <2>10 DEF Stamps
<1>2. ASSUME NEW t \in Tx, Commit(t) PROVE Stamps'
  <2>1. \A e \in Event : status'[e] = IF TxOf[e] = t THEN "pending" ELSE status[e]
    BY <1>2 DEF Commit
  <2>2. stamp' = stamp /\ before' = before /\ stamp[t] # 0
    BY <1>2 DEF Commit, txVars
  <2> QED BY <1>0, <2>1, <2>2 DEF Stamps, Begun
<1>3. CASE UNCHANGED txVars /\ \A e \in Event : status'[e] = "none" <=> status[e] = "none"
  BY <1>0, <1>3 DEF Stamps, Begun, txVars
<1> QED BY <1>1, <1>2, <1>3, StatusMoves
        DEF Next, Attempt, vars, txVars, rowVars, Fetch, Publish, PublishFails, Mark, MarkRetry,
            UpdateFails, Crash, Tick

\* The first row of a batch is caused by none that was not attempted.
LEMMA FirstIsFirst ==
  ASSUME RelayInv, NEW f \in Event, FirstOfBatch(f), NEW e \in Event,
         TxOf[e] \in before[TxOf[f]]
  PROVE  Settled(e)
<1> SUFFICES ASSUME ~Settled(e) PROVE FALSE
  OBVIOUS
<1>1. e \in batch /\ f \in batch
  BY DEF FirstOfBatch, RelayInv, Order
<1>2. Older(e, f)
  BY RelayFacts DEF Older, RelayInv, Stamps
<1> QED BY <1>1, <1>2 DEF FirstOfBatch

LEMMA OrderStep ==
  ASSUME RelayInv, [Next]_vars
  PROVE  Order'
<1> USE RelayFacts
<1>0. TypeOK /\ Held /\ Stamps /\ Order
  BY DEF RelayInv
<1>1. ASSUME NEW t \in Tx, Begin(t) PROVE Order'
  <2>1. /\ UNCHANGED <<status, retries, wait, sent, erred, batch>>
        /\ before' = [before EXCEPT ![t] = {u \in Tx : Committed(u)}] /\ stamp[t] = 0
    BY <1>1 DEF Begin, rowVars, relayVars
  <2>2. \A f \in batch : f \in Event /\ TxOf[f] # t
    BY <1>0, <2>1 DEF Held, Stamps, TypeOK
  <2>3. \A f \in batch : before'[TxOf[f]] = before[TxOf[f]]
    BY <1>0, <2>1, <2>2 DEF TypeOK
  <2> QED BY <1>0, <2>1, <2>3 DEF Order, Settled, Due
<1>2. ASSUME NEW t \in Tx, Commit(t) PROVE Order'
  <2>1. \A e \in Event : status'[e] = IF TxOf[e] = t THEN "pending" ELSE status[e]
    BY <1>2 DEF Commit
  <2>2. UNCHANGED <<before, sent, erred, batch, wait>>
    BY <1>2 DEF Commit, txVars, relayVars
  <2>3. \A e \in Event : TxOf[e] = t => status[e] = "none"
    BY <1>2 DEF Commit, Rows
  <2> QED BY <1>0, <2>1, <2>2, <2>3 DEF Order, Settled, Due
<1>3. CASE Fetch
  <2>1. PICK B \in SUBSET Event : Oldest(B, {e \in Event : Due(e)}) /\ batch' = B
    BY <1>3 DEF Fetch
  <2>2. UNCHANGED <<txVars, rowVars, sent, erred>>
    BY <1>3 DEF Fetch
  <2>3. ASSUME NEW e \in Event, NEW f \in B, TxOf[e] \in before[TxOf[f]], ~Settled(e)
        PROVE  e \in B
    <3>1. status[e] # "none"
      BY <1>0, <2>3 DEF Stamps
    <3>2. Due(e)
      BY <1>0, <2>3, <3>1 DEF Order
    <3>3. Older(e, f)
      BY <1>0, <2>3 DEF Older, Stamps
    <3> QED BY <2>1, <3>2, <3>3 DEF Oldest
  <2> QED BY <1>0, <2>1, <2>2, <2>3 DEF Order, Settled, Due, txVars, rowVars
<1>4. ASSUME NEW e \in Event, Publish(e) \/ PublishFails(e) PROVE Order'
  <2>1. /\ UNCHANGED <<txVars, rowVars, batch>>
        /\ sent \subseteq sent' /\ erred \subseteq erred'
        /\ sent' \cup erred' \subseteq sent \cup erred \cup {e}
    BY <1>4 DEF Publish, PublishFails
  <2>2. status[e] # "none"
    BY <1>0, <1>4 DEF Publish, PublishFails, FirstOfBatch, Held
  <2> QED BY <1>0, <2>1, <2>2 DEF Order, Settled, Due, txVars, rowVars
<1>5. CASE Mark \/ MarkRetry
  <2>1. /\ current \in batch /\ current \in Event /\ Settled(current)
        /\ status[current] = "pending"
    BY <1>0, <1>5 DEF Mark, MarkRetry, Held, TypeOK, Settled
  <2>2. UNCHANGED <<txVars, sent, erred>> /\ batch' = batch \ {current}
    BY <1>5 DEF Mark, MarkRetry, NextOfBatch
  <2>3. status'[current] # "none"
    BY <1>0, <1>5, <2>1, MarkRetryStep DEF Mark, TypeOK
  <2>4. \A e \in Event : e # current => status'[e] = status[e] /\ wait'[e] = wait[e]
    BY <1>0, <1>5, MarkRetryStep DEF Mark, TypeOK
  <2> QED BY <1>0, <2>1, <2>2, <2>3, <2>4 DEF Order, Settled, Due, txVars
<1>6. CASE UpdateFails
  <2>1. current \in batch /\ Settled(current)
    BY <1>0, <1>6 DEF UpdateFails, Held, Settled
  <2>2. UNCHANGED <<txVars, rowVars, sent, erred>> /\ batch' = batch \ {current}
    BY <1>6 DEF UpdateFails, NextOfBatch
  <2> QED BY <1>0, <2>1, <2>2 DEF Order, Settled, Due, txVars, rowVars
<1>7. CASE Crash
  BY <1>0, <1>7 DEF Crash, Order, Settled, Due, txVars, rowVars
<1>8. CASE Tick
  <2>1. UNCHANGED <<txVars, status, sent, erred, batch>>
    BY <1>8 DEF Tick, relayVars
  <2>2. \A e \in Event : wait[e] = 0 => wait'[e] = 0
    BY <1>8 DEF Tick
  <2> QED BY <1>0, <2>1, <2>2 DEF Order, Settled, Due, txVars
<1>9. CASE UNCHANGED vars
  BY <1>0, <1>9 DEF Order, Settled, Due, vars
<1> QED BY <1>1, <1>2, <1>3, <1>4, <1>5, <1>6, <1>7, <1>8, <1>9 DEF Next, Attempt

LEMMA CausalStep ==
  ASSUME RelayInv, [Next]_vars
  PROVE  CausalOrder'
<1> USE RelayFacts
<1>0. TypeOK /\ Held /\ Stamps /\ Order /\ CausalOrder
  BY DEF RelayInv
<1>1. CASE UNCHANGED <<before, sent>> /\ erred \subseteq erred'
  BY <1>0, <1>1 DEF CausalOrder
<1>2. ASSUME NEW t \in Tx, Begin(t) PROVE CausalOrder'
  <2>1. /\ UNCHANGED <<sent, erred>> /\ stamp[t] = 0
        /\ \A u \in Tx : u # t => before'[u] = before[u]
    BY <1>0, <1>2 DEF Begin, TypeOK
  <2>2. \A f \in sent : f \in Event /\ TxOf[f] # t
    BY <1>0, <2>1 DEF Order, Stamps, Settled, TypeOK
  <2> QED BY <1>0, <2>1, <2>2 DEF CausalOrder
<1>3. ASSUME NEW f \in Event, Publish(f) \/ PublishFails(f) PROVE CausalOrder'
  <2>1. /\ UNCHANGED before /\ FirstOfBatch(f)
        /\ sent \subseteq sent' /\ sent' \subseteq sent \cup {f} /\ erred \subseteq erred'
    BY <1>3 DEF Publish, PublishFails, txVars
  <2>2. \A e \in Event : TxOf[e] \in before[TxOf[f]] => e \in sent \cup erred
    BY <2>1, FirstIsFirst DEF Settled
  <2> QED BY <1>0, <2>1, <2>2 DEF CausalOrder
<1> QED BY <1>1, <1>2, <1>3
        DEF Next, Attempt, vars, txVars, Commit, Fetch, Mark, MarkRetry, UpdateFails, Crash, Tick

-----------------------------------------------------------------------------
\* The invariant, for any rows, transactions, batches, limits and faults.
THEOREM RelayInvariance == Spec => []RelayInv
<1>1. RelayInv /\ [Next]_vars => RelayInv'
  BY RelayTypeStep, HeldStep, DeadLetterStep, StampsStep, OrderStep, CausalStep DEF RelayInv
<1> QED BY <1>1, InitInv, PTL DEF Spec

\* The rows keep their types: no counter passes its limit, no delay the largest backoff.
THEOREM RelayTypes == Spec => []TypeOK
<1>1. RelayInv => TypeOK
  BY DEF RelayInv
<1> QED BY <1>1, RelayInvariance, PTL

\* A row is given up exactly at the limit of its attempts.
THEOREM GivenUpAtTheLimit == Spec => []DeadLetterExact
<1>1. RelayInv => DeadLetterExact
  BY DEF RelayInv
<1> QED BY <1>1, RelayInvariance, PTL

\* What was committed before an event was made reaches Redis before it, unless an attempt
\* failed.
THEOREM CausesFirst == Spec => []CausalOrder
<1>1. RelayInv => CausalOrder
  BY DEF RelayInv
<1> QED BY <1>1, RelayInvariance, PTL

-----------------------------------------------------------------------------
(* The promise of OutboxDelivery. *)

LEMMA StageOfIs ==
  /\ StageOf("none") = "absent" /\ StageOf("pending") = "owed"
  /\ StageOf("processed") = "settled" /\ StageOf("failed") = "abandoned"
  BY DEF StageOf

LEMMA StagesAre ==
  ASSUME TypeOK, NEW e \in Event
  PROVE  /\ status[e] = "none" <=> Stages[e] = "absent"
         /\ status[e] = "pending" <=> Stages[e] = "owed"
         /\ status[e] = "processed" <=> Stages[e] = "settled"
         /\ status[e] = "failed" <=> Stages[e] = "abandoned"
  BY StageOfIs DEF TypeOK, Stages

LEMMA StagesSame ==
  ASSUME status' = status
  PROVE  Stages' = Stages
  BY DEF Stages

\* One row moves from stage to stage.
LEMMA StageMoves ==
  ASSUME TypeOK, TypeOK', NEW e \in Event, NEW s, status' = [status EXCEPT ![e] = s]
  PROVE  /\ s = "processed" => Stages' = [Stages EXCEPT ![e] = "settled"]
         /\ s = "failed" => Stages' = [Stages EXCEPT ![e] = "abandoned"]
<1>1. \A d \in Event : d # e => status'[d] = status[d]
  BY DEF TypeOK
<1>2. status'[e] = s
  BY DEF TypeOK
<1>3. \A d \in Event : d # e => Stages'[d] = Stages[d]
  BY <1>1 DEF Stages
<1>4. DOMAIN Stages = Event /\ DOMAIN Stages' = Event
  BY DEF Stages
<1>5. Stages = [d \in Event |-> Stages[d]] /\ Stages' = [d \in Event |-> Stages'[d]]
  BY DEF Stages
<1>6. /\ s = "processed" => Stages'[e] = "settled"
      /\ s = "failed" => Stages'[e] = "abandoned"
  BY <1>2, StageOfIs DEF Stages
<1> HIDE DEF Stages
<1> QED BY <1>3, <1>4, <1>5, <1>6

\* Every step keeps the promise of OutboxDelivery, or does not touch it.
LEMMA DeliveryStep ==
  ASSUME RelayInv, RelayInv', [Next]_vars
  PROVE  [Delivery!Next]_<<Stages, sent>>
<1> USE RelayFacts
<1>0. TypeOK /\ Held /\ TypeOK'
  BY DEF RelayInv
<1>1. CASE UNCHANGED <<status, sent>>
  BY <1>1, StagesSame
<1>2. ASSUME NEW t \in Tx, Commit(t) PROVE Delivery!Next
  <2>1. \A e \in Event : status'[e] = IF e \in Rows(t) THEN "pending" ELSE status[e]
    BY <1>2 DEF Commit, Rows
  <2>2. \A e \in Rows(t) : e \in Event /\ Stages[e] = "absent"
    BY <1>0, <1>2, StagesAre DEF Commit, Rows
  <2>3. \A e \in Event : Stages'[e] = IF e \in Rows(t) THEN "owed" ELSE Stages[e]
    <3>1. \A e \in Event : e \in Rows(t) => Stages'[e] = "owed"
      BY <2>1, StageOfIs DEF Stages
    <3>2. \A e \in Event : e \notin Rows(t) => Stages'[e] = Stages[e]
      BY <2>1 DEF Stages
    <3> QED BY <3>1, <3>2
  <2>4. Stages' = [e \in Event |-> Stages'[e]]
    BY DEF Stages
  <2>5. Stages' = [e \in Event |-> IF e \in Rows(t) THEN "owed" ELSE Stages[e]]
    BY <2>3, <2>4
  <2>6. Delivery!Commit(Rows(t))
    BY <1>2, <2>2, <2>5 DEF Commit, Delivery!Commit
  <2>7. Rows(t) \in SUBSET Event
    BY DEF Rows
  <2> QED BY <2>6, <2>7 DEF Delivery!Next
<1>3. ASSUME NEW e \in Event, Publish(e) \/ PublishFails(e), sent' # sent PROVE Delivery!Next
  <2>1. sent' = sent \cup {e} /\ status' = status
    BY <1>3 DEF Publish, PublishFails, rowVars
  <2>2. Stages[e] = "owed"
    BY <1>0, <1>3, StagesAre DEF Publish, PublishFails, FirstOfBatch, Held
  <2> QED BY <2>1, <2>2, StagesSame DEF Delivery!Next, Delivery!Send
<1>4. CASE Mark
  <2>1. current \in Event /\ current \in sent /\ status[current] = "pending"
    BY <1>0, <1>4 DEF Mark, Held, TypeOK
  <2>2. status' = [status EXCEPT ![current] = "processed"] /\ sent' = sent
    BY <1>4 DEF Mark
  <2>3. Stages[current] = "owed" /\ Stages' = [Stages EXCEPT ![current] = "settled"]
    BY <1>0, <2>1, <2>2, StagesAre, StageMoves
  <2> QED BY <2>1, <2>2, <2>3 DEF Delivery!Next, Delivery!Settle
<1>5. CASE MarkRetry
  <2>1. /\ current \in Event /\ status[current] = "pending" /\ sent' = sent
        /\ \/ status' = [status EXCEPT ![current] = "failed"]
           \/ status' = [status EXCEPT ![current] = "pending"]
    BY <1>0, <1>5, MarkRetryStep DEF Held, MarkRetry
  <2>2. CASE status' = [status EXCEPT ![current] = "failed"]
    <3>1. Stages[current] = "owed" /\ Stages' = [Stages EXCEPT ![current] = "abandoned"]
      BY <1>0, <2>1, <2>2, StagesAre, StageMoves
    <3> QED BY <2>1, <3>1 DEF Delivery!Next, Delivery!Abandon
  <2>3. CASE status' = [status EXCEPT ![current] = "pending"]
    <3>1. status' = status
      BY <1>0, <2>1, <2>3 DEF TypeOK
    <3> QED BY <2>1, <3>1, StagesSame
  <2> QED BY <2>1, <2>2, <2>3
<1> QED BY <1>1, <1>2, <1>3, <1>4, <1>5
        DEF Next, Attempt, vars, rowVars, Begin, Fetch, Publish, PublishFails, UpdateFails,
            Crash, Tick

\* The processor implements OutboxDelivery.
THEOREM KeepsThePromise == Spec => ImplementsDelivery
<1>1. Init => Delivery!Init
  <2> SUFFICES ASSUME Init PROVE Delivery!Init
    OBVIOUS
  <2>1. \A e \in Event : Stages[e] = "absent"
    BY StageOfIs DEF Init, Stages
  <2>2. Stages = [e \in Event |-> Stages[e]]
    BY DEF Stages
  <2>3. Stages = [e \in Event |-> "absent"]
    BY <2>1, <2>2
  <2> QED BY <2>3 DEF Init, Delivery!Init
<1>2. RelayInv /\ RelayInv' /\ [Next]_vars => [Delivery!Next]_(Delivery!deliveryVars)
  BY DeliveryStep DEF Delivery!deliveryVars
<1> QED BY <1>1, <1>2, RelayInvariance, PTL DEF Spec, ImplementsDelivery, Delivery!Spec
=============================================================================
