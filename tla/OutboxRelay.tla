----------------------------- MODULE OutboxRelay -----------------------------
(***************************************************************************)
(* The transactional outbox: every service writes its events as pending    *)
(* rows of outbox_events in the transaction that changes the state, and    *)
(* the one outbox processor of apps/api-go reads the due rows in batches,  *)
(* publishes each to Redis and then marks it, retrying with a growing      *)
(* delay and giving up after outboxMaxRetries failed attempts.             *)
(*                                                                         *)
(* A row's created_at is the time its transaction began (NOW()), so rows   *)
(* of one transaction tie, and a row may become visible after younger ones *)
(* were published.  The clocks of the services are taken to agree.  Time   *)
(* is a countdown per row, in units of outboxBaseBackoff.                  *)
(***************************************************************************)
EXTENDS Naturals, FiniteSets

CONSTANTS
  Event,       \* rows of outbox_events
  Tx,          \* transactions that write them
  TxOf,        \* the transaction of a row
  Poison,      \* rows whose metadata cannot be parsed: no attempt succeeds
  BatchSize,   \* outboxBatchSize
  MaxRetries,  \* outboxMaxRetries
  MaxBackoff,  \* outboxMaxBackoff / outboxBaseBackoff
  MaxFaults,   \* bound on crashes and failed updates in a behaviour
  NoEvent      \* no row is being published

ASSUME RelayAssumption ==
  /\ TxOf \in [Event -> Tx] /\ IsFiniteSet(Tx)
  /\ Poison \subseteq Event
  /\ BatchSize \in Nat \ {0} /\ MaxRetries \in Nat \ {0} /\ MaxBackoff \in Nat \ {0}
  /\ MaxFaults \in Nat
  /\ NoEvent \notin Event

VARIABLES
  stamp,    \* the order in which transactions began, 0 for one that has not
  before,   \* history: the transactions committed when this one began
  status,   \* outbox_events.status, "none" for a row not committed
  retries,  \* outbox_events.retry_count
  wait,     \* time left until next_retry_at
  sent,     \* rows that reached Redis at least once
  erred,    \* history: rows of which some attempt failed
  batch,    \* the processor: rows read and not yet handled
  current,  \* the row it is publishing or marking
  pc,
  faults

txVars    == <<stamp, before>>
rowVars   == <<status, retries, wait>>
relayVars == <<batch, current, pc>>
vars      == <<stamp, before, status, retries, wait, sent, erred, batch, current, pc, faults>>

\* The rows and what the processor holds of them.
TypeOK ==
  /\ stamp \in [Tx -> Nat]
  /\ before \in [Tx -> SUBSET Tx]
  /\ status \in [Event -> {"none", "pending", "processed", "failed"}]
  /\ retries \in [Event -> 0..MaxRetries]
  /\ wait \in [Event -> 0..MaxBackoff]
  /\ sent \subseteq Event /\ erred \subseteq Event /\ batch \subseteq Event
  /\ current \in Event \cup {NoEvent}
  /\ pc \in {"idle", "publish", "mark", "retry"}
  /\ faults \in 0..MaxFaults

Init ==
  /\ stamp = [t \in Tx |-> 0]
  /\ before = [t \in Tx |-> {}]
  /\ status = [e \in Event |-> "none"]
  /\ retries = [e \in Event |-> 0]
  /\ wait = [e \in Event |-> 0]
  /\ sent = {} /\ erred = {} /\ batch = {}
  /\ current = NoEvent /\ pc = "idle"
  /\ faults = 0

-----------------------------------------------------------------------------
Rows(t) == {e \in Event : TxOf[e] = t}
Committed(t) == \E e \in Rows(t) : status[e] # "none"

\* BEGIN fixes created_at for all the rows of the transaction: the default NOW() is its
\* begin.  The API's SaveEvent passes the application's time.Now(), taken within the
\* transaction: Begin is then that moment, by which at least as much had committed.
Begin(t) ==
  /\ stamp[t] = 0
  /\ stamp' = [stamp EXCEPT ![t] = 1 + Cardinality({u \in Tx : stamp[u] # 0})]
  /\ before' = [before EXCEPT ![t] = {u \in Tx : Committed(u)}]
  /\ UNCHANGED <<rowVars, sent, erred, relayVars, faults>>

\* COMMIT makes them visible, pending.
Commit(t) ==
  /\ stamp[t] # 0 /\ \A e \in Rows(t) : status[e] = "none"
  /\ status' = [e \in Event |-> IF TxOf[e] = t THEN "pending" ELSE status[e]]
  /\ UNCHANGED <<txVars, retries, wait, sent, erred, relayVars, faults>>

\* Mutant: the query without the rows whose next_retry_at has passed.
NeverRetried(e) == status[e] = "pending" /\ retries[e] = 0

Due(e) == status[e] = "pending" /\ wait[e] = 0

\* Mutant: the query without ORDER BY.
NoOrder(e, f) == FALSE

Older(e, f) == stamp[TxOf[e]] < stamp[TxOf[f]]

\* The oldest BatchSize due rows (ORDER BY created_at LIMIT).
Oldest(B, S) ==
  /\ B \subseteq S
  /\ Cardinality(B) = IF Cardinality(S) < BatchSize THEN Cardinality(S) ELSE BatchSize
  /\ \A e \in B, f \in S \ B : ~Older(f, e)

Fetch ==
  /\ pc = "idle"
  /\ \E B \in SUBSET Event :
       B # {} /\ Oldest(B, {e \in Event : Due(e)}) /\ batch' = B
  /\ pc' = "publish"
  /\ UNCHANGED <<txVars, rowVars, sent, erred, current, faults>>

FirstOfBatch(e) == e \in batch /\ \A f \in batch : ~Older(f, e)

\* publishEvent reached Redis: an RPUSH or a PUBLISH.
Publish(e) ==
  /\ pc = "publish" /\ FirstOfBatch(e) /\ e \notin Poison
  /\ sent' = sent \cup {e}
  /\ current' = e /\ pc' = "mark"
  /\ UNCHANGED <<txVars, rowVars, erred, batch, faults>>

\* Mutant: the error of publishEvent is dropped.
PublishFailsUnnoticed(e) ==
  /\ pc = "publish" /\ FirstOfBatch(e)
  /\ erred' = erred \cup {e}
  /\ current' = e /\ pc' = "mark"
  /\ UNCHANGED <<txVars, rowVars, sent, batch, faults>>

\* It returned an error: Redis may have applied it all the same, but not for a row
\* whose metadata or envelope could not be made.
PublishFails(e) ==
  /\ pc = "publish" /\ FirstOfBatch(e)
  /\ sent' \in {sent, sent \cup ({e} \ Poison)}
  /\ erred' = erred \cup {e}
  /\ current' = e /\ pc' = "retry"
  /\ UNCHANGED <<txVars, rowVars, batch, faults>>

NextOfBatch ==
  /\ batch' = batch \ {current}
  /\ current' = NoEvent
  /\ pc' = IF batch' = {} THEN "idle" ELSE "publish"

Mark ==
  /\ pc = "mark"
  /\ status' = [status EXCEPT ![current] = "processed"]
  /\ wait' = [wait EXCEPT ![current] = 0]
  /\ NextOfBatch
  /\ UNCHANGED <<txVars, retries, sent, erred, faults>>

\* outboxRetryDelay, in units of outboxBaseBackoff: the shift, which is never below one unit,
\* up to outboxMaxBackoff.
RetryDelay(attempt) ==
  LET delay == 2 ^ (attempt - 1) IN IF delay \in 1..MaxBackoff THEN delay ELSE MaxBackoff

\* Mutant: one attempt too many.
ExhaustedLate(attempt) == attempt > MaxRetries

Exhausted(attempt) == attempt >= MaxRetries

\* markOutboxRetry: back to pending with a delay, or failed for good.
MarkRetry ==
  /\ pc = "retry"
  /\ LET attempt == retries[current] + 1 IN
       /\ retries' = [retries EXCEPT ![current] = attempt]
       /\ status' = [status EXCEPT ![current] =
                       IF Exhausted(attempt) THEN "failed" ELSE "pending"]
       /\ wait' = [wait EXCEPT ![current] =
                       IF Exhausted(attempt) THEN 0 ELSE RetryDelay(attempt)]
  /\ NextOfBatch
  /\ UNCHANGED <<txVars, sent, erred, faults>>

CountFault == faults < MaxFaults /\ faults' = faults + 1

\* Either update fails; its error is ignored and the row stays as it is.
UpdateFails ==
  /\ CountFault
  /\ pc \in {"mark", "retry"}
  /\ NextOfBatch
  /\ UNCHANGED <<txVars, rowVars, sent, erred>>

\* The process dies and is restarted; rows it was at stay as they are.
Crash ==
  /\ CountFault
  /\ pc # "idle"
  /\ batch' = {} /\ current' = NoEvent /\ pc' = "idle"
  /\ UNCHANGED <<txVars, rowVars, sent, erred>>

\* A unit of time passes.
Tick ==
  /\ \E e \in Event : wait[e] > 0
  /\ wait' = [e \in Event |-> IF wait[e] = 0 THEN 0 ELSE wait[e] - 1]
  /\ UNCHANGED <<txVars, status, retries, sent, erred, relayVars, faults>>

Attempt == \E e \in Event : Publish(e) \/ PublishFails(e)

Next ==
  \/ \E t \in Tx : Begin(t) \/ Commit(t)
  \/ Fetch \/ Attempt \/ Mark \/ MarkRetry
  \/ UpdateFails \/ Crash \/ Tick

\* The ticker keeps calling processEvents, which runs to its end; time passes.
Fairness == WF_vars(Fetch) /\ WF_vars(Attempt) /\ WF_vars(Mark) /\ WF_vars(MarkRetry)
            /\ WF_vars(Tick)

Spec == Init /\ [][Next]_vars /\ Fairness

-----------------------------------------------------------------------------
\* The retry counter and the dead letter agree at the limit: a row is given up exactly
\* when its last allowed attempt has failed, across crashes and lost updates.
DeadLetterExact == \A e \in Event : status[e] = "failed" <=> retries[e] = MaxRetries

\* What happened after an event, in the sense that its transaction began when the first
\* had committed, is published after it - unless an attempt at the first one failed.
CausalOrder ==
  \A e, f \in Event :
    TxOf[e] \in before[TxOf[f]] /\ f \in sent => e \in sent \cup erred

\* A row is processed or given up in the end, whatever Redis answers: retries are
\* bounded, delays run out, and no row starves behind others.
EveryRowSettles ==
  \A e \in Event : status[e] = "pending" ~> status[e] \in {"processed", "failed"}

\* The status of a row, in the words of OutboxDelivery.
StageOf(s) == CASE s = "none"      -> "absent"
                [] s = "pending"   -> "owed"
                [] s = "processed" -> "settled"
                [] s = "failed"    -> "abandoned"

Stages == [e \in Event |-> StageOf(status[e])]

Delivery == INSTANCE OutboxDelivery WITH stage <- Stages

\* The processor keeps the promise of OutboxDelivery.
ImplementsDelivery == Delivery!Spec
=============================================================================
