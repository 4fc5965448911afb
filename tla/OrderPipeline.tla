---------------------------- MODULE OrderPipeline ---------------------------
(***************************************************************************)
(* The way of an order intent through the three services: services/        *)
(* scanner-go commits a signal with its outbox rows and pushes the raw     *)
(* intent on the Redis list itself (the fast path); the outbox processor   *)
(* of apps/api-go pushes the same intent again, in an envelope, as long as *)
(* its row is pending; services/executor-rust consumes the list.           *)
(*                                                                         *)
(* Each intent so has two deliveries, <<"raw", i>> and <<"env", i>>, with  *)
(* different inbox keys.  Faults draw on a budget, MaxFaults.              *)
(***************************************************************************)
EXTENDS Naturals, Sequences

CONSTANTS Intent, Bot, BotOf, LiveBot, Connected, Reply, NoDelivery,
          NoIntent,      \* no intent is being handled
          MaxQueue,      \* bound on the Redis list
          MaxRetries,    \* outboxMaxRetries
          MaxFaults      \* bound on the faults of a behaviour

VARIABLES queue, inbox, intentRow, order, exchangeId, emitted, placed,
          emergency, botStatus, autoStopped, reconciled, pc, cur, stopSeen, reply,
          row,         \* outbox_events.status of the intent's row, "none" without one
          retries,     \* its retry_count
          activeBots,  \* scanner: bots of the current scan still to be looked at
          pushing,     \* scanner: committed intent whose raw push is next
          marking,     \* outbox processor: row published but not yet updated
          faults       \* faults so far

executorVars == <<queue, inbox, intentRow, order, exchangeId, emitted, placed,
                  emergency, botStatus, autoStopped, reconciled, pc, cur, stopSeen, reply>>
feederVars   == <<row, retries, activeBots, pushing, marking>>
vars         == <<executorVars, feederVars, faults>>

Raw(i) == <<"raw", i>>
Env(i) == <<"env", i>>
Delivery == {"raw", "env"} \X Intent

X == INSTANCE IntentExecutor WITH IntentOf <- [d \in Delivery |-> d[2]]

ASSUME PipelineAssumption ==
  /\ BotOf \in [Intent -> Bot]
  /\ LiveBot \subseteq Bot /\ Connected \subseteq Bot
  /\ Reply \subseteq X!OrderStatus
  /\ NoIntent \notin Intent /\ NoDelivery \notin Delivery
  /\ MaxQueue \in Nat /\ MaxRetries \in Nat \ {0} /\ MaxFaults \in Nat

\* What the scanner and the outbox processor hold, next to the executor's state.
TypeOK ==
  /\ X!TypeOK
  /\ row \in [Intent -> {"none", "pending", "processed", "failed"}]
  /\ retries \in [Intent -> 0..MaxRetries]
  /\ activeBots \subseteq Bot
  /\ pushing \in Intent \cup {NoIntent}
  /\ marking \in Intent \cup {NoIntent}
  /\ faults \in 0..MaxFaults

Init ==
  /\ X!Init
  /\ row = [i \in Intent |-> "none"]
  /\ retries = [i \in Intent |-> 0]
  /\ activeBots = {}
  /\ pushing = NoIntent /\ marking = NoIntent
  /\ faults = 0

-----------------------------------------------------------------------------
CountFault == faults < MaxFaults /\ faults' = faults + 1

\* Mutant: LPUSH, which puts the newest message first.
PushFront(d) == Len(queue) < MaxQueue /\ queue' = <<d>> \o queue

Push(d) == Len(queue) < MaxQueue /\ queue' = Append(queue, d)
\* Everything of the executor but the list, which the feeders share with it.
KeepExecutor == UNCHANGED <<inbox, intentRow, order, exchangeId, emitted, placed,
                            emergency, botStatus, autoStopped, reconciled, pc, cur, stopSeen, reply>>

\* scan: the bots that are active when the query runs.
Scan ==
  /\ activeBots = {} /\ pushing = NoIntent
  /\ activeBots' = {b \in Bot : botStatus[b] = "active"}
  /\ activeBots' # {}
  /\ UNCHANGED <<executorVars, row, retries, pushing, marking, faults>>

\* The strategy does not trade for this bot.
NoTrade(b) ==
  /\ b \in activeBots /\ pushing = NoIntent
  /\ activeBots' = activeBots \ {b}
  /\ UNCHANGED <<executorVars, row, retries, pushing, marking, faults>>

\* Mutant: the error of the commit is dropped, and the scanner pushes all the same.
SaveSignalUncommitted(i) ==
  /\ BotOf[i] \in activeBots /\ pushing = NoIntent /\ row[i] = "none"
  /\ pushing' = i
  /\ activeBots' = activeBots \ {BotOf[i]}
  /\ UNCHANGED <<executorVars, row, retries, marking, faults>>

\* Mutant: no outbox delivery for an intent that takes the fast path.
SaveSignalFastOnly(i) ==
  /\ BotOf[i] \in activeBots /\ pushing = NoIntent /\ row[i] = "none"
  /\ row' = [row EXCEPT ![i] = "processed"]
  /\ pushing' = i
  /\ activeBots' = activeBots \ {BotOf[i]}
  /\ UNCHANGED <<executorVars, retries, marking, faults>>

\* SaveSignalWithOutbox commits the signal and the pending outbox rows.
SaveSignal(i) ==
  /\ BotOf[i] \in activeBots /\ pushing = NoIntent /\ row[i] = "none"
  /\ row' = [row EXCEPT ![i] = "pending"]
  /\ pushing' = i
  /\ activeBots' = activeBots \ {BotOf[i]}
  /\ UNCHANGED <<executorVars, retries, marking, faults>>

\* The fast path: PushOrderIntent, after the commit, the row still pending.
PushRaw ==
  /\ pushing # NoIntent
  /\ Push(Raw(pushing))
  /\ pushing' = NoIntent
  /\ KeepExecutor /\ UNCHANGED <<row, retries, activeBots, marking, faults>>

\* The push fails (only logged), or the scanner dies before it.
PushRawFails ==
  /\ CountFault
  /\ pushing # NoIntent
  /\ pushing' = NoIntent
  /\ \/ UNCHANGED activeBots
     \/ activeBots' = {}
  /\ UNCHANGED <<executorVars, row, retries, marking>>

Due(i) == row[i] = "pending"

\* processEvents publishes a pending row ...
RelayPublish(i) ==
  /\ marking = NoIntent /\ Due(i)
  /\ Push(Env(i))
  /\ marking' = i
  /\ KeepExecutor /\ UNCHANGED <<row, retries, activeBots, pushing, faults>>

\* ... then marks it processed.
RelayMark ==
  /\ marking # NoIntent
  /\ row' = [row EXCEPT ![marking] = "processed"]
  /\ marking' = NoIntent
  /\ UNCHANGED <<executorVars, retries, activeBots, pushing, faults>>

\* The update fails (its error is dropped), or the process dies before it: the row
\* stays pending and is published again.
RelayMarkFails ==
  /\ CountFault
  /\ marking # NoIntent
  /\ marking' = NoIntent
  /\ UNCHANGED <<executorVars, row, retries, activeBots, pushing>>

\* RPUSH returns an error, whether or not Redis applied it: markOutboxRetry.
RelayPublishFails(i) ==
  /\ CountFault
  /\ marking = NoIntent /\ Due(i)
  /\ \/ UNCHANGED queue
     \/ Push(Env(i))
  /\ retries' = [retries EXCEPT ![i] = @ + 1]
  /\ row' = [row EXCEPT ![i] = IF retries[i] + 1 >= MaxRetries THEN "failed" ELSE "pending"]
  /\ KeepExecutor /\ UNCHANGED <<activeBots, pushing, marking>>

Executor == X!ExecutorStep /\ UNCHANGED <<feederVars, faults>>
ExecutorFault == (X!DbError \/ X!Restart) /\ pc # "idle" /\ CountFault /\ UNCHANGED feederVars
Reconcile == (\E i \in Intent : X!Reconcile(i)) /\ UNCHANGED <<feederVars, faults>>
Api == X!ApiStep /\ UNCHANGED <<feederVars, faults>>

ScannerStep == Scan \/ PushRaw \/ \E b \in Bot : NoTrade(b) \/ \E i \in Intent : SaveSignal(i)
RelayStep   == RelayMark \/ \E i \in Intent : RelayPublish(i)
FeederFault == PushRawFails \/ RelayMarkFails \/ \E i \in Intent : RelayPublishFails(i)

Next == ScannerStep \/ RelayStep \/ Executor \/ Reconcile \/ Api \/ ExecutorFault \/ FeederFault

(***************************************************************************)
(* The tickers of the outbox processor and the consumer loop keep running, *)
(* and generateSignal runs to its end; strategies, operators and faults    *)
(* are under no obligation.                                                *)
(***************************************************************************)
Fairness ==
  /\ WF_vars(PushRaw)
  /\ WF_vars(RelayMark)
  /\ \A i \in Intent : SF_vars(RelayPublish(i))
  /\ WF_vars(Executor)

Spec == Init /\ [][Next]_vars /\ Fairness

-----------------------------------------------------------------------------
\* To the executor, scanner and outbox processor are nothing but pushes on the list:
\* all that is shown of IntentExecutor holds in the pipeline.
ImplementsExecutor == X!Spec

\* Every order, and every row of order_intents, goes back to a committed signal: the
\* fast path never overtakes the transaction that creates the intent.
OrderHasSignal ==
  \A i \in Intent : intentRow[i] # "none" \/ order[i] # "none" => row[i] # "none"

\* With at most one lost push, failed database call, or crash, every intent whose signal
\* committed is eventually decided if its bot has an exchange account: the two deliveries
\* cover each other.  Without an account each delivery that passes the risk engine ends in an
\* error, which undoes its transaction: the intent stays undecided though nothing failed.
EveryIntentDecided ==
  \A i \in Intent :
    row[i] # "none" /\ BotOf[i] \in Connected ~> intentRow[i] # "none" \/ faults > 1

\* A decided intent keeps its decision: order_intents.status has no transition out of
\* validated or rejected.
IntentDecisionFinal ==
  [][\A i \in Intent : intentRow[i] # "none" => intentRow'[i] = intentRow[i]]_vars

\* An order is only pending as long as it was not sent to the exchange, at any time
\* when the consumer is not working on it.
PendingNotSent ==
  \A i \in Intent : order[i] = "pending" /\ pc = "idle" => placed[i] = 0
=============================================================================
