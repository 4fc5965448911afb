--------------------------- MODULE IntentExecutor ---------------------------
(***************************************************************************)
(* The order path of services/executor-rust: one task takes deliveries of  *)
(* order intents off the Redis list order_intents, runs the risk engine,   *)
(* reserves an order row in PostgreSQL, submits the order (to the exchange *)
(* for a live bot, to the paper simulator otherwise) and persists what     *)
(* came back.  PostgreSQL commits are the atomic steps; everything the     *)
(* task holds between two of them (pc, cur, stopSeen, reply) is lost when  *)
(* the process dies.                                                       *)
(*                                                                         *)
(* A delivery is identified by the key its inbox row would have: the       *)
(* event_id of an envelope, or the intent's own id for a raw intent        *)
(* (redis/consumer.rs get_event_id_from_json).  IntentOf maps it to the    *)
(* intent it carries: several deliveries may carry the same intent.  The   *)
(* environment may push any delivery any number of times.                  *)
(*                                                                         *)
(* The reconciler of the same process shares the order rows: it copies the *)
(* status the exchange reports into a row that is open.  What it does to   *)
(* positions is left out here.                                             *)
(***************************************************************************)
EXTENDS Naturals, Sequences

CONSTANTS
  Intent,      \* order intents (their id is the order's idempotency key)
  Delivery,    \* inbox keys of the messages that may reach the list
  IntentOf,    \* the intent a delivery carries
  Bot,         \* bots
  BotOf,       \* the bot an intent belongs to
  LiveBot,     \* bots whose mode is live; the others are paper bots
  Connected,   \* bots with an exchange account
  Reply,       \* order statuses the exchange may report
  MaxQueue,    \* bound on the length of the Redis list
  NoDelivery   \* the task holds no message

OrderStatus == {"pending", "submitted", "accepted", "rejected", "cancelled",
                "filled", "partially_filled", "failed"}

EventType == {"risk.check.passed", "risk.check.failed", "order.submitted",
              "order.accepted", "order.rejected", "execution.filled",
              "execution.partially_filled", "execution.failed"}

ASSUME ExecutorAssumption ==
  /\ IntentOf \in [Delivery -> Intent]
  /\ BotOf \in [Intent -> Bot]
  /\ LiveBot \subseteq Bot
  /\ Connected \subseteq Bot
  /\ Reply \subseteq OrderStatus
  /\ MaxQueue \in Nat
  /\ NoDelivery \notin Delivery

VARIABLES
  queue,        \* Redis list order_intents
  inbox,        \* keys of inbox_events
  intentRow,    \* order_intents.status, "none" without a row
  order,        \* orders.status of the row reserved for the intent, or "none"
  exchangeId,   \* whether that row has an exchange_order_id
  emitted,      \* event types written to outbox_events for the intent
  placed,       \* how many orders the exchange received for the intent
  emergency,    \* risk_settings.emergency_stop
  botStatus,    \* bots.status, reduced to active or not: what the scanner asks
  autoStopped,  \* history: bots the executor stopped and the API has not cleared
  reconciled,   \* history: intents whose order the reconciler has moved on
  pc, cur, stopSeen, reply   \* the consumer task

dbVars   == <<inbox, intentRow, order, exchangeId, emitted, reconciled>>
riskVars == <<emergency, botStatus, autoStopped>>
taskVars == <<pc, cur, stopSeen, reply>>
vars     == <<queue, inbox, intentRow, order, exchangeId, emitted, placed,
              emergency, botStatus, autoStopped, reconciled, pc, cur, stopSeen, reply>>

Step == {"idle", "check", "load", "validate", "reserve", "execute", "persist",
         "inbox", "stop", "pause", "reject", "dead"}

\* Each state component ranges over what the tables and the task can hold.
TypeOK ==
  /\ queue \in Seq(Delivery)
  /\ inbox \subseteq Delivery
  /\ intentRow \in [Intent -> {"none", "validated", "rejected"}]
  /\ order \in [Intent -> OrderStatus \cup {"none"}]
  /\ exchangeId \in [Intent -> BOOLEAN]
  /\ emitted \in [Intent -> SUBSET EventType]
  /\ placed \in [Intent -> Nat]
  /\ emergency \in [Bot -> BOOLEAN]
  /\ botStatus \in [Bot -> {"active", "inactive"}]
  /\ autoStopped \subseteq Bot
  /\ reconciled \subseteq Intent
  /\ pc \in Step
  /\ cur \in Delivery \cup {NoDelivery}
  /\ stopSeen \in BOOLEAN
  /\ reply \in Reply \cup {"none", "error", "filled"}

Init ==
  /\ queue = <<>>
  /\ inbox = {}
  /\ intentRow = [i \in Intent |-> "none"]
  /\ order = [i \in Intent |-> "none"]
  /\ exchangeId = [i \in Intent |-> FALSE]
  /\ emitted = [i \in Intent |-> {}]
  /\ placed = [i \in Intent |-> 0]
  /\ emergency = [b \in Bot |-> FALSE]
  /\ botStatus = [b \in Bot |-> "active"]
  /\ autoStopped = {} /\ reconciled = {}
  /\ pc = "idle" /\ cur = NoDelivery /\ stopSeen = FALSE /\ reply = "none"

-----------------------------------------------------------------------------
CurIntent == IntentOf[cur]
CurBot    == BotOf[CurIntent]

Goto(step)    == pc' = step /\ UNCHANGED <<cur, stopSeen, reply>>
\* The loop goes on to the next BLPOP; the message is not put back.
NextMessage   == pc' = "idle" /\ cur' = NoDelivery /\ stopSeen' = FALSE /\ reply' = "none"

\* The environment: the scanner's fast path, the outbox relay, an operator.
Deliver(d) ==
  /\ Len(queue) < MaxQueue
  /\ queue' = Append(queue, d)
  /\ UNCHANGED <<dbVars, placed, riskVars, taskVars>>

\* BLPOP: from here on the message exists only in this task.
Blpop ==
  /\ pc = "idle" /\ queue # <<>>
  /\ cur' = Head(queue) /\ queue' = Tail(queue)
  /\ pc' = "check"
  /\ UNCHANGED <<dbVars, placed, riskVars, stopSeen, reply>>

\* Mutant: the inbox row written on arrival, before the intent is processed.
CheckInboxEagerly ==
  /\ pc = "check"
  /\ IF cur \in inbox THEN NextMessage ELSE Goto("load")
  /\ inbox' = inbox \cup {cur}
  /\ UNCHANGED <<queue, intentRow, order, exchangeId, emitted, reconciled, placed,
                 riskVars>>

\* is_processed, before the intent is looked at.
CheckInbox ==
  /\ pc = "check"
  /\ IF cur \in inbox THEN NextMessage ELSE Goto("load")
  /\ UNCHANGED <<queue, dbVars, placed, riskVars>>

\* get_bot and get_risk_settings, outside any transaction.
LoadSettings ==
  /\ pc = "load"
  /\ stopSeen' = emergency[CurBot]
  /\ pc' = "validate"
  /\ UNCHANGED <<queue, dbVars, placed, riskVars, cur, reply>>

\* Mutant: the engine without its first checker.
NoEmergencyChecker == TRUE

\* The first checker of the engine rejects when the settings read say stop.
PassesEmergencyStop == ~stopSeen

\* The later checkers read positions, pnl and configuration: any outcome.
RiskPass ==
  /\ pc = "validate" /\ PassesEmergencyStop
  /\ Goto("reserve")
  /\ UNCHANGED <<queue, dbVars, placed, riskVars>>

RiskReject ==
  /\ pc = "validate"
  /\ Goto("reject")
  /\ UNCHANGED <<queue, dbVars, placed, riskVars>>

RiskAutoStop ==
  /\ pc = "validate" /\ PassesEmergencyStop
  /\ Goto("stop")
  /\ UNCHANGED <<queue, dbVars, placed, riskVars>>

\* update_emergency_stop, committed on its own connection.
AutoStopEmergency ==
  /\ pc = "stop"
  /\ emergency' = [emergency EXCEPT ![CurBot] = TRUE]
  /\ autoStopped' = autoStopped \cup {CurBot}
  /\ Goto("pause")
  /\ UNCHANGED <<queue, dbVars, placed, botStatus>>

\* update_bot_status(Paused), whatever the status was.
AutoStopPause ==
  /\ pc = "pause"
  /\ botStatus' = [botStatus EXCEPT ![CurBot] = "inactive"]
  /\ Goto("reject")
  /\ UNCHANGED <<queue, dbVars, placed, emergency, autoStopped>>

Emit(i, events) == emitted' = [emitted EXCEPT ![i] = @ \cup events]

\* The upsert of the intent row and its risk event, in one transaction.
SaveRejected ==
  /\ pc = "reject"
  /\ intentRow' = [intentRow EXCEPT ![CurIntent] = "rejected"]
  /\ Emit(CurIntent, {"risk.check.failed"})
  /\ Goto("inbox")
  /\ UNCHANGED <<queue, inbox, order, exchangeId, reconciled, placed, riskVars>>

\* Mutant: a reservation left pending is taken over by the next delivery.
ReservableIfPending(i) == order[i] \in {"none", "pending"}

\* reserve_order_tx inserted a row: no row had the idempotency key.
Reservable(i) == order[i] = "none"

\* save_order_intent_tx, the two outbox rows and the reservation commit together.
ReserveOrder ==
  /\ pc = "reserve" /\ CurBot \in Connected /\ Reservable(CurIntent)
  /\ intentRow' = [intentRow EXCEPT ![CurIntent] = "validated"]
  /\ order' = [order EXCEPT ![CurIntent] = "pending"]
  /\ Emit(CurIntent, {"risk.check.passed", "order.submitted"})
  /\ Goto("execute")
  /\ UNCHANGED <<queue, inbox, exchangeId, reconciled, placed, riskVars>>

ShouldSkipExisting(i) == order[i] \notin {"none", "pending"}

\* The key is taken and the order got past pending: Ok(()) without commit.
SkipDuplicate ==
  /\ pc = "reserve" /\ CurBot \in Connected
  /\ ~Reservable(CurIntent) /\ ShouldSkipExisting(CurIntent)
  /\ Goto("inbox")
  /\ UNCHANGED <<queue, dbVars, placed, riskVars>>

\* The two Err returns inside the first transaction, which rolls back: the bot has
\* no exchange account, or the reservation found is still pending.
ReserveFails ==
  /\ pc = "reserve"
  /\ \/ CurBot \notin Connected
     \/ ~Reservable(CurIntent) /\ ~ShouldSkipExisting(CurIntent)
  /\ NextMessage
  /\ UNCHANGED <<queue, dbVars, placed, riskVars>>

ExecutePaper ==
  /\ pc = "execute" /\ CurBot \notin LiveBot
  /\ reply' = "filled" /\ pc' = "persist"
  /\ UNCHANGED <<queue, dbVars, placed, riskVars, cur, stopSeen>>

\* Mutant: a lost answer makes the executor submit once more.
ExecuteLiveRetrying ==
  /\ pc = "execute" /\ CurBot \in LiveBot
  /\ reply' \in Reply \cup {"error"}
  /\ placed' = [placed EXCEPT ![CurIntent] = @ + IF reply' = "error" THEN 2 ELSE 1]
  /\ pc' = "persist"
  /\ UNCHANGED <<queue, dbVars, riskVars, cur, stopSeen>>

\* place_order reached the exchange; its answer arrived, or was lost (an Err).
ExecuteLive ==
  /\ pc = "execute" /\ CurBot \in LiveBot
  /\ placed' = [placed EXCEPT ![CurIntent] = @ + 1]
  /\ reply' \in Reply \cup {"error"}
  /\ pc' = "persist"
  /\ UNCHANGED <<queue, dbVars, riskVars, cur, stopSeen>>

\* get_client failed, or place_order failed before the exchange had the order.
ExecuteLiveFails ==
  /\ pc = "execute" /\ CurBot \in LiveBot
  /\ reply' = "error" /\ pc' = "persist"
  /\ UNCHANGED <<queue, dbVars, placed, riskVars, cur, stopSeen>>

\* Mutant: an event type nobody subscribes to, made from the status.
OrderEventOfStatus(s) == "order." \o s

\* publish_order_event_tx.
OrderEvent(s) ==
  IF s \in {"pending", "submitted"} THEN "order.submitted"
  ELSE IF s \in {"rejected", "cancelled", "failed"} THEN "order.rejected"
  ELSE "order.accepted"

\* build_execution_from_order and publish_execution_event_tx.
ExecutionEvents(s) ==
  IF s = "filled" THEN {"execution.filled"}
  ELSE IF s = "partially_filled" THEN {"execution.partially_filled"}
  ELSE IF s \in {"failed", "rejected", "cancelled"} THEN {"execution.failed"}
  ELSE {}

\* Mutant: the execution event forgotten.
OrderEventOnly(s) == {OrderEvent(s)}

OutcomeEvents(s) == {OrderEvent(s)} \cup ExecutionEvents(s)

\* The second transaction: the reserved row takes the outcome, with its events.
\* A failed execution is reported as Err, so no inbox row follows.
PersistOutcome ==
  /\ pc = "persist"
  /\ LET s == IF reply = "error" THEN "failed" ELSE reply IN
       /\ order' = [order EXCEPT ![CurIntent] = s]
       /\ Emit(CurIntent, OutcomeEvents(s))
  /\ exchangeId' = [exchangeId EXCEPT ![CurIntent] = (reply # "error")]
  /\ IF reply = "error" THEN NextMessage ELSE Goto("inbox")
  /\ UNCHANGED <<queue, inbox, intentRow, reconciled, placed, riskVars>>

SaveInbox ==
  /\ pc = "inbox"
  /\ inbox' = inbox \cup {cur}
  /\ NextMessage
  /\ UNCHANGED <<queue, intentRow, order, exchangeId, emitted, reconciled, placed,
                 riskVars>>

\* A database error at any step that awaits one is logged and the message dropped.
\* (The checkers swallow theirs; in "execute" one is an execution error.)
DbError ==
  /\ pc \in {"check", "load", "reserve", "persist", "inbox", "stop", "pause", "reject"}
  /\ NextMessage
  /\ UNCHANGED <<queue, dbVars, placed, riskVars>>

\* A Redis error ends the consumer task for good, while the process lives on.  The
\* server may already have popped the message it could not send.
BrokerError ==
  /\ pc = "idle"
  /\ \/ UNCHANGED queue
     \/ queue # <<>> /\ queue' = Tail(queue)
  /\ Goto("dead")
  /\ UNCHANGED <<dbVars, placed, riskVars>>

\* The container dies at any point and is restarted.
Restart ==
  /\ NextMessage
  /\ UNCHANGED <<queue, dbVars, placed, riskVars>>

\* The API's emergency-stop endpoints.
SetEmergency(b, value) ==
  /\ emergency' = [emergency EXCEPT ![b] = value]
  /\ autoStopped' = IF value THEN autoStopped ELSE autoStopped \ {b}
  /\ UNCHANGED <<queue, dbVars, placed, botStatus, taskVars>>

\* The API's bot commands, seen from here.
SetBotStatus(b, s) ==
  /\ botStatus' = [botStatus EXCEPT ![b] = s]
  /\ UNCHANGED <<queue, dbVars, placed, emergency, autoStopped, taskVars>>

OpenStatus == {"pending", "submitted", "accepted", "partially_filled"}

\* reconcile_orders: an open row that has an exchange id takes the status the exchange
\* reports, in one statement and without an event.  One reconciler is the only writer
\* of such rows, so reading them first loses nothing.
Reconcile(i) ==
  /\ order[i] \in OpenStatus /\ exchangeId[i]
  /\ \E s \in Reply \ {order[i]} : order' = [order EXCEPT ![i] = s]
  /\ reconciled' = reconciled \cup {i}
  /\ UNCHANGED <<queue, inbox, intentRow, exchangeId, emitted, placed, riskVars, taskVars>>

ExecutorStep ==
  \/ Blpop \/ CheckInbox \/ LoadSettings
  \/ RiskPass \/ RiskReject \/ RiskAutoStop
  \/ AutoStopEmergency \/ AutoStopPause \/ SaveRejected
  \/ ReserveOrder \/ SkipDuplicate \/ ReserveFails
  \/ ExecutePaper \/ ExecuteLive \/ ExecuteLiveFails
  \/ PersistOutcome \/ SaveInbox

Fault == DbError \/ BrokerError \/ Restart

ApiStep ==
  \E b \in Bot : \/ \E value \in BOOLEAN : SetEmergency(b, value)
                 \/ \E s \in {"active", "inactive"} : SetBotStatus(b, s)

Next ==
  \/ ExecutorStep \/ Fault \/ ApiStep
  \/ \E d \in Delivery : Deliver(d)
  \/ \E i \in Intent : Reconcile(i)

Spec == Init /\ [][Next]_vars

-----------------------------------------------------------------------------
\* However often an intent is delivered and wherever the executor crashes, the
\* exchange receives at most one order for it (app.rs: "Reserve before execution so
\* duplicate delivery cannot submit twice").
AtMostOnePlacement == \A i \in Intent : placed[i] <= 1

\* The outbox tells the story of the order row until the reconciler moves it on: the
\* passed risk check is recorded whenever a row exists (no risk check, no order), and an
\* event of an outcome is there exactly when the row has that outcome, whatever crashes
\* or errors intervened.
OutboxMatchesOrder ==
  \A i \in Intent \ reconciled :
    /\ "risk.check.passed" \in emitted[i] <=> order[i] # "none"
    /\ "order.submitted" \in emitted[i] <=> order[i] # "none"
    /\ "order.accepted" \in emitted[i]
         <=> order[i] \in {"accepted", "filled", "partially_filled"}
    /\ "order.rejected" \in emitted[i]
         <=> order[i] \in {"rejected", "cancelled", "failed"}
    /\ "execution.filled" \in emitted[i] <=> order[i] = "filled"
    /\ "execution.failed" \in emitted[i] <=> "order.rejected" \in emitted[i]

\* The same without the exemption: every change of an order's status, the reconciler's
\* included, is told by an event.
OutboxTellsEveryFill ==
  \A i \in Intent : order[i] = "filled" => "execution.filled" \in emitted[i]

\* A delivery is recorded as processed only once its intent is decided and, if it
\* was accepted, has an order row: deduplication never hides work nobody did.
InboxMeansDecided ==
  \A d \in inbox : LET i == IntentOf[d] IN
    /\ intentRow[i] # "none"
    /\ intentRow[i] = "validated" => order[i] # "none"

\* Once the risk engine has auto-stopped a bot, no intent of that bot gets an order
\* until the API clears the stop, even across restarts and for queued duplicates.
AutoStopHolds ==
  [][\A i \in Intent : BotOf[i] \in autoStopped /\ order[i] = "none"
                         => order'[i] = "none"]_vars

\* The life of an order as OrderOnce sees it, read off the row and the exchange.
Stage(i) ==
  IF order[i] = "none" THEN "absent"
  ELSE IF exchangeId[i] THEN "acknowledged"
  ELSE IF order[i] = "failed" THEN "failed"
  ELSE IF placed[i] = 0 THEN "reserved" ELSE "placed"

Once == INSTANCE OrderOnce WITH
          LiveIntent <- {i \in Intent : BotOf[i] \in LiveBot},
          stage <- [i \in Intent |-> Stage(i)],
          sent <- placed

\* The executor keeps the promise of OrderOnce: one reservation, one placement, one
\* recorded outcome per intent, in that order.
ImplementsOrderOnce == Once!Spec
=============================================================================
