# Verification of the WCH trading platform

TLA+ modules, TLC configurations and TLAPS proofs for this repository: `services/scanner-go`
(signals and order intents), `apps/api-go` (control plane, outbox processor, WebSocket hub),
`services/executor-rust` (risk engine, orders, reconciler, position monitor), `apps/web` (the
dashboard) and the build assistant (`services/notification-service`, `services/ai-agent`).

Run, in this directory (one cfg per run of section 3, one proof module per line of section 4):

    tlc -workers 2 -config MCIntentExecutor.cfg MCIntentExecutor
    tlapm IntentExecutorProofs.tla

## 1. Inventory

`docker-compose.yml` starts one container per service with `restart: unless-stopped`, so there
is one scanner, one API process with one outbox processor, and one executor. They share
PostgreSQL, the source of truth, and Redis: the list `order_intents` and three Pub/Sub channels.

    scanner-go --commit signal + outbox rows--> PostgreSQL <--status, settings-- api-go <-- HTTP
        |                                            |                            |
        | RPUSH raw intent (fast path)               | pending rows               | WebSocket
        v                                            v                            v
      order_intents (Redis list) <--RPUSH envelope-- outbox processor --PUBLISH--> clients
        |
        v BLPOP
    executor-rust: inbox check, risk engine, reserve order, exchange, outcome --> PostgreSQL
        reconciler (exchange status -> orders, positions), monitor (positions -> closing orders)

`apps/web` runs in each browser tab: React components over a query cache (REST) and a WebSocket
that feeds a store. The build assistant stands apart: a Telegram bot and an orchestrator of agents
that exchange tasks and answers over two Pub/Sub channels.

| Component | State | Operations | What is hard | What makes it correct |
|---|---|---|---|---|
| Executor: intents (`app.rs`, `redis/consumer.rs`, `postgres/orders.rs`, `inbox.rs`) | rows of order_intents, orders, inbox_events, outbox_events; the task's message in hand | take a message, deduplicate, risk check, reserve, execute, persist the outcome, auto-stop | every await is a crash point; BLPOP is destructive; an intent arrives by two ways; settings are read early | one order per intent at the exchange; rows and events agree; deduplication hides nothing; an auto-stop holds |
| Executor: risk engine (`risk/*.rs`) | none | a chain of checkers | reads several tables at different moments | order of the checkers; limits at their boundary |
| Executor: reconciler (`execution/reconciliation.rs`, `postgres/positions.rs`) | orders.status, positions | poll open orders, copy the status, book the fill | status and position are written separately, without an event | each fill is booked once |
| Executor: monitor (`risk/monitor.rs`) | positions | trailing stop, stop loss and take profit, closing order | exchange call before any row, stale position | one closing order per position; the stop never moves back |
| API: outbox processor (`platform/outbox`) | outbox_events | fetch a batch, publish, mark, retry with back-off, dead letter | publish and mark are not atomic; timestamps tie | nothing owed is lost; retries are bounded; order of causally related events |
| API: bots, entitlement (`trading/bots`, `identity/subscription`) | bots, bot_state_transitions | create, activate paper, request live, pause, stop | checks a status or a count it read earlier | a stopped bot stays stopped; limits of the plan |
| API: risk settings (`trading/risk`) | risk_settings | update (read, merge, write), emergency stop of one or all bots | lost update of emergency_stop | an emergency stop holds until it is cleared |
| API: WebSocket hub (`bus`) | clients per user, their send buffers | register, unregister, broadcast | a slow client is dropped while it unregisters | a channel is closed once; the hub never blocks |
| Scanner (`scanner`, `repository`) | signals, outbox rows | scan, commit a signal, push the intent | fast path next to the outbox | every intent goes back to a committed signal |
| Web: live feed (`useSocket`, `TradingDataInitializer`, `useTradingStore`) | socket, reconnect timers, the store's orders and executions | mount (login), render, unmount (logout), reconnect, handle an event | every render makes a new socket; timers outlive it and its mount; frames of several events | one socket feeds the store; an order never steps back; no execution twice; order updates arrive |
| Web: bots (`useBots`, `pages/bots`) | query cache, selection, calls under way | list, select, create, four commands | a refetch races a fetch; buttons follow an old answer | a page never shows less than the user was told; buttons and API agree |
| Web: risk form (`pages/settings/RiskSettings`) | form, two queries, two calls | select, type, save, emergency stop | an effect fills the form from queries that answer late | values of one bot are never saved for another; a stop is lifted knowingly |
| Web: session (`lib/auth`, `authStore`, `useAuth`) | token per tab, localStorage | login, register, logout, reload | a call outlives its form; tabs share the storage | tab and storage agree |
| Web: list pages | one query each | load, filter, refresh, add, statistics | null lists, failed and paused queries, a cache that outlives the session | "nothing here" is only said when true; own rows; figures agree |
| Build assistant (`telegram.ts`, `orchestrator.ts`) | texts, messages under way | receive, publish a task, answer, send | Pub/Sub reaches only who listens; processes end; ioredis sends a publication again | an undisturbed text is answered once; every further answer has a cause; the help text is true |
| Identity, wallets, exchange accounts, HTTP | rows | single statements | - | seen through the pages that call them |
| Lifecycle event consumer, shell and static pages, packages | - | logging, layout, types | - | not modelled |

`PROJECT.json` lists the components with their sources and, under `hazards`, what in this code
is hard to test, each at its line.

## 2. Modules

| Module | Models | Kind |
|---|---|---|
| `OrderOnce` | what the executor promises of an intent: reserved, placed, outcome recorded, each at most once | abstract |
| `IntentExecutor` | the consumer of order_intents and `App::process_intent` with the exchange, operators and the reconciler around it | detailed, implements `OrderOnce` |
| `IntentExecutorProofs` | inductive invariant, safety theorems and refinement of `IntentExecutor` | proofs |
| `OrderPipeline` | scanner, outbox processor and executor composed over the list | composition, implements `IntentExecutor` |
| `OrderPipelineProofs` | types, refinement and safety of `OrderPipeline` | proofs |
| `OutboxDelivery` | what the outbox promises of an event | abstract |
| `OutboxRelay` | transactions that write outbox rows, and the outbox processor with batches, retries and time | detailed, implements `OutboxDelivery` |
| `OutboxRelayProofs` | inductive invariant, safety and refinement of `OutboxRelay` | proofs |
| `PositionKeeping` | reconciler and risk monitor over orders, positions and the exchange | detailed |
| `PositionKeepingProofs` | inductive invariant, bookings and stops of `PositionKeeping` | proofs |
| `BotRules` | the statuses of a bot and the table of commands, shared by the API and the page | operators |
| `BotLifecycle` | the API's bot commands as concurrent requests, the plan's limits, the executor's auto-stop | detailed |
| `BotLifecycleProofs` | inductive invariant and the properties of `BotLifecycle` | proofs |
| `LiveFeed` | relay, hub, the goroutines of each client, browser sockets, the hook and the trading store | composition |
| `LiveFeedProofs` | order of events on the way, and the properties of `LiveFeed` | proofs |
| `QueryCache` | one entry of the query cache: ask, join, invalidate, pause, answer, fail | operators |
| `BotConsole`, `RiskConsole` | the bots' pages and the risk form, over the cache and the API's answers | detailed |
| `ConsoleProofs` | inductive invariants and the properties of both | proofs |
| `WebSession` | tokens of the tabs of a browser and their calls | detailed |
| `DashboardPages` | the list pages: what they say and compute, through sign-ins and sign-outs | detailed |
| `AssistantRelay` | texts of the build assistant, with ends of either process, dropped connections and publications sent again | detailed |
| `WebClient` | bots' pages, risk form, session, list pages, live feed and assistant side by side | composition |
| `WebClientProofs` | inductive invariants and the properties of session, list pages and assistant, and of the composition | proofs |
| `MC*` | values of the constants for TLC | model checking |

Operators whose comment begins with "Mutant:" are faulty variants of the definition that follows
them. No specification uses them; they show that a property notices the mistake.

### IntentExecutor

One action per step of the consumer between two awaits that matter: `Blpop`, `CheckInbox`,
`LoadSettings`, the risk engine's three outcomes (`RiskPass`, `RiskReject`, `RiskAutoStop`), the
transactions (`ReserveOrder`, `SaveRejected`, `PersistOutcome`, `SaveInbox`), the two statements of
the auto-stop, and the exchange call (`ExecuteLive`, `ExecuteLiveFails`, `ExecutePaper`). A
transaction is one atomic step because PostgreSQL makes it so and the executor is the only writer
of these rows; the statements inside it that can fail are `ReserveFails` and `DbError`, both of
which roll back. What the task holds in memory (`pc`, `cur`, `stopSeen`, `reply`) is lost in
`Restart`. `BrokerError` is the `?` on BLPOP that ends the task while the process lives.

A delivery is named by its inbox key. The raw intent of the fast path is recorded under the
intent's id, the envelope of the outbox under the event's id, so two deliveries of one intent have
different keys (`IntentOf` is not injective), as in the code. The environment may push any delivery
any number of times, which covers duplicates and re-publications.

Abstracted: amounts and prices. The checkers after the emergency stop (position limit, daily loss,
drawdown, stop loss, take profit) answer nondeterministically, since they read data the model does
not have. The auto-stop is reachable in the model whenever the engine is; in the code it needs
`executions.pnl`, which nothing in the repository writes with a value, so it is reached only if
something else fills that column. A live bot is one whose `bots.mode` says so; no API path sets it,
an operator does. `emitted` is a set per intent: how often an event type was written is not told
apart. `SetEmergency` stands for every write of the API to emergency_stop, including the write-back
of `UpdateRiskSettings`.

### OrderPipeline

Adds the scanner (`Scan`, `NoTrade`, `SaveSignal`, `PushRaw`) and the outbox processor restricted to
order intents (`RelayPublish`, `RelayMark`, and their failures), with faults on a budget.
`SaveSignal` happens once per intent: the scanner makes a new id every time.

### OutboxRelay

A row's `created_at` is `NOW()`, the begin time of its transaction, which is why `Begin` and
`Commit` are separate: a transaction may commit after younger ones were published, and the rows of
one transaction tie. The API's `SaveEvent` passes the application's `time.Now()` instead, taken within the
transaction: for such a row `Begin` is that moment, by which at least as much had committed, so `CausalOrder`
says no less of it. The clocks of database and API are taken to agree. `before` records which transactions had committed when one began, the order
`CausalOrder` is about. The processor fetches the oldest due rows, then handles them one by one;
updates that fail are ignored, as in the code (`_, _ =`). `sent` is a set, since a client that
retries a command may publish more than once. `Poison` rows have metadata that does not parse.

### BotLifecycle

A request runs `Check` (GetBotByID and the guard on the status it returned), `Count`
(ListBotsByUserID and CheckEntitlement), then `Insert`, or `Lock` (SELECT ... FOR UPDATE) and `Commit`
(UPDATE, transition row, event). Only the last pair is one transaction; `Fail` is any error or a restart in
between. The executor's `AutoStop` is a single UPDATE that waits for the row lock and looks at
nothing. One user, since limits are per user; the plan does not change; `error` is a status no code sets;
the mode is left out because the code only writes paper. `ApproveLive` is external: PauseBot expects
`live_active`, but nothing in the repository sets it. `Losing` are the bots whose executions carry a loss,
the only ones the executor stops by itself.

`overtaken` is a history variable: the requests past their check when their bot was stopped.

### PositionKeeping

One action per await of the reconciler (`GetOpenOrders`, `Poll`, `UpdateOrderStatus`,
`UpsertPosition`) and of the monitor (`GetOpenPositions`, `CheckPosition`, `ClosePosition`), each with
the failure the code logs and goes on from. `seen` holds the positions as the pass read them; what is
written later is that copy. Prices are levels, and percentages distances chosen anew at each read,
since a user may change the settings at any time; a distance of 0 is a missing percentage. Every order
is of quantity one.

What the model made plain, and `FillsBooked` states: an order filled by the answer to `place_order` is
never booked as a position; a failed status update books a fill twice; a failed upsert or a crash
between the two loses it; the upsert adds whatever the side is (`postgres/positions.rs:73`). And the
monitor never reduces a position: `save_order` of its closing order has a fresh uuid as
`order_intent_id`, which the foreign key of `migrations/014_order_intents.sql:16` refuses, so the
`UPDATE positions SET quantity = 0` after it is not reached and the next pass closes again. That step
is modelled by what the database does (`Placeholder \in Order` is never true).

### LiveFeed

The hub's channels are unbuffered, so a register, unregister or broadcast is a rendezvous and one step;
`Client.send` is a queue of `Buffer` events, and a client that finds it full is dropped. `WriteFrame`
takes all that is queued: a frame of several events does not parse in the browser, and all of them are
lost (`OnMessage`). On the browser's side the effect of `useSocket` runs on every `Render`, because
its callback is new each time: it closes the current socket and opens another. `OnClose` of a socket
runs later, with the state of then, and may arm a timer; no code disarms it, so despite the comment at
`useSocket.ts:64` ("prevent reconnecting on unmount") a timer may open a socket after the unmount, or
next to the current one: `orphaned`. `Unmount` is a logout and `Mount` a login in the same tab
(`Dashboard.tsx:31`): each mount has its own refs (`count`, `timers`, the `owner` of a socket), while the
store is global to the tab and nothing clears it. A timer of a former mount opens a socket that no later
mount knows or closes (`Reconnect` of an `m` that is not `Here`); it feeds the same store, and is `orphaned` too.
`Forward` lets the subscriber hear the trade stream alone; `StreamForEventType` sends order outcomes to the
control stream, which nobody relays.

### BotConsole, RiskConsole and QueryCache

`QueryCache` is the library's entry as the hooks use it: a mount joins a fetch under way, an
invalidation replaces one unless there is no data yet. `BotConsole` sees the API from outside: a command
is handled in one step, whose steps are those of `BotLifecycle`; both take the table from `BotRules`.
Rows carry the number of their last write, which tells older data from newer. A list without rows is
null (`FetchFails`). In `RiskConsole` the API's `UpdateRiskSettings` is two steps, `SaveReads` and
`SaveWrites`, with `SetElsewhere` (the auto-stop, another tab's toggle, the global stop being set or cleared)
in between; `Show` is the effect that refills the form whenever the settings under it change, and
`OnlineAgain` the refetch after a reconnect. That refetch, and fetches paused offline, are left out of
`BotConsole`: there a pause is a delay of the fetch, which its interleavings have, and a refetch that nobody
asked for only brings rows at least as new.

### WebSession

Tabs share localStorage. A form that goes away forgets its call, but the call's `onSuccess` still runs;
`both` remembers that two calls of a tab were under way at once, which is what such an answer needs.

### DashboardPages

One page and one query entry per behaviour: `Page` names them. `Texts` is what the page says,
translated per page, as the order of the tests for loading, error and empty differs.
Keys do not name the user and logout clears nothing, so an entry passes from one user to the next.
A fetch that starts, or is to be retried, while the browser is offline (or a retry in a hidden tab) is paused
(`PagePauses`): it neither loads nor has failed, so a page without data says that there is nothing; `EmptyIsHonest` names
that case. `PageResumes` and `PageOnline` are the library's default when the browser is online again.
`WchHistory`, `WchBalance`, `WalletConnect`, `Signals`, `ScannerDashboard`, `Orders` and `Executions`
are exported components that no route mounts (as are Profile and Security, not modelled); they are
modelled as they would behave if mounted.

A list is a sequence of rows, what a page shows of it a set of its places, and a figure a sum over
the list (`Total`, the code's `reduce`) or a number of places. Amounts are integers: the rounding of the browser's
numbers is left out. `PagesAssumption` says what the theorems need of the lists: that their rows are
rows, and that a signal is to buy or to sell (`packages/shared-types/signal.ts`). A transaction has one of four
statuses and `WchHistory` adds up three of them, so `FiguresAgree` counts cancelled ones apart.

### AssistantRelay

A text goes from Telegram to the bot (`Handle`), as a task over one channel (`PublishTask`) to the
orchestrator, and its answer over the other back to the chat. `hears` is who has subscribed: neither side
has at its start, and a subscriber's connection may drop with both processes up (`SubscriberDrops`). `BotEnds`
and `AgentsEnd` end a process; texts not confirmed are then given out again. ioredis sends a command again whose
reply was lost with its connection, so a publication may arrive twice (`TaskResent`, `AnswerResent`, counted in
`resent`), or fail for good (`AnswerUnpublished`). `troubled` are the texts that were handled while a side did
not subscribe, or were on their way when something failed: `LostOnlyByOutage` speaks of all the others.
`Padded` are the texts with white space before their command, the only way past the guard at `telegram.ts:32`.

## 3. Runs

| Run | Question | Result |
|---|---|---|
| `executor` | IntentExecutor with a live bot (two deliveries of one intent) and a paper bot | safety, `AutoStopHolds`, refinement of `OrderOnce` |
| `pipeline` | An intent of a live bot through all three services, two faults, the reconciler | `OrderHasSignal`, `EveryIntentDecided`, refinement of `IntentExecutor` |
| `bots` | Two concurrent requests, three bots, a plan of one paper and one live bot | `OverbookingBounded`, `TrailIsTrue`, `RevivedOnlyByRace` |
| `outbox` | Three rows, two transactions, a poison row, a fault | `DeadLetterExact`, `CausalOrder`, `EveryRowSettles`, refinement of `OutboxDelivery` |
| `positions` | An order to buy and one to sell for one bot and symbol, with every failure | `FillsBooked`, `StopNeverMovesBack` |
| `web` | Bots' pages, risk form, session, list pages, live feed and assistant side by side | `ReadYourWrites`, `RefusedOnlyWhenStale`; `FormIsOfChosenBot`, `LiftedOnlyByRequestOrRace`; `TabAgreesWithStorage`, `LateSignInNeedsTwoCalls`; `EmptyIsHonest`, `OwnRowsOnceSettled`, `FiguresAgree`; `ClosedOnce`, `SingleFeed`, `ExecutionsOnce`, `StepsBackOnlyByOverlap`; `LostOnlyByOutage`, `AnswersAccountedFor` |
| `v_intent_decision` | docs/state-machine-week1.md:69-74: a decided intent keeps its decision | violated: the second delivery is judged again |
| `v_pending_sent` | docs/adr/007-state-machines.md:42: pending means not yet sent | violated: restart between `place_order` and the commit of the outcome |
| `v_outbox_fill` | docs/adr/007-state-machines.md:60: every transition publishes its event | violated: the reconciler's status changes |
| `v_stopped` | docs/adr/007-state-machines.md:20: stopped is permanent | violated: a request that checked before the stop writes after it |
| `v_order_updates` | LiveOrders.tsx:14: a real-time stream of order updates | violated: an acceptance takes the control stream, which the subscriber does not hear |
| `v_help` | telegram.ts:22-25: the commands of the bot's help | violated: the bot's own handler drops them |

Bounds. `MaxQueue` (length of the list) 1 or 2: a second message waiting behind the one in hand is
what duplicates need. `MaxFaults` is 2 in `pipeline`, which loses
both deliveries of an intent: `EveryIntentDecided` promises a decision as long as there was at most one fault
(`faults`), which is what the platform really tolerates. One intent is enough for it, since a fault loses a delivery of
one intent and the list is first in, first out; `v_intent_decision` and `v_pending_sent` have two.
`EveryIntentDecided` is of bots with an exchange account (`Connected`): for the others `app.rs:106` ends both
deliveries in an error after the risk check, so an intent that passes it is never decided, with no fault at
all; the scanner scans such bots like any other. `IntentExecutor` alone has no fault bound: its state space is finite with
faults at any point; it is symmetric in the two deliveries of the live bot's intent. `MaxRetries` 3 instead of 5 and `MaxBackoff` 2 instead of 60 units in `OutboxRelay`, so that
both the doubling and the cap are reached; in the code five retries never reach the cap
(5 s x 2^3 = 40 s). `BatchSize` 2 with three rows: a batch that leaves a row behind. Replies are a
few statuses that the executor and the reconciler treat differently. `BotLifecycle` has three bots, one
more than two requests can create under a plan of one; its state is symmetric in two of the bots and
in the requests.

`positions`: three price levels and distances 0, 1 and 3, since a wide trailing distance after a tight
stop is what could move a stop back; two bookings of an order, one more than there should be.
`web`: `part`, chosen by `WebInit` of `WebClient`, says which module moves; they share no variable and no property speaks
of two, so this checks each of them in full without their product (`SideBySideAsAlone` is the theorem). Two users, two bots, two tabs with three
calls (one form's and two left behind), three texts, two outages; for the feed one order, published twice,
and its fill, two sockets alive at a time, since overlap is of two, two mounts, since what goes wrong needs a
former one, a buffer of two, which both fills and makes frames of several events, one frame under way and one
timer of each mount at a time (sockets are symmetric); lists of up to five rows that
hold each status the pages tell apart. `FirstStatus` is the status from which the fewest commands are
permitted; the others follow from commands, from an operator's approval or for bots that are created.

Fairness. `OrderPipeline`: weak fairness of the executor's steps (the consumer loop runs as long as
the process does, and a container that dies is restarted), of `PushRaw` (`generateSignal` runs to
its end) and of `RelayMark`; strong fairness of `RelayPublish`, because only the bound `MaxQueue`,
which the Redis list does not have, disables it now and then. `BrokerError` is not part of the
pipeline: after it nothing is decided until a restart, and nothing in the code restarts the task
(listed as a hazard). Operators, strategies and the reconciler are under no obligation. `OutboxRelay`:
weak fairness of the processor's steps (a ticker every 5 s) and of time. Deadlock checking is
off in `outbox`, where all rows may be settled, and in `web`, `v_order_updates` and `v_help`, where all texts
may be answered or the page gone with its sockets closed: there nothing is left to do.

## 4. Proofs

`IntentExecutorProofs` proves, for every set of intents, deliveries, bots and replies and every queue
bound, from `ExecutorAssumption` alone:

- `Invariance`: `Spec => []IInv`, with `IInv` the conjunction of `TypeOK`; `TaskOK` (a message is in
  hand exactly while the task works on one); `RowOK` (an intent without a row was never placed, none is
  placed twice); `AttemptOK` (at `execute` and `persist` the row in hand is still pending, and at
  `execute` nothing was placed for it); `StopOK` (the settings of an auto-stopped bot say stop, and no
  task is about to reserve for it); `DecisionOK` (order rows, decisions and inbox rows come in that
  order); and `OutboxMatchesOrder`.
- From it `TypeCorrect`, `OneOrderPerIntent`, `OutboxFaithful`, `InboxFaithful`, `AutoStopFinal`.
- `Refinement`: `Spec => Once!Spec`; initial states map to initial states, every step to a step of
  `OrderOnce` or a stutter.

`AtMostOnePlacement` is not inductive: a state in which the task stands before the exchange call while
the order was placed already satisfies it, and its successor does not. `AttemptOK` excludes such a
state: only the task that inserted the row gets to `execute`, it submits once, and a row left behind
by a crash is never reservable again.

`BotLifecycleProofs` proves, for any bots, any finite set of concurrent requests and any plan, from
`LifecycleAssumption`: `TypeCorrect`, `BookingBound`, `TrailCorrect` and `Revival`. The bound on
overbooking needs `BookingOK`: bots made plus bookings still to come stay within the limit plus the
number of requests less one, because a request only passes the count while there is room, and
its commit turns a booking to come into one made. `TrailCorrect` needs `LockOK` (one transaction per
row, whose status does not change under it), `Revival` needs `StopOK` (a request past its check
that finds its bot stopped was overtaken).

`OutboxRelayProofs` proves, for any finite set of transactions, any rows, batch size and retry limit:
`RelayTypes` (with it, that no delay exceeds the cap), `GivenUpAtTheLimit` (`DeadLetterExact`), `CausesFirst` (`CausalOrder`) and `KeepsThePromise` (refinement
of `OutboxDelivery`). `Order` is the
argument for the causal order: a row that was neither sent nor in error is due from its commit on, so
a batch that holds a row caused by it holds it too, and takes it first because its transaction
began earlier (`Stamps`). The refinement mapping is `StageOf`.

`OrderPipelineProofs` proves that the three services together implement the executor
(`PipelineImplements`), and so inherits its invariant: it instantiates `IntentExecutorProofs` with two
deliveries of each intent, which gives `ExecutorInvariance` and `OneOrderInThePipeline` without a
second proof, and likewise `PipelineStopHolds`, `PipelineOutboxFaithful` and `PipelineOrdersOnce`: the
three services together implement `OrderOnce`. `SignalFirst` needs `Committed`: whatever is on the list, in a feeder's hand or in the
executor's was committed before.

`LiveFeedProofs` proves types, `HubClosesOnce`, `OneSocketFeeds`, `ExecutionsShownOnce`, and `NoStepBack` from
`FeedInOrder`: events on the way to a live socket (queue and frames) are in the order of publication and later than
what the store has heard, as long as no timer left a socket behind. `SocketInv` ties sockets to mounts: with
`orphaned` false, a live socket is the current one, and while no mount is on the page there is none. It holds for any connections, mounts, list of events and bounds.

`ConsoleProofs` proves for `BotConsole` types, `PagesKeepUp` (`ReadYourWrites`) and `RefusalsAreStale`.
`ReadYourWrites` is not inductive: the invariant (`UpToDate`) says of each observed query that its
data and the answer under way are as new as what the user was told, or that it has been asked for again or
joined. For `RiskConsole`: types, `FormOfChosenBot`, and `StopLiftedKnowingly`, whose invariant (`SaveInv`)
says that a save under way whose row has a stop had found it there, unless it was raced.

`PositionKeepingProofs` proves, for any orders, markets, prices and distances: `FillsAreBooked`
(`FillsBooked`) and `StopsOnlyTighten` (`StopNeverMovesBack`) from `PositionInvariance`. `FillsBooked` leaves
out the order in the reconciler's hands, so it is not inductive; `InHand` says of that order what makes its
booking the first one, or one that follows a status that could not be written. `Counted` ties the position to
the bookings on record, one by one. `StopNeverMovesBack` needs `AsRead`: a copy the monitor holds may have an
old quantity, but its side, mark and stop are still those of the row, since only the monitor writes them.

`WebClientProofs` proves for the session types, `SessionAgrees` and `SessionLate`; for the assistant types,
`AnswersAreAccountedFor` (`AnswersAccountedFor`) and `NothingLostUndisturbed` (`LostOnlyByOutage`): where a text is,
how often it was handled and published again and how many messages there are for it must fit together, text by text; and for the list pages, whatever lists the API
sends:

- `SettledRowsAreOwn` (`OwnRowsOnceSettled`), which needs `OwnFetch`: a fetch that was not joined was asked for by
  the user who is signed in, unless he replaced another while it was out.
- `EmptyPagesAreHonest` (`EmptyIsHonest`), page by page from the order of its tests; the case of the paused first fetch
  is part of the statement.
- `FiguresOfPagesAgree` (`FiguresAgree`), for lists of any length and any amounts: `AmountAdds` (sums over
  disjoint places add up), `BalanceFalls` (each confirmed row changes volume and balance alike or by twice its
  amount) and `KindsAddUp` (counts by kind add up to the number of places).
- `SideBySideAsAlone`: each module behaves in `WebClient` as its own specification says, so the theorems about
  each module hold of the composition, `WebTypes` (`WebTypeOK`) among them.

These lemmas go through a list place by place without an induction theorem: the set of numbers up to which a
claim holds has 0 and the successor of each of its members, so it is all of Nat (`AllNumbers`, from the
least number outside it).

Only model-checked: the two liveness properties, `EveryIntentDecided` and `EveryRowSettles` (liveness under
fairness and ENABLED are outside the prover's reach). Every invariant and every action property of a passing run
is stated by a theorem. What the back-off of `OutboxRelay` amounts to is not proved, only its bounds: the prover has no
theory of exponents. The violations are TLC's counterexamples.

## 5. Plan and what is left

The plan of the first version is done except for its pure operators: `OrderOnce`, `IntentExecutor`,
`OrderPipeline`, `OutboxRelay`, `BotLifecycle`, then `RiskConsole` (settings against the stop),
`PositionKeeping`, `LiveFeed` (hub and subscriber), the dashboard, and the proofs of `OutboxRelay` and
`OrderPipeline`. What could follow: the risk engine's checkers and order sizing as operators over
decimals at their boundaries; users' plans that change; the steps of the web client's commands refined into
those of `BotLifecycle`.

### Not modelled

- The arithmetic of the risk engine and of order sizing: decimals compared with limits, without state.
  The engine's outcomes are in `IntentExecutor`, its arithmetic is not.
- Signing and HTTP of the exchange adapters, the price providers and market data: input and output.
- The executor's lifecycle event consumer: it logs the events it deduplicates and changes nothing else.
- Identity, wallet, exchange account and signal handlers of the API: single statements without state
  between requests. `WalletConnect.tsx:43` calls `addExchangeAccount`, so a wallet added there never
  appears in the list; `RowAdded` shows it as a list any answer may follow.
- `BotLogs`, mounted next to the list, keeps raw rows under the key of `useBots`, which normalizes them: listed as
  a hazard without a property, as ids and statuses have the same name in both shapes. The other hazards without
  one: the consumer of `main.rs:72`, which ends with the first Redis error; an emergency stop that the API commits
  between the executor's read of the settings and its reservation (`AutoStopHolds` is of the executor's own stop); and
  intents of bots without an exchange account. The auto-stop writes no transition row, so `TrailIsTrue`, which is of
  the rows written, says nothing of that gap in the trail.
- One user per tab in `LiveFeed`: the trading store is not cleared at a logout either, so another user who signs in
  there is shown what the store holds of the one before.
- The shell of the dashboard, its static pages, `walletStore` (nobody reads it), the packages of type
  declarations, and all layout, wording and formatting.
