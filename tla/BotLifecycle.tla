---------------------------- MODULE BotLifecycle ----------------------------
(***************************************************************************)
(* The bot commands of apps/api-go (trading/bots/service.go and            *)
(* repository.go) for the bots of one user, with the plan's limits         *)
(* (identity/subscription/service.go) and the executor's auto-stop.        *)
(*                                                                         *)
(* HTTP requests run concurrently.  Each reads what its guard needs - the  *)
(* status of the bot, the number of bots - by statements of their own, and *)
(* writes in a transaction that locks the bot's row but does not look at   *)
(* the guard again.  The executor's auto-stop is one UPDATE that looks at  *)
(* nothing.  The mode of a bot is left out: the code only writes "paper".  *)
(***************************************************************************)
EXTENDS BotRules, Naturals, FiniteSets

CONSTANTS
  Bot,           \* ids of bots
  Request,       \* requests that may run at the same time
  HasAccount,    \* bots created with an exchange account
  Losing,        \* bots with a loss on record: those the executor may auto-stop
  MaxPaperBots, MaxLiveBots,   \* the user's plan
  NoBot

ASSUME LifecycleAssumption ==
  /\ IsFiniteSet(Bot) /\ IsFiniteSet(Request) /\ Request # {}
  /\ HasAccount \subseteq Bot /\ Losing \subseteq Bot
  /\ MaxPaperBots \in Nat /\ MaxLiveBots \in Nat
  /\ NoBot \notin Bot

VARIABLES
  status,     \* bots.status, "none" without a row
  trail,      \* the latest row of bot_state_transitions: from_state and to_state
  pc,         \* what a request does next
  cmd,        \* its command
  bot,        \* the bot it names
  old,        \* the status its transaction found under the lock
  overtaken   \* history: requests past their check when their bot was stopped

requestVars == <<pc, cmd, bot, old>>
vars        == <<status, trail, pc, cmd, bot, old, overtaken>>

\* Rows and requests; no code sets the status "error".
TypeOK ==
  /\ status \in [Bot -> BotStatus \cup {"none"}]
  /\ trail \in [Bot -> [from : BotStatus \cup {"none"}, to : BotStatus \cup {"none"}]]
  /\ pc \in [Request -> {"idle", "check", "count", "insert", "lock", "commit"}]
  /\ cmd \in [Request -> Command]
  /\ bot \in [Request -> Bot \cup {NoBot}]
  /\ old \in [Request -> BotStatus \cup {"none"}]
  /\ overtaken \subseteq Request

Init ==
  /\ status = [b \in Bot |-> "none"]
  /\ trail = [b \in Bot |-> [from |-> "none", to |-> "none"]]
  /\ pc = [r \in Request |-> "idle"]
  /\ cmd = [r \in Request |-> "create"]
  /\ bot = [r \in Request |-> NoBot]
  /\ old = [r \in Request |-> "none"]
  /\ overtaken = {}

-----------------------------------------------------------------------------
Goto(r, step) == pc' = [pc EXCEPT ![r] = step]

\* The request is answered, with success or with an error.
Answer(r) ==
  /\ pc'  = [pc EXCEPT ![r] = "idle"]
  /\ cmd' = [cmd EXCEPT ![r] = "create"]
  /\ bot' = [bot EXCEPT ![r] = NoBot]
  /\ old' = [old EXCEPT ![r] = "none"]

StartCreate(r) ==
  /\ pc[r] = "idle"
  /\ Goto(r, "count")
  /\ UNCHANGED <<status, trail, cmd, bot, old, overtaken>>

Start(r, c, b) ==
  /\ pc[r] = "idle" /\ c # "create" /\ status[b] # "none"
  /\ cmd' = [cmd EXCEPT ![r] = c]
  /\ bot' = [bot EXCEPT ![r] = b]
  /\ Goto(r, "check")
  /\ UNCHANGED <<status, trail, old, overtaken>>

\* GetBotByID and the command's guard on what it returned.
Check(r) ==
  /\ pc[r] = "check"
  /\ IF Permitted(cmd[r], status[bot[r]]) /\ (cmd[r] = "request_live" => bot[r] \in HasAccount)
       THEN Goto(r, IF cmd[r] = "request_live" THEN "count" ELSE "lock")
            /\ UNCHANGED <<cmd, bot, old>>
       ELSE Answer(r)
  /\ overtaken' = overtaken \ {r}
  /\ UNCHANGED <<status, trail>>

PaperBots == {b \in Bot : status[b] # "none"}
LiveBots  == {b \in Bot : status[b] \in {"live_pending_approval", "live_active"}}

\* Mutant: off by one at the limit.
EntitledAtLimit(count, max) == count <= max

Entitled(count, max) == count < max

\* ListBotsByUserID, the count, and CheckEntitlement; the plan does not change.
Count(r) ==
  /\ pc[r] = "count"
  /\ IF cmd[r] = "create"
       THEN IF Entitled(Cardinality(PaperBots), MaxPaperBots)
              THEN Goto(r, "insert") /\ UNCHANGED <<cmd, bot, old>>
              ELSE Answer(r)
       ELSE IF Entitled(Cardinality(LiveBots), MaxLiveBots)
              THEN Goto(r, "lock") /\ UNCHANGED <<cmd, bot, old>>
              ELSE Answer(r)
  /\ UNCHANGED <<status, trail, overtaken>>

\* repository.CreateBot: bot, risk settings and event in one transaction.
Insert(r) ==
  /\ pc[r] = "insert"
  /\ \E b \in Bot : status[b] = "none" /\ status' = [status EXCEPT ![b] = "draft"]
  /\ Answer(r)
  /\ UNCHANGED <<trail, overtaken>>

\* Mutant: SELECT status without FOR UPDATE.
NeverLocked(b) == FALSE

Locked(b) == \E r \in Request : pc[r] = "commit" /\ bot[r] = b

\* UpdateBotStatus begins: SELECT status FROM bots ... FOR UPDATE.
Lock(r) ==
  /\ pc[r] = "lock" /\ ~Locked(bot[r])
  /\ old' = [old EXCEPT ![r] = status[bot[r]]]
  /\ Goto(r, "commit")
  /\ UNCHANGED <<status, trail, cmd, bot, overtaken>>

Committing(b, s) ==
  /\ status' = [status EXCEPT ![b] = s]
  /\ overtaken' = IF s = "stopped"
                    THEN overtaken \cup {q \in Request : bot[q] = b /\ pc[q] # "check"}
                    ELSE overtaken

\* The status, its transition row and its event become visible together.
Commit(r) ==
  /\ pc[r] = "commit"
  /\ Committing(bot[r], Target(cmd[r]))
  /\ trail' = [trail EXCEPT ![bot[r]] = [from |-> old[r], to |-> Target(cmd[r])]]
  /\ Answer(r)

\* A database error, a cancelled request, or a restart: an open transaction rolls back.
Fail(r) ==
  /\ pc[r] # "idle"
  /\ Answer(r)
  /\ UNCHANGED <<status, trail, overtaken>>

\* The executor's update_bot_status(Paused), whatever the status; an intent may
\* wait in the list long after its bot was scanned, or be pushed by hand.
AutoStop(b) ==
  /\ b \in Losing /\ status[b] # "none" /\ ~Locked(b)
  /\ status' = [status EXCEPT ![b] = "paused"]
  /\ UNCHANGED <<trail, requestVars, overtaken>>

\* An operator approves live trading, in the database.
ApproveLive(b) ==
  /\ status[b] = "live_pending_approval" /\ ~Locked(b)
  /\ status' = [status EXCEPT ![b] = "live_active"]
  /\ UNCHANGED <<trail, requestVars, overtaken>>

RequestStep(r) ==
  \/ StartCreate(r)
  \/ \E c \in Command, b \in Bot : Start(r, c, b)
  \/ Check(r) \/ Count(r) \/ Insert(r) \/ Lock(r) \/ Commit(r) \/ Fail(r)

Next ==
  \/ \E r \in Request : RequestStep(r)
  \/ \E b \in Bot : AutoStop(b) \/ ApproveLive(b)

Spec == Init /\ [][Next]_vars

-----------------------------------------------------------------------------
\* However requests interleave, they overbook the plan by at most the other requests
\* that can be under way: each counted when there was still room.
OverbookingBounded ==
  /\ Cardinality(PaperBots) <= MaxPaperBots + Cardinality(Request) - 1
  /\ Cardinality(LiveBots) <= MaxLiveBots + Cardinality(Request) - 1

\* A transition row tells the status that really was replaced, also when other requests
\* or the executor write the same bot: from_state is read under the lock.
TrailIsTrue ==
  [][\A b \in Bot : trail'[b] # trail[b] =>
       trail'[b] = [from |-> status[b], to |-> status'[b]]]_vars

\* A stopped bot comes back to life only by a request that had passed its check when the
\* bot was stopped, or by the executor's auto-stop, which can only pause it.
RevivedOnlyByRace ==
  [][\A b \in Bot : status[b] = "stopped" /\ status'[b] # "stopped" =>
       \/ \E r \in overtaken : bot[r] = b /\ pc[r] = "commit" /\ pc'[r] = "idle"
       \/ status'[b] = "paused" /\ trail' = trail]_vars

\* A stopped bot is stopped for good.
StoppedIsFinal ==
  [][\A b \in Bot : status[b] = "stopped" => status'[b] = "stopped"]_vars
=============================================================================
