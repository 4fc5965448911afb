----------------------------- MODULE BotConsole -----------------------------
(***************************************************************************)
(* The bots of the dashboard: the list (BotList), the bot selected         *)
(* (BotDetail with BotActionButtons) and the creation form (BotCreate),    *)
(* over the hook useBots: one cached query per key, five mutations, each   *)
(* with a busy flag of its own, and the invalidations that follow them.    *)
(*                                                                         *)
(* The API is seen from outside: it reads rows and handles a command in    *)
(* one step (BotLifecycle has the steps in between).  The executor and     *)
(* operators write rows too.  Writes are numbered, and a row carries the   *)
(* number of its latest one, so that older data is told from newer.        *)
(***************************************************************************)
EXTENDS BotRules, QueryCache, Naturals, FiniteSets

CONSTANTS
  Bot, NoBot,
  First,        \* the bots there are at the start
  FirstStatus,  \* the statuses they may have
  MaxWrites,    \* bound on the writes to rows
  MaxCalls      \* bound on the mutations under way at a time

ASSUME ConsoleAssumption ==
  /\ NoBot \notin Bot /\ First \subseteq Bot /\ "all" \notin Bot
  /\ FirstStatus \subseteq BotStatus
  /\ MaxWrites \in Nat /\ MaxCalls \in Nat

VARIABLES
  row,       \* bots: status and version, status "none" without a row
  writes,    \* how many there were
  cache,     \* the entries of botKeys.all and botKeys.detail(b)
  selected,  \* selectedBotId of the bot store
  call,      \* the latest call of a mutation
  own        \* history: the latest write of a bot the user was told has succeeded

consoleVars == <<row, writes, cache, selected, call, own>>

Version   == 0..MaxWrites
Row       == [status : BotStatus \cup {"none"}, version : Version]
Key       == {"all"} \cup Bot
Covers(k) == IF k = "all" THEN Bot ELSE {k}
NoCall    == [at |-> "none", bot |-> NoBot, seen |-> "none", version |-> 0]

ConsoleTypeOK ==
  /\ row \in [Bot -> Row] /\ writes \in Version
  /\ \A k \in Key : cache[k] \in EntryOf([Covers(k) -> Row])
  /\ selected \in Bot \cup {NoBot}
  /\ call \in [Command -> [at : {"none", "sent", "done", "refused"}, bot : Bot \cup {NoBot},
                           seen : BotStatus \cup {"none"}, version : Version]]
  /\ own \in [Bot -> Version]

\* The dashboard is mounted: the list is asked for.
ConsoleInit ==
  /\ \E s \in FirstStatus :
       row = [b \in Bot |-> [status |-> IF b \in First THEN s ELSE "none", version |-> 0]]
  /\ writes = 0
  /\ cache = [k \in Key |-> IF k = "all" THEN Ask(Fresh) ELSE Fresh]
  /\ selected = NoBot
  /\ call = [c \in Command |-> NoCall]
  /\ own = [b \in Bot |-> 0]

-----------------------------------------------------------------------------
(* The queries. *)

Observed(k) == k = "all" \/ k = selected

ReadRows(k) ==
  /\ cache[k].fetch = "asked"
  /\ cache' = [cache EXCEPT ![k] = Read(@, [b \in Covers(k) |-> row[b]])]
  /\ UNCHANGED <<row, writes, selected, call, own>>

\* (A list without bots is null, over which the hook cannot map: FetchFails.)
AnswerArrives(k) ==
  /\ cache[k].fetch = "read"
  /\ \E b \in Covers(k) : cache[k].answer[b].status # "none"
  /\ cache' = [cache EXCEPT ![k] = Arrive(@)]
  /\ UNCHANGED <<row, writes, selected, call, own>>

FetchFails(k) ==
  /\ cache[k].fetch # "idle"
  /\ cache' = [cache EXCEPT ![k] = Fail(@)]
  /\ UNCHANGED <<row, writes, selected, call, own>>

\* The bots the list shows.
Listed == IF cache["all"].data = NoData THEN {}
          ELSE {b \in Bot : cache["all"].data[b].status # "none"}

\* A bot is chosen in the list, or the first of it by BotDetail's effect.
Select(b) ==
  /\ b \in Listed /\ selected # b
  /\ selected' = b
  /\ cache' = [cache EXCEPT ![b] = Observe(@)]
  /\ UNCHANGED <<row, writes, call, own>>

-----------------------------------------------------------------------------
(* The mutations. *)

\* The status BotDetail shows.
ShownStatus == IF selected = NoBot \/ cache[selected].data = NoData THEN "none"
               ELSE cache[selected].data[selected].status

\* Mutant: "Request live" is offered like "Activate paper".
OfferedForDraft(c, s) ==
  \/ c = "activate_paper" /\ s \in {"draft", "paused"}
  \/ c = "request_live" /\ s \in {"draft", "paper_active", "paused"}
  \/ c = "pause" /\ s \in {"paper_active", "live_active"}
  \/ c = "stop" /\ s # "stopped"

\* The buttons that are not disabled for a bot shown with status s.
Offered(c, s) ==
  \/ c = "activate_paper" /\ s \in {"draft", "paused"}
  \/ c = "request_live" /\ s \in {"paper_active", "paused"}
  \/ c = "pause" /\ s \in {"paper_active", "live_active"}
  \/ c = "stop" /\ s # "stopped"

Busy(c) == call[c].at # "none"
Room    == Cardinality({c \in Command : Busy(c)}) < MaxCalls

\* A button is pressed, and its mutation called with the id of the bot shown.
Click(c) ==
  /\ c # "create" /\ ~Busy(c) /\ Room
  /\ ShownStatus # "none" /\ Offered(c, ShownStatus)
  /\ call' = [call EXCEPT ![c] = [at |-> "sent", bot |-> selected, seen |-> ShownStatus,
                                  version |-> 0]]
  /\ UNCHANGED <<row, writes, cache, selected, own>>

\* BotForm is submitted.
SubmitForm ==
  /\ ~Busy("create") /\ Room
  /\ call' = [call EXCEPT !["create"].at = "sent"]
  /\ UNCHANGED <<row, writes, cache, selected, own>>

Write(b, s) ==
  /\ writes < MaxWrites /\ writes' = writes + 1
  /\ row' = [row EXCEPT ![b] = [status |-> s, version |-> writes']]

\* The API handles a command.  A refusal by the plan is an Error, as it changes nothing.
HandleCommand(c) ==
  /\ c # "create" /\ call[c].at = "sent"
  /\ LET b == call[c].bot IN
       \/ /\ Permitted(c, row[b].status)
          /\ Write(b, Target(c))
          /\ call' = [call EXCEPT ![c].at = "done", ![c].version = writes']
       \/ /\ ~Permitted(c, row[b].status)
          /\ call' = [call EXCEPT ![c].at = "refused"]
          /\ UNCHANGED <<row, writes>>
  /\ UNCHANGED <<cache, selected, own>>

\* The API creates a bot.
HandleCreate(b) ==
  /\ call["create"].at = "sent" /\ row[b].status = "none"
  /\ Write(b, "draft")
  /\ call' = [call EXCEPT !["create"] = [@ EXCEPT !.at = "done", !.bot = b, !.version = writes']]
  /\ UNCHANGED <<cache, selected, own>>

\* Mutant: onSuccess invalidates the detail of the bot only.
InvalidatedDetail(c, b) == {b}

\* The keys the onSuccess of a mutation invalidates: botKeys.all is a prefix of all keys.
Invalidated(c, b) == Key

\* The answer arrives: onSuccess invalidates, and keys nobody observes wait for that.
Succeed(c) ==
  /\ call[c].at = "done"
  /\ own' = [own EXCEPT ![call[c].bot] = IF @ < call[c].version THEN call[c].version ELSE @]
  /\ cache' = [k \in Key |-> IF Observed(k) /\ k \in Invalidated(c, call[c].bot)
                               THEN Invalidate(cache[k]) ELSE cache[k]]
  /\ call' = [call EXCEPT ![c] = NoCall]
  /\ UNCHANGED <<row, writes, selected>>

\* It is an error, or is lost before or after the API handled the command: no query is
\* refetched.
Error(c) ==
  /\ Busy(c)
  /\ call' = [call EXCEPT ![c] = NoCall]
  /\ UNCHANGED <<row, writes, cache, selected, own>>

\* The executor pauses a bot; an operator approves live trading.
WrittenElsewhere(b) ==
  /\ \/ row[b].status \notin {"none", "paused"} /\ Write(b, "paused")
     \/ row[b].status = "live_pending_approval" /\ Write(b, "live_active")
  /\ UNCHANGED <<cache, selected, call, own>>

ConsoleNext ==
  \/ \E k \in Key : ReadRows(k) \/ AnswerArrives(k) \/ FetchFails(k)
  \/ \E b \in Bot : Select(b) \/ HandleCreate(b) \/ WrittenElsewhere(b)
  \/ \E c \in Command : Click(c) \/ HandleCommand(c) \/ Succeed(c) \/ Error(c)
  \/ SubmitForm

ConsoleSpec == ConsoleInit /\ [][ConsoleNext]_consoleVars

-----------------------------------------------------------------------------
\* What the list and the detail show is never older than a change the user was told has
\* succeeded, unless a refetch joined a fetch that had been asked before the change.  (An
\* entry whose latest refetch failed is not settled: it shows older rows and an error.)
ReadYourWrites ==
  \A k \in Key : Observed(k) /\ Settled(cache[k]) /\ ~cache[k].joined =>
    \A b \in Covers(k) : cache[k].data[b].version >= own[b]

\* A button the page offered is refused by the API's rules only if the bot has changed
\* since the page read it: the buttons and the API agree on every status.
RefusedOnlyWhenStale ==
  [][\A c \in Command :
       call[c].at = "sent" /\ call'[c].at = "refused" =>
         row[call[c].bot].status # call[c].seen]_consoleVars
=============================================================================
