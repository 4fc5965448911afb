---------------------------- MODULE RiskConsole ----------------------------
(***************************************************************************)
(* The risk settings of bots: the form RiskSettings.tsx over the queries   *)
(* of useBots, its two mutations, the API that reads a row, merges and     *)
(* writes it back whole (apps/api-go trading/risk), and the executor that  *)
(* sets the emergency stop meanwhile.                                      *)
(*                                                                         *)
(* The limits of a bot are one value; a field left empty is not sent.      *)
(***************************************************************************)
EXTENDS QueryCache, Naturals

CONSTANTS
  BotId, NoBotId,
  Limit,         \* values of the limits; Empty is an empty field
  FirstLimit, Empty,
  MaxChanges,    \* bound on the writes to risk_settings
  MaxChoices     \* bound on the selections and the returns of the network

ASSUME RiskAssumption ==
  /\ NoBotId \notin BotId /\ FirstLimit \in Limit /\ Empty \notin Limit
  /\ MaxChanges \in Nat /\ MaxChoices \in Nat

Policy      == [limit : Limit, stop : BOOLEAN]
FirstPolicy == [limit |-> FirstLimit, stop |-> FALSE]

VARIABLES
  policy,      \* risk_settings of a bot
  changes,
  details,     \* the entries of botKeys.detail, as far as they hold risk settings
  risks,       \* the entries of botKeys.risk
  chosen,      \* selectedBotId
  choices,     \* how many of those there were
  form,        \* what the form holds
  formOf,      \* history: the bot it was filled or typed for
  save,        \* updateRisk and the request it made
  toggle,      \* toggleEmergencyStop and its request
  raced        \* history: the stop was set after the request of save had read the row

riskVars == <<policy, changes, details, risks, chosen, choices, form, formOf, save, toggle, raced>>

NoSave   == [at |-> "none", bot |-> NoBotId, limit |-> Empty, found |-> FirstPolicy]
NoToggle == [at |-> "none", bot |-> NoBotId, stop |-> FALSE]

RiskTypeOK ==
  /\ policy \in [BotId -> Policy] /\ changes \in 0..MaxChanges
  /\ details \in [BotId -> EntryOf(Policy)] /\ risks \in [BotId -> EntryOf(Policy)]
  /\ chosen \in BotId \cup {NoBotId} /\ choices \in 0..MaxChoices
  /\ form \in Limit \cup {Empty} /\ formOf \in BotId \cup {NoBotId}
  /\ save \in [at : {"none", "sent", "read", "done"}, bot : BotId \cup {NoBotId},
               limit : Limit \cup {Empty}, found : Policy]
  /\ toggle \in [at : {"none", "sent", "checked", "done"}, bot : BotId \cup {NoBotId},
                 stop : BOOLEAN]
  /\ raced \in BOOLEAN

RiskInit ==
  /\ policy = [b \in BotId |-> FirstPolicy] /\ changes = 0
  /\ details = [b \in BotId |-> Fresh] /\ risks = [b \in BotId |-> Fresh]
  /\ chosen = NoBotId /\ choices = 0 /\ form = Empty /\ formOf = NoBotId
  /\ save = NoSave /\ toggle = NoToggle /\ raced = FALSE

-----------------------------------------------------------------------------
(* The page. *)

\* riskSettings of useBots: the risk query's data, else what came with the detail.
Settings(d, r, b) ==
  IF b = NoBotId THEN NoData ELSE IF r[b].data # NoData THEN r[b].data ELSE d[b].data

Now == Settings(details, risks, chosen)

\* Mutant: the effect leaves the form alone while there are no settings.
FilledLate(s) == IF s = NoData THEN form ELSE s.limit

\* The effect on riskSettings: the form is filled anew, whatever was typed.
Filled(s) == IF s = NoData THEN Empty ELSE s.limit

\* The queries are now d and r and bot b is selected: the effect runs if riskSettings is
\* another object, and every answer makes new ones.
Show(d, r, b, another) ==
  /\ details' = d /\ risks' = r /\ chosen' = b
  /\ IF another
       THEN /\ form' = Filled(Settings(d, r, b))
            /\ formOf' = IF Settings(d, r, b) = NoData THEN formOf ELSE b
       ELSE UNCHANGED <<form, formOf>>

\* An entry without what this page does not show: errors, and whether fetches were joined.
Plain(e) == [e EXCEPT !.failed = FALSE, !.joined = FALSE]

\* Another bot is selected in the list.
Choose(b) ==
  /\ chosen # b /\ choices < MaxChoices /\ choices' = choices + 1
  /\ Show([details EXCEPT ![b] = Plain(Observe(@))], [risks EXCEPT ![b] = Plain(Observe(@))], b,
          Now # NoData \/ Settings(details, risks, b) # NoData)
  /\ UNCHANGED <<policy, changes, save, toggle, raced>>

\* A query of the page is read by the API, is answered, or fails.
ReadsDetail(b) ==
  /\ details[b].fetch = "asked"
  /\ details' = [details EXCEPT ![b] = Read(@, policy[b])]
  /\ UNCHANGED <<policy, changes, risks, chosen, choices, form, formOf, save, toggle, raced>>

ReadsRisk(b) ==
  /\ risks[b].fetch = "asked"
  /\ risks' = [risks EXCEPT ![b] = Read(@, policy[b])]
  /\ UNCHANGED <<policy, changes, details, chosen, choices, form, formOf, save, toggle, raced>>

DetailArrives(b) ==
  /\ details[b].fetch = "read"
  /\ Show([details EXCEPT ![b] = Arrive(@)], risks, chosen,
          b = chosen /\ risks[b].data = NoData)
  /\ UNCHANGED <<policy, changes, choices, save, toggle, raced>>

RiskArrives(b) ==
  /\ risks[b].fetch = "read"
  /\ Show(details, [risks EXCEPT ![b] = Arrive(@)], chosen, b = chosen)
  /\ UNCHANGED <<policy, changes, choices, save, toggle, raced>>

QueryFails(b) ==
  /\ \/ details[b].fetch # "idle" /\ details' = [details EXCEPT ![b] = Plain(Fail(@))]
        /\ UNCHANGED risks
     \/ risks[b].fetch # "idle" /\ risks' = [risks EXCEPT ![b] = Plain(Fail(@))]
        /\ UNCHANGED details
  /\ UNCHANGED <<policy, changes, chosen, choices, form, formOf, save, toggle, raced>>

\* The browser is online again: the queries of the bot selected are refetched.
OnlineAgain ==
  /\ chosen # NoBotId /\ choices < MaxChoices /\ choices' = choices + 1
  /\ details' = [details EXCEPT ![chosen] = Plain(Observe(@))]
  /\ risks' = [risks EXCEPT ![chosen] = Plain(Observe(@))]
  /\ UNCHANGED <<policy, changes, chosen, form, formOf, save, toggle, raced>>

\* The form is there once the detail of the bot is.
FormShown == chosen # NoBotId /\ details[chosen].data # NoData

Type(v) ==
  /\ FormShown /\ form # v
  /\ form' = v /\ formOf' = chosen
  /\ UNCHANGED <<policy, changes, details, risks, chosen, choices, save, toggle, raced>>

Submit ==
  /\ FormShown /\ save.at = "none"
  /\ save' = [at |-> "sent", bot |-> chosen, limit |-> form, found |-> FirstPolicy]
  /\ UNCHANGED <<policy, changes, details, risks, chosen, choices, form, formOf, toggle, raced>>

PressToggle ==
  /\ FormShown /\ toggle.at = "none"
  /\ toggle' = [at |-> "sent", bot |-> chosen, stop |-> Now = NoData \/ ~Now.stop]
  /\ UNCHANGED <<policy, changes, details, risks, chosen, choices, form, formOf, save, raced>>

-----------------------------------------------------------------------------
(* The API and the executor. *)

\* A statement writes a row; a save that has read it is raced if that sets the stop.
WriteRow(b, p) ==
  /\ changes < MaxChanges /\ changes' = changes + 1
  /\ policy' = [policy EXCEPT ![b] = p]
  /\ raced' = (raced \/ (save.at = "read" /\ save.bot = b /\ p.stop /\ ~policy[b].stop))

\* UpdateRiskSettings reads the row ...
SaveReads ==
  /\ save.at = "sent"
  /\ save' = [save EXCEPT !.at = "read", !.found = policy[save.bot]]
  /\ raced' = FALSE
  /\ UNCHANGED <<policy, changes, details, risks, chosen, choices, form, formOf, toggle>>

\* Mutant: the stop comes from the request, where it is missing.
MergeFromRequest(found, limit) ==
  [limit |-> IF limit = Empty THEN found.limit ELSE limit, stop |-> FALSE]

\* MergeRiskSettings: fields not sent as they were found.  It would merge a stop too, which
\* the form never sends.
MergeRiskSettings(found, limit) ==
  [limit |-> IF limit = Empty THEN found.limit ELSE limit, stop |-> found.stop]

\* ... and writes the merged row back, all columns of it.
SaveWrites ==
  /\ save.at = "read"
  /\ WriteRow(save.bot, MergeRiskSettings(save.found, save.limit))
  /\ save' = [NoSave EXCEPT !.at = "done", !.bot = save.bot]
  /\ UNCHANGED <<details, risks, chosen, choices, form, formOf, toggle>>

\* ToggleEmergencyStop reads the row and refuses what changes nothing.
ToggleReads ==
  /\ toggle.at = "sent"
  /\ toggle' = IF policy[toggle.bot].stop = toggle.stop THEN NoToggle
               ELSE [toggle EXCEPT !.at = "checked"]
  /\ UNCHANGED <<policy, changes, details, risks, chosen, choices, form, formOf, save, raced>>

ToggleWrites ==
  /\ toggle.at = "checked"
  /\ WriteRow(toggle.bot, [policy[toggle.bot] EXCEPT !.stop = toggle.stop])
  /\ toggle' = [NoToggle EXCEPT !.at = "done", !.bot = toggle.bot]
  /\ UNCHANGED <<details, risks, chosen, choices, form, formOf, save>>

\* The executor's auto-stop sets the stop; a toggle in another tab, or the user's global one
\* (bot by bot), sets or clears it.
SetElsewhere(b, stop) ==
  /\ policy[b].stop # stop
  /\ WriteRow(b, [policy[b] EXCEPT !.stop = stop])
  /\ UNCHANGED <<details, risks, chosen, choices, form, formOf, save, toggle>>

-----------------------------------------------------------------------------
(* The answers to the mutations. *)

Refetched(q, b) == IF b = chosen THEN [q EXCEPT ![b] = Plain(Invalidate(@))] ELSE q

SaveSucceeds ==
  /\ save.at = "done" /\ save' = NoSave /\ raced' = FALSE
  /\ risks' = Refetched(risks, save.bot) /\ details' = Refetched(details, save.bot)
  /\ UNCHANGED <<policy, changes, chosen, choices, form, formOf, toggle>>

ToggleSucceeds ==
  /\ toggle.at = "done" /\ toggle' = NoToggle
  /\ risks' = Refetched(risks, toggle.bot)
  /\ UNCHANGED <<policy, changes, details, chosen, choices, form, formOf, save, raced>>

\* Refused, failed or lost: the page refetches nothing, the row stays as it is.
CallFails ==
  /\ \/ save.at # "none" /\ save' = NoSave /\ raced' = FALSE /\ UNCHANGED toggle
     \/ toggle.at # "none" /\ toggle' = NoToggle /\ UNCHANGED <<save, raced>>
  /\ UNCHANGED <<policy, changes, details, risks, chosen, choices, form, formOf>>

RiskNext ==
  \/ \E b \in BotId :
       \/ Choose(b) \/ ReadsDetail(b) \/ ReadsRisk(b) \/ DetailArrives(b) \/ RiskArrives(b)
       \/ QueryFails(b)
       \/ \E stop \in BOOLEAN : SetElsewhere(b, stop)
  \/ \E v \in Limit \cup {Empty} : Type(v)
  \/ OnlineAgain \/ Submit \/ PressToggle
  \/ SaveReads \/ SaveWrites \/ SaveSucceeds
  \/ ToggleReads \/ ToggleWrites \/ ToggleSucceeds \/ CallFails

RiskSpec == RiskInit /\ [][RiskNext]_riskVars

-----------------------------------------------------------------------------
\* What the form holds was filled in or typed for the bot it will be saved for, however
\* the selection changes while queries are out.
FormIsOfChosenBot == form # Empty => formOf = chosen

\* An emergency stop is lifted only by a request that asks for it, of this tab or from
\* elsewhere, or by a save that had read the row before the stop was set and writes back
\* what it had read.
LiftedOnlyByRequestOrRace ==
  [][\A b \in BotId : policy[b].stop /\ ~policy'[b].stop =>
       \/ toggle.at = "checked" /\ toggle.bot = b /\ ~toggle.stop /\ toggle'.at = "done"
       \/ SetElsewhere(b, FALSE)
       \/ save.at = "read" /\ save.bot = b /\ save'.at = "done" /\ raced]_riskVars
=============================================================================
