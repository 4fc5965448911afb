------------------------------ MODULE BotRules ------------------------------
(***************************************************************************)
(* The rules of a bot's life in apps/api-go (trading/bots/service.go): the *)
(* statuses, the commands, where each may start and where it leads.        *)
(***************************************************************************)
BotStatus == {"draft", "paper_active", "live_pending_approval", "live_active",
              "paused", "stopped"}
Command   == {"create", "activate_paper", "request_live", "pause", "stop"}

\* Mutant: stopped bots may be activated again.
PermittedAfterStop(c, s) ==
  \/ c = "activate_paper" /\ s \in {"draft", "paused", "stopped"}
  \/ c = "request_live" /\ s \in {"paper_active", "paused"}
  \/ c = "pause" /\ s \in {"paper_active", "live_active"}
  \/ c = "stop" /\ s # "stopped"

\* The statuses a command may start from.
Permitted(c, s) ==
  \/ c = "activate_paper" /\ s \in {"draft", "paused"}
  \/ c = "request_live" /\ s \in {"paper_active", "paused"}
  \/ c = "pause" /\ s \in {"paper_active", "live_active"}
  \/ c = "stop" /\ s # "stopped"

\* Mutant: a status the executor and the scanner do not know.
TargetUnknown(c) ==
  IF c = "activate_paper" THEN "paper_active"
  ELSE IF c = "request_live" THEN "live_requested"
  ELSE IF c = "pause" THEN "paused" ELSE "stopped"

\* The status a command leads to.
Target(c) ==
  IF c = "activate_paper" THEN "paper_active"
  ELSE IF c = "request_live" THEN "live_pending_approval"
  ELSE IF c = "pause" THEN "paused" ELSE "stopped"
=============================================================================
