---------------------------- MODULE MCAssistant -----------------------------
(***************************************************************************)
(* A plain text and a command of the bot's help text.                      *)
(***************************************************************************)
EXTENDS AssistantRelay, TLC

CONSTANTS t1, t2

MCPrefix == (t1 :> "plain") @@ (t2 :> "/db ")
=============================================================================
