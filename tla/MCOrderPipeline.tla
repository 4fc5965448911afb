-------------------------- MODULE MCOrderPipeline ---------------------------
(***************************************************************************)
(* Intents of one bot, each delivered twice.                               *)
(***************************************************************************)
EXTENDS OrderPipeline

CONSTANT b
MCBotOf == [i \in Intent |-> b]
=============================================================================
