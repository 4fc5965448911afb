-------------------------- MODULE MCIntentExecutor --------------------------
(***************************************************************************)
(* An intent of a live bot that may arrive both raw and in an envelope,    *)
(* and an intent of a paper bot.  A live order is filled later, a paper    *)
(* order at once.                                                          *)
(***************************************************************************)
EXTENDS IntentExecutor, TLC

CONSTANTS i1, i2, live, paper, raw1, env1, raw2
MCIntent    == {i1, i2}
MCDelivery  == {raw1, env1, raw2}
MCIntentOf  == [d \in MCDelivery |-> IF d = raw2 THEN i2 ELSE i1]
MCBot       == {live, paper}
MCBotOf     == [i \in MCIntent |-> IF i = i1 THEN live ELSE paper]
MCLive      == {live}
MCSymmetry  == Permutations({raw1, env1})
=============================================================================
