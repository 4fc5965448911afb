--------------------------- MODULE MCBotLifecycle ---------------------------
(***************************************************************************)
(* Three bots under a plan of one paper and one live bot: two concurrent   *)
(* requests can overbook it by one, and one bot is left to tell one from   *)
(* two.                                                                    *)
(***************************************************************************)
EXTENDS BotLifecycle, TLC

CONSTANTS b1, b2, b3, r1, r2
MCBot      == {b1, b2, b3}
MCRequest  == {r1, r2}
MCSymmetry == Permutations({b1, b2}) \cup Permutations(MCRequest)
=============================================================================
