------------------------- MODULE MCPositionKeeping --------------------------
(***************************************************************************)
(* An order to buy and one to sell for one bot and symbol; a stop, a       *)
(* target and a trailing stop that are tight, wide or not set.             *)
(***************************************************************************)
EXTENDS PositionKeeping

CONSTANTS o1, o2, m1
MCOrder    == {o1, o2}
MCSideOf   == [o \in MCOrder |-> IF o = o1 THEN "buy" ELSE "sell"]
MCMarketOf == [o \in MCOrder |-> m1]
=============================================================================
