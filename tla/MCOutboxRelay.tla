--------------------------- MODULE MCOutboxRelay ----------------------------
(***************************************************************************)
(* Two transactions: one with two rows that tie, one with a single row     *)
(* whose metadata does not parse.                                          *)
(***************************************************************************)
EXTENDS OutboxRelay

CONSTANTS e1, e2, bad, t1, t2
MCEvent == {e1, e2, bad}
MCTx    == {t1, t2}
MCTxOf  == [e \in MCEvent |-> IF e = bad THEN t2 ELSE t1]
=============================================================================
