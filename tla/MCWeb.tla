------------------------------- MODULE MCWeb -------------------------------
(***************************************************************************)
(* Three texts to the bot, and lists with a row of every kind and state    *)
(* that the pages tell apart; one order, published twice by a retry, and   *)
(* its fill, with two sockets alive at a time.                             *)
(***************************************************************************)
EXTENDS WebClient, TLC

CONSTANTS t1, t2, t3, c1, c2

MCPrefix == (t1 :> "plain") @@ (t2 :> "/db ") @@ (t3 :> "/db ")

MCRow(symbol, kind, state, amount) ==
  [symbol |-> symbol, kind |-> kind, state |-> state, amount |-> amount]
MCBots == {<<>>, <<MCRow("s1", "live", "paused", 0), MCRow("s2", "paper", "draft", 0)>>}
MCWallets == {<<>>, [i \in 1..4 |-> MCRow("s1", "eth", "", 0)]}
MCSignals ==
  {<<>>,
   <<MCRow("s1", "buy", "pending", 0), MCRow("s2", "sell", "processed", 0),
     MCRow("s1", "sell", "rejected", 0), MCRow("s2", "buy", "expired", 0)>>}
MCTransactions ==
  {<<>>,
   <<MCRow("s1", "deposit", "confirmed", 2), MCRow("s1", "withdrawal", "pending", 9),
     MCRow("s1", "reward", "failed", 1), MCRow("s1", "credit", "cancelled", 4),
     MCRow("s1", "subscription_payment", "confirmed", 1)>>,
   <<MCRow("s1", "adjustment", "confirmed", 1)>>}
MCOthers == {<<>>, <<MCRow("s1", "binance", "active", 0)>>}

MCConn      == {c1, c2}
MCPublished == << [id |-> "o1", type |-> "order.submitted"],
                  [id |-> "e1", type |-> "execution.filled"],
                  [id |-> "o1", type |-> "order.submitted"] >>
MCSymmetry  == Permutations(MCConn)
=============================================================================
