-------------------------- MODULE PositionKeeping ---------------------------
(***************************************************************************)
(* Positions of services/executor-rust: the reconciler (every 60 s) copies *)
(* the status the exchange reports into open order rows and books a fill   *)
(* in the position of the bot and symbol; the risk monitor (every 10 s)    *)
(* trails the stop of each position and closes it at its stop or target.   *)
(* Each is a loop of one task; both may fail at every await, and end with  *)
(* the process.                                                            *)
(*                                                                         *)
(* Prices are levels and percentages are distances between levels: what    *)
(* counts is their order.  Each order is of quantity one.  Average entry   *)
(* price and unrealized_pnl, on which no decision depends, are left out.   *)
(* The other statuses an exchange reports (pending, rejected, failed) are  *)
(* treated as accepted or cancelled are, and stand under those names.      *)
(***************************************************************************)
EXTENDS Naturals, FiniteSets

CONSTANTS
  Order,        \* live orders; each has its row of order_intents
  SideOf,       \* buy or sell
  Market,       \* a bot and a symbol: the unique key of positions
  MarketOf,
  NoOrder, NoMarket,
  Price,        \* levels a price may be at
  Distance,     \* what a user may set for a percentage; 0 is a missing one
  MaxBookings   \* bound on the bookings of an order

ASSUME PositionAssumption ==
  /\ SideOf \in [Order -> {"buy", "sell"}] /\ MarketOf \in [Order -> Market]
  /\ NoOrder \notin Order /\ NoMarket \notin Market
  /\ Price \subseteq Nat /\ Distance \subseteq Nat /\ 0 \in Distance
  /\ \A p \in Price, d \in Distance : p > d
  /\ MaxBookings \in Nat \ {0}

VARIABLES
  exchange,    \* status of an order at the exchange, "none" before it is placed
  row,         \* orders.status, of rows with an exchange_order_id
  position,    \* the row of positions of a market
  todo, hand, found, at,   \* reconciler: rest of the pass, order, its status, next await
  seen,        \* monitor: positions of the pass still to be checked, as they were read
  closing,     \* monitor: the position being closed
  booked,      \* history: how often the fill of an order was booked
  unwritten,   \* history: orders whose status filled could not be written once
  missed,      \* history: orders whose fill could not be booked once
  direct       \* history: orders filled by the answer to place_order

reconcilerVars == <<todo, hand, found, at, booked, unwritten, missed>>
monitorVars    == <<seen, closing>>
vars == <<exchange, row, position, reconcilerVars, monitorVars, direct>>

OpenStatus == {"accepted", "partially_filled"}
NoPosition == [side |-> "none", quantity |-> 0, mark |-> 0, stop |-> 0, target |-> 0]

Init ==
  /\ exchange = [o \in Order |-> "none"] /\ row = exchange
  /\ position = [m \in Market |-> NoPosition]
  /\ todo = {} /\ hand = NoOrder /\ found = "none" /\ at = "poll"
  /\ seen = position /\ closing = NoMarket
  /\ booked = [o \in Order |-> 0] /\ unwritten = {} /\ missed = {} /\ direct = {}

-----------------------------------------------------------------------------
(* The exchange, and what the executor wrote of its answer. *)

Place(o) ==
  /\ exchange[o] = "none"
  /\ \E s \in {"accepted", "filled"} :
       /\ exchange' = [exchange EXCEPT ![o] = s] /\ row' = [row EXCEPT ![o] = s]
       /\ direct' = IF s = "filled" THEN direct \cup {o} ELSE direct
  /\ UNCHANGED <<position, reconcilerVars, monitorVars>>

Trade(o) ==
  /\ exchange[o] \in OpenStatus
  /\ \E s \in {"partially_filled", "filled", "cancelled"} : exchange' = [exchange EXCEPT ![o] = s]
  /\ UNCHANGED <<row, position, reconcilerVars, monitorVars, direct>>

-----------------------------------------------------------------------------
(* The reconciler. *)

GetOpenOrders ==
  /\ todo = {} /\ hand = NoOrder
  /\ todo' = {o \in Order : row[o] \in OpenStatus}
  /\ UNCHANGED <<exchange, row, position, hand, found, at, booked, unwritten, missed,
                 monitorVars, direct>>

\* get_order_status; an order whose status is the one of its row needs nothing.
Poll(o) ==
  /\ hand = NoOrder /\ o \in todo /\ todo' = todo \ {o}
  /\ IF exchange[o] # row[o] THEN hand' = o /\ found' = exchange[o] /\ at' = "update"
                             ELSE UNCHANGED <<hand, found, at>>
  /\ UNCHANGED <<exchange, row, position, booked, unwritten, missed, monitorVars, direct>>

PollFails(o) ==
  /\ hand = NoOrder /\ o \in todo /\ todo' = todo \ {o}
  /\ UNCHANGED <<exchange, row, position, hand, found, at, booked, unwritten, missed,
                 monitorVars, direct>>

Handled == hand' = NoOrder /\ found' = "none" /\ at' = "poll"

\* Mutant: whatever has been filled in part is booked as well.
BooksPartly == {"filled", "partially_filled"}

Books == {"filled"}

\* update_order_status; an error of it is logged, and the fill is booked all the same.
UpdateOrderStatus ==
  /\ at = "update"
  /\ \/ row' = [row EXCEPT ![hand] = found] /\ UNCHANGED unwritten
     \/ /\ booked[hand] + 1 < MaxBookings
        /\ unwritten' = IF found = "filled" THEN unwritten \cup {hand} ELSE unwritten
        /\ UNCHANGED row
  /\ IF found \in Books THEN at' = "book" /\ UNCHANGED <<hand, found>> ELSE Handled
  /\ UNCHANGED <<exchange, position, todo, booked, missed, monitorVars, direct>>

\* A level on the side of a loss or of a gain, 0 if no distance is set.
Behind(side, price, d) ==
  IF d = 0 THEN 0 ELSE IF side = "buy" THEN price - d ELSE price + d
Ahead(side, price, d) ==
  IF d = 0 THEN 0 ELSE IF side = "buy" THEN price + d ELSE price - d

\* The DO UPDATE of the upsert: a fill adds to the position, whatever its side.
Increased(pos) == [pos EXCEPT !.quantity = @ + 1]

\* upsert_position_on_fill, with the settings of the moment.
UpsertPosition ==
  /\ at = "book" /\ booked' = [booked EXCEPT ![hand] = @ + 1]
  /\ LET m == MarketOf[hand]  side == SideOf[hand] IN
       \E price \in Price, sl \in Distance, tp \in Distance :
         position' = [position EXCEPT ![m] =
           IF @ # NoPosition THEN Increased(@)
           ELSE [side |-> side, quantity |-> 1, mark |-> price,
                 stop |-> Behind(side, price, sl), target |-> Ahead(side, price, tp)]]
  /\ Handled
  /\ UNCHANGED <<exchange, row, todo, unwritten, missed, monitorVars, direct>>

UpsertFails ==
  /\ at = "book" /\ missed' = missed \cup {hand} /\ Handled
  /\ UNCHANGED <<exchange, row, position, todo, booked, unwritten, monitorVars, direct>>

-----------------------------------------------------------------------------
(* The risk monitor. *)

GetOpenPositions ==
  /\ closing = NoMarket /\ \A m \in Market : seen[m] = NoPosition
  /\ seen' = [m \in Market |-> IF position[m].quantity > 0 THEN position[m] ELSE NoPosition]
  /\ UNCHANGED <<exchange, row, position, reconcilerVars, closing, direct>>

\* Mutant: the trailed stop replaces the one there is.
ReplacesStop(pos, level) == TRUE

Tightens(pos, level) ==
  \/ pos.stop = 0
  \/ IF pos.side = "buy" THEN level > pos.stop ELSE level < pos.stop

\* The price has never been as good for the position.
NewMark(pos, price) ==
  IF pos.side = "buy" THEN price > pos.mark ELSE pos.mark = 0 \/ price < pos.mark

\* The trailing stop, set at a distance d, after a look at the price.
Trailed(pos, price, d) ==
  LET level == Behind(pos.side, price, d) IN
  IF d = 0 \/ ~NewMark(pos, price) THEN pos
  ELSE [pos EXCEPT !.mark = price, !.stop = IF Tightens(pos, level) THEN level ELSE @]

Reached(pos, price) ==
  LET buy == pos.side = "buy" IN
  \/ pos.stop # 0 /\ IF buy THEN price <= pos.stop ELSE price >= pos.stop
  \/ pos.target # 0 /\ IF buy THEN price >= pos.target ELSE price <= pos.target

\* check_position: what it writes is the row it read, with the mark and stop moved.
CheckPosition(m) ==
  /\ closing = NoMarket /\ seen[m] # NoPosition /\ seen' = [seen EXCEPT ![m] = NoPosition]
  /\ \E price \in Price, d \in Distance :
       LET pos == Trailed(seen[m], price, d) IN
       IF Reached(pos, price) THEN closing' = m /\ UNCHANGED position
       ELSE /\ UNCHANGED closing
            /\ position' = IF pos = seen[m] THEN position
                           ELSE [position EXCEPT ![m].mark = pos.mark, ![m].stop = pos.stop]
  /\ UNCHANGED <<exchange, row, reconcilerVars, direct>>

\* The bot, its settings or the price cannot be read, or the row not be written.
CheckFails(m) ==
  /\ closing = NoMarket /\ seen[m] # NoPosition /\ seen' = [seen EXCEPT ![m] = NoPosition]
  /\ UNCHANGED <<exchange, row, position, reconcilerVars, closing, direct>>

\* order_intent_id of a closing order: a new id, of no order intent.
Placeholder == NoOrder

\* close_position: whether or not the exchange took the order, it ends here.  Where it
\* did, save_order comes next, which the foreign key to order_intents has to admit, and
\* only then the position is set to zero.
ClosePosition ==
  /\ closing # NoMarket /\ closing' = NoMarket
  /\ position' = IF Placeholder \in Order THEN [position EXCEPT ![closing].quantity = 0]
                                          ELSE position
  /\ UNCHANGED <<exchange, row, reconcilerVars, seen, direct>>

\* The process ends, and what its tasks held is gone.
Restart ==
  /\ hand # NoOrder \/ closing # NoMarket
  /\ todo' = {} /\ Handled /\ closing' = NoMarket /\ seen' = [m \in Market |-> NoPosition]
  /\ missed' = IF at = "book" THEN missed \cup {hand} ELSE missed
  /\ UNCHANGED <<exchange, row, position, booked, unwritten, direct>>

Next ==
  \/ \E o \in Order : Place(o) \/ Trade(o) \/ Poll(o) \/ PollFails(o)
  \/ GetOpenOrders \/ UpdateOrderStatus \/ UpsertPosition \/ UpsertFails
  \/ \E m \in Market : CheckPosition(m) \/ CheckFails(m)
  \/ GetOpenPositions \/ ClosePosition \/ Restart

Spec == Init /\ [][Next]_vars

-----------------------------------------------------------------------------
\* The bookings in a market, numbered order by order.
Bookings(m) == UNION {{o} \X (1..booked[o]) : o \in {o \in Order : MarketOf[o] = m}}

\* A fill found by the reconciler is booked exactly once, unless a booking failed (it is
\* not repeated once the status is written) or a status could not be written (the fill is
\* booked again by the next pass); one the exchange reported at once is never booked.
\* And a position is as large as there were bookings: neither the fills of the other side nor the
\* orders that were to close it ever take anything away.
FillsBooked ==
  /\ \A o \in Order \ {hand} :
       /\ row[o] = "filled" /\ o \notin direct \cup missed => booked[o] > 0
       /\ booked[o] > 1 => o \in unwritten
       /\ booked[o] > 0 => o \notin direct /\ (row[o] = "filled" \/ o \in unwritten)
  /\ \A m \in Market : position[m].quantity = Cardinality(Bookings(m))

\* A stop never moves back, though the monitor writes what it had read before fills were
\* booked, and whatever the user sets in between.
StopNeverMovesBack ==
  [][\A m \in Market : LET old == position[m].stop  new == position'[m].stop IN
       old # 0 => new # 0 /\ IF position[m].side = "buy" THEN new >= old ELSE new <= old]_vars
=============================================================================
