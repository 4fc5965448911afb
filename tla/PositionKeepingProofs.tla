----------------------- MODULE PositionKeepingProofs ------------------------
(***************************************************************************)
(* Bookings and stops of PositionKeeping for any orders, markets, prices   *)
(* and distances.                                                          *)
(*                                                                         *)
(* FillsBooked leaves out the order in the reconciler's hands, of which    *)
(* InHand says more: it is booked at most once more than its status could  *)
(* not be written.  StopNeverMovesBack rests on AsRead: while the monitor  *)
(* holds what it read, fills change the quantity of a position only, so    *)
(* the stop it trails is the stop there is.                                *)
(***************************************************************************)
EXTENDS PositionKeeping, FiniteSetTheorems, TLAPS

Status == {"none", "accepted", "partially_filled", "filled", "cancelled"}

PositionRow == [side : {"none", "buy", "sell"}, quantity : Nat, mark : Nat, stop : Nat,
                target : Nat]

\* Orders, rows, and what the two loops hold of them.
PositionTypeOK ==
  /\ exchange \in [Order -> Status] /\ row \in [Order -> Status]
  /\ position \in [Market -> PositionRow] /\ seen \in [Market -> PositionRow]
  /\ todo \subseteq Order /\ hand \in Order \cup {NoOrder} /\ found \in Status
  /\ at \in {"poll", "update", "book"} /\ closing \in Market \cup {NoMarket}
  /\ booked \in [Order -> Nat]

\* What the pass still looks at is open, as the order in its hands was until it was written.
InHand ==
  /\ at = "poll" <=> hand = NoOrder
  /\ hand \notin todo
  /\ \A o \in todo : row[o] \in OpenStatus
  /\ at = "update" => row[hand] \in OpenStatus /\ found # "none"
  /\ at = "book" => /\ hand \notin direct
                    /\ row[hand] = "filled" \/ hand \in unwritten
                    /\ booked[hand] > 0 => hand \in unwritten

\* An order is known to the exchange when it has a row, and one filled at once stays so.
Known ==
  \A o \in Order :
    /\ exchange[o] = "none" <=> row[o] = "none"
    /\ o \in direct => row[o] = "filled"
    /\ o \in unwritten => row[o] # "none"

\* FillsBooked, and what of it holds of the order in hand as well.
BookedOnce ==
  \A o \in Order :
    /\ row[o] = "filled" /\ o \notin direct \cup missed => booked[o] > 0 \/ o = hand
    /\ booked[o] > 1 => o \in unwritten
    /\ booked[o] > 0 => o \notin direct /\ (row[o] = "filled" \/ o \in unwritten)

Counted ==
  \A m \in Market :
    IsFiniteSet(Bookings(m)) /\ position[m].quantity = Cardinality(Bookings(m))

\* A position has a side and a quantity, or there is none.
Held ==
  \A m \in Market :
    position[m] # NoPosition => position[m].quantity > 0 /\ position[m].side # "none"

\* What the monitor read of a position is still so, but for the quantity.
AsRead ==
  \A m \in Market : seen[m] # NoPosition =>
    /\ position[m] # NoPosition
    /\ seen[m].side = position[m].side /\ seen[m].mark = position[m].mark
    /\ seen[m].stop = position[m].stop

PositionInv == PositionTypeOK /\ InHand /\ Known /\ BookedOnce /\ Counted /\ Held /\ AsRead

-----------------------------------------------------------------------------
LEMMA PositionFacts ==
  /\ \A o \in Order : MarketOf[o] \in Market /\ SideOf[o] \in {"buy", "sell"}
  /\ NoOrder \notin Order /\ NoMarket \notin Market
  /\ \A p \in Price, d \in Distance : p \in Nat /\ d \in Nat /\ p > d
  BY PositionAssumption DEF PositionAssumption

\* A level is a price, and none only if no distance is set.
LEMMA LevelType ==
  ASSUME NEW side, NEW price \in Price, NEW d \in Distance
  PROVE  /\ Behind(side, price, d) \in Nat /\ Ahead(side, price, d) \in Nat
         /\ d # 0 => Behind(side, price, d) # 0
  BY PositionFacts DEF Behind, Ahead

\* Trailing moves the mark and the stop of a row, and the stop never back.
LEMMA TrailedFacts ==
  ASSUME NEW pos \in PositionRow, NEW price \in Price, NEW d \in Distance
  PROVE  LET new == Trailed(pos, price, d) IN
         /\ new \in PositionRow
         /\ new.side = pos.side /\ new.quantity = pos.quantity
         /\ pos.stop # 0 => new.stop # 0 /\ IF pos.side = "buy" THEN new.stop >= pos.stop
                                                                ELSE new.stop <= pos.stop
<1> DEFINE level == Behind(pos.side, price, d)
           new == Trailed(pos, price, d)
<1>1. level \in Nat /\ (d # 0 => level # 0)
  BY LevelType
<1>2. CASE d = 0 \/ ~NewMark(pos, price)
  BY <1>2 DEF Trailed, PositionRow
<1>3. CASE ~(d = 0 \/ ~NewMark(pos, price))
  <2>1. new = [pos EXCEPT !.mark = price, !.stop = IF Tightens(pos, level) THEN level ELSE @]
    BY <1>3 DEF Trailed
  <2>2. price \in Nat
    BY PositionFacts
  <2> HIDE DEF level, new
  <2>3. /\ new \in PositionRow
        /\ new.side = pos.side /\ new.quantity = pos.quantity
        /\ new.stop = IF Tightens(pos, level) THEN level ELSE pos.stop
    BY <1>1, <2>1, <2>2 DEF PositionRow
  <2>4. pos.stop \in Nat
    BY DEF PositionRow
  <2>5. CASE Tightens(pos, level)
    BY <1>1, <1>3, <2>3, <2>4, <2>5 DEF Tightens, new
  <2>6. CASE ~Tightens(pos, level)
    BY <2>3, <2>4, <2>6 DEF new
  <2> QED BY <2>5, <2>6
<1> QED BY <1>2, <1>3

LEMMA NoPositionType == NoPosition \in PositionRow
  BY DEF NoPosition, PositionRow

\* Nothing is booked, nothing is counted.
LEMMA NoneBooked ==
  ASSUME NEW m, \A o \in Order : booked[o] = 0
  PROVE  Bookings(m) = {}
<1>1. \A o \in Order : {o} \X (1..booked[o]) = {}
  OBVIOUS
<1> QED BY <1>1 DEF Bookings

\* One more booking of an order is one more in its market, and none elsewhere.
LEMMA OneMoreBooked ==
  ASSUME booked \in [Order -> Nat], NEW o \in Order, NEW m,
         booked' = [booked EXCEPT ![o] = @ + 1]
  PROVE  /\ m = MarketOf[o] => /\ Bookings(m)' = Bookings(m) \cup {<<o, booked[o] + 1>>}
                               /\ <<o, booked[o] + 1>> \notin Bookings(m)
         /\ m # MarketOf[o] => Bookings(m)' = Bookings(m)
<1> DEFINE of(b) == {x \in Order \X Nat : MarketOf[x[1]] = m /\ x[2] \in 1..b[x[1]]}
<1>1. ASSUME NEW b \in [Order -> Nat]
      PROVE  UNION {{u} \X (1..b[u]) : u \in {u \in Order : MarketOf[u] = m}} = of(b)
  <2>1. \A u \in Order : 1..b[u] \subseteq Nat
    OBVIOUS
  <2>2. ASSUME NEW u \in Order, MarketOf[u] = m, NEW x \in {u} \X (1..b[u])
        PROVE  x \in of(b)
    BY <2>1, <2>2
  <2>3. ASSUME NEW x \in of(b)
        PROVE  \E u \in Order : MarketOf[u] = m /\ x \in {u} \X (1..b[u])
    <3>1. x[1] \in Order /\ x = <<x[1], x[2]>>
      OBVIOUS
    <3> QED BY <3>1
  <2> HIDE DEF of
  <2> QED BY <2>2, <2>3
<1>2. booked' \in [Order -> Nat]
  OBVIOUS
<1>3. Bookings(m) = of(booked) /\ Bookings(m)' = of(booked')
  BY <1>1, <1>2 DEF Bookings
<1>4. \A u \in Order : booked'[u] = IF u = o THEN booked[o] + 1 ELSE booked[u]
  OBVIOUS
<1>5. booked[o] \in Nat
  OBVIOUS
<1>6. \A i \in Nat : i \in 1..(booked[o] + 1) <=> i \in 1..booked[o] \/ i = booked[o] + 1
  BY <1>5
<1>7. CASE m = MarketOf[o]
  <2>1. ASSUME NEW x \in Order \X Nat
        PROVE  x \in of(booked') <=> x \in of(booked) \/ x = <<o, booked[o] + 1>>
    BY <1>4, <1>5, <1>6, <1>7
  <2>2. <<o, booked[o] + 1>> \in Order \X Nat /\ <<o, booked[o] + 1>> \notin of(booked)
    BY <1>5
  <2>3. of(booked) \subseteq Order \X Nat /\ of(booked') \subseteq Order \X Nat
    OBVIOUS
  <2> HIDE DEF of
  <2> QED BY <1>3, <1>7, <2>1, <2>2, <2>3
<1>8. CASE m # MarketOf[o]
  BY <1>3, <1>4, <1>8
<1> QED BY <1>7, <1>8

-----------------------------------------------------------------------------
LEMMA InitPosition == Init => PositionInv
<1> SUFFICES ASSUME Init PROVE PositionInv
  OBVIOUS
<1>1. PositionTypeOK
  BY NoPositionType DEF Init, PositionTypeOK, Status
<1>2. InHand /\ Known /\ BookedOnce
  BY PositionFacts DEF Init, InHand, Known, BookedOnce
<1>3. Counted
  <2>1. \A m \in Market : Bookings(m) = {}
    BY NoneBooked DEF Init
  <2> QED BY <2>1, FS_EmptySet DEF Init, Counted, NoPosition
<1>4. Held /\ AsRead
  BY DEF Init, Held, AsRead
<1> QED BY <1>1, <1>2, <1>3, <1>4 DEF PositionInv

\* What a look at a position writes: its mark and stop, trailed from what was read.
LEMMA CheckWrites ==
  ASSUME PositionInv, NEW m \in Market, CheckPosition(m)
  PROVE  /\ seen[m] # NoPosition /\ seen' = [seen EXCEPT ![m] = NoPosition]
         /\ UNCHANGED <<exchange, row, reconcilerVars, direct>>
         /\ closing' \in {closing, m}
         /\ position' \in [Market -> PositionRow]
         /\ \A n \in Market : n # m => position'[n] = position[n]
         /\ position'[m].quantity = position[m].quantity
         /\ position'[m].side = position[m].side
         /\ position[m].stop # 0 =>
              /\ position'[m].stop # 0
              /\ IF position[m].side = "buy" THEN position'[m].stop >= position[m].stop
                                             ELSE position'[m].stop <= position[m].stop
<1>0. PositionTypeOK /\ AsRead
  BY DEF PositionInv
<1>1. /\ seen[m] # NoPosition /\ seen' = [seen EXCEPT ![m] = NoPosition]
      /\ UNCHANGED <<exchange, row, reconcilerVars, direct>> /\ closing' \in {closing, m}
  BY DEF CheckPosition
<1>2. CASE position' = position
  <2>1. position[m] \in PositionRow
    BY <1>0 DEF PositionTypeOK
  <2>2. position[m].stop \in Nat
    BY <2>1 DEF PositionRow
  <2> QED BY <1>0, <1>1, <1>2, <2>2 DEF PositionTypeOK
<1>3. CASE position' # position
  <2>1. PICK price \in Price, d \in Distance :
          position' = [position EXCEPT ![m].mark = Trailed(seen[m], price, d).mark,
                                       ![m].stop = Trailed(seen[m], price, d).stop]
    BY <1>3 DEF CheckPosition
  <2> DEFINE new == Trailed(seen[m], price, d)
             next == [position[m] EXCEPT !.mark = new.mark, !.stop = new.stop]
  <2>2. position[m] \in PositionRow /\ seen[m] \in PositionRow
    BY <1>0 DEF PositionTypeOK
  <2>3. new \in PositionRow
    BY <2>2, TrailedFacts
  <2>4. seen[m].stop = position[m].stop /\ seen[m].side = position[m].side
    BY <1>0, <1>1 DEF AsRead
  <2>5. seen[m].stop # 0 =>
          new.stop # 0 /\ IF seen[m].side = "buy" THEN new.stop >= seen[m].stop
                                                  ELSE new.stop <= seen[m].stop
    BY <2>2, TrailedFacts
  <2>6. position' = [position EXCEPT ![m] = next]
    BY <1>0, <2>1 DEF PositionTypeOK
  <2> HIDE DEF new
  <2>7. /\ next \in PositionRow
        /\ next.side = position[m].side /\ next.quantity = position[m].quantity
        /\ next.stop = new.stop
    BY <2>2, <2>3 DEF PositionRow
  <2> HIDE DEF next
  <2>8. /\ position' \in [Market -> PositionRow]
        /\ position'[m] = next /\ \A n \in Market : n # m => position'[n] = position[n]
    BY <1>0, <2>6, <2>7 DEF PositionTypeOK
  <2> QED BY <1>1, <2>4, <2>5, <2>7, <2>8
<1> QED BY <1>2, <1>3

\* What a booking writes: a new position, or one more of the one there is.
LEMMA BookingWrites ==
  ASSUME PositionInv, UpsertPosition
  PROVE  LET m == MarketOf[hand] IN
         /\ hand \in Order /\ m \in Market
         /\ booked' = [booked EXCEPT ![hand] = @ + 1]
         /\ position' \in [Market -> PositionRow]
         /\ \A n \in Market : n # m => position'[n] = position[n]
         /\ position'[m].quantity = position[m].quantity + 1
         /\ position[m] # NoPosition =>
              /\ position'[m].side = position[m].side /\ position'[m].mark = position[m].mark
              /\ position'[m].stop = position[m].stop
         /\ position'[m].side # "none"
<1> DEFINE m == MarketOf[hand]
<1>0. PositionTypeOK /\ InHand /\ Held
  BY DEF PositionInv
<1>1. hand \in Order /\ m \in Market /\ SideOf[hand] \in {"buy", "sell"}
  BY <1>0, PositionFacts DEF UpsertPosition, PositionTypeOK, InHand
<1>2. PICK price \in Price, sl \in Distance, tp \in Distance :
        position' = [position EXCEPT ![m] =
          IF @ # NoPosition THEN Increased(@)
          ELSE [side |-> SideOf[hand], quantity |-> 1, mark |-> price,
                stop |-> Behind(SideOf[hand], price, sl),
                target |-> Ahead(SideOf[hand], price, tp)]]
  BY DEF UpsertPosition
<1>3. position[m] \in PositionRow
  BY <1>0, <1>1 DEF PositionTypeOK
<1> DEFINE old == position[m]
           new == IF old # NoPosition THEN Increased(old)
                  ELSE [side |-> SideOf[hand], quantity |-> 1, mark |-> price,
                        stop |-> Behind(SideOf[hand], price, sl),
                        target |-> Ahead(SideOf[hand], price, tp)]
<1>4. /\ new \in PositionRow /\ new.quantity = old.quantity + 1 /\ new.side # "none"
      /\ old # NoPosition => /\ new.side = old.side /\ new.mark = old.mark
                             /\ new.stop = old.stop
  <2>1. CASE old # NoPosition
    <3>1. old.side # "none"
      BY <1>0, <1>1, <2>1 DEF Held
    <3> QED BY <1>3, <2>1, <3>1 DEF Increased, PositionRow
  <2>2. CASE old = NoPosition
    <3>1. Behind(SideOf[hand], price, sl) \in Nat /\ Ahead(SideOf[hand], price, tp) \in Nat
      BY LevelType
    <3>2. price \in Nat
      BY PositionFacts
    <3> QED BY <1>1, <2>2, <3>1, <3>2 DEF NoPosition, PositionRow
  <2> QED BY <2>1, <2>2
<1>5. position' = [position EXCEPT ![m] = new]
  BY <1>2
<1> HIDE DEF new
<1>6. /\ position' \in [Market -> PositionRow]
      /\ position'[m] = new /\ \A n \in Market : n # m => position'[n] = position[n]
  BY <1>0, <1>1, <1>4, <1>5 DEF PositionTypeOK
<1>7. booked' = [booked EXCEPT ![hand] = @ + 1]
  BY DEF UpsertPosition
<1> QED BY <1>1, <1>4, <1>6, <1>7

\* The close leaves the positions as they are: no order intent has the id of the placeholder.
LEMMA CloseWritesNothing == ClosePosition => position' = position
  BY PositionFacts DEF ClosePosition, Placeholder

-----------------------------------------------------------------------------
LEMMA PositionTypeStep ==
  ASSUME PositionInv, [Next]_vars
  PROVE  PositionTypeOK'
<1>0. PositionTypeOK /\ InHand
  BY DEF PositionInv
<1>1. ASSUME NEW o \in Order, Place(o) \/ Trade(o) PROVE PositionTypeOK'
  BY <1>0, <1>1 DEF Place, Trade, PositionTypeOK, Status, reconcilerVars, monitorVars
<1>2. ASSUME NEW o \in Order, Poll(o) \/ PollFails(o) PROVE PositionTypeOK'
  BY <1>0, <1>2 DEF Poll, PollFails, PositionTypeOK, monitorVars
<1>3. CASE GetOpenOrders
  BY <1>0, <1>3 DEF GetOpenOrders, PositionTypeOK, monitorVars
<1>4. CASE UpdateOrderStatus
  <2>1. row' \in [Order -> Status]
    BY <1>0, <1>4 DEF UpdateOrderStatus, PositionTypeOK
  <2>2. /\ hand' \in Order \cup {NoOrder} /\ found' \in Status
        /\ at' \in {"poll", "update", "book"}
    BY <1>0, <1>4 DEF UpdateOrderStatus, Handled, PositionTypeOK, Status
  <2> QED BY <1>0, <1>4, <2>1, <2>2 DEF UpdateOrderStatus, PositionTypeOK, monitorVars
<1>5. CASE UpsertPosition
  <2>1. position' \in [Market -> PositionRow] /\ booked' \in [Order -> Nat]
    BY <1>0, <1>5, BookingWrites DEF PositionTypeOK
  <2> QED BY <1>0, <1>5, <2>1
          DEF UpsertPosition, Handled, PositionTypeOK, Status, monitorVars
<1>6. CASE UpsertFails
  BY <1>0, <1>6 DEF UpsertFails, Handled, PositionTypeOK, Status, monitorVars
<1>7. ASSUME NEW m \in Market, CheckPosition(m) PROVE PositionTypeOK'
  <2>1. seen' \in [Market -> PositionRow]
    BY <1>0, <1>7, CheckWrites, NoPositionType DEF PositionTypeOK
  <2> QED BY <1>0, <1>7, <2>1, CheckWrites DEF PositionTypeOK, reconcilerVars
<1>8. ASSUME NEW m \in Market, CheckFails(m) PROVE PositionTypeOK'
  BY <1>0, <1>8, NoPositionType DEF CheckFails, PositionTypeOK, reconcilerVars
<1>9. CASE GetOpenPositions
  BY <1>0, <1>9, NoPositionType DEF GetOpenPositions, PositionTypeOK, reconcilerVars
<1>10. CASE ClosePosition
  BY <1>0, <1>10, CloseWritesNothing DEF ClosePosition, PositionTypeOK, reconcilerVars
<1>11. CASE Restart
  BY <1>0, <1>11, NoPositionType DEF Restart, Handled, PositionTypeOK, Status
<1>12. CASE UNCHANGED vars
  BY <1>0, <1>12 DEF PositionTypeOK, vars, reconcilerVars, monitorVars
<1> QED BY <1>1, <1>2, <1>3, <1>4, <1>5, <1>6, <1>7, <1>8, <1>9, <1>10, <1>11, <1>12
        DEF Next

LEMMA InHandStep ==
  ASSUME PositionInv, [Next]_vars
  PROVE  InHand'
<1> USE PositionFacts DEF OpenStatus
<1>0. PositionTypeOK /\ InHand /\ Known /\ BookedOnce
  BY DEF PositionInv
<1>1. ASSUME NEW o \in Order, Place(o) PROVE InHand'
  <2>1. /\ exchange[o] = "none" /\ row[o] = "none"
        /\ o \notin todo /\ o \notin unwritten
        /\ at # "poll" => hand # o
    <3>1. exchange[o] = "none" /\ row[o] = "none"
      BY <1>0, <1>1 DEF Place, Known
    <3>2. o \notin todo /\ o \notin unwritten
      BY <1>0, <3>1 DEF InHand, Known
    <3>3. ASSUME at # "poll", hand = o PROVE FALSE
      BY <1>0, <3>1, <3>2, <3>3 DEF InHand, PositionTypeOK
    <3> QED BY <3>1, <3>2, <3>3
  <2>2. \A u \in Order : u # o => row'[u] = row[u]
    BY <1>0, <1>1 DEF Place, PositionTypeOK
  <2>3. direct' \subseteq direct \cup {o}
    BY <1>1 DEF Place
  <2>4. at # "poll" => hand \in Order
    BY <1>0 DEF InHand, PositionTypeOK
  <2> QED BY <1>0, <1>1, <2>1, <2>2, <2>3, <2>4
          DEF Place, InHand, PositionTypeOK, reconcilerVars
<1>2. ASSUME NEW o \in Order, Poll(o) \/ PollFails(o) PROVE InHand'
  <2>1. o \in todo => exchange[o] # "none"
    BY <1>0, <1>2 DEF InHand, Known
  <2> QED BY <1>0, <1>2, <2>1 DEF Poll, PollFails, InHand, PositionTypeOK
<1>3. CASE GetOpenOrders
  BY <1>0, <1>3 DEF GetOpenOrders, InHand, PositionTypeOK
<1>4. CASE UpdateOrderStatus
  <2>1. /\ hand \in Order /\ hand \notin todo /\ row[hand] \in OpenStatus
        /\ hand \notin direct /\ (booked[hand] > 0 => hand \in unwritten)
    BY <1>0, <1>4 DEF UpdateOrderStatus, InHand, Known, BookedOnce, PositionTypeOK
  <2>2. \A u \in Order : u # hand => row'[u] = row[u]
    BY <1>0, <1>4 DEF UpdateOrderStatus, PositionTypeOK
  <2>3. UNCHANGED <<todo, booked, direct>> /\ unwritten \subseteq unwritten'
    BY <1>4 DEF UpdateOrderStatus
  <2>4. CASE found = "filled"
    <3>1. at' = "book" /\ hand' = hand
      BY <1>4, <2>4 DEF UpdateOrderStatus, Books
    <3>2. row'[hand] = "filled" \/ hand \in unwritten'
      BY <1>0, <1>4, <2>1, <2>4 DEF UpdateOrderStatus, PositionTypeOK
    <3> QED BY <1>0, <2>1, <2>2, <2>3, <3>1, <3>2 DEF InHand, PositionTypeOK
  <2>5. CASE found # "filled"
    <3>1. at' = "poll" /\ hand' = NoOrder
      BY <1>4, <2>5 DEF UpdateOrderStatus, Books, Handled
    <3> QED BY <1>0, <2>1, <2>2, <2>3, <3>1 DEF InHand, PositionTypeOK
  <2> QED BY <2>4, <2>5
<1>5. CASE UpsertPosition \/ UpsertFails
  BY <1>0, <1>5 DEF UpsertPosition, UpsertFails, Handled, InHand, PositionTypeOK
<1>6. CASE Restart
  BY <1>0, <1>6 DEF Restart, Handled, InHand
<1>7. CASE UNCHANGED <<row, reconcilerVars, direct>>
  BY <1>0, <1>7 DEF InHand, reconcilerVars
<1> QED BY <1>1, <1>2, <1>3, <1>4, <1>5, <1>6, <1>7
        DEF Next, Trade, CheckPosition, CheckFails, GetOpenPositions, ClosePosition, vars

LEMMA KnownStep ==
  ASSUME PositionInv, [Next]_vars
  PROVE  Known'
<1>0. PositionTypeOK /\ InHand /\ Known
  BY DEF PositionInv
<1>1. ASSUME NEW o \in Order, Place(o) PROVE Known'
  BY <1>0, <1>1 DEF Place, Known, PositionTypeOK, reconcilerVars
<1>2. ASSUME NEW o \in Order, Trade(o) PROVE Known'
  BY <1>0, <1>2 DEF Trade, Known, PositionTypeOK, OpenStatus, reconcilerVars
<1>3. CASE UpdateOrderStatus
  <2>1. hand \in Order /\ row[hand] \in OpenStatus /\ found # "none"
    BY <1>0, <1>3, PositionFacts DEF UpdateOrderStatus, InHand, PositionTypeOK
  <2> QED BY <1>0, <1>3, <2>1 DEF UpdateOrderStatus, Known, PositionTypeOK, OpenStatus
<1>4. CASE UNCHANGED <<exchange, row, unwritten, direct>>
  BY <1>0, <1>4 DEF Known
<1> QED BY <1>1, <1>2, <1>3, <1>4
        DEF Next, Poll, PollFails, GetOpenOrders, UpsertPosition, UpsertFails, CheckPosition,
            CheckFails, GetOpenPositions, ClosePosition, Restart, vars, reconcilerVars

LEMMA BookedOnceStep ==
  ASSUME PositionInv, [Next]_vars
  PROVE  BookedOnce'
<1>0. PositionTypeOK /\ InHand /\ Known /\ BookedOnce
  BY DEF PositionInv
<1>1. ASSUME NEW o \in Order, Place(o) PROVE BookedOnce'
  <2>1. row[o] = "none" /\ o \notin unwritten
    BY <1>0, <1>1 DEF Place, Known
  <2>2. ~(booked[o] > 0)
    BY <1>0, <2>1 DEF BookedOnce
  <2>3. /\ row'[o] = "filled" => o \in direct'
        /\ row'[o] # "filled" => o \notin direct'
    BY <1>0, <1>1, <2>1 DEF Place, Known, PositionTypeOK
  <2>4. \A u \in Order : u # o => row'[u] = row[u] /\ (u \in direct' <=> u \in direct)
    BY <1>0, <1>1 DEF Place, PositionTypeOK
  <2>5. UNCHANGED <<hand, booked, unwritten, missed>>
    BY <1>1 DEF Place, reconcilerVars
  <2>6. booked[o] > 1 => booked[o] > 0
    BY <1>0 DEF PositionTypeOK
  <2> QED BY <1>0, <2>1, <2>2, <2>3, <2>4, <2>5, <2>6 DEF BookedOnce
<1>2. ASSUME NEW o \in Order, Poll(o) PROVE BookedOnce'
  <2>1. UNCHANGED <<row, booked, unwritten, missed, direct>> /\ hand = NoOrder
    BY <1>2 DEF Poll
  <2> QED BY <1>0, <2>1, PositionFacts DEF BookedOnce
<1>3. CASE UpdateOrderStatus
  <2>1. /\ hand \in Order /\ row[hand] \in OpenStatus
        /\ hand \notin direct /\ (booked[hand] > 0 => hand \in unwritten)
    BY <1>0, <1>3, PositionFacts
       DEF UpdateOrderStatus, InHand, Known, BookedOnce, PositionTypeOK, OpenStatus
  <2>2. \A u \in Order : u # hand => row'[u] = row[u]
    BY <1>0, <1>3 DEF UpdateOrderStatus, PositionTypeOK
  <2>3. UNCHANGED <<booked, missed, direct>> /\ unwritten \subseteq unwritten'
    BY <1>3 DEF UpdateOrderStatus
  <2>4. row'[hand] = "filled" => hand' = hand
    BY <1>0, <1>3, <2>1 DEF UpdateOrderStatus, Books, PositionTypeOK, OpenStatus
  <2> QED BY <1>0, <2>1, <2>2, <2>3, <2>4 DEF BookedOnce
<1>4. CASE UpsertPosition
  <2>1. hand \in Order /\ booked[hand] \in Nat /\ at = "book"
    BY <1>0, <1>4, BookingWrites DEF PositionTypeOK, UpsertPosition
  <2>2. \A u \in Order : booked'[u] = IF u = hand THEN booked[hand] + 1 ELSE booked[u]
    BY <1>0, <1>4, BookingWrites DEF PositionTypeOK
  <2>3. UNCHANGED <<row, unwritten, missed, direct>>
    BY <1>4 DEF UpsertPosition
  <2>4. booked[hand] + 1 > 1 => booked[hand] > 0
    BY <2>1
  <2>5. booked[hand] + 1 > 0
    BY <2>1
  <2> QED BY <1>0, <2>1, <2>2, <2>3, <2>4, <2>5 DEF BookedOnce, InHand
<1>5. CASE UpsertFails
  BY <1>0, <1>5 DEF UpsertFails, BookedOnce
<1>6. CASE Restart
  <2>1. at = "update" => row[hand] # "filled"
    BY <1>0 DEF InHand, OpenStatus
  <2>2. at = "poll" => hand \notin Order
    BY <1>0, PositionFacts DEF InHand
  <2>3. at \in {"poll", "update", "book"}
    BY <1>0 DEF PositionTypeOK
  <2>4. UNCHANGED <<row, booked, unwritten, direct>>
    BY <1>6 DEF Restart
  <2>5. missed' = IF at = "book" THEN missed \cup {hand} ELSE missed
    BY <1>6 DEF Restart
  <2> QED BY <1>0, <2>1, <2>2, <2>3, <2>4, <2>5 DEF BookedOnce
<1>7. CASE UNCHANGED <<row, hand, booked, unwritten, missed, direct>>
  BY <1>0, <1>7 DEF BookedOnce
<1> QED BY <1>1, <1>2, <1>3, <1>4, <1>5, <1>6, <1>7
        DEF Next, Trade, PollFails, GetOpenOrders, CheckPosition, CheckFails,
            GetOpenPositions, ClosePosition, vars, reconcilerVars

LEMMA CountedStep ==
  ASSUME PositionInv, [Next]_vars
  PROVE  Counted'
<1>0. PositionTypeOK /\ Counted
  BY DEF PositionInv
<1>1. CASE UpsertPosition
  <2> DEFINE b == <<hand, booked[hand] + 1>>
  <2>1. /\ hand \in Order /\ booked \in [Order -> Nat]
        /\ booked' = [booked EXCEPT ![hand] = @ + 1]
    BY <1>0, <1>1, BookingWrites DEF PositionTypeOK
  <2>2. ASSUME NEW m \in Market, m = MarketOf[hand]
        PROVE  /\ IsFiniteSet(Bookings(m)')
               /\ position'[m].quantity = Cardinality(Bookings(m)')
    <3>1. Bookings(m)' = Bookings(m) \cup {b} /\ b \notin Bookings(m)
      BY <2>1, <2>2, OneMoreBooked
    <3>2. IsFiniteSet(Bookings(m)) /\ position[m].quantity = Cardinality(Bookings(m))
      BY <1>0 DEF Counted
    <3>3. IsFiniteSet(Bookings(m)') /\ Cardinality(Bookings(m)') = Cardinality(Bookings(m)) + 1
      BY <3>1, <3>2, FS_AddElement
    <3>4. position'[m].quantity = position[m].quantity + 1
      BY <1>1, <2>2, BookingWrites
    <3> QED BY <3>2, <3>3, <3>4
  <2>3. ASSUME NEW m \in Market, m # MarketOf[hand]
        PROVE  Bookings(m)' = Bookings(m) /\ position'[m] = position[m]
    BY <1>1, <2>1, <2>3, OneMoreBooked, BookingWrites
  <2> QED BY <1>0, <2>2, <2>3 DEF Counted
<1>2. ASSUME NEW m \in Market, CheckPosition(m) PROVE Counted'
  <2>1. \A n \in Market : position'[n].quantity = position[n].quantity
    BY <1>2, CheckWrites
  <2>2. \A n \in Market : Bookings(n)' = Bookings(n)
    BY <1>2, CheckWrites DEF Bookings, reconcilerVars
  <2> QED BY <1>0, <2>1, <2>2 DEF Counted
<1>3. CASE UNCHANGED <<position, booked>>
  <2>1. \A n \in Market : Bookings(n)' = Bookings(n)
    BY <1>3 DEF Bookings
  <2> QED BY <1>0, <1>3, <2>1 DEF Counted
<1> QED BY <1>1, <1>2, <1>3, CloseWritesNothing
        DEF Next, Place, Trade, Poll, PollFails, GetOpenOrders, UpdateOrderStatus, UpsertFails,
            CheckFails, GetOpenPositions, ClosePosition, Restart, vars, reconcilerVars

\* A written row is not the one of no position.
LEMMA QuantityCounts ==
  ASSUME NEW pos, pos.quantity > 0
  PROVE  pos # NoPosition
  BY DEF NoPosition

LEMMA MonitorStep ==
  ASSUME PositionInv, [Next]_vars
  PROVE  Held' /\ AsRead'
<1>0. PositionTypeOK /\ Held /\ AsRead
  BY DEF PositionInv
<1>1. CASE UpsertPosition
  <2> DEFINE m == MarketOf[hand]
  <2>1. seen' = seen /\ m \in Market /\ \A n \in Market : n # m => position'[n] = position[n]
    BY <1>1, BookingWrites DEF UpsertPosition, monitorVars
  <2>2. position[m].quantity \in Nat
    BY <1>0, <2>1 DEF PositionTypeOK, PositionRow
  <2>3. position'[m].quantity > 0 /\ position'[m].side # "none"
    BY <1>1, <2>2, BookingWrites
  <2>4. seen[m] # NoPosition =>
          /\ position[m] # NoPosition
          /\ position'[m].side = position[m].side /\ position'[m].mark = position[m].mark
          /\ position'[m].stop = position[m].stop
    BY <1>0, <1>1, <2>1, BookingWrites DEF AsRead
  <2>5. position'[m] # NoPosition
    BY <2>3, QuantityCounts
  <2> HIDE DEF m
  <2> QED BY <1>0, <2>1, <2>3, <2>4, <2>5 DEF Held, AsRead
<1>2. ASSUME NEW m \in Market, CheckPosition(m) PROVE Held' /\ AsRead'
  <2>1. \A n \in Market : n # m => position'[n] = position[n] /\ seen'[n] = seen[n]
    BY <1>0, <1>2, CheckWrites DEF PositionTypeOK
  <2>2. seen'[m] = NoPosition /\ position[m] # NoPosition
    BY <1>0, <1>2, CheckWrites DEF PositionTypeOK, AsRead
  <2>3. position'[m].quantity > 0 /\ position'[m].side # "none"
    BY <1>0, <1>2, <2>2, CheckWrites DEF Held
  <2> QED BY <1>0, <2>1, <2>2, <2>3 DEF Held, AsRead
<1>3. ASSUME NEW m \in Market, CheckFails(m) PROVE Held' /\ AsRead'
  BY <1>0, <1>3 DEF CheckFails, Held, AsRead, PositionTypeOK
<1>4. CASE GetOpenPositions
  <2>1. \A n \in Market : seen'[n] # NoPosition =>
          seen'[n] = position[n] /\ position[n].quantity > 0
    BY <1>4 DEF GetOpenPositions
  <2>2. position' = position
    BY <1>4 DEF GetOpenPositions
  <2> QED BY <1>0, <2>1, <2>2, QuantityCounts DEF Held, AsRead
<1>5. CASE Restart
  BY <1>0, <1>5 DEF Restart, Held, AsRead
<1>6. CASE UNCHANGED <<position, seen>>
  BY <1>0, <1>6 DEF Held, AsRead
<1> QED BY <1>1, <1>2, <1>3, <1>4, <1>5, <1>6, CloseWritesNothing
        DEF Next, Place, Trade, Poll, PollFails, GetOpenOrders, UpdateOrderStatus, UpsertFails,
            ClosePosition, vars, reconcilerVars, monitorVars

-----------------------------------------------------------------------------
\* The invariant, for any orders, markets, prices and distances.
THEOREM PositionInvariance == Spec => []PositionInv
<1>1. PositionInv /\ [Next]_vars => PositionInv'
  BY PositionTypeStep, InHandStep, KnownStep, BookedOnceStep, CountedStep, MonitorStep
     DEF PositionInv
<1> QED BY <1>1, InitPosition, PTL DEF Spec

\* A fill found by the reconciler is booked once, but for lost bookings and status updates,
\* and a position is as large as the bookings in its market.
THEOREM FillsAreBooked == Spec => []FillsBooked
<1>1. PositionInv => FillsBooked
  BY DEF PositionInv, BookedOnce, Counted, FillsBooked
<1> QED BY <1>1, PositionInvariance, PTL

\* No step of the two loops moves a stop back.
THEOREM StopsOnlyTighten == Spec => StopNeverMovesBack
<1> DEFINE Kept ==
      \A m \in Market : LET old == position[m].stop  new == position'[m].stop IN
        old # 0 =>
          new # 0 /\ IF position[m].side = "buy" THEN new >= old ELSE new <= old
<1>1. ASSUME PositionInv, [Next]_vars PROVE [Kept]_vars
  <2>0. PositionTypeOK
    BY <1>1 DEF PositionInv
  <2>1. \A m \in Market : position[m].stop \in Nat
    BY <2>0 DEF PositionTypeOK, PositionRow
  <2>2. CASE UpsertPosition
    <3>1. \A m \in Market : position[m].stop # 0 => position'[m].stop = position[m].stop
      <4>1. NoPosition.stop = 0
        BY DEF NoPosition
      <4> QED BY <1>1, <2>2, <4>1, BookingWrites
    <3> QED BY <2>1, <3>1
  <2>3. ASSUME NEW m \in Market, CheckPosition(m) PROVE Kept
    <3>1. \A n \in Market : n # m => position'[n] = position[n]
      BY <1>1, <2>3, CheckWrites
    <3>2. position[m].stop # 0 =>
            /\ position'[m].stop # 0
            /\ IF position[m].side = "buy" THEN position'[m].stop >= position[m].stop
                                           ELSE position'[m].stop <= position[m].stop
      BY <1>1, <2>3, CheckWrites
    <3> QED BY <2>1, <3>1, <3>2
  <2>4. CASE position' = position
    BY <2>1, <2>4
  <2> HIDE DEF Kept
  <2> QED BY <1>1, <2>2, <2>3, <2>4, CloseWritesNothing
          DEF Next, Place, Trade, Poll, PollFails, GetOpenOrders, UpdateOrderStatus,
              UpsertFails, CheckFails, GetOpenPositions, ClosePosition, Restart, vars
<1> QED BY <1>1, PositionInvariance, PTL DEF Spec, StopNeverMovesBack
=============================================================================
