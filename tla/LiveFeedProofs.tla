--------------------------- MODULE LiveFeedProofs ---------------------------
(***************************************************************************)
(* What LiveFeed promises for any number of sockets, any events and any    *)
(* bounds.  The invariant has four parts that build on each other: the     *)
(* types; the life of a client at the hub; the life of a socket in the     *)
(* tab; and, for the one socket that feeds the store, the order of the     *)
(* events on their way.                                                    *)
(***************************************************************************)
EXTENDS LiveFeed, SequenceTheorems, TLAPS

\* A registered client is read, and a socket not yet served has no client.
Served ==
  \A c \in Conn : /\ c \in member => c \in reading
                  /\ link[c] = "none" => c \notin reading /\ closes[c] = 0

\* No socket while the component is away, unless a timer opened it; one that is closed
\* carries nothing.
Sockets ==
  /\ ~mounted /\ ~orphaned => \A c \in Conn : ~Live(c)
  /\ \A c \in Conn : ~Live(c) => link[c] # "up" /\ frames[c] = <<>>

\* What is on its way to socket c is later than what is shown, what is queued later than
\* what was sent, and what was sent later comes later.
Ordered(c) ==
  /\ \A m \in 1..Len(queue[c]) :
       /\ queue[c][m] <= pos
       /\ \A o \in Id : shown[o] < queue[c][m]
  /\ \A j \in 1..Len(frames[c]) : \A m \in 1..Len(frames[c][j]) :
       /\ frames[c][j][m] <= pos
       /\ \A o \in Id : shown[o] < frames[c][j][m]
       /\ \A n \in 1..Len(queue[c]) : frames[c][j][m] < queue[c][n]
       /\ \A k \in 1..Len(frames[c]) : j < k =>
            \A n \in 1..Len(frames[c][k]) : frames[c][j][m] < frames[c][k][n]

\* So it is for each socket that is alive, as long as none was left behind.
InOrder ==
  ~orphaned => /\ \A o \in Id : shown[o] <= pos
               /\ \A c \in Conn : Live(c) => Ordered(c)

-----------------------------------------------------------------------------
LEMMA PositionIsNat == Len(Published) \in Nat /\ Position \subseteq Nat \ {0}
  BY FeedAssumption DEF Position

LEMMA EventsAreNats ==
  ASSUME NEW s \in Seq(Position), NEW m \in 1..Len(s)
  PROVE  s[m] \in Nat
<1>1. s[m] \in Position
  OBVIOUS
<1> QED BY <1>1, PositionIsNat

\* Only what was published is on its way.
LEMMA CarriedStep ==
  ASSUME pos \in 0..Len(Published),
         queue \in [Conn -> Seq(Position)], frames \in [Conn -> Seq(Seq(Position))],
         [FeedNext]_feedVars
  PROVE  queue' \in [Conn -> Seq(Position)] /\ frames' \in [Conn -> Seq(Seq(Position))]
<1>0. ASSUME NEW C \in SUBSET Conn
      PROVE  FramesLess(C) \in [Conn -> Seq(Seq(Position))]
  BY DEF FramesLess
<1>1. ASSUME NEW m, NEW c \in Conn, NEW C \in SUBSET Conn, Connect(m, c, C)
      PROVE  queue' \in [Conn -> Seq(Position)] /\ frames' \in [Conn -> Seq(Seq(Position))]
  <2>1. queue' \in [Conn -> Seq(Position)]
    BY <1>1 DEF Connect
  <2> QED BY <1>0, <1>1, <2>1 DEF Connect
<1>2. CASE Forward
  <2>1. CASE StreamForEventType(Published[pos'].type) = "trade-events"
    <3>1. pos' \in Position
      BY <1>2, PositionIsNat DEF Forward, Position
    <3>2. Broadcast(pos')
      BY <1>2, <2>1 DEF Forward
    <3>3. queue' = [c \in Conn |-> IF c \in member \ {d \in member : Len(queue[d]) >= Buffer}
                                     THEN Append(queue[c], pos') ELSE queue[c]]
      BY <3>2 DEF Broadcast
    <3>4. \A c \in Conn : queue[c] \in Seq(Position) /\ Append(queue[c], pos') \in Seq(Position)
      BY <3>1
    <3>5. queue' \in [Conn -> Seq(Position)]
      BY <3>3, <3>4
    <3> QED BY <1>2, <3>5 DEF Forward
  <2>2. CASE StreamForEventType(Published[pos'].type) # "trade-events"
    BY <1>2, <2>2 DEF Forward, hubVars
  <2> QED BY <2>1, <2>2
<1>3. ASSUME NEW c \in Conn, WriteFrame(c)
      PROVE  queue' \in [Conn -> Seq(Position)] /\ frames' \in [Conn -> Seq(Seq(Position))]
  <2>1. Append(frames[c], queue[c]) \in Seq(Seq(Position))
    OBVIOUS
  <2>2. frames' = [frames EXCEPT ![c] = Append(frames[c], queue[c])]
        /\ queue' = [queue EXCEPT ![c] = <<>>]
    BY <1>3 DEF WriteFrame
  <2> QED BY <2>1, <2>2
<1>4. ASSUME NEW c \in Conn, OnMessage(c)
      PROVE  queue' \in [Conn -> Seq(Position)] /\ frames' \in [Conn -> Seq(Seq(Position))]
  <2>1. Tail(frames[c]) \in Seq(Seq(Position))
    BY <1>4 DEF OnMessage
  <2>2. frames' = [frames EXCEPT ![c] = Tail(frames[c])] /\ queue' = queue
    BY <1>4 DEF OnMessage, hubVars
  <2> QED BY <2>1, <2>2
<1>5. ASSUME NEW c \in Conn,
             ServeWs(c) \/ WriteEnds(c) \/ Drop(c) \/ OnOpen(c)
      PROVE  queue' = queue /\ frames' = frames
  BY <1>5 DEF ServeWs, WriteEnds, Drop, OnOpen, hubVars
<1>6. ASSUME NEW c \in Conn, Mount(c) \/ Render(c) \/ \E m \in Mounts : Reconnect(m, c)
      PROVE  queue' \in [Conn -> Seq(Position)] /\ frames' \in [Conn -> Seq(Seq(Position))]
  <2>1. {} \in SUBSET Conn /\ ToClose \in SUBSET Conn
    BY DEF ToClose
  <2>2. \/ Connect(mount + 1, c, {})
        \/ Connect(mount, c, ToClose)
        \/ \E m \in Mounts : Connect(m, c, {})
    BY <1>6 DEF Mount, Render, Reconnect
  <2>3. ASSUME NEW m \in Mounts, Connect(m, c, {})
        PROVE  queue' \in [Conn -> Seq(Position)] /\ frames' \in [Conn -> Seq(Seq(Position))]
    BY <1>1, <2>1, <2>3
  <2> QED BY <1>1, <2>1, <2>2, <2>3
<1>7. ASSUME NEW c \in Conn, OnClose(c)
      PROVE  queue' = queue /\ frames' \in [Conn -> Seq(Seq(Position))]
  BY <1>0, <1>7 DEF OnClose, hubVars
<1>8. ASSUME NEW c \in Conn, ReadEnds(c)
      PROVE  queue' \in [Conn -> Seq(Position)] /\ frames' = frames
  BY <1>8 DEF ReadEnds
<1>9. CASE Unmount
  <2>1. ToClose \in SUBSET Conn
    BY DEF ToClose
  <2> QED BY <1>0, <1>9, <2>1 DEF Unmount, hubVars
<1>10. CASE UNCHANGED feedVars
  BY <1>10 DEF feedVars, hubVars
<1> QED BY <1>2, <1>3, <1>4, <1>5, <1>6, <1>7, <1>8, <1>9, <1>10 DEF FeedNext

LEMMA ConnectTypes ==
  ASSUME FeedTypeOK, NEW m \in 0..MaxMounts, NEW c \in Conn, NEW C \in SUBSET Conn,
         Connect(m, c, C)
  PROVE  /\ sock' \in [Conn -> {"none", "connecting", "open", "closing"}]
         /\ link' \in [Conn -> {"none", "up", "cut"}]
         /\ closes' \in [Conn -> Nat]
         /\ owner' \in [Conn -> 0..MaxMounts]
         /\ current' \in Conn \cup {NoConn}
<1>1. Closing(C) \in [Conn -> {"none", "connecting", "open", "closing"}]
  BY DEF Closing, FeedTypeOK
<1>2. CutOf(C) \in [Conn -> {"none", "up", "cut"}]
  BY DEF CutOf, FeedTypeOK
<1> QED BY <1>1, <1>2 DEF Connect, FeedTypeOK

LEMMA BroadcastTypes ==
  ASSUME FeedTypeOK, NEW i, Broadcast(i)
  PROVE  closes' \in [Conn -> Nat] /\ member' \subseteq Conn
  BY DEF Broadcast, FeedTypeOK

\* What an event does to the store.
LEMMA StoreTypes ==
  ASSUME FeedTypeOK, NEW i \in Position, HandleEvent(i)
  PROVE  shown' \in [Id -> 0..Len(Published)] /\ executions' \in Seq(Position)
<1>1. Published[i].id \in Id /\ i \in 0..Len(Published)
  BY PositionIsNat DEF Id, Position
<1>2. AddExecution(i) \in Seq(Position)
  BY DEF AddExecution, FeedTypeOK
<1>3. shown \in [Id -> 0..Len(Published)] /\ executions \in Seq(Position)
  BY DEF FeedTypeOK
<1>4. [shown EXCEPT ![Published[i].id] = i] \in [Id -> 0..Len(Published)]
  BY <1>1, <1>3
<1>5. \/ executions' = AddExecution(i) /\ shown' = shown
      \/ shown' = [shown EXCEPT ![Published[i].id] = i] /\ executions' = executions
      \/ shown' = shown /\ executions' = executions
  BY DEF HandleEvent, storeVars
<1> QED BY <1>2, <1>3, <1>4, <1>5

\* Every variable keeps its type, for any sockets, events and bounds.
THEOREM FeedTypes == FeedSpec => []FeedTypeOK
<1>1. FeedInit => FeedTypeOK
  <2> SUFFICES ASSUME FeedInit PROVE FeedTypeOK
    OBVIOUS
  <2>1. 0 \in 0..Len(Published) /\ 0 \in 0..MaxTimers /\ 0 \in 0..MaxMounts
    BY FeedAssumption, PositionIsNat
  <2>2. shown \in [Id -> 0..Len(Published)] /\ executions \in Seq(Position)
    BY <2>1 DEF FeedInit
  <2>3. /\ frames \in [Conn -> Seq(Seq(Position))]
        /\ queue \in [Conn -> Seq(Position)]
    BY DEF FeedInit
  <2> QED BY <2>1, <2>2, <2>3 DEF FeedInit, FeedTypeOK
<1>2. FeedTypeOK /\ [FeedNext]_feedVars => FeedTypeOK'
  <2> SUFFICES ASSUME FeedTypeOK, [FeedNext]_feedVars PROVE FeedTypeOK'
    OBVIOUS
  <2> USE FeedAssumption, PositionIsNat
  <2>0. queue' \in [Conn -> Seq(Position)] /\ frames' \in [Conn -> Seq(Seq(Position))]
    BY CarriedStep DEF FeedTypeOK
  <2>1. CASE Forward
    <3>1. pos' \in 0..Len(Published)
      BY <2>1 DEF Forward, FeedTypeOK
    <3>2. closes' \in [Conn -> Nat] /\ member' \subseteq Conn
      BY <2>1, BroadcastTypes DEF Forward, FeedTypeOK, hubVars
    <3> QED BY <2>0, <2>1, <3>1, <3>2 DEF Forward, FeedTypeOK, hookVars, mountVars, storeVars
  <2>2. ASSUME NEW c \in Conn, ServeWs(c) PROVE FeedTypeOK'
    BY <2>0, <2>2 DEF ServeWs, FeedTypeOK, hookVars, mountVars, storeVars
  <2>3. ASSUME NEW c \in Conn, WriteFrame(c) PROVE FeedTypeOK'
    BY <2>0, <2>3 DEF WriteFrame, FeedTypeOK, hookVars, mountVars, storeVars
  <2>4. ASSUME NEW c \in Conn, WriteEnds(c) PROVE FeedTypeOK'
    BY <2>0, <2>4 DEF WriteEnds, FeedTypeOK, hookVars, mountVars, storeVars, hubVars
  <2>5. ASSUME NEW c \in Conn, ReadEnds(c) PROVE FeedTypeOK'
    <3>1. closes' \in [Conn -> Nat] /\ member' \subseteq Conn
      BY <2>5 DEF ReadEnds, Leave, FeedTypeOK
    <3> QED BY <2>0, <2>5, <3>1 DEF ReadEnds, FeedTypeOK, hookVars, mountVars, storeVars
  <2>6. ASSUME NEW c \in Conn, Drop(c) PROVE FeedTypeOK'
    BY <2>0, <2>6 DEF Drop, FeedTypeOK, hookVars, mountVars, storeVars, hubVars
  <2>7. ASSUME NEW c \in Conn, Mount(c) PROVE FeedTypeOK'
    <3>1. mount + 1 \in 0..MaxMounts /\ Connect(mount + 1, c, {})
      BY <2>7 DEF Mount, FeedTypeOK
    <3>2. /\ sock' \in [Conn -> {"none", "connecting", "open", "closing"}]
          /\ link' \in [Conn -> {"none", "up", "cut"}]
          /\ closes' \in [Conn -> Nat]
          /\ owner' \in [Conn -> 0..MaxMounts]
          /\ current' \in Conn \cup {NoConn}
      BY <3>1, ConnectTypes
    <3> QED BY <2>0, <2>7, <3>1, <3>2 DEF Mount, FeedTypeOK, storeVars
  <2>8. ASSUME NEW c \in Conn, Render(c) PROVE FeedTypeOK'
    <3>1. ToClose \in SUBSET Conn /\ mount \in 0..MaxMounts
      BY DEF ToClose, FeedTypeOK
    <3>2. Connect(mount, c, ToClose)
      BY <2>8 DEF Render
    <3>3. /\ sock' \in [Conn -> {"none", "connecting", "open", "closing"}]
          /\ link' \in [Conn -> {"none", "up", "cut"}]
          /\ closes' \in [Conn -> Nat]
          /\ owner' \in [Conn -> 0..MaxMounts]
          /\ current' \in Conn \cup {NoConn}
      BY <3>1, <3>2, ConnectTypes
    <3>4. count' \in [Mounts -> Nat]
      BY <2>8 DEF Render, FeedTypeOK
    <3> QED BY <2>0, <2>8, <3>3, <3>4 DEF Render, FeedTypeOK, mountVars, storeVars
  <2>9. ASSUME NEW m \in Mounts, NEW c \in Conn, Reconnect(m, c) PROVE FeedTypeOK'
    <3>1. Connect(m, c, {}) /\ m \in 0..MaxMounts
      BY <2>9 DEF Reconnect, Mounts
    <3>2. /\ sock' \in [Conn -> {"none", "connecting", "open", "closing"}]
          /\ link' \in [Conn -> {"none", "up", "cut"}]
          /\ closes' \in [Conn -> Nat]
          /\ owner' \in [Conn -> 0..MaxMounts]
          /\ current' \in Conn \cup {NoConn}
      BY <3>1, ConnectTypes
    <3>3. timers' \in [Mounts -> 0..MaxTimers] /\ count' \in [Mounts -> Nat]
      <4>1. /\ timers \in [Mounts -> 0..MaxTimers] /\ count \in [Mounts -> Nat]
            /\ timers[m] > 0 /\ timers' = [timers EXCEPT ![m] = timers[m] - 1]
            /\ count' = [count EXCEPT ![m] = count[m] + 1]
        BY <2>9 DEF Reconnect, FeedTypeOK
      <4>2. timers[m] - 1 \in 0..MaxTimers /\ count[m] + 1 \in Nat
        BY <4>1
      <4> QED BY <4>1, <4>2
    <3>4. orphaned' \in BOOLEAN
      BY <2>9 DEF Reconnect, FeedTypeOK, Here
    <3> QED BY <2>0, <2>9, <3>2, <3>3, <3>4 DEF Reconnect, FeedTypeOK, mountVars, storeVars
  <2>10. ASSUME NEW c \in Conn, OnOpen(c) PROVE FeedTypeOK'
    BY <2>0, <2>10 DEF OnOpen, FeedTypeOK, mountVars, hubVars, storeVars
  <2>11. ASSUME NEW c \in Conn, OnMessage(c) PROVE FeedTypeOK'
    <3>1. shown' \in [Id -> 0..Len(Published)] /\ executions' \in Seq(Position)
      <4>1. CASE Len(Head(frames[c])) = 1
        <5>1. Head(frames[c]) \in Seq(Position)
          BY <2>11 DEF OnMessage, FeedTypeOK
        <5>2. Head(frames[c])[1] \in Position
          BY <4>1, <5>1
        <5> QED BY <2>11, <4>1, <5>2, StoreTypes DEF OnMessage
      <4>2. CASE Len(Head(frames[c])) # 1
        BY <2>11, <4>2 DEF OnMessage, FeedTypeOK, storeVars
      <4> QED BY <4>1, <4>2
    <3> QED BY <2>0, <2>11, <3>1 DEF OnMessage, FeedTypeOK, hubVars, hookVars, mountVars
  <2>12. ASSUME NEW c \in Conn, OnClose(c) PROVE FeedTypeOK'
    <3>1. timers' \in [Mounts -> 0..MaxTimers]
      <4> DEFINE m == owner[c]
      <4>1. /\ timers \in [Mounts -> 0..MaxTimers]
            /\ \/ timers' = timers
               \/ timers[m] < MaxTimers /\ timers' = [timers EXCEPT ![m] = timers[m] + 1]
        BY <2>12 DEF OnClose, FeedTypeOK, Armed
      <4>2. CASE m \in Mounts /\ timers' # timers
        <5>1. timers[m] + 1 \in 0..MaxTimers
          BY <4>1, <4>2
        <5> QED BY <4>1, <4>2, <5>1
      <4>3. CASE m \notin Mounts
        <5>1. [timers EXCEPT ![m] = timers[m] + 1] = timers
          BY <4>1, <4>3
        <5> QED BY <4>1, <5>1
      <4>4. CASE timers' = timers
        BY <4>1, <4>4
      <4> QED BY <4>2, <4>3, <4>4
    <3>2. /\ sock' \in [Conn -> {"none", "connecting", "open", "closing"}]
          /\ owner' \in [Conn -> 0..MaxMounts]
      BY <2>12 DEF OnClose, FeedTypeOK
    <3> QED BY <2>0, <2>12, <3>1, <3>2 DEF OnClose, FeedTypeOK, mountVars, hubVars, storeVars
  <2>13. CASE Unmount
    <3>1. /\ Closing(ToClose) \in [Conn -> {"none", "connecting", "open", "closing"}]
          /\ CutOf(ToClose) \in [Conn -> {"none", "up", "cut"}]
      BY DEF Closing, CutOf, FeedTypeOK
    <3>2. count' \in [Mounts -> Nat]
      BY <2>13 DEF Unmount, FeedTypeOK
    <3> QED BY <2>0, <2>13, <3>1, <3>2 DEF Unmount, FeedTypeOK, hubVars, storeVars
  <2>14. CASE UNCHANGED feedVars
    BY <2>14 DEF FeedTypeOK, feedVars, hookVars, mountVars, hubVars, storeVars
  <2> QED BY <2>1, <2>2, <2>3, <2>4, <2>5, <2>6, <2>7, <2>8, <2>9, <2>10, <2>11, <2>12,
             <2>13, <2>14 DEF FeedNext
<1> QED BY <1>1, <1>2, PTL DEF FeedSpec

-----------------------------------------------------------------------------
(* The clients at the hub. *)

\* The part of the state the hub's invariant is about.
HubInv == Served /\ ClosedOnce

LEMMA ConnectHub ==
  ASSUME FeedTypeOK, HubInv, NEW m, NEW c \in Conn, NEW C \in SUBSET Conn, Connect(m, c, C),
         member' = member, reading' = reading
  PROVE  HubInv'
<1>1. c \notin reading /\ c \notin member
  BY DEF Connect, Free, HubInv, Served
<1>2. closes' = [closes EXCEPT ![c] = 0] /\ closes \in [Conn -> Nat]
  BY DEF Connect, FeedTypeOK
<1>3. \A d \in Conn : link'[d] = "none" => d = c \/ link[d] = "none"
  BY DEF Connect, CutOf, FeedTypeOK
<1>4. Served'
  BY <1>1, <1>2, <1>3 DEF HubInv, Served
<1>5. ClosedOnce'
  BY <1>1, <1>2 DEF HubInv, ClosedOnce
<1> QED BY <1>4, <1>5 DEF HubInv

\* The hub closes the channel of no client twice, and of none that is still registered.
THEOREM HubClosesOnce == FeedSpec => []ClosedOnce
<1>1. FeedInit => HubInv
  BY DEF FeedInit, HubInv, Served, ClosedOnce
<1>2. FeedTypeOK /\ HubInv /\ [FeedNext]_feedVars => HubInv'
  <2> SUFFICES ASSUME FeedTypeOK, HubInv, [FeedNext]_feedVars PROVE HubInv'
    OBVIOUS
  <2>0. /\ closes \in [Conn -> Nat] /\ member \subseteq Conn
        /\ link \in [Conn -> {"none", "up", "cut"}]
    BY DEF FeedTypeOK
  <2>1. CASE Forward
    <3>1. CASE UNCHANGED hubVars
      BY <2>1, <3>1 DEF Forward, hubVars, HubInv, Served, ClosedOnce
    <3>2. ASSUME NEW i, Broadcast(i) PROVE HubInv'
      <4> DEFINE full == {c \in member : Len(queue[c]) >= Buffer}
      <4>1. /\ closes' = [c \in Conn |-> IF c \in full THEN closes[c] + 1 ELSE closes[c]]
            /\ member' = member \ full
        BY <3>2 DEF Broadcast
      <4>2. link' = link /\ reading' = reading
        BY <2>1 DEF Forward
      <4>3. full \subseteq member
        OBVIOUS
      <4> HIDE DEF full
      <4>4. Served'
        BY <2>0, <4>1, <4>2, <4>3 DEF HubInv, Served
      <4>5. ClosedOnce'
        BY <2>0, <4>1, <4>3 DEF HubInv, ClosedOnce
      <4> QED BY <4>4, <4>5 DEF HubInv
    <3> QED BY <2>1, <3>1, <3>2 DEF Forward
  <2>2. ASSUME NEW c \in Conn, ServeWs(c) PROVE HubInv'
    <3>1. closes[c] = 0
      BY <2>2 DEF ServeWs, HubInv, Served
    <3> QED BY <2>0, <2>2, <3>1 DEF ServeWs, HubInv, Served, ClosedOnce
  <2>3. ASSUME NEW c \in Conn, WriteFrame(c) PROVE HubInv'
    BY <2>3 DEF WriteFrame, HubInv, Served, ClosedOnce
  <2>4. ASSUME NEW c \in Conn, WriteEnds(c) PROVE HubInv'
    BY <2>0, <2>4 DEF WriteEnds, hubVars, HubInv, Served, ClosedOnce
  <2>5. ASSUME NEW c \in Conn, ReadEnds(c) PROVE HubInv'
    <3>1. member' = member \ {c} /\ link' = link
          /\ reading' = reading \ {c}
          /\ closes' = IF c \in member THEN [closes EXCEPT ![c] = closes[c] + 1] ELSE closes
      BY <2>5 DEF ReadEnds, Leave
    <3>2. link[c] = "cut"
      BY <2>5 DEF ReadEnds
    <3>3. Served'
      BY <2>0, <3>1, <3>2 DEF HubInv, Served
    <3>4. ClosedOnce'
      BY <2>0, <3>1 DEF HubInv, ClosedOnce
    <3> QED BY <3>3, <3>4 DEF HubInv
  <2>6. ASSUME NEW c \in Conn, Drop(c) PROVE HubInv'
    BY <2>0, <2>6 DEF Drop, hubVars, HubInv, Served, ClosedOnce
  <2>7. ASSUME NEW c \in Conn, Mount(c) \/ Render(c) \/ \E m \in Mounts : Reconnect(m, c)
        PROVE  HubInv'
    <3>1. {} \in SUBSET Conn /\ ToClose \in SUBSET Conn
      BY DEF ToClose
    <3>2. member' = member /\ reading' = reading
      BY <2>7 DEF Mount, Render, Reconnect
    <3>3. \/ Connect(mount + 1, c, {})
          \/ Connect(mount, c, ToClose)
          \/ \E m \in Mounts : Connect(m, c, {})
      BY <2>7 DEF Mount, Render, Reconnect
    <3>4. ASSUME NEW m \in Mounts, Connect(m, c, {}) PROVE HubInv'
      BY <3>1, <3>2, <3>4, ConnectHub
    <3>5. CASE Connect(mount + 1, c, {})
      BY <3>1, <3>2, <3>5, ConnectHub
    <3>6. CASE Connect(mount, c, ToClose)
      BY <3>1, <3>2, <3>6, ConnectHub
    <3> QED BY <3>3, <3>4, <3>5, <3>6
  <2>8. ASSUME NEW c \in Conn, OnOpen(c) \/ OnMessage(c) \/ OnClose(c) PROVE HubInv'
    BY <2>8 DEF OnOpen, OnMessage, OnClose, hubVars, HubInv, Served, ClosedOnce
  <2>9. CASE Unmount
    BY <2>0, <2>9 DEF Unmount, CutOf, hubVars, HubInv, Served, ClosedOnce
  <2>10. CASE UNCHANGED feedVars
    BY <2>10 DEF feedVars, hubVars, HubInv, Served, ClosedOnce
  <2> QED BY <2>1, <2>2, <2>3, <2>4, <2>5, <2>6, <2>7, <2>8, <2>9, <2>10
          DEF FeedNext
<1>3. HubInv => ClosedOnce
  BY DEF HubInv
<1> QED BY <1>1, <1>2, <1>3, FeedTypes, PTL DEF FeedSpec

-----------------------------------------------------------------------------
(* The sockets of the tab. *)

SocketInv == Sockets /\ SingleFeed

LEMMA ConnectSockets ==
  ASSUME FeedTypeOK, Sockets, NEW m, NEW c \in Conn, NEW C \in SUBSET Conn, Connect(m, c, C)
  PROVE  /\ \A d \in Conn : Live(d)' <=> d = c \/ (Live(d) /\ d \notin C)
         /\ \A d \in Conn : ~Live(d)' => link'[d] # "up" /\ frames'[d] = <<>>
         /\ current' = IF m >= mount THEN c ELSE current
<1>0. /\ sock \in [Conn -> {"none", "connecting", "open", "closing"}]
      /\ link \in [Conn -> {"none", "up", "cut"}]
  BY DEF FeedTypeOK
<1>1. /\ sock' = [Closing(C) EXCEPT ![c] = "connecting"]
      /\ link' = [CutOf(C) EXCEPT ![c] = "none"]
      /\ frames' = FramesLess(C)
      /\ current' = IF m >= mount THEN c ELSE current
  BY DEF Connect
<1>2. \A d \in Conn : /\ sock'[d] = IF d = c THEN "connecting"
                                    ELSE IF d \in C THEN "closing" ELSE sock[d]
                      /\ d # c => link'[d] = IF d \in C /\ link[d] = "up" THEN "cut"
                                             ELSE link[d]
                      /\ frames'[d] = IF d \in C THEN <<>> ELSE frames[d]
  BY <1>1 DEF Closing, CutOf, FramesLess
<1>3. \A d \in Conn : d # NoConn
  BY FeedAssumption
<1>4. \A d \in Conn : Live(d)' <=> d = c \/ (Live(d) /\ d \notin C)
  BY <1>2, <1>3 DEF Live
<1>5. \A d \in Conn : ~Live(d)' => link'[d] # "up" /\ frames'[d] = <<>>
  BY <1>2, <1>4 DEF Sockets
<1> QED BY <1>1, <1>4, <1>5

\* No step opens a second socket, but a timer.
LEMMA SocketStep ==
  ASSUME FeedTypeOK, SocketInv, [FeedNext]_feedVars
  PROVE  SocketInv'
<1>0. /\ sock \in [Conn -> {"none", "connecting", "open", "closing"}]
      /\ link \in [Conn -> {"none", "up", "cut"}]
      /\ frames \in [Conn -> Seq(Seq(Position))]
      /\ NoConn \notin Conn
  BY FeedAssumption DEF FeedTypeOK
<1>00. Sockets /\ SingleFeed
  BY DEF SocketInv
<1>1. CASE Forward \/ UNCHANGED feedVars
  BY <1>1, <1>00 DEF Forward, feedVars, hookVars, mountVars, SocketInv, Sockets, SingleFeed, Live
<1>2. ASSUME NEW c \in Conn, ServeWs(c) PROVE SocketInv'
  BY <1>0, <1>00, <1>2 DEF ServeWs, hookVars, mountVars, SocketInv, Sockets, SingleFeed, Live
<1>3. ASSUME NEW c \in Conn, WriteFrame(c) PROVE SocketInv'
  <2>1. Live(c)
    BY <1>00, <1>3 DEF WriteFrame, Sockets
  <2>2. sock' = sock /\ link' = link /\ UNCHANGED hookVars
        /\ frames' = [frames EXCEPT ![c] = Append(frames[c], queue[c])]
    BY <1>3 DEF WriteFrame
  <2> QED BY <1>0, <1>00, <2>1, <2>2 DEF hookVars, mountVars, SocketInv, Sockets, SingleFeed, Live
<1>4. ASSUME NEW c \in Conn, WriteEnds(c) \/ Drop(c) PROVE SocketInv'
  BY <1>0, <1>00, <1>4 DEF WriteEnds, Drop, hookVars, mountVars, SocketInv, Sockets, SingleFeed, Live
<1>5. ASSUME NEW c \in Conn, ReadEnds(c) PROVE SocketInv'
  BY <1>00, <1>5 DEF ReadEnds, hookVars, mountVars, SocketInv, Sockets, SingleFeed, Live
<1>6. ASSUME NEW c \in Conn, Mount(c) PROVE SocketInv'
  <2>1. /\ Connect(mount + 1, c, {}) /\ {} \in SUBSET Conn /\ mounted' = TRUE
        /\ orphaned' = orphaned /\ mount + 1 >= mount /\ ~mounted
    BY <1>6 DEF Mount, FeedTypeOK
  <2>2. ~orphaned => \A d \in Conn : ~Live(d)
    BY <1>00, <2>1 DEF Sockets
  <2> QED BY <1>00, <2>1, <2>2, ConnectSockets DEF SocketInv, Sockets, SingleFeed
<1>7. ASSUME NEW c \in Conn, Render(c) PROVE SocketInv'
  <2>1. /\ Connect(mount, c, ToClose) /\ ToClose \in SUBSET Conn /\ mounted' = TRUE
        /\ orphaned' = orphaned /\ mount >= mount
    BY <1>7 DEF Render, ToClose, mountVars, FeedTypeOK
  <2>2. \A d \in Conn : ~orphaned /\ Live(d) => d \in ToClose
    BY <1>00 DEF SingleFeed, ToClose
  <2> QED BY <1>00, <2>1, <2>2, ConnectSockets DEF SocketInv, Sockets, SingleFeed
<1>8. ASSUME NEW m \in Mounts, NEW c \in Conn, Reconnect(m, c) PROVE SocketInv'
  <2>0. /\ Connect(m, c, {}) /\ {} \in SUBSET Conn
        /\ orphaned' = (orphaned \/ Live(current) \/ ~Here(m))
        /\ mounted' = mounted /\ mount' = mount
    BY <1>8 DEF Reconnect, mountVars
  <2>1. ~orphaned' => ~orphaned /\ ~Live(current) /\ mounted /\ m = mount
    BY <2>0 DEF Here
  <2>2. \A d \in Conn : ~orphaned' => ~Live(d)
    BY <1>00, <2>1 DEF SingleFeed
  <2>3. m = mount => current' = c
    <3>1. mount >= mount
      BY DEF FeedTypeOK
    <3> QED BY <2>0, <3>1 DEF Connect
  <2> QED BY <1>00, <2>0, <2>1, <2>2, <2>3, ConnectSockets DEF SocketInv, Sockets, SingleFeed
<1>9. ASSUME NEW c \in Conn, OnOpen(c) PROVE SocketInv'
  BY <1>0, <1>00, <1>9 DEF OnOpen, mountVars, SocketInv, Sockets, SingleFeed, Live
<1>10. ASSUME NEW c \in Conn, OnMessage(c) PROVE SocketInv'
  <2>1. Live(c)
    BY <1>0, <1>10 DEF OnMessage, Live
  <2>2. sock' = sock /\ link' = link /\ UNCHANGED hookVars
        /\ frames' = [frames EXCEPT ![c] = Tail(frames[c])]
    BY <1>10 DEF OnMessage
  <2> QED BY <1>0, <1>00, <2>1, <2>2 DEF hookVars, mountVars, SocketInv, Sockets, SingleFeed, Live
<1>11. ASSUME NEW c \in Conn, OnClose(c) PROVE SocketInv'
  <2>1. link[c] # "up"
    BY <1>00, <1>11 DEF OnClose, Sockets, Live
  <2>2. sock' = [sock EXCEPT ![c] = "none"] /\ link' = link /\ mounted' = mounted
        /\ current' = (IF c = current THEN NoConn ELSE current)
        /\ orphaned' = orphaned /\ frames' = FramesLess({c})
    BY <1>11 DEF OnClose, mountVars
  <2>4. \A d \in Conn : /\ sock'[d] = IF d = c THEN "none" ELSE sock[d]
                        /\ frames'[d] = IF d = c THEN <<>> ELSE frames[d]
    BY <1>0, <2>2 DEF FramesLess
  <2>5. \A d \in Conn : Live(d)' <=> d # c /\ Live(d)
    BY <1>0, <2>4 DEF Live
  <2> QED BY <1>00, <2>1, <2>2, <2>4, <2>5 DEF SocketInv, Sockets, SingleFeed
<1>12. CASE Unmount
  <2>1. /\ sock' = Closing(ToClose) /\ link' = CutOf(ToClose)
        /\ frames' = FramesLess(ToClose) /\ mounted' = FALSE
        /\ current' = current /\ orphaned' = orphaned
    BY <1>12 DEF Unmount
  <2>2. \A d \in Conn : Live(d)' => Live(d) /\ d \notin ToClose
    BY <1>0, <2>1 DEF Live, Closing
  <2>3. \A d \in Conn : ~Live(d)' => ~Live(d) \/ d \in ToClose
    BY <1>0, <2>1 DEF Live, Closing
  <2>4. \A d \in Conn : ~Live(d)' => link'[d] # "up" /\ frames'[d] = <<>>
    BY <1>00, <2>1, <2>3 DEF Sockets, CutOf, FramesLess
  <2>5. \A d \in Conn : ~orphaned => ~Live(d)'
    BY <1>00, <2>2 DEF SingleFeed, ToClose
  <2> QED BY <1>00, <2>1, <2>2, <2>4, <2>5 DEF SocketInv, Sockets, SingleFeed
<1> QED BY <1>1, <1>2, <1>3, <1>4, <1>5, <1>6, <1>7, <1>8, <1>9, <1>10, <1>11, <1>12
        DEF FeedNext

\* Each socket that is alive and no timer overtook is the current one.
THEOREM OneSocketFeeds == FeedSpec => []SingleFeed
<1>1. FeedInit => SocketInv
  BY DEF FeedInit, SocketInv, Sockets, SingleFeed, Live
<1>2. SocketInv => SingleFeed
  BY DEF SocketInv
<1> QED BY <1>1, <1>2, SocketStep, FeedTypes, PTL DEF FeedSpec

-----------------------------------------------------------------------------
(* The store. *)

\* An execution is added only under an id that no execution shown has.
LEMMA AddedOnce ==
  ASSUME executions \in Seq(Position), ExecutionsOnce, NEW i \in Position,
         executions' = AddExecution(i)
  PROVE  ExecutionsOnce'
<1>1. CASE executions' = executions
  BY <1>1 DEF ExecutionsOnce, ExecutionsFeed
<1>2. CASE executions' = Append(executions, i)
           /\ \A k \in DOMAIN executions : Published[executions[k]].id # Published[i].id
  <2>1. \A k \in DOMAIN executions' :
          executions'[k] = IF k \in DOMAIN executions THEN executions[k] ELSE i
    BY <1>2
  <2>2. \A j, k \in DOMAIN executions' :
          j \notin DOMAIN executions /\ k \notin DOMAIN executions => j = k
    BY <1>2
  <2>3. \A j, k \in DOMAIN executions :
          Published[executions[j]].id = Published[executions[k]].id => j = k
    BY DEF ExecutionsOnce, ExecutionsFeed
  <2>4. \A j, k \in DOMAIN executions' :
          Published[executions'[j]].id = Published[executions'[k]].id => j = k
    BY <1>2, <2>1, <2>2, <2>3
  <2> QED BY <2>4 DEF ExecutionsOnce, ExecutionsFeed
<1> QED BY <1>1, <1>2 DEF AddExecution

\* No execution is listed twice.
THEOREM ExecutionsShownOnce == FeedSpec => []ExecutionsOnce
<1>1. FeedInit => ExecutionsOnce
  BY DEF FeedInit, ExecutionsOnce, ExecutionsFeed
<1>2. FeedTypeOK /\ ExecutionsOnce /\ [FeedNext]_feedVars => ExecutionsOnce'
  <2> SUFFICES ASSUME FeedTypeOK, ExecutionsOnce, [FeedNext]_feedVars PROVE ExecutionsOnce'
    OBVIOUS
  <2>1. CASE executions' = executions
    BY <2>1 DEF ExecutionsOnce, ExecutionsFeed
  <2>2. ASSUME NEW c \in Conn, OnMessage(c), executions' # executions PROVE ExecutionsOnce'
    <3>1. Len(Head(frames[c])) = 1 /\ HandleEvent(Head(frames[c])[1])
      BY <2>2 DEF OnMessage, storeVars
    <3>2. Head(frames[c]) \in Seq(Position)
      BY <2>2 DEF OnMessage, FeedTypeOK
    <3>3. Head(frames[c])[1] \in Position
      BY <3>1, <3>2
    <3>4. executions' = AddExecution(Head(frames[c])[1])
      BY <2>2, <3>1 DEF HandleEvent, storeVars
    <3> QED BY <3>3, <3>4, AddedOnce DEF FeedTypeOK
  <2> QED BY <2>1, <2>2 DEF FeedNext, feedVars, storeVars, Forward, ServeWs, WriteFrame, WriteEnds,
             ReadEnds, Drop, Mount, Render, Reconnect, OnOpen, OnClose, Unmount
<1> QED BY <1>1, <1>2, FeedTypes, PTL DEF FeedSpec

-----------------------------------------------------------------------------
(* The order of what is shown. *)

LEMMA OrderedStays ==
  ASSUME NEW c \in Conn, Ordered(c), queue'[c] = queue[c], frames'[c] = frames[c],
         shown' = shown, pos' = pos
  PROVE  Ordered(c)'
  BY DEF Ordered

\* A step that leaves the store and the publisher alone, closes sockets at most, and opens
\* none but with nothing on its way.
LEMMA InOrderStays ==
  ASSUME FeedTypeOK, InOrder, shown' = shown, pos' = pos, orphaned' \/ ~orphaned,
         \A c \in Conn : Live(c)' => \/ /\ Live(c) /\ queue'[c] \in {queue[c], <<>>}
                                        /\ frames'[c] = frames[c]
                                     \/ queue'[c] = <<>> /\ frames'[c] = <<>>
  PROVE  InOrder'
<1>1. ASSUME NEW c \in Conn, queue'[c] = <<>>, frames'[c] = <<>> PROVE Ordered(c)'
  BY <1>1 DEF Ordered
<1>2. ASSUME NEW c \in Conn, Ordered(c), queue'[c] = <<>>, frames'[c] = frames[c]
      PROVE  Ordered(c)'
  BY <1>2 DEF Ordered
<1> QED BY <1>1, <1>2, OrderedStays DEF InOrder

\* What is published next is later than all of it.
LEMMA ForwardInOrder ==
  ASSUME FeedTypeOK, InOrder, Forward
  PROVE  InOrder'
<1>1. /\ pos' = pos + 1 /\ pos \in Nat /\ shown' = shown /\ frames' = frames
      /\ orphaned' = orphaned /\ sock' = sock
  BY PositionIsNat DEF Forward, storeVars, hookVars, FeedTypeOK
<1>2. /\ \A o \in Id : shown[o] \in Nat
      /\ queue \in [Conn -> Seq(Position)] /\ frames \in [Conn -> Seq(Seq(Position))]
  BY PositionIsNat DEF FeedTypeOK
<1>3. \A c \in Conn : queue'[c] = queue[c] \/ queue'[c] = Append(queue[c], pos')
  BY DEF Forward, Broadcast, hubVars
<1>4. ASSUME NEW c \in Conn, Ordered(c), \A o \in Id : shown[o] <= pos PROVE Ordered(c)'
  <2>0. \A j \in 1..Len(frames[c]) : \A m \in 1..Len(frames[c][j]) : frames[c][j][m] \in Nat
    <3>1. \A j \in 1..Len(frames[c]) : frames[c][j] \in Seq(Position)
      BY <1>2
    <3> QED BY <3>1, EventsAreNats
  <2>1. \A m \in 1..Len(queue'[c]) :
          \/ m \in 1..Len(queue[c]) /\ queue'[c][m] = queue[c][m] /\ queue[c][m] \in Nat
          \/ queue'[c][m] = pos'
    <3>1. queue[c] \in Seq(Position)
      BY <1>2
    <3>2. \A m \in 1..Len(queue[c]) : queue[c][m] \in Nat
      BY <3>1, EventsAreNats
    <3>3. CASE queue'[c] = queue[c]
      BY <3>2, <3>3
    <3>4. CASE queue'[c] = Append(queue[c], pos')
      BY <3>1, <3>2, <3>4
    <3> QED BY <1>3, <3>3, <3>4
  <2>2. \A m \in 1..Len(queue'[c]) :
          /\ queue'[c][m] <= pos'
          /\ \A o \in Id : shown'[o] < queue'[c][m]
    <3>1. \A m \in 1..Len(queue[c]) : queue[c][m] <= pos /\ \A o \in Id : shown[o] < queue[c][m]
      BY <1>4 DEF Ordered
    <3>2. \A m \in 1..Len(queue'[c]) : queue'[c][m] <= pos'
      BY <1>1, <2>1, <3>1
    <3>3. ASSUME NEW m \in 1..Len(queue'[c]), NEW o \in Id PROVE shown[o] < queue'[c][m]
      <4>1. CASE queue'[c][m] = pos'
        BY <1>1, <1>2, <1>4, <4>1
      <4>2. CASE m \in 1..Len(queue[c]) /\ queue'[c][m] = queue[c][m]
        BY <3>1, <4>2
      <4> QED BY <2>1, <4>1, <4>2
    <3> QED BY <1>1, <3>2, <3>3
  <2>3. \A j \in 1..Len(frames[c]) : \A m \in 1..Len(frames[c][j]) :
          \A n \in 1..Len(queue'[c]) : frames[c][j][m] < queue'[c][n]
    <3>1. \A j \in 1..Len(frames[c]) : \A m \in 1..Len(frames[c][j]) :
            /\ frames[c][j][m] <= pos
            /\ \A n \in 1..Len(queue[c]) : frames[c][j][m] < queue[c][n]
      BY <1>4 DEF Ordered
    <3>2. ASSUME NEW j \in 1..Len(frames[c]), NEW m \in 1..Len(frames[c][j]),
                 NEW n \in 1..Len(queue'[c])
          PROVE  frames[c][j][m] < queue'[c][n]
      <4>1. CASE queue'[c][n] = pos'
        BY <1>1, <2>0, <3>1, <4>1
      <4>2. CASE n \in 1..Len(queue[c]) /\ queue'[c][n] = queue[c][n]
        BY <3>1, <4>2
      <4> QED BY <2>1, <4>1, <4>2
    <3> QED BY <3>2
  <2>4. \A j \in 1..Len(frames[c]) : \A m \in 1..Len(frames[c][j]) :
          frames[c][j][m] <= pos'
    BY <1>1, <1>4, <2>0 DEF Ordered
  <2>5. \A j \in 1..Len(frames[c]) : \A m \in 1..Len(frames[c][j]) :
          /\ \A o \in Id : shown[o] < frames[c][j][m]
          /\ \A k \in 1..Len(frames[c]) : j < k =>
               \A n \in 1..Len(frames[c][k]) : frames[c][j][m] < frames[c][k][n]
    BY <1>4 DEF Ordered
  <2>6. \A j \in 1..Len(frames[c]) : \A m \in 1..Len(frames[c][j]) :
          /\ frames[c][j][m] <= pos'
          /\ \A o \in Id : shown[o] < frames[c][j][m]
          /\ \A n \in 1..Len(queue'[c]) : frames[c][j][m] < queue'[c][n]
          /\ \A k \in 1..Len(frames[c]) : j < k =>
               \A n \in 1..Len(frames[c][k]) : frames[c][j][m] < frames[c][k][n]
    BY <2>3, <2>4, <2>5
  <2>7. frames' = frames /\ shown' = shown
    BY <1>1
  <2> QED BY <2>2, <2>6, <2>7 DEF Ordered
<1>5. \A o \in Id : shown[o] <= pos => shown'[o] <= pos'
  BY <1>1, <1>2
<1>6. \A c \in Conn : Live(c)' => Live(c)
  BY <1>1 DEF Live
<1> QED BY <1>1, <1>4, <1>5, <1>6 DEF InOrder

\* A frame takes all that is queued, and goes last.
LEMMA WriteInOrder ==
  ASSUME FeedTypeOK, NEW c \in Conn, Ordered(c), WriteFrame(c)
  PROVE  Ordered(c)'
<1>1. /\ queue'[c] = <<>> /\ frames'[c] = Append(frames[c], queue[c])
      /\ shown' = shown /\ pos' = pos
  BY DEF WriteFrame, storeVars, FeedTypeOK
<1>2. frames[c] \in Seq(Seq(Position)) /\ queue[c] \in Seq(Position)
  BY DEF FeedTypeOK
<1>3. \A j \in 1..Len(frames'[c]) :
        \/ j \in 1..Len(frames[c]) /\ frames'[c][j] = frames[c][j]
        \/ j = Len(frames[c]) + 1 /\ frames'[c][j] = queue[c]
  BY <1>1, <1>2
<1>4. ASSUME NEW j \in 1..Len(frames'[c]), NEW m \in 1..Len(frames'[c][j])
      PROVE  frames'[c][j][m] <= pos' /\ \A o \in Id : shown'[o] < frames'[c][j][m]
  BY <1>1, <1>3, <1>4 DEF Ordered
<1>5. ASSUME NEW j \in 1..Len(frames'[c]), NEW m \in 1..Len(frames'[c][j]),
             NEW k \in 1..Len(frames'[c]), j < k, NEW n \in 1..Len(frames'[c][k])
      PROVE  frames'[c][j][m] < frames'[c][k][n]
  <2>1. Len(frames[c]) \in Nat /\ Len(frames'[c]) = Len(frames[c]) + 1
    BY <1>1, <1>2
  <2>2. j \in 1..Len(frames[c]) /\ frames'[c][j] = frames[c][j]
    BY <1>3, <1>5, <2>1
  <2> QED BY <1>3, <1>5, <2>2 DEF Ordered
<1> QED BY <1>1, <1>4, <1>5 DEF Ordered

\* The first frame is earlier than all that stays.
LEMMA MessageInOrder ==
  ASSUME FeedTypeOK, NEW c \in Conn, Ordered(c), OnMessage(c), \A o \in Id : shown[o] <= pos
  PROVE  Ordered(c)' /\ \A o \in Id : shown[o] <= shown'[o] /\ shown'[o] <= pos'
<1> DEFINE i == Head(frames[c])[1]
<1>1. /\ queue'[c] = queue[c] /\ frames'[c] = Tail(frames[c]) /\ pos' = pos
  BY DEF OnMessage, hubVars, FeedTypeOK
<1>2. /\ frames[c] \in Seq(Seq(Position)) /\ frames[c] # <<>>
      /\ shown \in [Id -> 0..Len(Published)]
  BY DEF FeedTypeOK, OnMessage
<1>3. /\ Len(frames'[c]) = Len(frames[c]) - 1 /\ Len(frames[c]) \in Nat \ {0}
      /\ \A j \in 1..Len(frames'[c]) : frames'[c][j] = frames[c][j + 1]
  BY <1>1, <1>2
<1>4. \/ shown' = shown
      \/ /\ Len(frames[c][1]) = 1 /\ i = frames[c][1][1]
         /\ \A o \in Id : shown'[o] = shown[o] \/ shown'[o] = i
  <2>1. CASE Len(Head(frames[c])) = 1
    <3>1. HandleEvent(i)
      BY <2>1 DEF OnMessage
    <3>2. shown' = shown \/ shown' = [shown EXCEPT ![Published[i].id] = i]
      BY <3>1 DEF HandleEvent, storeVars
    <3>3. Head(frames[c]) = frames[c][1]
      BY <1>2
    <3> HIDE DEF i
    <3>4. shown' = shown \/ \A o \in Id : shown'[o] = shown[o] \/ shown'[o] = i
      BY <1>2, <3>2
    <3> QED BY <2>1, <3>3, <3>4 DEF i
  <2>2. CASE Len(Head(frames[c])) # 1
    BY <2>2 DEF OnMessage, storeVars
  <2> QED BY <2>1, <2>2
<1>5. \/ shown' = shown
      \/ /\ i \in Nat
         /\ \A o \in Id : shown[o] < i
         /\ i <= pos
         /\ \A n \in 1..Len(queue[c]) : i < queue[c][n]
         /\ \A k \in 2..Len(frames[c]) : \A n \in 1..Len(frames[c][k]) : i < frames[c][k][n]
  <2> SUFFICES ASSUME shown' # shown
               PROVE  /\ i \in Nat
                      /\ \A o \in Id : shown[o] < i
                      /\ i <= pos
                      /\ \A n \in 1..Len(queue[c]) : i < queue[c][n]
                      /\ \A k \in 2..Len(frames[c]) :
                           \A n \in 1..Len(frames[c][k]) : i < frames[c][k][n]
    OBVIOUS
  <2> HIDE DEF i
  <2>0. Len(frames[c][1]) = 1 /\ i = frames[c][1][1]
    BY <1>4
  <2>1. 1 \in 1..Len(frames[c]) /\ 1 \in 1..Len(frames[c][1]) /\ i = frames[c][1][1]
    BY <1>3, <2>0
  <2>2. \A k \in 2..Len(frames[c]) : k \in 1..Len(frames[c]) /\ 1 < k
    OBVIOUS
  <2>3. i \in Nat
    <3>1. frames[c][1] \in Seq(Position)
      BY <1>2, <2>1
    <3> QED BY <2>1, <3>1, EventsAreNats
  <2> QED BY <2>1, <2>2, <2>3 DEF Ordered
<1> HIDE DEF i
<1>6. \A o \in Id : shown[o] <= shown'[o] /\ shown'[o] <= pos'
  <2>1. pos \in Nat /\ \A o \in Id : shown[o] \in Nat
    BY <1>2, PositionIsNat DEF FeedTypeOK
  <2> QED BY <1>1, <1>4, <1>5, <2>1
<1>7. Ordered(c)'
  <2>1. \A j \in 1..Len(frames'[c]) : j + 1 \in 2..Len(frames[c]) /\ j + 1 \in 1..Len(frames[c])
    BY <1>3
  <2>2. \A o \in Id : shown'[o] = shown[o] \/ shown'[o] = i
    BY <1>4
  <2>3. \A m \in 1..Len(queue'[c]) :
          queue'[c][m] <= pos' /\ \A o \in Id : shown'[o] < queue'[c][m]
    BY <1>1, <1>5, <2>2 DEF Ordered
  <2>4. ASSUME NEW j \in 1..Len(frames'[c]), NEW m \in 1..Len(frames'[c][j])
        PROVE  /\ frames'[c][j][m] <= pos'
               /\ \A o \in Id : shown'[o] < frames'[c][j][m]
               /\ \A n \in 1..Len(queue'[c]) : frames'[c][j][m] < queue'[c][n]
    BY <1>1, <1>3, <1>5, <2>1, <2>2 DEF Ordered
  <2>5. ASSUME NEW j \in 1..Len(frames'[c]), NEW m \in 1..Len(frames'[c][j]),
               NEW k \in 1..Len(frames'[c]), j < k, NEW n \in 1..Len(frames'[c][k])
        PROVE  frames'[c][j][m] < frames'[c][k][n]
    <3>1. j + 1 < k + 1
      BY <2>5
    <3> QED BY <1>3, <2>1, <3>1 DEF Ordered
  <2> QED BY <2>3, <2>4, <2>5 DEF Ordered
<1> QED BY <1>6, <1>7

\* No step disturbs the order.
LEMMA InOrderStep ==
  ASSUME FeedTypeOK, SocketInv, InOrder, [FeedNext]_feedVars
  PROVE  InOrder'
<1>0. /\ sock \in [Conn -> {"none", "connecting", "open", "closing"}]
      /\ queue \in [Conn -> Seq(Position)] /\ frames \in [Conn -> Seq(Seq(Position))]
      /\ Sockets /\ SingleFeed
  BY DEF FeedTypeOK, SocketInv
<1>1. CASE Forward
  BY <1>1, ForwardInOrder
<1>2. ASSUME NEW c \in Conn, WriteFrame(c) PROVE InOrder'
  <2>1. /\ UNCHANGED <<shown, pos, orphaned, sock>>
        /\ \A d \in Conn : d # c => queue'[d] = queue[d] /\ frames'[d] = frames[d]
    BY <1>0, <1>2 DEF WriteFrame, storeVars, hookVars
  <2>2. \A d \in Conn : Live(d)' = Live(d)
    BY <2>1 DEF Live
  <2> QED BY <1>2, <2>1, <2>2, WriteInOrder, OrderedStays DEF InOrder
<1>3. ASSUME NEW c \in Conn, OnMessage(c) PROVE InOrder'
  <2>1. UNCHANGED <<pos, orphaned, sock, current, queue>>
    BY <1>3 DEF OnMessage, hookVars, hubVars
  <2>2. Live(c) /\ \A d \in Conn : Live(d)' => Live(d)
    BY <1>3, <2>1, FeedAssumption DEF OnMessage, Live
  <2>3. ~orphaned => \A d \in Conn : Live(d) => d = c
    BY <1>0, <2>2 DEF SingleFeed
  <2> QED BY <1>3, <2>1, <2>2, <2>3, MessageInOrder DEF InOrder
<1>4. ASSUME NEW m, NEW c \in Conn, NEW C \in SUBSET Conn, Connect(m, c, C), shown' = shown,
             pos' = pos, orphaned' \/ ~orphaned
      PROVE  InOrder'
  <2>1. /\ \A d \in Conn : Live(d)' => d = c \/ (Live(d) /\ d \notin C)
    BY <1>0, <1>4, ConnectSockets
  <2>2. ~Live(c)
    BY <1>4 DEF Connect, Free, Live
  <2>3. frames[c] = <<>>
    BY <1>0, <2>2 DEF Sockets
  <2>4. \A d \in Conn : /\ frames'[d] = IF d \in C THEN <<>> ELSE frames[d]
                        /\ queue'[d] = IF d = c THEN <<>> ELSE queue[d]
    BY <1>0, <1>4 DEF Connect, FramesLess
  <2> QED BY <1>4, <2>1, <2>3, <2>4, InOrderStays
<1>5. ASSUME NEW c \in Conn, Mount(c) \/ Render(c) \/ \E m \in Mounts : Reconnect(m, c)
      PROVE  InOrder'
  <2>1. {} \in SUBSET Conn /\ ToClose \in SUBSET Conn
    BY DEF ToClose
  <2>2. shown' = shown /\ pos' = pos
    BY <1>5 DEF Mount, Render, Reconnect, storeVars
  <2>3. orphaned' \/ ~orphaned
    <3>1. CASE orphaned' = orphaned
      BY <3>1 DEF FeedTypeOK
    <3>2. CASE \E m \in Mounts : orphaned' = (orphaned \/ Live(current) \/ ~Here(m))
      BY <3>2
    <3> QED BY <1>5, <3>1, <3>2 DEF Mount, Render, Reconnect
  <2>4. \/ Connect(mount + 1, c, {})
        \/ Connect(mount, c, ToClose)
        \/ \E m \in Mounts : Connect(m, c, {})
    BY <1>5 DEF Mount, Render, Reconnect
  <2>5. ASSUME NEW m \in Mounts, Connect(m, c, {}) PROVE InOrder'
    BY <1>4, <2>1, <2>2, <2>3, <2>5
  <2>6. CASE Connect(mount + 1, c, {})
    BY <1>4, <2>1, <2>2, <2>3, <2>6
  <2>7. CASE Connect(mount, c, ToClose)
    BY <1>4, <2>1, <2>2, <2>3, <2>7
  <2> QED BY <2>4, <2>5, <2>6, <2>7
<1>6. ASSUME NEW c \in Conn, OnClose(c) PROVE InOrder'
  <2>1. /\ UNCHANGED <<shown, pos, orphaned, queue>>
        /\ sock' = [sock EXCEPT ![c] = "none"] /\ frames' = FramesLess({c})
    BY <1>6 DEF OnClose, storeVars, hubVars
  <2>2. \A d \in Conn : Live(d)' => Live(d) /\ d # c
    BY <1>0, <2>1 DEF Live
  <2>3. \A d \in Conn : d # c => frames'[d] = frames[d]
    BY <2>1 DEF FramesLess
  <2> QED BY <2>1, <2>2, <2>3, InOrderStays
<1>7. CASE Unmount
  <2>1. /\ UNCHANGED <<shown, pos, orphaned, queue>>
        /\ sock' = Closing(ToClose) /\ frames' = FramesLess(ToClose)
    BY <1>7 DEF Unmount, storeVars, hubVars
  <2>2. \A d \in Conn : Live(d)' => Live(d) /\ d \notin ToClose
    BY <2>1 DEF Live, Closing
  <2>3. \A d \in Conn : d \notin ToClose => frames'[d] = frames[d]
    BY <2>1 DEF FramesLess
  <2> QED BY <2>1, <2>2, <2>3, InOrderStays
<1>8. ASSUME NEW c \in Conn, OnOpen(c) PROVE InOrder'
  <2>1. UNCHANGED <<shown, pos, orphaned, queue, frames>>
        /\ sock' = [sock EXCEPT ![c] = "open"] /\ sock[c] = "connecting"
    BY <1>8 DEF OnOpen, storeVars, hubVars
  <2>2. \A d \in Conn : Live(d)' => Live(d)
    BY <1>0, <2>1, FeedAssumption DEF Live
  <2> QED BY <2>1, <2>2, InOrderStays
<1>9. CASE UNCHANGED <<shown, pos, orphaned, queue, frames, sock>>
  <2>1. \A d \in Conn : Live(d)' => Live(d)
    BY <1>9 DEF Live
  <2> QED BY <1>9, <2>1, InOrderStays
<1>10. ASSUME NEW c \in Conn, ReadEnds(c) PROVE InOrder'
  <2>1. /\ UNCHANGED <<shown, pos, orphaned, frames, sock>>
        /\ \A d \in Conn : queue'[d] = IF d = c THEN <<>> ELSE queue[d]
    BY <1>0, <1>10 DEF ReadEnds, storeVars, hookVars
  <2>2. \A d \in Conn : Live(d)' => Live(d)
    BY <2>1 DEF Live
  <2> QED BY <2>1, <2>2, InOrderStays
<1> QED BY <1>1, <1>2, <1>3, <1>5, <1>6, <1>7, <1>8, <1>9, <1>10
        DEF FeedNext, feedVars, storeVars, hookVars, hubVars, ServeWs, WriteEnds, Drop

\* The sockets' invariant and the order that rests on it.
THEOREM FeedInOrder == FeedSpec => [](SocketInv /\ InOrder)
<1>1. FeedInit => SocketInv /\ InOrder
  <2>1. FeedInit => \A c \in Conn : ~Live(c)
    BY DEF FeedInit, Live
  <2>2. FeedInit => \A o \in Id : shown[o] <= pos
    BY DEF FeedInit
  <2> QED BY <2>1, <2>2 DEF FeedInit, SocketInv, Sockets, SingleFeed, InOrder
<1> QED BY <1>1, SocketStep, InOrderStep, FeedTypes, PTL DEF FeedSpec

\* An order shown steps back only after a timer left a socket behind.
THEOREM NoStepBack == FeedSpec => StepsBackOnlyByOverlap
<1>1. ASSUME FeedTypeOK, FeedTypeOK', InOrder, [FeedNext]_feedVars
      PROVE  [\A o \in Id : shown'[o] < shown[o] => orphaned]_feedVars
  <2> SUFFICES ASSUME NEW o \in Id, shown'[o] < shown[o], ~orphaned PROVE FALSE
    OBVIOUS
  <2>1. shown[o] \in Nat
    BY <1>1, PositionIsNat DEF FeedTypeOK
  <2>2. shown' # shown
    BY <2>1
  <2>3. PICK c \in Conn : OnMessage(c)
    BY <1>1, <2>2 DEF FeedNext, feedVars, storeVars, Forward, ServeWs, WriteFrame, WriteEnds,
                ReadEnds, Drop, Mount, Render, Reconnect, OnOpen, OnClose, Unmount
  <2>4. Live(c)
    BY <2>3, FeedAssumption DEF OnMessage, Live
  <2>5. shown[o] <= shown'[o] /\ shown'[o] <= pos'
    BY <1>1, <2>3, <2>4, MessageInOrder DEF InOrder
  <2>6. shown'[o] \in Int
    BY <1>1, PositionIsNat DEF FeedTypeOK
  <2> QED BY <2>1, <2>5, <2>6
<1> QED BY <1>1, FeedTypes, FeedInOrder, PTL DEF FeedSpec, StepsBackOnlyByOverlap

=============================================================================
