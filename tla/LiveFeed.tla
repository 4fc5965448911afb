------------------------------ MODULE LiveFeed ------------------------------
(***************************************************************************)
(* The live feed of one user's browser tab: the relay of trade events to   *)
(* the tab's WebSockets by apps/api-go (bus/subscriber.go, hub.go,         *)
(* client.go) and the React hook that keeps a socket open (useSocket.ts in *)
(* TradingDataInitializer) and fills the trading store.                    *)
(*                                                                         *)
(* The hook's effect depends on a callback that every render makes anew,   *)
(* so a render closes the current socket and opens another; a closed       *)
(* socket may arm a timer that opens one more, and no code disarms it.  A  *)
(* logout takes the component away and the next login mounts it again: its *)
(* refs and state begin anew, while the store, and the sockets and timers  *)
(* of earlier mounts, live on.  Sockets, the two goroutines of each, the   *)
(* hub and React run concurrently.  An event is its position in Published. *)
(***************************************************************************)
EXTENDS Naturals, Sequences, FiniteSets

CONSTANTS
  Published,    \* what the outbox relay publishes for the user, in this order: [id, type];
                \* an event it retries is there twice
  Conn,         \* ids of sockets: bounds those alive at a time
  NoConn,
  Attempts,     \* reconnectAttempts
  Buffer,       \* capacity of Client.send
  MaxFrames,    \* bound on the frames under way to the browser on one socket
  MaxTimers,    \* bound on the reconnect timers of a mount armed at a time
  MaxMounts     \* bound on how often the component is mounted

ASSUME FeedAssumption ==
  /\ Published \in Seq([id : STRING, type : STRING])
  /\ IsFiniteSet(Conn) /\ NoConn \notin Conn
  /\ Attempts \in Nat /\ Buffer \in Nat \ {0} /\ MaxFrames \in Nat \ {0}
  /\ MaxTimers \in Nat /\ MaxMounts \in Nat

Mounts   == 1..MaxMounts
Position == 1..Len(Published)
Id       == {Published[i].id : i \in Position}

VARIABLES
  sock,        \* readyState of a browser socket, "none" once its close was handled
  owner,       \* the mount whose connect() opened it, 0 for none
  current,     \* socketRef of the latest mount, as long as its close was not handled
  count,       \* reconnectAttemptCount, a ref of each mount
  timers,      \* reconnect timers armed by the sockets of a mount
  mount,       \* the latest mount, 0 before the first
  mounted,     \* whether it is there still
  link,        \* the connection as the server knows it: "none", "up" or "cut"
  frames,      \* frames under way to the browser, each a sequence of events
  member,      \* clients registered with the hub
  queue,       \* Client.send
  closes,      \* history: how often Client.send was closed
  reading,     \* clients whose ReadPump runs
  pos,         \* the latest event published
  shown,       \* useTradingStore.orders: the event an order is shown as, 0 for none
  executions,  \* useTradingStore.executions
  orphaned     \* history: a timer replaced a socket that was still connecting or open,
               \* or fired when its mount was gone

mountVars  == <<mount, mounted>>
hookVars   == <<owner, current, count, timers, mountVars, orphaned>>
hubVars    == <<member, queue, closes>>
storeVars  == <<shown, executions>>
feedVars   == <<sock, hookVars, link, frames, hubVars, reading, storeVars, pos>>

\* The tab, the server's clients and the store.
FeedTypeOK ==
  /\ sock \in [Conn -> {"none", "connecting", "open", "closing"}]
  /\ current \in Conn \cup {NoConn}
  /\ owner \in [Conn -> 0..MaxMounts]
  /\ count \in [Mounts -> Nat] /\ timers \in [Mounts -> 0..MaxTimers]
  /\ mount \in 0..MaxMounts /\ mounted \in BOOLEAN /\ orphaned \in BOOLEAN
  /\ link \in [Conn -> {"none", "up", "cut"}]
  /\ frames \in [Conn -> Seq(Seq(Position))]
  /\ member \subseteq Conn
  /\ queue \in [Conn -> Seq(Position)]
  /\ closes \in [Conn -> Nat]
  /\ reading \subseteq Conn
  /\ pos \in 0..Len(Published)
  /\ shown \in [Id -> 0..Len(Published)]
  /\ executions \in Seq(Position)

FeedInit ==
  /\ sock = [c \in Conn |-> "none"]
  /\ owner = [c \in Conn |-> 0]
  /\ current = NoConn
  /\ count = [m \in Mounts |-> 0] /\ timers = [m \in Mounts |-> 0]
  /\ mount = 0 /\ mounted = FALSE /\ orphaned = FALSE
  /\ link = [c \in Conn |-> "none"]
  /\ frames = [c \in Conn |-> <<>>]
  /\ member = {}
  /\ queue = [c \in Conn |-> <<>>]
  /\ closes = [c \in Conn |-> 0]
  /\ reading = {}
  /\ pos = 0
  /\ shown = [o \in Id |-> 0]
  /\ executions = <<>>

-----------------------------------------------------------------------------
(* The server. *)

StreamForEventType(type) ==
  IF type = "signal.generated" THEN "market-events"
  ELSE IF type \in {"order.submitted", "execution.filled"} THEN "trade-events"
  ELSE "control-events"

\* The hub gives the event to each client, and drops one whose buffer is full.
Broadcast(i) ==
  LET full == {c \in member : Len(queue[c]) >= Buffer} IN
    /\ queue' = [c \in Conn |-> IF c \in member \ full THEN Append(queue[c], i) ELSE queue[c]]
    /\ closes' = [c \in Conn |-> IF c \in full THEN closes[c] + 1 ELSE closes[c]]
    /\ member' = member \ full

\* The next event is published; Subscriber.Run hears one of the streams.
Forward ==
  /\ pos < Len(Published) /\ pos' = pos + 1
  /\ IF StreamForEventType(Published[pos'].type) = "trade-events"
       THEN Broadcast(pos')
       ELSE UNCHANGED hubVars
  /\ UNCHANGED <<sock, hookVars, link, frames, reading, storeVars>>

\* serveWs: upgrade, register, start both goroutines.
ServeWs(c) ==
  /\ sock[c] = "connecting" /\ link[c] = "none"
  /\ link' = [link EXCEPT ![c] = "up"]
  /\ member' = member \cup {c}
  /\ reading' = reading \cup {c}
  /\ UNCHANGED <<sock, hookVars, frames, queue, closes, storeVars, pos>>

\* WritePump: all that is queued becomes one frame.
WriteFrame(c) ==
  /\ link[c] = "up"
  /\ queue[c] # <<>> /\ Len(frames[c]) < MaxFrames
  /\ frames' = [frames EXCEPT ![c] = Append(@, queue[c])]
  /\ queue' = [queue EXCEPT ![c] = <<>>]
  /\ UNCHANGED <<sock, hookVars, link, member, closes, reading, storeVars, pos>>

\* WritePump returns, its channel closed and drained, and closes the connection; one that
\* returns because a write or a ping failed changes nothing.
WriteEnds(c) ==
  /\ link[c] = "up" /\ closes[c] > 0 /\ queue[c] = <<>>
  /\ link' = [link EXCEPT ![c] = "cut"]
  /\ UNCHANGED <<sock, hookVars, frames, hubVars, reading, storeVars, pos>>

\* Mutant: unregister closes the channel of a client that is no member any more.
LeaveUnchecked(c) ==
  /\ member' = member \ {c}
  /\ closes' = [closes EXCEPT ![c] = @ + 1]

\* The hub's unregister.
Leave(c) ==
  /\ member' = member \ {c}
  /\ closes' = IF c \in member THEN [closes EXCEPT ![c] = @ + 1] ELSE closes

\* ReadPump returns: the connection broke or the peer closed it, so that nobody can write
\* what is queued.
ReadEnds(c) ==
  /\ c \in reading /\ link[c] = "cut"
  /\ Leave(c)
  /\ reading' = reading \ {c}
  /\ queue' = [queue EXCEPT ![c] = <<>>]
  /\ UNCHANGED <<sock, hookVars, link, frames, storeVars, pos>>

\* The network or the server drops the connection.
Drop(c) ==
  /\ link[c] = "up"
  /\ link' = [link EXCEPT ![c] = "cut"]
  /\ UNCHANGED <<sock, hookVars, frames, hubVars, reading, storeVars, pos>>

-----------------------------------------------------------------------------
(* The hook. *)

Live(c) == c # NoConn /\ sock[c] \in {"connecting", "open"}
Free(c) == sock[c] = "none" /\ c \notin reading

\* The mount m is the one on the page.
Here(m) == mounted /\ m = mount

\* The sockets in C as after close(): the server will notice, and frames still under
\* way are not delivered.
Closing(C)    == [c \in Conn |-> IF c \in C THEN "closing" ELSE sock[c]]
CutOf(C)      == [c \in Conn |-> IF c \in C /\ link[c] = "up" THEN "cut" ELSE link[c]]
FramesLess(C) == [c \in Conn |-> IF c \in C THEN <<>> ELSE frames[c]]

\* The cleanup, if any, closes C; then connect() of mount m opens socket c.  The socketRef
\* of a mount that was followed by another one is of no use to anybody.
Connect(m, c, C) ==
  /\ Free(c)
  /\ sock' = [Closing(C) EXCEPT ![c] = "connecting"]
  /\ owner' = [owner EXCEPT ![c] = m]
  /\ link' = [CutOf(C) EXCEPT ![c] = "none"]
  /\ frames' = FramesLess(C)
  /\ queue' = [queue EXCEPT ![c] = <<>>]
  /\ closes' = [closes EXCEPT ![c] = 0]
  /\ current' = IF m >= mount THEN c ELSE current

\* A login mounts the component anew and its effect runs.
Mount(c) ==
  /\ ~mounted /\ mount < MaxMounts
  /\ mount' = mount + 1 /\ mounted' = TRUE
  /\ Connect(mount + 1, c, {})
  /\ UNCHANGED <<count, timers, orphaned, member, reading, storeVars, pos>>

\* Mutant: the cleanup does not close the socket.
CloseNothing == {}

\* What the cleanup closes: the current socket, unless it is closed already.
ToClose == {c \in Conn : c = current /\ Live(c)}

\* A render, of the Dashboard or for a new readyState (which nothing else reads): it may
\* come at any time.  onMessage is a new function, so the cleanup runs and the effect again.
Render(c) ==
  /\ mounted
  /\ Connect(mount, c, ToClose)
  /\ count' = [count EXCEPT ![mount] = Attempts]
  /\ UNCHANGED <<timers, mountVars, orphaned, member, reading, storeVars, pos>>

\* Logout takes the component away: the cleanup, and nothing after it.
Unmount ==
  /\ mounted /\ mounted' = FALSE
  /\ sock' = Closing(ToClose) /\ link' = CutOf(ToClose) /\ frames' = FramesLess(ToClose)
  /\ count' = [count EXCEPT ![mount] = Attempts]
  /\ UNCHANGED <<owner, current, timers, mount, orphaned, hubVars, reading, storeVars, pos>>

OnOpen(c) ==
  /\ sock[c] = "connecting" /\ link[c] = "up"
  /\ sock' = [sock EXCEPT ![c] = "open"]
  /\ count' = [count EXCEPT ![owner[c]] = 0]
  /\ UNCHANGED <<owner, current, timers, mountVars, orphaned, link, frames, hubVars, reading,
                 storeVars, pos>>

\* onclose arms one timer; onerror only closes.
Armed(n) == n + 1

\* The socket is closed: by close(), by the server, by the network (onerror closes it),
\* or it could not be opened.
OnClose(c) ==
  /\ \/ sock[c] = "closing"
     \/ sock[c] = "open" /\ link[c] = "cut"
     \/ sock[c] = "connecting" /\ link[c] # "up"
  /\ sock' = [sock EXCEPT ![c] = "none"] /\ owner' = [owner EXCEPT ![c] = 0]
  /\ current' = IF c = current THEN NoConn ELSE current
  /\ IF count[owner[c]] < Attempts
       THEN /\ timers[owner[c]] < MaxTimers
            /\ timers' = [timers EXCEPT ![owner[c]] = Armed(@)]
       ELSE UNCHANGED timers
  /\ frames' = FramesLess({c})
  /\ UNCHANGED <<count, mountVars, orphaned, link, hubVars, reading, storeVars, pos>>

\* A timer that mount m armed fires, whether or not m is there still.  The previous
\* socket is not closed, and nobody will close one opened for a mount that is gone.
Reconnect(m, c) ==
  /\ timers[m] > 0 /\ timers' = [timers EXCEPT ![m] = @ - 1]
  /\ Connect(m, c, {})
  /\ count' = [count EXCEPT ![m] = @ + 1]
  /\ orphaned' = (orphaned \/ Live(current) \/ ~Here(m))
  /\ UNCHANGED <<mountVars, member, reading, storeVars, pos>>

-----------------------------------------------------------------------------
(* The store. *)

\* Mutant: an execution is added each time it arrives.
AddAgain(i) == Append(executions, i)

\* processExecutionEvent: the first one with an id stays.
AddExecution(i) ==
  IF \E k \in DOMAIN executions : Published[executions[k]].id = Published[i].id
    THEN executions
    ELSE Append(executions, i)

\* handleEvent: an order is replaced by whatever arrives.
HandleEvent(i) ==
  IF Published[i].type = "execution.filled"
    THEN executions' = AddExecution(i) /\ UNCHANGED shown
    ELSE IF Published[i].type \in {"order.submitted", "order.accepted", "order.rejected"}
      THEN shown' = [shown EXCEPT ![Published[i].id] = i] /\ UNCHANGED executions
      ELSE UNCHANGED storeVars

\* onmessage, of an open socket only.  A frame of several events is not JSON.
OnMessage(c) ==
  /\ sock[c] = "open" /\ frames[c] # <<>>
  /\ frames' = [frames EXCEPT ![c] = Tail(@)]
  /\ IF Len(Head(frames[c])) = 1 THEN HandleEvent(Head(frames[c])[1]) ELSE UNCHANGED storeVars
  /\ UNCHANGED <<sock, hookVars, link, hubVars, reading, pos>>

\* What the pages of these names list, React keys and all.
LiveOrders     == {o \in Id : shown[o] # 0}
ExecutionsFeed == [k \in DOMAIN executions |-> Published[executions[k]].id]

-----------------------------------------------------------------------------
FeedNext ==
  \/ Forward
  \/ \E c \in Conn :
       \/ ServeWs(c) \/ WriteFrame(c) \/ WriteEnds(c) \/ ReadEnds(c) \/ Drop(c)
       \/ Mount(c) \/ Render(c) \/ \E m \in Mounts : Reconnect(m, c)
       \/ OnOpen(c) \/ OnMessage(c) \/ OnClose(c)
  \/ Unmount

FeedSpec == FeedInit /\ [][FeedNext]_feedVars

-----------------------------------------------------------------------------
\* The hub closes a client's channel once, whichever of the broadcast that finds it full
\* and the reader that ends comes first; a second close would panic and end the API.
ClosedOnce == \A c \in Conn : closes[c] <= 1 /\ (c \in member => closes[c] = 0)

\* At most the current socket feeds the store, unless a timer left one behind: it
\* replaced a live socket, or fired after a logout had taken its component away.  Renders,
\* logouts and logins alone leave no second socket.
SingleFeed == ~orphaned => \A c \in Conn : Live(c) => c = current

\* The order shown falls behind what was published later only after a timer left a socket
\* behind, so that two fed the store: full buffers, lost frames, renders, reconnects, and a
\* login after a logout do not do it.
StepsBackOnlyByOverlap ==
  [][\A o \in Id : shown'[o] < shown[o] => orphaned]_feedVars

\* No execution is shown twice, by however many sockets and however often it came.
ExecutionsOnce ==
  \A j, k \in DOMAIN ExecutionsFeed : ExecutionsFeed[j] = ExecutionsFeed[k] => j = k

\* "Real-time stream of order updates from the exchange": what is published of an order
\* reaches every client registered with the hub that the hub does not drop.
OrderUpdatesStreamed ==
  [][pos' # pos /\ Published[pos'].type \in {"order.submitted", "order.accepted", "order.rejected"}
     => \A c \in member \cap member' : \E k \in DOMAIN queue'[c] : queue'[c][k] = pos']_feedVars
=============================================================================
