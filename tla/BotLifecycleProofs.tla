------------------------- MODULE BotLifecycleProofs -------------------------
(***************************************************************************)
(* The properties of BotLifecycle for any number of bots, any number of    *)
(* concurrent requests and any plan.                                       *)
(*                                                                         *)
(* The bound on overbooking is inductive only together with the requests   *)
(* that have passed the count and not yet written: each of them is a       *)
(* booking still to come.                                                  *)
(***************************************************************************)
EXTENDS BotLifecycle, TLAPS, FiniteSetTheorems

\* Past its start a request other than "create" names a bot that exists.
RequestOK ==
  \A r \in Request :
    /\ pc[r] = "check" => cmd[r] # "create"
    /\ pc[r] \in {"idle", "insert"} => cmd[r] = "create"
    /\ pc[r] \in {"lock", "commit"} => cmd[r] # "create"
    /\ pc[r] = "count" => cmd[r] \in {"create", "request_live"}
    /\ pc[r] # "idle" /\ cmd[r] # "create" => bot[r] \in Bot /\ status[bot[r]] # "none"

\* A row has one lock, and its status does not change under it.
LockOK ==
  /\ \A r \in Request : pc[r] = "commit" => old[r] = status[bot[r]]
  /\ \A r, q \in Request :
       pc[r] = "commit" /\ pc[q] = "commit" /\ bot[r] = bot[q] => r = q

\* A request past its check that finds its bot stopped was overtaken.
StopOK ==
  \A r \in Request :
    pc[r] \in {"count", "lock", "commit"} /\ cmd[r] # "create"
      /\ status[bot[r]] = "stopped" => r \in overtaken

\* Requests whose booking is still to come.
Inserting == {r \in Request : pc[r] = "insert"}
Promoting == {r \in Request : cmd[r] = "request_live" /\ pc[r] \in {"lock", "commit"}}

BookingOK ==
  /\ Cardinality(PaperBots) + Cardinality(Inserting)
       <= MaxPaperBots + Cardinality(Request) - 1
  /\ Cardinality(LiveBots) + Cardinality(Promoting)
       <= MaxLiveBots + Cardinality(Request) - 1

LInv == TypeOK /\ RequestOK /\ LockOK /\ StopOK /\ BookingOK

-----------------------------------------------------------------------------
LEMMA Finite ==
  /\ IsFiniteSet(PaperBots) /\ IsFiniteSet(LiveBots)
  /\ IsFiniteSet(Inserting) /\ IsFiniteSet(Promoting) /\ IsFiniteSet(Request)
  /\ Cardinality(PaperBots) \in Nat /\ Cardinality(LiveBots) \in Nat
  /\ Cardinality(Inserting) \in Nat /\ Cardinality(Promoting) \in Nat
  /\ Cardinality(Request) \in Nat \ {0}
  /\ Cardinality(Inserting) <= Cardinality(Request)
  /\ Cardinality(Promoting) <= Cardinality(Request)
<1>1. IsFiniteSet(Bot) /\ IsFiniteSet(Request) /\ Request # {}
  BY LifecycleAssumption DEF LifecycleAssumption
<1>2. /\ PaperBots \subseteq Bot /\ LiveBots \subseteq Bot
      /\ Inserting \subseteq Request /\ Promoting \subseteq Request
  BY DEF PaperBots, LiveBots, Inserting, Promoting
<1>3. /\ IsFiniteSet(PaperBots) /\ IsFiniteSet(LiveBots)
      /\ IsFiniteSet(Inserting) /\ IsFiniteSet(Promoting)
      /\ Cardinality(Inserting) <= Cardinality(Request)
      /\ Cardinality(Promoting) <= Cardinality(Request)
  BY <1>1, <1>2, FS_Subset
<1>4. Cardinality(Request) \in Nat \ {0}
  BY <1>1, FS_CardinalityType, FS_EmptySet
<1> QED BY <1>1, <1>3, <1>4, FS_CardinalityType

LEMMA InitLInv == Init => LInv
<1> SUFFICES ASSUME Init PROVE LInv
  OBVIOUS
<1>1. TypeOK
  BY DEF Init, TypeOK, Command
<1>2. RequestOK /\ LockOK /\ StopOK
  BY DEF Init, RequestOK, LockOK, StopOK
<1>3. BookingOK
  <2>1. PaperBots = {} /\ LiveBots = {} /\ Inserting = {} /\ Promoting = {}
    BY DEF Init, PaperBots, LiveBots, Inserting, Promoting
  <2>2. Cardinality({}) = 0
    BY FS_EmptySet
  <2>3. MaxPaperBots \in Nat /\ MaxLiveBots \in Nat
    BY LifecycleAssumption DEF LifecycleAssumption
  <2> QED BY <2>1, <2>2, <2>3, Finite DEF BookingOK
<1> QED BY <1>1, <1>2, <1>3 DEF LInv

LEMMA TypeStep == TypeOK /\ RequestOK /\ [Next]_vars => TypeOK'
<1> SUFFICES ASSUME TypeOK, RequestOK, [Next]_vars PROVE TypeOK'
  OBVIOUS
<1> USE DEF TypeOK
<1>1. ASSUME NEW r \in Request, RequestStep(r) PROVE TypeOK'
  <2>1. ASSUME StartCreate(r) PROVE TypeOK'
    BY <2>1 DEF StartCreate, Goto
  <2>2. ASSUME NEW c \in Command, NEW b \in Bot, Start(r, c, b) PROVE TypeOK'
    BY <2>2 DEF Start, Goto
  <2>3. CASE Check(r)
    BY <2>3 DEF Check, Goto, Answer, Command
  <2>4. CASE Count(r)
    BY <2>4 DEF Count, Goto, Answer, Command
  <2>5. CASE Insert(r)
    BY <2>5 DEF Insert, Answer, Command, BotStatus
  <2>6. CASE Lock(r)
    BY <2>6 DEF Lock, Goto, RequestOK
  <2>7. CASE Commit(r)
    <3>1. bot[r] \in Bot /\ Target(cmd[r]) \in BotStatus /\ old[r] \in BotStatus \cup {"none"}
      BY <2>7 DEF Commit, RequestOK, Target, BotStatus
    <3> QED BY <2>7, <3>1 DEF Commit, Committing, Answer, Command
  <2>8. CASE Fail(r)
    BY <2>8 DEF Fail, Answer, Command
  <2> QED BY <1>1, <2>1, <2>2, <2>3, <2>4, <2>5, <2>6, <2>7, <2>8 DEF RequestStep
<1>2. ASSUME NEW b \in Bot, AutoStop(b) \/ ApproveLive(b) PROVE TypeOK'
  BY <1>2 DEF AutoStop, ApproveLive, requestVars, BotStatus
<1>3. CASE UNCHANGED vars
  BY <1>3 DEF vars
<1> QED BY <1>1, <1>2, <1>3 DEF Next

LEMMA RequestOKStep == TypeOK /\ RequestOK /\ [Next]_vars => RequestOK'
<1> SUFFICES ASSUME TypeOK, RequestOK, [Next]_vars PROVE RequestOK'
  OBVIOUS
<1> USE DEF TypeOK, RequestOK
<1>1. ASSUME NEW r \in Request, RequestStep(r) PROVE RequestOK'
  <2>1. CASE StartCreate(r)
    BY <2>1 DEF StartCreate, Goto
  <2>2. ASSUME NEW c \in Command, NEW b \in Bot, Start(r, c, b) PROVE RequestOK'
    BY <2>2 DEF Start, Goto
  <2>3. CASE Check(r)
    BY <2>3 DEF Check, Goto, Answer
  <2>4. CASE Count(r)
    BY <2>4 DEF Count, Goto, Answer
  <2>5. CASE Insert(r)
    BY <2>5 DEF Insert, Answer
  <2>6. CASE Lock(r)
    BY <2>6 DEF Lock, Goto
  <2>7. CASE Commit(r)
    BY <2>7 DEF Commit, Committing, Answer, Target
  <2>8. CASE Fail(r)
    BY <2>8 DEF Fail, Answer
  <2> QED BY <1>1, <2>1, <2>2, <2>3, <2>4, <2>5, <2>6, <2>7, <2>8 DEF RequestStep
<1>2. ASSUME NEW b \in Bot, AutoStop(b) \/ ApproveLive(b) PROVE RequestOK'
  BY <1>2 DEF AutoStop, ApproveLive, requestVars
<1>3. CASE UNCHANGED vars
  BY <1>3 DEF vars
<1> QED BY <1>1, <1>2, <1>3 DEF Next


LEMMA LockStep == TypeOK /\ RequestOK /\ LockOK /\ [Next]_vars => LockOK'
<1> SUFFICES ASSUME TypeOK, RequestOK, LockOK, [Next]_vars PROVE LockOK'
  OBVIOUS
<1> USE DEF TypeOK, LockOK
<1>1. ASSUME NEW r \in Request, RequestStep(r) PROVE LockOK'
  <2>1. CASE StartCreate(r)
    BY <2>1 DEF StartCreate, Goto
  <2>2. ASSUME NEW c \in Command, NEW b \in Bot, Start(r, c, b) PROVE LockOK'
    BY <2>2 DEF Start, Goto
  <2>3. CASE Check(r)
    BY <2>3 DEF Check, Goto, Answer
  <2>4. CASE Count(r)
    BY <2>4 DEF Count, Goto, Answer
  <2>5. CASE Insert(r)
    BY <2>5 DEF Insert, Answer, RequestOK
  <2>6. CASE Lock(r)
    BY <2>6 DEF Lock, Goto, Locked
  <2>7. CASE Commit(r)
    BY <2>7 DEF Commit, Committing, Answer
  <2>8. CASE Fail(r)
    BY <2>8 DEF Fail, Answer
  <2> QED BY <1>1, <2>1, <2>2, <2>3, <2>4, <2>5, <2>6, <2>7, <2>8 DEF RequestStep
<1>2. ASSUME NEW b \in Bot, AutoStop(b) \/ ApproveLive(b) PROVE LockOK'
  BY <1>2 DEF AutoStop, ApproveLive, requestVars, Locked, RequestOK
<1>3. CASE UNCHANGED vars
  BY <1>3 DEF vars
<1> QED BY <1>1, <1>2, <1>3 DEF Next

LEMMA StopStep == TypeOK /\ RequestOK /\ StopOK /\ [Next]_vars => StopOK'
<1> SUFFICES ASSUME TypeOK, RequestOK, StopOK, [Next]_vars PROVE StopOK'
  OBVIOUS
<1> USE DEF TypeOK, StopOK
<1>1. ASSUME NEW r \in Request, RequestStep(r) PROVE StopOK'
  <2>1. CASE StartCreate(r)
    BY <2>1 DEF StartCreate, Goto, RequestOK
  <2>2. ASSUME NEW c \in Command, NEW b \in Bot, Start(r, c, b) PROVE StopOK'
    BY <2>2 DEF Start, Goto
  <2>3. CASE Check(r)
    <3>1. ASSUME NEW c \in Command PROVE ~Permitted(c, "stopped")
      BY DEF Permitted
    <3>2. status' = status /\ overtaken' = overtaken \ {r}
      BY <2>3 DEF Check
    <3>3. ASSUME NEW q \in Request, q # r
          PROVE  pc'[q] = pc[q] /\ cmd'[q] = cmd[q] /\ bot'[q] = bot[q]
      BY <2>3, <3>3 DEF Check, Goto, Answer
    <3>4. \/ pc'[r] = "idle"
          \/ status[bot[r]] # "stopped" /\ bot'[r] = bot[r]
      BY <2>3, <3>1 DEF Check, Goto, Answer
    <3> QED BY <3>2, <3>3, <3>4
  <2>4. CASE Count(r)
    BY <2>4 DEF Count, Goto, Answer
  <2>5. CASE Insert(r)
    BY <2>5 DEF Insert, Answer, RequestOK
  <2>6. CASE Lock(r)
    BY <2>6 DEF Lock, Goto
  <2>7. CASE Commit(r)
    BY <2>7 DEF Commit, Committing, Answer, RequestOK
  <2>8. CASE Fail(r)
    BY <2>8 DEF Fail, Answer
  <2> QED BY <1>1, <2>1, <2>2, <2>3, <2>4, <2>5, <2>6, <2>7, <2>8 DEF RequestStep
<1>2. ASSUME NEW b \in Bot, AutoStop(b) \/ ApproveLive(b) PROVE StopOK'
  BY <1>2 DEF AutoStop, ApproveLive, requestVars, RequestOK
<1>3. CASE UNCHANGED vars
  BY <1>3 DEF vars
<1> QED BY <1>1, <1>2, <1>3 DEF Next

-----------------------------------------------------------------------------
\* A step either passes the count, where there is room for every request, or changes
\* bookings made and to come as in one of these ways.
LEMMA Room ==
  ASSUME NEW M \in Nat, NEW made, NEW coming, NEW made2, NEW coming2,
         IsFiniteSet(made), IsFiniteSet(coming),
         coming2 \subseteq Request,
         Cardinality(made) + Cardinality(coming) <= M + Cardinality(Request) - 1,
         \/ made2 \subseteq made /\ coming2 \subseteq coming
         \/ made2 = made /\ Cardinality(made) < M
         \/ \E b, r : r \in coming /\ made2 \subseteq made \cup {b} /\ coming2 = coming \ {r}
  PROVE  Cardinality(made2) + Cardinality(coming2) <= M + Cardinality(Request) - 1
<1>0. IsFiniteSet(Request) /\ Cardinality(Request) \in Nat
  BY Finite
<1>1. Cardinality(made) \in Nat /\ Cardinality(coming) \in Nat
  BY FS_CardinalityType
<1>2. CASE made2 \subseteq made /\ coming2 \subseteq coming
  <2>1. /\ IsFiniteSet(made2) /\ Cardinality(made2) <= Cardinality(made)
        /\ IsFiniteSet(coming2) /\ Cardinality(coming2) <= Cardinality(coming)
    BY <1>2, FS_Subset
  <2>2. Cardinality(made2) \in Nat /\ Cardinality(coming2) \in Nat
    BY <2>1, FS_CardinalityType
  <2> QED BY <1>0, <1>1, <2>1, <2>2
<1>3. CASE made2 = made /\ Cardinality(made) < M
  <2>1. Cardinality(coming2) <= Cardinality(Request) /\ Cardinality(coming2) \in Nat
    BY <1>0, FS_Subset, FS_CardinalityType
  <2> QED BY <1>0, <1>1, <1>3, <2>1
<1>4. ASSUME NEW b, NEW r \in coming,
             made2 \subseteq made \cup {b}, coming2 = coming \ {r}
      PROVE  Cardinality(made2) + Cardinality(coming2) <= M + Cardinality(Request) - 1
  <2>1. /\ IsFiniteSet(made \cup {b})
        /\ Cardinality(made \cup {b}) <= Cardinality(made) + 1
    <3>1. IsFiniteSet(made \cup {b})
      BY FS_AddElement
    <3>2. Cardinality(made \cup {b}) =
            IF b \in made THEN Cardinality(made) ELSE Cardinality(made) + 1
      BY FS_AddElement
    <3> QED BY <1>1, <3>1, <3>2
  <2>2. /\ IsFiniteSet(made2) /\ Cardinality(made2) <= Cardinality(made \cup {b})
    BY <1>4, <2>1, FS_Subset
  <2>3. Cardinality(made2) \in Nat /\ Cardinality(made \cup {b}) \in Nat
    BY <2>1, <2>2, FS_CardinalityType
  <2>4. Cardinality(coming2) = Cardinality(coming) - 1
    BY <1>4, FS_RemoveElement
  <2> QED BY <1>0, <1>1, <2>1, <2>2, <2>3, <2>4
<1> QED BY <1>2, <1>3, <1>4

-----------------------------------------------------------------------------
\* How a step changes the paper bots and the creations still to come ...
PaperMoves ==
  \/ PaperBots' \subseteq PaperBots /\ Inserting' \subseteq Inserting
  \/ PaperBots' = PaperBots /\ Cardinality(PaperBots) < MaxPaperBots
  \/ \E b, r : /\ r \in Inserting /\ Inserting' = Inserting \ {r}
               /\ PaperBots' \subseteq PaperBots \cup {b}

LEMMA PaperMovesStep == TypeOK /\ RequestOK /\ [Next]_vars => PaperMoves
<1> SUFFICES ASSUME TypeOK, RequestOK, [Next]_vars PROVE PaperMoves
  OBVIOUS
<1> USE DEF TypeOK
<1>1. ASSUME NEW r \in Request, RequestStep(r) PROVE PaperMoves
  <2>1. CASE StartCreate(r)
    BY <2>1 DEF StartCreate, Goto, PaperBots, Inserting, PaperMoves, RequestOK
  <2>2. ASSUME NEW c \in Command, NEW b \in Bot, Start(r, c, b) PROVE PaperMoves
    BY <2>2 DEF Start, Goto, PaperBots, Inserting, PaperMoves, RequestOK
  <2>3. CASE Check(r)
    <3>1. PaperBots' = PaperBots
      BY <2>3 DEF Check, PaperBots
    <3>2. Inserting' \subseteq Inserting
      BY <2>3 DEF Check, Goto, Answer, Inserting
    <3> QED BY <3>1, <3>2 DEF PaperMoves
  <2>4. CASE Count(r)
    <3>1. PaperBots' = PaperBots
      BY <2>4 DEF Count, PaperBots
    <3>2. CASE cmd[r] = "create" /\ Entitled(Cardinality(PaperBots), MaxPaperBots)
      BY <3>1, <3>2 DEF Entitled, PaperMoves
    <3>3. CASE ~(cmd[r] = "create" /\ Entitled(Cardinality(PaperBots), MaxPaperBots))
      BY <2>4, <3>1, <3>3 DEF Count, Goto, Answer, Inserting, PaperMoves
    <3> QED BY <3>2, <3>3
  <2>5. CASE Insert(r)
    <3>1. PICK b \in Bot : status' = [status EXCEPT ![b] = "draft"]
      BY <2>5 DEF Insert
    <3>2. PaperBots' \subseteq PaperBots \cup {b}
      BY <3>1 DEF PaperBots
    <3>3. r \in Inserting /\ Inserting' = Inserting \ {r}
      BY <2>5 DEF Insert, Answer, Inserting
    <3> QED BY <3>2, <3>3 DEF PaperMoves
  <2>6. CASE Lock(r)
    BY <2>6 DEF Lock, Goto, PaperBots, Inserting, PaperMoves
  <2>7. CASE Commit(r)
    <3>1. PaperBots' \subseteq PaperBots
      BY <2>7 DEF Commit, Committing, PaperBots, RequestOK
    <3>2. Inserting' \subseteq Inserting
      BY <2>7 DEF Commit, Answer, Inserting
    <3> QED BY <3>1, <3>2 DEF PaperMoves
  <2>8. CASE Fail(r)
    BY <2>8 DEF Fail, Answer, PaperBots, Inserting, PaperMoves
  <2> QED BY <1>1, <2>1, <2>2, <2>3, <2>4, <2>5, <2>6, <2>7, <2>8 DEF RequestStep
<1>2. ASSUME NEW b \in Bot, AutoStop(b) \/ ApproveLive(b) PROVE PaperMoves
  <2>1. PaperBots' \subseteq PaperBots
    BY <1>2 DEF AutoStop, ApproveLive, PaperBots
  <2>2. Inserting' = Inserting
    BY <1>2 DEF AutoStop, ApproveLive, requestVars, Inserting
  <2> QED BY <2>1, <2>2 DEF PaperMoves
<1>3. CASE UNCHANGED vars
  BY <1>3 DEF vars, PaperBots, Inserting, PaperMoves
<1> QED BY <1>1, <1>2, <1>3 DEF Next

\* ... and the live bots and the promotions still to come.
LiveMoves ==
  \/ LiveBots' \subseteq LiveBots /\ Promoting' \subseteq Promoting
  \/ LiveBots' = LiveBots /\ Cardinality(LiveBots) < MaxLiveBots
  \/ \E b, r : /\ r \in Promoting /\ Promoting' = Promoting \ {r}
               /\ LiveBots' \subseteq LiveBots \cup {b}

LEMMA LiveMovesStep == TypeOK /\ RequestOK /\ [Next]_vars => LiveMoves
<1> SUFFICES ASSUME TypeOK, RequestOK, [Next]_vars PROVE LiveMoves
  OBVIOUS
<1> USE DEF TypeOK
<1>1. ASSUME NEW r \in Request, RequestStep(r) PROVE LiveMoves
  <2>1. CASE StartCreate(r)
    BY <2>1 DEF StartCreate, Goto, LiveBots, Promoting, LiveMoves, RequestOK
  <2>2. ASSUME NEW c \in Command, NEW b \in Bot, Start(r, c, b) PROVE LiveMoves
    BY <2>2 DEF Start, Goto, LiveBots, Promoting, LiveMoves, RequestOK
  <2>3. CASE Check(r)
    <3>1. LiveBots' = LiveBots
      BY <2>3 DEF Check, LiveBots
    <3>2. Promoting' \subseteq Promoting
      BY <2>3 DEF Check, Goto, Answer, Promoting
    <3> QED BY <3>1, <3>2 DEF LiveMoves
  <2>4. CASE Count(r)
    <3>1. LiveBots' = LiveBots
      BY <2>4 DEF Count, LiveBots
    <3>2. CASE cmd[r] # "create" /\ Entitled(Cardinality(LiveBots), MaxLiveBots)
      BY <3>1, <3>2 DEF Entitled, LiveMoves
    <3>3. CASE ~(cmd[r] # "create" /\ Entitled(Cardinality(LiveBots), MaxLiveBots))
      BY <2>4, <3>1, <3>3 DEF Count, Goto, Answer, Promoting, LiveMoves
    <3> QED BY <3>2, <3>3
  <2>5. CASE Insert(r)
    BY <2>5 DEF Insert, Answer, LiveBots, Promoting, LiveMoves
  <2>6. CASE Lock(r)
    BY <2>6 DEF Lock, Goto, LiveBots, Promoting, LiveMoves
  <2>7. CASE Commit(r)
    <3>1. CASE cmd[r] = "request_live"
      <4>1. LiveBots' \subseteq LiveBots \cup {bot[r]}
        BY <2>7 DEF Commit, Committing, LiveBots
      <4>2. r \in Promoting /\ Promoting' = Promoting \ {r}
        BY <2>7, <3>1 DEF Commit, Answer, Promoting
      <4> QED BY <4>1, <4>2 DEF LiveMoves
    <3>2. CASE cmd[r] # "request_live"
      <4>1. Target(cmd[r]) \in {"paper_active", "paused", "stopped"}
        BY <3>2 DEF Target
      <4>2. LiveBots' \subseteq LiveBots
        BY <2>7, <4>1 DEF Commit, Committing, LiveBots
      <4>3. Promoting' \subseteq Promoting
        BY <2>7 DEF Commit, Answer, Promoting
      <4> QED BY <4>2, <4>3 DEF LiveMoves
    <3> QED BY <3>1, <3>2
  <2>8. CASE Fail(r)
    BY <2>8 DEF Fail, Answer, LiveBots, Promoting, LiveMoves
  <2> QED BY <1>1, <2>1, <2>2, <2>3, <2>4, <2>5, <2>6, <2>7, <2>8 DEF RequestStep
<1>2. ASSUME NEW b \in Bot, AutoStop(b) \/ ApproveLive(b) PROVE LiveMoves
  <2>1. LiveBots' \subseteq LiveBots
    BY <1>2 DEF AutoStop, ApproveLive, LiveBots
  <2>2. Promoting' = Promoting
    BY <1>2 DEF AutoStop, ApproveLive, requestVars, Promoting
  <2> QED BY <2>1, <2>2 DEF LiveMoves
<1>3. CASE UNCHANGED vars
  BY <1>3 DEF vars, LiveBots, Promoting, LiveMoves
<1> QED BY <1>1, <1>2, <1>3 DEF Next

LEMMA BookingStep == TypeOK /\ RequestOK /\ BookingOK /\ [Next]_vars => BookingOK'
<1> SUFFICES ASSUME TypeOK, RequestOK, BookingOK, [Next]_vars PROVE BookingOK'
  OBVIOUS
<1>1. PaperMoves /\ LiveMoves
  BY PaperMovesStep, LiveMovesStep
<1>2. Inserting' \subseteq Request /\ Promoting' \subseteq Request
  BY DEF Inserting, Promoting
<1>3. MaxPaperBots \in Nat /\ MaxLiveBots \in Nat
  BY LifecycleAssumption DEF LifecycleAssumption
<1>4. Cardinality(PaperBots') + Cardinality(Inserting')
        <= MaxPaperBots + Cardinality(Request) - 1
  BY <1>1, <1>2, <1>3, Finite, Room DEF PaperMoves, BookingOK
<1>5. Cardinality(LiveBots') + Cardinality(Promoting')
        <= MaxLiveBots + Cardinality(Request) - 1
  BY <1>1, <1>2, <1>3, Finite, Room DEF LiveMoves, BookingOK
<1> QED BY <1>4, <1>5 DEF BookingOK

\* The invariant holds in every reachable state, for any bots, requests and plan.
THEOREM Invariance == Spec => []LInv
<1>1. LInv /\ [Next]_vars => LInv'
  BY TypeStep, RequestOKStep, LockStep, StopStep, BookingStep DEF LInv
<1> QED BY InitLInv, <1>1, PTL DEF Spec

\* Rows and requests keep their types.
THEOREM TypeCorrect == Spec => []TypeOK
<1>1. LInv => TypeOK
  BY DEF LInv
<1> QED BY Invariance, <1>1, PTL

\* A plan is overbooked by at most the number of concurrent requests less one.
THEOREM BookingBound == Spec => []OverbookingBounded
<1>1. LInv => OverbookingBounded
  <2> SUFFICES ASSUME LInv PROVE OverbookingBounded
    OBVIOUS
  <2>1. MaxPaperBots \in Nat /\ MaxLiveBots \in Nat
    BY LifecycleAssumption DEF LifecycleAssumption
  <2> QED BY <2>1, Finite DEF LInv, BookingOK, OverbookingBounded
<1> QED BY Invariance, <1>1, PTL

\* A transition row tells the status that was replaced and the one that replaced it.
THEOREM TrailCorrect == Spec => TrailIsTrue
<1>1. LInv /\ [Next]_vars =>
        [\A b \in Bot : trail'[b] # trail[b] =>
           trail'[b] = [from |-> status[b], to |-> status'[b]]]_vars
  <2> SUFFICES ASSUME LInv, [Next]_vars, NEW b \in Bot, trail'[b] # trail[b]
               PROVE  trail'[b] = [from |-> status[b], to |-> status'[b]]
    OBVIOUS
  <2> USE DEF LInv, TypeOK
  <2>1. PICK r \in Request : Commit(r)
    BY DEF Next, RequestStep, StartCreate, Start, Check, Count, Insert, Lock, Fail,
           AutoStop, ApproveLive, vars
  <2>2. bot[r] = b /\ old[r] = status[b]
    BY <2>1 DEF Commit, LockOK
  <2> QED BY <2>1, <2>2 DEF Commit, Committing
<1> QED BY Invariance, <1>1, PTL DEF Spec, TrailIsTrue

\* A stopped bot comes back only by a request overtaken by the stop, or by an auto-stop.
THEOREM Revival == Spec => RevivedOnlyByRace
<1>1. LInv /\ [Next]_vars =>
        [\A b \in Bot : status[b] = "stopped" /\ status'[b] # "stopped" =>
           \/ \E r \in overtaken : bot[r] = b /\ pc[r] = "commit" /\ pc'[r] = "idle"
           \/ status'[b] = "paused" /\ trail' = trail]_vars
  <2> SUFFICES ASSUME LInv, [Next]_vars, NEW b \in Bot,
                      status[b] = "stopped", status'[b] # "stopped"
               PROVE  \/ \E r \in overtaken : bot[r] = b /\ pc[r] = "commit" /\ pc'[r] = "idle"
                      \/ status'[b] = "paused" /\ trail' = trail
    OBVIOUS
  <2> USE DEF LInv, TypeOK
  <2>1. CASE \E r \in Request : RequestStep(r)
    <3>1. PICK r \in Request : RequestStep(r)
      BY <2>1
    <3>2. ~Insert(r)
      BY DEF Insert
    <3>3. Commit(r)
      BY <3>1, <3>2 DEF RequestStep, StartCreate, Start, Check, Count, Lock, Fail
    <3>4. bot[r] = b /\ r \in overtaken
      BY <3>3 DEF Commit, Committing, StopOK, RequestOK
    <3> QED BY <3>3, <3>4 DEF Commit, Answer
  <2>2. ASSUME NEW c \in Bot, AutoStop(c) \/ ApproveLive(c)
        PROVE  status'[b] = "paused" /\ trail' = trail
    BY <2>2 DEF AutoStop, ApproveLive
  <2>3. CASE UNCHANGED vars
    BY <2>3 DEF vars
  <2> QED BY <2>1, <2>2, <2>3 DEF Next
<1> QED BY Invariance, <1>1, PTL DEF Spec, RevivedOnlyByRace
=============================================================================
