--------------------------- MODULE WebClientProofs ---------------------------
(***************************************************************************)
(* What the assistant, the sessions and the list pages show, for any       *)
(* texts, tabs, calls, users and lists, and that each of the six modules   *)
(* behaves in WebClient as it does alone.                                  *)
(*                                                                         *)
(* The assistant's counters are bounded by what a text is still owed: one  *)
(* in the handler's hands has one answer to come.  A text that met no      *)
(* outage is followed from its handler to its answer.                      *)
(*                                                                         *)
(* In a session two calls of a tab know of each other: a call that signs   *)
(* its tab in takes the form away from every other one, and then that one  *)
(* must have been there together with it.                                  *)
(*                                                                         *)
(* What a list page says follows from its entry: PagesInv says whose fetch *)
(* is under way.  Its figures are sums and counts over a list of any       *)
(* length, and are compared by going through the list place by place       *)
(* (AllNumbers).                                                           *)
(***************************************************************************)
EXTENDS WebClient, ConsoleProofs, LiveFeedProofs, FiniteSetTheorems, WellFoundedInduction

(* The assistant. *)

\* A text the handler holds is owed one answer more.
Owed ==
  \A t \in Text : /\ UnderWay(t) <= givenTo[t] + resent[t]
                  /\ update[t] = "given" => UnderWay(t) < givenTo[t] + resent[t]

\* While a text nothing happened to is on its way both sides subscribe; before it was
\* handled there is no answer to it, and afterwards there is one.
Undisturbed ==
  \A t \in Text \ troubled :
    /\ OnItsWay(t) => hears = Side
    /\ update[t] \in {"unsent", "queued"} => givenTo[t] = 0
    /\ ~HandlerDone(t) => UnderWay(t) = 0
    /\ givenTo[t] > 0 /\ HandlerDone(t) => UnderWay(t) = 1

AssistantInv == AssistantTypeOK /\ Owed /\ Undisturbed

-----------------------------------------------------------------------------
LEMMA AgentType == \A t \in Text : AgentFor(t) \in Agent
  BY DEF AgentFor, Agent

\* A counter goes up, or down from a value above zero.
LEMMA AddType ==
  ASSUME NEW f \in [Text -> Nat], NEW t \in Text
  PROVE  /\ Add(f, t) \in [Text -> Nat]
         /\ \A u \in Text : Add(f, t)[u] = IF u = t THEN f[u] + 1 ELSE f[u]
  BY DEF Add

LEMMA DropType ==
  ASSUME NEW f \in [Text -> Nat], NEW t \in Text, f[t] > 0
  PROVE  /\ Drop1(f, t) \in [Text -> Nat] /\ TaskDone(f, t) = Drop1(f, t)
         /\ \A u \in Text : Drop1(f, t)[u] = IF u = t THEN f[u] - 1 ELSE f[u]
  BY DEF Drop1, TaskDone

LEMMA AssistantInitInv == AssistantInit => AssistantInv
<1> SUFFICES ASSUME AssistantInit PROVE AssistantInv
  OBVIOUS
<1>1. AssistantTypeOK
  BY AssistantAssumption DEF AssistantInit, AssistantTypeOK, AssistantAssumption
<1>2. \A t \in Text : /\ UnderWay(t) = 0 /\ givenTo[t] = 0 /\ resent[t] = 0
                      /\ update[t] = "unsent" /\ ~OnItsWay(t)
  BY DEF AssistantInit, UnderWay, OnItsWay
<1>3. Owed /\ Undisturbed
  BY <1>2 DEF Owed, Undisturbed, HandlerDone, AssistantInit
<1> QED BY <1>1, <1>3 DEF AssistantInv

\* What arrives is counted once, if somebody subscribes.
LEMMA TaskArrivesTypes ==
  ASSUME AssistantTypeOK, NEW t \in Text, TaskArrives(t)
  PROVE  /\ tasks' \in [Text -> Nat] /\ worked' \subseteq Agent \X Text
         /\ \A u \in Text : tasks'[u] = IF u = t /\ "agents" \in hears THEN tasks[u] + 1
                                        ELSE tasks[u]
<1>1. <<AgentFor(t), t>> \in Agent \X Text
  BY AgentType
<1>2. tasks \in [Text -> Nat] /\ worked \subseteq Agent \X Text
  BY DEF AssistantTypeOK
<1>3. Add(tasks, t) \in [Text -> Nat]
      /\ \A u \in Text : Add(tasks, t)[u] = IF u = t THEN tasks[u] + 1 ELSE tasks[u]
  BY <1>2, AddType
<1> QED BY <1>1, <1>2, <1>3 DEF TaskArrives

LEMMA ResponseArrivesTypes ==
  ASSUME AssistantTypeOK, NEW t \in Text, ResponseArrives(t)
  PROVE  /\ responses' \in [Text -> Nat]
         /\ \A u \in Text : responses'[u] = IF u = t /\ "bot" \in hears THEN responses[u] + 1
                                            ELSE responses[u]
<1>1. responses \in [Text -> Nat]
  BY DEF AssistantTypeOK
<1>2. Add(responses, t) \in [Text -> Nat]
      /\ \A u \in Text : Add(responses, t)[u] = IF u = t THEN responses[u] + 1 ELSE responses[u]
  BY <1>1, AddType
<1> QED BY <1>1, <1>2 DEF ResponseArrives

LEMMA OutageTypes ==
  ASSUME AssistantTypeOK, NEW T \in SUBSET Text, OutageFor(T)
  PROVE  outages' \in 0..MaxOutages /\ troubled' \subseteq Text
  BY AssistantAssumption DEF OutageFor, AssistantTypeOK

LEMMA AssistantTypeStep ==
  ASSUME AssistantTypeOK, [AssistantNext]_assistantVars
  PROVE  AssistantTypeOK'
<1> USE AssistantAssumption
<1>0. /\ \A t \in Text : {t} \in SUBSET Text
      /\ {t \in Text : OnItsWay(t)} \in SUBSET Text
  OBVIOUS
<1>1. ASSUME NEW t \in Text, UserWrites(t) PROVE AssistantTypeOK'
  BY <1>1 DEF UserWrites, AssistantTypeOK, sideVars, outageVars
<1>2. ASSUME NEW t \in Text, Handle(t) PROVE AssistantTypeOK'
  <2>1. Add(givenTo, t) \in [Text -> Nat]
    BY AddType DEF AssistantTypeOK
  <2>2. CASE Ignored(t)
    BY <1>2, <2>2 DEF Handle, AssistantTypeOK, sideVars
  <2>3. CASE ~Ignored(t)
    BY <1>2, <2>1, <2>3 DEF Handle, AssistantTypeOK, sideVars
  <2> QED BY <2>2, <2>3
<1>3. ASSUME NEW t \in Text, PublishTask(t) PROVE AssistantTypeOK'
  <2>1. tasks' \in [Text -> Nat] /\ worked' \subseteq Agent \X Text
    BY <1>3, TaskArrivesTypes DEF PublishTask
  <2> QED BY <1>3, <2>1 DEF PublishTask, AssistantTypeOK, sideVars, outageVars
<1>4. ASSUME NEW t \in Text, Answer(t) PROVE AssistantTypeOK'
  <2>1. responses' \in [Text -> Nat]
    BY <1>4, ResponseArrivesTypes DEF Answer
  <2>2. tasks' \in [Text -> Nat]
    BY <1>4, DropType DEF Answer, AssistantTypeOK
  <2> QED BY <1>4, <2>1, <2>2 DEF Answer, AssistantTypeOK, sideVars, outageVars
<1>5. ASSUME NEW t \in Text, SendMessage(t) PROVE AssistantTypeOK'
  <2>1. responses' \in [Text -> Nat] /\ replies' \in [Text -> Nat]
    BY <1>5, AddType, DropType DEF SendMessage, AssistantTypeOK
  <2> QED BY <1>5, <2>1 DEF SendMessage, AssistantTypeOK, sideVars, outageVars
<1>6. ASSUME NEW t \in Text, TaskResent(t) PROVE AssistantTypeOK'
  <2>1. tasks' \in [Text -> Nat] /\ worked' \subseteq Agent \X Text
    BY <1>6, TaskArrivesTypes DEF TaskResent
  <2>2. outages' \in 0..MaxOutages /\ troubled' \subseteq Text
    BY <1>0, <1>6, OutageTypes DEF TaskResent
  <2>3. resent' \in [Text -> Nat]
    BY <1>6, AddType DEF TaskResent, AssistantTypeOK
  <2> QED BY <1>6, <2>1, <2>2, <2>3 DEF TaskResent, AssistantTypeOK, sideVars
<1>7. ASSUME NEW t \in Text, AnswerResent(t) PROVE AssistantTypeOK'
  <2>1. responses' \in [Text -> Nat]
    BY <1>7, ResponseArrivesTypes DEF AnswerResent
  <2>2. outages' \in 0..MaxOutages /\ troubled' \subseteq Text
    BY <1>0, <1>7, OutageTypes DEF AnswerResent
  <2>3. resent' \in [Text -> Nat]
    BY <1>7, AddType DEF AnswerResent, AssistantTypeOK
  <2> QED BY <1>7, <2>1, <2>2, <2>3 DEF AnswerResent, AssistantTypeOK, sideVars
<1>8. ASSUME NEW t \in Text, AnswerUnpublished(t) PROVE AssistantTypeOK'
  <2>1. tasks' \in [Text -> Nat]
    BY <1>8, DropType DEF AnswerUnpublished, AssistantTypeOK
  <2>2. outages' \in 0..MaxOutages /\ troubled' \subseteq Text
    BY <1>0, <1>8, OutageTypes DEF AnswerUnpublished
  <2> QED BY <1>8, <2>1, <2>2 DEF AnswerUnpublished, AssistantTypeOK, sideVars
<1>9. CASE Confirm
  BY <1>9 DEF Confirm, AssistantTypeOK, sideVars, outageVars
<1>10. ASSUME NEW s \in Side, SubscriberDrops(s) PROVE AssistantTypeOK'
  <2>1. outages' \in 0..MaxOutages /\ troubled' \subseteq Text
    BY <1>0, <1>10, OutageTypes DEF SubscriberDrops
  <2> QED BY <1>10, <2>1 DEF SubscriberDrops, AssistantTypeOK
<1>11. ASSUME NEW s \in Side, Subscribe(s) \/ Restart(s) PROVE AssistantTypeOK'
  BY <1>11 DEF Subscribe, Restart, AssistantTypeOK, outageVars
<1>12. ASSUME NEW s \in Side, ProcessEnds(s)
       PROVE  /\ outages' \in 0..MaxOutages /\ troubled' \subseteq Text
              /\ hears' \subseteq up' /\ up' \subseteq Side /\ resent' \in [Text -> Nat]
  <2>1. outages' \in 0..MaxOutages /\ troubled' \subseteq Text
    BY <1>0, <1>12, OutageTypes DEF ProcessEnds
  <2> QED BY <1>12, <2>1 DEF ProcessEnds, AssistantTypeOK
<1>13. "bot" \in Side /\ "agents" \in Side
  BY DEF Side
<1>14. CASE BotEnds
  <2>1. ProcessEnds("bot")
    BY <1>14 DEF BotEnds
  <2> QED BY <1>12, <1>13, <1>14, <2>1 DEF BotEnds, AssistantTypeOK
<1>15. CASE AgentsEnd
  <2>1. ProcessEnds("agents")
    BY <1>15 DEF AgentsEnd
  <2> QED BY <1>12, <1>13, <1>15, <2>1 DEF AgentsEnd, AssistantTypeOK
<1>16. CASE UNCHANGED assistantVars
  BY <1>16 DEF assistantVars, sideVars, outageVars, AssistantTypeOK
<1> QED BY <1>1, <1>2, <1>3, <1>4, <1>5, <1>6, <1>7, <1>8, <1>9, <1>10, <1>11, <1>14, <1>15,
           <1>16 DEF AssistantNext

\* An answer on its way stays under way, or is lost when its publication fails or the bot
\* does not subscribe; one more comes of a publication that is sent again.
LEMMA AnswerMoves ==
  ASSUME AssistantTypeOK, NEW t \in Text,
         Answer(t) \/ AnswerUnpublished(t) \/ SendMessage(t) \/ AnswerResent(t)
  PROVE  /\ UNCHANGED <<update, givenTo, hears>> /\ OnItsWay(t)
         /\ troubled' = troubled \/ troubled' = troubled \cup {t}
         /\ \A u \in Text :
              /\ UnderWay(u) \in Nat /\ UnderWay(u)' \in Nat
              /\ u # t => UnderWay(u)' = UnderWay(u) /\ resent'[u] = resent[u]
                          /\ (OnItsWay(u)' <=> OnItsWay(u))
         /\ UnderWay(t)' - resent'[t] <= UnderWay(t) - resent[t]
         /\ resent'[t] \in Nat
         /\ UnderWay(t)' = UnderWay(t) \/ t \in troubled' \/ hears # Side
<1>0. /\ tasks \in [Text -> Nat] /\ responses \in [Text -> Nat] /\ replies \in [Text -> Nat]
      /\ resent \in [Text -> Nat]
      /\ "bot" \notin hears => hears # Side
  BY DEF AssistantTypeOK, Side
<1>1. CASE Answer(t)
  <2>1. \A u \in Text : /\ tasks'[u] = IF u = t THEN tasks[u] - 1 ELSE tasks[u]
                        /\ replies'[u] = replies[u] /\ tasks[t] > 0 /\ resent'[u] = resent[u]
    BY <1>0, <1>1, DropType DEF Answer, outageVars
  <2>2. \A u \in Text : responses'[u] = IF u = t /\ "bot" \in hears THEN responses[u] + 1
                                        ELSE responses[u]
    BY <1>1, ResponseArrivesTypes DEF Answer
  <2>3. UNCHANGED <<update, givenTo, hears, troubled>>
    BY <1>1 DEF Answer, sideVars, outageVars
  <2>8. OnItsWay(t) /\ \A u \in Text : u # t => (OnItsWay(u)' <=> OnItsWay(u))
    BY <2>1, <2>2, <2>3 DEF OnItsWay
  <2>9. \A u \in Text : /\ UnderWay(u) \in Nat /\ UnderWay(u)' \in Nat
                        /\ u # t => UnderWay(u)' = UnderWay(u)
    BY <1>0, <2>1, <2>2, <2>3 DEF UnderWay
  <2>10. /\ UnderWay(t)' - resent'[t] <= UnderWay(t) - resent[t] /\ resent'[t] \in Nat
    BY <1>0, <2>1, <2>2 DEF UnderWay
  <2>11. UnderWay(t)' = UnderWay(t) \/ t \in troubled' \/ hears # Side
    BY <1>0, <2>1, <2>2, <2>3 DEF UnderWay
  <2> QED BY <2>1, <2>2, <2>3, <2>8, <2>9, <2>10, <2>11
<1>2. CASE AnswerUnpublished(t)
  <2>1. \A u \in Text : /\ tasks'[u] = IF u = t THEN tasks[u] - 1 ELSE tasks[u]
                        /\ tasks[t] > 0 /\ responses'[u] = responses[u] /\ replies'[u] = replies[u]
                        /\ resent'[u] = resent[u]
    BY <1>0, <1>2, DropType DEF AnswerUnpublished
  <2>2. UNCHANGED <<update, givenTo, hears>> /\ troubled' = troubled \cup {t}
    BY <1>2 DEF AnswerUnpublished, sideVars, OutageFor
  <2>8. OnItsWay(t) /\ \A u \in Text : u # t => (OnItsWay(u)' <=> OnItsWay(u))
    BY <2>1, <2>2 DEF OnItsWay
  <2>9. \A u \in Text : /\ UnderWay(u) \in Nat /\ UnderWay(u)' \in Nat
                        /\ u # t => UnderWay(u)' = UnderWay(u)
    BY <1>0, <2>1, <2>2 DEF UnderWay
  <2>10. /\ UnderWay(t)' - resent'[t] <= UnderWay(t) - resent[t] /\ resent'[t] \in Nat
    BY <1>0, <2>1 DEF UnderWay
  <2>11. UnderWay(t)' = UnderWay(t) \/ t \in troubled' \/ hears # Side
    BY <1>0, <2>1, <2>2 DEF UnderWay
  <2> QED BY <2>1, <2>2, <2>8, <2>9, <2>10, <2>11
<1>3. CASE SendMessage(t)
  <2>1. \A u \in Text : /\ responses'[u] = IF u = t THEN responses[u] - 1 ELSE responses[u]
                        /\ replies'[u] = IF u = t THEN replies[u] + 1 ELSE replies[u]
                        /\ responses[t] > 0 /\ tasks'[u] = tasks[u] /\ resent'[u] = resent[u]
    BY <1>0, <1>3, AddType, DropType DEF SendMessage, outageVars
  <2>2. UNCHANGED <<update, givenTo, hears, troubled>>
    BY <1>3 DEF SendMessage, sideVars, outageVars
  <2>8. OnItsWay(t) /\ \A u \in Text : u # t => (OnItsWay(u)' <=> OnItsWay(u))
    BY <2>1, <2>2 DEF OnItsWay
  <2>9. \A u \in Text : /\ UnderWay(u) \in Nat /\ UnderWay(u)' \in Nat
                        /\ u # t => UnderWay(u)' = UnderWay(u)
    BY <1>0, <2>1, <2>2 DEF UnderWay
  <2>10. /\ UnderWay(t)' - resent'[t] <= UnderWay(t) - resent[t] /\ resent'[t] \in Nat
    BY <1>0, <2>1 DEF UnderWay
  <2>11. UnderWay(t)' = UnderWay(t) \/ t \in troubled' \/ hears # Side
    BY <1>0, <2>1, <2>2 DEF UnderWay
  <2> QED BY <2>1, <2>2, <2>8, <2>9, <2>10, <2>11
<1>4. CASE AnswerResent(t)
  <2>1. \A u \in Text : /\ tasks'[u] = tasks[u] /\ replies'[u] = replies[u] /\ tasks[t] > 0
                        /\ resent'[u] = IF u = t THEN resent[u] + 1 ELSE resent[u]
    BY <1>0, <1>4, AddType DEF AnswerResent
  <2>2. \A u \in Text : responses'[u] = IF u = t /\ "bot" \in hears THEN responses[u] + 1
                                        ELSE responses[u]
    BY <1>4, ResponseArrivesTypes DEF AnswerResent
  <2>3. UNCHANGED <<update, givenTo, hears>> /\ troubled' = troubled \cup {t}
    BY <1>4 DEF AnswerResent, sideVars, OutageFor
  <2>8. OnItsWay(t) /\ \A u \in Text : u # t => (OnItsWay(u)' <=> OnItsWay(u))
    BY <2>1, <2>2, <2>3 DEF OnItsWay
  <2>9. \A u \in Text : /\ UnderWay(u) \in Nat /\ UnderWay(u)' \in Nat
                        /\ u # t => UnderWay(u)' = UnderWay(u)
    BY <1>0, <2>1, <2>2, <2>3 DEF UnderWay
  <2>10. /\ UnderWay(t)' - resent'[t] <= UnderWay(t) - resent[t] /\ resent'[t] \in Nat
    BY <1>0, <2>1, <2>2 DEF UnderWay
  <2>11. UnderWay(t)' = UnderWay(t) \/ t \in troubled' \/ hears # Side
    BY <1>0, <2>1, <2>2, <2>3 DEF UnderWay
  <2> QED BY <2>1, <2>2, <2>3, <2>8, <2>9, <2>10, <2>11
<1> QED BY <1>1, <1>2, <1>3, <1>4

\* A task that is published, or published and sent again.
LEMMA TaskMoves ==
  ASSUME AssistantTypeOK, NEW t \in Text, PublishTask(t) \/ TaskResent(t)
  PROVE  /\ UNCHANGED <<givenTo, hears>> /\ OnItsWay(t) /\ ~HandlerDone(t)
         /\ \A u \in Text :
              /\ UnderWay(u) \in Nat
              /\ u # t => /\ UnderWay(u)' = UnderWay(u) /\ resent'[u] = resent[u]
                          /\ update'[u] = update[u] /\ (OnItsWay(u)' <=> OnItsWay(u))
         /\ UnderWay(t)' = UnderWay(t) + IF "agents" \in hears THEN 1 ELSE 0
<1>0. /\ tasks \in [Text -> Nat] /\ responses \in [Text -> Nat] /\ replies \in [Text -> Nat]
      /\ resent \in [Text -> Nat] /\ update \in [Text -> {"unsent", "queued", "given", "taken", "confirmed"}]
  BY DEF AssistantTypeOK
<1>1. /\ \A u \in Text : tasks'[u] = IF u = t /\ "agents" \in hears THEN tasks[u] + 1
                                     ELSE tasks[u]
      /\ UNCHANGED <<givenTo, responses, replies, hears>>
      /\ update[t] = "given"
  BY TaskArrivesTypes DEF PublishTask, TaskResent, sideVars
<1>2. \A u \in Text : u # t => update'[u] = update[u] /\ resent'[u] = resent[u]
  BY <1>0, AddType DEF PublishTask, TaskResent, outageVars
<1> QED BY <1>0, <1>1, <1>2 DEF UnderWay, OnItsWay, HandlerDone

LEMMA OwedStep ==
  ASSUME AssistantTypeOK, AssistantTypeOK', Owed, [AssistantNext]_assistantVars
  PROVE  Owed'
<1>0. /\ tasks \in [Text -> Nat] /\ responses \in [Text -> Nat] /\ replies \in [Text -> Nat]
      /\ givenTo \in [Text -> Nat] /\ resent \in [Text -> Nat]
      /\ update \in [Text -> {"unsent", "queued", "given", "taken", "confirmed"}]
      /\ \A t \in Text : UnderWay(t) \in Nat
  BY DEF AssistantTypeOK, UnderWay
<1>1. ASSUME NEW t \in Text, UserWrites(t) PROVE Owed'
  BY <1>0, <1>1 DEF UserWrites, Owed, UnderWay, outageVars
<1>2. ASSUME NEW t \in Text, Handle(t) PROVE Owed'
  <2>1. \A u \in Text : /\ UnderWay(u)' = UnderWay(u) /\ resent'[u] = resent[u]
                        /\ u # t => update'[u] = update[u] /\ givenTo'[u] = givenTo[u]
    BY <1>0, <1>2, AddType DEF Handle, UnderWay
  <2>2. \/ update'[t] = "taken" /\ givenTo'[t] = givenTo[t]
        \/ givenTo'[t] = givenTo[t] + 1
    BY <1>0, <1>2, AddType DEF Handle
  <2> QED BY <1>0, <2>1, <2>2 DEF Owed
<1>3. ASSUME NEW t \in Text, PublishTask(t) PROVE Owed'
  <2>1. update'[t] = "taken" /\ update[t] = "given" /\ resent' = resent
    BY <1>0, <1>3 DEF PublishTask, outageVars
  <2> QED BY <1>0, <1>3, <2>1, TaskMoves DEF Owed
<1>4. ASSUME NEW t \in Text, TaskResent(t) PROVE Owed'
  <2>1. update' = update /\ update[t] = "given" /\ resent'[t] = resent[t] + 1
    BY <1>0, <1>4, AddType DEF TaskResent
  <2> QED BY <1>0, <1>4, <2>1, TaskMoves DEF Owed
<1>5. ASSUME NEW t \in Text, Answer(t) \/ AnswerUnpublished(t) \/ SendMessage(t) \/ AnswerResent(t)
      PROVE  Owed'
  BY <1>0, <1>5, AnswerMoves DEF Owed
<1>6. CASE Confirm
  BY <1>0, <1>6 DEF Confirm, Owed, UnderWay, outageVars
<1>7. CASE BotEnds \/ AgentsEnd
  <2>1. \A t \in Text : /\ UnderWay(t)' <= UnderWay(t) /\ UnderWay(t)' \in Nat
                        /\ update'[t] = "given" => update[t] = "given"
    BY <1>0, <1>7 DEF BotEnds, AgentsEnd, UnderWay
  <2>2. givenTo' = givenTo /\ resent' = resent
    BY <1>7 DEF BotEnds, AgentsEnd, ProcessEnds
  <2> QED BY <1>0, <2>1, <2>2 DEF Owed
<1>8. CASE UNCHANGED <<update, givenTo, tasks, responses, replies, resent>>
  BY <1>8 DEF Owed, UnderWay
<1> QED BY <1>1, <1>2, <1>3, <1>4, <1>5, <1>6, <1>7, <1>8
        DEF AssistantNext, Subscribe, SubscriberDrops, Restart, assistantVars, outageVars

LEMMA UndisturbedStep ==
  ASSUME AssistantTypeOK, AssistantTypeOK', Undisturbed, [AssistantNext]_assistantVars
  PROVE  Undisturbed'
<1>0. /\ tasks \in [Text -> Nat] /\ responses \in [Text -> Nat] /\ replies \in [Text -> Nat]
      /\ givenTo \in [Text -> Nat]
      /\ update \in [Text -> {"unsent", "queued", "given", "taken", "confirmed"}]
      /\ hears \subseteq Side
  BY DEF AssistantTypeOK
<1>1. ASSUME NEW t \in Text, UserWrites(t) PROVE Undisturbed'
  <2>1. \A u \in Text : /\ UnderWay(u)' = UnderWay(u) /\ (OnItsWay(u)' <=> OnItsWay(u))
                        /\ (HandlerDone(u)' <=> HandlerDone(u))
                        /\ update'[u] \in {"unsent", "queued"} => update[u] \in {"unsent", "queued"}
    BY <1>0, <1>1 DEF UserWrites, UnderWay, OnItsWay, HandlerDone
  <2>2. UNCHANGED <<givenTo, hears, troubled>>
    BY <1>1 DEF UserWrites, sideVars, outageVars
  <2> QED BY <2>1, <2>2 DEF Undisturbed
<1>2. ASSUME NEW t \in Text, Handle(t) PROVE Undisturbed'
  <2>1. \A u \in Text : /\ UnderWay(u)' = UnderWay(u) /\ UnderWay(u) \in Nat
                        /\ u # t => /\ update'[u] = update[u] /\ givenTo'[u] = givenTo[u]
                                    /\ (OnItsWay(u)' <=> OnItsWay(u))
    BY <1>0, <1>2, AddType DEF Handle, UnderWay, OnItsWay
  <2>2. \/ update'[t] = "taken" /\ givenTo'[t] = givenTo[t]
        \/ update'[t] = "given"
    BY <1>0, <1>2 DEF Handle
  <2>3. /\ hears' = hears /\ update[t] = "queued" /\ troubled \subseteq troubled'
        /\ hears = Side \/ t \in troubled'
    BY <1>2 DEF Handle, sideVars
  <2> QED BY <2>1, <2>2, <2>3 DEF Undisturbed, HandlerDone
<1>3. ASSUME NEW t \in Text, PublishTask(t) PROVE Undisturbed'
  <2>1. /\ update'[t] = "taken" /\ update[t] = "given" /\ troubled' = troubled
    BY <1>0, <1>3 DEF PublishTask, outageVars
  <2>2. hears = Side => "agents" \in hears
    BY DEF Side
  <2> QED BY <1>3, <2>1, <2>2, TaskMoves DEF Undisturbed, HandlerDone
<1>4. ASSUME NEW t \in Text, TaskResent(t) PROVE Undisturbed'
  <2>1. update' = update /\ troubled' = troubled \cup {t}
    BY <1>4 DEF TaskResent, OutageFor
  <2> QED BY <1>4, <2>1, TaskMoves DEF Undisturbed, HandlerDone
<1>5. ASSUME NEW t \in Text, Answer(t) \/ AnswerUnpublished(t) \/ SendMessage(t) \/ AnswerResent(t)
      PROVE  Undisturbed'
  <2>1. t \notin troubled' => t \notin troubled /\ hears = Side /\ UnderWay(t)' = UnderWay(t)
    BY <1>5, AnswerMoves DEF Undisturbed
  <2> QED BY <1>5, <2>1, AnswerMoves DEF Undisturbed, HandlerDone
<1>6. CASE Confirm
  <2>1. \A u \in Text : /\ UnderWay(u)' = UnderWay(u)
                        /\ OnItsWay(u)' => OnItsWay(u)
                        /\ (HandlerDone(u)' <=> HandlerDone(u))
                        /\ update'[u] \in {"unsent", "queued"} => update[u] \in {"unsent", "queued"}
    BY <1>0, <1>6 DEF Confirm, UnderWay, OnItsWay, HandlerDone
  <2>2. UNCHANGED <<givenTo, hears, troubled>>
    BY <1>6 DEF Confirm, sideVars, outageVars
  <2> QED BY <2>1, <2>2 DEF Undisturbed
<1>7. CASE BotEnds \/ AgentsEnd
  <2>1. troubled' = troubled \cup {u \in Text : OnItsWay(u)} /\ givenTo' = givenTo
    BY <1>7 DEF BotEnds, AgentsEnd, ProcessEnds, OutageFor
  <2>2. \A u \in Text : ~OnItsWay(u) =>
          UnderWay(u)' = UnderWay(u) /\ update'[u] = update[u] /\ ~OnItsWay(u)'
    BY <1>0, <1>7 DEF BotEnds, AgentsEnd, UnderWay, OnItsWay
  <2> QED BY <2>1, <2>2 DEF Undisturbed, HandlerDone
<1>8. ASSUME NEW s \in Side, SubscriberDrops(s) PROVE Undisturbed'
  <2>1. /\ troubled' = troubled \cup {u \in Text : OnItsWay(u)}
        /\ UNCHANGED <<update, givenTo, tasks, responses, replies>>
    BY <1>8 DEF SubscriberDrops, OutageFor
  <2> QED BY <2>1 DEF Undisturbed, HandlerDone, UnderWay, OnItsWay
<1>9. ASSUME NEW s \in Side, Subscribe(s) \/ Restart(s) PROVE Undisturbed'
  <2>1. /\ UNCHANGED <<update, givenTo, tasks, responses, replies, troubled>>
        /\ hears = Side => hears' = Side
    BY <1>9 DEF Subscribe, Restart, outageVars
  <2> QED BY <2>1 DEF Undisturbed, HandlerDone, UnderWay, OnItsWay
<1>10. CASE UNCHANGED assistantVars
  BY <1>10 DEF assistantVars, sideVars, outageVars, Undisturbed, UnderWay, HandlerDone, OnItsWay
<1> QED BY <1>1, <1>2, <1>3, <1>4, <1>5, <1>6, <1>7, <1>8, <1>9, <1>10 DEF AssistantNext

-----------------------------------------------------------------------------
\* The invariant, whatever is written, restarted, sent again or lost.
THEOREM AssistantInvariance == AssistantSpec => []AssistantInv
<1>1. AssistantInv /\ [AssistantNext]_assistantVars => AssistantInv'
  BY AssistantTypeStep, OwedStep, UndisturbedStep DEF AssistantInv
<1> QED BY <1>1, AssistantInitInv, PTL DEF AssistantSpec

\* Every variable keeps its type.
THEOREM AssistantTypes == AssistantSpec => []AssistantTypeOK
<1>1. AssistantInv => AssistantTypeOK
  BY DEF AssistantInv
<1> QED BY <1>1, AssistantInvariance, PTL

\* There are never more answers than acknowledgements and publications sent again.
THEOREM AnswersAreAccountedFor == AssistantSpec => []AnswersAccountedFor
<1>1. AssistantInv => AnswersAccountedFor
  BY DEF AssistantInv, Owed, AnswersAccountedFor
<1> QED BY <1>1, AssistantInvariance, PTL

\* A text acknowledged that no outage met on its way is answered once, or will be.
THEOREM NothingLostUndisturbed == AssistantSpec => []LostOnlyByOutage
<1>1. AssistantInv => LostOnlyByOutage
  BY DEF AssistantInv, Undisturbed, LostOnlyByOutage
<1> QED BY <1>1, AssistantInvariance, PTL

-----------------------------------------------------------------------------
(* The sessions. *)

CallRecord == [out : BOOLEAN, tab : Tab, form : Form, held : BOOLEAN, both : BOOLEAN]

\* Two calls of one tab know of each other.
PairsKnown ==
  \A c, d \in Call : c # d /\ calls[c].out /\ calls[d].out /\ calls[c].tab = calls[d].tab =>
    calls[c].both

SessionInv == SessionTypeOK /\ TabAgreesWithStorage /\ PairsKnown /\ LateSignInNeedsTwoCalls

LEMMA NoCallIsCall == NoCallOut \in CallRecord /\ ~NoCallOut.out
  BY SessionAssumption DEF NoCallOut, CallRecord, Form

LEMMA UnmountedCalls ==
  ASSUME NEW cs \in [Call -> CallRecord], NEW t \in Tab
  PROVE  /\ Unmounted(cs, t) \in [Call -> CallRecord]
         /\ \A c \in Call : /\ Unmounted(cs, t)[c].out = cs[c].out
                            /\ Unmounted(cs, t)[c].tab = cs[c].tab
                            /\ Unmounted(cs, t)[c].both = cs[c].both
                            /\ cs[c].tab # t => Unmounted(cs, t)[c].held = cs[c].held
  BY DEF Unmounted, CallRecord

\* What is stored and held is of the right kind, whatever calls run.
THEOREM SessionType == SessionSpec => []SessionTypeOK
<1>1. SessionInit => SessionTypeOK
  BY SessionAssumption, NoCallIsCall
     DEF SessionInit, SessionTypeOK, CallRecord, Token, NoToken
<1>2. SessionTypeOK /\ [SessionNext]_sessionVars => SessionTypeOK'
  <2> SUFFICES ASSUME SessionTypeOK, [SessionNext]_sessionVars PROVE SessionTypeOK'
    OBVIOUS
  <2> USE SessionAssumption DEF SessionTypeOK, Token, NoToken
  <2>1. ASSUME NEW c \in Call, NEW t \in Tab, NEW f \in Form, SubmitCall(c, t, f)
        PROVE  SessionTypeOK'
    BY <2>1 DEF SubmitCall
  <2>2. ASSUME NEW c \in Call, SignedIn(c) PROVE SessionTypeOK'
    <3>1. [calls EXCEPT ![c] = NoCallOut] \in [Call -> CallRecord]
      BY NoCallIsCall DEF CallRecord
    <3>2. calls[c].tab \in Tab
      OBVIOUS
    <3>3. calls' \in [Call -> CallRecord]
      BY <2>2, <3>1, <3>2, UnmountedCalls DEF SignedIn
    <3>4. issued' \in 0..MaxTokens /\ stored' = issued' /\ lastWriter' \subseteq Tab
      BY <2>2, <3>2 DEF SignedIn
    <3>5. token' \in [Tab -> 0..MaxTokens]
      BY <2>2, <3>2, <3>4 DEF SignedIn
    <3> QED BY <3>3, <3>4, <3>5 DEF CallRecord
  <2>3. ASSUME NEW c \in Call, CallRefused(c) PROVE SessionTypeOK'
    BY <2>3, NoCallIsCall DEF CallRefused, CallRecord
  <2>4. ASSUME NEW t \in Tab, Logout(t) PROVE SessionTypeOK'
    BY <2>4 DEF Logout, ClearStoredAuth
  <2>5. ASSUME NEW t \in Tab, Reload(t) PROVE SessionTypeOK'
    BY <2>5, NoCallIsCall DEF Reload, CallRecord
  <2>6. CASE UNCHANGED sessionVars
    BY <2>6 DEF sessionVars
  <2> QED BY <2>1, <2>2, <2>3, <2>4, <2>5, <2>6 DEF SessionNext
<1> QED BY <1>1, <1>2, PTL DEF SessionSpec

LEMMA SessionStep ==
  ASSUME SessionInv, SessionTypeOK', [SessionNext]_sessionVars
  PROVE  SessionInv'
<1> USE DEF SessionInv
<1>1. ASSUME NEW c \in Call, NEW t \in Tab, NEW f \in Form, SubmitCall(c, t, f)
      PROVE  SessionInv'
  <2> DEFINE others == {d \in Call \ Held(t, f) : calls[d].out /\ calls[d].tab = t}
  <2>1. /\ ~calls[c].out /\ Held(t, f) = {}
        /\ UNCHANGED <<stored, token, issued, lastWriter>>
        /\ calls' = [d \in Call |->
                   IF d = c THEN [out |-> TRUE, tab |-> t, form |-> f, held |-> TRUE,
                                  both |-> others # {}]
                   ELSE IF d \in others THEN [calls[d] EXCEPT !.both = TRUE] ELSE calls[d]]
    BY <1>1 DEF SubmitCall, FormBusy
  <2>2. TabAgreesWithStorage'
    BY <2>1 DEF TabAgreesWithStorage
  <2>3. others = {d \in Call : calls[d].out /\ calls[d].tab = t}
    BY <2>1
  <2> HIDE DEF others
  <2>4. /\ calls'[c].out /\ calls'[c].tab = t /\ calls'[c].held
        /\ others # {} => calls'[c].both
    BY <2>1
  <2>5. \A d \in Call \ {c} :
          /\ calls'[d].out <=> calls[d].out
          /\ calls'[d].held <=> calls[d].held
          /\ calls'[d].tab = calls[d].tab
          /\ calls[d].both \/ d \in others => calls'[d].both
    BY <2>1 DEF SessionTypeOK
  <2>6. PairsKnown'
    <3>1. SUFFICES ASSUME NEW a \in Call, NEW d \in Call, a # d, calls'[a].out, calls'[d].out,
                          calls'[a].tab = calls'[d].tab
                   PROVE  calls'[a].both
      BY DEF PairsKnown
    <3>2. CASE a = c
      BY <2>3, <2>4, <2>5, <3>1, <3>2
    <3>3. CASE d = c
      BY <2>3, <2>4, <2>5, <3>1, <3>3
    <3>4. CASE a # c /\ d # c
      BY <2>5, <3>1, <3>4 DEF PairsKnown
    <3> QED BY <3>2, <3>3, <3>4
  <2>7. LateSignInNeedsTwoCalls'
    BY <2>4, <2>5 DEF LateSignInNeedsTwoCalls
  <2> QED BY <2>2, <2>6, <2>7
<1>2. ASSUME NEW c \in Call, SignedIn(c) PROVE SessionInv'
  <2> DEFINE cs == [calls EXCEPT ![c] = NoCallOut]
  <2>1. calls[c].out /\ calls[c].tab \in Tab
    BY <1>2 DEF SignedIn, SessionTypeOK
  <2>2. cs \in [Call -> CallRecord] /\ ~cs[c].out /\ \A d \in Call \ {c} : cs[d] = calls[d]
    BY NoCallIsCall DEF SessionTypeOK, CallRecord
  <2>3. calls' = Unmounted(cs, calls[c].tab)
    BY <1>2 DEF SignedIn
  <2> HIDE DEF cs
  <2>4. /\ ~calls'[c].out
        /\ \A d \in Call \ {c} :
             /\ calls'[d].out = calls[d].out /\ calls'[d].tab = calls[d].tab
             /\ calls'[d].both = calls[d].both
             /\ calls[d].tab # calls[c].tab => calls'[d].held = calls[d].held
    BY <2>1, <2>2, <2>3, UnmountedCalls
  <2>5. PairsKnown'
    BY <2>4 DEF PairsKnown
  <2>6. LateSignInNeedsTwoCalls'
    BY <2>1, <2>4 DEF LateSignInNeedsTwoCalls, PairsKnown
  <2>7. TabAgreesWithStorage'
    BY <1>2, <2>1 DEF SignedIn, TabAgreesWithStorage, SessionTypeOK
  <2> QED BY <2>5, <2>6, <2>7
<1>3. ASSUME NEW c \in Call, CallRefused(c) PROVE SessionInv'
  <2>1. /\ ~calls'[c].out /\ \A d \in Call \ {c} : calls'[d] = calls[d]
        /\ UNCHANGED <<stored, token, lastWriter>>
    BY <1>3, NoCallIsCall DEF CallRefused, SessionTypeOK
  <2> QED BY <2>1 DEF TabAgreesWithStorage, PairsKnown, LateSignInNeedsTwoCalls
<1>4. ASSUME NEW t \in Tab, Logout(t) PROVE SessionInv'
  BY <1>4 DEF Logout, ClearStoredAuth, NoToken, TabAgreesWithStorage, PairsKnown,
     LateSignInNeedsTwoCalls, SessionTypeOK
<1>5. ASSUME NEW t \in Tab, Reload(t) PROVE SessionInv'
  <2>1. \A c \in Call : calls'[c] = (IF calls[c].tab = t THEN NoCallOut ELSE calls[c])
    BY <1>5 DEF Reload
  <2>2. PairsKnown'
    BY <2>1, NoCallIsCall DEF PairsKnown
  <2>3. LateSignInNeedsTwoCalls'
    BY <2>1, NoCallIsCall DEF LateSignInNeedsTwoCalls
  <2>4. TabAgreesWithStorage'
    BY <1>5 DEF Reload, TabAgreesWithStorage, SessionTypeOK
  <2> QED BY <2>2, <2>3, <2>4
<1>6. CASE UNCHANGED sessionVars
  BY <1>6 DEF sessionVars, TabAgreesWithStorage, PairsKnown, LateSignInNeedsTwoCalls
<1> QED BY <1>1, <1>2, <1>3, <1>4, <1>5, <1>6 DEF SessionNext

LEMMA SessionInvariant == SessionSpec => []SessionInv
<1>1. SessionInit => PairsKnown /\ LateSignInNeedsTwoCalls /\ TabAgreesWithStorage
  BY NoCallIsCall
     DEF SessionInit, PairsKnown, LateSignInNeedsTwoCalls, TabAgreesWithStorage
<1> QED BY <1>1, SessionType, SessionStep, PTL DEF SessionSpec, SessionInv

\* The tabs that touched localStorage last show what is in it: a logout is not undone by a
\* reload, and a reload undoes no sign-in of the tab.
THEOREM SessionAgrees == SessionSpec => []TabAgreesWithStorage
  BY SessionInvariant, PTL DEF SessionInv

\* A sign-in after the form is gone takes two calls of the tab under way at once.
THEOREM SessionLate == SessionSpec => []LateSignInNeedsTwoCalls
  BY SessionInvariant, PTL DEF SessionInv

-----------------------------------------------------------------------------
(* The list pages. *)

PageData == [owner : User, rows : Lists(page)]

\* What a page is given was asked for by somebody who was signed in, and not null.
Answered ==
  /\ entry.fetch # "idle" => asker \in User
  /\ entry.fetch = "read" => entry.answer # NoData /\ entry.answer.owner = asker
  /\ entry.data # NoData /\ page \in NullWhenEmpty => entry.data.rows # <<>>

\* A page with a user was answered, was refused, or has asked.
Watched == user # Nobody => entry.fetch # "idle" \/ entry.data # NoData \/ entry.failed

\* A fetch that was not joined carries the token of who is signed in.
OwnFetch ==
  user # Nobody /\ entry.fetch # "idle" /\ ~entry.joined /\ ~swapped => asker = user

PagesInv == PagesTypeOK /\ Answered /\ Watched /\ OwnFetch /\ OwnRowsOnceSettled

\* Every list the API may answer with is a sequence of rows, and none is no data.
LEMMA ListTypes ==
  ASSUME NEW rows \in Lists(page)
  PROVE  rows \in Seq(PageRow)
<1>1. <<>> \in Seq(PageRow)
  OBVIOUS
<1> QED BY <1>1, PagesAssumption DEF PagesAssumption, Lists

LEMMA DataIsData == \A d \in PageData : d # NoData
<1> SUFFICES ASSUME NEW d \in PageData PROVE d # NoData
  OBVIOUS
<1>1. d.rows \in Seq(PageRow) /\ d.owner \in User /\ d = [owner |-> d.owner, rows |-> d.rows]
  BY ListTypes DEF PageData
<1>2. d \in [owner : User, rows : Seq(PageRow)]
  BY <1>1
<1> QED BY <1>2, PagesAssumption DEF PagesAssumption

\* An observer or an invalidation leaves data there is, and the entry with a fetch: a new
\* one, or the one there was, joined.
LEMMA FetchStarts ==
  ASSUME NEW e \in EntryOf(PageData), NEW new \in {Shown(e), Invalidate(e), Ask(e)}
  PROVE  /\ new \in EntryOf(PageData) /\ new.data = e.data /\ new.failed = e.failed
         /\ new.fetch # "idle"
         /\ new.joined => new.fetch = e.fetch /\ new.answer = e.answer
         /\ ~new.joined => new.fetch = "asked"
<1>1. new = Ask(e) \/ (new = Join(e) /\ e.fetch # "idle")
  BY DEF Shown, Observe, Invalidate
<1>2. CASE new = Ask(e)
  BY <1>2 DEF Ask, EntryOf, FetchStep
<1>3. CASE new = Join(e) /\ e.fetch # "idle"
  BY <1>3 DEF Join, EntryOf, FetchStep
<1> QED BY <1>1, <1>2, <1>3

LEMMA PagesInitInv == PagesInit => PagesInv
<1> SUFFICES ASSUME PagesInit PROVE PagesInv
  OBVIOUS
<1>1. entry \in EntryOf(PageData)
  BY DEF PagesInit, Fresh, EntryOf, FetchStep
<1>2. filter \in Filter
  <2>1. [kind |-> "all", state |-> "all", search |-> ""] \in Filter
    BY DEF Filter
  <2> QED BY <2>1 DEF PagesInit
<1>3. PagesTypeOK
  BY <1>1, <1>2 DEF PagesInit, PagesTypeOK, PageData
<1>4. Answered /\ Watched /\ OwnFetch /\ OwnRowsOnceSettled
  BY DEF PagesInit, Fresh, Answered, Watched, OwnFetch, OwnRowsOnceSettled, Settled
<1> QED BY <1>3, <1>4 DEF PagesInv

\* A fetch is started, or joined, for who is signed in afterwards.
LEMMA StartStep ==
  ASSUME PagesInv, user' \in User,
         NEW new \in {Shown(entry), Invalidate(entry), Ask(entry)}, Fetching(new, user'),
         swapped' = FALSE, UNCHANGED <<page, filter>>, adding' \in BOOLEAN
  PROVE  PagesInv'
<1>1. entry \in EntryOf(PageData) /\ asker \in User \cup {Nobody}
  BY DEF PagesInv, PagesTypeOK, PageData
<1>2. /\ new \in EntryOf(PageData) /\ new.data = entry.data
      /\ new.fetch # "idle"
      /\ new.joined => new.fetch = entry.fetch /\ new.answer = entry.answer
      /\ ~new.joined => new.fetch = "asked"
  BY <1>1, FetchStarts
<1>3. entry' = new /\ asker' = IF new.joined THEN asker ELSE user'
  BY DEF Fetching
<1> HIDE DEF PageData
<1>4. PagesTypeOK'
  <2>1. page' = page /\ Lists(page') = Lists(page)
    OBVIOUS
  <2> QED BY <1>1, <1>2, <1>3, <2>1 DEF PagesInv, PagesTypeOK, PageData
<1>5. Answered'
  BY <1>2, <1>3 DEF PagesInv, Answered
<1>6. Watched' /\ OwnFetch' /\ OwnRowsOnceSettled'
  BY <1>2, <1>3 DEF Watched, OwnFetch, OwnRowsOnceSettled, Settled
<1> QED BY <1>4, <1>5, <1>6 DEF PagesInv

LEMMA PagesStep ==
  ASSUME PagesInv, [PagesNext]_pagesVars
  PROVE  PagesInv'
<1>0. /\ entry \in EntryOf(PageData) /\ PagesTypeOK /\ Answered /\ Watched /\ OwnFetch
      /\ OwnRowsOnceSettled /\ Nobody \notin User
  BY PagesAssumption DEF PagesInv, PagesTypeOK, PageData, PagesAssumption
<1>1. ASSUME NEW u \in User, SignIn(u) PROVE PagesInv'
  BY <1>0, <1>1, StartStep DEF SignIn, PagesTypeOK
<1>2. ASSUME NEW u \in User, SignInOver(u) PROVE PagesInv'
  BY <1>0, <1>2
     DEF SignInOver, PagesInv, PagesTypeOK, Answered, Watched, OwnFetch, OwnRowsOnceSettled
<1>3. CASE SignOut
  BY <1>0, <1>3
     DEF SignOut, PagesInv, PagesTypeOK, Answered, Watched, OwnFetch, OwnRowsOnceSettled
<1>4. CASE PageRead
  <2>1. PICK rows \in Lists(page) : entry' = Read(entry, [owner |-> asker, rows |-> rows])
    BY <1>4 DEF PageRead
  <2> DEFINE d == [owner |-> asker, rows |-> rows]
  <2>2. entry.fetch = "asked" /\ UNCHANGED <<page, filter, user, asker, swapped, adding>>
    BY <1>4 DEF PageRead
  <2>3. d \in PageData /\ d.owner = asker
    BY <1>0, <2>2 DEF Answered, PageData
  <2>4. d # NoData
    BY <2>3, DataIsData
  <2> HIDE DEF d
  <2>5. /\ entry' \in EntryOf(PageData) /\ entry'.data = entry.data /\ entry'.fetch = "read"
        /\ entry'.answer = d /\ entry'.failed = entry.failed /\ entry'.joined = entry.joined
    BY <1>0, <2>1, <2>3 DEF Read, EntryOf, FetchStep, d
  <2>6. PagesTypeOK'
    BY <1>0, <2>2, <2>5 DEF PagesTypeOK, PageData
  <2>7. Answered' /\ Watched' /\ OwnFetch' /\ OwnRowsOnceSettled'
    BY <1>0, <2>2, <2>3, <2>4, <2>5
       DEF Answered, Watched, OwnFetch, OwnRowsOnceSettled, Settled
  <2> QED BY <2>6, <2>7 DEF PagesInv
<1>5. CASE PageRetry
  <2>1. /\ user # Nobody /\ asker' = user /\ UNCHANGED <<page, filter, user, swapped, adding>>
        /\ entry' = [entry EXCEPT !.fetch = "asked", !.answer = NoData]
    BY <1>5 DEF PageRetry
  <2>2. /\ entry' \in EntryOf(PageData) /\ entry'.data = entry.data /\ entry'.fetch = "asked"
    BY <1>0, <2>1 DEF EntryOf, FetchStep
  <2>3. PagesTypeOK'
    BY <1>0, <2>1, <2>2 DEF PagesTypeOK, PageData
  <2>4. Answered' /\ Watched' /\ OwnFetch' /\ OwnRowsOnceSettled'
    BY <1>0, <2>1, <2>2
       DEF PagesTypeOK, Answered, Watched, OwnFetch, OwnRowsOnceSettled, Settled
  <2> QED BY <2>3, <2>4 DEF PagesInv
<1>6. CASE PageArrives
  <2>1. /\ entry.fetch = "read" /\ entry' = Arrive(entry)
        /\ page \in NullWhenEmpty => entry.answer.rows # <<>>
        /\ UNCHANGED <<page, filter, user, asker, swapped, adding>>
    BY <1>6 DEF PageArrives
  <2>2. /\ entry' \in EntryOf(PageData) /\ entry'.data = entry.answer /\ entry'.fetch = "idle"
        /\ entry'.joined = entry.joined
    BY <1>0, <2>1, EntryKeeps
  <2>3. PagesTypeOK'
    BY <1>0, <2>1, <2>2 DEF PagesTypeOK, PageData
  <2>4. Answered' /\ Watched' /\ OwnFetch' /\ OwnRowsOnceSettled'
    BY <1>0, <2>1, <2>2 DEF Answered, Watched, OwnFetch, OwnRowsOnceSettled, Settled
  <2> QED BY <2>3, <2>4 DEF PagesInv
<1>7. CASE PageFails
  <2>1. entry' = Fail(entry) /\ UNCHANGED <<page, filter, user, asker, swapped, adding>>
    BY <1>7 DEF PageFails
  <2>2. /\ entry' \in EntryOf(PageData) /\ entry'.data = entry.data /\ entry'.fetch = "idle"
        /\ entry'.failed
    BY <1>0, <2>1, EntryKeeps
  <2>3. PagesTypeOK'
    BY <1>0, <2>1, <2>2 DEF PagesTypeOK, PageData
  <2>4. Answered' /\ Watched' /\ OwnFetch' /\ OwnRowsOnceSettled'
    BY <1>0, <2>1, <2>2 DEF Answered, Watched, OwnFetch, OwnRowsOnceSettled, Settled
  <2> QED BY <2>3, <2>4 DEF PagesInv
<1>8. CASE Refresh
  BY <1>0, <1>8, StartStep DEF Refresh, Refetch, PagesTypeOK
<1>9. CASE RowAdded
  <2>1. CASE user # Nobody
    BY <1>0, <1>9, <2>1, StartStep DEF RowAdded, Refetch, PagesTypeOK
  <2>2. CASE user = Nobody
    BY <1>0, <1>9, <2>2
       DEF RowAdded, PagesInv, PagesTypeOK, Answered, Watched, OwnFetch, OwnRowsOnceSettled
  <2> QED BY <2>1, <2>2
<1>10. CASE SubmitRow \/ RowRefused \/ UNCHANGED pagesVars
  <2>1. UNCHANGED <<page, filter, user, entry, asker, swapped>> /\ adding' \in BOOLEAN
    BY <1>0, <1>10 DEF SubmitRow, RowRefused, pagesVars, PagesTypeOK
  <2> QED BY <1>0, <2>1
          DEF PagesInv, PagesTypeOK, Answered, Watched, OwnFetch, OwnRowsOnceSettled
<1>11. CASE PagePauses \/ PageResumes
  <2>1. /\ entry' \in {Pause(entry), Resume(entry)} /\ entry.fetch # "idle"
        /\ IF asker' = asker THEN TRUE ELSE user # Nobody /\ asker' = user
        /\ UNCHANGED <<page, filter, user, swapped, adding>>
    BY <1>0, <1>11 DEF PagePauses, PageResumes
  <2>2. /\ entry' \in EntryOf(PageData) /\ entry'.data = entry.data
        /\ entry'.fetch \in {"paused", "asked"} /\ entry'.joined = entry.joined
    BY <1>0, <2>1 DEF Pause, Resume, EntryOf, FetchStep
  <2>3. PagesTypeOK'
    BY <1>0, <2>1, <2>2 DEF PagesTypeOK, PageData
  <2>4. Answered' /\ Watched' /\ OwnFetch' /\ OwnRowsOnceSettled'
    BY <1>0, <2>1, <2>2
       DEF PagesTypeOK, Answered, Watched, OwnFetch, OwnRowsOnceSettled, Settled
  <2> QED BY <2>3, <2>4 DEF PagesInv
<1>12. CASE PageOnline
  BY <1>0, <1>12, StartStep DEF PageOnline, PagesTypeOK
<1> QED BY <1>1, <1>2, <1>3, <1>4, <1>5, <1>6, <1>7, <1>8, <1>9, <1>10, <1>11, <1>12
        DEF PagesNext

\* The invariant, for any users, lists and searches.
THEOREM PagesInvariance == PagesSpec => []PagesInv
  BY PagesInitInv, PagesStep, PTL DEF PagesSpec

\* Pages, filters and the entry keep their types.
THEOREM PagesTypes == PagesSpec => []PagesTypeOK
<1>1. PagesInv => PagesTypeOK
  BY DEF PagesInv
<1> QED BY <1>1, PagesInvariance, PTL

\* What a settled page shows belongs to who is signed in, but for a fetch that was joined
\* and a user that was replaced.
THEOREM SettledRowsAreOwn == PagesSpec => []OwnRowsOnceSettled
<1>1. PagesInv => OwnRowsOnceSettled
  BY DEF PagesInv
<1> QED BY <1>1, PagesInvariance, PTL

\* Only the text that there is nothing: nothing is shown, and the query neither loads nor
\* failed.
LEMMA OnlyTextIsEmpty ==
  ASSUME NEW e, NEW view,
         \/ SideBySide(e, view) = {"empty"} \/ OneAtATime(e, view) = {"empty"}
         \/ SideBySide(e, view) \cup OnlyEmpty(view) = {"empty"}
  PROVE  ~IsLoading(e) /\ ~HasError(e) /\ view = {}
<1>1. CASE OneAtATime(e, view) = {"empty"}
  BY <1>1 DEF OneAtATime
<1>2. CASE \/ SideBySide(e, view) = {"empty"}
           \/ SideBySide(e, view) \cup OnlyEmpty(view) = {"empty"}
  <2>1. "loading" \notin SideBySide(e, view) /\ "error" \notin SideBySide(e, view)
    BY <1>2
  <2>2. view = {}
    BY <1>2 DEF SideBySide, OnlyEmpty
  <2> QED BY <2>1, <2>2 DEF SideBySide
<1> QED BY <1>1, <1>2

\* What a page shows of its rows: all, the first of them, or those that match.
Showing ==
  {Matching(Rows(entry), filter), DOMAIN Rows(entry)} \cup
  {Slice(Rows(entry), n) : n \in Nat \ {0}}

LEMMA TextsOfPage ==
  ASSUME page \in Page \ (Cards \cup Placeholder), Texts = {"empty"}
  PROVE  ~IsLoading(entry) /\ ~HasError(entry) /\ {} \in Showing
<1> USE DEF Page, Cards, Placeholder
<1>1. CASE page \in {"BotList", "WchHistory", "Signals"}
  <2>1. \/ SideBySide(entry, Matching(Rows(entry), filter)) = {"empty"}
        \/ OneAtATime(entry, Matching(Rows(entry), filter)) = {"empty"}
    BY <1>1 DEF Texts, BotList, WchHistory, Signals
  <2> QED BY <2>1, OnlyTextIsEmpty DEF Showing
<1>2. CASE page \in {"ExchangeAccounts", "Plans", "WalletConnect"}
  <2> DEFINE all == DOMAIN Rows(entry)
  <2>1. \/ SideBySide(entry, all) = {"empty"} \/ OneAtATime(entry, all) = {"empty"}
        \/ SideBySide(entry, all) \cup OnlyEmpty(all) = {"empty"}
    BY <1>2 DEF Texts, ExchangeAccounts, Plans, WalletConnect
  <2> HIDE DEF all
  <2>2. ~IsLoading(entry) /\ ~HasError(entry) /\ all = {}
    BY <2>1, OnlyTextIsEmpty
  <2> QED BY <2>2 DEF Showing, all
<1>3. CASE page \in {"WalletsCard", "SignalsCard"}
  <2>1. PICK n \in Nat \ {0} : \/ SideBySide(entry, Slice(Rows(entry), n)) = {"empty"}
                               \/ OneAtATime(entry, Slice(Rows(entry), n)) = {"empty"}
    BY <1>3 DEF Texts, WalletsCard, SignalsCard
  <2>2. ~IsLoading(entry) /\ ~HasError(entry) /\ Slice(Rows(entry), n) = {}
    BY <2>1, OnlyTextIsEmpty
  <2> QED BY <2>2 DEF Showing
<1>4. CASE page = "ScannerDashboard"
  <2> DEFINE first == Slice(Rows(entry), 10)
             all == DOMAIN Rows(entry)
  <2>1. OneAtATime(entry, first) \cup OnlyEmpty(all) = {"empty"}
    BY <1>4 DEF Texts, ScannerDashboard
  <2>2. first \subseteq all
    BY DEF Slice
  <2> HIDE DEF first, all
  <2>3. OneAtATime(entry, first) = {"empty"}
    BY <2>1, <2>2 DEF OneAtATime, OnlyEmpty
  <2>4. ~IsLoading(entry) /\ ~HasError(entry) /\ first = {}
    BY <2>3, OnlyTextIsEmpty
  <2> QED BY <2>4 DEF Showing, first
<1> QED BY <1>1, <1>2, <1>3, <1>4

\* A list of which nothing is shown has nothing that matches.
LEMMA NothingMatches ==
  ASSUME Rows(entry) \in Seq(PageRow), {} \in Showing, NEW i \in DOMAIN Rows(entry)
  PROVE  ~Matches(Rows(entry)[i], filter)
<1>1. i \in 1..Len(Rows(entry)) /\ 1 \in DOMAIN Rows(entry)
  OBVIOUS
<1>2. \A n \in Nat \ {0} : 1 \in Slice(Rows(entry), n)
  BY <1>1 DEF Slice
<1>3. Matching(Rows(entry), filter) = {}
  BY <1>1, <1>2 DEF Showing
<1> QED BY <1>3 DEF Matching

\* A page says that there is nothing only of an answer with nothing that matches, or while
\* its first fetch waits for the network.
THEOREM EmptyPagesAreHonest == PagesSpec => []EmptyIsHonest
<1>1. ASSUME PagesInv PROVE EmptyIsHonest
  <2>0. PagesTypeOK /\ Answered /\ Watched /\ entry \in EntryOf(PageData)
    BY <1>1 DEF PagesInv, PagesTypeOK, PageData
  <2> SUFFICES ASSUME user # Nobody, page \notin Cards \cup Placeholder, Texts = {"empty"},
                      ~(entry.fetch = "paused" /\ entry.data = NoData)
               PROVE  /\ entry.data # NoData
                      /\ page \in NullWhenEmpty => entry.data.rows # <<>>
                      /\ \A i \in DOMAIN entry.data.rows : ~Matches(entry.data.rows[i], filter)
    BY DEF EmptyIsHonest
  <2>1. ~IsLoading(entry) /\ ~HasError(entry) /\ {} \in Showing
    BY <2>0, TextsOfPage DEF PagesTypeOK
  <2>2. entry.data # NoData
    BY <2>0, <2>1 DEF Watched, IsLoading, HasError, Pending
  <2>3. Rows(entry) = entry.data.rows
    BY <2>2 DEF Rows
  <2>4. entry.data \in PageData
    BY <2>0, <2>2 DEF EntryOf
  <2>5. entry.data.rows \in Seq(PageRow)
    BY <2>4, ListTypes DEF PageData
  <2> QED BY <2>0, <2>1, <2>2, <2>3, <2>5, NothingMatches DEF Answered
<1> QED BY <1>1, PagesInvariance, PTL

-----------------------------------------------------------------------------
(* The figures. *)

\* Induction, for a set of numbers.
Smaller == {ss \in Nat \X Nat : ss[1] < ss[2]}

LEMMA AllNumbers ==
  ASSUME NEW S, 0 \in S, \A n \in S : n + 1 \in S
  PROVE  Nat \subseteq S
<1> SUFFICES ASSUME ~(Nat \subseteq S) PROVE FALSE
  OBVIOUS
<1> DEFINE T == Nat \ S
<1>1. IsWellFoundedOn(Smaller, Nat)
  BY NatLessThanWellFounded DEF OpToRel, Smaller
<1>2. \E x \in T : \A y \in T : ~(<<y, x>> \in Smaller)
  BY <1>1, WFMin
<1>3. PICK x \in T : \A y \in T : ~(<<y, x>> \in Smaller)
  BY <1>2
<1>4. x # 0 /\ x \in Nat
  BY <1>3
<1>5. x - 1 \in Nat /\ x - 1 < x /\ x = (x - 1) + 1
  BY <1>4
<1>6. <<x - 1, x>> \in Smaller
  BY <1>4, <1>5 DEF Smaller
<1> QED BY <1>3, <1>5, <1>6

\* The sums up to each place of a sequence.
Sums(numbers, g) ==
  /\ g \in [0..Len(numbers) -> Int] /\ g[0] = 0
  /\ \A n \in 1..Len(numbers) : g[n] = g[n - 1] + numbers[n]

LEMMA SumsExist ==
  ASSUME NEW numbers \in Seq(Int)
  PROVE  \E g : Sums(numbers, g)
<1> DEFINE L == Len(numbers)
           upto(n, g) == /\ g \in [0..n -> Int] /\ g[0] = 0
                         /\ \A i \in 1..n : g[i] = g[i - 1] + numbers[i]
           S == {n \in Nat : n <= L => \E g : upto(n, g)}
<1>1. L \in Nat /\ \A i \in 1..L : numbers[i] \in Int
  OBVIOUS
<1>2. 0 \in S
  <2>1. upto(0, [n \in 0..0 |-> 0])
    OBVIOUS
  <2> QED BY <2>1
<1>3. ASSUME NEW n \in S PROVE n + 1 \in S
  <2> HIDE DEF L, upto
  <2>1. SUFFICES ASSUME n + 1 <= L PROVE \E g : upto(n + 1, g)
    BY <1>3
  <2>2. n \in Nat /\ n <= L /\ numbers[n + 1] \in Int
    BY <1>1, <1>3, <2>1
  <2>3. PICK g : upto(n, g)
    BY <1>3, <2>2
  <2> USE DEF upto
  <2> DEFINE h == [i \in 0..(n + 1) |-> IF i <= n THEN g[i] ELSE g[n] + numbers[n + 1]]
  <2>4. h \in [0..(n + 1) -> Int]
    BY <2>2, <2>3
  <2>5. h[n + 1] = g[n] + numbers[n + 1] /\ \A i \in 0..n : h[i] = g[i]
    BY <2>2
  <2> HIDE DEF h
  <2>6. \A i \in 1..(n + 1) : i \in 1..n \/ i = n + 1
    BY <2>2
  <2>7. ASSUME NEW i \in 1..n PROVE h[i] = h[i - 1] + numbers[i]
    <3>1. i \in 0..n /\ i - 1 \in 0..n
      BY <2>2
    <3>2. h[i] = g[i] /\ h[i - 1] = g[i - 1]
      BY <2>5, <3>1
    <3>3. g[i] = g[i - 1] + numbers[i]
      BY <2>3
    <3> QED BY <3>2, <3>3
  <2>8. h[0] = 0 /\ h[n + 1] = h[(n + 1) - 1] + numbers[n + 1]
    BY <2>2, <2>3, <2>5
  <2> QED BY <2>4, <2>6, <2>7, <2>8
<1> HIDE DEF S
<1>4. L \in S
  BY <1>1, <1>2, <1>3, AllNumbers
<1>5. \E g : upto(L, g)
  BY <1>1, <1>4 DEF S
<1> QED BY <1>5 DEF Sums

\* Total is the last of the sums.
LEMMA TotalIs ==
  ASSUME NEW numbers \in Seq(Int)
  PROVE  \E g : Sums(numbers, g) /\ Total(numbers) = g[Len(numbers)]
<1> DEFINE L == Len(numbers)
           step(g) == [n \in 0..L |-> IF n = 0 THEN 0 ELSE g[n - 1] + numbers[n]]
           h == CHOOSE g : g = step(g)
<1>1. L \in Nat /\ \A i \in 1..L : numbers[i] \in Int
  OBVIOUS
<1>2. \E g : g = step(g)
  <2>1. PICK g : Sums(numbers, g)
    BY SumsExist
  <2>2. g = step(g)
    BY <1>1, <2>1 DEF Sums
  <2> QED BY <2>2
<1>3. Total(numbers) = h[L]
  BY DEF Total
<1> HIDE DEF L
<1>4. h = step(h)
  <2> HIDE DEF step
  <2> QED BY <1>2
<1> HIDE DEF h
<1>5. h[0] = 0 /\ \A n \in 1..L : h[n] = h[n - 1] + numbers[n]
  BY <1>1, <1>4
<1> DEFINE S == {n \in Nat : n <= L => h[n] \in Int}
<1>6. 0 \in S
  BY <1>5
<1>7. ASSUME NEW n \in S PROVE n + 1 \in S
  <2>1. SUFFICES ASSUME n + 1 <= L PROVE h[n + 1] \in Int
    BY <1>7
  <2>2. n \in Nat /\ n + 1 \in 1..L /\ h[n] \in Int
    BY <1>1, <1>7, <2>1
  <2>3. h[n + 1] = h[n] + numbers[n + 1] /\ numbers[n + 1] \in Int
    BY <1>1, <1>5, <2>2
  <2> QED BY <2>2, <2>3
<1> HIDE DEF S
<1>8. Nat \subseteq S
  BY <1>6, <1>7, AllNumbers
<1>9. \A n \in 0..L : h[n] \in Int
  BY <1>1, <1>8 DEF S
<1>10. h \in [0..L -> Int]
  BY <1>4, <1>9
<1> QED BY <1>3, <1>5, <1>10 DEF Sums, L

\* Totals of two sequences add up to the total of their sums.
LEMMA TotalAdds ==
  ASSUME NEW a \in Seq(Int), NEW b \in Seq(Int), NEW c \in Seq(Int),
         Len(a) = Len(c), Len(b) = Len(c), \A i \in 1..Len(c) : c[i] = a[i] + b[i]
  PROVE  Total(c) = Total(a) + Total(b) /\ Total(a) \in Int /\ Total(b) \in Int
<1> DEFINE L == Len(c)
<1>1. PICK f : Sums(a, f) /\ Total(a) = f[L]
  BY TotalIs
<1>2. PICK g : Sums(b, g) /\ Total(b) = g[L]
  BY TotalIs
<1>3. PICK h : Sums(c, h) /\ Total(c) = h[L]
  BY TotalIs
<1>4. L \in Nat /\ \A i \in 1..L : a[i] \in Int /\ b[i] \in Int
  OBVIOUS
<1>5. /\ f[0] = 0 /\ \A n \in 1..L : f[n] = f[n - 1] + a[n]
      /\ g[0] = 0 /\ \A n \in 1..L : g[n] = g[n - 1] + b[n]
      /\ h[0] = 0 /\ \A n \in 1..L : h[n] = h[n - 1] + c[n]
      /\ \A n \in 0..L : f[n] \in Int /\ g[n] \in Int /\ h[n] \in Int
  BY <1>1, <1>2, <1>3 DEF Sums
<1> HIDE DEF L
<1> DEFINE S == {n \in Nat : n <= L => h[n] = f[n] + g[n]}
<1>6. 0 \in S
  BY <1>5
<1>7. ASSUME NEW n \in S PROVE n + 1 \in S
  <2>1. SUFFICES ASSUME n + 1 <= L PROVE h[n + 1] = f[n + 1] + g[n + 1]
    BY <1>7
  <2>2. n \in 0..L /\ n + 1 \in 1..L /\ h[n] = f[n] + g[n]
    BY <1>4, <1>7, <2>1
  <2>3. /\ f[n + 1] = f[n] + a[n + 1] /\ g[n + 1] = g[n] + b[n + 1]
        /\ h[n + 1] = h[n] + c[n + 1] /\ c[n + 1] = a[n + 1] + b[n + 1]
    BY <1>5, <2>2 DEF L
  <2>4. f[n] \in Int /\ g[n] \in Int /\ a[n + 1] \in Int /\ b[n + 1] \in Int
    BY <1>4, <1>5, <2>2
  <2> QED BY <2>2, <2>3, <2>4
<1> HIDE DEF S
<1>8. L \in S
  BY <1>4, <1>6, <1>7, AllNumbers
<1> QED BY <1>1, <1>2, <1>3, <1>4, <1>5, <1>8 DEF S

\* The numbers Amount adds up.
Numbers(rows, I) == [i \in DOMAIN rows |-> IF i \in I THEN rows[i].amount ELSE 0]

LEMMA NumbersType ==
  ASSUME NEW rows \in Seq(PageRow), NEW I
  PROVE  /\ Numbers(rows, I) \in Seq(Int) /\ Len(Numbers(rows, I)) = Len(rows)
         /\ \A i \in 1..Len(rows) :
              /\ Numbers(rows, I)[i] = IF i \in I THEN rows[i].amount ELSE 0
              /\ rows[i].amount \in Int
<1>1. DOMAIN rows = 1..Len(rows) /\ Len(rows) \in Nat
  OBVIOUS
<1>2. \A i \in 1..Len(rows) : rows[i].amount \in Int
  <2>1. \A r \in PageRow : r.amount \in Int
    BY DEF PageRow
  <2>2. \A i \in 1..Len(rows) : rows[i] \in PageRow
    OBVIOUS
  <2> QED BY <2>1, <2>2
<1> QED BY <1>1, <1>2 DEF Numbers

\* Amounts of rows apart from each other add up.
LEMMA AmountAdds ==
  ASSUME NEW rows \in Seq(PageRow), NEW I, NEW J, I \cap J = {}
  PROVE  /\ Amount(rows, I \cup J) = Amount(rows, I) + Amount(rows, J)
         /\ Amount(rows, I) \in Int /\ Amount(rows, J) \in Int
<1>1. \A K : Amount(rows, K) = Total(Numbers(rows, K))
  BY DEF Amount, Numbers
<1>2. \A i \in 1..Len(Numbers(rows, I \cup J)) :
        Numbers(rows, I \cup J)[i] = Numbers(rows, I)[i] + Numbers(rows, J)[i]
  BY NumbersType
<1>3. /\ Numbers(rows, I) \in Seq(Int) /\ Len(Numbers(rows, I)) = Len(rows)
      /\ Numbers(rows, J) \in Seq(Int) /\ Len(Numbers(rows, J)) = Len(rows)
      /\ Numbers(rows, I \cup J) \in Seq(Int) /\ Len(Numbers(rows, I \cup J)) = Len(rows)
  BY NumbersType
<1>4. /\ Total(Numbers(rows, I \cup J)) = Total(Numbers(rows, I)) + Total(Numbers(rows, J))
      /\ Total(Numbers(rows, I)) \in Int /\ Total(Numbers(rows, J)) \in Int
  BY <1>2, <1>3, TotalAdds
<1> QED BY <1>1, <1>4

\* What was confirmed is the balance, and twice what went out.
LEMMA BalanceFalls ==
  ASSUME NEW rows \in Seq(PageRow)
  PROVE  LET confirmed == WithState(rows, "confirmed")
             out == {i \in confirmed : rows[i].kind \notin Inflow}
         IN Amount(rows, confirmed) - Balance(rows) = 2 * Amount(rows, out)
<1> DEFINE confirmed == WithState(rows, "confirmed")
           out == {i \in confirmed : rows[i].kind \notin Inflow}
           delta == [i \in DOMAIN rows |-> IF i \in confirmed THEN Change(rows[i]) ELSE 0]
           once == [i \in DOMAIN rows |-> delta[i] + Numbers(rows, out)[i]]
<1>1. DOMAIN rows = 1..Len(rows) /\ Len(rows) \in Nat
  OBVIOUS
<1>2. \A i \in 1..Len(rows) : Change(rows[i]) \in Int
  <2>1. \A i \in 1..Len(rows) : rows[i].amount \in Int
    BY NumbersType
  <2>2. \A n \in Int : -n \in Int
    OBVIOUS
  <2> QED BY <2>1, <2>2 DEF Change
<1>3. delta \in Seq(Int) /\ Len(delta) = Len(rows)
  BY <1>1, <1>2
<1>4. Balance(rows) = Total(delta)
  BY DEF Balance
<1>5. /\ Numbers(rows, out) \in Seq(Int) /\ Len(Numbers(rows, out)) = Len(rows)
      /\ Numbers(rows, confirmed) \in Seq(Int) /\ Len(Numbers(rows, confirmed)) = Len(rows)
  BY NumbersType
<1>6. \A i \in 1..Len(rows) : delta[i] \in Int /\ Numbers(rows, out)[i] \in Int
  <2> HIDE DEF delta, out, confirmed
  <2>1. \A q \in Seq(Int) : \A i \in 1..Len(q) : q[i] \in Int
    OBVIOUS
  <2>2. \A i \in 1..Len(rows) : delta[i] \in Int
    BY <1>3, <2>1
  <2>3. \A i \in 1..Len(rows) : Numbers(rows, out)[i] \in Int
    BY <1>5, <2>1
  <2> QED BY <2>2, <2>3
<1>7. \A i \in 1..Len(rows) :
        Numbers(rows, confirmed)[i] = delta[i] + Numbers(rows, out)[i] + Numbers(rows, out)[i]
  <2> SUFFICES ASSUME NEW i \in 1..Len(rows)
               PROVE  Numbers(rows, confirmed)[i] =
                        delta[i] + Numbers(rows, out)[i] + Numbers(rows, out)[i]
    OBVIOUS
  <2>1. /\ Numbers(rows, confirmed)[i] = IF i \in confirmed THEN rows[i].amount ELSE 0
        /\ Numbers(rows, out)[i] = IF i \in out THEN rows[i].amount ELSE 0
        /\ rows[i].amount \in Int
    BY NumbersType
  <2>2. delta[i] = IF i \in confirmed THEN Change(rows[i]) ELSE 0
    BY <1>1
  <2>3. i \in out <=> i \in confirmed /\ rows[i].kind \notin Inflow
    OBVIOUS
  <2> HIDE DEF confirmed, out, delta
  <2> QED BY <2>1, <2>2, <2>3 DEF Change
<1> HIDE DEF confirmed, out, delta
<1>8. /\ once \in Seq(Int) /\ Len(once) = Len(rows)
      /\ \A i \in 1..Len(rows) : once[i] = delta[i] + Numbers(rows, out)[i]
  BY <1>1, <1>6
<1> HIDE DEF once
<1>9. Total(once) = Total(delta) + Total(Numbers(rows, out))
      /\ Total(delta) \in Int /\ Total(Numbers(rows, out)) \in Int
  BY <1>3, <1>5, <1>8, TotalAdds
<1>10. Total(Numbers(rows, confirmed)) = Total(once) + Total(Numbers(rows, out))
  BY <1>5, <1>7, <1>8, TotalAdds
<1>11. \A I : Amount(rows, I) = Total(Numbers(rows, I))
  BY DEF Amount, Numbers
<1>12. Amount(rows, confirmed) - Balance(rows) = 2 * Amount(rows, out)
  BY <1>4, <1>9, <1>10, <1>11
<1> QED BY <1>12 DEF confirmed, out

\* One more of a kind is one piece more.
LEMMA PieceAdded ==
  ASSUME NEW D, NEW f \in [D -> Nat], NEW k \in D
  PROVE  /\ Pieces([f EXCEPT ![k] = @ + 1]) = Pieces(f) \cup {<<k, f[k] + 1>>}
         /\ <<k, f[k] + 1>> \notin Pieces(f)
<1> DEFINE of(b) == {x \in D \X Nat : x[2] \in 1..b[x[1]]}
           g == [f EXCEPT ![k] = @ + 1]
<1>1. ASSUME NEW b \in [D -> Nat]
      PROVE  Pieces(b) = of(b)
  <2>1. \A u \in D : 1..b[u] \subseteq Nat
    OBVIOUS
  <2>2. ASSUME NEW u \in D, NEW x \in {u} \X (1..b[u])
        PROVE  x \in of(b)
    BY <2>1, <2>2
  <2>3. ASSUME NEW x \in of(b)
        PROVE  \E u \in D : x \in {u} \X (1..b[u])
    <3>1. x[1] \in D /\ x = <<x[1], x[2]>>
      OBVIOUS
    <3> QED BY <3>1
  <2> HIDE DEF of
  <2> QED BY <2>2, <2>3 DEF Pieces
<1>2. g \in [D -> Nat] /\ f[k] \in Nat
  OBVIOUS
<1>3. \A u \in D : g[u] = IF u = k THEN f[k] + 1 ELSE f[u]
  OBVIOUS
<1>4. \A i \in Nat : i \in 1..(f[k] + 1) <=> i \in 1..f[k] \/ i = f[k] + 1
  BY <1>2
<1> HIDE DEF g
<1>5. ASSUME NEW x \in D \X Nat
      PROVE  x \in of(g) <=> x \in of(f) \/ x = <<k, f[k] + 1>>
  BY <1>2, <1>3, <1>4
<1>6. <<k, f[k] + 1>> \in D \X Nat /\ <<k, f[k] + 1>> \notin of(f)
  BY <1>2
<1>7. of(f) \subseteq D \X Nat /\ of(g) \subseteq D \X Nat
  OBVIOUS
<1>8. Pieces(f) = of(f) /\ Pieces(g) = of(g)
  BY <1>1, <1>2
<1> HIDE DEF of
<1>9. Pieces(g) = Pieces(f) \cup {<<k, f[k] + 1>>} /\ <<k, f[k] + 1>> \notin Pieces(f)
  BY <1>5, <1>6, <1>7, <1>8
<1> QED BY <1>9 DEF g

\* How many places have each of the kinds D, key being the kind of a place.
CountBy(key, D) == [k \in D |-> Cardinality({i \in DOMAIN key : key[i] = k})]

\* Places of a list, counted kind by kind, have as many pieces as there are places.
LEMMA KindsAddUp ==
  ASSUME NEW n \in Nat, NEW I \in SUBSET (1..n), NEW D, NEW key \in [I -> D]
  PROVE  Cardinality(Pieces(CountBy(key, D))) = Cardinality(I)
<1> DEFINE upto(m)  == {i \in I : i <= m}
           of(m, k) == {i \in upto(m) : key[i] = k}
           size(m) == [k \in D |-> Cardinality(of(m, k))]
           S == {m \in Nat : /\ IsFiniteSet(Pieces(size(m)))
                             /\ Cardinality(Pieces(size(m))) = Cardinality(upto(m))}
<1>0. \A i \in I : i \in Nat /\ 1 <= i /\ i <= n
  OBVIOUS
<1>1. \A J \in SUBSET I : IsFiniteSet(J) /\ Cardinality(J) \in Nat
  <2>1. IsFiniteSet(1..n)
    BY FS_Interval
  <2> QED BY <2>1, FS_Subset, FS_CardinalityType
<1>2. \A m : upto(m) \in SUBSET I /\ \A k : of(m, k) \in SUBSET I
  OBVIOUS
<1>3. \A m : size(m) \in [D -> Nat]
  BY <1>1, <1>2
<1>4. 0 \in S
  <2>1. upto(0) = {}
    <3>1. \A i \in I : ~(i <= 0)
      BY <1>0
    <3> QED BY <3>1
  <2>2. \A k \in D : of(0, k) = {}
    BY <2>1
  <2>3. \A k \in D : size(0)[k] = 0
    BY <2>2, FS_EmptySet
  <2>4. \A k \in D : {k} \X (1..size(0)[k]) = {}
    BY <2>3
  <2>5. DOMAIN size(0) = D
    OBVIOUS
  <2> HIDE DEF size
  <2>6. Pieces(size(0)) = {}
    BY <2>4, <2>5 DEF Pieces
  <2> QED BY <2>1, <2>6, FS_EmptySet
<1>5. ASSUME NEW m \in S PROVE m + 1 \in S
  <2>0. m \in Nat /\ m + 1 \in Nat
    OBVIOUS
  <2>1. CASE m + 1 \notin I
    <3>1. \A i \in I : i <= m + 1 <=> i <= m
      BY <2>0, <2>1
    <3>2. upto(m + 1) = upto(m)
      BY <3>1
    <3>3. size(m + 1) = size(m)
      BY <3>2
    <3> HIDE DEF size, upto
    <3> QED BY <2>0, <3>2, <3>3
  <2>2. CASE m + 1 \in I
    <3> DEFINE d == key[m + 1]
    <3>1. d \in D
      BY <2>2
    <3>2. \A i \in I : i <= m + 1 <=> i <= m \/ i = m + 1
      BY <2>0
    <3>3. upto(m + 1) = upto(m) \cup {m + 1} /\ m + 1 \notin upto(m)
      <4>1. ~(m + 1 <= m)
        BY <2>0
      <4> QED BY <2>2, <3>2, <4>1
    <3>4. of(m + 1, d) = of(m, d) \cup {m + 1} /\ m + 1 \notin of(m, d)
      BY <3>3
    <3>5. \A k \in D : k # d => of(m + 1, k) = of(m, k)
      BY <3>3
    <3>6. /\ IsFiniteSet(of(m, d)) /\ IsFiniteSet(upto(m))
          /\ Cardinality(upto(m)) \in Nat /\ Cardinality(of(m, d)) \in Nat
      BY <1>1, <1>2
    <3> HIDE DEF of, upto, d
    <3>7. /\ Cardinality(of(m + 1, d)) = Cardinality(of(m, d)) + 1
          /\ Cardinality(upto(m + 1)) = Cardinality(upto(m)) + 1
      BY <3>3, <3>4, <3>6, FS_AddElement
    <3>8. size(m + 1) = [size(m) EXCEPT ![d] = @ + 1]
      BY <3>1, <3>5, <3>7
    <3>9. size(m) \in [D -> Nat]
      BY <1>3
    <3> HIDE DEF size
    <3>10. /\ Pieces(size(m + 1)) = Pieces(size(m)) \cup {<<d, size(m)[d] + 1>>}
           /\ <<d, size(m)[d] + 1>> \notin Pieces(size(m))
      BY <3>1, <3>8, <3>9, PieceAdded
    <3>11. /\ IsFiniteSet(Pieces(size(m + 1)))
           /\ Cardinality(Pieces(size(m + 1))) = Cardinality(Pieces(size(m))) + 1
      BY <3>10, FS_AddElement
    <3> QED BY <2>0, <3>7, <3>11
  <2> QED BY <2>1, <2>2
<1> HIDE DEF S
<1>6. n \in S
  BY <1>4, <1>5, AllNumbers
<1>7. upto(n) = I
  BY <1>0
<1>8. size(n) = CountBy(key, D)
  BY <1>7 DEF CountBy
<1> QED BY <1>6, <1>7, <1>8 DEF S

\* All the places, or some, of a list of rows.
LEMMA PlacesFinite ==
  ASSUME NEW rows \in Seq(PageRow)
  PROVE  /\ DOMAIN rows = 1..Len(rows) /\ Len(rows) \in Nat
         /\ Cardinality(DOMAIN rows) = Len(rows)
         /\ \A I \in SUBSET (DOMAIN rows) : IsFiniteSet(I) /\ Cardinality(I) \in Nat
                                            /\ Cardinality(I) <= Len(rows)
<1>1. DOMAIN rows = 1..Len(rows) /\ Len(rows) \in Nat
  OBVIOUS
<1>2. IsFiniteSet(1..Len(rows)) /\ Cardinality(1..Len(rows)) = Len(rows)
  BY <1>1, FS_Interval
<1> QED BY <1>1, <1>2, FS_Subset, FS_CardinalityType

\* Places apart from each other are counted one after the other.
LEMMA CountsAdd ==
  ASSUME NEW rows \in Seq(PageRow), NEW I \in SUBSET (DOMAIN rows),
         NEW J \in SUBSET (DOMAIN rows), I \cap J = {}
  PROVE  Cardinality(I \cup J) = Cardinality(I) + Cardinality(J)
<1>1. IsFiniteSet(I) /\ IsFiniteSet(J) /\ Cardinality(I) \in Nat /\ Cardinality(J) \in Nat
  BY PlacesFinite
<1>2. Cardinality(I \cup J) = Cardinality(I) + Cardinality(J) - Cardinality(I \cap J)
  BY <1>1, FS_Union
<1>3. Cardinality(I \cap J) = 0
  BY FS_EmptySet
<1> QED BY <1>1, <1>2, <1>3

LEMMA TransactionFigures ==
  ASSUME NEW rows \in Seq(PageRow)
  PROVE  LET v == Volumes(rows)
             cancelled ==
               DOMAIN rows \ UNION {WithState(rows, x) : x \in {"confirmed", "pending", "failed"}}
             out == {i \in WithState(rows, "confirmed") : rows[i].kind \notin Inflow}
         IN /\ v.confirmed + v.pending + v.failed + Amount(rows, cancelled)
                 = Amount(rows, DOMAIN rows)
            /\ v.confirmed - Balance(rows) = 2 * Amount(rows, out)
            /\ Cardinality(Pieces(UsageByType(rows))) = v.total
<1> DEFINE c == WithState(rows, "confirmed")
           p == WithState(rows, "pending")
           f == WithState(rows, "failed")
           rest == DOMAIN rows \ UNION {WithState(rows, x) : x \in {"confirmed", "pending", "failed"}}
           v == Volumes(rows)
<1>1. /\ c \cap p = {} /\ (c \cup p) \cap f = {} /\ (c \cup p \cup f) \cap rest = {}
      /\ c \cup p \cup f \cup rest = DOMAIN rows
  <2>1. rest = DOMAIN rows \ (c \cup p \cup f)
    OBVIOUS
  <2> QED BY <2>1 DEF WithState
<1>2. v.confirmed = Amount(rows, c) /\ v.pending = Amount(rows, p) /\ v.failed = Amount(rows, f)
      /\ v.total = Len(rows)
  BY DEF Volumes
<1>3. v.confirmed - Balance(rows) =
        2 * Amount(rows, {i \in WithState(rows, "confirmed") : rows[i].kind \notin Inflow})
  BY <1>2, BalanceFalls
<1>4. v.confirmed + v.pending + v.failed + Amount(rows, rest) = Amount(rows, DOMAIN rows)
  <2> HIDE DEF c, p, f, rest, v
  <2>1. /\ Amount(rows, c \cup p) = Amount(rows, c) + Amount(rows, p)
        /\ Amount(rows, c) \in Int /\ Amount(rows, p) \in Int
    BY <1>1, AmountAdds
  <2>2. /\ Amount(rows, c \cup p \cup f) = Amount(rows, c \cup p) + Amount(rows, f)
        /\ Amount(rows, f) \in Int
    BY <1>1, AmountAdds
  <2>3. /\ Amount(rows, c \cup p \cup f \cup rest) =
             Amount(rows, c \cup p \cup f) + Amount(rows, rest)
        /\ Amount(rows, rest) \in Int
    BY <1>1, AmountAdds
  <2> QED BY <1>1, <1>2, <2>1, <2>2, <2>3
<1>5. Cardinality(Pieces(UsageByType(rows))) = v.total
  <2> DEFINE K == {rows[i].kind : i \in DOMAIN rows}
             key == [i \in DOMAIN rows |-> rows[i].kind]
  <2>1. /\ DOMAIN rows = 1..Len(rows) /\ Len(rows) \in Nat
        /\ Cardinality(DOMAIN rows) = Len(rows)
    BY PlacesFinite
  <2>2. key \in [DOMAIN rows -> K] /\ \A i \in DOMAIN rows : key[i] = rows[i].kind
    OBVIOUS
  <2>3. UsageByType(rows) = [k \in K |-> Cardinality({i \in DOMAIN rows : key[i] = k})]
    BY <2>2 DEF UsageByType, WithKind
  <2> DEFINE n == Len(rows)
             I == DOMAIN rows
             usage == UsageByType(rows)
  <2>4. n \in Nat /\ I \in SUBSET (1..n) /\ key \in [I -> K]
    BY <2>1, <2>2
  <2>5. usage = CountBy(key, K)
    BY <2>3 DEF CountBy
  <2>6. v.total = n /\ Cardinality(I) = n
    BY <1>2, <2>1
  <2> HIDE DEF c, p, f, rest, v, K, key, n, I, usage
  <2>7. Cardinality(Pieces(usage)) = Cardinality(I)
    BY <2>4, <2>5, KindsAddUp
  <2> QED BY <2>6, <2>7 DEF usage
<1> QED BY <1>3, <1>4, <1>5

\* Some places, counted symbol by symbol.
LEMMA SymbolsAddUp ==
  ASSUME NEW rows \in Seq(PageRow), NEW I \in SUBSET (DOMAIN rows)
  PROVE  Cardinality(Pieces([x \in {rows[i].symbol : i \in DOMAIN rows} |->
                               Cardinality({i \in I : rows[i].symbol = x})])) = Cardinality(I)
<1> DEFINE n == Len(rows)
           K == {rows[i].symbol : i \in DOMAIN rows}
           key == [i \in I |-> rows[i].symbol]
           counts == [x \in K |-> Cardinality({i \in I : rows[i].symbol = x})]
<1>1. n \in Nat /\ I \in SUBSET (1..n)
  BY PlacesFinite
<1>2. key \in [I -> K] /\ \A i \in I : key[i] = rows[i].symbol
  OBVIOUS
<1>3. counts = [x \in K |-> Cardinality({i \in I : key[i] = x})]
  BY <1>2
<1>4. counts = CountBy(key, K)
  BY <1>3 DEF CountBy
<1> HIDE DEF n, K, key, counts
<1>5. Cardinality(Pieces(counts)) = Cardinality(I)
  BY <1>1, <1>2, <1>4, KindsAddUp
<1> QED BY <1>5 DEF counts, K

LEMMA SignalFigures ==
  ASSUME NEW rows \in Seq(PageRow), \A i \in DOMAIN rows : rows[i].kind \in {"buy", "sell"}
  PROVE  LET s == SignalStats(rows)
             y == SymbolStats(rows)
         IN /\ s.buy + s.sell = s.total
            /\ s.processed + s.pending + s.rejected <= s.total
            /\ Cardinality(Pieces([x \in DOMAIN y |-> y[x].buy])) = s.buy
            /\ Cardinality(Pieces([x \in DOMAIN y |-> y[x].sell])) = s.sell
<1> DEFINE s == SignalStats(rows)
           y == SymbolStats(rows)
           K == {rows[i].symbol : i \in DOMAIN rows}
           buy == WithKind(rows, "buy")
           sell == WithKind(rows, "sell")
           d == WithState(rows, "processed")
           p == WithState(rows, "pending")
           r == WithState(rows, "rejected")
<1>1. /\ buy \in SUBSET (DOMAIN rows) /\ sell \in SUBSET (DOMAIN rows)
      /\ buy \cap sell = {} /\ buy \cup sell = DOMAIN rows
      /\ d \in SUBSET (DOMAIN rows) /\ p \in SUBSET (DOMAIN rows) /\ r \in SUBSET (DOMAIN rows)
      /\ d \cap p = {} /\ (d \cup p) \cap r = {}
  BY DEF WithKind, WithState
<1>2. /\ s.total = Len(rows) /\ s.buy = Cardinality(buy) /\ s.sell = Cardinality(sell)
      /\ s.processed = Cardinality(d) /\ s.pending = Cardinality(p)
      /\ s.rejected = Cardinality(r)
  BY DEF SignalStats
<1>3. DOMAIN y = K
  BY DEF SymbolStats
<1>4. [x \in DOMAIN y |-> y[x].buy]
        = [x \in K |-> Cardinality({i \in buy : rows[i].symbol = x})]
  <2>1. \A x : {i \in DOMAIN rows : rows[i].symbol = x} \cap buy
                 = {i \in buy : rows[i].symbol = x}
    BY <1>1
  <2>2. \A x \in K : y[x].buy = Cardinality({i \in DOMAIN rows : rows[i].symbol = x} \cap buy)
    BY DEF SymbolStats
  <2> HIDE DEF y, K, buy
  <2> QED BY <1>3, <2>1, <2>2
<1>5. [x \in DOMAIN y |-> y[x].sell]
        = [x \in K |-> Cardinality({i \in sell : rows[i].symbol = x})]
  <2>1. \A x : {i \in DOMAIN rows : rows[i].symbol = x} \ buy
                 = {i \in sell : rows[i].symbol = x}
    BY <1>1
  <2>2. \A x \in K : y[x].sell = Cardinality({i \in DOMAIN rows : rows[i].symbol = x} \ buy)
    BY DEF SymbolStats
  <2> HIDE DEF y, K, buy, sell
  <2> QED BY <1>3, <2>1, <2>2
<1> HIDE DEF s, y, buy, sell, d, p, r
<1>6. s.buy + s.sell = s.total
  <2>1. Cardinality(buy \cup sell) = Cardinality(buy) + Cardinality(sell)
    BY <1>1, CountsAdd
  <2>2. Cardinality(DOMAIN rows) = Len(rows)
    BY PlacesFinite
  <2> QED BY <1>1, <1>2, <2>1, <2>2
<1>7. s.processed + s.pending + s.rejected <= s.total
  <2>1. d \cup p \in SUBSET (DOMAIN rows) /\ d \cup p \cup r \in SUBSET (DOMAIN rows)
    BY <1>1
  <2>2. Cardinality(d \cup p) = Cardinality(d) + Cardinality(p)
    BY <1>1, CountsAdd
  <2>3. Cardinality(d \cup p \cup r) = Cardinality(d \cup p) + Cardinality(r)
    BY <1>1, <2>1, CountsAdd
  <2>4. Cardinality(d \cup p \cup r) <= Len(rows)
    BY <2>1, PlacesFinite
  <2> QED BY <1>2, <2>2, <2>3, <2>4
<1>8. Cardinality(Pieces([x \in DOMAIN y |-> y[x].buy])) = s.buy
  BY <1>1, <1>2, <1>4, SymbolsAddUp
<1>9. Cardinality(Pieces([x \in DOMAIN y |-> y[x].sell])) = s.sell
  BY <1>1, <1>2, <1>5, SymbolsAddUp
<1> QED BY <1>6, <1>7, <1>8, <1>9 DEF s, y

\* The figures of the pages agree, whatever rows the API answers with.
THEOREM FiguresOfPagesAgree == PagesSpec => []FiguresAgree
<1>1. ASSUME PagesInv PROVE FiguresAgree
  <2>1. entry \in EntryOf(PageData)
    BY <1>1 DEF PagesInv, PagesTypeOK, PageData
  <2>2. Rows(entry) = <<>> \/ Rows(entry) \in Lists(page)
    BY <2>1 DEF Rows, EntryOf, PageData
  <2>3. Rows(entry) \in Seq(PageRow)
    <3>1. <<>> \in Seq(PageRow)
      OBVIOUS
    <3> QED BY <2>2, <3>1, ListTypes
  <2>4. page = "ScannerDashboard" =>
          \A i \in DOMAIN Rows(entry) : Rows(entry)[i].kind \in {"buy", "sell"}
    <3>1. page = "ScannerDashboard" => Lists(page) = SignalLists
      BY DEF Lists, Placeholder
    <3>2. DOMAIN <<>> = {}
      OBVIOUS
    <3> QED BY <2>2, <3>1, <3>2, PagesAssumption DEF PagesAssumption
  <2> QED BY <2>3, <2>4, TransactionFigures, SignalFigures DEF FiguresAgree
<1> QED BY <1>1, PagesInvariance, PTL

-----------------------------------------------------------------------------
(* The six modules side by side. *)

\* In WebClient each module behaves as it does alone.
THEOREM SideBySideAsAlone ==
  WebSpec => /\ AssistantSpec /\ ConsoleSpec /\ RiskSpec /\ SessionSpec /\ PagesSpec
             /\ FeedSpec
<1>1. WebInit => /\ AssistantInit /\ ConsoleInit /\ RiskInit /\ SessionInit /\ PagesInit
                 /\ FeedInit
  BY DEF WebInit
<1>2. [WebNext]_webVars =>
        /\ [AssistantNext]_assistantVars /\ [ConsoleNext]_consoleVars /\ [RiskNext]_riskVars
        /\ [SessionNext]_sessionVars /\ [PagesNext]_pagesVars /\ [FeedNext]_feedVars
  BY DEF WebNext, webVars
<1> QED BY <1>1, <1>2, PTL
        DEF WebSpec, AssistantSpec, ConsoleSpec, RiskSpec, SessionSpec, PagesSpec, FeedSpec

\* All six keep their types.
THEOREM WebTypes == WebSpec => []WebTypeOK
<1> DEFINE Part == part \in {"assistant", "bots", "risk", "session", "pages", "feed"}
<1>1. WebInit => Part
  BY DEF WebInit
<1>2. Part /\ [WebNext]_webVars => Part'
  BY DEF WebNext, webVars
<1>3. Part /\ AssistantTypeOK /\ ConsoleTypeOK /\ RiskTypeOK /\ SessionTypeOK /\ PagesTypeOK
        /\ FeedTypeOK => WebTypeOK
  BY DEF WebTypeOK
<1>4. WebSpec => []Part
  BY <1>1, <1>2, PTL DEF WebSpec
<1> HIDE DEF Part
<1> QED BY <1>3, <1>4, SideBySideAsAlone, AssistantTypes, ConsoleTypes, RiskTypes, SessionType,
           PagesTypes, FeedTypes, PTL
=============================================================================
