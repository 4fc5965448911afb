--------------------------- MODULE AssistantRelay ---------------------------
(***************************************************************************)
(* The build assistant: notification-service takes texts from Telegram and *)
(* publishes them as tasks, services/ai-agent lets an agent work on each   *)
(* and publishes the answer, notification-service sends it to the chat.    *)
(*                                                                         *)
(* Both channels are Redis pub/sub: what is published while the other side *)
(* does not subscribe is gone - it is down, boots, or its connection       *)
(* dropped.  A publication whose reply the connection lost is sent again   *)
(* by ioredis.  Handlers run concurrently.  Promises that nobody awaits    *)
(* end the Node process when they are rejected, and Docker starts it anew. *)
(* Telegram gives a text again until the bot has asked for the next ones.  *)
(***************************************************************************)
EXTENDS Naturals, FiniteSets

CONSTANTS
  Text,         \* texts users send
  Prefix,       \* how a text begins: "/db ", "/api ", "/ui ", "/rust ", "/" or "plain"
  Padded,       \* texts with white space before that
  MaxOutages    \* bound on the ends of a process and on connections to Redis that drop

Prefixes == {"plain", "/", "/api ", "/db ", "/ui ", "/rust "}
Agent    == {"planner", "api", "db", "frontend", "executor"}
Side     == {"bot", "agents"}

ASSUME AssistantAssumption ==
  /\ Prefix \in [Text -> Prefixes] /\ Padded \subseteq Text
  /\ MaxOutages \in Nat

VARIABLES
  update,    \* at Telegram and in the bot: "unsent", "queued", "given", "taken", "confirmed"
  givenTo,   \* history: how often a text was given to the bot's handler
  tasks,     \* in ai-agent: how many tasks of a text are being worked on
  responses, \* in notification-service: how many answers to it are to be sent
  replies,   \* in the chat: how many it got
  worked,    \* history: the agents that were asked, and for which text
  up,        \* the processes running
  hears,     \* those whose subscription Redis has
  resent,    \* history: how often a publication for a text was sent again
  troubled,  \* history: texts that were on their way when something failed, or were
             \* handled while a side did not subscribe
  outages    \* history: ends of a process, connections dropped

sideVars      == <<up, hears>>
outageVars    == <<resent, troubled, outages>>
assistantVars == <<update, givenTo, tasks, responses, replies, worked, sideVars, outageVars>>

\* Where a text and the answers to it are.
AssistantTypeOK ==
  /\ update \in [Text -> {"unsent", "queued", "given", "taken", "confirmed"}]
  /\ givenTo \in [Text -> Nat] /\ tasks \in [Text -> Nat]
  /\ responses \in [Text -> Nat] /\ replies \in [Text -> Nat]
  /\ worked \subseteq Agent \X Text /\ hears \subseteq up /\ up \subseteq Side
  /\ resent \in [Text -> Nat] /\ troubled \subseteq Text
  /\ outages \in 0..MaxOutages

AssistantInit ==
  /\ update = [t \in Text |-> "unsent"]
  /\ givenTo = [t \in Text |-> 0] /\ tasks = [t \in Text |-> 0]
  /\ responses = [t \in Text |-> 0] /\ replies = [t \in Text |-> 0]
  /\ worked = {} /\ up = Side /\ hears = {}
  /\ resent = [t \in Text |-> 0] /\ troubled = {} /\ outages = 0

-----------------------------------------------------------------------------
Add(f, t)  == [f EXCEPT ![t] = @ + 1]
Drop1(f, t) == [f EXCEPT ![t] = @ - 1]

UserWrites(t) ==
  /\ update[t] = "unsent"
  /\ update' = [update EXCEPT ![t] = "queued"]
  /\ UNCHANGED <<givenTo, tasks, responses, replies, worked, sideVars, outageVars>>

\* Texts the handler returns from at once.
Ignored(t) == Prefix[t] # "plain" /\ t \notin Padded

\* The text handler starts: it sends the acknowledgement and begins to publish.
Handle(t) ==
  /\ "bot" \in up /\ update[t] = "queued"
  /\ IF Ignored(t)
       THEN update' = [update EXCEPT ![t] = "taken"] /\ UNCHANGED givenTo
       ELSE update' = [update EXCEPT ![t] = "given"] /\ givenTo' = Add(givenTo, t)
  /\ troubled' = IF hears = Side THEN troubled ELSE troubled \cup {t}
  /\ UNCHANGED <<tasks, responses, replies, worked, sideVars, resent, outages>>

\* The agent the orchestrator gives a task to, once it has trimmed the text.
AgentFor(t) ==
  IF Prefix[t] = "/db " THEN "db"
  ELSE IF Prefix[t] = "/api " THEN "api"
  ELSE IF Prefix[t] = "/ui " THEN "frontend"
  ELSE IF Prefix[t] = "/rust " THEN "executor"
  ELSE "planner"

\* The task reaches whoever subscribes; the agent starts on it.
TaskArrives(t) ==
  IF "agents" \in hears
    THEN tasks' = Add(tasks, t) /\ worked' = worked \cup {<<AgentFor(t), t>>}
    ELSE UNCHANGED <<tasks, worked>>

PublishTask(t) ==
  /\ "bot" \in up /\ update[t] = "given"
  /\ update' = [update EXCEPT ![t] = "taken"]
  /\ TaskArrives(t)
  /\ UNCHANGED <<givenTo, responses, replies, sideVars, outageVars>>

\* The handlers of all texts fetched are done and the bot asks for the next ones.
Confirm ==
  /\ "bot" \in up
  /\ \A t \in Text : update[t] # "given"
  /\ \E t \in Text : update[t] = "taken"
  /\ update' = [t \in Text |-> IF update[t] = "taken" THEN "confirmed" ELSE update[t]]
  /\ UNCHANGED <<givenTo, tasks, responses, replies, worked, sideVars, outageVars>>

\* Mutant: the answer is published and the handler is run again.
StaysTasked(f, t) == f

TaskDone(f, t) == Drop1(f, t)

\* The answer reaches the bot if it subscribes.
ResponseArrives(t) ==
  IF "bot" \in hears THEN responses' = Add(responses, t) ELSE UNCHANGED responses

\* The agent answers, with a plan or - its error is caught - with an empty one.
Answer(t) ==
  /\ tasks[t] > 0
  /\ tasks' = TaskDone(tasks, t)
  /\ ResponseArrives(t)
  /\ UNCHANGED <<update, givenTo, replies, worked, sideVars, outageVars>>

\* Telegram takes the answer.
SendMessage(t) ==
  /\ responses[t] > 0
  /\ responses' = Drop1(responses, t)
  /\ replies' = Add(replies, t)
  /\ UNCHANGED <<update, givenTo, tasks, worked, sideVars, outageVars>>

-----------------------------------------------------------------------------
(* What fails. *)

OnItsWay(t) == update[t] \in {"given", "taken"} \/ tasks[t] > 0 \/ responses[t] > 0

\* An outage that may harm the texts in T.
OutageFor(T) ==
  /\ outages < MaxOutages /\ outages' = outages + 1
  /\ troubled' = troubled \cup T

\* The connection drops under the bot's publication; ioredis connects anew and sends it
\* again, and Redis may have passed on the first already.
TaskResent(t) ==
  /\ "bot" \in up /\ update[t] = "given"
  /\ TaskArrives(t)
  /\ OutageFor({t}) /\ resent' = Add(resent, t)
  /\ UNCHANGED <<update, givenTo, responses, replies, sideVars>>

\* The same under the orchestrator's publication.
AnswerResent(t) ==
  /\ tasks[t] > 0
  /\ ResponseArrives(t)
  /\ OutageFor({t}) /\ resent' = Add(resent, t)
  /\ UNCHANGED <<update, givenTo, tasks, replies, worked, sideVars>>

\* The answer cannot be published: the error is logged and the task is over.
AnswerUnpublished(t) ==
  /\ tasks[t] > 0
  /\ tasks' = TaskDone(tasks, t)
  /\ OutageFor({t})
  /\ UNCHANGED <<update, givenTo, responses, replies, worked, sideVars, resent>>

\* The connection that s subscribed on drops.
SubscriberDrops(s) ==
  /\ s \in hears /\ hears' = hears \ {s}
  /\ OutageFor({t \in Text : OnItsWay(t)})
  /\ UNCHANGED <<update, givenTo, tasks, responses, replies, worked, up, resent>>

\* Redis has the subscription of s, at its start or after its connection dropped.
Subscribe(s) ==
  /\ s \in up \ hears /\ hears' = hears \cup {s}
  /\ UNCHANGED <<update, givenTo, tasks, responses, replies, worked, up, outageVars>>

ProcessEnds(s) ==
  /\ s \in up /\ up' = up \ {s} /\ hears' = hears \ {s}
  /\ OutageFor({t \in Text : OnItsWay(t)})
  /\ UNCHANGED resent

\* The bot's process ends: stopped, crashed, or for an acknowledgement or an answer that
\* Telegram refused and nobody awaited.  What it held is gone; texts it had not confirmed
\* will be given again.
BotEnds ==
  /\ ProcessEnds("bot")
  /\ update' = [t \in Text |-> IF update[t] \in {"given", "taken"} THEN "queued" ELSE update[t]]
  /\ responses' = [t \in Text |-> 0]
  /\ UNCHANGED <<givenTo, tasks, replies, worked>>

\* The orchestrator's process ends, and with it the work on its tasks.
AgentsEnd ==
  /\ ProcessEnds("agents")
  /\ tasks' = [t \in Text |-> 0]
  /\ UNCHANGED <<update, givenTo, responses, replies, worked>>

Restart(s) ==
  /\ s \notin up /\ up' = up \cup {s}
  /\ UNCHANGED <<update, givenTo, tasks, responses, replies, worked, hears, outageVars>>

AssistantNext ==
  \/ \E t \in Text : UserWrites(t) \/ Handle(t) \/ PublishTask(t) \/ Answer(t) \/ SendMessage(t)
                      \/ TaskResent(t) \/ AnswerResent(t) \/ AnswerUnpublished(t)
  \/ Confirm \/ BotEnds \/ AgentsEnd
  \/ \E s \in Side : Subscribe(s) \/ SubscriberDrops(s) \/ Restart(s)

AssistantSpec == AssistantInit /\ [][AssistantNext]_assistantVars

-----------------------------------------------------------------------------
UnderWay(t)    == tasks[t] + responses[t] + replies[t]
HandlerDone(t) == update[t] \in {"taken", "confirmed"}

\* A text that was acknowledged gets exactly one answer, in work, under way or sent - unless
\* a side did not subscribe when it was handled, or a process or a connection failed while
\* it was on its way.  What fails before or after, for other texts, does it no harm.
LostOnlyByOutage ==
  \A t \in Text \ troubled : givenTo[t] > 0 /\ HandlerDone(t) => UnderWay(t) = 1

\* Every answer beyond the first is due to a text that was given and acknowledged again
\* after a restart, or to a publication that was sent again: one answer for each at most.
AnswersAccountedFor == \A t \in Text : UnderWay(t) <= givenTo[t] + resent[t]

\* The bot's help text: "/db <desc> - Generate SQL migrations", and so for the other three.
\* Such a text, once handled, was given to its agent, unless something failed.
HelpIsTrue ==
  \A t \in Text \ troubled :
    HandlerDone(t) /\ AgentFor(t) # "planner" => <<AgentFor(t), t>> \in worked
=============================================================================
