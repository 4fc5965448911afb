----------------------------- MODULE WebClient ------------------------------
(***************************************************************************)
(* The modules of the web client and of the assistant, side by side.  They *)
(* share no variable and no property speaks of two of them, so a behaviour *)
(* of WebSpec moves one of them and leaves the others as they began: it is *)
(* sound for each of them, and much cheaper than their product.            *)
(***************************************************************************)
EXTENDS AssistantRelay, BotConsole, RiskConsole, WebSession, DashboardPages, LiveFeed

VARIABLE part   \* the module that moves

webVars == <<part, assistantVars, consoleVars, riskVars, sessionVars, pagesVars,
             feedVars>>

WebInit ==
  /\ part \in {"assistant", "bots", "risk", "session", "pages", "feed"}
  /\ AssistantInit /\ ConsoleInit /\ RiskInit /\ SessionInit /\ FeedInit
  /\ IF part = "pages" THEN PagesInit ELSE PagesInit /\ page = "Plans"

WebNext ==
  \/ /\ part = "assistant" /\ AssistantNext
     /\ UNCHANGED <<part, consoleVars, riskVars, sessionVars, pagesVars, feedVars>>
  \/ /\ part = "bots" /\ ConsoleNext
     /\ UNCHANGED <<part, assistantVars, riskVars, sessionVars, pagesVars, feedVars>>
  \/ /\ part = "risk" /\ RiskNext
     /\ UNCHANGED <<part, assistantVars, consoleVars, sessionVars, pagesVars, feedVars>>
  \/ /\ part = "session" /\ SessionNext
     /\ UNCHANGED <<part, assistantVars, consoleVars, riskVars, pagesVars, feedVars>>
  \/ /\ part = "pages" /\ PagesNext
     /\ UNCHANGED <<part, assistantVars, consoleVars, riskVars, sessionVars, feedVars>>
  \/ /\ part = "feed" /\ FeedNext
     /\ UNCHANGED <<part, assistantVars, consoleVars, riskVars, sessionVars, pagesVars>>

WebSpec == WebInit /\ [][WebNext]_webVars

\* The state of the module that moves is of the shape it says.
WebTypeOK ==
  \/ part = "assistant" /\ AssistantTypeOK
  \/ part = "bots" /\ ConsoleTypeOK
  \/ part = "risk" /\ RiskTypeOK
  \/ part = "session" /\ SessionTypeOK
  \/ part = "pages" /\ PagesTypeOK
  \/ part = "feed" /\ FeedTypeOK
=============================================================================
