----------------------------- MODULE WebSession -----------------------------
(***************************************************************************)
(* The sessions of the tabs of one browser (lib/auth.ts, store/authStore,  *)
(* hooks/useAuth, Login, Register, Header): a token in each tab's store,   *)
(* one in localStorage for all of them, and the login and register calls   *)
(* under way.  Both forms are there while a tab is signed out.  A form     *)
(* that goes away forgets its call, but the call's onSuccess still runs.   *)
(***************************************************************************)
EXTENDS Naturals

CONSTANTS
  Tab,
  Call,        \* ids of login and register calls: bounds those under way at a time
  MaxTokens    \* bound on the tokens the API issues

ASSUME SessionAssumption == MaxTokens \in Nat /\ Tab # {}

Form    == {"login", "register"}
Token   == 0..MaxTokens
NoToken == 0

VARIABLES
  stored,      \* localStorage: the access token
  token,       \* a tab's accessToken; its status is "authenticated" if there is one
  calls,       \* the calls under way
  issued,      \* how many tokens the API issued
  lastWriter   \* history: the tabs that wrote or read localStorage since the last write

sessionVars == <<stored, token, calls, issued, lastWriter>>

NoCallOut == [out |-> FALSE, tab |-> CHOOSE t \in Tab : TRUE, form |-> "login",
              held |-> FALSE, both |-> FALSE]

\* A call knows its tab and form, whether the form still holds it, and - history - whether
\* a call of the other form, or of a form that is gone, was under way at the same time.
SessionTypeOK ==
  /\ stored \in Token /\ token \in [Tab -> Token] /\ issued \in Token
  /\ calls \in [Call -> [out : BOOLEAN, tab : Tab, form : Form, held : BOOLEAN, both : BOOLEAN]]
  /\ lastWriter \subseteq Tab

\* All tabs are opened signed out.
SessionInit ==
  /\ stored = NoToken /\ token = [t \in Tab |-> NoToken]
  /\ calls = [c \in Call |-> NoCallOut]
  /\ issued = 0 /\ lastWriter = Tab

-----------------------------------------------------------------------------
Held(t, f) == {c \in Call : calls[c].out /\ calls[c].held /\ calls[c].tab = t /\ calls[c].form = f}

\* Mutant: the button is not disabled while its call is under way.
NeverBusy(t, f) == FALSE

FormBusy(t, f) == Held(t, f) # {}

\* A form is submitted.
SubmitCall(c, t, f) ==
  /\ token[t] = NoToken /\ ~FormBusy(t, f) /\ ~calls[c].out
  /\ LET others == {d \in Call \ Held(t, f) : calls[d].out /\ calls[d].tab = t} IN
       calls' = [d \in Call |->
                   IF d = c THEN [out |-> TRUE, tab |-> t, form |-> f, held |-> TRUE,
                                  both |-> others # {}]
                   ELSE IF d \in others THEN [calls[d] EXCEPT !.both = TRUE] ELSE calls[d]]
  /\ UNCHANGED <<stored, token, issued, lastWriter>>

\* The forms of a tab go away; calls they held run on without them.
Unmounted(cs, t) ==
  [c \in Call |-> IF cs[c].tab = t THEN [cs[c] EXCEPT !.held = FALSE] ELSE cs[c]]

\* The call succeeds: setSession, whatever the tab did meanwhile.
SignedIn(c) ==
  /\ calls[c].out /\ issued < MaxTokens
  /\ issued' = issued + 1
  /\ stored' = issued' /\ token' = [token EXCEPT ![calls[c].tab] = issued']
  /\ lastWriter' = {calls[c].tab}
  /\ calls' = Unmounted([calls EXCEPT ![c] = NoCallOut], calls[c].tab)

CallRefused(c) ==
  /\ calls[c].out
  /\ calls' = [calls EXCEPT ![c] = NoCallOut]
  /\ UNCHANGED <<stored, token, issued, lastWriter>>

\* Mutant: the token is left in localStorage.
KeepStored(s) == s

ClearStoredAuth(s) == NoToken

\* clearSession: the Header's logout.
Logout(t) ==
  /\ token[t] # NoToken
  /\ stored' = ClearStoredAuth(stored) /\ token' = [token EXCEPT ![t] = NoToken]
  /\ lastWriter' = {t}
  /\ UNCHANGED <<calls, issued>>

\* The tab is loaded anew: hydrate, and calls under way are forgotten.
Reload(t) ==
  /\ token' = [token EXCEPT ![t] = stored]
  /\ calls' = [c \in Call |-> IF calls[c].tab = t THEN NoCallOut ELSE calls[c]]
  /\ lastWriter' = lastWriter \cup {t}
  /\ UNCHANGED <<stored, issued>>

SessionNext ==
  \/ \E c \in Call :
       \/ \E t \in Tab, f \in Form : SubmitCall(c, t, f)
       \/ SignedIn(c) \/ CallRefused(c)
  \/ \E t \in Tab : Logout(t) \/ Reload(t)

SessionSpec == SessionInit /\ [][SessionNext]_sessionVars

-----------------------------------------------------------------------------
\* A tab that wrote or read localStorage last agrees with it: a reload then changes
\* nothing, and a logout survives it.
TabAgreesWithStorage == \A t \in lastWriter : token[t] = stored

\* A call signs a tab in after its form is gone - over another session, or after a logout -
\* only if the user had both forms' calls, or an older late one, under way at once.
LateSignInNeedsTwoCalls == \A c \in Call : calls[c].out /\ ~calls[c].held => calls[c].both
=============================================================================
