--------------------------- MODULE DashboardPages ---------------------------
(***************************************************************************)
(* The list pages of apps/web over the query cache, as users sign in and   *)
(* out: what a page says while its query is out, has failed, or has been   *)
(* answered for another user, and the figures some pages compute.          *)
(*                                                                         *)
(* Keys do not name the user and nothing clears the cache, so an entry     *)
(* passes from one session to the next.  One page is looked at per         *)
(* behaviour, with one entry.  An answer is any list the page may get.     *)
(***************************************************************************)
EXTENDS QueryCache, Integers, Sequences, FiniteSets

CONSTANTS
  User, Nobody,
  Bots, Wallets, SignalLists, Transactions, Others,  \* the lists the API may answer with
  Symbol        \* what a search may be for; "" for none

PageRow == [symbol : STRING, kind : STRING, state : STRING, amount : Int]

\* SignalAction knows two actions, and a signal has no other.
ASSUME PagesAssumption ==
  /\ Bots \cup Wallets \cup SignalLists \cup Transactions \cup Others \subseteq Seq(PageRow)
  /\ \A rows \in SignalLists : \A i \in DOMAIN rows : rows[i].kind \in {"buy", "sell"}
  /\ Nobody \notin User /\ Symbol \subseteq STRING
  /\ NoData \notin [owner : User, rows : Seq(PageRow)]

Filter == [kind : {"all", "buy", "live", "deposit"}, state : {"all", "pending"},
           search : Symbol \cup {""}]

\* A search or a choice leaves the rows that match it: name and symbol are one value here.
Matches(r, f) ==
  /\ f.search \in {"", r.symbol}
  /\ f.kind \in {"all", r.kind}
  /\ f.state \in {"all", r.state}

\* What is shown of a list, by its place there: what matches, or what comes first.
Matching(rows, f) == {i \in DOMAIN rows : Matches(rows[i], f)}
Slice(rows, n)    == {i \in DOMAIN rows : i <= n}

Page  == {"BotList", "WalletsCard", "SignalsCard", "ExchangeAccounts", "Plans", "Billing",
          "WchUsageCard", "WchBalance", "WchHistory", "WalletConnect", "Signals",
          "ScannerDashboard", "Orders", "Executions", "BotLogs"}

\* Pages and cards that are given data without its query.
Cards == {"Billing", "WchUsageCard", "WchBalance"}

\* queryFn of pages the API has nothing for answers without asking it.
Placeholder == {"Orders", "Executions", "BotLogs"}

\* The lists a page's query may be answered with.
Lists(p) ==
  IF p \in Placeholder THEN {<<>>}
  ELSE IF p = "BotList" THEN Bots
  ELSE IF p \in {"WalletsCard", "WalletConnect"} THEN Wallets
  ELSE IF p \in {"SignalsCard", "Signals", "ScannerDashboard"} THEN SignalLists
  ELSE IF p \in {"WchHistory", "WchUsageCard", "WchBalance"} THEN Transactions
  ELSE IF p \in {"Plans", "Billing"} THEN {rows \in Others : rows # <<>>}
  ELSE Others

\* Pages whose queryFn maps over a list that the API, when it has no rows, sends as null.
NullWhenEmpty == {"BotList", "WalletsCard", "WalletConnect", "SignalsCard", "Signals",
                  "ScannerDashboard", "WchHistory", "WchUsageCard"}

\* Pages that add a row, and pages with a refresh button.
Adding      == {"ExchangeAccounts", "WalletConnect"}
Refreshable == {"Signals", "WchHistory"} \cup Placeholder

VARIABLES
  page, filter,
  user,     \* who is signed in
  entry,    \* the page's entry; its data are rows and their owner
  asker,    \* whose token the fetch under way carries
  swapped,  \* history: since the last fetch was started, a sign-in replaced another
  adding    \* addAccount or addWallet is under way

pagesVars == <<page, filter, user, entry, asker, swapped, adding>>

PagesTypeOK ==
  /\ page \in Page /\ filter \in Filter
  /\ user \in User \cup {Nobody} /\ asker \in User \cup {Nobody}
  /\ entry \in EntryOf([owner : User, rows : Lists(page)])
  /\ swapped \in BOOLEAN /\ adding \in BOOLEAN

PagesInit ==
  /\ page \in Page
  /\ filter \in IF page \in {"BotList", "Signals", "WchHistory"} THEN Filter
                ELSE {[kind |-> "all", state |-> "all", search |-> ""]}
  /\ user = Nobody /\ asker = Nobody /\ entry = Fresh
  /\ swapped = FALSE /\ adding = FALSE

-----------------------------------------------------------------------------
(* The query. *)

\* Mutant: data there is counts as fresh.
ObserveIfMissing(e) == IF e.data = NoData THEN Observe(e) ELSE e

\* The observer is mounted or enabled: no staleTime is set.
Shown(e) == Observe(e)

\* A fetch that starts carries the token of who is signed in; one that is joined keeps its own.
Fetching(new, u) ==
  /\ entry' = new
  /\ asker' = IF new.joined THEN asker ELSE u

SignIn(u) ==
  /\ user = Nobody /\ user' = u
  /\ Fetching(Shown(entry), u)
  /\ swapped' = FALSE
  /\ UNCHANGED <<page, filter, adding>>

\* An answer to a sign-in arrives while another user is signed in: the observer stays.
SignInOver(u) ==
  /\ user \notin {Nobody, u} /\ user' = u
  /\ swapped' = TRUE
  /\ UNCHANGED <<page, filter, entry, asker, adding>>

\* The page goes away; the entry stays, and the fetch.
SignOut ==
  /\ user # Nobody /\ user' = Nobody
  /\ UNCHANGED <<page, filter, entry, asker, swapped, adding>>

PageRead ==
  /\ entry.fetch = "asked"
  /\ \E rows \in Lists(page) : entry' = Read(entry, [owner |-> asker, rows |-> rows])
  /\ UNCHANGED <<page, filter, user, asker, swapped, adding>>

\* The browser is offline when the fetch, or its retry, is to start.
PagePauses ==
  /\ \/ entry.fetch = "asked"
     \/ entry.fetch = "read" /\ page \notin Placeholder
  /\ entry' = Pause(entry)
  /\ UNCHANGED <<page, filter, user, asker, swapped, adding>>

\* It is online again: a paused fetch goes on, for the observer there is now ...
PageResumes ==
  /\ entry.fetch = "paused"
  /\ entry' = Resume(entry)
  /\ asker' = IF user = Nobody THEN asker ELSE user
  /\ UNCHANGED <<page, filter, user, swapped, adding>>

\* ... and where none is under way an observer refetches.
PageOnline ==
  /\ entry.fetch = "idle" /\ user # Nobody
  /\ Fetching(Ask(entry), user)
  /\ swapped' = FALSE
  /\ UNCHANGED <<page, filter, user, adding>>

\* The retry of a fetch uses the token of the observer there is now.
PageRetry ==
  /\ entry.fetch \in {"asked", "read"} /\ user # Nobody /\ asker # user
  /\ entry' = [entry EXCEPT !.fetch = "asked", !.answer = NoData]
  /\ asker' = user
  /\ UNCHANGED <<page, filter, user, swapped, adding>>

\* request and the normalizers: rows arrive.
PageArrives ==
  /\ entry.fetch = "read"
  /\ page \in NullWhenEmpty => entry.answer.rows # <<>>
  /\ entry' = Arrive(entry)
  /\ UNCHANGED <<page, filter, user, asker, swapped, adding>>

\* A refusal throws, and so does an answer that is null, as it has no map.
PageFails ==
  /\ entry.fetch \in {"asked", "read"} /\ page \notin Placeholder
  /\ entry' = Fail(entry)
  /\ UNCHANGED <<page, filter, user, asker, swapped, adding>>

\* refetch() of the refresh button, or the invalidation after a row was added.
Refetch ==
  /\ Fetching(Invalidate(entry), user)
  /\ swapped' = FALSE

Refresh ==
  /\ page \in Refreshable /\ user # Nobody
  /\ Refetch
  /\ UNCHANGED <<page, filter, user, adding>>

SubmitRow ==
  /\ page \in Adding /\ user # Nobody /\ ~adding
  /\ adding' = TRUE
  /\ UNCHANGED <<page, filter, user, entry, asker, swapped>>

\* onSuccess runs even if the page is gone; then there is no observer to refetch for.
RowAdded ==
  /\ adding /\ adding' = FALSE
  /\ IF user # Nobody THEN Refetch ELSE UNCHANGED <<entry, asker, swapped>>
  /\ UNCHANGED <<page, filter, user>>

RowRefused ==
  /\ adding /\ adding' = FALSE
  /\ UNCHANGED <<page, filter, user, entry, asker, swapped>>

PagesNext ==
  \/ \E u \in User : SignIn(u) \/ SignInOver(u)
  \/ SignOut \/ PageRead \/ PagePauses \/ PageResumes \/ PageOnline \/ PageRetry \/ PageArrives \/ PageFails
  \/ Refresh \/ SubmitRow \/ RowAdded \/ RowRefused

PagesSpec == PagesInit /\ [][PagesNext]_pagesVars

-----------------------------------------------------------------------------
(* The views: the texts a page shows beside its rows. *)

Rows(e) == IF e.data = NoData THEN <<>> ELSE e.data.rows

\* Texts that do not exclude each other ...
SideBySide(e, shown) ==
  {t \in {"loading", "error", "empty"} :
     \/ t = "loading" /\ IsLoading(e)
     \/ t = "error" /\ HasError(e)
     \/ t = "empty" /\ shown = {} /\ ~IsLoading(e)}

\* Mutant: the error is not looked at.
NoErrorShown(e, shown) ==
  IF IsLoading(e) THEN {"loading"} ELSE IF shown = {} THEN {"empty"} ELSE {}

\* ... one at a time ...
OneAtATime(e, shown) ==
  IF IsLoading(e) THEN {"loading"}
  ELSE IF HasError(e) THEN {"error"}
  ELSE IF shown = {} THEN {"empty"} ELSE {}

\* ... and what a component says that knows no query.
OnlyEmpty(shown) == {t \in {"empty"} : shown = {}}

BotList(e, f)       == SideBySide(e, Matching(Rows(e), f))
WalletsCard(e)      == SideBySide(e, Slice(Rows(e), 3))
SignalsCard(e)      == SideBySide(e, Slice(Rows(e), 5))
ExchangeAccounts(e) == SideBySide(e, DOMAIN Rows(e))
\* The badge is there whenever the plan is not.
Plans(e)            == SideBySide(e, DOMAIN Rows(e)) \cup OnlyEmpty(DOMAIN Rows(e))
Billing(e)          == OnlyEmpty(DOMAIN Rows(e))
WchUsageCard(e)     == OnlyEmpty(DOMAIN Rows(e))
WchBalance          == {}
WchHistory(e, f)    == OneAtATime(e, Matching(Rows(e), f))
WalletConnect(e)    == OneAtATime(e, DOMAIN Rows(e))
Signals(e, f)       == OneAtATime(e, Matching(Rows(e), f))
\* The symbols have a text of their own, whatever the query does.
ScannerDashboard(e) == OneAtATime(e, Slice(Rows(e), 10)) \cup OnlyEmpty(DOMAIN Rows(e))
Orders(e, f)        == OneAtATime(e, Matching(Rows(e), f))
Executions(e, f)    == OneAtATime(e, Matching(Rows(e), f))
BotLogs(e)          == OneAtATime(e, DOMAIN Rows(e))

Texts ==
  CASE page = "BotList" -> BotList(entry, filter)
    [] page = "WalletsCard" -> WalletsCard(entry)
    [] page = "SignalsCard" -> SignalsCard(entry)
    [] page = "ExchangeAccounts" -> ExchangeAccounts(entry)
    [] page = "Plans" -> Plans(entry)
    [] page = "Billing" -> Billing(entry)
    [] page = "WchUsageCard" -> WchUsageCard(entry)
    [] page = "WchBalance" -> WchBalance
    [] page = "WchHistory" -> WchHistory(entry, filter)
    [] page = "WalletConnect" -> WalletConnect(entry)
    [] page = "Signals" -> Signals(entry, filter)
    [] page = "ScannerDashboard" -> ScannerDashboard(entry)
    [] page = "Orders" -> Orders(entry, filter)
    [] page = "Executions" -> Executions(entry, filter)
    [] page = "BotLogs" -> BotLogs(entry)

-----------------------------------------------------------------------------
(* The figures, of the rows at the places I of a list. *)

\* reduce with a sum: the numbers of a sequence added up.
Total(numbers) ==
  LET upTo[n \in 0..Len(numbers)] == IF n = 0 THEN 0 ELSE upTo[n - 1] + numbers[n]
  IN upTo[Len(numbers)]

Amount(rows, I)    == Total([i \in DOMAIN rows |-> IF i \in I THEN rows[i].amount ELSE 0])
WithState(rows, s) == {i \in DOMAIN rows : rows[i].state = s}
WithKind(rows, k)  == {i \in DOMAIN rows : rows[i].kind = k}
Inflow             == {"deposit", "credit", "reward"}

\* stats of WchHistory.
Volumes(rows) ==
  [total |-> Len(rows), confirmed |-> Amount(rows, WithState(rows, "confirmed")),
   pending |-> Amount(rows, WithState(rows, "pending")),
   failed |-> Amount(rows, WithState(rows, "failed"))]

\* What a transaction adds to the balance or takes from it.
Change(r) == IF r.kind \in Inflow THEN r.amount ELSE -r.amount

\* Mutant: transactions that are not confirmed count.
BalanceOfAll(rows) == Total([i \in DOMAIN rows |-> Change(rows[i])])

\* wchBalance.
Balance(rows) ==
  Total([i \in DOMAIN rows |->
           IF i \in WithState(rows, "confirmed") THEN Change(rows[i]) ELSE 0])

\* usageByType of WchUsageCard.
UsageByType(rows) ==
  [k \in {rows[i].kind : i \in DOMAIN rows} |-> Cardinality(WithKind(rows, k))]

\* stats of ScannerDashboard.
SignalStats(rows) ==
  [total |-> Len(rows),
   buy |-> Cardinality(WithKind(rows, "buy")), sell |-> Cardinality(WithKind(rows, "sell")),
   processed |-> Cardinality(WithState(rows, "processed")),
   pending |-> Cardinality(WithState(rows, "pending")),
   rejected |-> Cardinality(WithState(rows, "rejected"))]

\* symbolStats, without the cut after five symbols: what is not bought is sold.
SymbolStats(rows) ==
  [s \in {rows[i].symbol : i \in DOMAIN rows} |->
     LET of == {i \in DOMAIN rows : rows[i].symbol = s}  bought == WithKind(rows, "buy") IN
       [total |-> Cardinality(of), buy |-> Cardinality(of \cap bought),
        sell |-> Cardinality(of \ bought)]]

-----------------------------------------------------------------------------
\* A page says that there is nothing, and neither that it loads nor that it failed, only if
\* the API answered, and with nothing that matches, or if the browser is offline and the
\* first fetch waits for it: then the page says so without an answer.  This is of the pages
\* that ask the API and know their query: Billing and WchUsageCard say it in every state.
\* Where an empty list is null there are even rows: a user who has none is told of an error.
EmptyIsHonest ==
  user # Nobody /\ page \notin Cards \cup Placeholder /\ Texts = {"empty"} =>
    \/ entry.fetch = "paused" /\ entry.data = NoData
    \/ /\ entry.data # NoData
       /\ page \in NullWhenEmpty => entry.data.rows # <<>>
       /\ \A i \in DOMAIN entry.data.rows : ~Matches(entry.data.rows[i], filter)

\* Once the query of a page has settled, what it shows belongs to who is signed in - unless
\* the sign-in joined a fetch of the user before, or replaced that user without a refetch.
\* (A failed refetch settles nothing: it leaves the rows of the user before beside an error.)
OwnRowsOnceSettled ==
  user # Nobody /\ Settled(entry) /\ ~entry.joined /\ ~swapped => entry.data.owner = user

\* The counts of a function, one by one.
Pieces(counts) == UNION {{k} \X (1..counts[k]) : k \in DOMAIN counts}

\* Figures of one page agree with each other and with those of other pages: volumes cover
\* all transactions but cancelled ones, the balance is short of what was confirmed by twice
\* what went out, and shares per type and symbol add up to the totals.
FiguresAgree ==
  LET rows == Rows(entry)
      v == Volumes(rows)
      s == SignalStats(rows)
      y == SymbolStats(rows)
      cancelled == DOMAIN rows \ UNION {WithState(rows, x) : x \in {"confirmed", "pending", "failed"}}
      out == {i \in WithState(rows, "confirmed") : rows[i].kind \notin Inflow}
  IN /\ page \in {"WchHistory", "WchBalance", "WchUsageCard"} =>
          /\ v.confirmed + v.pending + v.failed + Amount(rows, cancelled) = Amount(rows, DOMAIN rows)
          /\ v.confirmed - Balance(rows) = 2 * Amount(rows, out)
          /\ Cardinality(Pieces(UsageByType(rows))) = v.total
     /\ page = "ScannerDashboard" =>
          /\ s.buy + s.sell = s.total
          /\ s.processed + s.pending + s.rejected <= s.total
          /\ Cardinality(Pieces([x \in DOMAIN y |-> y[x].buy])) = s.buy
          /\ Cardinality(Pieces([x \in DOMAIN y |-> y[x].sell])) = s.sell
=============================================================================
