----------------------------- MODULE QueryCache -----------------------------
(***************************************************************************)
(* One entry of the query cache of apps/web (@tanstack/react-query, with   *)
(* retry 1, no refetch on focus and data stale at once, app/providers.tsx) *)
(* as the hooks and pages under src/ use it.  All observers of a key share *)
(* the entry, and the cache outlives the components.                       *)
(*                                                                         *)
(* A fetch is asked, then read by the API, then answered or failed; the    *)
(* retry counts as part of the attempt it repeats.  While the browser is   *)
(* offline a fetch that starts, or is about to be retried, is paused, and  *)
(* so is a retry in a tab that is hidden.                                  *)
(***************************************************************************)
CONSTANT NoData   \* data of an entry no fetch has answered, and of an answer not made

FetchStep == {"idle", "paused", "asked", "read"}

Fresh == [data |-> NoData, fetch |-> "idle", answer |-> NoData, failed |-> FALSE,
          joined |-> FALSE]

\* The entries that hold data of a set D.
EntryOf(D) == [data : D \cup {NoData}, fetch : FetchStep, answer : D \cup {NoData},
               failed : BOOLEAN, joined : BOOLEAN]

\* A fetch starts, in place of one under way.
Ask(e) == [e EXCEPT !.fetch = "asked", !.answer = NoData, !.joined = FALSE]

\* Who finds a fetch under way and does not replace it joins it.
Join(e) == [e EXCEPT !.joined = TRUE]

\* An observer is mounted or changes to this key.
Observe(e) == IF e.fetch = "idle" THEN Ask(e) ELSE Join(e)

\* invalidateQueries for an observed key: a fetch under way is given up for a new one,
\* but not the first one, as there is no data yet.
Invalidate(e) == IF e.fetch # "idle" /\ e.data = NoData THEN Join(e) ELSE Ask(e)

\* The API reads the rows; the answer is under way.
Read(e, rows) == [e EXCEPT !.fetch = "read", !.answer = rows]

\* The answer arrives.
Arrive(e) == [e EXCEPT !.data = e.answer, !.fetch = "idle", !.answer = NoData,
                       !.failed = FALSE]

\* The attempt and its retry failed: data there is stays.
Fail(e) == [e EXCEPT !.fetch = "idle", !.answer = NoData, !.failed = TRUE,
                     !.joined = FALSE]

\* The fetch waits for the browser to be online, or the tab to be seen, and goes on.
Pause(e)  == [e EXCEPT !.fetch = "paused", !.answer = NoData]
Resume(e) == [e EXCEPT !.fetch = "asked"]

\* What the hook's result says.  A fetch that starts clears the error if there is no data,
\* and a paused one does not count as loading.
Pending(e)   == e.fetch # "idle" /\ e.data = NoData
IsLoading(e) == Pending(e) /\ e.fetch # "paused"
HasError(e)  == e.failed /\ ~Pending(e)
Settled(e)   == e.fetch = "idle" /\ e.data # NoData /\ ~e.failed
=============================================================================
