----------------------------- MODULE BulkCatalog -----------------------------
(***************************************************************************)
(* The local snapshot of the Azure retail catalog (azure_bulk_cache.py):   *)
(* one task of the Azure program downloads it page by page into a staging  *)
(* snapshot, resumes it after an error or a restart and publishes it in    *)
(* one transaction, while price lookups read the published one.            *)
(*                                                                         *)
(* Time is left to chance: a snapshot may grow old (24 hours since it was  *)
(* started or completed) at any moment.                                    *)
(***************************************************************************)
EXTENDS Naturals

CONSTANTS
  None,
  Ids,         \* snapshot ids that exist at once
  LastPage,    \* pages of the official catalog
  PageLimit,   \* "Azure retail catalog exceeded 2,000 pages"
  Editions,    \* editions of the official catalog, 1 first
  MaxTroubles  \* bound on restarts of the program and failed requests

ASSUME NoneAssumption == None \notin Ids
ASSUME PagesAssumption == LastPage \in Nat \ {0} /\ PageLimit \in Nat /\ PageLimit >= LastPage
ASSUME EditionsAssumption == Editions \in Nat \ {0} /\ MaxTroubles \in Nat

VARIABLES
  edition,   \* what the official service answers from
  status,    \* azure_bulk_snapshots.status
  next,      \* next_url: the page to go on with, 1 also when there is none
  pages,     \* page_count, counted to one above PageLimit
  items,     \* azure_bulk_retail_items: the pages stored, of which edition
  old,       \* snapshots that are older than 24 hours
  current,   \* azure_bulk_metadata.current_snapshot
  previous,  \* the other complete snapshot
  task,      \* the download task: its step, its snapshot, page and page count
  reader,    \* a price lookup between its two queries
  troubles

store == <<status, next, pages, items, old, current, previous>>
vars  == <<edition, store, task, reader, troubles>>

Pages   == 1..LastPage
Rows    == (1..Editions) \X Pages
Staging == {"downloading", "failed"}
HasPage(rows, p) == \E e \in 1..Editions : <<e, p>> \in rows
Whole(rows) == \A p \in Pages : HasPage(rows, p)

Asleep == [step |-> "asleep", id |-> None, page |-> 1, count |-> 0, got |-> 1]

TypeOK ==
  /\ edition \in 1..Editions
  /\ status \in [Ids -> Staging \union {"none", "complete"}]
  /\ next \in [Ids -> Pages]
  /\ pages \in [Ids -> 0..(PageLimit + 1)]
  /\ items \in [Ids -> SUBSET Rows]
  /\ old \in SUBSET Ids
  /\ current \in Ids \union {None} /\ previous \in Ids \union {None}
  /\ task \in [step : {"asleep", "begin", "new", "fetch", "save", "failing", "complete"},
               id : Ids \union {None}, page : Pages, count : 0..(PageLimit + 1),
               got : 1..Editions]
  /\ reader \in [id : Ids \union {None}, missed : 0..1]
  /\ troubles \in 0..MaxTroubles

Init ==
  /\ edition = 1
  /\ status = [i \in Ids |-> "none"]
  /\ next = [i \in Ids |-> 1] /\ pages = [i \in Ids |-> 0]
  /\ items = [i \in Ids |-> {}]
  /\ old = {} /\ current = None /\ previous = None
  /\ task = Asleep
  /\ reader = [id |-> None, missed |-> 0]
  /\ troubles = 0

-----------------------------------------------------------------------------
(* sync(), one task of the program *)

\* The maintenance loop calls sync(); a fresh published snapshot is enough.
NeedsRefresh == current = None \/ current \in old
Wake ==
  /\ task.step = "asleep" /\ NeedsRefresh
  /\ task' = [task EXCEPT !.step = "begin"]
  /\ UNCHANGED <<edition, store, reader, troubles>>

ResumedAnyAge(i) == status[i] \in Staging
Resumable(i) == status[i] \in Staging /\ i \notin old

\* _staging_snapshot: go on where the last download stopped ...
Resume ==
  /\ task.step = "begin"
  /\ \E i \in Ids :
       /\ Resumable(i)
       /\ task' = [step |-> "fetch", id |-> i, page |-> next[i], count |-> pages[i], got |-> 1]
  /\ UNCHANGED <<edition, store, reader, troubles>>

\* ... unless it is too old.  The abandoned rows stay in the file, unread.
Abandon ==
  /\ task.step = "begin"
  /\ ~\E i \in Ids : Resumable(i)
  /\ \A i \in Ids : status[i] \in Staging => i \in old
  /\ status' = [i \in Ids |-> IF status[i] \in Staging THEN "none" ELSE status[i]]
  /\ items' = [i \in Ids |-> IF status[i] \in Staging THEN {} ELSE items[i]]
  /\ old' = {i \in old : status[i] \notin Staging}
  /\ task' = [task EXCEPT !.step = "new"]
  /\ UNCHANGED <<edition, next, pages, current, previous, reader, troubles>>

\* _new_snapshot
New ==
  /\ task.step = "new"
  /\ \E i \in Ids :
       /\ status[i] = "none"
       /\ status' = [status EXCEPT ![i] = "downloading"]
       /\ next' = [next EXCEPT ![i] = 1]
       /\ pages' = [pages EXCEPT ![i] = 0]
       /\ task' = [step |-> "fetch", id |-> i, page |-> 1, count |-> 0, got |-> 1]
  /\ UNCHANGED <<edition, items, old, current, previous, reader, troubles>>

Fetch ==
  /\ task.step = "fetch"
  /\ task' = [task EXCEPT !.step = "save", !.got = edition]
  /\ UNCHANGED <<edition, store, reader, troubles>>

FetchFails ==
  /\ task.step = "fetch" /\ troubles < MaxTroubles
  /\ troubles' = troubles + 1
  /\ task' = [task EXCEPT !.step = "failing"]
  /\ UNCHANGED <<edition, store, reader>>

\* A NextPageLink that is missing ends the download; stored, it makes a later
\* resume start at the first page again, with the pages counted so far.
FollowingSkips(p) == IF p + 1 >= LastPage THEN 1 ELSE p + 2
Following(p) == IF p = LastPage THEN 1 ELSE p + 1
Counted(n)   == IF n > PageLimit THEN n ELSE n + 1

\* _save_page, and then the limit on pages, which the last page may break too.
SavePage ==
  LET i == task.id  n == Counted(task.count) IN
  /\ task.step = "save"
  /\ items' = [items EXCEPT ![i] = @ \union {<<task.got, task.page>>}]
  /\ status' = [status EXCEPT ![i] = "downloading"]
  /\ next' = [next EXCEPT ![i] = Following(task.page)]
  /\ pages' = [pages EXCEPT ![i] = n]
  /\ task' = [task EXCEPT !.count = n, !.page = Following(task.page),
                !.step = IF n > PageLimit THEN "failing"
                         ELSE IF task.page = LastPage THEN "complete" ELSE "fetch"]
  /\ UNCHANGED <<edition, old, current, previous, reader, troubles>>

\* _mark_failed; the loop logs the error and sleeps.
MarkFailed ==
  /\ task.step = "failing"
  /\ status' = [status EXCEPT ![task.id] = "failed"]
  /\ task' = Asleep
  /\ UNCHANGED <<edition, next, pages, items, old, current, previous, reader, troubles>>

\* _complete keeps the newest of the other complete snapshots.
KeepNone == {}
Kept == {current}

\* _complete: one transaction publishes the snapshot and drops the third last.
\* A lookup does not last for two publications (ReaderIsQuick).
ReaderIsQuick == reader.id # None => reader.missed = 0
Complete ==
  LET gone == {current, previous} \ Kept IN
  /\ task.step = "complete" /\ ReaderIsQuick
  /\ status' = [i \in Ids |-> IF i = task.id THEN "complete"
                              ELSE IF i \in gone THEN "none" ELSE status[i]]
  /\ items' = [i \in Ids |-> IF i \in gone THEN {} ELSE items[i]]
  /\ old' = old \ (gone \union {task.id})
  /\ current' = task.id
  /\ previous' = IF current \in Kept THEN current ELSE None
  /\ task' = Asleep
  /\ reader' = [reader EXCEPT !.missed = IF reader.id = None THEN 0 ELSE 1]
  /\ UNCHANGED <<edition, next, pages, troubles>>

-----------------------------------------------------------------------------
(* Lookups, time and restarts *)

\* retail_items: the id of the published snapshot first, its rows next.
ReadId ==
  /\ reader.id = None /\ current # None
  /\ reader' = [id |-> current, missed |-> 0]
  /\ UNCHANGED <<edition, store, task, troubles>>

ReadRows ==
  /\ reader.id # None
  /\ reader' = [id |-> None, missed |-> 0]
  /\ UNCHANGED <<edition, store, task, troubles>>

GrowsOld(i) ==
  /\ status[i] # "none" /\ i \notin old
  /\ old' = old \union {i}
  /\ UNCHANGED <<edition, status, next, pages, items, current, previous, task, reader, troubles>>

NewEdition ==
  /\ edition < Editions
  /\ edition' = edition + 1
  /\ UNCHANGED <<store, task, reader, troubles>>

Restart ==
  /\ troubles < MaxTroubles
  /\ troubles' = troubles + 1
  /\ task' = Asleep
  /\ reader' = [id |-> None, missed |-> 0]
  /\ UNCHANGED <<edition, store>>

Sync == Wake \/ Resume \/ Abandon \/ New \/ Fetch \/ FetchFails \/ SavePage
        \/ MarkFailed \/ Complete

Next == Sync \/ ReadId \/ ReadRows \/ (\E i \in Ids : GrowsOld(i)) \/ NewEdition \/ Restart

Spec == Init /\ [][Next]_vars

\* The loop runs on, a request that does not fail is answered, a lookup ends,
\* and 24 hours pass.
Fairness ==
  /\ WF_vars(Sync) /\ WF_vars(ReadRows)
  /\ \A i \in Ids : WF_vars(GrowsOld(i))
FairSpec == Spec /\ Fairness

-----------------------------------------------------------------------------
(* Properties *)

\* The published snapshot has every page of the catalog, whatever errors,
\* resumed downloads and restarts came before.
PublishedIsWhole == current # None => Whole(items[current])

\* A lookup that has read the id finds the rows, also when another snapshot is
\* published between its two queries.
ReaderIsServed == reader.id # None => Whole(items[reader.id])

\* What lookups are served changes by a publication only, never in place: a
\* refresh does not write into the published snapshot.
ServedIsStable ==
  [][current' = current /\ current # None => items'[current] = items[current]]_vars

\* There is at most one download to resume, so _staging_snapshot, which takes
\* the newest one, forgets none.
OneStaging ==
  \A i, k \in Ids : status[i] \in Staging /\ status[k] \in Staging => i = k

\* An old snapshot is replaced in the end, also after downloads that went over
\* the page limit because they were restarted.
OldIsReplaced ==
  \A i \in Ids : (current = i /\ i \in old) ~> (current # i \/ i \notin old)
=============================================================================
