-------------------------- MODULE BulkCatalog_proofs --------------------------
(***************************************************************************)
(* The published snapshot of the Azure catalog is whole, a lookup that     *)
(* began finds its rows, and what lookups are served never changes in      *)
(* place: for every number of pages, snapshots, editions and troubles.     *)
(*                                                                         *)
(* None of it is inductive by itself.  Wholeness follows the download:     *)
(* whatever page a staging snapshot, or the task that works on it, goes on *)
(* with, all pages before it are stored; so they are all stored when there *)
(* is no page left.  That the task never writes to a published snapshot    *)
(* needs that its own is staging as long as it holds it.                   *)
(***************************************************************************)
EXTENDS BulkCatalog, TLAPS

\* All pages before p are stored in rows.
Before(rows, p) == \A q \in Pages : q < p => HasPage(rows, q)

Owning == {"fetch", "save", "failing", "complete"}

\* The task's snapshot is a staging one.
TaskOwnsStaging == task.step \in Owning => task.id \in Ids /\ status[task.id] \in Staging

\* The task has stored every page before the one it is at.
TaskIsAhead ==
  /\ task.step \in {"fetch", "save"} => Before(items[task.id], task.page)
  /\ task.step = "complete" => Whole(items[task.id])

\* So has every download that may be resumed.
StagingIsAhead == \A i \in Ids : status[i] \in Staging => Before(items[i], next[i])

\* The two complete snapshots that are kept are whole.
KeptAreWhole ==
  \A i \in {current, previous} : i # None => status[i] = "complete" /\ Whole(items[i])

\* A lookup that missed no publication reads the published snapshot, one that
\* missed one reads the previous one.
ReaderIsKept ==
  reader.id # None => reader.id = IF reader.missed = 0 THEN current ELSE previous

\* Before a new snapshot is started none is left to resume.
NewIsAlone == task.step = "new" => \A i \in Ids : status[i] \notin Staging

IInv ==
  /\ TypeOK
  /\ TaskOwnsStaging
  /\ TaskIsAhead
  /\ StagingIsAhead
  /\ KeptAreWhole
  /\ ReaderIsKept
  /\ NewIsAlone
  /\ OneStaging

-----------------------------------------------------------------------------
(* Pages and rows *)

LEMMA OnePage == 1 \in Pages /\ LastPage \in Pages
  BY PagesAssumption DEF Pages

\* The page that follows is a page, and every page before it is this one or
\* comes before this one.
LEMMA FollowingPage ==
  ASSUME NEW p \in Pages
  PROVE  /\ Following(p) \in Pages
         /\ \A q \in Pages : q < Following(p) => q < p \/ q = p
         /\ p = LastPage => \A q \in Pages : q < p \/ q = p
  BY PagesAssumption DEF Pages, Following

LEMMA CountedPages ==
  ASSUME NEW n \in 0..(PageLimit + 1)
  PROVE  Counted(n) \in 0..(PageLimit + 1)
  BY PagesAssumption DEF Counted

\* A row more hides no page.
LEMMA MoreRows ==
  ASSUME NEW rows \in SUBSET Rows, NEW e \in 1..Editions, NEW p \in Pages
  PROVE  /\ rows \union {<<e, p>>} \in SUBSET Rows
         /\ HasPage(rows \union {<<e, p>>}, p)
         /\ \A q \in Pages : HasPage(rows, q) => HasPage(rows \union {<<e, p>>}, q)
  BY DEF Rows, HasPage

\* Saving the page a download is at moves it on without leaving a gap, and
\* after the last page there is none.
LEMMA SavedIsAhead ==
  ASSUME NEW rows \in SUBSET Rows, NEW e \in 1..Editions, NEW p \in Pages, Before(rows, p)
  PROVE  /\ Before(rows \union {<<e, p>>}, Following(p))
         /\ p = LastPage => Whole(rows \union {<<e, p>>})
  <1> DEFINE more == rows \union {<<e, p>>}
  <1>1. \A q \in Pages : q < p \/ q = p => HasPage(more, q)
    BY MoreRows DEF Before
  <1> HIDE DEF more
  <1>2. Before(more, Following(p))
    BY <1>1, FollowingPage DEF Before
  <1>3. p = LastPage => Whole(more)
    BY <1>1, FollowingPage DEF Whole
  <1> QED  BY <1>2, <1>3 DEF more

\* A new download is ahead of its first page.
LEMMA AheadOfFirst ==
  ASSUME NEW rows
  PROVE  Before(rows, 1)
  BY DEF Before, Pages

-----------------------------------------------------------------------------
(* The types *)

THEOREM InitTypeOK == Init => TypeOK
  BY OnePage, PagesAssumption, EditionsAssumption DEF Init, TypeOK, Asleep, Rows, Staging

LEMMA TypeOKStep == TypeOK /\ [Next]_vars => TypeOK'
  <1> SUFFICES ASSUME TypeOK, [Next]_vars PROVE TypeOK'
    OBVIOUS
  <1> USE DEF TypeOK
  <1>1. CASE Wake
    BY <1>1 DEF Wake, store
  <1>2. CASE Resume
    BY <1>2, EditionsAssumption DEF Resume, store
  <1>3. CASE Abandon
    BY <1>3 DEF Abandon
  <1>4. CASE New
    BY <1>4, OnePage, PagesAssumption, EditionsAssumption DEF New, Staging
  <1>5. CASE Fetch
    BY <1>5 DEF Fetch, store
  <1>6. CASE FetchFails
    BY <1>6, EditionsAssumption DEF FetchFails, store
  <1>7. CASE SavePage
    <2> DEFINE i == task.id  n == Counted(task.count)
    <2>1. n \in 0..(PageLimit + 1) /\ Following(task.page) \in Pages
      BY CountedPages, FollowingPage
    <2>2. next' \in [Ids -> Pages] /\ pages' \in [Ids -> 0..(PageLimit + 1)]
      BY <1>7, <2>1 DEF SavePage
    <2>3. items' \in [Ids -> SUBSET Rows]
      <3>1. i \in Ids => items[i] \union {<<task.got, task.page>>} \in SUBSET Rows
        BY MoreRows
      <3>2. items' = [items EXCEPT ![i] = items[i] \union {<<task.got, task.page>>}]
        BY <1>7 DEF SavePage
      <3> QED  BY <3>1, <3>2
    <2>4. status' \in [Ids -> Staging \union {"none", "complete"}]
      BY <1>7 DEF SavePage, Staging
    <2>5. task' \in [step : {"asleep", "begin", "new", "fetch", "save", "failing", "complete"},
                     id : Ids \union {None}, page : Pages, count : 0..(PageLimit + 1),
                     got : 1..Editions]
      BY <1>7, <2>1 DEF SavePage
    <2> QED  BY <1>7, <2>2, <2>3, <2>4, <2>5 DEF SavePage
  <1>8. CASE MarkFailed
    <2>1. status' \in [Ids -> Staging \union {"none", "complete"}]
      BY <1>8 DEF MarkFailed, Staging
    <2>2. Asleep \in [step : {"asleep"}, id : {None}, page : Pages, count : 0..(PageLimit + 1),
                      got : 1..Editions]
      BY OnePage, PagesAssumption, EditionsAssumption DEF Asleep
    <2> QED  BY <1>8, <2>1, <2>2 DEF MarkFailed
  <1>9. CASE Complete
    BY <1>9, OnePage, PagesAssumption, EditionsAssumption DEF Complete, Asleep
  <1>10. CASE ReadId
    BY <1>10 DEF ReadId, store
  <1>11. CASE ReadRows
    BY <1>11 DEF ReadRows, store
  <1>12. CASE \E i \in Ids : GrowsOld(i)
    BY <1>12 DEF GrowsOld
  <1>13. CASE NewEdition
    BY <1>13, EditionsAssumption DEF NewEdition, store
  <1>14. CASE Restart
    BY <1>14, OnePage, PagesAssumption, EditionsAssumption DEF Restart, store, Asleep
  <1>15. CASE UNCHANGED vars
    BY <1>15 DEF vars, store
  <1> QED
    BY <1>1, <1>2, <1>3, <1>4, <1>5, <1>6, <1>7, <1>8, <1>9, <1>10, <1>11, <1>12,
       <1>13, <1>14, <1>15 DEF Next, Sync

\* The variables keep their shape, whatever the sizes of the catalog.
THEOREM TypeCorrect == Spec => []TypeOK
  <1>1. TypeOK /\ [Next]_vars => TypeOK'
    BY TypeOKStep
  <1> QED  BY InitTypeOK, <1>1, PTL DEF Spec

-----------------------------------------------------------------------------
(* The inductive invariant *)

LEMMA InitIInv == Init => IInv
  <1> SUFFICES ASSUME Init PROVE IInv
    OBVIOUS
  <1>1. TypeOK
    BY InitTypeOK
  <1>2. /\ status = [i \in Ids |-> "none"] /\ current = None /\ previous = None
        /\ task.step = "asleep" /\ reader.id = None
    BY DEF Init, Asleep
  <1>3. TaskOwnsStaging /\ TaskIsAhead /\ NewIsAlone
    BY <1>2 DEF TaskOwnsStaging, TaskIsAhead, NewIsAlone, Owning
  <1>4. StagingIsAhead /\ OneStaging
    BY <1>2 DEF StagingIsAhead, OneStaging, Staging
  <1>5. KeptAreWhole /\ ReaderIsKept
    BY <1>2 DEF KeptAreWhole, ReaderIsKept
  <1> QED  BY <1>1, <1>3, <1>4, <1>5 DEF IInv

\* A step that writes neither the store nor anything but the reader or the
\* step of the task keeps what is said of the store.
LEMMA StoreKept ==
  ASSUME IInv, UNCHANGED store
  PROVE  StagingIsAhead' /\ OneStaging' /\ KeptAreWhole'
  BY DEF IInv, store, StagingIsAhead, OneStaging, KeptAreWhole

LEMMA IInvStep == IInv /\ [Next]_vars => IInv'
  <1> SUFFICES ASSUME IInv, [Next]_vars PROVE IInv'
    OBVIOUS
  <1>0. TypeOK /\ TypeOK'
    BY TypeOKStep DEF IInv
  <1>1. CASE Wake
    <2>1. TaskOwnsStaging' /\ TaskIsAhead' /\ NewIsAlone'
      BY <1>1, <1>0 DEF Wake, TypeOK, TaskOwnsStaging, TaskIsAhead, NewIsAlone, Owning
    <2>2. ReaderIsKept'
      BY <1>1 DEF Wake, store, IInv, ReaderIsKept
    <2> QED  BY <1>0, <1>1, <2>1, <2>2, StoreKept DEF Wake, IInv
  <1>2. CASE Resume
    <2>1. PICK i \in Ids :
            /\ Resumable(i)
            /\ task' = [step |-> "fetch", id |-> i, page |-> next[i], count |-> pages[i], got |-> 1]
      BY <1>2 DEF Resume
    <2>2. TaskOwnsStaging' /\ TaskIsAhead' /\ NewIsAlone'
      BY <1>2, <2>1 DEF Resume, store, Resumable, IInv, StagingIsAhead, TaskOwnsStaging,
                        TaskIsAhead, NewIsAlone
    <2>3. ReaderIsKept'
      BY <1>2 DEF Resume, store, IInv, ReaderIsKept
    <2> QED  BY <1>0, <1>2, <2>2, <2>3, StoreKept DEF Resume, IInv
  <1>3. CASE Abandon
    <2>1. task'.step = "new"
      BY <1>3, <1>0 DEF Abandon, TypeOK
    <2>2. \A i \in Ids : status'[i] \notin Staging
      BY <1>3 DEF Abandon, Staging
    <2>3. \A i \in {current, previous} : i # None =>
            status'[i] = status[i] /\ items'[i] = items[i]
      BY <1>3, <1>0 DEF Abandon, TypeOK, IInv, KeptAreWhole, Staging
    <2>4. KeptAreWhole' /\ ReaderIsKept'
      BY <1>3, <2>3 DEF Abandon, IInv, KeptAreWhole, ReaderIsKept
    <2>5. TaskOwnsStaging' /\ TaskIsAhead' /\ NewIsAlone' /\ StagingIsAhead' /\ OneStaging'
      BY <2>1, <2>2 DEF TaskOwnsStaging, TaskIsAhead, NewIsAlone, StagingIsAhead, OneStaging,
                        Owning
    <2> QED  BY <1>0, <2>4, <2>5 DEF IInv
  <1>4. CASE New
    <2>1. PICK i \in Ids :
            /\ status[i] = "none"
            /\ status' = [status EXCEPT ![i] = "downloading"]
            /\ next' = [next EXCEPT ![i] = 1]
            /\ task' = [step |-> "fetch", id |-> i, page |-> 1, count |-> 0, got |-> 1]
            /\ UNCHANGED <<items, current, previous, reader>>
      BY <1>4 DEF New
    <2>2. status'[i] = "downloading" /\ next'[i] = 1
      BY <2>1, <1>0 DEF TypeOK
    <2>3. \A k \in Ids : k # i => status'[k] = status[k] /\ status'[k] \notin Staging
      BY <2>1, <1>0, <1>4 DEF TypeOK, New, IInv, NewIsAlone
    <2>4. TaskOwnsStaging' /\ TaskIsAhead' /\ NewIsAlone'
      BY <2>1, <2>2, AheadOfFirst DEF TaskOwnsStaging, TaskIsAhead, NewIsAlone, Staging
    <2>5. StagingIsAhead' /\ OneStaging'
      BY <2>2, <2>3, AheadOfFirst DEF StagingIsAhead, OneStaging
    <2>6. KeptAreWhole'
      BY <2>1, <2>3, <1>0 DEF IInv, KeptAreWhole, TypeOK
    <2>7. ReaderIsKept'
      BY <2>1 DEF IInv, ReaderIsKept
    <2> QED  BY <1>0, <2>4, <2>5, <2>6, <2>7 DEF IInv
  <1>5. CASE Fetch
    <2>1. task'.step = "save" /\ task'.id = task.id /\ task'.page = task.page
      BY <1>5, <1>0 DEF Fetch, TypeOK
    <2>2. TaskOwnsStaging' /\ TaskIsAhead' /\ NewIsAlone'
      BY <1>5, <2>1 DEF Fetch, store, IInv, TaskOwnsStaging, TaskIsAhead, NewIsAlone, Owning
    <2>3. ReaderIsKept'
      BY <1>5 DEF Fetch, store, IInv, ReaderIsKept
    <2> QED  BY <1>0, <1>5, <2>2, <2>3, StoreKept DEF Fetch, IInv
  <1>6. CASE FetchFails
    <2>1. task'.step = "failing" /\ task'.id = task.id
      BY <1>6, <1>0 DEF FetchFails, TypeOK
    <2>2. TaskOwnsStaging' /\ TaskIsAhead' /\ NewIsAlone'
      BY <1>6, <2>1 DEF FetchFails, store, IInv, TaskOwnsStaging, TaskIsAhead, NewIsAlone, Owning
    <2>3. ReaderIsKept'
      BY <1>6 DEF FetchFails, store, IInv, ReaderIsKept
    <2> QED  BY <1>0, <1>6, <2>2, <2>3, StoreKept DEF FetchFails, IInv
  <1>7. CASE SavePage
    <2> DEFINE i == task.id
               more == items[i] \union {<<task.got, task.page>>}
    <2>1. i \in Ids /\ status[i] \in Staging /\ Before(items[i], task.page)
      BY <1>7 DEF SavePage, IInv, TaskOwnsStaging, TaskIsAhead, Owning
    <2>2. /\ items[i] \in SUBSET Rows /\ task.got \in 1..Editions /\ task.page \in Pages
      BY <1>0, <2>1 DEF TypeOK
    <2>3. /\ Before(more, Following(task.page))
          /\ task.page = LastPage => Whole(more)
      BY <2>1, <2>2, SavedIsAhead
    <2>4. /\ items' = [items EXCEPT ![i] = more]
          /\ status' = [status EXCEPT ![i] = "downloading"]
          /\ next' = [next EXCEPT ![i] = Following(task.page)]
          /\ UNCHANGED <<current, previous, reader>>
      BY <1>7 DEF SavePage
    <2>5. items'[i] = more /\ status'[i] = "downloading" /\ next'[i] = Following(task.page)
      BY <2>1, <2>4, <1>0 DEF TypeOK
    <2>6. /\ task'.id = i /\ task'.page = Following(task.page)
          /\ task'.step \in {"failing", "complete", "fetch"}
          /\ task'.step = "complete" => task.page = LastPage
      BY <1>7, <1>0 DEF SavePage, TypeOK
    <2>7. \A k \in Ids : k # i =>
            status'[k] = status[k] /\ items'[k] = items[k] /\ next'[k] = next[k]
      BY <2>4, <1>0 DEF TypeOK
    <2> HIDE DEF i, more
    <2>8. TaskOwnsStaging' /\ TaskIsAhead' /\ NewIsAlone'
      BY <2>1, <2>3, <2>5, <2>6 DEF TaskOwnsStaging, TaskIsAhead, NewIsAlone, Staging
    <2>9. StagingIsAhead'
      BY <2>3, <2>5, <2>7 DEF IInv, StagingIsAhead
    <2>10. OneStaging'
      BY <2>1, <2>7 DEF IInv, OneStaging
    <2>11. KeptAreWhole'
      BY <2>1, <2>4, <2>7, <1>0 DEF IInv, KeptAreWhole, TypeOK, Staging
    <2>12. ReaderIsKept'
      BY <2>4 DEF IInv, ReaderIsKept
    <2> QED  BY <1>0, <2>8, <2>9, <2>10, <2>11, <2>12 DEF IInv
  <1>8. CASE MarkFailed
    <2>1. task.id \in Ids /\ status[task.id] \in Staging
      BY <1>8 DEF MarkFailed, IInv, TaskOwnsStaging, Owning
    <2>2. \A k \in Ids : status'[k] \in Staging <=> status[k] \in Staging
      BY <1>8, <1>0, <2>1 DEF MarkFailed, TypeOK, Staging
    <2>3. \A k \in Ids : k # task.id => status'[k] = status[k]
      BY <1>8, <1>0 DEF MarkFailed, TypeOK
    <2>4. TaskOwnsStaging' /\ TaskIsAhead' /\ NewIsAlone'
      BY <1>8 DEF MarkFailed, Asleep, TaskOwnsStaging, TaskIsAhead, NewIsAlone, Owning
    <2>5. StagingIsAhead' /\ OneStaging'
      BY <1>8, <2>2 DEF MarkFailed, IInv, StagingIsAhead, OneStaging
    <2>6. KeptAreWhole'
      BY <1>8, <1>0, <2>1, <2>3 DEF MarkFailed, IInv, KeptAreWhole, TypeOK, Staging
    <2>7. ReaderIsKept'
      BY <1>8 DEF MarkFailed, IInv, ReaderIsKept
    <2> QED  BY <1>0, <2>4, <2>5, <2>6, <2>7 DEF IInv
  <1>9. CASE Complete
    <2> DEFINE gone == {current, previous} \ Kept
    <2>1. task.id \in Ids /\ status[task.id] \in Staging /\ Whole(items[task.id])
      BY <1>9 DEF Complete, IInv, TaskOwnsStaging, TaskIsAhead, Owning
    <2>2. current # task.id /\ task.id \notin gone /\ current \notin gone /\ task.id # None
      BY <2>1, <1>0, NoneAssumption DEF IInv, KeptAreWhole, Kept, Staging
    <2>3. /\ status' = [k \in Ids |-> IF k = task.id THEN "complete"
                                      ELSE IF k \in gone THEN "none" ELSE status[k]]
          /\ items' = [k \in Ids |-> IF k \in gone THEN {} ELSE items[k]]
          /\ current' = task.id /\ previous' = current
          /\ task' = Asleep
          /\ reader' = [reader EXCEPT !.missed = IF reader.id = None THEN 0 ELSE 1]
      BY <1>9 DEF Complete, Kept
    <2> HIDE DEF gone
    <2>4. status'[task.id] = "complete" /\ Whole(items'[task.id])
      BY <2>1, <2>2, <2>3
    <2>5. current # None => status'[current] = "complete" /\ Whole(items'[current])
      BY <2>2, <2>3, <1>0 DEF IInv, KeptAreWhole, TypeOK
    <2>6. KeptAreWhole'
      BY <2>3, <2>4, <2>5 DEF KeptAreWhole
    <2>7. ReaderIsKept'
      <3>1. reader.id # None => reader.missed = 0 /\ reader.id = current
        BY <1>9 DEF Complete, ReaderIsQuick, IInv, ReaderIsKept
      <3>2. reader'.id = reader.id /\ (reader.id # None => reader'.missed = 1)
        BY <2>3, <1>0 DEF TypeOK
      <3> QED  BY <2>3, <3>1, <3>2 DEF ReaderIsKept
    <2>8. \A k \in Ids : status'[k] \in Staging =>
            status[k] \in Staging /\ items'[k] = items[k]
      BY <2>3 DEF Staging
    <2>9. next' = next
      BY <1>9 DEF Complete
    <2>10. StagingIsAhead' /\ OneStaging'
      BY <2>8, <2>9 DEF IInv, StagingIsAhead, OneStaging
    <2>11. TaskOwnsStaging' /\ TaskIsAhead' /\ NewIsAlone'
      BY <2>3 DEF Asleep, TaskOwnsStaging, TaskIsAhead, NewIsAlone, Owning
    <2> QED  BY <1>0, <2>6, <2>7, <2>10, <2>11 DEF IInv
  <1>10. CASE ReadId
    <2>1. TaskOwnsStaging' /\ TaskIsAhead' /\ NewIsAlone'
      BY <1>10 DEF ReadId, store, IInv, TaskOwnsStaging, TaskIsAhead, NewIsAlone
    <2>2. ReaderIsKept'
      BY <1>10 DEF ReadId, store, ReaderIsKept
    <2> QED  BY <1>0, <1>10, <2>1, <2>2, StoreKept DEF ReadId, IInv
  <1>11. CASE ReadRows
    <2>1. TaskOwnsStaging' /\ TaskIsAhead' /\ NewIsAlone'
      BY <1>11 DEF ReadRows, store, IInv, TaskOwnsStaging, TaskIsAhead, NewIsAlone
    <2>2. ReaderIsKept'
      BY <1>11 DEF ReadRows, ReaderIsKept
    <2> QED  BY <1>0, <1>11, <2>1, <2>2, StoreKept DEF ReadRows, IInv
  <1>12. CASE \E i \in Ids : GrowsOld(i)
    <2>1. UNCHANGED <<edition, status, next, pages, items, current, previous, task, reader>>
      BY <1>12 DEF GrowsOld
    <2> QED  BY <1>0, <2>1 DEF IInv, TaskOwnsStaging, TaskIsAhead, StagingIsAhead, KeptAreWhole,
                              ReaderIsKept, NewIsAlone, OneStaging
  <1>13. CASE NewEdition
    <2>1. TaskOwnsStaging' /\ TaskIsAhead' /\ NewIsAlone' /\ ReaderIsKept'
      BY <1>13 DEF NewEdition, store, IInv, TaskOwnsStaging, TaskIsAhead, NewIsAlone, ReaderIsKept
    <2> QED  BY <1>0, <1>13, <2>1, StoreKept DEF NewEdition, IInv
  <1>14. CASE Restart
    <2>1. TaskOwnsStaging' /\ TaskIsAhead' /\ NewIsAlone' /\ ReaderIsKept'
      BY <1>14 DEF Restart, Asleep, TaskOwnsStaging, TaskIsAhead, NewIsAlone, ReaderIsKept, Owning
    <2> QED  BY <1>0, <1>14, <2>1, StoreKept DEF Restart, IInv
  <1>15. CASE UNCHANGED vars
    BY <1>15, <1>0 DEF vars, store, IInv, TaskOwnsStaging, TaskIsAhead, StagingIsAhead,
       KeptAreWhole, ReaderIsKept, NewIsAlone, OneStaging
  <1> QED
    BY <1>1, <1>2, <1>3, <1>4, <1>5, <1>6, <1>7, <1>8, <1>9, <1>10, <1>11, <1>12,
       <1>13, <1>14, <1>15 DEF Next, Sync

LEMMA IInvHolds == Spec => []IInv
  BY InitIInv, IInvStep, PTL DEF Spec

-----------------------------------------------------------------------------
(* What lookups are promised *)

\* The published snapshot has every page: the loop of sync() ends only when
\* there is no next page, and a resumed download goes on where it stopped.
THEOREM WholeIsPublished == Spec => []PublishedIsWhole
  <1>1. IInv => PublishedIsWhole
    BY DEF IInv, KeptAreWhole, PublishedIsWhole
  <1> QED  BY <1>1, IInvHolds, PTL

\* _complete keeps the snapshot it replaces, so retail_items, which looks up
\* the id and the rows one after the other, finds the rows.
THEOREM ReaderServed == Spec => []ReaderIsServed
  <1>1. IInv => ReaderIsServed
    BY DEF IInv, KeptAreWhole, ReaderIsKept, ReaderIsServed
  <1> QED  BY <1>1, IInvHolds, PTL

\* _staging_snapshot, which takes the newest partial download, forgets none.
THEOREM StagingIsOne == Spec => []OneStaging
  <1>1. IInv => OneStaging
    BY DEF IInv
  <1> QED  BY <1>1, IInvHolds, PTL

\* Only a publication changes what lookups are served: the one action that
\* adds rows, _save_page, works on a snapshot that is not published.
THEOREM ServedStable == Spec => ServedIsStable
  <1> DEFINE Stable == current' = current /\ current # None => items'[current] = items[current]
  <1>1. IInv /\ [Next]_vars => [Stable]_vars
    <2> SUFFICES ASSUME IInv, Next, current' = current, current # None
                 PROVE  items'[current] = items[current]
      OBVIOUS
    <2>1. current \in Ids /\ status[current] = "complete" /\ TypeOK
      BY DEF IInv, TypeOK, KeptAreWhole
    <2>2. CASE Abandon
      BY <2>1, <2>2 DEF Abandon, Staging
    <2>3. CASE SavePage
      <3>1. task.id \in Ids /\ task.id # current
        BY <2>1, <2>3 DEF SavePage, IInv, TaskOwnsStaging, Owning, Staging
      <3> QED  BY <2>1, <2>3, <3>1 DEF SavePage, TypeOK
    <2>4. CASE Complete
      <3>1. status[task.id] \in Staging
        BY <2>4 DEF Complete, IInv, TaskOwnsStaging, Owning
      <3>2. current' = task.id
        BY <2>4 DEF Complete
      <3> QED  BY <2>1, <3>1, <3>2 DEF Staging
    <2>5. CASE Wake \/ Resume \/ New \/ Fetch \/ FetchFails \/ MarkFailed
      BY <2>5 DEF Wake, Resume, New, Fetch, FetchFails, MarkFailed, store
    <2>6. CASE ReadId \/ ReadRows \/ (\E i \in Ids : GrowsOld(i)) \/ NewEdition \/ Restart
      BY <2>6 DEF ReadId, ReadRows, GrowsOld, NewEdition, Restart, store
    <2> QED  BY <2>2, <2>3, <2>4, <2>5, <2>6 DEF Next, Sync
  <1> QED  BY <1>1, IInvHolds, PTL DEF Spec, ServedIsStable
=============================================================================
