---------------------- MODULE ConfirmationSession_proofs ----------------------
(***************************************************************************)
(* What is priced is what was approved, no change is dropped or worked in  *)
(* twice, and a quoted session stays quoted, for any number of pages,      *)
(* submissions, previews and restarts, as long as no preview loses its     *)
(* lease and no page sends answers, or an approval, to a session that has  *)
(* left what the page shows (two of them: and no preview withholds its     *)
(* result; that nothing is worked in twice holds with such answers too).   *)
(***************************************************************************)
EXTENDS ConfirmationSession, TLAPS

-----------------------------------------------------------------------------
(* The invariant *)

Keeps(later, cfg) == \A e \in Edits : later[e] >= cfg[e]

\* While leases hold and no page's answers or approval cross: a preview runs
\* only for the session in processing, and alone; what is in memory is not
\* behind the row; what is priced is approved.
Leased ==
  /\ \A j \in Running : /\ row.status = "processing" /\ job[j].asked = row.answers
                        /\ \A k \in Running : k = j
                        /\ job[j].cfg # None => Keeps(job[j].cfg, row.cfg)
  /\ draft # None => Keeps(draft, row.cfg)
  /\ quote # None \/ sales = "pricing" => row.status \in {"approved", "completed"}

\* While results are published too: the draft is the row's configuration.
Faithful ==
  /\ draft # None => draft = row.cfg
  /\ \A j \in Running : job[j].cfg # None => job[j].cfg = Worked(row.cfg, row.answers)
  /\ row.status \in {"approved", "completed"} => approved = row.cfg
  /\ quote # None => quote = approved

\* No submission is in cfg twice, and none that comes after the n-th.
OnceIn(cfg, n) == \A e \in Edits : cfg[e] <= 1 /\ (e > n => cfg[e] = 0)

\* Submission e is nowhere but with the previews that work on the answers.
OnlyWith(r, d, jobs, answers, e) ==
  /\ r.cfg[e] = 0
  /\ d # None => d[e] = 0
  /\ \A k \in Jobs : jobs[k].asked # answers =>
       /\ e \notin jobs[k].asked
       /\ jobs[k].cfg # None => jobs[k].cfg[e] = 0

\* While leases hold and results are published, several previews may run, each
\* for answers of its own: nobody else has those, nor has the row.
Once ==
  /\ row.answers \subseteq 1..edits
  /\ \A j \in Jobs : job[j].asked \subseteq 1..edits
  /\ OnceIn(row.cfg, edits)
  /\ draft # None => OnceIn(draft, edits)
  /\ \A j \in Jobs : job[j].cfg # None => OnceIn(job[j].cfg, edits)
  /\ \A j \in Running : \A k \in Running : job[k].asked = job[j].asked => k = j
  /\ \A j \in Running : \A e \in job[j].asked : OnlyWith(row, draft, job, job[j].asked, e)
  /\ row.status = "processing" =>
       \A e \in row.answers : OnlyWith(row, draft, job, row.answers, e)

IInv ==
  /\ TypeOK
  /\ row.status # "reviewing"
  /\ ~lost /\ ~crossed => Leased
  /\ ~lost /\ ~unpublished => Once
  /\ ~lost /\ ~crossed /\ ~unpublished => Faithful

-----------------------------------------------------------------------------
(* Configurations and rows *)

Row == [status : {"pending", "reviewing", "processing",
                  "configuration_review", "approved", "completed"},
        cfg : Configurations, answers : SUBSET Edits,
        lease : 0..(Lease + 1), age : 0..(Stale + 1)]

LEMMA WorkedIn ==
  ASSUME NEW cfg \in Configurations, NEW answers
  PROVE  /\ Worked(cfg, answers) \in Configurations
         /\ Keeps(Worked(cfg, answers), cfg)
         /\ \A e \in Edits : e \notin answers => Worked(cfg, answers)[e] = cfg[e]
         /\ \A e \in Edits : cfg[e] = 0 => Worked(cfg, answers)[e] <= 1
  BY DEF Worked, Configurations, Keeps

LEMMA KeepsTransitive ==
  ASSUME NEW a \in Configurations, NEW b \in Configurations, NEW c \in Configurations,
         Keeps(a, b), Keeps(b, c)
  PROVE  Keeps(a, c)
  BY DEF Keeps, Configurations

\* A handler starts a preview in a free place, for the answers of the row.
Starts(answers) ==
  \E k \in Free : job' = [job EXCEPT ![k] = [age |-> 0, asked |-> answers, cfg |-> None]]

\* What a read of the session does to the row: nothing; or the lost lease of
\* a preview is given up, for the table or for another preview.
LEMMA GetEffects ==
  ASSUME IInv, Get
  PROVE  /\ row' \in Row
         /\ ~lost' => ~lost
         /\ \/ row' = row /\ job' = job
            \/ /\ row.status = "processing" /\ (lost' \/ Running = {})
               /\ row'.cfg = row.cfg /\ row'.answers = row.answers
               /\ \/ row'.status = "configuration_review" /\ job' = job
                  \/ row'.status = "processing" /\ Starts(row.answers)
  <1> DEFINE r == Got(row)
  <1>1. /\ row \in Row /\ row.status # "reviewing"
        /\ 0 \in 0..(Lease + 1)
    BY TimesAssumption DEF IInv, TypeOK, Row
  <1>2. \/ r = row
        \/ row.status = "processing" /\ row.lease > Lease
           /\ r \in {[row EXCEPT !.status = "reviewing", !.lease = 0],
                     [row EXCEPT !.status = "configuration_review", !.lease = 0]}
    BY <1>1 DEF Got, LeaseChecked, Abandoned, Row
  <1>3. Serve(r) /\ (~lost' => ~lost)
    BY DEF Get
  <1>4. row.status = "processing" /\ row.lease > Lease => lost' \/ Running = {}
    BY <1>1 DEF Get, Loses, LeaseChecked, Row
  <1> HIDE DEF r
  <1>5. CASE r = row
    BY <1>1, <1>3, <1>5 DEF Serve
  <1>6. CASE /\ row.status = "processing"
             /\ r = [row EXCEPT !.status = "configuration_review", !.lease = 0]
    <2>1. r \in Row /\ r.status = "configuration_review" /\ r.cfg = row.cfg /\ r.answers = row.answers
      BY <1>1, <1>6 DEF Row
    <2>2. row' = r /\ job' = job
      BY <1>3, <2>1 DEF Serve
    <2> QED BY <1>1, <1>2, <1>3, <1>4, <1>6, <2>1, <2>2
  <1>7. CASE row.status = "processing" /\ r = [row EXCEPT !.status = "reviewing", !.lease = 0]
    <2>1. r \in Row /\ r.status = "reviewing" /\ r.cfg = row.cfg /\ r.answers = row.answers
      BY <1>1, <1>7 DEF Row
    <2>2. row' = Claimed(r) /\ Starts(r.answers)
      BY <1>3, <2>1 DEF Serve, Starts
    <2>3. /\ row'.cfg = row.cfg /\ row'.answers = row.answers
          /\ row'.status = "processing" /\ row' \in Row
      BY <1>1, <2>1, <2>2 DEF Claimed, Row
    <2> QED BY <1>2, <1>3, <1>4, <1>7, <2>1, <2>2, <2>3
  <1> QED BY <1>2, <1>5, <1>6, <1>7

LEMMA SubmissionEffects ==
  ASSUME IInv, edits < MaxEdits, Serve(Submitted(row, edits + 1))
  PROVE  /\ row' \in Row /\ row'.status = "processing"
         /\ row'.cfg = row.cfg /\ row'.answers = {edits + 1}
         /\ Starts({edits + 1})
  <1> DEFINE r == Submitted(row, edits + 1)
  <1>1. row \in Row /\ edits + 1 \in Edits /\ 0 \in 0..(Stale + 1) /\ 0 \in 0..(Lease + 1)
    BY TimesAssumption, BoundsAssumption DEF IInv, TypeOK, Row, Edits
  <1>2. /\ r \in Row /\ r.status = "reviewing"
        /\ r.cfg = row.cfg /\ r.answers = {edits + 1}
    BY <1>1 DEF Submitted, Row
  <1> HIDE DEF r
  <1>3. row' = Claimed(r) /\ Starts(r.answers)
    BY <1>2 DEF Serve, Starts, r
  <1> QED BY <1>1, <1>2, <1>3 DEF Claimed, Row

LEMMA Published ==
  ASSUME row \in Row, NEW cfg \in Configurations, NEW r \in {Asking(row, cfg), Reviewing(row, cfg)}
  PROVE  /\ r \in Row /\ r.cfg = cfg
         /\ r.status \in {"pending", "configuration_review"}
         /\ r.answers \subseteq row.answers
  <1>1. 0 \in 0..(Stale + 1) /\ 0 \in 0..(Lease + 1) BY TimesAssumption
  <1>2. CASE r = Asking(row, cfg) BY <1>1, <1>2 DEF Asking, Row
  <1>3. CASE r = Reviewing(row, cfg) BY <1>1, <1>3 DEF Reviewing, Row
  <1> QED BY <1>2, <1>3

\* What a response shows of a row is a state of a page.
Tabs == [Pages -> [status : {"pending", "reviewing", "processing",
                             "configuration_review", "approved", "completed"},
                   table : Configurations \union {None}]]

LEMMA PagesShow ==
  ASSUME tab \in Tabs, row' \in Row, NEW p \in Pages, Show(p) \/ tab' = tab
  PROVE  tab' \in Tabs
  <1>1. Shown(row') \in [status : {"pending", "reviewing", "processing",
                                   "configuration_review", "approved", "completed"},
                          table : Configurations \union {None}]
    BY DEF Shown, Row
  <1> QED BY <1>1 DEF Show, Tabs

LEMMA Started ==
  ASSUME TypeOK, NEW answers \in SUBSET Edits, Starts(answers)
  PROVE  /\ job' \in [Jobs -> [age : 0..Timeout, asked : SUBSET Edits,
                               cfg : Configurations \union {None}]]
         /\ \E k \in Free :
              /\ job'[k] = [age |-> 0, asked |-> answers, cfg |-> None]
              /\ \A j \in Jobs \ {k} : job'[j] = job[j]
  <1>1. 0 \in 0..Timeout BY TimesAssumption
  <1> QED BY <1>1 DEF Starts, Free, TypeOK

-----------------------------------------------------------------------------
(* Types *)

LEMMA NextTypes == IInv /\ [Next]_vars => TypeOK'
  <1> SUFFICES ASSUME IInv, [Next]_vars PROVE TypeOK'
    OBVIOUS
  <1>0. TypeOK /\ row \in Row /\ tab \in Tabs
    BY DEF IInv, TypeOK, Row, Tabs
  <1>1. ASSUME Get, draft' = draft, edits' = edits, restarts' = restarts,
               sales' \in {sales, "starting"},
               tab' = tab \/ \E p \in Pages : Show(p)
        PROVE  TypeOK'
    <2>1. row' \in Row /\ row.answers \in SUBSET Edits
      BY <1>0, <1>1, GetEffects DEF Row
    <2>2. job' = job \/ Starts(row.answers)
      BY <1>1, GetEffects
    <2>3. job' \in [Jobs -> [age : 0..Timeout, asked : SUBSET Edits,
                             cfg : Configurations \union {None}]]
      BY <1>0, <2>1, <2>2, Started DEF TypeOK
    <2>4. tab' \in Tabs
      BY <1>0, <1>1, <2>1, PagesShow
    <2> QED BY <1>0, <1>1, <2>1, <2>3, <2>4 DEF TypeOK, Row, Tabs
  <1>2. ASSUME edits < MaxEdits, Serve(Submitted(row, edits + 1)), edits' = edits + 1,
               draft' = draft, sales' = sales, restarts' = restarts,
               NEW p \in Pages, ShowOrNot(p)
        PROVE  TypeOK'
    <2>1. row' \in Row /\ Starts({edits + 1})
      BY <1>2, SubmissionEffects
    <2>2. edits' \in 0..MaxEdits /\ {edits + 1} \in SUBSET Edits
      BY <1>0, <1>2, BoundsAssumption DEF TypeOK, Edits
    <2>3. tab' \in Tabs
      BY <1>0, <1>2, <2>1, PagesShow DEF ShowOrNot
    <2> QED BY <1>0, <1>2, <2>1, <2>2, <2>3, Started DEF TypeOK, Row, Tabs
  <1>3. ASSUME NEW p \in Pages, Reload(p) \/ TabPolls(p) PROVE TypeOK'
    BY <1>1, <1>3 DEF Reload, TabPolls
  <1>4. ASSUME NEW p \in Pages, Answer(p) \/ Feedback(p) PROVE TypeOK'
    BY <1>2, <1>4 DEF Answer, Feedback
  <1>5. ASSUME NEW p \in Pages, Approve(p) PROVE TypeOK'
    <2>1. row' \in Row
      BY <1>0, <1>5 DEF Approve, Row
    <2>2. tab' \in Tabs
      BY <1>0, <1>5, <2>1, PagesShow DEF Approve, ShowOrNot
    <2> QED BY <1>0, <1>5, <2>1, <2>2 DEF Approve, TypeOK, Row, Tabs
  <1>6. ASSUME NEW j \in Jobs, PreviewReads(j) PROVE TypeOK'
    <2>1. Configuration(row) \in Configurations
      BY <1>0 DEF Configuration, TypeOK, Row
    <2>2. Worked(Configuration(row), job[j].asked) \in Configurations
      BY <2>1, WorkedIn
    <2> QED BY <1>0, <1>6, <2>2 DEF PreviewReads, TypeOK
  <1>7. ASSUME NEW j \in Jobs, PreviewEnds(j) PROVE TypeOK'
    <2>1. job' \in [Jobs -> [age : 0..Timeout, asked : SUBSET Edits,
                             cfg : Configurations \union {None}]]
      BY <1>0, <1>7, TimesAssumption
         DEF PreviewEnds, PreviewPublishes, PreviewWithholds, PreviewFails, Ends, Idle, TypeOK
    <2>2. CASE PreviewPublishes(j)
      <3>1. job[j].cfg \in Configurations
        BY <1>0, <2>2 DEF PreviewPublishes, TypeOK
      <3>2. row' \in Row
        BY <1>0, <2>2, <3>1, Published DEF PreviewPublishes
      <3>3. draft' = job[j].cfg /\ UNCHANGED <<tab, sales, edits, restarts>>
        BY <2>2 DEF PreviewPublishes
      <3> QED BY <1>0, <2>1, <3>1, <3>2, <3>3 DEF TypeOK, Row
    <2>3. CASE PreviewWithholds(j)
      BY <1>0, <2>1, <2>3 DEF PreviewWithholds, TypeOK
    <2>4. CASE PreviewFails(j)
      BY <1>0, <2>1, <2>4 DEF PreviewFails, TypeOK
    <2> QED BY <1>7, <2>2, <2>3, <2>4 DEF PreviewEnds
  <1>8. CASE SalesPolls
    BY <1>1, <1>8 DEF SalesPolls
  <1>9. CASE QuoteStarts
    BY <1>0, <1>9 DEF QuoteStarts, TypeOK
  <1>10. CASE QuoteEnds
    <2>0. 0 \in 0..(Lease + 1)
      BY TimesAssumption
    <2>1. row' \in Row
      BY <1>0, <1>10, <2>0 DEF QuoteEnds, Completed, Row
    <2> QED BY <1>0, <1>10, <2>1 DEF QuoteEnds, TypeOK, Row
  <1>11. CASE Tick
    <2>0. /\ Older(row.lease, Lease + 1) \in 0..(Lease + 1)
          /\ Older(row.age, Stale + 1) \in 0..(Stale + 1)
      BY <1>0, TimesAssumption DEF Older, Row
    <2>1. row' \in Row
      BY <1>0, <1>11, <2>0 DEF Tick, Aged, Row
    <2>2. \A j \in Jobs : job'[j] \in [age : 0..Timeout, asked : SUBSET Edits,
                                       cfg : Configurations \union {None}]
      BY <1>0, <1>11, TimesAssumption DEF Tick, Running, TypeOK
    <2>3. job' = [j \in Jobs |-> job'[j]]
      BY <1>11 DEF Tick
    <2> QED BY <1>0, <1>11, <2>1, <2>2, <2>3 DEF Tick, TypeOK, Row
  <1>12. CASE Restart
    BY <1>0, <1>12, TimesAssumption, BoundsAssumption DEF Restart, Idle, TypeOK
  <1>13. CASE UNCHANGED vars
    BY <1>0, <1>13 DEF vars, TypeOK
  <1> QED BY <1>3, <1>4, <1>5, <1>6, <1>7, <1>8, <1>9, <1>10, <1>11, <1>12, <1>13 DEF Next

-----------------------------------------------------------------------------
(* The steps *)

\* Once, from what a step leaves alone and what it changes.
LEMMA OnceWithRow ==
  ASSUME Once, row'.cfg = row.cfg, row'.answers = row.answers,
         row'.status = "processing" => row.status = "processing",
         UNCHANGED <<draft, edits>>,
         \A k \in Jobs : job'[k].asked = job[k].asked /\ job'[k].cfg = job[k].cfg
  PROVE  Once'
  <1>1. Running' = Running BY DEF Running
  <1>2. \A A, e : OnlyWith(row, draft, job, A, e) => OnlyWith(row', draft', job', A, e)
    BY DEF OnlyWith
  <1> QED BY <1>1, <1>2 DEF Once, OnceIn, Running

\* A preview is started for answers nobody else works on.
LEMMA OnceStarted ==
  ASSUME TypeOK, TypeOK', Once, row'.cfg = row.cfg, draft' = draft,
         edits \in Nat, edits' \in Nat, edits' >= edits,
         row'.answers \subseteq 1..edits',
         NEW k \in Free,
         job'[k] = [age |-> 0, asked |-> row'.answers, cfg |-> None],
         \A j \in Jobs \ {k} : job'[j] = job[j],
         \A j \in Running : job[j].asked # row'.answers,
         \A e \in row'.answers : OnlyWith(row, draft, job, row'.answers, e)
  PROVE  Once'
  <1>1. /\ k \in Jobs /\ job'[k].asked = row'.answers /\ job'[k].cfg = None
        /\ Running' \subseteq Running \union {k} /\ k \notin Running
    BY DEF Running, Free
  <1>2. \A cfg \in Configurations : OnceIn(cfg, edits) => OnceIn(cfg, edits')
    BY DEF OnceIn, Edits
  <1>3. ASSUME NEW j \in Running, NEW e \in job[j].asked
        PROVE  OnlyWith(row', draft', job', job[j].asked, e)
    <2>1. OnlyWith(row, draft, job, job[j].asked, e) /\ e \notin row'.answers
      BY <1>3 DEF Once, OnlyWith, Running
    <2> QED BY <1>1, <2>1 DEF OnlyWith
  <1>4. ASSUME NEW e \in row'.answers PROVE OnlyWith(row', draft', job', row'.answers, e)
    BY <1>1, <1>4 DEF OnlyWith
  <1>5. \A j \in Jobs : job'[j].asked \subseteq 1..edits'
    BY <1>1 DEF Once
  <1>6. /\ OnceIn(row'.cfg, edits') /\ (draft # None => OnceIn(draft', edits'))
        /\ \A j \in Jobs : job'[j].cfg # None => OnceIn(job'[j].cfg, edits')
    BY <1>1, <1>2 DEF Once, TypeOK, OnceIn
  <1>7. \A i \in Running' : \A j \in Running' : job'[j].asked = job'[i].asked => j = i
    BY <1>1 DEF Once, Running
  <1>8. \A j \in Running' : \A e \in job'[j].asked : OnlyWith(row', draft', job', job'[j].asked, e)
    <2>1. SUFFICES ASSUME NEW j \in Running', NEW e \in job'[j].asked
                   PROVE  OnlyWith(row', draft', job', job'[j].asked, e)
      OBVIOUS
    <2>2. CASE j = k
      BY <1>1, <1>4, <2>1, <2>2
    <2>3. CASE j # k
      <3>1. j \in Running /\ job'[j] = job[j]
        BY <1>1, <2>1, <2>3 DEF Running
      <3> QED BY <1>3, <2>1, <3>1
    <2> QED BY <2>2, <2>3
  <1>9. draft' # None => OnceIn(draft', edits')
    BY <1>6
  <1>10. /\ row'.answers \subseteq 1..edits'
         /\ row'.status = "processing" =>
              \A e \in row'.answers : OnlyWith(row', draft', job', row'.answers, e)
    BY <1>4
  <1> QED BY <1>5, <1>6, <1>7, <1>8, <1>9, <1>10 DEF Once

\* Reads of the session, by any page.
LEMMA GetKeeps ==
  ASSUME IInv, TypeOK', Get, sales' = "pricing" => sales = "pricing",
         UNCHANGED <<draft, quote, edits, approved, crossed, unpublished>>
  PROVE  IInv'
  <1>0. row \in Row /\ row' \in Row /\ row.status # "reviewing" /\ (~lost' => ~lost)
    BY GetEffects DEF IInv, TypeOK, Row
  <1>1. CASE row' = row /\ job' = job
    <2>1. ~lost' /\ ~unpublished' => Once'
      BY <1>0, <1>1, OnceWithRow DEF IInv
    <2> QED BY <1>0, <1>1, <2>1 DEF IInv, Leased, Faithful, Running
  <1>2. CASE /\ row.status = "processing" /\ (lost' \/ Running = {})
             /\ row'.cfg = row.cfg /\ row'.answers = row.answers
             /\ row'.status = "configuration_review" /\ job' = job
    <2>1. ~lost' /\ ~unpublished' => Once'
      BY <1>0, <1>2, OnceWithRow DEF IInv
    <2> QED BY <1>0, <1>2, <2>1 DEF IInv, Leased, Faithful, Running
  <1>3. CASE /\ row.status = "processing" /\ (lost' \/ Running = {})
             /\ row'.cfg = row.cfg /\ row'.answers = row.answers
             /\ row'.status = "processing" /\ Starts(row.answers)
    <2>1. row.answers \in SUBSET Edits
      BY <1>0 DEF Row
    <2>2. PICK k \in Free :
            /\ job'[k] = [age |-> 0, asked |-> row.answers, cfg |-> None]
            /\ \A j \in Jobs \ {k} : job'[j] = job[j]
      BY <1>3, <2>1, Started DEF IInv
    <2>3. CASE ~lost'
      <3>1. Running = {} /\ Running' \subseteq {k}
        BY <1>3, <2>2, <2>3 DEF Running
      <3>2. ~crossed' => Leased'
        BY <1>0, <1>3, <2>2, <2>3, <3>1 DEF IInv, Leased, Running
      <3>3. ~crossed' /\ ~unpublished' => Faithful'
        BY <1>0, <1>3, <2>2, <2>3, <3>1 DEF IInv, Faithful
      <3>4. ASSUME ~unpublished' PROVE Once'
        <4>1. Once /\ edits \in Nat /\ TypeOK
          BY <1>0, <2>3, <3>4 DEF IInv, TypeOK
        <4>2. \A e \in row.answers : OnlyWith(row, draft, job, row.answers, e)
          BY <1>3, <4>1 DEF Once
        <4>3. row'.answers \subseteq 1..edits'
          BY <1>3, <4>1 DEF Once
        <4> QED BY <1>3, <2>2, <3>1, <4>1, <4>2, <4>3, OnceStarted
      <3> QED BY <1>3, <3>2, <3>3, <3>4 DEF IInv
    <2> QED BY <1>3, <2>3 DEF IInv
  <1> QED BY <1>1, <1>2, <1>3, GetEffects

\* A submission, of answers or of changes to the table; the answers do not
\* cross as long as the session asks, or shows its table.
LEMMA SubmissionKeeps ==
  ASSUME IInv, TypeOK', edits < MaxEdits, Serve(Submitted(row, edits + 1)),
         edits' = edits + 1,
         ~crossed' => ~crossed /\ row.status \in {"pending", "configuration_review"},
         UNCHANGED <<draft, sales, quote, approved, lost, unpublished>>
  PROVE  IInv'
  <1>0. /\ row \in Row /\ row' \in Row /\ row'.status = "processing"
        /\ row'.cfg = row.cfg /\ row'.answers = {edits + 1}
        /\ Starts({edits + 1}) /\ edits \in Nat /\ edits + 1 \in Edits
    BY SubmissionEffects, BoundsAssumption DEF IInv, TypeOK, Row, Edits
  <1>1. PICK k \in Free :
          /\ job'[k] = [age |-> 0, asked |-> {edits + 1}, cfg |-> None]
          /\ \A j \in Jobs \ {k} : job'[j] = job[j]
    BY <1>0, Started DEF IInv
  <1>2. ASSUME ~lost', ~crossed' PROVE Leased' /\ (~unpublished' => Faithful')
    <2>1. /\ row.status \in {"pending", "configuration_review"} /\ ~lost /\ ~crossed
          /\ quote = None /\ sales # "pricing" /\ Running = {}
      BY <1>2 DEF IInv, Leased
    <2>2. Running' \subseteq {k}
      BY <1>1, <2>1 DEF Running
    <2>3. Leased'
      BY <1>0, <1>1, <2>1, <2>2 DEF IInv, Leased
    <2>4. ~unpublished' => Faithful'
      BY <1>0, <1>1, <2>1, <2>2 DEF IInv, Faithful
    <2> QED BY <2>3, <2>4
  <1>3. ASSUME ~lost', ~unpublished' PROVE Once'
    <2>1. Once /\ TypeOK
      BY <1>3 DEF IInv
    <2>2. \A j \in Jobs : edits + 1 \notin job[j].asked
      BY <1>0, <2>1 DEF Once
    <2>3. OnlyWith(row, draft, job, {edits + 1}, edits + 1)
      BY <1>0, <2>1, <2>2 DEF Once, OnceIn, OnlyWith
    <2>4. /\ \A e \in row'.answers : OnlyWith(row, draft, job, row'.answers, e)
          /\ \A j \in Running : job[j].asked # row'.answers
          /\ row'.answers \subseteq 1..edits' /\ edits' \in Nat /\ edits' >= edits
      BY <1>0, <2>2, <2>3 DEF Running
    <2> QED BY <1>0, <1>1, <2>1, <2>4, OnceStarted
  <1> QED BY <1>0, <1>2, <1>3 DEF IInv

LEMMA ReadKeeps ==
  ASSUME IInv, TypeOK', NEW j \in Jobs, PreviewReads(j)
  PROVE  IInv'
  <1> DEFINE cfg == Configuration(row)
             read == Worked(cfg, job[j].asked)
  <1>0. /\ row.cfg \in Configurations /\ cfg \in Configurations /\ job[j].asked \in SUBSET Edits
        /\ read \in Configurations /\ Keeps(read, cfg)
        /\ \A e \in Edits : e \notin job[j].asked => read[e] = cfg[e]
        /\ \A e \in Edits : cfg[e] = 0 => read[e] <= 1
    BY WorkedIn DEF IInv, TypeOK, Configuration
  <1>1. /\ Running' = Running /\ j \in Running
        /\ job'[j] = [job[j] EXCEPT !.cfg = read]
        /\ \A k \in Jobs \ {j} : job'[k] = job[k]
        /\ UNCHANGED <<row, draft, tab, sales, quote, edits, approved, lost, crossed, unpublished>>
    BY DEF PreviewReads, Running, IInv, TypeOK, history
  <1>2. job'[j].cfg = read /\ job'[j].asked = job[j].asked
    BY <1>1 DEF IInv, TypeOK
  <1> HIDE DEF read
  <1>3. ASSUME ~lost, ~crossed PROVE Leased' /\ (~unpublished => Faithful')
    <2>1. Keeps(cfg, row.cfg)
      BY <1>0, <1>3 DEF IInv, Leased, Configuration, Keeps, Configurations
    <2>2. Keeps(read, row.cfg)
      BY <1>0, <2>1, KeepsTransitive
    <2>3. Leased'
      BY <1>1, <1>2, <1>3, <2>2 DEF IInv, Leased, Keeps
    <2>4. ~unpublished => Faithful'
      BY <1>1, <1>2, <1>3 DEF IInv, Leased, Faithful, Configuration, read
    <2> QED BY <2>3, <2>4
  <1>4. ASSUME ~lost, ~unpublished PROVE Once'
    <2>1. Once /\ edits \in Nat
      BY <1>4 DEF IInv, TypeOK
    <2>2. \A e \in job[j].asked : cfg[e] = 0
      BY <1>1, <2>1 DEF Once, OnlyWith, Configuration
    <2>3. OnceIn(cfg, edits)
      BY <2>1 DEF Once, Configuration
    <2>4. OnceIn(read, edits)
      <3>1. \A e \in Edits : read[e] <= 1
        BY <1>0, <2>2, <2>3 DEF OnceIn
      <3>2. \A e \in Edits : e > edits => e \notin job[j].asked
        BY <2>1 DEF Once, Edits
      <3> QED BY <1>0, <2>3, <3>1, <3>2 DEF OnceIn
    <2>5. ASSUME NEW A \in SUBSET Edits, NEW e \in A, OnlyWith(row, draft, job, A, e)
          PROVE  OnlyWith(row', draft', job', A, e)
      <3>1. CASE job[j].asked = A
        BY <1>1, <1>2, <2>5, <3>1 DEF OnlyWith
      <3>2. CASE job[j].asked # A
        <4>1. e \notin job[j].asked /\ cfg[e] = 0
          BY <2>5, <3>2 DEF OnlyWith, Configuration
        <4>2. read[e] = 0
          BY <1>0, <2>5, <4>1
        <4> QED BY <1>1, <1>2, <2>5, <4>1, <4>2 DEF OnlyWith
      <3> QED BY <3>1, <3>2
    <2>6. /\ \A k \in Running : job[k].asked \in SUBSET Edits
          /\ row.answers \in SUBSET Edits
      BY DEF Running, IInv, TypeOK
    <2>7. \A k \in Jobs : job'[k].asked = job[k].asked
      BY <1>1, <1>2
    <2>8. /\ \A k \in Running' : \A e \in job'[k].asked :
               OnlyWith(row', draft', job', job'[k].asked, e)
          /\ row'.status = "processing" =>
               \A e \in row'.answers : OnlyWith(row', draft', job', row'.answers, e)
      <3>1. \A k \in Running : \A e \in job[k].asked : OnlyWith(row', draft', job', job[k].asked, e)
        BY <2>1, <2>5, <2>6 DEF Once
      <3>2. row.status = "processing" =>
              \A e \in row.answers : OnlyWith(row', draft', job', row.answers, e)
        BY <2>1, <2>5, <2>6 DEF Once
      <3> QED BY <1>1, <2>7, <3>1, <3>2 DEF Running
    <2>9. ASSUME NEW k \in Jobs, job'[k].cfg # None PROVE OnceIn(job'[k].cfg, edits')
      <3>1. CASE k = j
        BY <1>1, <1>2, <2>4, <3>1
      <3>2. CASE k # j
        BY <1>1, <2>1, <2>9, <3>2 DEF Once
      <3> QED BY <3>1, <3>2
    <2>10. /\ \A k \in Running' : \A i \in Running' : job'[i].asked = job'[k].asked => i = k
           /\ \A k \in Jobs : job'[k].asked \subseteq 1..edits
      BY <1>1, <2>1, <2>7 DEF Once, Running
    <2> QED BY <1>1, <2>1, <2>8, <2>9, <2>10 DEF Once
  <1> QED BY <1>1, <1>3, <1>4 DEF IInv

LEMMA EndKeeps ==
  ASSUME IInv, TypeOK', NEW j \in Jobs, PreviewEnds(j)
  PROVE  IInv'
  <1>0. /\ row \in Row /\ j \in Running /\ Running' = Running \ {j}
        /\ job'[j] = Idle /\ \A k \in Jobs \ {j} : job'[k] = job[k]
        /\ UNCHANGED <<tab, sales, quote, edits, approved, lost, crossed>>
    BY DEF PreviewEnds, PreviewPublishes, PreviewWithholds, PreviewFails, Ends, Running, Idle,
           IInv, TypeOK, Row, history
  <1>1. ~lost /\ ~crossed => Running' = {} /\ row.status = "processing"
    BY <1>0 DEF IInv, Leased
  <1>2. CASE PreviewPublishes(j)
    <2>1. job[j].cfg \in Configurations /\ job[j].cfg # None /\ unpublished' = unpublished
      BY <1>2 DEF PreviewPublishes, IInv, TypeOK, history
    <2>2. /\ row' \in Row /\ row'.cfg = job[j].cfg /\ draft' = job[j].cfg
          /\ row'.status \in {"pending", "configuration_review"}
          /\ row'.answers \subseteq row.answers
      BY <1>0, <1>2, <2>1, Published DEF PreviewPublishes
    <2>3. ASSUME ~lost, ~crossed PROVE Leased' /\ (~unpublished => Faithful')
      <3>1. Leased'
        BY <1>0, <1>1, <2>2, <2>3 DEF IInv, Leased, Keeps, Configurations, Row
      <3>2. ~unpublished => Faithful'
        BY <1>0, <1>1, <2>2, <2>3 DEF IInv, Leased, Faithful
      <3> QED BY <3>1, <3>2
    <2>4. ASSUME ~lost, ~unpublished PROVE Once'
      <3>1. Once /\ OnceIn(job[j].cfg, edits)
        BY <1>0, <2>1, <2>4 DEF IInv, Once
      <3>2. ASSUME NEW k \in Running', NEW e \in job[k].asked
            PROVE  OnlyWith(row', draft', job', job[k].asked, e)
        <4>1. /\ k \in Running /\ k # j /\ OnlyWith(row, draft, job, job[k].asked, e)
              /\ job[j].asked # job[k].asked
          BY <1>0, <3>1, <3>2 DEF Once
        <4>2. job[j].cfg[e] = 0
          BY <2>1, <4>1 DEF OnlyWith
        <4> QED BY <1>0, <2>2, <4>1, <4>2 DEF OnlyWith, Idle
      <3>3. OnceIn(row'.cfg, edits') /\ OnceIn(draft', edits')
        BY <1>0, <2>2, <3>1 DEF OnceIn
      <3>4. \A k \in Jobs : /\ job'[k].asked \subseteq 1..edits
                            /\ job'[k].cfg # None => OnceIn(job'[k].cfg, edits')
        BY <1>0, <3>1 DEF Once, OnceIn, Idle
      <3>5. \A k \in Running' : job'[k].asked = job[k].asked /\ k \in Running
        BY <1>0 DEF Running
      <3>6. row'.answers \subseteq 1..edits
        BY <2>2, <3>1 DEF Once
      <3> QED BY <1>0, <2>2, <3>1, <3>2, <3>3, <3>4, <3>5, <3>6 DEF Once
    <2> QED BY <1>0, <2>1, <2>2, <2>3, <2>4 DEF IInv
  <1>3. CASE PreviewWithholds(j)
    <2>1. row' = row /\ draft' = job[j].cfg /\ unpublished' /\ job[j].cfg # None
      BY <1>3 DEF PreviewWithholds
    <2>2. ~lost /\ ~crossed => Leased'
      BY <1>0, <1>1, <2>1 DEF IInv, Leased
    <2> QED BY <1>0, <2>1, <2>2 DEF IInv
  <1>4. CASE PreviewFails(j)
    <2>1. UNCHANGED <<row, draft, unpublished>>
      BY <1>4 DEF PreviewFails, history
    <2>2. ASSUME ~lost, ~unpublished PROVE Once'
      <3>1. Once
        BY <2>2 DEF IInv
      <3>2. \A A, e : OnlyWith(row, draft, job, A, e) => OnlyWith(row', draft', job', A, e)
        BY <1>0, <2>1 DEF OnlyWith, Idle
      <3>3. \A k \in Jobs : /\ job'[k].asked \subseteq 1..edits
                            /\ job'[k].cfg # None => OnceIn(job'[k].cfg, edits')
        BY <1>0, <3>1 DEF Once, OnceIn, Idle
      <3>4. \A k \in Running' : job'[k].asked = job[k].asked /\ k \in Running
        BY <1>0 DEF Running
      <3>5. OnceIn(row'.cfg, edits') /\ (draft # None => OnceIn(draft', edits'))
        BY <1>0, <2>1, <3>1 DEF Once, OnceIn
      <3> QED BY <1>0, <2>1, <3>1, <3>2, <3>3, <3>4, <3>5 DEF Once
    <2> QED BY <1>0, <1>1, <2>1, <2>2 DEF IInv, Leased, Faithful
  <1> QED BY <1>2, <1>3, <1>4 DEF PreviewEnds

LEMMA ApproveKeeps ==
  ASSUME IInv, TypeOK', NEW p \in Pages, Approve(p)
  PROVE  IInv'
  <1>1. /\ row \in Row /\ row.status = "configuration_review"
        /\ row'.status = "approved" /\ row'.cfg = row.cfg /\ row'.answers = row.answers
        /\ Running' = Running
        /\ UNCHANGED <<draft, job, sales, quote, edits, lost, unpublished>>
        /\ ~crossed' => ~crossed /\ approved' = row.cfg
    BY DEF Approve, IInv, TypeOK, Row, Running
  <1>2. ~lost /\ ~crossed => Running = {} /\ quote = None
    BY <1>1 DEF IInv, Leased
  <1>3. ~lost /\ ~unpublished => Once'
    BY <1>1, OnceWithRow DEF IInv
  <1> QED BY <1>1, <1>2, <1>3 DEF IInv, Leased, Faithful

LEMMA OtherStepsKeep ==
  ASSUME IInv, TypeOK', QuoteStarts \/ QuoteEnds \/ Tick \/ Restart \/ UNCHANGED vars
  PROVE  IInv'
  <1>0. row \in Row
    BY DEF IInv, TypeOK, Row
  <1>2. CASE QuoteStarts
    <2>1. ~lost /\ ~unpublished => Once'
      BY <1>2, OnceWithRow DEF QuoteStarts, IInv, history
    <2> QED BY <1>2, <2>1
            DEF QuoteStarts, Configuration, IInv, Leased, Faithful, Running, history
  <1>3. CASE QuoteEnds
    <2>1. /\ row' = row \/ row' = [row EXCEPT !.status = "completed", !.lease = 0]
          /\ sales = "pricing" /\ sales' = "ended" /\ Running' = Running
          /\ UNCHANGED <<draft, job, quote, edits, approved, lost, crossed, unpublished>>
      BY <1>3 DEF QuoteEnds, Completed, Running, history
    <2>2. /\ row'.cfg = row.cfg /\ row'.answers = row.answers
          /\ row'.status \in {row.status, "completed"}
      BY <1>0, <2>1 DEF Row
    <2>3. ~lost /\ ~unpublished => Once'
      BY <2>1, <2>2, OnceWithRow DEF IInv
    <2> QED BY <2>1, <2>2, <2>3 DEF IInv, Leased, Faithful
  <1>4. CASE Tick
    <2>1. /\ row'.status = row.status /\ row'.cfg = row.cfg /\ row'.answers = row.answers
      BY <1>0, <1>4 DEF Tick, Aged, Row
    <2>2. \A j \in Jobs : job'[j].asked = job[j].asked /\ job'[j].cfg = job[j].cfg
      BY <1>4 DEF Tick, IInv, TypeOK
    <2>3. Running' = Running
      BY <2>2 DEF Running
    <2>4. UNCHANGED <<draft, sales, quote, edits, approved, lost, crossed, unpublished>>
      BY <1>4 DEF Tick, history
    <2>5. ~lost /\ ~unpublished => Once'
      BY <2>1, <2>2, <2>4, OnceWithRow DEF IInv
    <2> QED BY <2>1, <2>2, <2>3, <2>4, <2>5 DEF IInv, Leased, Faithful, Running
  <1>5. CASE Restart
    <2>1. Running' = {} /\ \A k \in Jobs : job'[k] = Idle
      BY <1>5 DEF Restart, Running, Idle
    <2>2. UNCHANGED <<row, quote, edits, approved, lost, crossed, unpublished>> /\ draft' = None
      BY <1>5 DEF Restart, history
    <2>3. ASSUME ~lost, ~unpublished PROVE Once'
      <3>1. Once
        BY <2>3 DEF IInv
      <3>2. \A A, e : OnlyWith(row, draft, job, A, e) => OnlyWith(row', draft', job', A, e)
        BY <2>1, <2>2 DEF OnlyWith, Idle
      <3> QED BY <2>1, <2>2, <3>1, <3>2 DEF Once, OnceIn, Idle
    <2> QED BY <1>5, <2>1, <2>2, <2>3 DEF Restart, IInv, Leased, Faithful
  <1>6. CASE UNCHANGED vars
    <2>1. ~lost /\ ~unpublished => Once'
      BY <1>6, OnceWithRow DEF vars, history, IInv
    <2> QED BY <1>6, <2>1 DEF vars, history, IInv, Leased, Faithful, Running
  <1> QED BY <1>2, <1>3, <1>4, <1>5, <1>6

LEMMA InitKeeps == Init => IInv
  <1> SUFFICES ASSUME Init PROVE IInv
    OBVIOUS
  <1>1. /\ Original \in Configurations /\ Keeps(Original, Original)
        /\ \A e \in Edits : Original[e] = 0
    BY DEF Original, Configurations, Keeps
  <1>2. Running = {}
    BY DEF Init, Running, Idle
  <1>3. TypeOK
    <2>1. 0 \in 0..(Lease + 1) /\ 0 \in 0..(Stale + 1) /\ 0 \in 0..Timeout
      BY TimesAssumption
    <2>2. row \in Row
      BY <1>1, <2>1 DEF Init, Row
    <2>3. tab \in Tabs
      BY <1>1, <2>2 DEF Init, Shown, Row, Tabs
    <2> QED BY <1>1, <2>1, <2>2, <2>3, BoundsAssumption DEF Init, TypeOK, Idle, Row, Tabs
  <1>4. Once
    <2>1. OnceIn(Original, 0)
      BY <1>1 DEF OnceIn
    <2> QED BY <1>2, <2>1 DEF Init, Once, Idle
  <1> QED BY <1>1, <1>2, <1>3, <1>4 DEF Init, IInv, Leased, Faithful

LEMMA NextKeeps == IInv /\ [Next]_vars => IInv'
  <1> SUFFICES ASSUME IInv, [Next]_vars PROVE IInv'
    OBVIOUS
  <1>0. TypeOK' BY NextTypes
  <1>1. ASSUME NEW p \in Pages, Reload(p) \/ TabPolls(p) PROVE IInv'
    BY <1>0, <1>1, GetKeeps DEF Reload, TabPolls
  <1>2. ASSUME NEW p \in Pages, Answer(p) \/ Feedback(p) PROVE IInv'
    <2>1. CASE Answer(p)
      BY <1>0, <2>1, SubmissionKeeps DEF Answer
    <2>2. CASE Feedback(p)
      BY <1>0, <2>2, SubmissionKeeps DEF Feedback
    <2> QED BY <1>2, <2>1, <2>2
  <1>3. ASSUME NEW p \in Pages, Approve(p) PROVE IInv'
    BY <1>0, <1>3, ApproveKeeps
  <1>4. ASSUME NEW j \in Jobs, PreviewReads(j) \/ PreviewEnds(j) PROVE IInv'
    BY <1>0, <1>4, ReadKeeps, EndKeeps
  <1>5. CASE SalesPolls
    BY <1>0, <1>5, GetKeeps DEF SalesPolls
  <1>6. CASE QuoteStarts \/ QuoteEnds \/ Tick \/ Restart \/ UNCHANGED vars
    BY <1>0, <1>6, OtherStepsKeep
  <1> QED BY <1>1, <1>2, <1>3, <1>4, <1>5, <1>6 DEF Next

-----------------------------------------------------------------------------
(* The theorems *)

\* The fields of the row, the draft, the jobs and the pages are what the code
\* may write, whatever is submitted, retried or restarted.
THEOREM SessionIsSound == Spec => []IInv
  BY InitKeeps, NextKeeps, PTL DEF Spec

\* Types, for TLC's TypeOK.
THEOREM TypesHold == Spec => []TypeOK
  <1>1. IInv => TypeOK BY DEF IInv
  <1> QED BY <1>1, SessionIsSound, PTL

\* create_quote prices the configuration the customer saw and approved, as
\* long as every preview kept its lease and published what it found, and every
\* page answered and approved what the session was at.
THEOREM QuoteIsApproved == Spec => []QuotedAsApproved
  <1>1. IInv => QuotedAsApproved BY DEF IInv, Faithful, QuotedAsApproved
  <1> QED BY <1>1, SessionIsSound, PTL

\* _intent_for_request works no submission in twice, also when the customer
\* sends answers to a session that no longer asks and previews run side by
\* side, as long as leases are kept and results published.
THEOREM WorkedInOnce == Spec => []WorkedOnceKept
  <1>1. IInv => WorkedOnceKept BY DEF IInv, Once, OnceIn, WorkedOnceKept
  <1> QED BY <1>1, SessionIsSound, PTL

\* A preview that publishes only adds to the configuration of the row: what
\* it read, from the draft or the row, was not behind the row.
THEOREM ChangesStay == Spec => EditsStay
  <1>1. ASSUME IInv, [Next]_vars, ~lost', ~crossed', NEW e \in Edits
        PROVE  row'.cfg[e] >= row.cfg[e]
    <2>0. row \in Row /\ row.cfg[e] >= row.cfg[e]
      BY <1>1 DEF IInv, TypeOK, Row, Configurations
    <2>1. CASE row'.cfg = row.cfg
      BY <2>0, <2>1
    <2>2. ASSUME NEW j \in Jobs, PreviewPublishes(j) PROVE row'.cfg[e] >= row.cfg[e]
      <3>1. /\ row'.cfg = job[j].cfg /\ j \in Running /\ job[j].cfg # None
            /\ ~lost /\ ~crossed
        BY <1>1, <2>0, <2>2, Published DEF PreviewPublishes, Ends, IInv, TypeOK, history
      <3> QED BY <1>1, <3>1 DEF IInv, Leased, Keeps
    <2>3. CASE SalesPolls \/ \E p \in Pages : Reload(p) \/ TabPolls(p)
      BY <1>1, <2>1, <2>3, GetEffects DEF Reload, TabPolls, SalesPolls
    <2>4. CASE \E p \in Pages : Answer(p) \/ Feedback(p)
      BY <1>1, <2>1, <2>4, SubmissionEffects DEF Answer, Feedback
    <2>5. CASE \/ QuoteStarts \/ QuoteEnds \/ Restart \/ UNCHANGED vars
               \/ \E p \in Pages : Approve(p)
               \/ \E j \in Jobs : PreviewReads(j) \/ PreviewWithholds(j) \/ PreviewFails(j)
      BY <2>0, <2>1, <2>5 DEF Approve, QuoteStarts, QuoteEnds, Completed, Restart,
                              PreviewReads, PreviewWithholds, PreviewFails, vars, Row
    <2>6. CASE Tick
      BY <2>0, <2>1, <2>6 DEF Tick, Aged, Row
    <2> QED BY <1>1, <2>2, <2>3, <2>4, <2>5, <2>6 DEF Next, PreviewEnds
  <1>2. IInv /\ [Next]_vars =>
          [~lost' /\ ~crossed' => \A e \in Edits : row'.cfg[e] >= row.cfg[e]]_vars
    BY <1>1
  <1> QED BY <1>2, SessionIsSound, PTL DEF Spec, EditsStay

\* No late preview and no poll reopens a session that is quoted; answers do
\* (submit() checks no status), and those are crossed.
THEOREM QuotedStays == Spec => CompletedStays
  <1>1. ASSUME IInv, [Next]_vars, row.status = "completed", ~lost', ~crossed'
        PROVE  row'.status = "completed"
    <2>0. row \in Row
      BY <1>1 DEF IInv, TypeOK, Row
    <2>1. CASE SalesPolls \/ \E p \in Pages : Reload(p) \/ TabPolls(p)
      BY <1>1, <2>1, GetEffects DEF Reload, TabPolls, SalesPolls
    <2>2. CASE \E p \in Pages : Answer(p) \/ Feedback(p) \/ Approve(p)
      BY <1>1, <2>2 DEF Answer, Feedback, Approve
    <2>3. ASSUME NEW j \in Jobs, PreviewReads(j) \/ PreviewEnds(j)
          PROVE  row'.status = "completed"
      <3>1. UNCHANGED <<lost, crossed>> /\ j \in Running
        BY <2>3 DEF PreviewReads, PreviewEnds, PreviewPublishes, PreviewWithholds, PreviewFails,
                    Ends, history
      <3> QED BY <1>1, <2>3, <3>1 DEF PreviewReads, IInv, Leased
    <2>4. CASE QuoteStarts \/ QuoteEnds \/ Tick \/ Restart \/ UNCHANGED vars
      BY <1>1, <2>0, <2>4 DEF QuoteStarts, QuoteEnds, Completed, Tick, Aged, Restart, vars, Row
    <2> QED BY <1>1, <2>1, <2>2, <2>3, <2>4 DEF Next
  <1>2. IInv /\ [Next]_vars =>
          [row.status = "completed" /\ ~lost' /\ ~crossed' => row'.status = "completed"]_vars
    BY <1>1
  <1> QED BY <1>2, SessionIsSound, PTL DEF Spec, CompletedStays
=============================================================================
