------------------------- MODULE RelayWorkers_proofs -------------------------
(***************************************************************************)
(* What the desktop workers do to the queue, for any number of jobs,       *)
(* engines, chats, retries and crashes: who holds a job, which jobs can be *)
(* started, and whether a delivery is the one of its retry generation.     *)
(***************************************************************************)
EXTENDS RelayQueue_proofs

-----------------------------------------------------------------------------
(* The invariant *)

\* A record that has gone through at most one partial retry.
Early(r) == r.generation <= 1

\* The text of its first chat is there, or a retry is asked for; or its failure
\* was cut off between the purge and the status.
Startable(r) == 0 \in r.lines \/ r.retryPending \/ (r.purged /\ ~Submitted(r))

\* What every step leaves true of one record.
RecordOK(r) ==
  /\ r.status \in {"processing", "needs_login"} => r.assigned \in Engines
  /\ r.worker \in {NoEngine, r.assigned}
  /\ r.status = "needs_login" => Submitted(r)
  /\ r.status = "processing" => r.lease # Never \/ Submitted(r)
  /\ r.generation = 0 => ~r.retryPending
  /\ Early(r) /\ r.status = "queued" => Startable(r)
  /\ Early(r) /\ r.status = "queued" /\ Submitted(r) => r.retryPending
  /\ Early(r) /\ r.status = "processing" /\ ~Submitted(r) => Startable(r)

\* What holds of a job that engine e has a chat of, or is submitting.
HeldOK(e, j) ==
  Holds(e, j) => /\ job[j].assigned = e
                 /\ Submitted(job[j])
                 /\ job[j].status # "absent"

SubmittingOK(e, j) ==
  sub[e].job = j =>
    /\ job[j].assigned = e
    /\ job[j].status \notin {"absent", "failed"}
    /\ sub[e].stage \notin {"error", "failing"} => job[j].status # "needs_login"
    /\ phase[e] \in {"claim", "serve"}
    /\ sub[e].stage \in {"retry", "recorded"} => Submitted(job[j])
    /\ sub[e].stage = "retry" => job[j].generation >= 1
    /\ Early(job[j]) /\ job[j].status = "queued"
         => job[j].retryPending /\ sub[e].stage # "retry"

RecordsOK == \A j \in Jobs : RecordOK(job[j])
WorkersOK == \A e \in Engines, j \in Jobs : HeldOK(e, j) /\ SubmittingOK(e, j)
SubIsIdle == \A e \in Engines : sub[e].stage = "idle" <=> sub[e] = Idle

WorkInv == RecordsOK /\ WorkersOK /\ SubIsIdle

-----------------------------------------------------------------------------
(* What a transition leaves of a record *)

\* The engine, the sessions and the retry of a record that only goes on.
SameWork(r, s) ==
  /\ s.assigned = r.assigned /\ s.sessions = r.sessions
  /\ s.generation = r.generation /\ s.retryPending = r.retryPending

LEMMA SettlingWork ==
  ASSUME NEW r \in JobRecord
  PROVE  /\ SameWork(r, Cancelled(r)) /\ Cancelled(r).worker = r.worker
         /\ SameWork(r, AllPurged(r)) /\ AllPurged(r).worker = r.worker
         /\ AllPurged(r).lease = r.lease
         /\ SameWork(r, Failed(r)) /\ Failed(r).worker = r.worker
         /\ SameWork(r, FailedSourceMissing(r)) /\ FailedSourceMissing(r).worker = r.worker
         /\ SameWork(r, Resumed(r)) /\ Resumed(r).worker = NoEngine
         /\ Resumed(r).status = IF Submitted(r) THEN "processing" ELSE "queued"
         /\ Resumed(r).lease = Never
  <1> USE DEF JobRecord, SameWork
  <1>1. SameWork(r, Cancelled(r)) /\ Cancelled(r).worker = r.worker
    BY DEF Cancelled, WithoutSource
  <1>2. /\ SameWork(r, AllPurged(r)) /\ AllPurged(r).worker = r.worker
        /\ AllPurged(r).lease = r.lease
    BY DEF AllPurged, WithoutSource
  <1>3. SameWork(r, Failed(r)) /\ Failed(r).worker = r.worker
    BY DEF Failed
  <1>4. SameWork(r, FailedSourceMissing(r)) /\ FailedSourceMissing(r).worker = r.worker
    BY DEF FailedSourceMissing
  <1>5. /\ SameWork(r, Resumed(r)) /\ Resumed(r).worker = NoEngine
        /\ Resumed(r).status = IF Submitted(r) THEN "processing" ELSE "queued"
        /\ Resumed(r).lease = Never
    BY DEF Resumed
  <1> QED BY <1>1, <1>2, <1>3, <1>4, <1>5

LEMMA MovingWork ==
  ASSUME NEW r \in JobRecord, NEW e \in Engines, now \in Nat
  PROVE  /\ ~Settled(r) =>
              /\ LoggedOut(r).status = IF Submitted(r) THEN "needs_login" ELSE "queued"
              /\ LoggedOut(r).assigned = IF Submitted(r) THEN r.assigned ELSE NoEngine
         /\ LoggedOut(r).sessions = r.sessions
         /\ LoggedOut(r).generation = r.generation
         /\ LoggedOut(r).retryPending = r.retryPending
         /\ SameText(r, LoggedOut(r))
         /\ ~Settled(r) => LoggedOut(r).worker = NoEngine
         /\ Claimed(r, e).assigned = e /\ Claimed(r, e).worker = e
         /\ Claimed(r, e).sessions = r.sessions /\ Claimed(r, e).generation = r.generation
         /\ Claimed(r, e).retryPending = r.retryPending
         /\ Claimed(r, e).lease = now + LeaseTime
         /\ Monitored(r, e).status = r.status /\ SameWork(r, Monitored(r, e))
         /\ Monitored(r, e).worker = e /\ Monitored(r, e).lease = now + LeaseTime
         /\ SameText(r, Monitored(r, e))
         /\ Renewed(r, e).status = r.status /\ SameWork(r, Renewed(r, e))
         /\ Renewed(r, e).worker = r.worker /\ SameText(r, Renewed(r, e))
         /\ Renewed(r, e).lease \in {r.lease, now + LeaseTime}
         /\ r.lease # Never => Renewed(r, e).lease # Never
  <1> USE DEF JobRecord, SameWork, SameText
  <1>1. /\ ~Settled(r) =>
             /\ LoggedOut(r).status = IF Submitted(r) THEN "needs_login" ELSE "queued"
             /\ LoggedOut(r).assigned = IF Submitted(r) THEN r.assigned ELSE NoEngine
             /\ LoggedOut(r).worker = NoEngine
        /\ LoggedOut(r).sessions = r.sessions /\ SameText(r, LoggedOut(r))
        /\ LoggedOut(r).generation = r.generation
        /\ LoggedOut(r).retryPending = r.retryPending
    BY DEF LoggedOut
  <1>2. /\ Claimed(r, e).assigned = e /\ Claimed(r, e).worker = e
        /\ Claimed(r, e).sessions = r.sessions /\ Claimed(r, e).generation = r.generation
        /\ Claimed(r, e).retryPending = r.retryPending
        /\ Claimed(r, e).lease = now + LeaseTime
    BY DEF Claimed
  <1>3. /\ Monitored(r, e).status = r.status /\ SameWork(r, Monitored(r, e))
        /\ Monitored(r, e).worker = e /\ Monitored(r, e).lease = now + LeaseTime
        /\ SameText(r, Monitored(r, e))
    BY DEF Monitored
  <1>4. /\ Renewed(r, e).status = r.status /\ SameWork(r, Renewed(r, e))
        /\ Renewed(r, e).worker = r.worker /\ SameText(r, Renewed(r, e))
        /\ Renewed(r, e).lease \in {r.lease, now + LeaseTime}
        /\ r.lease # Never => Renewed(r, e).lease # Never
    <2>1. now + LeaseTime # Never
      BY StoreAssumption DEF Never
    <2> QED BY <2>1 DEF Renewed
  <1> QED BY <1>1, <1>2, <1>3, <1>4

LEMMA ChatWork ==
  ASSUME NEW r \in JobRecord, NEW c \in Nat
  PROVE  /\ SessionRecorded(r, c).assigned = r.assigned
         /\ SessionRecorded(r, c).worker = r.worker
         /\ SessionRecorded(r, c).lease = r.lease
         /\ SessionRecorded(r, c).generation = r.generation
         /\ SessionRecorded(r, c).retryPending = r.retryPending
         /\ SessionRecorded(r, c).sessions = r.sessions \union {c}
         /\ SameWork(r, SourcePurged(r, c)) /\ SourcePurged(r, c).worker = r.worker
         /\ SourcePurged(r, c).lease = r.lease
         /\ \A v : /\ SameWork(r, [r EXCEPT !.running = v])
                  /\ [r EXCEPT !.running = v].worker = r.worker
                  /\ [r EXCEPT !.running = v].lease = r.lease
         /\ SameWork(r, [r EXCEPT !.sealed = TRUE])
         /\ [r EXCEPT !.sealed = TRUE].worker = r.worker
         /\ [r EXCEPT !.sealed = TRUE].lease = r.lease
         /\ RetryPrompted(r).assigned = r.assigned /\ RetryPrompted(r).worker = r.worker
         /\ RetryPrompted(r).lease = r.lease /\ RetryPrompted(r).sessions = r.sessions
         /\ RetryPrompted(r).generation = r.generation
         /\ RetryPrompted(r).retryPending = FALSE
  <1> USE DEF JobRecord, SameWork
  <1>1. /\ SessionRecorded(r, c).assigned = r.assigned
        /\ SessionRecorded(r, c).worker = r.worker
        /\ SessionRecorded(r, c).lease = r.lease
        /\ SessionRecorded(r, c).generation = r.generation
        /\ SessionRecorded(r, c).retryPending = r.retryPending
        /\ SessionRecorded(r, c).sessions = r.sessions \union {c}
    BY DEF SessionRecorded
  <1>2. /\ SameWork(r, SourcePurged(r, c)) /\ SourcePurged(r, c).worker = r.worker
        /\ SourcePurged(r, c).lease = r.lease
    BY DEF SourcePurged
  <1>3. /\ \A v : /\ SameWork(r, [r EXCEPT !.running = v])
                 /\ [r EXCEPT !.running = v].worker = r.worker
                 /\ [r EXCEPT !.running = v].lease = r.lease
        /\ SameWork(r, [r EXCEPT !.sealed = TRUE])
        /\ [r EXCEPT !.sealed = TRUE].worker = r.worker
        /\ [r EXCEPT !.sealed = TRUE].lease = r.lease
    OBVIOUS
  <1>4. /\ RetryPrompted(r).assigned = r.assigned /\ RetryPrompted(r).worker = r.worker
        /\ RetryPrompted(r).lease = r.lease /\ RetryPrompted(r).sessions = r.sessions
        /\ RetryPrompted(r).generation = r.generation
        /\ RetryPrompted(r).retryPending = FALSE
    BY DEF RetryPrompted
  <1> QED BY <1>1, <1>2, <1>3, <1>4

LEMMA DeliveryWork ==
  ASSUME NEW j \in Jobs, job[j] \in JobRecord
  PROVE  /\ SameWork(job[j], Reconciled(j))
         /\ Reconciled(j).worker = job[j].worker
         /\ Reconciled(j).lines = job[j].lines
         /\ \/ Reconciled(j) = job[j]
            \/ Reconciled(j).status \in Delivered
  <1>1. /\ SameWork(job[j], DeliveryOf(j)) /\ DeliveryOf(j).worker = job[j].worker
        /\ DeliveryOf(j).lines = job[j].lines
        /\ DeliveryOf(j).status \in Delivered
    BY DEF DeliveryOf, JobRecord, SameWork, Delivered
  <1> QED BY <1>1 DEF Reconciled, SameWork
-----------------------------------------------------------------------------
(* Records keep their invariant *)

LEMMA EndedOK ==
  ASSUME NEW r, NEW s, RecordOK(r), SameWork(r, s), s.worker = r.worker,
         s.status \in Terminal
  PROVE  RecordOK(s)
  BY DEF RecordOK, SameWork, Terminal, Delivered, Submitted

LEMMA GoingOnOK ==
  ASSUME NEW r, NEW s, RecordOK(r), SameWork(r, s), s.worker \in {r.worker, r.assigned},
         s.status = r.status, SameText(r, s), s.lease = Never => r.lease = Never
  PROVE  RecordOK(s)
  BY DEF RecordOK, SameWork, SameText, Submitted, Startable, Early

\* A failure is refused by a settled record and ends any other.
LEMMA FailedOK ==
  ASSUME NEW r \in JobRecord, RecordOK(r),
         NEW s \in {Failed(r), FailedSourceMissing(r)}
  PROVE  /\ RecordOK(s) /\ SameWork(r, s)
         /\ s = r \/ s.status = "failed"
  <1>1. SameWork(r, s) /\ s.worker = r.worker
    BY SettlingWork
  <1>2. CASE Settled(r)
    BY <1>1, <1>2 DEF Failed, FailedSourceMissing
  <1>3. CASE ~Settled(r)
    <2>1. s.status = "failed"
      BY <1>3, EndingEffects
    <2> QED BY <1>1, <2>1, EndedOK DEF Terminal
  <1> QED BY <1>2, <1>3

\* The purge before it leaves the record as it is or without text.
LEMMA AllPurgedOK ==
  ASSUME NEW r \in JobRecord, RecordOK(r)
  PROVE  RecordOK(AllPurged(r)) /\ SameWork(r, AllPurged(r)) /\ AllPurged(r).status = r.status
  <1>1. /\ SameWork(r, AllPurged(r)) /\ AllPurged(r).worker = r.worker
        /\ AllPurged(r).lease = r.lease /\ AllPurged(r).status = r.status
        /\ ~Settled(r) => AllPurged(r).purged
    BY SettlingWork, EndingEffects DEF NoText
  <1>2. CASE Settled(r)
    BY <1>1, <1>2 DEF AllPurged
  <1>3. CASE ~Settled(r)
    BY <1>1, <1>3 DEF RecordOK, SameWork, Submitted, Startable, Early
  <1> QED BY <1>1, <1>2, <1>3

LEMMA ReconciledOK ==
  ASSUME TypeInv, NEW j \in Jobs, RecordOK(job[j])
  PROVE  RecordOK(Reconciled(j))
  <1>1. job[j] \in JobRecord
    BY DEF TypeInv, TypeOK
  <1>2. CASE Reconciled(j) = job[j]
    BY <1>2
  <1>3. CASE Reconciled(j).status \in Delivered
    BY <1>1, <1>3, DeliveryWork, EndedOK DEF Terminal
  <1> QED BY <1>1, <1>2, <1>3, DeliveryWork

-----------------------------------------------------------------------------
(* Who holds a job *)

\* The record goes on for those who hold it ...
Steady(r, s) ==
  /\ s.assigned = r.assigned
  /\ Submitted(r) => Submitted(s)
  /\ s.generation >= r.generation
  /\ s.status = "absent" => r.status = "absent"

\* ... and for the one who is submitting it.
Unfailed(r, s) ==
  /\ s.status \in {"failed", "needs_login"} => s.status = r.status
  /\ Early(s) /\ s.status = "queued" =>
       \/ r.status = "queued" /\ s.retryPending = r.retryPending
       \/ s.generation = r.generation + 1 /\ s.retryPending

LEMMA Unchanged == \A r : r.generation \in Nat => Steady(r, r) /\ Unfailed(r, r)
  BY DEF Steady, Unfailed

LEMMA SteadyWork ==
  ASSUME NEW r, NEW s, r.generation \in Nat, SameWork(r, s),
         s.status = "absent" => r.status = "absent"
  PROVE  Steady(r, s)
  BY DEF SameWork, Steady, Submitted

LEMMA WorkersKept ==
  ASSUME TypeInv, TypeInv', WorkersOK, NEW d \in Engines, NEW k \in Jobs,
         Steady(job[k], job'[k]),
         Holds(d, k)' => Holds(d, k),
         sub'[d].job = k => /\ sub'[d] = sub[d]
                            /\ phase'[d] \in {"claim", "serve"}
                            /\ Unfailed(job[k], job'[k])
  PROVE  HeldOK(d, k)' /\ SubmittingOK(d, k)'
  <1>1. /\ job[k].generation \in Nat /\ job'[k].generation \in Nat
        /\ HeldOK(d, k) /\ SubmittingOK(d, k)
    BY FieldTypes DEF TypeInv, TypeOK, WorkersOK
  <1>2. HeldOK(d, k)'
    BY <1>1 DEF HeldOK, Steady
  <1>3. SubmittingOK(d, k)'
    <2>1. SUFFICES ASSUME sub'[d].job = k PROVE SubmittingOK(d, k)'
      BY DEF SubmittingOK
    <2>2. /\ sub'[d] = sub[d] /\ sub[d].job = k /\ Unfailed(job[k], job'[k])
          /\ phase'[d] \in {"claim", "serve"}
      BY <2>1
    <2> QED BY <1>1, <2>2 DEF SubmittingOK, Steady, Unfailed, Early
  <1> QED BY <1>2, <1>3

\* Whoever holds or submits a job is the engine it is assigned to.
LEMMA OneHolder ==
  ASSUME WorkersOK, NEW e \in Engines, NEW j \in Jobs, Holds(e, j) \/ sub[e].job = j
  PROVE  job[j].assigned = e /\ job[j].status # "absent"
  BY DEF WorkersOK, HeldOK, SubmittingOK

\* The worker of a record is the engine of its job.
LEMMA WorkerHolds ==
  ASSUME WorkInv, NEW e \in Engines, NEW j \in Jobs, job[j].worker = e
  PROVE  job[j].assigned = e
  BY StoreAssumption DEF WorkInv, RecordsOK, RecordOK
-----------------------------------------------------------------------------
(* One step: the sales API and the MCP server *)

\* Only the record of job k changes, smoothly; the workers stay where they are.
LEMMA RecordOnly ==
  ASSUME TypeInv, TypeInv', WorkInv, NEW k \in Jobs, NEW s, JobChanged(k, s),
         UNCHANGED workerVars, RecordOK(s), Steady(job[k], s), Unfailed(job[k], s)
  PROVE  WorkInv'
  <1>1. \A j \in Jobs : job'[j] = IF j = k THEN s ELSE job[j]
    BY ChangedRecord DEF TypeInv
  <1>2. RecordsOK'
    BY <1>1 DEF WorkInv, RecordsOK
  <1>3. ASSUME NEW d \in Engines, NEW j \in Jobs PROVE HeldOK(d, j)' /\ SubmittingOK(d, j)'
    <2>1. job[j].generation \in Nat
      BY FieldTypes DEF TypeInv, TypeOK
    <2>2. Steady(job[j], job'[j]) /\ Unfailed(job[j], job'[j])
      BY <1>1, <2>1, Unchanged
    <2>3. sub[d].job = j => phase[d] \in {"claim", "serve"}
      BY DEF WorkInv, WorkersOK, SubmittingOK
    <2>4. Holds(d, j)' => Holds(d, j)
      BY DEF workerVars, Holds
    <2> QED BY <2>2, <2>3, <2>4, WorkersKept DEF WorkInv, workerVars
  <1>4. SubIsIdle'
    BY DEF WorkInv, SubIsIdle, workerVars
  <1> QED BY <1>2, <1>3, <1>4 DEF WorkInv, WorkersOK

LEMMA SalesWork == TypeInv /\ TypeInv' /\ WorkInv /\ Sales => WorkInv'
  <1> SUFFICES ASSUME TypeInv, TypeInv', WorkInv, Sales PROVE WorkInv'
    OBVIOUS
  <1>0. \A j \in Jobs : /\ job[j] \in JobRecord /\ RecordOK(job[j])
                        /\ job[j].generation \in Nat
    BY FieldTypes DEF TypeInv, TypeOK, WorkInv, RecordsOK
  <1>1. ASSUME NEW q \in Requests, NEW k \in Jobs, NEW e \in Engines,
               Create(q, k, e) \/ CreateCrash(q, k, e)
        PROVE  WorkInv'
    <2>1. /\ \A j \in Jobs : job'[j] = IF j = k THEN NewRecord(q, k, e) ELSE job[j]
          /\ job[k].status = "absent" /\ UNCHANGED workerVars
      BY <1>1, ChangedRecord DEF Create, CreateCrash, TypeInv
    <2>2. RecordOK(NewRecord(q, k, e))
      <3>1. k \in Numbered => 0 \in 0..(Convs[k] - 1)
        BY StoreAssumption
      <3> QED BY <3>1 DEF NewRecord, NoRecord, RecordOK, Startable, Submitted
    <2>3. ASSUME NEW d \in Engines, NEW j \in Jobs
          PROVE  HeldOK(d, j)' /\ SubmittingOK(d, j)'
      <3>1. CASE j = k
        <4>1. ~Holds(d, k) /\ sub[d].job # k
          BY <2>1, OneHolder DEF WorkInv
        <4> QED BY <2>1, <3>1, <4>1 DEF HeldOK, SubmittingOK, Holds, workerVars
      <3>2. CASE j # k
        <4>1. job'[j] = job[j] /\ HeldOK(d, j) /\ SubmittingOK(d, j)
          BY <2>1, <3>2 DEF WorkInv, WorkersOK
        <4> QED BY <2>1, <4>1 DEF HeldOK, SubmittingOK, Holds, workerVars
      <3> QED BY <3>1, <3>2
    <2>4. RecordsOK'
      BY <1>0, <2>1, <2>2 DEF RecordsOK
    <2> QED BY <2>1, <2>3, <2>4 DEF WorkInv, WorkersOK, SubIsIdle, workerVars
  <1>2. ASSUME NEW k \in Jobs, SalesPoll(k) PROVE WorkInv'
    <2>1. RecordOK(Reconciled(k)) /\ SameWork(job[k], Reconciled(k))
      BY <1>0, ReconciledOK, DeliveryWork
    <2>2. Steady(job[k], Reconciled(k)) /\ Unfailed(job[k], Reconciled(k))
      BY <1>0, <2>1, DeliveryWork, SteadyWork, Unchanged DEF Delivered, Unfailed
    <2> QED BY <1>2, <2>1, <2>2, RecordOnly DEF SalesPoll
  <1>3. ASSUME NEW k \in Jobs, CancelRead(k) PROVE WorkInv'
    BY <1>3 DEF CancelRead, storeVars, workerVars, WorkInv, RecordsOK, WorkersOK,
                SubIsIdle, HeldOK, SubmittingOK, Holds
  <1>4. ASSUME NEW k \in Jobs, CancelWrite(k) PROVE WorkInv'
    <2>1. /\ SameWork(job[k], Cancelled(job[k])) /\ Cancelled(job[k]).status = "cancelled"
          /\ Cancelled(job[k]).worker = job[k].worker
      BY <1>0, SettlingWork, EndingEffects
    <2>2. RecordOK(Cancelled(job[k]))
      BY <1>0, <2>1, EndedOK DEF Terminal
    <2>3. Steady(job[k], Cancelled(job[k])) /\ Unfailed(job[k], Cancelled(job[k]))
      BY <1>0, <2>1, SteadyWork DEF Unfailed
    <2> QED BY <1>4, <2>2, <2>3, RecordOnly DEF CancelWrite
  <1>5. ASSUME NEW k \in Jobs, RetryPartial(k) PROVE WorkInv'
    <2> DEFINE s == Retried(job[k])
    <2>1. /\ s.status = "queued" /\ s.assigned = job[k].assigned
          /\ s.worker = NoEngine /\ s.sessions = job[k].sessions
          /\ s.generation = job[k].generation + 1 /\ s.retryPending = TRUE
      BY <1>0 DEF Retried, JobRecord
    <2>2. RecordOK(s)
      BY <1>0, <2>1 DEF RecordOK, Startable, Submitted
    <2>3. Steady(job[k], s) /\ Unfailed(job[k], s)
      BY <1>0, <2>1 DEF Steady, Unfailed, Submitted
    <2> QED BY <1>5, <2>2, <2>3, RecordOnly DEF RetryPartial
  <1>6. ASSUME NEW k \in Jobs, PageLeft(k) PROVE WorkInv'
    BY <1>6 DEF PageLeft, storeVars, workerVars, WorkInv, RecordsOK, WorkersOK,
                SubIsIdle, HeldOK, SubmittingOK, Holds
  <1> QED BY <1>1, <1>2, <1>3, <1>4, <1>5, <1>6 DEF Sales

LEMMA McpWork == TypeInv /\ TypeInv' /\ WorkInv /\ Mcp => WorkInv'
  <1> SUFFICES ASSUME TypeInv, TypeInv', WorkInv, Mcp PROVE WorkInv'
    OBVIOUS
  <1>1. ASSUME NEW k \in Jobs, SealPlan(k) PROVE WorkInv'
    <2> DEFINE s == [job[k] EXCEPT !.sealed = TRUE]
    <2>0. job[k] \in JobRecord /\ RecordOK(job[k]) /\ job[k].generation \in Nat
      BY FieldTypes DEF TypeInv, TypeOK, WorkInv, RecordsOK
    <2>1. /\ SameWork(job[k], s) /\ s.worker = job[k].worker /\ s.lease = job[k].lease
          /\ SameText(job[k], s) /\ s.status = job[k].status
      BY <2>0, ChatWork, ChatEffects
    <2> HIDE DEF s
    <2>2. RecordOK(s)
      BY <2>0, <2>1, GoingOnOK DEF SameText
    <2>3. Steady(job[k], s) /\ Unfailed(job[k], s)
      BY <2>0, <2>1, SteadyWork DEF Unfailed, SameWork
    <2> QED BY <1>1, <2>2, <2>3, RecordOnly DEF SealPlan, s
  <1>2. ASSUME NEW k \in Jobs,
               \/ DeliveryGuard(k) \/ DeliveryFails(k)
               \/ \E o \in Outcomes : WriteReceipt(k, o)
        PROVE  WorkInv'
    <2>1. UNCHANGED <<job, workerVars>>
      BY <1>2 DEF DeliveryGuard, DeliveryFails, WriteReceipt, storeVars
    <2> QED BY <2>1 DEF workerVars, WorkInv, RecordsOK, WorkersOK, SubIsIdle, HeldOK,
                        SubmittingOK, Holds
  <1> QED BY <1>1, <1>2 DEF Mcp
-----------------------------------------------------------------------------
(* One step: the worker's loop *)

\* At the top of the loop no submission is in progress.
LEMMA TopIsIdle ==
  ASSUME WorkInv, NEW e \in Engines, phase[e] \in {"resume", "attach"}, NEW j \in Jobs
  PROVE  sub[e].job # j
  BY DEF WorkInv, WorkersOK, SubmittingOK

LEMMA ResumeWork ==
  ASSUME TypeInv, TypeInv', WorkInv, NEW e \in Engines, ResumeLogin(e)
  PROVE  WorkInv'
  <1>0. \A j \in Jobs : /\ job[j] \in JobRecord /\ RecordOK(job[j])
                        /\ job[j].generation \in Nat
    BY FieldTypes DEF TypeInv, TypeOK, WorkInv, RecordsOK
  <1>1. /\ \A j \in Jobs : job'[j] = IF Waiting(e, job[j]) THEN Resumed(job[j]) ELSE job[j]
        /\ phase[e] = "resume" /\ phase' = [phase EXCEPT ![e] = "attach"] /\ sub' = sub
    BY DEF ResumeLogin, Goto
  <1>2. \A d \in Engines, j \in Jobs : Holds(d, j)' => Holds(d, j)
    BY DEF ResumeLogin, Holds, TypeInv, TypeOK
  <1>3. ASSUME NEW j \in Jobs, Waiting(e, job[j])
        PROVE  /\ RecordOK(job'[j]) /\ Steady(job[j], job'[j])
               /\ \A d \in Engines : sub[d].job # j
    <2>1. job[j].status = "needs_login" /\ Submitted(job[j]) /\ job[j].assigned \in Engines
      BY <1>0, <1>3 DEF Waiting, RecordOK
    <2>2. /\ SameWork(job[j], job'[j]) /\ job'[j].worker = NoEngine
          /\ job'[j].status = "processing"
      BY <1>0, <1>1, <1>3, <2>1, SettlingWork
    <2>3. RecordOK(job'[j])
      BY <1>0, <2>1, <2>2 DEF RecordOK, SameWork, Submitted
    <2>4. Steady(job[j], job'[j])
      BY <1>0, <2>2, SteadyWork
    <2>5. job[j].assigned = e
      BY <1>3, <2>1, StoreAssumption DEF Waiting
    <2> QED BY <1>1, <2>3, <2>4, <2>5, OneHolder, TopIsIdle DEF WorkInv
  <1>4. RecordsOK'
    BY <1>0, <1>1, <1>3 DEF RecordsOK
  <1>5. ASSUME NEW d \in Engines, NEW j \in Jobs PROVE HeldOK(d, j)' /\ SubmittingOK(d, j)'
    <2>1. Steady(job[j], job'[j])
      BY <1>0, <1>1, <1>3, Unchanged
    <2>2. ASSUME sub[d].job = j
          PROVE  phase'[d] \in {"claim", "serve"} /\ Unfailed(job[j], job'[j])
      <3>1. d # e /\ ~Waiting(e, job[j])
        BY <1>1, <1>3, <2>2, TopIsIdle
      <3>2. phase[d] \in {"claim", "serve"}
        BY <2>2 DEF WorkInv, WorkersOK, SubmittingOK
      <3> QED BY <1>0, <1>1, <3>1, <3>2, Unchanged DEF TypeInv, TypeOK
    <2> QED BY <1>1, <1>2, <2>1, <2>2, WorkersKept DEF WorkInv
  <1>6. SubIsIdle'
    BY <1>1 DEF WorkInv, SubIsIdle
  <1> QED BY <1>4, <1>5, <1>6 DEF WorkInv, WorkersOK

LEMMA LoggedOutOK ==
  ASSUME now \in Nat, NEW r \in JobRecord, NEW e \in Engines, RecordOK(r), r.assigned = e,
         Submitted(r) \/ r.status \in {"queued", "processing"} \/ Settled(r)
  PROVE  RecordOK(LoggedOut(r))
  <1>1. CASE Settled(r)
    BY <1>1 DEF LoggedOut
  <1>2. CASE ~Settled(r)
    BY <1>2, MovingWork DEF RecordOK, SameText, Submitted, Startable, Early
  <1> QED BY <1>1, <1>2

LEMMA LogoutWork ==
  ASSUME TypeInv, TypeInv', WorkInv, NEW e \in Engines, Logout(e)
  PROVE  WorkInv'
  <1>0. /\ \A j \in Jobs : /\ job[j] \in JobRecord /\ RecordOK(job[j])
                           /\ job[j].generation \in Nat
        /\ now \in Nat
    BY FieldTypes DEF TypeInv, TypeOK, WorkInv, RecordsOK
  <1>1. /\ \A j \in Jobs : job'[j] = IF Holds(e, j) THEN LoggedOut(job[j]) ELSE job[j]
        /\ phase[e] = "resume" /\ phase' = phase /\ sub' = sub
    BY DEF Logout
  <1>2. /\ \A j \in Jobs : ~Holds(e, j)'
        /\ \A d \in Engines, j \in Jobs : Holds(d, j)' => Holds(d, j)
    BY DEF Logout, Holds, TypeInv, TypeOK
  <1>3. RecordsOK'
    <2>1. ASSUME NEW j \in Jobs, Holds(e, j) PROVE RecordOK(LoggedOut(job[j]))
      BY <1>0, <2>1, LoggedOutOK DEF WorkInv, WorkersOK, HeldOK
    <2> QED BY <1>0, <1>1, <2>1 DEF RecordsOK
  <1>4. ASSUME NEW d \in Engines, NEW j \in Jobs PROVE HeldOK(d, j)' /\ SubmittingOK(d, j)'
    <2>1. CASE Holds(e, j)
      <3>1. ~Holds(d, j)'
        BY <1>2, <2>1, OneHolder DEF WorkInv
      <3>2. sub[d].job # j
        BY <1>1, <2>1, OneHolder, TopIsIdle DEF WorkInv
      <3> QED BY <1>1, <3>1, <3>2 DEF HeldOK, SubmittingOK
    <2>2. CASE ~Holds(e, j)
      <3>1. Steady(job[j], job'[j]) /\ Unfailed(job[j], job'[j])
        BY <1>0, <1>1, <2>2, Unchanged
      <3>2. sub[d].job = j => phase[d] \in {"claim", "serve"}
        BY DEF WorkInv, WorkersOK, SubmittingOK
      <3> QED BY <1>1, <1>2, <3>1, <3>2, WorkersKept DEF WorkInv
    <2> QED BY <2>1, <2>2
  <1>5. SubIsIdle'
    BY <1>1 DEF WorkInv, SubIsIdle
  <1> QED BY <1>3, <1>4, <1>5 DEF WorkInv, WorkersOK

LEMMA AttachWork ==
  ASSUME TypeInv, TypeInv', WorkInv, NEW e \in Engines, Attach(e)
  PROVE  WorkInv'
  <1>0. /\ \A j \in Jobs : /\ job[j] \in JobRecord /\ RecordOK(job[j])
                           /\ job[j].generation \in Nat
        /\ now \in Nat
    BY FieldTypes DEF TypeInv, TypeOK, WorkInv, RecordsOK
  <1>1. /\ \A j \in Jobs : job'[j] = IF j \in Unattended(e)
                                     THEN AttachedRecord(e, job[j]) ELSE job[j]
        /\ phase[e] = "attach" /\ phase' = [phase EXCEPT ![e] = "claim"] /\ sub' = sub
    BY DEF Attach, Goto
  <1>2. \A d \in Engines, j \in Jobs :
           Holds(d, j)' => Holds(d, j) \/ (d = e /\ j \in Unattended(e))
    BY DEF Attach, Holds, TypeInv, TypeOK
  <1>3. ASSUME NEW j \in Jobs, j \in Unattended(e)
        PROVE  /\ RecordOK(job'[j]) /\ Steady(job[j], job'[j])
               /\ job'[j].status = "processing" /\ job'[j].assigned = e
               /\ Submitted(job'[j])
    <2> DEFINE m == Monitored(job[j], e)
    <2>1. /\ job[j].status = "processing" /\ job[j].assigned = e /\ Submitted(job[j])
      BY <1>3 DEF Unattended
    <2>2. /\ m \in JobRecord /\ m.status = "processing" /\ SameWork(job[j], m)
          /\ m.worker = e /\ SameText(job[j], m) /\ m.lease = now + LeaseTime
      BY <1>0, <2>1, LeaseTypes, MovingWork
    <2>3. now + LeaseTime # Never
      BY <1>0, StoreAssumption DEF Never
    <2>4. RecordOK(m)
      BY <1>0, <2>1, <2>2, <2>3, GoingOnOK
    <2> HIDE DEF m
    <2>5. /\ RetryPrompted(m).status = "processing" /\ RetryPrompted(m).assigned = m.assigned
          /\ RetryPrompted(m).worker = m.worker /\ RetryPrompted(m).lease = m.lease
          /\ RetryPrompted(m).sessions = m.sessions
          /\ RetryPrompted(m).generation = m.generation
          /\ RetryPrompted(m).retryPending = FALSE
      BY <2>2, ChatWork, WaitingEffects
    <2>6. job'[j] \in {m, RetryPrompted(m)}
      BY <1>1, <1>3 DEF AttachedRecord, m
    <2>7. Submitted(m) /\ m.assigned = e /\ m.generation = job[j].generation
      BY <2>1, <2>2 DEF SameWork, Submitted
    <2>8. Submitted(RetryPrompted(m))
      BY <2>5, <2>7 DEF Submitted
    <2>9. RecordOK(RetryPrompted(m))
      BY <2>4, <2>5, <2>2, <2>7, <2>8 DEF RecordOK
    <2> QED BY <1>0, <2>1, <2>2, <2>4, <2>5, <2>6, <2>7, <2>8, <2>9 DEF Steady
  <1>4. RecordsOK'
    BY <1>0, <1>1, <1>3 DEF RecordsOK
  <1>5. ASSUME NEW d \in Engines, NEW j \in Jobs PROVE HeldOK(d, j)' /\ SubmittingOK(d, j)'
    <2>1. CASE j \in Unattended(e)
      <3>1. sub[d].job # j
        BY <1>1, <2>1, OneHolder, TopIsIdle DEF WorkInv, Unattended
      <3>2. Holds(d, j)' => d = e
        BY <1>2, <2>1, OneHolder DEF WorkInv, Unattended
      <3> QED BY <1>1, <1>3, <2>1, <3>1, <3>2 DEF HeldOK, SubmittingOK
    <2>2. CASE j \notin Unattended(e)
      <3>1. Steady(job[j], job'[j]) /\ Unfailed(job[j], job'[j])
        BY <1>0, <1>1, <2>2, Unchanged
      <3>2. sub[d].job = j => phase'[d] \in {"claim", "serve"}
        BY <1>1 DEF WorkInv, WorkersOK, SubmittingOK, TypeInv, TypeOK
      <3> QED BY <1>1, <1>2, <2>2, <3>1, <3>2, WorkersKept DEF WorkInv
    <2> QED BY <2>1, <2>2
  <1>6. SubIsIdle'
    BY <1>1 DEF WorkInv, SubIsIdle
  <1> QED BY <1>4, <1>5, <1>6 DEF WorkInv, WorkersOK
-----------------------------------------------------------------------------
(* One step: submitting a job *)

\* Engine e works on its job k: nobody else holds it.
LEMMA WorkerStep ==
  ASSUME TypeInv, TypeInv', WorkInv, NEW e \in Engines, NEW k \in Jobs, NEW s,
         JobChanged(k, s), RecordOK(s), job[k].assigned \in {e, NoEngine},
         \A d \in Engines, j \in Jobs : Holds(d, j)' => Holds(d, j) \/ (d = e /\ j = k),
         \A d \in Engines : d # e => sub'[d] = sub[d] /\ phase'[d] = phase[d],
         \A j \in Jobs : j # k => sub'[e].job # j,
         sub'[e].stage = "idle" <=> sub'[e] = Idle,
         HeldOK(e, k)', SubmittingOK(e, k)'
  PROVE  WorkInv'
  <1>1. \A j \in Jobs : job'[j] = IF j = k THEN s ELSE job[j]
    BY ChangedRecord DEF TypeInv
  <1>2. RecordsOK'
    BY <1>1 DEF WorkInv, RecordsOK
  <1>3. ASSUME NEW d \in Engines, NEW j \in Jobs PROVE HeldOK(d, j)' /\ SubmittingOK(d, j)'
    <2>1. CASE j = k /\ d = e
      BY <2>1
    <2>2. CASE j = k /\ d # e
      <3>1. ~Holds(d, k) /\ sub[d].job # k
        BY <2>2, OneHolder, StoreAssumption DEF WorkInv
      <3> QED BY <2>2, <3>1 DEF HeldOK, SubmittingOK
    <2>3. CASE j # k
      <3>1. /\ job'[j] = job[j] /\ HeldOK(d, j) /\ SubmittingOK(d, j)
            /\ Holds(d, j)' => Holds(d, j)
        BY <1>1, <2>3 DEF WorkInv, WorkersOK
      <3>2. sub'[d].job = j => d # e
        BY <2>3
      <3> QED BY <3>1, <3>2 DEF HeldOK, SubmittingOK
    <2> QED BY <2>1, <2>2, <2>3
  <1>4. SubIsIdle'
    BY DEF WorkInv, SubIsIdle
  <1> QED BY <1>2, <1>3, <1>4 DEF WorkInv, WorkersOK

\* The submission of e, and the engines besides e, after a step of e.
LEMMA SubChanged ==
  ASSUME TypeInv, NEW e \in Engines, NEW v, sub' = [sub EXCEPT ![e] = v]
  PROVE  sub'[e] = v /\ \A d \in Engines : d # e => sub'[d] = sub[d]
  BY DEF TypeInv, TypeOK

LEMMA IdleHasNoJob == Idle.stage = "idle" /\ \A j \in Jobs : Idle.job # j
  BY StoreAssumption DEF Idle

LEMMA ClaimWork ==
  ASSUME TypeInv, TypeInv', WorkInv, NEW e \in Engines, ClaimNext(e)
  PROVE  WorkInv'
  <1>1. PICK k \in OldestEligible(e) :
          /\ JobChanged(k, Claimed(job[k], e))
          /\ sub' = [sub EXCEPT ![e] =
                       [job |-> k, conv |-> 0,
                        stage |-> IF job[k].retryPending /\ Submitted(job[k])
                                  THEN "retry" ELSE "claimed"]]
    BY DEF ClaimNext
  <1>2. k \in Jobs /\ Claimable(k) /\ RoutesTo(k, e)
    BY DEF OldestEligible, Eligible
  <1>3. /\ phase[e] = "claim" /\ phase' = phase /\ chats' = chats /\ now \in Nat
        /\ job[k] \in JobRecord /\ RecordOK(job[k]) /\ job[k].generation \in Nat
    BY <1>2, FieldTypes DEF ClaimNext, TypeInv, TypeOK, WorkInv, RecordsOK
  <1> DEFINE s == Claimed(job[k], e)
  <1>4. /\ s.status = "processing" /\ s.assigned = e /\ s.worker = e
        /\ s.sessions = job[k].sessions /\ s.generation = job[k].generation
        /\ s.retryPending = job[k].retryPending /\ s.lease = now + LeaseTime
        /\ s.lines = job[k].lines /\ s.purged = job[k].purged
    BY <1>3, MovingWork, ClaimEffects DEF SameText
  <1>5. now + LeaseTime # Never
    BY <1>3, StoreAssumption DEF Never
  <1>6. job[k].assigned \in {e, NoEngine}
    BY <1>2 DEF RoutesTo
  <1>7. job[k].status \in {"queued", "processing"}
    BY <1>2 DEF Claimable, LeaseExpired
  <1> HIDE DEF s
  <1>8. RecordOK(s)
    BY <1>3, <1>4, <1>5, <1>7 DEF RecordOK, Submitted, Startable, Early
  <1>9. job'[k] = s
    BY <1>1, <1>2, ChangedRecord DEF TypeInv, s
  <1>10. /\ sub'[e].job = k /\ sub'[e].stage \in {"retry", "claimed"}
         /\ sub'[e].stage = "retry" => job[k].retryPending /\ Submitted(job[k])
         /\ \A d \in Engines : d # e => sub'[d] = sub[d]
    <2> DEFINE v == [job |-> k, conv |-> 0,
                     stage |-> IF job[k].retryPending /\ Submitted(job[k])
                               THEN "retry" ELSE "claimed"]
    <2>1. sub' = [sub EXCEPT ![e] = v]
      BY <1>1
    <2>2. /\ v.job = k /\ v.stage \in {"retry", "claimed"}
          /\ v.stage = "retry" => job[k].retryPending /\ Submitted(job[k])
      OBVIOUS
    <2> HIDE DEF v
    <2> QED BY <2>1, <2>2, SubChanged
  <1>11. HeldOK(e, k)'
    BY <1>2, <1>3, <1>4, <1>9 DEF HeldOK, WorkInv, WorkersOK, Holds, Submitted
  <1>12. SubmittingOK(e, k)'
    BY <1>3, <1>4, <1>9, <1>10 DEF SubmittingOK, RecordOK, Submitted
  <1>13. sub'[e].stage = "idle" <=> sub'[e] = Idle
    BY <1>10, IdleHasNoJob
  <1>14. \A d \in Engines, j \in Jobs : Holds(d, j)' => Holds(d, j)
    BY <1>3 DEF Holds
  <1> QED BY <1>1, <1>2, <1>3, <1>6, <1>8, <1>10, <1>11, <1>12, <1>13, <1>14, WorkerStep DEF s

\* The step that ends a submission leaves the job to the chats of e.
LEMMA SubmissionEnds ==
  ASSUME TypeInv, TypeInv', WorkInv, NEW e \in Engines, NEW k \in Jobs, NEW s,
         sub[e].job = k, JobChanged(k, s), RecordOK(s), sub' = [sub EXCEPT ![e] = Idle],
         phase' = phase,
         \A d \in Engines, j \in Jobs : Holds(d, j)' => Holds(d, j) \/ (d = e /\ j = k),
         Holds(e, k)' => s.assigned = e /\ Submitted(s) /\ s.status # "absent"
  PROVE  WorkInv'
  <1>1. job'[k] = s /\ job[k].assigned = e
    BY ChangedRecord, OneHolder DEF TypeInv, WorkInv
  <1>2. sub'[e] = Idle /\ \A d \in Engines : d # e => sub'[d] = sub[d]
    BY SubChanged
  <1>3. HeldOK(e, k)' /\ SubmittingOK(e, k)'
    BY <1>1, <1>2, IdleHasNoJob DEF HeldOK, SubmittingOK
  <1> QED BY <1>1, <1>2, <1>3, IdleHasNoJob, WorkerStep
LEMMA SubmitEndWork ==
  ASSUME TypeInv, TypeInv', WorkInv, NEW e \in Engines,
         \/ SubmitRetry(e) \/ SubmitLoggedOut(e) \/ SubmitMissing(e)
         \/ SubmitPurge(e)
  PROVE  WorkInv'
  <1> DEFINE k == sub[e].job
  <1>0. /\ k \in Jobs /\ now \in Nat /\ sub[e].conv \in Nat
        /\ sub[e].stage # "idle"
    BY DEF SubmitRetry, SubmitLoggedOut, SubmitMissing, SubmitPurge, TypeInv,
           TypeOK, SubOK, Submission, WorkInv, SubIsIdle
  <1> DEFINE r == job[k]
  <1>1. /\ r \in JobRecord /\ RecordOK(r) /\ r.generation \in Nat
        /\ HeldOK(e, k) /\ SubmittingOK(e, k) /\ r.assigned = e
    BY <1>0, FieldTypes, OneHolder DEF TypeInv, TypeOK, WorkInv, RecordsOK, WorkersOK
  <1>s. sub[e].stage \notin {"error", "failing"}
    BY DEF SubmitRetry, SubmitLoggedOut, SubmitMissing, SubmitPurge
  <1>2. /\ r.status \notin {"absent", "failed", "needs_login"}
        /\ sub[e].stage \in {"retry", "recorded"} => Submitted(r)
        /\ sub[e].stage = "retry" /\ Early(r) => r.status # "queued" /\ r.generation >= 1
        /\ Early(r) /\ r.status = "queued" => r.retryPending
    BY <1>1, <1>s DEF SubmittingOK
  <1>3. Holds(e, k) => Submitted(r)
    BY <1>1 DEF HeldOK
  <1>4. sub' = [sub EXCEPT ![e] = Idle] /\ phase' = phase
    BY DEF SubmitRetry, SubmitLoggedOut, SubmitMissing, SubmitPurge
  <1>5. CASE SubmitRetry(e)
    <2> DEFINE s == IF Settled(r) THEN [r EXCEPT !.running = @ \union {0}]
                    ELSE RetryPrompted(r)
    <2>1. JobChanged(k, s) /\ Submitted(r) /\ sub[e].stage = "retry"
      BY <1>2, <1>5 DEF SubmitRetry
    <2>4. RecordOK(s) /\ s.assigned = e /\ Submitted(s) /\ s.status # "absent"
      <3>1. CASE Settled(r)
        <4> DEFINE v == r.running \union {0}
        <4>0. s = [r EXCEPT !.running = v]
          BY <3>1
        <4> HIDE DEF v, s
        <4>1. /\ SameWork(r, s) /\ s.worker = r.worker /\ s.lease = r.lease
              /\ SameText(r, s) /\ s.status = r.status
          <5>1. r \in JobRecord /\ 0 \in Nat
            BY <1>1
          <5> HIDE DEF r
          <5>2. SameWork(r, s) /\ s.worker = r.worker /\ s.lease = r.lease
            BY <4>0, <5>1, ChatWork
          <5>3. SameText(r, s) /\ s.status = r.status
            BY <4>0, <5>1, ChatEffects
          <5> QED BY <5>2, <5>3
        <4> QED BY <1>1, <1>2, <2>1, <4>1, GoingOnOK DEF SameText, SameWork, Submitted
      <3>2. CASE ~Settled(r)
        <4>1. /\ s.status = r.status /\ s.assigned = r.assigned /\ s.worker = r.worker
              /\ s.lease = r.lease /\ s.sessions = r.sessions
              /\ s.generation = r.generation /\ s.retryPending = FALSE
          BY <1>1, <3>2, ChatWork, WaitingEffects
        <4> QED BY <1>1, <1>2, <2>1, <4>1 DEF RecordOK, Submitted, Early
      <3> QED BY <3>1, <3>2
    <2>5. \A d \in Engines, j \in Jobs : Holds(d, j)' => Holds(d, j) \/ (d = e /\ j = k)
      BY <1>5 DEF SubmitRetry, ChatsChanged, Holds, TypeInv, TypeOK
    <2> HIDE DEF s
    <2> QED BY <1>0, <1>4, <2>1, <2>4, <2>5, SubmissionEnds
  <1>6. CASE SubmitLoggedOut(e)
    <2> DEFINE s == LoggedOut(r)
    <2>1. JobChanged(k, s) /\ chats' = chats
      BY <1>6 DEF SubmitLoggedOut
    <2>2. Submitted(r) \/ r.status \in {"queued", "processing"} \/ Settled(r)
      BY <1>1, <1>2, FieldTypes DEF Status, Terminal, Settled
    <2>3. RecordOK(s)
      BY <1>0, <1>1, <2>2, LoggedOutOK
    <2>4. s.sessions = r.sessions
      BY <1>0, <1>1, MovingWork
    <2>5. Submitted(r) => s.assigned = e /\ Submitted(s) /\ s.status # "absent"
      <3>1. CASE Settled(r)
        BY <1>1, <1>2, <3>1 DEF LoggedOut
      <3>2. CASE ~Settled(r)
        BY <1>0, <1>1, <2>4, <3>2, MovingWork DEF Submitted
      <3> QED BY <3>1, <3>2
    <2>6. \A d \in Engines, j \in Jobs : Holds(d, j)' = Holds(d, j)
      BY <2>1 DEF Holds
    <2> HIDE DEF s
    <2> QED BY <1>0, <1>3, <1>4, <2>1, <2>3, <2>5, <2>6, SubmissionEnds
  <1>7. CASE SubmitMissing(e)
    <2> DEFINE s == FailedSourceMissing(r)
    <2>1. JobChanged(k, s)
      BY <1>7 DEF SubmitMissing
    <2>2. RecordOK(s) /\ SameWork(r, s) /\ s.status # "absent"
      BY <1>1, <1>2, FailedOK
    <2>3. \A d \in Engines, j \in Jobs : Holds(d, j)' = Holds(d, j)
      BY <1>7 DEF Holds, SubmitMissing
    <2> HIDE DEF s
    <2> QED BY <1>0, <1>1, <1>3, <1>4, <2>1, <2>2, <2>3, SubmissionEnds DEF SameWork, Submitted
  <1>8. CASE SubmitPurge(e)
    <2> DEFINE c == sub[e].conv
               s == SourcePurged(r, c)
    <2>1. JobChanged(k, s) /\ Submitted(r)
      BY <1>2, <1>8 DEF SubmitPurge
    <2>2. /\ SameWork(r, s) /\ s.worker = r.worker /\ s.lease = r.lease
          /\ s.status = r.status
      <3>1. c \in Nat /\ r \in JobRecord
        BY <1>0, <1>1
      <3> HIDE DEF c, r
      <3>2. SameWork(r, s) /\ s.worker = r.worker /\ s.lease = r.lease
        BY <3>1, ChatWork
      <3>3. s.status = r.status
        BY <3>1, ChatEffects
      <3> QED BY <3>2, <3>3
    <2> HIDE DEF s
    <2>3. RecordOK(s) /\ s.assigned = e /\ Submitted(s) /\ s.status # "absent"
      BY <1>1, <1>2, <2>1, <2>2 DEF RecordOK, SameWork, Submitted, Startable, Early
    <2>4. \A d \in Engines, j \in Jobs : Holds(d, j)' => Holds(d, j) \/ (d = e /\ j = k)
      BY <1>8 DEF SubmitPurge, ChatsChanged, Holds, TypeInv, TypeOK
    <2> QED BY <1>0, <1>4, <2>1, <2>3, <2>4, SubmissionEnds
  <1> QED BY <1>5, <1>6, <1>7, <1>8

\* fail_job: the purge leaves the submission to the status that follows ...
LEMMA FailPurgeWork ==
  ASSUME TypeInv, TypeInv', WorkInv, NEW e \in Engines, FailPurge(e)
  PROVE  WorkInv'
  <1> DEFINE k == sub[e].job
             r == job[k]
             s == AllPurged(r)
  <1>1. /\ sub' = [sub EXCEPT ![e].stage = "failing"] /\ sub[e].stage # "idle"
        /\ JobChanged(k, s) /\ UNCHANGED <<phase, chats>>
    BY DEF FailPurge
  <1>2. k \in Jobs
    BY <1>1 DEF TypeInv, SubOK
  <1>3. /\ sub'[e].job = k /\ sub'[e].stage = "failing"
        /\ \A d \in Engines : d # e => sub'[d] = sub[d]
    BY <1>1 DEF TypeInv, TypeOK, Submission
  <1>4. /\ r \in JobRecord /\ RecordOK(r) /\ HeldOK(e, k) /\ SubmittingOK(e, k)
        /\ r.assigned = e /\ job'[k] = s
    BY <1>1, <1>2, OneHolder, ChangedRecord DEF TypeInv, TypeOK, WorkInv, RecordsOK, WorkersOK
  <1>5. RecordOK(s) /\ SameWork(r, s) /\ s.status = r.status
    BY <1>4, AllPurgedOK
  <1>6. sub[e].stage = "retry" /\ Early(r) => r.status # "queued"
    BY <1>4 DEF SubmittingOK
  <1> HIDE DEF s
  <1>7. HeldOK(e, k)'
    BY <1>1, <1>4, <1>5 DEF HeldOK, Holds, SameWork, Submitted
  <1>8. SubmittingOK(e, k)'
    BY <1>1, <1>3, <1>4, <1>5, <1>6 DEF SubmittingOK, SameWork, Early
  <1>9. sub'[e].stage = "idle" <=> sub'[e] = Idle
    BY <1>3, IdleHasNoJob
  <1>10. \A d \in Engines, j \in Jobs : Holds(d, j)' = Holds(d, j)
    BY <1>1 DEF Holds
  <1> QED BY <1>1, <1>2, <1>3, <1>4, <1>5, <1>7, <1>8, <1>9, <1>10, WorkerStep

\* ... and ends it, with the chat that was polled.
LEMMA FailJobWork ==
  ASSUME TypeInv, TypeInv', WorkInv, NEW e \in Engines, NEW k \in Jobs, sub[e].job = k,
         FailJob(e)
  PROVE  WorkInv'
  <1> DEFINE r == job[k]
             s == Failed(r)
  <1>1. /\ sub' = [sub EXCEPT ![e] = Idle] /\ sub[e].stage # "idle" /\ JobChanged(k, s)
        /\ \/ UNCHANGED <<phase, chats>>
           \/ /\ ChatsChanged(e, k, chats[e][k] \ {sub[e].conv})
              /\ phase' = [phase EXCEPT ![e] = "resume"]
    BY DEF FailJob, Goto
  <1>3. /\ sub'[e] = Idle /\ \A d \in Engines : d # e => sub'[d] = sub[d]
        /\ \A d \in Engines : d # e => phase'[d] = phase[d]
    BY <1>1 DEF TypeInv, TypeOK
  <1>4. /\ r \in JobRecord /\ RecordOK(r) /\ HeldOK(e, k)
        /\ r.assigned = e /\ r.status # "absent" /\ job'[k] = s
    BY <1>1, OneHolder, ChangedRecord DEF TypeInv, TypeOK, WorkInv, RecordsOK, WorkersOK
  <1>5. RecordOK(s) /\ SameWork(r, s) /\ s.status # "absent"
    BY <1>4, FailedOK
  <1>6. \A d \in Engines, j \in Jobs : Holds(d, j)' => Holds(d, j)
    <2>1. chats \in [Engines -> [Jobs -> SUBSET Nat]]
      BY DEF TypeInv, TypeOK
    <2>2. CASE chats' = chats
      BY <2>2 DEF Holds
    <2>3. CASE chats' = [chats EXCEPT ![e][k] = chats[e][k] \ {sub[e].conv}]
      BY <2>1, <2>3 DEF Holds
    <2> QED BY <1>1, <2>2, <2>3 DEF ChatsChanged
  <1> HIDE DEF s
  <1>7. HeldOK(e, k)'
    BY <1>4, <1>5, <1>6 DEF HeldOK, SameWork, Submitted
  <1>8. SubmittingOK(e, k)'
    BY <1>3, IdleHasNoJob DEF SubmittingOK
  <1> QED BY <1>1, <1>3, <1>4, <1>5, <1>6, <1>7, <1>8, IdleHasNoJob, WorkerStep

LEMMA SubmitSendWork ==
  ASSUME TypeInv, TypeInv', WorkInv, NEW e \in Engines, SubmitSend(e)
  PROVE  WorkInv'
  <1>1. /\ sub' = [sub EXCEPT ![e].stage = "sent"] /\ sub[e].stage = "claimed"
        /\ UNCHANGED <<job, phase, chats>>
    BY DEF SubmitSend, storeVars
  <1>2. /\ sub'[e].job = sub[e].job /\ sub'[e].stage = "sent"
        /\ \A d \in Engines : d # e => sub'[d] = sub[d]
    BY <1>1 DEF TypeInv, TypeOK, Submission
  <1>3. \A d \in Engines, j \in Jobs : HeldOK(d, j)' /\ SubmittingOK(d, j)'
    BY <1>1, <1>2 DEF WorkInv, WorkersOK, HeldOK, SubmittingOK, Holds
  <1>4. SubIsIdle'
    BY <1>2, IdleHasNoJob DEF WorkInv, SubIsIdle
  <1> QED BY <1>1, <1>3, <1>4 DEF WorkInv, WorkersOK, RecordsOK

LEMMA SubmitRecordWork ==
  ASSUME TypeInv, TypeInv', WorkInv, NEW e \in Engines, SubmitRecord(e)
  PROVE  WorkInv'
  <1> DEFINE k == sub[e].job
             r == job[k]
             s == SessionRecorded(r, sub[e].conv)
  <1>1. /\ sub' = [sub EXCEPT ![e].stage = "recorded"] /\ sub[e].stage = "sent"
        /\ JobChanged(k, s) /\ UNCHANGED <<phase, chats>>
    BY DEF SubmitRecord
  <1>2. k \in Jobs /\ sub[e].conv \in Nat
    BY <1>1 DEF TypeInv, TypeOK, SubOK, Submission
  <1>3. /\ sub'[e].job = k /\ sub'[e].stage = "recorded"
        /\ \A d \in Engines : d # e => sub'[d] = sub[d]
    BY <1>1 DEF TypeInv, TypeOK, Submission
  <1>4. /\ r \in JobRecord /\ RecordOK(r) /\ HeldOK(e, k) /\ SubmittingOK(e, k)
        /\ r.assigned = e /\ job'[k] = s
    BY <1>1, <1>2, OneHolder, ChangedRecord DEF TypeInv, TypeOK, WorkInv, RecordsOK, WorkersOK
  <1>5. /\ s.assigned = r.assigned /\ s.worker = r.worker /\ s.lease = r.lease
        /\ s.generation = r.generation /\ s.retryPending = r.retryPending
        /\ s.sessions = r.sessions \union {sub[e].conv} /\ s.status = r.status
    <2> DEFINE c == sub[e].conv
    <2>1. r \in JobRecord /\ c \in Nat /\ s = SessionRecorded(r, c)
      BY <1>2, <1>4
    <2> HIDE DEF r, c, s
    <2>2. s.status = r.status
      BY <2>1, ChatEffects
    <2>3. /\ s.assigned = r.assigned /\ s.worker = r.worker /\ s.lease = r.lease
          /\ s.generation = r.generation /\ s.retryPending = r.retryPending
          /\ s.sessions = r.sessions \union {c}
      BY <2>1, ChatWork
    <2> QED BY <2>2, <2>3 DEF c
  <1>6. Submitted(s)
    BY <1>5 DEF Submitted
  <1>7. Early(r) /\ r.status = "queued" => r.retryPending
    BY <1>2, <1>4 DEF SubmittingOK
  <1> HIDE DEF s
  <1>8. RecordOK(s)
    BY <1>4, <1>5, <1>6, <1>7 DEF RecordOK, Startable, Early
  <1>9. HeldOK(e, k)'
    BY <1>1, <1>4, <1>5, <1>6 DEF HeldOK, Holds
  <1>10. SubmittingOK(e, k)'
    BY <1>1, <1>3, <1>4, <1>5, <1>6 DEF SubmittingOK, Early
  <1>11. sub'[e].stage = "idle" <=> sub'[e] = Idle
    BY <1>3, IdleHasNoJob
  <1>12. \A d \in Engines, j \in Jobs : Holds(d, j)' = Holds(d, j)
    BY <1>1 DEF Holds
  <1> QED BY <1>1, <1>2, <1>3, <1>4, <1>8, <1>9, <1>10, <1>11, <1>12, WorkerStep

LEMMA OpenChatWork ==
  ASSUME TypeInv, TypeInv', WorkInv, NEW e \in Engines, NEW k \in Jobs,
         NEW c \in Conversations, OpenChat(e, k, c)
  PROVE  WorkInv'
  <1> DEFINE v == [job |-> k, conv |-> c, stage |-> "sent"]
  <1>1. /\ sub' = [sub EXCEPT ![e] = v] /\ UNCHANGED <<job, phase, chats>>
        /\ phase[e] \in {"claim", "serve"} /\ job[k].status = "processing"
        /\ job[k].worker = e
    BY DEF OpenChat, storeVars
  <1>2. /\ v.job = k /\ v.stage = "sent" /\ sub'[e] = v
        /\ \A d \in Engines : d # e => sub'[d] = sub[d]
    BY <1>1, SubChanged
  <1> HIDE DEF v
  <1>3. job[k].assigned = e
    BY <1>1, WorkerHolds
  <1>4. \A d \in Engines, j \in Jobs : HeldOK(d, j)' /\ SubmittingOK(d, j)'
    BY <1>1, <1>2, <1>3 DEF WorkInv, WorkersOK, HeldOK, SubmittingOK, Holds
  <1>5. SubIsIdle'
    BY <1>2, IdleHasNoJob DEF WorkInv, SubIsIdle
  <1> QED BY <1>1, <1>4, <1>5 DEF WorkInv, WorkersOK, RecordsOK

-----------------------------------------------------------------------------
(* One step: serving the chats *)

\* Engine e, with no submission in progress, writes a job it is assigned to.
LEMMA ServingStep ==
  ASSUME TypeInv, TypeInv', WorkInv, NEW e \in Engines, NEW k \in Jobs, NEW s,
         JobChanged(k, s), RecordOK(s), job[k].assigned = e, sub[e] = Idle, sub' = sub,
         \A d \in Engines : d # e => phase'[d] = phase[d],
         \A d \in Engines, j \in Jobs : Holds(d, j)' => Holds(d, j) \/ (d = e /\ j = k),
         Holds(e, k)' => s.assigned = e /\ Submitted(s) /\ s.status # "absent"
  PROVE  WorkInv'
  <1>1. job'[k] = s
    BY ChangedRecord DEF TypeInv
  <1>2. HeldOK(e, k)' /\ SubmittingOK(e, k)'
    BY <1>1, IdleHasNoJob DEF HeldOK, SubmittingOK
  <1> QED BY <1>2, IdleHasNoJob, WorkerStep

LEMMA SettleWork ==
  ASSUME TypeInv, TypeInv', WorkInv, NEW e \in Engines, NEW k \in Jobs,
         ReopenDeferred(e, k) \/ FailUndelivered(e, k)
  PROVE  WorkInv'
  <1> DEFINE r == job[k]
  <1>0. /\ r.status = "processing" /\ r.worker = e /\ Submitted(r) /\ ~Holds(e, k)
        /\ sub[e] = Idle /\ sub' = sub /\ phase' = phase
    BY DEF ReopenDeferred, FailUndelivered, ReadyToSettle
  <1>1. r \in JobRecord /\ RecordOK(r) /\ r.assigned = e
    BY <1>0, WorkerHolds DEF TypeInv, TypeOK, WorkInv, RecordsOK
  <1>2. CASE ReopenDeferred(e, k)
    <2>1. PICK c \in r.sessions :
            JobChanged(k, [r EXCEPT !.running = {c}]) /\ ChatsChanged(e, k, {c})
      BY <1>2 DEF ReopenDeferred
    <2> DEFINE s == [r EXCEPT !.running = {c}]
    <2>0. JobChanged(k, s)
      BY <2>1
    <2>2. /\ SameWork(r, s) /\ s.worker = r.worker /\ s.lease = r.lease
          /\ SameText(r, s) /\ s.status = r.status
      <3>1. 0 \in Nat OBVIOUS
      <3> HIDE DEF r
      <3>2. SameWork(r, s) /\ s.worker = r.worker /\ s.lease = r.lease
        BY <1>1, <3>1, ChatWork
      <3>3. SameText(r, s) /\ s.status = r.status
        BY <1>1, <3>1, ChatEffects
      <3> QED BY <3>2, <3>3
    <2> HIDE DEF s
    <2>3. RecordOK(s) /\ s.assigned = e /\ Submitted(s) /\ s.status # "absent"
      BY <1>0, <1>1, <2>2, GoingOnOK DEF SameText, SameWork, Submitted
    <2>4. \A d \in Engines, j \in Jobs : Holds(d, j)' => Holds(d, j) \/ (d = e /\ j = k)
      BY <2>1 DEF ChatsChanged, Holds, TypeInv, TypeOK
    <2> QED BY <1>0, <1>1, <2>0, <2>3, <2>4, ServingStep
  <1>3. CASE FailUndelivered(e, k)
    <2>1. PICK s \in {Failed(r), Reconciled(k)} : JobChanged(k, s)
      BY <1>3 DEF FailUndelivered
    <2>2. RecordOK(s)
      BY <1>1, <2>1, FailedOK, ReconciledOK
    <2>3. \A d \in Engines, j \in Jobs : Holds(d, j)' = Holds(d, j)
      BY <1>3 DEF FailUndelivered, Holds
    <2> QED BY <1>0, <1>1, <2>1, <2>2, <2>3, ServingStep
  <1> QED BY <1>2, <1>3

LEMMA PollWork ==
  ASSUME TypeInv, TypeInv', WorkInv, NEW e \in Engines, NEW k \in Jobs,
         PollTerminal(e, k) \/ PollChat(e, k)
  PROVE  WorkInv'
  <1> DEFINE r == job[k]
  <1>0. /\ Holds(e, k) /\ sub[e] = Idle /\ sub' = sub
        /\ phase' = [phase EXCEPT ![e] = "resume"] /\ now \in Nat
    BY DEF PollTerminal, PollChat, Goto, Holds, TypeInv, TypeOK
  <1>1. /\ r \in JobRecord /\ RecordOK(r) /\ r.assigned = e /\ Submitted(r)
        /\ r.status # "absent" /\ Reconciled(k) \in JobRecord
    BY <1>0, ReceiptTypes DEF TypeInv, TypeOK, WorkInv, RecordsOK, WorkersOK, HeldOK
  <1>2. \A d \in Engines : d # e => phase'[d] = phase[d]
    BY <1>0 DEF TypeInv, TypeOK
  <1>3. \A d \in Engines, j \in Jobs : Holds(d, j)' => Holds(d, j) \/ (d = e /\ j = k)
    BY DEF PollTerminal, PollChat, ChatsChanged, Holds, TypeInv, TypeOK
  <1> DEFINE q == Reconciled(k)
  <1>4. /\ RecordOK(q) /\ SameWork(r, q) /\ q.assigned = e /\ Submitted(q)
        /\ q.status # "absent"
    BY <1>1, ReconciledOK, DeliveryWork DEF SameWork, Submitted, Delivered
  <1>5. CASE PollTerminal(e, k)
    BY <1>0, <1>1, <1>2, <1>3, <1>4, <1>5, ServingStep DEF PollTerminal
  <1>6. CASE PollChat(e, k)
    <2> DEFINE n == Renewed(q, e)
    <2>1. /\ n \in JobRecord /\ n.status = q.status /\ SameWork(q, n)
          /\ n.worker = q.worker /\ SameText(q, n)
          /\ q.lease # Never => n.lease # Never
      <3>1. q \in JobRecord BY <1>1
      <3> HIDE DEF q
      <3> QED BY <1>0, <3>1, LeaseTypes, MovingWork
    <2>2. RecordOK(n) /\ n.assigned = e /\ Submitted(n) /\ n.status # "absent"
      <3>1. RecordOK(q) /\ q.assigned = e /\ Submitted(q) /\ q.status # "absent"
        BY <1>4
      <3> HIDE DEF n, q
      <3> QED BY <2>1, <3>1, GoingOnOK DEF SameWork, Submitted
    <2>3. PICK c \in chats[e][k] : \E out \in PollOutcomes(n, c) : JobChanged(k, out.rec)
      BY <1>6 DEF PollChat
    <2>4. PICK out \in PollOutcomes(n, c) : JobChanged(k, out.rec)
      BY <2>3
    <2> HIDE DEF n
    <2>5. out.rec \in {n, [n EXCEPT !.running = @ \ {c}], Failed(n)}
      BY <2>4 DEF PollOutcomes
    <2>6. CASE out.rec = [n EXCEPT !.running = @ \ {c}]
      <3> DEFINE v == n.running \ {c}
                 s == [n EXCEPT !.running = v]
      <3>0. out.rec = s /\ 0 \in Nat
        BY <2>6
      <3> HIDE DEF v
      <3>1. SameWork(n, s) /\ s.worker = n.worker /\ s.lease = n.lease
        BY <2>1, <3>0, ChatWork
      <3>2. SameText(n, s) /\ s.status = n.status
        BY <2>1, <3>0, ChatEffects
      <3> HIDE DEF s
      <3> QED BY <1>0, <1>1, <1>2, <1>3, <2>2, <2>4, <3>0, <3>1, <3>2, GoingOnOK, ServingStep
              DEF SameText, SameWork, Submitted
    <2>7. CASE out.rec = Failed(n)
      <3>1. RecordOK(out.rec) /\ SameWork(n, out.rec) /\ out.rec.status # "absent"
        BY <2>1, <2>2, <2>7, FailedOK
      <3> QED BY <1>0, <1>1, <1>2, <1>3, <2>2, <2>4, <3>1, ServingStep DEF SameWork, Submitted
    <2>8. CASE out.rec = n
      BY <1>0, <1>1, <1>2, <1>3, <2>2, <2>4, <2>8, ServingStep
    <2> QED BY <2>5, <2>6, <2>7, <2>8
  <1> QED BY <1>5, <1>6

LEMMA PollErrorWork ==
  ASSUME TypeInv, TypeInv', WorkInv, NEW e \in Engines, NEW k \in Jobs, PollError(e, k)
  PROVE  WorkInv'
  <1> DEFINE r == job[k]
             q == Reconciled(k)
             n == Renewed(q, e)
  <1>1. PICK c \in chats[e][k] :
          sub' = [sub EXCEPT ![e] = [job |-> k, conv |-> c, stage |-> "error"]]
    BY DEF PollError
  <1>2. /\ Holds(e, k) /\ phase[e] = "serve" /\ UNCHANGED <<phase, chats>> /\ now \in Nat
        /\ JobChanged(k, n) /\ q.status \notin Terminal
    BY <1>1 DEF PollError, Holds, TypeInv, TypeOK
  <1>3. /\ sub'[e].job = k /\ sub'[e].stage = "error"
        /\ \A d \in Engines : d # e => sub'[d] = sub[d]
    <2> DEFINE v == [job |-> k, conv |-> c, stage |-> "error"]
    <2>1. sub' = [sub EXCEPT ![e] = v] /\ v.job = k /\ v.stage = "error"
      BY <1>1
    <2> HIDE DEF v
    <2> QED BY <2>1, SubChanged
  <1>4. /\ r \in JobRecord /\ RecordOK(r) /\ r.assigned = e /\ Submitted(r)
        /\ r.status # "absent" /\ q \in JobRecord
    BY <1>2, ReceiptTypes DEF TypeInv, TypeOK, WorkInv, RecordsOK, WorkersOK, HeldOK
  <1>5. /\ RecordOK(q) /\ SameWork(r, q) /\ q.assigned = e /\ Submitted(q)
        /\ q.status # "absent"
    BY <1>4, ReconciledOK, DeliveryWork DEF SameWork, Submitted, Delivered
  <1> HIDE DEF q
  <1>6. /\ n \in JobRecord /\ n.status = q.status /\ SameWork(q, n)
        /\ n.worker = q.worker /\ SameText(q, n)
        /\ q.lease # Never => n.lease # Never
    BY <1>2, <1>4, LeaseTypes, MovingWork
  <1> HIDE DEF n
  <1>7. /\ RecordOK(n) /\ n.assigned = e /\ Submitted(n)
        /\ n.status \notin {"absent", "failed"}
    BY <1>2, <1>5, <1>6, GoingOnOK DEF SameWork, Submitted, Terminal
  <1>8. job'[k] = n
    BY <1>2, ChangedRecord DEF TypeInv
  <1>9. HeldOK(e, k)'
    BY <1>7, <1>8 DEF HeldOK
  <1>10. SubmittingOK(e, k)'
    BY <1>2, <1>3, <1>7, <1>8 DEF SubmittingOK, RecordOK
  <1>11. \A d \in Engines, j \in Jobs : Holds(d, j)' = Holds(d, j)
    BY <1>2 DEF Holds
  <1>12. sub'[e].stage = "idle" <=> sub'[e] = Idle
    BY <1>3, IdleHasNoJob
  <1> QED BY <1>2, <1>3, <1>4, <1>7, <1>9, <1>10, <1>11, <1>12, WorkerStep

-----------------------------------------------------------------------------
(* The invariant *)

\* Steps that touch no record: chats and submissions are only dropped.
LEMMA DroppingWork ==
  ASSUME TypeInv, TypeInv', WorkInv, UNCHANGED job,
         \A d \in Engines, j \in Jobs : Holds(d, j)' => Holds(d, j),
         \A d \in Engines : \/ sub'[d] = sub[d] /\ (phase'[d] = phase[d] \/ sub[d] = Idle)
                            \/ sub'[d] = Idle
  PROVE  WorkInv'
  <1>1. ASSUME NEW d \in Engines, NEW j \in Jobs PROVE HeldOK(d, j)' /\ SubmittingOK(d, j)'
    <2>1. HeldOK(d, j) /\ SubmittingOK(d, j)
      BY DEF WorkInv, WorkersOK
    <2> QED BY <2>1, IdleHasNoJob DEF HeldOK, SubmittingOK
  <1>2. SubIsIdle'
    BY IdleHasNoJob DEF WorkInv, SubIsIdle
  <1> QED BY <1>1, <1>2 DEF WorkInv, WorkersOK, RecordsOK

LEMMA QuietWork ==
  ASSUME TypeInv, TypeInv', WorkInv,
         \/ \E e \in Engines : ClaimDone(e) \/ ServeNothing(e)
         \/ Environment \/ UNCHANGED vars
  PROVE  WorkInv'
  <1>1. UNCHANGED job
    BY DEF ClaimDone, ServeNothing, Environment, Tick, SignInChanges, HeartbeatExpires,
           Crash, Start, vars, storeVars
  <1>2. \A d \in Engines, j \in Jobs : Holds(d, j)' => Holds(d, j)
    BY DEF ClaimDone, ServeNothing, Environment, Tick, SignInChanges, HeartbeatExpires,
           Crash, Start, vars, storeVars, workerVars, Holds, TypeInv, TypeOK
  <1>3. ASSUME NEW d \in Engines
        PROVE  \/ sub'[d] = sub[d] /\ (phase'[d] = phase[d] \/ sub[d] = Idle)
               \/ sub'[d] = Idle
    <2>1. ASSUME NEW e \in Engines, ClaimDone(e) \/ ServeNothing(e)
          PROVE  sub' = sub /\ (d # e => phase'[d] = phase[d]) /\ sub[e] = Idle
      BY <2>1 DEF ClaimDone, ServeNothing, Goto, TypeInv, TypeOK
    <2>2. ASSUME NEW e \in Engines, Start(e)
          PROVE  sub' = sub /\ (d # e => phase'[d] = phase[d]) /\ sub[e] = Idle
      <3>1. phase[e] = "down"
        BY <2>2 DEF Start
      <3>2. sub[e].stage = "idle"
        BY <3>1 DEF TypeInv, SubOK, WorkInv, WorkersOK, SubmittingOK
      <3> QED BY <2>2, <3>2 DEF Start, Goto, TypeInv, TypeOK, WorkInv, SubIsIdle
    <2>3. ASSUME NEW e \in Engines, Crash(e)
          PROVE  IF d = e THEN sub'[d] = Idle ELSE sub'[d] = sub[d] /\ phase'[d] = phase[d]
      BY <2>3 DEF Crash, Goto, TypeInv, TypeOK
    <2>4. CASE \/ Tick \/ UNCHANGED vars
               \/ \E e \in Engines : SignInChanges(e) \/ HeartbeatExpires(e)
      BY <2>4 DEF Tick, SignInChanges, HeartbeatExpires, vars, workerVars
    <2> QED BY <2>1, <2>2, <2>3, <2>4 DEF Environment
  <1> QED BY <1>1, <1>2, <1>3, DroppingWork

LEMMA NextWork == TypeInv /\ TypeInv' /\ WorkInv /\ [Next]_vars => WorkInv'
  <1> SUFFICES ASSUME TypeInv, TypeInv', WorkInv, [Next]_vars PROVE WorkInv'
    OBVIOUS
  <1>1. CASE Sales BY <1>1, SalesWork
  <1>2. CASE Mcp BY <1>2, McpWork
  <1>3. ASSUME NEW e \in Engines, Worker(e) PROVE WorkInv'
    <2>1. CASE FailJob(e)
      <3>1. sub[e].stage = "failing" /\ sub[e].job \in Jobs
        BY <2>1 DEF FailJob, TypeInv, SubOK
      <3> QED BY <2>1, <3>1, FailJobWork
    <2> QED BY <1>3, <2>1, ResumeWork, LogoutWork, AttachWork, ClaimWork, SubmitEndWork,
               SubmitSendWork, SubmitRecordWork, FailPurgeWork, OpenChatWork, SettleWork,
               PollWork, PollErrorWork, QuietWork DEF Worker
  <1>4. CASE Environment \/ UNCHANGED vars BY <1>4, QuietWork
  <1> QED BY <1>1, <1>2, <1>3, <1>4 DEF Next

LEMMA InitWork == Init => WorkInv
  <1> SUFFICES ASSUME Init PROVE WorkInv
    OBVIOUS
  <1>1. \A j \in Jobs : RecordOK(job[j])
    BY DEF Init, NoRecord, RecordOK
  <1>2. \A e \in Engines, j \in Jobs : ~Holds(e, j) /\ sub[e] = Idle
    BY DEF Init, Holds
  <1>3. \A e \in Engines : sub[e] = Idle
    BY DEF Init
  <1> QED BY <1>1, <1>2, <1>3, IdleHasNoJob
          DEF WorkInv, RecordsOK, WorkersOK, HeldOK, SubmittingOK, SubIsIdle

THEOREM WorkIsSound == Spec => [](TypeInv /\ WorkInv)
  <1>1. TypeInv /\ WorkInv /\ [Next]_vars => (TypeInv /\ WorkInv)'
    BY NextTypes, NextWork
  <1> QED BY <1>1, InitTypes, InitWork, PTL DEF Spec

\* Two engines never work on one job, neither in a chat nor in a submission,
\* however leases run out, hosts stall and workers crash: a job keeps the
\* engine it was first claimed by until it goes back unsubmitted.
THEOREM OneEngineWorks == Spec => []OneEnginePerJob
  <1>1. WorkInv => OneEnginePerJob
    BY OneHolder DEF WorkInv, OneEnginePerJob
  <1> QED BY <1>1, WorkIsSound, PTL

\* A job in processing can always be taken up: by the expiry of its lease or,
\* once it has a saved chat, by the engine it is assigned to.
THEOREM NobodyIsStranded == Spec => []NoStrandedJob
  <1>1. WorkInv => NoStrandedJob
    BY DEF WorkInv, RecordsOK, RecordOK, NoStrandedJob
  <1> QED BY <1>1, WorkIsSound, PTL

-----------------------------------------------------------------------------
(* Which jobs can be started *)

\* While nothing has crashed, only a failure in progress leaves a job without
\* chat and without text.
Failing(e, j) == sub[e].job = j /\ sub[e].stage = "failing"

Emptied(r) ==
  /\ r.purged /\ ~Submitted(r) /\ ~r.retryPending
  /\ r.status \in {"queued", "processing"}

FailureInv ==
  crashes = 0 => \A j \in Jobs : Emptied(job[j]) => \E e \in Engines : Failing(e, j)

LEMMA CrashSteps == ASSUME [Next]_vars PROVE crashes' = crashes \/ crashes' = crashes + 1
  <1>1. CASE Sales
    BY <1>1 DEF Sales, Create, CreateCrash, SalesPoll, PageLeft, CancelRead, CancelWrite,
                RetryPartial
  <1>2. CASE Mcp
    BY <1>2 DEF Mcp, SealPlan, DeliveryGuard, DeliveryFails, WriteReceipt
  <1>3. ASSUME NEW e \in Engines, Worker(e) PROVE crashes' = crashes
    BY <1>3 DEF Worker, ResumeLogin, Logout, Attach, ClaimNext, SubmitRetry, SubmitLoggedOut,
                SubmitMissing, SubmitSend, SubmitRecord, SubmitPurge, FailPurge, FailJob,
                ClaimDone, ServeNothing, ReopenDeferred, FailUndelivered, PollTerminal, PollChat,
                PollError, OpenChat
  <1>4. CASE Environment
    BY <1>4 DEF Environment, Tick, SignInChanges, HeartbeatExpires, Crash, Start
  <1>5. CASE UNCHANGED vars
    BY <1>5 DEF vars
  <1> QED BY <1>1, <1>2, <1>3, <1>4, <1>5 DEF Next

\* A failure in progress goes on until its status is written, or the worker dies.
LEMMA FailureGoesOn ==
  ASSUME TypeInv, WorkInv, [Next]_vars, NEW d \in Engines, sub[d].stage = "failing"
  PROVE  sub'[d] = sub[d] \/ FailJob(d) \/ crashes' = crashes + 1
  <1>0. /\ sub \in [Engines -> Submission]
        /\ sub[d] # Idle
    BY IdleHasNoJob DEF TypeInv, TypeOK
  <1>1. CASE Sales \/ Mcp
    BY <1>1 DEF Sales, Create, CreateCrash, SalesPoll, PageLeft, CancelRead, CancelWrite,
                RetryPartial, Mcp, SealPlan, DeliveryGuard, DeliveryFails, WriteReceipt, workerVars
  <1>2. ASSUME NEW e \in Engines, Worker(e), e # d \/ ~FailJob(d) PROVE sub'[d] = sub[d]
    <2>1. CASE \/ ResumeLogin(e) \/ Logout(e) \/ Attach(e) \/ ClaimDone(e) \/ ServeNothing(e)
               \/ \E j \in Jobs : \/ ReopenDeferred(e, j) \/ FailUndelivered(e, j)
                                  \/ PollTerminal(e, j) \/ PollChat(e, j)
      BY <2>1 DEF ResumeLogin, Logout, Attach, ClaimDone, ServeNothing, ReopenDeferred,
                  FailUndelivered, PollTerminal, PollChat
    <2>2. CASE \/ SubmitRetry(e) \/ SubmitLoggedOut(e) \/ SubmitMissing(e) \/ SubmitSend(e)
               \/ SubmitRecord(e) \/ SubmitPurge(e) \/ FailPurge(e)
      <3>1. sub[e].stage # "failing" /\ \E v : sub' = [sub EXCEPT ![e] = v]
        BY <2>2 DEF SubmitRetry, SubmitLoggedOut, SubmitMissing, SubmitSend, SubmitRecord,
                    SubmitPurge, FailPurge
      <3> QED BY <1>0, <3>1
    <2>3. CASE \/ ClaimNext(e)
               \/ \E j \in Jobs : PollError(e, j) \/ \E c \in Conversations : OpenChat(e, j, c)
      <3>1. sub[e] = Idle /\ \E v : sub' = [sub EXCEPT ![e] = v]
        BY <2>3 DEF ClaimNext, PollError, OpenChat
      <3> QED BY <1>0, <3>1
    <2>4. CASE FailJob(e)
      BY <1>0, <1>2, <2>4 DEF FailJob
    <2> QED BY <1>2, <2>1, <2>2, <2>3, <2>4 DEF Worker
  <1>3. CASE Environment
    BY <1>3 DEF Environment, Tick, SignInChanges, HeartbeatExpires, Crash, Start, workerVars
  <1>4. CASE UNCHANGED vars
    BY <1>4 DEF vars, workerVars
  <1> QED BY <1>1, <1>2, <1>3, <1>4 DEF Next

\* The monitoring claim takes a new lease and leaves the chats.
LEMMA AttachedWork ==
  ASSUME NEW r \in JobRecord, NEW e \in Engines, now \in Nat
  PROVE  /\ AttachedRecord(e, r).lease = now + LeaseTime /\ AttachedRecord(e, r).worker = e
         /\ AttachedRecord(e, r).sessions = r.sessions
         /\ AttachedRecord(e, r).generation = r.generation
  <1> DEFINE m == Monitored(r, e)
  <1>1. /\ m \in JobRecord /\ m.lease = now + LeaseTime /\ m.worker = e
        /\ m.sessions = r.sessions /\ m.generation = r.generation
    BY LeaseTypes, MovingWork DEF SameWork
  <1>2. AttachedRecord(e, r) \in {m, RetryPrompted(m)}
    BY DEF AttachedRecord
  <1> HIDE DEF m
  <1> QED BY <1>1, <1>2, ChatWork, 0 \in Nat

\* A job is emptied only by the purge that begins its failure.
LEMMA EmptiedBefore ==
  ASSUME TypeInv, WorkInv, [Next]_vars, NEW j \in Jobs, Emptied(job'[j]), ~PurgeStep(j)
  PROVE  Emptied(job[j])
  <1> DEFINE r == job[j]
  <1>0. /\ RecordStep(j) /\ r \in JobRecord /\ now \in Nat /\ RecordOK(r)
        /\ Reconciled(j) \in JobRecord
        /\ Delivered = {"completed", "partial"}
        /\ \A e \in Engines : HeldOK(e, j) /\ SubmittingOK(e, j)
    BY RecordSteps, ReceiptTypes DEF TypeInv, TypeOK, Delivered, WorkInv, RecordsOK, WorkersOK
  <1>1. ~SalesStep(j)
    <2>1. \A q, e : ~NewRecord(q, j, e).purged
      BY DEF NewRecord, NoRecord
    <2>2. Retried(r).retryPending
      BY <1>0 DEF Retried, JobRecord
    <2> QED BY <1>0, <2>1, <2>2, EndingEffects DEF SalesStep, Emptied
  <1>2. CASE LoginStep(j)
    <2>1. job'[j] # Resumed(r) \/ r.status # "needs_login"
      BY <1>0, SettlingWork DEF RecordOK, SameWork, Submitted, Emptied
    <2>2. job'[j] = LoggedOut(r)
      BY <1>2, <2>1 DEF LoginStep
    <2>3. PICK e \in Engines : Holds(e, j) \/ (sub[e].stage = "claimed" /\ sub[e].job = j)
      BY <1>2, <2>1 DEF LoginStep
    <2>4. ~Submitted(r) /\ r.purged /\ ~r.retryPending
      BY <1>0, <2>2, MovingWork DEF Emptied, Submitted, SameText
    <2>5. r.status \notin {"absent", "failed", "needs_login"}
      BY <1>0, <2>3, <2>4 DEF HeldOK, SubmittingOK
    <2>6. ~Settled(r)
      BY <1>0, <2>2 DEF LoggedOut, Settled, Emptied
    <2>7. r.status \in Status
      BY <1>0, FieldTypes
    <2> QED BY <1>0, <2>4, <2>5, <2>6, <2>7 DEF Emptied, Status, Terminal, Settled
  <1>3. CASE ClaimStep(j)
    <2>1. PICK e \in Engines :
             \/ Claimable(j) /\ job'[j] = Claimed(r, e)
             \/ Submitted(r) /\ job'[j] = AttachedRecord(e, r)
      BY <1>3 DEF ClaimStep
    <2>2. job'[j] = Claimed(r, e) /\ Claimable(j)
      BY <1>0, <2>1, AttachedWork DEF Emptied, Submitted
    <2> QED BY <1>0, <2>2, MovingWork, ClaimEffects
            DEF Emptied, Submitted, SameText, Claimable, LeaseExpired
  <1>4. CASE ChatStep(j)
    <2>1. CASE job'[j] = [r EXCEPT !.sealed = TRUE]
      BY <1>0, <2>1 DEF Emptied, Submitted, JobRecord
    <2>2. ASSUME NEW v, job'[j] = [r EXCEPT !.running = v] PROVE Emptied(r)
      BY <1>0, <2>2 DEF Emptied, Submitted, JobRecord
    <2>3. ASSUME NEW c \in Nat, job'[j] = SessionRecorded(r, c) PROVE FALSE
      <3>1. job'[j].sessions = r.sessions \union {c}
        BY <1>0, <2>3 DEF SessionRecorded, JobRecord
      <3> QED BY <3>1 DEF Emptied, Submitted
    <2>4. ASSUME NEW c \in Nat, job'[j] = SourcePurged(r, c), NEW e \in Engines,
                 sub[e].stage = "recorded", sub[e].job = j
          PROVE  FALSE
      <3>1. job'[j].sessions = r.sessions
        BY <1>0, <2>4 DEF SourcePurged, JobRecord
      <3>2. Submitted(r)
        BY <1>0, <2>4 DEF SubmittingOK
      <3> QED BY <3>1, <3>2 DEF Emptied, Submitted
    <2>5. ASSUME job'[j] = RetryPrompted(r), NEW e \in Engines,
                 sub[e].stage = "retry", sub[e].job = j
          PROVE  FALSE
      <3>1. job'[j].sessions = r.sessions
        BY <1>0, <2>5 DEF RetryPrompted, JobRecord
      <3>2. Submitted(r)
        BY <1>0, <2>5 DEF SubmittingOK
      <3> QED BY <3>1, <3>2 DEF Emptied, Submitted
    <2> QED BY <1>4, <2>1, <2>2, <2>3, <2>4, <2>5 DEF ChatStep
  <1>5. CASE FailStep(j)
    <2>1. Settled(r)
      BY <1>0, <1>5, EndingEffects DEF FailStep, Emptied
    <2> QED BY <1>5, <2>1 DEF FailStep, Failed, FailedSourceMissing
  <1>6. CASE PollStep(j)
    <2>1. CASE job'[j] = Reconciled(j)
      BY <1>0, <2>1, DeliveryWork DEF Emptied
    <2>2. ASSUME NEW e \in Engines, NEW c \in Nat, c \in chats[e][j],
                 job'[j] \in {out.rec : out \in PollOutcomes(Renewed(Reconciled(j), e), c)}
          PROVE  FALSE
      <3> DEFINE q == Renewed(Reconciled(j), e)
      <3>1. q \in JobRecord /\ q.sessions = r.sessions
        BY <1>0, LeaseTypes, MovingWork, DeliveryWork DEF SameWork
      <3>2. job'[j] \in {q, [q EXCEPT !.running = @ \ {c}], Failed(q)}
        BY <2>2 DEF PollOutcomes
      <3>3. Submitted(r)
        BY <1>0, <2>2 DEF HeldOK, Holds
      <3> HIDE DEF q
      <3>4. job'[j].sessions = q.sessions
        BY <3>1, <3>2 DEF Failed, JobRecord
      <3> QED BY <3>1, <3>3, <3>4 DEF Emptied, Submitted
    <2> QED BY <1>6, <2>1, <2>2 DEF PollStep
  <1>7. CASE job'[j] = r
    BY <1>7
  <1> QED BY <1>0, <1>1, <1>2, <1>3, <1>4, <1>5, <1>6, <1>7 DEF RecordStep

LEMMA FailureInvKept == TypeInv /\ WorkInv /\ FailureInv /\ [Next]_vars => FailureInv'
  <1> SUFFICES ASSUME TypeInv, WorkInv, FailureInv, [Next]_vars, crashes' = 0,
                      NEW j \in Jobs, Emptied(job'[j])
               PROVE  \E e \in Engines : Failing(e, j)'
    BY DEF FailureInv
  <1>1. CASE PurgeStep(j)
    BY <1>1 DEF PurgeStep, Failing
  <1>2. CASE ~PurgeStep(j)
    <2>1. crashes = 0 /\ crashes' # crashes + 1
      BY CrashSteps DEF TypeInv, TypeOK
    <2>2. Emptied(job[j])
      BY <1>2, EmptiedBefore
    <2>3. PICK e \in Engines : Failing(e, j)
      BY <2>1, <2>2 DEF FailureInv
    <2>4. ~FailJob(e)
      <3>1. ASSUME FailJob(e) PROVE job'[j] = Failed(job[j])
        BY <2>3, <3>1, ChangedRecord DEF FailJob, Failing, TypeInv
      <3>2. ~Settled(job[j])
        BY <2>2 DEF Emptied, Settled, Delivered
      <3>3. Failed(job[j]).status = "failed"
        BY <3>2, EndingEffects DEF TypeInv, TypeOK
      <3> QED BY <3>1, <3>3 DEF Emptied
    <2>5. sub'[e] = sub[e]
      BY <2>1, <2>3, <2>4, FailureGoesOn DEF Failing
    <2> QED BY <2>3, <2>5 DEF Failing
  <1> QED BY <1>1, <1>2

\* A queued job still has the text of its first chat, or is queued for a
\* partial retry, up to the first retry and as long as no crash cuts fail_job
\* off between the purge and the status: the emptied job is then in progress,
\* and a job that is queued is not the one that is failing.
THEOREM QueuedJobsStart == Spec => []QueuedIsStartable
  <1>1. TypeInv /\ WorkInv /\ FailureInv => QueuedIsStartable
    <2> SUFFICES ASSUME TypeInv, WorkInv, FailureInv, NEW j \in Jobs, job[j].status = "queued",
                        ~(job[j].generation > 1), 0 \notin job[j].lines, ~job[j].retryPending
                 PROVE  crashes > 0 /\ job[j].purged /\ ~Submitted(job[j])
      BY DEF QueuedIsStartable
    <2>1. job[j].generation \in Nat /\ RecordOK(job[j]) /\ crashes \in Nat
      BY FieldTypes DEF TypeInv, TypeOK, WorkInv, RecordsOK
    <2>2. job[j].purged /\ ~Submitted(job[j])
      BY <2>1 DEF RecordOK, Early, Startable
    <2>3. ASSUME NEW e \in Engines, Failing(e, j) PROVE FALSE
      BY <2>1, <2>3 DEF Failing, WorkInv, WorkersOK, SubmittingOK, Early
    <2> QED BY <2>1, <2>2, <2>3 DEF FailureInv, Emptied
  <1>2. Init => FailureInv
    BY DEF Init, FailureInv, Emptied, NoRecord
  <1> QED BY <1>1, <1>2, FailureInvKept, WorkIsSound, PTL DEF Spec

\* A failed job is taken up again only by its receipt, by a cancel that had
\* read it before, or by a sign-out of the engine that holds another of its
\* chats: whoever submits a job submits one that has not failed.
THEOREM FailureStays == Spec => FailedStaysFailed
  <1>1. ASSUME TypeInv, WorkInv, [Next]_vars, NEW j \in Jobs, job[j].status = "failed",
               job'[j].status # "failed"
        PROVE  \/ job'[j].status \in Delivered /\ FreshReceipt(j)
               \/ job'[j].status = "cancelled" /\ j \in cancelling
               \/ job'[j].status = "needs_login" /\ \E e \in Engines : Holds(e, j)
    <2>0. /\ RecordStep(j) /\ job[j] \in JobRecord /\ now \in Nat
          /\ "failed" \in Terminal /\ ~Settled(job[j])
      BY <1>1, RecordSteps DEF TypeInv, TypeOK, Terminal, Settled, Delivered
    <2>1. CASE SalesStep(j)
      BY <1>1, <2>0, <2>1, EndingEffects DEF SalesStep
    <2>2. CASE LoginStep(j)
      <3>1. PICK e \in Engines : Holds(e, j) \/ (sub[e].stage = "claimed" /\ sub[e].job = j)
        BY <1>1, <2>2 DEF LoginStep
      <3>2. job'[j] = LoggedOut(job[j])
        BY <1>1, <2>2 DEF LoginStep
      <3>3. Holds(e, j) /\ Submitted(job[j])
        BY <1>1, <3>1 DEF WorkInv, WorkersOK, HeldOK, SubmittingOK
      <3>4. LoggedOut(job[j]).status = "needs_login"
        BY <2>0, <3>1, <3>3, MovingWork
      <3> QED BY <3>2, <3>3, <3>4
    <2>3. CASE ClaimStep(j)
      BY <1>1, <2>3 DEF ClaimStep, Claimable, LeaseExpired
    <2>4. CASE ChatStep(j)
      <3>1. job'[j].status = job[j].status
        BY <2>0, <2>4 DEF ChatStep, SessionRecorded, SourcePurged, RetryPrompted, JobRecord
      <3> QED BY <1>1, <3>1
    <2>5. CASE FailStep(j)
      BY <1>1, <2>0, <2>5, EndingEffects DEF FailStep
    <2>6. CASE PollStep(j)
      BY <1>1, <2>0, <2>6, DeliveryEffects DEF PollStep, Terminal
    <2>7. CASE PurgeStep(j)
      BY <1>1, <2>0, <2>7, EndingEffects DEF PurgeStep
    <2> QED BY <1>1, <2>0, <2>1, <2>2, <2>3, <2>4, <2>5, <2>6, <2>7 DEF RecordStep
  <1>2. TypeInv /\ WorkInv /\ [Next]_vars =>
          [\A j \in Jobs :
             job[j].status = "failed" /\ job'[j].status # "failed" =>
               \/ job'[j].status \in Delivered /\ FreshReceipt(j)
               \/ job'[j].status = "cancelled" /\ j \in cancelling
               \/ job'[j].status = "needs_login" /\ \E e \in Engines : Holds(e, j)]_vars
    BY <1>1
  <1> QED BY <1>2, WorkIsSound, PTL DEF Spec, FailedStaysFailed

-----------------------------------------------------------------------------
(* Deliveries and the retry they belong to *)

\* A delivery in flight cannot be the one of a job that is delivered, and a
\* receipt is never younger than the clock.
DeliveryOK(j) ==
  /\ job[j].status \in Delivered =>
       /\ FreshReceipt(j) /\ job[j].result # "none"
       /\ job[j].status = "completed" <=> receipt[j].outcome = "full"
  /\ j \in delivering => ~FreshReceipt(j) /\ job[j].status # "absent"
  /\ receipt[j] # NoReceipt => receipt[j].at <= now
  /\ job[j].retryAt <= now

DeliveryInv == \A j \in Jobs : DeliveryOK(j)

\* The outcome and the retry of a record stay, and it is delivered as before.
SameEnd(r, s) ==
  /\ s.retryAt = r.retryAt /\ s.result = r.result
  /\ s.status \in Delivered \/ r.status \in Delivered => s.status = r.status
  /\ s.status = "absent" => r.status = "absent"

LEMMA TransitionEnds ==
  ASSUME NEW r \in JobRecord, NEW e \in Engines, NEW c \in Nat, now \in Nat
  PROVE  /\ SameEnd(r, r)
         /\ r.status = "needs_login" => SameEnd(r, Resumed(r))
         /\ SameEnd(r, LoggedOut(r))
         /\ r.status \notin Delivered => SameEnd(r, Claimed(r, e))
         /\ SameEnd(r, AttachedRecord(e, r))
         /\ SameEnd(r, [r EXCEPT !.sealed = TRUE])
         /\ SameEnd(r, SessionRecorded(r, c)) /\ SameEnd(r, SourcePurged(r, c))
         /\ \A v : SameEnd(r, [r EXCEPT !.running = v])
         /\ SameEnd(r, RetryPrompted(r))
         /\ SameEnd(r, AllPurged(r)) /\ SameEnd(r, Failed(r))
         /\ SameEnd(r, FailedSourceMissing(r))
         /\ SameEnd(r, Renewed(r, e))
  <1> USE DEF JobRecord, SameEnd
  <1>1. SameEnd(r, r) /\ SameEnd(r, [r EXCEPT !.sealed = TRUE])
        /\ \A v : SameEnd(r, [r EXCEPT !.running = v])
    OBVIOUS
  <1>2. r.status = "needs_login" => SameEnd(r, Resumed(r)) BY DEF Resumed, Delivered
  <1>3. SameEnd(r, LoggedOut(r)) BY DEF LoggedOut, Settled, Delivered
  <1>4. r.status \notin Delivered => SameEnd(r, Claimed(r, e)) BY DEF Claimed, Delivered
  <1>5. SameEnd(r, RetryPrompted(r)) BY DEF RetryPrompted
  <1>6. SameEnd(r, AttachedRecord(e, r))
    BY DEF AttachedRecord, Monitored, RetryPrompted
  <1>7. SameEnd(r, SessionRecorded(r, c)) BY DEF SessionRecorded
  <1>8. SameEnd(r, SourcePurged(r, c)) BY DEF SourcePurged
  <1>9. SameEnd(r, AllPurged(r)) BY DEF AllPurged, WithoutSource
  <1>10. SameEnd(r, Failed(r)) BY DEF Failed, Settled, Delivered
  <1>11. SameEnd(r, FailedSourceMissing(r)) BY DEF FailedSourceMissing, Settled, Delivered
  <1>12. SameEnd(r, Renewed(r, e)) BY DEF Renewed
  <1> QED BY <1>1, <1>2, <1>3, <1>4, <1>5, <1>6, <1>7, <1>8, <1>9, <1>10, <1>11, <1>12

\* The only steps that change a record's outcome or its retry.
EndStep(j) ==
  \/ SameEnd(job[j], job'[j])
  \/ j \in cancelling /\ job'[j] = Cancelled(job[j])
  \/ job[j].status = "partial" /\ job'[j] = Retried(job[j])
  \/ /\ job[j].status = "absent"
     /\ \E q \in Requests, e \in Engines : job'[j] = NewRecord(q, j, e)
  \/ FreshReceipt(j) /\ ~AlreadyDelivered(job[j]) /\ job'[j] = DeliveryOf(j)

LEMMA EndSteps ==
  ASSUME TypeInv, [Next]_vars, NEW j \in Jobs
  PROVE  EndStep(j)
  <1>0. /\ RecordStep(j) /\ job[j] \in JobRecord /\ now \in Nat
        /\ Delivered = {"completed", "partial"} /\ Delivered \subseteq Terminal
    BY RecordSteps DEF TypeInv, TypeOK, Delivered, Terminal
  <1> DEFINE r == job[j]
  <1>1. CASE SalesStep(j)
    BY <1>1 DEF SalesStep, EndStep
  <1>2. CASE LoginStep(j)
    BY <1>0, <1>2 DEF LoginStep, EndStep, SameEnd, LoggedOut, Resumed, Settled, JobRecord
  <1>3. CASE ClaimStep(j)
    <2>1. PICK e \in Engines :
             \/ Claimable(j) /\ job'[j] = Claimed(r, e)
             \/ r.status = "processing" /\ job'[j] = AttachedRecord(e, r)
      BY <1>3 DEF ClaimStep
    <2>2. Claimable(j) => r.status \notin Delivered
      BY <1>0 DEF Claimable, LeaseExpired
    <2> QED BY <1>0, <2>1, <2>2, TransitionEnds, 0 \in Nat DEF EndStep
  <1>4. CASE ChatStep(j)
    <2>1. SameEnd(r, job'[j])
      BY <1>0, <1>4 DEF ChatStep, SameEnd, SessionRecorded, SourcePurged, RetryPrompted, JobRecord
    <2> QED BY <2>1 DEF EndStep
  <1>5. CASE FailStep(j)
    <2>1. SameEnd(r, job'[j])
      BY <1>0, <1>5 DEF FailStep, SameEnd, Failed, FailedSourceMissing, Settled, JobRecord
    <2> QED BY <2>1 DEF EndStep
  <1>6. CASE PollStep(j)
    <2>1. CASE job'[j] = Reconciled(j)
      BY <1>0, <2>1, DeliveryEffects DEF EndStep, SameEnd
    <2>2. ASSUME NEW e \in Engines, NEW c \in Nat, Reconciled(j).status \notin Terminal,
                 job'[j] \in {out.rec : out \in PollOutcomes(Renewed(Reconciled(j), e), c)}
          PROVE  SameEnd(r, job'[j])
      <3> DEFINE q == Renewed(r, e)
      <3>1. Reconciled(j) = r
        BY <1>0, <2>2, DeliveryEffects
      <3>2. q \in JobRecord /\ SameEnd(r, q)
        BY <1>0, LeaseTypes, TransitionEnds, 0 \in Nat
      <3>3. job'[j] \in {q, [q EXCEPT !.running = @ \ {c}], Failed(q)}
        BY <2>2, <3>1 DEF PollOutcomes
      <3> HIDE DEF q
      <3>4. SameEnd(q, job'[j])
        BY <1>0, <3>2, <3>3, TransitionEnds
      <3> QED BY <3>2, <3>4 DEF SameEnd
    <2> QED BY <1>6, <2>1, <2>2 DEF PollStep, EndStep
  <1>7. CASE job'[j] = job[j]
    BY <1>7 DEF EndStep, SameEnd
  <1>8. CASE PurgeStep(j)
    <2>1. SameEnd(r, AllPurged(r))
      BY <1>0, <1>8, TransitionEnds, 0 \in Nat DEF PurgeStep
    <2> QED BY <1>8, <2>1 DEF PurgeStep, EndStep
  <1> QED BY <1>0, <1>1, <1>2, <1>3, <1>4, <1>5, <1>6, <1>7, <1>8 DEF RecordStep

\* What a step does to the receipt, the clock and a delivery in flight.
ReceiptStep(j) ==
  \/ /\ receipt'[j] = receipt[j] /\ now' = now
     /\ j \in delivering' => j \in delivering
  \/ /\ job'[j] = job[j] /\ receipt'[j] = receipt[j]
     /\ now' = now + 1
     /\ j \in delivering' => j \in delivering
  \/ /\ job'[j] = job[j] /\ receipt'[j] = receipt[j] /\ now' = now
     /\ job[j].status = "processing" /\ ~FreshReceipt(j)
  \/ /\ job'[j] = job[j] /\ now' = now
     /\ j \in delivering /\ j \notin delivering'
     /\ \E o \in Outcomes : receipt'[j] = [at |-> now, outcome |-> o]

LEMMA ReceiptSteps ==
  ASSUME TypeInv, [Next]_vars, NEW j \in Jobs
  PROVE  ReceiptStep(j)
  <1> USE DEF ReceiptStep
  <1>1. CASE Sales
    BY <1>1 DEF Sales, Create, CreateCrash, SalesPoll, PageLeft, CancelRead, CancelWrite, RetryPartial,
                storeVars
  <1>2. CASE Mcp
    <2>1. ASSUME NEW k \in Jobs, SealPlan(k) PROVE ReceiptStep(j)
      BY <2>1 DEF SealPlan
    <2>2. ASSUME NEW k \in Jobs, DeliveryGuard(k) \/ DeliveryFails(k) PROVE ReceiptStep(j)
      BY <2>2 DEF DeliveryGuard, DeliveryFails, storeVars
    <2>3. ASSUME NEW k \in Jobs, NEW o \in Outcomes, WriteReceipt(k, o) PROVE ReceiptStep(j)
      BY <2>3 DEF WriteReceipt, TypeInv, TypeOK
    <2> QED BY <1>2, <2>1, <2>2, <2>3 DEF Mcp
  <1>3. ASSUME NEW e \in Engines, Worker(e)
        PROVE  receipt' = receipt /\ now' = now /\ delivering' = delivering
    BY <1>3 DEF Worker, ResumeLogin, Logout, Attach, ClaimNext, SubmitRetry, SubmitLoggedOut,
                SubmitMissing, SubmitSend, SubmitRecord, SubmitPurge, FailPurge, FailJob,
                ClaimDone, ServeNothing, ReopenDeferred, FailUndelivered, PollTerminal, PollChat,
                PollError, OpenChat,
                storeVars
  <1>4. CASE Environment
    BY <1>4 DEF Environment, Tick, SignInChanges, HeartbeatExpires, Crash, Start, storeVars
  <1>5. CASE UNCHANGED vars
    BY <1>5 DEF vars, storeVars
  <1> QED BY <1>1, <1>2, <1>3, <1>4, <1>5 DEF Next

LEMMA DeliveryKept ==
  ASSUME TypeInv, [Next]_vars, NEW j \in Jobs, DeliveryOK(j)
  PROVE  DeliveryOK(j)'
  <1>0. /\ EndStep(j) /\ ReceiptStep(j)
        /\ job[j] \in JobRecord /\ now \in Nat /\ job[j].retryAt \in Nat \union {-1}
        /\ receipt[j] # NoReceipt => receipt[j].at \in Nat
        /\ "none" \notin Outcomes /\ Delivered = {"completed", "partial"}
    BY EndSteps, ReceiptSteps, FieldTypes, StoreAssumption
       DEF TypeInv, TypeOK, Receipt, Delivered, Times, Never
  <1> USE DEF DeliveryOK, FreshReceipt
  <1>1. CASE /\ receipt'[j] = receipt[j] /\ now' = now
             /\ j \in delivering' => j \in delivering
    <2>1. CASE SameEnd(job[j], job'[j])
      BY <1>0, <1>1, <2>1 DEF SameEnd
    <2>2. CASE job'[j] = Cancelled(job[j])
      <3>1. /\ job'[j].status = "cancelled" /\ job'[j].retryAt = job[j].retryAt
        BY <1>0, <2>2 DEF Cancelled, WithoutSource, JobRecord
      <3> QED BY <1>0, <1>1, <3>1
    <2>3. CASE job[j].status = "partial" /\ job'[j] = Retried(job[j])
      <3>1. job'[j].status = "queued" /\ job'[j].retryAt = now
        BY <1>0, <2>3 DEF Retried, JobRecord
      <3>2. j \notin delivering
        BY <1>0, <2>3
      <3> QED BY <1>0, <1>1, <3>1, <3>2
    <2>4. ASSUME job[j].status = "absent", NEW q \in Requests, NEW e \in Engines,
                 job'[j] = NewRecord(q, j, e)
          PROVE  DeliveryOK(j)'
      <3>1. job'[j].status = "queued" /\ job'[j].retryAt = -1
        BY <2>4 DEF NewRecord, NoRecord, Never
      <3> QED BY <1>0, <1>1, <2>4, <3>1
    <2>5. CASE FreshReceipt(j) /\ job'[j] = DeliveryOf(j)
      <3>1. /\ job'[j].status = IF receipt[j].outcome = "full" THEN "completed" ELSE "partial"
            /\ job'[j].result = receipt[j].outcome /\ job'[j].retryAt = job[j].retryAt
        BY <1>0, <2>5 DEF DeliveryOf, JobRecord
      <3>2. receipt[j].outcome \in Outcomes
        BY <2>5 DEF TypeInv, TypeOK, Receipt
      <3>3. job'[j].result # "none"
        BY <1>0, <3>1, <3>2
      <3>4. FreshReceipt(j)' /\ j \notin delivering'
        BY <1>0, <1>1, <2>5, <3>1
      <3> QED BY <1>0, <1>1, <3>1, <3>3, <3>4
    <2> QED BY <1>0, <2>1, <2>2, <2>3, <2>4, <2>5 DEF EndStep
  <1>2. CASE /\ job'[j] = job[j] /\ receipt'[j] = receipt[j] /\ now' = now + 1
             /\ j \in delivering' => j \in delivering
    BY <1>0, <1>2
  <1>3. CASE /\ job'[j] = job[j] /\ receipt'[j] = receipt[j] /\ now' = now
             /\ job[j].status = "processing" /\ ~FreshReceipt(j)
    BY <1>0, <1>3
  <1>4. ASSUME job'[j] = job[j], now' = now, j \in delivering, j \notin delivering',
               NEW o \in Outcomes, receipt'[j] = [at |-> now, outcome |-> o]
        PROVE  DeliveryOK(j)'
    BY <1>0, <1>4
  <1> QED BY <1>0, <1>1, <1>2, <1>3, <1>4 DEF ReceiptStep

THEOREM DeliveriesAreSound == Spec => [](TypeInv /\ DeliveryInv)
  <1>1. Init => DeliveryInv
    BY DEF Init, DeliveryInv, DeliveryOK, NoRecord, Delivered, Never
  <1>2. TypeInv /\ DeliveryInv /\ [Next]_vars => DeliveryInv'
    BY DeliveryKept DEF DeliveryInv
  <1> QED BY <1>1, <1>2, InitTypes, NextTypes, PTL DEF Spec

\* A delivered job shows the receipt of its own retry, whatever receipts,
\* retries and reconciliations come in between.
THEOREM DeliveryIsFresh == Spec => []DeliveredByFreshReceipt
  <1>1. DeliveryInv => DeliveredByFreshReceipt
    BY DEF DeliveryInv, DeliveryOK, DeliveredByFreshReceipt
  <1> QED BY <1>1, DeliveriesAreSound, PTL

\* A delivered record is undone by nothing but a partial retry, or a cancel
\* that had read the job before it was delivered.
THEOREM DeliveryStays == Spec => DeliveryIsKept
  <1>1. ASSUME TypeInv, DeliveryInv, [Next]_vars, NEW j \in Jobs, job[j].status \in Delivered
        PROVE  \/ job'[j].status = job[j].status /\ job'[j].result = job[j].result
               \/ /\ job[j].status = "partial" /\ job'[j].status = "queued"
                  /\ job'[j].generation > job[j].generation
               \/ job'[j].status = "cancelled" /\ j \in cancelling
    <2>0. /\ EndStep(j) /\ job[j] \in JobRecord /\ job[j].generation \in Nat
          /\ AlreadyDelivered(job[j]) /\ job[j].status # "absent"
      BY <1>1, EndSteps, FieldTypes
         DEF TypeInv, TypeOK, DeliveryInv, DeliveryOK, AlreadyDelivered, Delivered
    <2>1. CASE SameEnd(job[j], job'[j])
      BY <1>1, <2>1 DEF SameEnd
    <2>2. CASE job'[j] = Cancelled(job[j]) /\ j \in cancelling
      BY <2>0, <2>2, EndingEffects
    <2>3. CASE job[j].status = "partial" /\ job'[j] = Retried(job[j])
      BY <2>0, <2>3 DEF Retried, JobRecord
    <2> QED BY <2>0, <2>1, <2>2, <2>3 DEF EndStep
  <1>2. TypeInv /\ DeliveryInv /\ [Next]_vars =>
          [\A j \in Jobs :
             job[j].status \in Delivered =>
               \/ job'[j].status = job[j].status /\ job'[j].result = job[j].result
               \/ /\ job[j].status = "partial" /\ job'[j].status = "queued"
                  /\ job'[j].generation > job[j].generation
               \/ job'[j].status = "cancelled" /\ j \in cancelling]_vars
    BY <1>1
  <1> QED BY <1>2, DeliveriesAreSound, PTL DEF Spec, DeliveryIsKept

-----------------------------------------------------------------------------
(* Leases: a live worker loses none of the jobs it has a chat of *)

\* Engine e has job j in hand: it is submitting it, or would renew its lease
\* in this round of its loop.
Attended(e, j) ==
  \/ sub[e].job = j
  \/ /\ Submitted(job[j])
     /\ phase[e] \in {"claim", "serve"} \/ (phase[e] # "down" /\ Holds(e, j))

LeaseOK(e, j) ==
  /\ job[j].status = "processing" /\ job[j].worker = e /\ job[j].lease # Never /\ Attended(e, j)
       => job[j].lease > now
  /\ job[j].status = "processing" /\ job[j].worker = NoEngine => job[j].lease = Never
  /\ phase[e] = "down" => ~Holds(e, j)

\* What is about to be prompted for the first time has not been before.
FirstPrompt(e, j) ==
  sub[e].stage = "claimed" /\ sub[e].job = j => ~Submitted(job[j]) \/ job[j].generation > 1

LeaseInv == \A e \in Engines, j \in Jobs : LeaseOK(e, j) /\ FirstPrompt(e, j)

\* The lease of a record in processing after one step.
LeaseStep(r, s) ==
  s.status = "processing" =>
    \/ r.status = "processing" /\ s.worker = r.worker /\ s.lease = r.lease
    \/ s.lease = Never
    \/ s.lease = now + LeaseTime /\ s.worker \in Engines

LEMMA LeaseSteps ==
  ASSUME TypeInv, [Next]_vars, NEW j \in Jobs
  PROVE  LeaseStep(job[j], job'[j])
  <1>0. /\ RecordStep(j) /\ job[j] \in JobRecord /\ now \in Nat
        /\ Delivered = {"completed", "partial"} /\ "processing" \notin Terminal
    BY RecordSteps DEF TypeInv, TypeOK, Delivered, Terminal
  <1> DEFINE r == job[j]
  <1>1. CASE SalesStep(j)
    <2>1. \A q, e : NewRecord(q, j, e).status = "queued"
      BY DEF NewRecord, NoRecord
    <2> QED BY <1>0, <1>1, <2>1, EndingEffects, WaitingEffects DEF SalesStep, LeaseStep
  <1>2. CASE LoginStep(j)
    BY <1>0, <1>2 DEF LoginStep, LeaseStep, LoggedOut, Resumed, Settled, JobRecord
  <1>3. CASE ClaimStep(j)
    BY <1>0, <1>3, MovingWork, AttachedWork DEF ClaimStep, LeaseStep
  <1>4. CASE ChatStep(j)
    BY <1>0, <1>4 DEF ChatStep, LeaseStep, SessionRecorded, SourcePurged, RetryPrompted, JobRecord
  <1>5. CASE FailStep(j)
    BY <1>0, <1>5 DEF FailStep, LeaseStep, Failed, FailedSourceMissing, Settled, JobRecord
  <1>6. CASE PollStep(j)
    <2>1. CASE job'[j] = Reconciled(j)
      BY <1>0, <2>1, DeliveryEffects DEF LeaseStep
    <2>2. ASSUME NEW e \in Engines, NEW c \in Nat, Reconciled(j).status \notin Terminal,
                 job'[j] \in {out.rec : out \in PollOutcomes(Renewed(Reconciled(j), e), c)}
          PROVE  LeaseStep(r, job'[j])
      <3> DEFINE q == Renewed(r, e)
      <3>1. Reconciled(j) = r
        BY <1>0, <2>2, DeliveryEffects DEF Terminal
      <3>2. q \in JobRecord /\ LeaseStep(r, q) /\ q.status = r.status
        <4>1. q \in JobRecord /\ q.status = r.status /\ q.worker = r.worker
          BY <1>0, LeaseTypes, MovingWork
        <4>2. q = r \/ (q.lease = now + LeaseTime /\ r.worker = e)
          BY <1>0 DEF Renewed, JobRecord
        <4> QED BY <4>1, <4>2 DEF LeaseStep
      <3>3. job'[j] \in {q, [q EXCEPT !.running = @ \ {c}], Failed(q)}
        BY <2>2, <3>1 DEF PollOutcomes
      <3> HIDE DEF q
      <3>4. job'[j].status = "processing" =>
              q.status = "processing" /\ job'[j].worker = q.worker /\ job'[j].lease = q.lease
        BY <3>2, <3>3 DEF Failed, Settled, JobRecord
      <3> QED BY <3>2, <3>4 DEF LeaseStep
    <2> QED BY <1>6, <2>1, <2>2 DEF PollStep
  <1>7. CASE job'[j] = job[j]
    BY <1>7 DEF LeaseStep
  <1>8. CASE PurgeStep(j)
    BY <1>0, <1>8, SettlingWork, EndingEffects DEF PurgeStep, LeaseStep
  <1> QED BY <1>0, <1>1, <1>2, <1>3, <1>4, <1>5, <1>6, <1>7, <1>8 DEF RecordStep

\* The saved chats and the retries of a record after one step: a chat is added
\* by the engine that has just prompted it.
SessionStep(j) ==
  \/ job[j].status = "absent"
  \/ job'[j].sessions = job[j].sessions /\ job'[j].generation >= job[j].generation
  \/ /\ \E e \in Engines : sub[e].stage = "sent" /\ sub[e].job = j
     /\ job'[j].generation = job[j].generation

LEMMA SessionSteps ==
  ASSUME TypeInv, [Next]_vars, NEW j \in Jobs
  PROVE  SessionStep(j)
  <1>0. /\ RecordStep(j) /\ job[j] \in JobRecord /\ now \in Nat /\ job[j].generation \in Nat
    BY RecordSteps, FieldTypes DEF TypeInv, TypeOK
  <1> DEFINE r == job[j]
             Same(q, s) == s.sessions = q.sessions /\ s.generation = q.generation
  <1> HIDE DEF Same
  <1>8. ASSUME Same(r, job'[j]) PROVE SessionStep(j)
    BY <1>0, <1>8 DEF SessionStep, Same
  <1>1. CASE SalesStep(j)
    <2>1. Same(r, Cancelled(r))
      BY <1>0, SettlingWork DEF SameWork, Same
    <2>2. Retried(r).sessions = r.sessions /\ Retried(r).generation = r.generation + 1
      BY <1>0 DEF Retried, JobRecord
    <2>3. job'[j] = Retried(r) => SessionStep(j)
      BY <1>0, <2>2 DEF SessionStep
    <2> QED BY <1>1, <1>8, <2>1, <2>3 DEF SalesStep, SessionStep
  <1>2. CASE LoginStep(j)
    <2>1. Same(r, Resumed(r)) /\ Same(r, LoggedOut(r))
      BY <1>0 DEF Resumed, LoggedOut, JobRecord, Same
    <2> QED BY <1>2, <1>8, <2>1 DEF LoginStep
  <1>3. CASE ClaimStep(j)
    <2>1. \A e \in Engines : Same(r, Claimed(r, e)) /\ Same(r, AttachedRecord(e, r))
      BY <1>0, MovingWork, AttachedWork DEF Same
    <2> QED BY <1>3, <1>8, <2>1 DEF ClaimStep
  <1>4. CASE ChatStep(j)
    <2>1. /\ Same(r, [r EXCEPT !.sealed = TRUE]) /\ Same(r, RetryPrompted(r))
          /\ Same(r, [r EXCEPT !.running = @ \union {0}])
          /\ \A c \in Nat : Same(r, SourcePurged(r, c)) /\ Same(r, [r EXCEPT !.running = {c}])
      BY <1>0 DEF SourcePurged, RetryPrompted, JobRecord, Same
    <2>2. \A c \in Nat : SessionRecorded(r, c).generation = r.generation
      BY <1>0, ChatWork
    <2> QED BY <1>4, <1>8, <2>1, <2>2 DEF ChatStep, SessionStep
  <1>5. CASE FailStep(j)
    <2>1. Same(r, Failed(r)) /\ Same(r, FailedSourceMissing(r))
      BY <1>0, SettlingWork DEF SameWork, Same
    <2> QED BY <1>5, <1>8, <2>1 DEF FailStep
  <1>6. CASE PollStep(j)
    <2>1. CASE job'[j] = Reconciled(j)
      BY <1>0, <1>8, <2>1, DeliveryWork DEF Same, SameWork
    <2>2. ASSUME NEW e \in Engines, NEW c \in Nat, Reconciled(j).status \notin Terminal,
                 job'[j] \in {out.rec : out \in PollOutcomes(Renewed(Reconciled(j), e), c)}
          PROVE  Same(r, job'[j])
      <3> DEFINE q == Renewed(r, e)
      <3>1. Reconciled(j) = r
        BY <1>0, <2>2, DeliveryWork DEF Terminal
      <3>2. q \in JobRecord /\ Same(r, q)
        BY <1>0, LeaseTypes, MovingWork DEF Same, SameWork
      <3>3. job'[j] \in {q, [q EXCEPT !.running = @ \ {c}], Failed(q)}
        BY <2>2, <3>1 DEF PollOutcomes
      <3> HIDE DEF q
      <3>4. Same(q, job'[j])
        BY <3>2, <3>3 DEF Same, Failed, JobRecord
      <3> QED BY <3>2, <3>4 DEF Same
    <2> QED BY <1>6, <1>8, <2>1, <2>2 DEF PollStep
  <1>7. CASE job'[j] = job[j]
    BY <1>7, <1>8 DEF Same
  <1>9. CASE PurgeStep(j)
    BY <1>0, <1>8, <1>9, SettlingWork DEF PurgeStep, Same, SameWork
  <1> QED BY <1>0, <1>1, <1>2, <1>3, <1>4, <1>5, <1>6, <1>7, <1>9 DEF RecordStep

\* Where the loop of a worker and its chats may come from.
LoopStep(d, j) ==
  /\ phase'[d] \in {"claim", "serve"} => phase[d] \in {"claim", "serve"} \/ Attach(d)
  /\ phase'[d] = "down" => phase[d] = "down" \/ \A k \in Jobs : ~Holds(d, k)'
  /\ Holds(d, j)' => \/ Holds(d, j) \/ Attach(d) \/ sub[d].job = j
                     \/ phase[d] \in {"claim", "serve"} /\ Submitted(job[j])

\* What a worker submits next: a job it claims, or one more chat of a job it
\* works on; or the chat whose poll has failed.
SubStep(d, j) ==
  sub'[d].job = j =>
    \/ /\ sub[d].job = j /\ sub'[d].conv = sub[d].conv
       /\ sub'[d].stage = "claimed" => sub[d].stage = "claimed"
       /\ Polling(d) => Polling(d)'
    \/ /\ sub'[d].stage \in {"claimed", "retry"} /\ sub'[d].conv = 0
       /\ Claimable(j) /\ RoutesTo(j, d) /\ job'[j] = Claimed(job[j], d)
       /\ phase[d] = "claim"
       /\ sub'[d].stage = "claimed" => ~(job[j].retryPending /\ Submitted(job[j]))
    \/ /\ sub'[d].stage = "sent" /\ sub'[d].conv \in 1..(Convs[j] - 1)
       /\ phase[d] \in {"claim", "serve"} /\ Submitted(job[j])
    \/ /\ sub'[d].stage = "error" /\ sub'[d].conv \in chats[d][j]
       /\ phase[d] = "serve" /\ Polling(d)'

LEMMA LoopSteps ==
  ASSUME TypeInv, [Next]_vars, NEW d \in Engines, NEW j \in Jobs
  PROVE  LoopStep(d, j) /\ SubStep(d, j)
  <1> USE DEF LoopStep, SubStep, Polling
  <1>1. CASE UNCHANGED workerVars
    BY <1>1 DEF workerVars, Holds
  <1>2. CASE Sales \/ Mcp
    <2>1. UNCHANGED workerVars
      BY <1>2 DEF Sales, Create, CreateCrash, SalesPoll, PageLeft, CancelRead, CancelWrite, RetryPartial,
                  Mcp, SealPlan, DeliveryGuard, DeliveryFails, WriteReceipt, workerVars
    <2> QED BY <1>1, <2>1
  <1>3. ASSUME NEW e \in Engines, Worker(e) PROVE LoopStep(d, j) /\ SubStep(d, j)
    <2>0. phase \in [Engines -> Phase] /\ sub \in [Engines -> Submission]
          /\ chats \in [Engines -> [Jobs -> SUBSET Nat]] /\ NoJob \notin Jobs
      BY StoreAssumption DEF TypeInv, TypeOK
    <2>1. CASE ResumeLogin(e) \/ Logout(e) \/ Attach(e)
      BY <2>0, <2>1 DEF ResumeLogin, Logout, Attach, Goto, Holds
    <2>2. CASE ClaimNext(e)
      <3>1. PICK k \in OldestEligible(e) :
              /\ JobChanged(k, Claimed(job[k], e))
              /\ sub' = [sub EXCEPT ![e] =
                           [job |-> k, conv |-> 0,
                            stage |-> IF job[k].retryPending /\ Submitted(job[k])
                                      THEN "retry" ELSE "claimed"]]
        BY <2>2 DEF ClaimNext
      <3>2. k \in Jobs /\ Claimable(k) /\ RoutesTo(k, e)
        BY DEF OldestEligible, Eligible
      <3>3. phase[e] = "claim" /\ phase' = phase /\ chats' = chats
        BY <2>2 DEF ClaimNext
      <3>4. job'[k] = Claimed(job[k], e)
        BY <3>1, <3>2, ChangedRecord DEF TypeInv
      <3>5. LoopStep(d, j)
        BY <3>3 DEF Holds
      <3>6. CASE d = e /\ j = k
        <4>1. /\ sub'[d].stage = IF job[k].retryPending /\ Submitted(job[k])
                                THEN "retry" ELSE "claimed"
              /\ sub'[d].conv = 0
          BY <2>0, <3>1, <3>6
        <4> QED BY <3>2, <3>3, <3>4, <3>5, <3>6, <4>1
      <3>7. CASE d = e /\ j # k
        <4>1. sub'[d].job = k
          BY <2>0, <3>1, <3>7
        <4> QED BY <3>5, <3>7, <4>1
      <3>8. CASE d # e
        <4>1. sub'[d] = sub[d]
          BY <2>0, <3>1, <3>8
        <4> QED BY <3>3, <3>5, <4>1
      <3> QED BY <3>6, <3>7, <3>8
    <2>3. CASE SubmitRetry(e) \/ SubmitPurge(e)
      <3>1. /\ phase' = phase /\ sub' = [sub EXCEPT ![e] = Idle]
            /\ \E c : chats' = [chats EXCEPT ![e][sub[e].job] = c]
        BY <2>3 DEF SubmitRetry, SubmitPurge, ChatsChanged
      <3>2. Holds(d, j)' => Holds(d, j) \/ sub[d].job = j
        BY <2>0, <3>1 DEF Holds
      <3>3. sub'[d].job = j => sub'[d] = sub[d]
        BY <2>0, <3>1 DEF Idle
      <3> QED BY <3>1, <3>2, <3>3
    <2>4. CASE SubmitLoggedOut(e) \/ SubmitMissing(e)
      BY <2>0, <2>4 DEF SubmitLoggedOut, SubmitMissing, Holds, Idle
    <2>5. CASE SubmitSend(e) \/ SubmitRecord(e) \/ FailPurge(e)
      <3>1. /\ phase' = phase /\ chats' = chats
            /\ sub'[d] = sub[d] \/ /\ sub'[d].job = sub[d].job /\ sub'[d].conv = sub[d].conv
                                   /\ sub'[d].stage # "claimed"
                                   /\ sub[d].stage \in {"error", "failing"} => sub'[d].stage = "failing"
        BY <2>0, <2>5 DEF SubmitSend, SubmitRecord, FailPurge, storeVars, Submission
      <3> QED BY <3>1 DEF Holds, Polling
    <2>10. CASE FailJob(e)
      <3> DEFINE k == sub[e].job
      <3>1. /\ sub' = [sub EXCEPT ![e] = Idle]
            /\ \/ phase' = phase /\ chats' = chats
               \/ /\ phase[e] = "serve" /\ phase' = [phase EXCEPT ![e] = "resume"]
                  /\ chats' = [chats EXCEPT ![e][k] = chats[e][k] \ {sub[e].conv}]
        BY <2>10 DEF FailJob, ChatsChanged, Goto
      <3>2. Holds(d, j)' => Holds(d, j)
        BY <2>0, <3>1 DEF Holds
      <3>3. sub'[d].job = j => sub'[d] = sub[d] /\ d # e
        BY <2>0, <3>1 DEF Idle
      <3>4. /\ phase'[d] \in {"claim", "serve"} => phase[d] \in {"claim", "serve"}
            /\ phase'[d] = "down" => phase[d] = "down"
            /\ d # e => phase'[d] = phase[d]
        BY <2>0, <3>1
      <3> QED BY <3>2, <3>3, <3>4 DEF Polling
    <2>6. CASE ClaimDone(e) \/ ServeNothing(e)
      <3>1. /\ sub' = sub /\ chats' = chats /\ sub[e].stage = "idle"
            /\ \/ phase[e] = "claim" /\ phase' = [phase EXCEPT ![e] = "serve"]
               \/ phase' = [phase EXCEPT ![e] = "resume"]
        BY <2>6 DEF ClaimDone, ServeNothing, Goto, Idle
      <3> QED BY <2>0, <3>1 DEF Holds
    <2>7. ASSUME NEW k \in Jobs, ReopenDeferred(e, k) \/ FailUndelivered(e, k)
          PROVE  LoopStep(d, j) /\ SubStep(d, j)
      <3>1. /\ phase' = phase /\ sub' = sub /\ phase[e] \in {"claim", "serve"}
            /\ Submitted(job[k])
            /\ \/ chats' = chats
               \/ \E c : chats' = [chats EXCEPT ![e][k] = c]
        BY <2>7 DEF ReopenDeferred, FailUndelivered, ReadyToSettle, ChatsChanged
      <3>2. (d = e /\ j = k) \/ (Holds(d, j)' => Holds(d, j))
        BY <2>0, <3>1 DEF Holds
      <3> QED BY <3>1, <3>2
    <2>8. ASSUME NEW k \in Jobs, PollTerminal(e, k) \/ PollChat(e, k)
          PROVE  LoopStep(d, j) /\ SubStep(d, j)
      <3>1. /\ phase[e] = "serve" /\ phase' = [phase EXCEPT ![e] = "resume"] /\ sub' = sub
            /\ sub[e].stage = "idle"
            /\ \E kept \in SUBSET chats[e][k] : chats' = [chats EXCEPT ![e][k] = kept]
        BY <2>8 DEF PollTerminal, PollChat, Goto, ChatsChanged, Idle
      <3>2. Holds(d, j)' => Holds(d, j)
        <4>1. PICK kept \in SUBSET chats[e][k] : chats' = [chats EXCEPT ![e][k] = kept]
          BY <3>1
        <4>2. CASE d = e /\ j = k
          <5>1. chats'[d][j] = kept
            BY <2>0, <4>1, <4>2
          <5> QED BY <4>2, <5>1 DEF Holds
        <4>3. CASE ~(d = e /\ j = k)
          <5>1. chats'[d][j] = chats[d][j]
            BY <2>0, <4>1, <4>3
          <5> QED BY <5>1 DEF Holds
        <4> QED BY <4>2, <4>3
      <3> QED BY <2>0, <3>1, <3>2
    <2>9. ASSUME NEW k \in Jobs, NEW c \in Conversations, OpenChat(e, k, c)
          PROVE  LoopStep(d, j) /\ SubStep(d, j)
      BY <2>0, <2>9 DEF OpenChat, Holds, Polling
    <2>11. ASSUME NEW k \in Jobs, PollError(e, k) PROVE LoopStep(d, j) /\ SubStep(d, j)
      <3>1. PICK c \in chats[e][k] :
              sub' = [sub EXCEPT ![e] = [job |-> k, conv |-> c, stage |-> "error"]]
        BY <2>11 DEF PollError
      <3>2. phase' = phase /\ chats' = chats /\ phase[e] = "serve"
        BY <2>11 DEF PollError
      <3>3. CASE d = e
        <4>1. sub'[d].job = k /\ sub'[d].conv = c /\ sub'[d].stage = "error"
          BY <2>0, <3>1, <3>3
        <4> QED BY <3>1, <3>2, <3>3, <4>1 DEF Holds, Polling
      <3>4. CASE d # e
        <4>1. sub'[d] = sub[d]
          BY <2>0, <3>1, <3>4
        <4> QED BY <3>2, <4>1 DEF Holds, Polling
      <3> QED BY <3>3, <3>4
    <2> QED BY <1>3, <2>1, <2>2, <2>3, <2>4, <2>5, <2>6, <2>7, <2>8, <2>9, <2>10, <2>11
            DEF Worker
  <1>4. CASE Environment
    <2>0. phase \in [Engines -> Phase] /\ sub \in [Engines -> Submission]
          /\ chats \in [Engines -> [Jobs -> SUBSET Nat]] /\ NoJob \notin Jobs
      BY StoreAssumption DEF TypeInv, TypeOK
    <2>1. ASSUME NEW e \in Engines, Crash(e) PROVE LoopStep(d, j) /\ SubStep(d, j)
      BY <2>0, <2>1 DEF Crash, Goto, Holds, Idle
    <2>2. ASSUME NEW e \in Engines, Start(e) PROVE LoopStep(d, j) /\ SubStep(d, j)
      BY <2>0, <2>2 DEF Start, Goto, Holds
    <2>3. ASSUME NEW e \in Engines, SignInChanges(e) \/ HeartbeatExpires(e)
          PROVE  LoopStep(d, j) /\ SubStep(d, j)
      BY <2>3 DEF SignInChanges, HeartbeatExpires, workerVars, Holds
    <2>4. CASE Tick
      BY <1>1, <2>4 DEF Tick
    <2> QED BY <1>4, <2>1, <2>2, <2>3, <2>4 DEF Environment
  <1>5. CASE UNCHANGED vars
    BY <1>1, <1>5 DEF vars
  <1> QED BY <1>2, <1>3, <1>4, <1>5 DEF Next

\* Who has a job in hand after a step had it before, unless its lease is new.
LEMMA AttendedBefore ==
  ASSUME TypeInv, WorkInv, LeaseInv, [Next]_vars, NEW d \in Engines, NEW j \in Jobs,
         job[j].status = "processing", job[j].worker = d, Attended(d, j)',
         job'[j].lease # now + LeaseTime
  PROVE  Attended(d, j)
  <1>1. job[j].assigned = d /\ job[j] \in JobRecord /\ now \in Nat
    BY WorkerHolds DEF TypeInv, TypeOK
  <1>2. LoopStep(d, j) /\ SubStep(d, j) /\ SessionStep(j)
    BY LoopSteps, SessionSteps
  <1>3. ASSUME Attach(d), ~Holds(d, j), Submitted(job[j]) PROVE FALSE
    <2>1. j \in Unattended(d) /\ job'[j] = AttachedRecord(d, job[j])
      BY <1>1, <1>3 DEF Attach, Unattended
    <2>2. job'[j].lease = now + LeaseTime
      BY <1>1, <2>1, AttachedWork
    <2> QED BY <2>2
  <1>4. CASE sub'[d].job = j
    <2>1. job'[j] # Claimed(job[j], d)
      BY <1>1, MovingWork
    <2>2. chats[d][j] # {} => Submitted(job[j])
      BY DEF WorkInv, WorkersOK, HeldOK, Holds
    <2> QED BY <1>2, <1>4, <2>1, <2>2 DEF SubStep, Attended
  <1>5. CASE /\ Submitted(job'[j])
             /\ phase'[d] \in {"claim", "serve"} \/ (phase'[d] # "down" /\ Holds(d, j)')
    <2>1. Submitted(job[j]) \/ sub[d].job = j
      <3>1. ASSUME NEW e \in Engines, sub[e].job = j PROVE e = d
        BY <1>1, <3>1, OneHolder DEF WorkInv
      <3> QED BY <1>2, <1>5, <3>1 DEF SessionStep, Submitted
    <2>2. phase[d] = "down" => ~Holds(d, j)
      BY DEF LeaseInv, LeaseOK
    <2>3. Attach(d) => phase[d] = "attach"
      BY DEF Attach
    <2> QED BY <1>2, <1>3, <1>5, <2>1, <2>2, <2>3 DEF LoopStep, Attended
  <1> QED BY <1>4, <1>5 DEF Attended

\* A job whose lease a worker could lose has none that is about to run out.
LEMMA TickLease ==
  ASSUME ~HostMayStall, TypeInv, WorkInv, LeaseInv, Tick, NEW d \in Engines, NEW j \in Jobs
  PROVE  LeaseOK(d, j)'
  <1>1. job' = job /\ UNCHANGED workerVars /\ now' = now + 1 /\ now \in Nat /\ Timely(d)
    BY DEF Tick, TypeInv, TypeOK
  <1>2. /\ LeaseOK(d, j) /\ (Holds(d, j)' <=> Holds(d, j)) /\ (Attended(d, j)' <=> Attended(d, j))
        /\ phase' = phase
    BY <1>1 DEF LeaseInv, workerVars, Holds, Attended
  <1>3. sub[d].job = j => phase[d] \in {"claim", "serve"}
    BY DEF WorkInv, WorkersOK, SubmittingOK
  <1>4. ASSUME job[j].status = "processing", job[j].worker = d, job[j].lease # Never, Attended(d, j)
        PROVE  job[j].lease > now + 1
    <2>1. Watched(d, j)
      BY <1>3, <1>4 DEF Watched, Attended
    <2> QED BY <1>1, <1>4, <2>1 DEF Timely
  <1> QED BY <1>1, <1>2, <1>4 DEF LeaseOK

LEMMA NowSteps ==
  ASSUME [Next]_vars
  PROVE  now' = now \/ Tick
  <1>1. CASE Sales
    BY <1>1 DEF Sales, Create, CreateCrash, SalesPoll, PageLeft, CancelRead, CancelWrite, RetryPartial,
                storeVars
  <1>2. CASE Mcp
    BY <1>2 DEF Mcp, SealPlan, DeliveryGuard, DeliveryFails, WriteReceipt, storeVars
  <1>3. ASSUME NEW e \in Engines, Worker(e) PROVE now' = now
    BY <1>3 DEF Worker, ResumeLogin, Logout, Attach, ClaimNext, SubmitRetry, SubmitLoggedOut,
                SubmitMissing, SubmitSend, SubmitRecord, SubmitPurge, FailPurge, FailJob,
                ClaimDone, ServeNothing, ReopenDeferred, FailUndelivered, PollTerminal, PollChat,
                PollError, OpenChat,
                storeVars
  <1>4. CASE Environment
    BY <1>4 DEF Environment, SignInChanges, HeartbeatExpires, Crash, Start, storeVars
  <1>5. CASE UNCHANGED vars
    BY <1>5 DEF vars, storeVars
  <1> QED BY <1>1, <1>2, <1>3, <1>4, <1>5 DEF Next

LEMMA LeaseKept ==
  ASSUME ~HostMayStall, TypeInv, TypeInv', WorkInv, LeaseInv, [Next]_vars,
         NEW d \in Engines, NEW j \in Jobs
  PROVE  LeaseOK(d, j)'
  <1>1. CASE Tick
    BY <1>1, TickLease
  <1>2. CASE now' = now
    <2>1. /\ LeaseStep(job[j], job'[j]) /\ LeaseOK(d, j) /\ LoopStep(d, j)
          /\ now \in Nat /\ NoEngine \notin Engines
      BY LeaseSteps, LoopSteps, StoreAssumption DEF LeaseInv, TypeInv, TypeOK
    <2>2. now + LeaseTime > now
      BY <2>1, StoreAssumption
    <2>3. ASSUME job'[j].status = "processing", job'[j].worker = d, job'[j].lease # Never,
                 Attended(d, j)'
          PROVE  job'[j].lease > now'
      <3>1. CASE job'[j].lease = now + LeaseTime
        BY <1>2, <2>2, <3>1
      <3>2. CASE job'[j].lease # now + LeaseTime
        <4>1. /\ job[j].status = "processing" /\ job'[j].worker = job[j].worker
              /\ job'[j].lease = job[j].lease
          BY <2>1, <2>3, <3>2 DEF LeaseStep
        <4>2. Attended(d, j)
          BY <2>3, <3>2, <4>1, AttendedBefore
        <4> QED BY <1>2, <2>1, <2>3, <4>1, <4>2 DEF LeaseOK
      <3> QED BY <3>1, <3>2
    <2>4. job'[j].status = "processing" /\ job'[j].worker = NoEngine => job'[j].lease = Never
      BY <2>1 DEF LeaseStep, LeaseOK
    <2>5. phase'[d] = "down" => ~Holds(d, j)'
      <3>1. phase[d] = "down" => sub[d].job # j
        BY DEF WorkInv, WorkersOK, SubmittingOK
      <3>2. Attach(d) => phase[d] # "down"
        BY DEF Attach
      <3> QED BY <2>1, <3>1, <3>2 DEF LoopStep, LeaseOK
    <2> QED BY <2>3, <2>4, <2>5 DEF LeaseOK
  <1> QED BY <1>1, <1>2, NowSteps

LEMMA FirstPromptKept ==
  ASSUME TypeInv, TypeInv', WorkInv, LeaseInv, [Next]_vars, NEW d \in Engines, NEW j \in Jobs
  PROVE  FirstPrompt(d, j)'
  <1> SUFFICES ASSUME sub'[d].stage = "claimed", sub'[d].job = j, Submitted(job'[j])
               PROVE  job'[j].generation > 1
    BY DEF FirstPrompt
  <1>1. /\ SubStep(d, j) /\ SessionStep(j) /\ RecordOK(job[j]) /\ LeaseOK(d, j)
        /\ FirstPrompt(d, j) /\ now \in Nat /\ job[j] \in JobRecord
        /\ job[j].generation \in Nat /\ job'[j].generation \in Nat
    BY LoopSteps, SessionSteps, FieldTypes DEF WorkInv, RecordsOK, LeaseInv, TypeInv, TypeOK
  <1>2. CASE sub[d].job = j /\ sub[d].stage = "claimed"
    <2>1. job[j].status # "absent" /\ job[j].assigned = d
      BY <1>2, OneHolder DEF WorkInv
    <2>2. ASSUME NEW e \in Engines, sub[e].job = j PROVE e = d
      BY <2>1, <2>2, OneHolder DEF WorkInv
    <2>3. job'[j].sessions = job[j].sessions /\ job'[j].generation >= job[j].generation
      BY <1>1, <1>2, <2>1, <2>2 DEF SessionStep
    <2> QED BY <1>1, <1>2, <2>3 DEF FirstPrompt, Submitted
  <1>3. CASE /\ Claimable(j) /\ RoutesTo(j, d) /\ job'[j] = Claimed(job[j], d)
             /\ phase[d] = "claim" /\ ~(job[j].retryPending /\ Submitted(job[j]))
    <2>1. Submitted(job[j]) /\ job'[j].generation = job[j].generation /\ ~job[j].retryPending
      BY <1>1, <1>3, MovingWork DEF Submitted
    <2>2. CASE job[j].status = "queued"
      BY <1>1, <2>1, <2>2 DEF RecordOK, Early
    <2>3. CASE LeaseExpired(job[j])
      <3>1. job[j].status = "processing" /\ job[j].lease # Never /\ job[j].lease <= now
        BY <2>3 DEF LeaseExpired
      <3>2. job[j].assigned = d
        BY <1>1, <1>3, <3>1, StoreAssumption DEF RecordOK, RoutesTo
      <3>3. job[j].worker = d
        BY <1>1, <3>1, <3>2 DEF RecordOK, LeaseOK
      <3>4. job[j].lease > now
        BY <1>1, <1>3, <2>1, <3>1, <3>3 DEF LeaseOK, Attended
      <3>5. job[j].lease \in Int
        BY <1>1, FieldTypes DEF Times, Never
      <3> QED BY <1>1, <3>1, <3>4, <3>5
    <2> QED BY <1>3, <2>2, <2>3 DEF Claimable
  <1> QED BY <1>1, <1>2, <1>3 DEF SubStep

\* A job with a saved chat is not prompted afresh, for any number of jobs and
\* crashes and one or both engines, provided that a live worker comes round within half a
\* lease: the run makes the same proviso, and without it the claim that
\* follows the expired lease does prompt the job once more.
THEOREM ChatsAreMonitored ==
  ASSUME ~HostMayStall
  PROVE  Spec => []NeverResubmitted
  <1>1. Init => LeaseInv
    BY DEF Init, LeaseInv, LeaseOK, FirstPrompt, NoRecord, Idle, Holds
  <1>2. TypeInv /\ TypeInv' /\ WorkInv /\ LeaseInv /\ [Next]_vars => LeaseInv'
    BY LeaseKept, FirstPromptKept DEF LeaseInv
  <1>3. TypeInv /\ LeaseInv => NeverResubmitted
    BY DEF TypeInv, SubOK, LeaseInv, FirstPrompt, NeverResubmitted
  <1> QED BY <1>1, <1>2, <1>3, WorkIsSound, PTL DEF Spec

-----------------------------------------------------------------------------
(* Jobs of unknown size: one to an engine while none is retried *)

\* A job without numbered components has one chat; what was never retried and
\* is being submitted, or has failed, is held by nobody.
OneChat(e, j) ==
  j \notin Numbered =>
    /\ chats[e][j] \subseteq {0}
    /\ sub[e].job = j => sub[e].conv = 0
    /\ /\ job[j].generation = 0
       /\ (sub[e].job = j /\ ~Polling(e)) \/ job[j].status = "failed"
       => ~Holds(e, j)

\* Only jobs that arrived without components are of unknown size.
Small(j, r) ==
  /\ r.status # "absent" /\ ~r.sealed => j \notin Numbered
  /\ j \notin Numbered => r.sessions \subseteq {0} /\ r.running \subseteq {0}

\* A worker that claims has nothing that waits for a sign-in.
SignedIn(e, j) ==
  job[j].generation = 0 /\ job[j].status = "needs_login" /\ job[j].assigned = e
    => phase[e] \in {"resume", "down"}

\* Job j, of unknown size, holds a slot of e, or will again without a claim.
Unplanned(e, j) ==
  /\ job[j].generation = 0 /\ ~job[j].sealed /\ job[j].assigned = e
  /\ \/ job[j].status = "needs_login"
     \/ job[j].status = "processing" /\ (Submitted(job[j]) \/ ~LeaseExpired(job[j]))

CancellingOK == \A j \in cancelling : job[j].status # "absent"

UnplannedInv ==
  /\ CancellingOK
  /\ \A j \in Jobs : Small(j, job[j])
  /\ \A e \in Engines, j \in Jobs : OneChat(e, j) /\ SignedIn(e, j)
  /\ \A e \in Engines : \A j, k \in Jobs : Unplanned(e, j) /\ Unplanned(e, k) => j = k


-----------------------------------------------------------------------------
(* ... what a step does to the size of a job and to its chats *)

SameSize(r, s) ==
  /\ s.sealed = r.sealed /\ s.sessions = r.sessions /\ s.running \subseteq r.running \union {0}
  /\ s.status = "absent" <=> r.status = "absent"

LEMMA SizesKept ==
  ASSUME NEW j \in Jobs, NEW r, NEW s, Small(j, r), SameSize(r, s)
  PROVE  Small(j, s)
  BY DEF Small, SameSize

LEMMA TransitionSizes ==
  ASSUME NEW r \in JobRecord, r.status # "absent"
  PROVE  /\ SameSize(r, Cancelled(r)) /\ SameSize(r, Retried(r))
         /\ SameSize(r, Resumed(r)) /\ SameSize(r, LoggedOut(r))
         /\ \A e \in Engines : /\ SameSize(r, Claimed(r, e)) /\ SameSize(r, Monitored(r, e))
                              /\ SameSize(r, Renewed(r, e))
         /\ \A c \in Nat : SameSize(r, [r EXCEPT !.running = @ \ {c}])
         /\ SameSize(r, AllPurged(r)) /\ SameSize(r, Failed(r))
         /\ SameSize(r, FailedSourceMissing(r))
  <1> USE DEF JobRecord, SameSize
  <1>1. SameSize(r, Cancelled(r)) /\ SameSize(r, Retried(r))
    BY DEF Cancelled, WithoutSource, Retried
  <1>2. SameSize(r, Resumed(r)) /\ SameSize(r, LoggedOut(r))
    BY DEF Resumed, LoggedOut
  <1>3. \A e \in Engines : /\ SameSize(r, Claimed(r, e)) /\ SameSize(r, Monitored(r, e))
                         /\ SameSize(r, Renewed(r, e))
    BY DEF Claimed, Monitored, Renewed
  <1>4. \A c \in Nat : SameSize(r, [r EXCEPT !.running = @ \ {c}])
    OBVIOUS
  <1>5. SameSize(r, AllPurged(r)) /\ SameSize(r, Failed(r))
    BY DEF AllPurged, Failed, WithoutSource
  <1>6. SameSize(r, FailedSourceMissing(r))
    BY DEF FailedSourceMissing
  <1> QED BY <1>1, <1>2, <1>3, <1>4, <1>5, <1>6

LEMMA ChatSizes ==
  ASSUME NEW r \in JobRecord, NEW c \in Nat
  PROVE  /\ SameSize(r, RetryPrompted(r)) /\ SameSize(r, SourcePurged(r, c))
         /\ SameSize(r, [r EXCEPT !.running = @ \union {0}])
         /\ SessionRecorded(r, c).running = r.running \union {c}
         /\ SessionRecorded(r, c).sealed = r.sealed
  BY DEF JobRecord, SameSize, RetryPrompted, SourcePurged, SessionRecorded

LEMMA SizeKept ==
  ASSUME TypeInv, WorkInv, CancellingOK, [Next]_vars, NEW j \in Jobs, Small(j, job[j]),
         \A e \in Engines : OneChat(e, j)
  PROVE  Small(j, job'[j]) /\ (job[j].status # "absent" => job'[j].status # "absent")
  <1>0. /\ RecordStep(j) /\ job[j] \in JobRecord /\ now \in Nat
        /\ \A e \in Engines : Holds(e, j) \/ sub[e].job = j => job[j].status # "absent"
    BY RecordSteps, OneHolder DEF WorkInv, TypeInv, TypeOK
  <1> DEFINE r == job[j]
             Kept == Small(j, job'[j]) /\ (r.status # "absent" => job'[j].status # "absent")
  <1>8. ASSUME SameSize(r, job'[j]) PROVE Kept
    BY <1>8, SizesKept DEF SameSize
  <1>1. CASE SalesStep(j)
    <2>1. \A q, e : Small(j, NewRecord(q, j, e)) /\ NewRecord(q, j, e).status = "queued"
      BY DEF NewRecord, NoRecord, Small
    <2>2. j \in cancelling => r.status # "absent"
      BY DEF CancellingOK
    <2> QED BY <1>0, <1>1, <1>8, <2>1, <2>2, TransitionSizes DEF SalesStep
  <1>2. CASE LoginStep(j)
    BY <1>0, <1>2, <1>8, TransitionSizes DEF LoginStep
  <1>3. CASE ClaimStep(j)
    <2>1. r.status # "absent"
      BY <1>3 DEF ClaimStep, Claimable, LeaseExpired
    <2>2. \A e \in Engines : SameSize(r, AttachedRecord(e, r))
      <3> TAKE e \in Engines
      <3> DEFINE m == Monitored(r, e)
      <3>1. m \in JobRecord /\ SameSize(r, m)
        BY <1>0, <2>1, LeaseTypes, TransitionSizes
      <3>2. AttachedRecord(e, r) \in {m, RetryPrompted(m)}
        BY DEF AttachedRecord
      <3> HIDE DEF m
      <3>3. SameSize(m, RetryPrompted(m))
        BY <3>1, ChatSizes, 0 \in Nat
      <3> QED BY <3>1, <3>2, <3>3 DEF SameSize
    <2> QED BY <1>0, <1>3, <1>8, <2>1, <2>2, TransitionSizes DEF ClaimStep
  <1>4. CASE ChatStep(j)
    <2>1. CASE job'[j] = [r EXCEPT !.sealed = TRUE]
      BY <1>0, <2>1 DEF Small, JobRecord
    <2>2. ASSUME NEW e \in Engines, sub[e].job = j, job'[j] = SessionRecorded(r, sub[e].conv)
          PROVE  Kept
      <3>1. sub[e].conv \in Nat /\ (j \notin Numbered => sub[e].conv = 0)
        BY <2>2 DEF OneChat, TypeInv, TypeOK, Submission
      <3>2. SessionRecorded(r, sub[e].conv).status = r.status
        BY <1>0, <3>1, ChatEffects
      <3>3. ASSUME NEW c \in Nat
            PROVE  /\ SessionRecorded(r, c).sessions = r.sessions \union {c}
                   /\ SessionRecorded(r, c).running = r.running \union {c}
                   /\ SessionRecorded(r, c).sealed = r.sealed
        BY <1>0, ChatWork, ChatSizes
      <3>4. Small(j, r) /\ job'[j].status = r.status
        BY <2>2, <3>2
      <3> HIDE DEF r
      <3> QED BY <2>2, <3>1, <3>3, <3>4 DEF Small
    <2>3. ASSUME NEW c \in r.sessions, job'[j] = [r EXCEPT !.running = {c}] PROVE Kept
      BY <1>0, <2>3 DEF Small, JobRecord
    <2>4. \/ \E c \in Nat : job'[j] = SourcePurged(r, c)
          \/ job'[j] = [r EXCEPT !.running = @ \union {0}]
          \/ job'[j] = RetryPrompted(r)
          => Kept
      BY <1>0, <1>8, ChatSizes, 0 \in Nat
    <2> QED BY <1>4, <2>1, <2>2, <2>3, <2>4 DEF ChatStep
  <1>5. CASE FailStep(j)
    <2>1. r.status # "absent"
      BY <1>0, <1>5 DEF FailStep
    <2> QED BY <1>0, <1>5, <1>8, <2>1, TransitionSizes, 0 \in Nat DEF FailStep
  <1>6. CASE PollStep(j)
    <2>0. r.status # "absent"
      BY <1>0, <1>6 DEF PollStep, Holds
    <2>1. SameSize(r, Reconciled(j))
      BY <1>0, <2>0 DEF Reconciled, DeliveryOf, SameSize, JobRecord
    <2>2. ASSUME NEW e \in Engines, NEW c \in Nat, Reconciled(j).status \notin Terminal,
                 job'[j] \in {out.rec : out \in PollOutcomes(Renewed(Reconciled(j), e), c)}
          PROVE  SameSize(r, job'[j])
      <3> DEFINE q == Renewed(r, e)
      <3>1. Reconciled(j) = r
        BY <1>0, <2>2, DeliveryWork DEF Terminal
      <3>2. q \in JobRecord /\ SameSize(r, q)
        BY <1>0, <2>0, LeaseTypes, TransitionSizes
      <3>3. job'[j] \in {q, [q EXCEPT !.running = @ \ {c}], Failed(q)}
        BY <2>2, <3>1 DEF PollOutcomes
      <3> HIDE DEF q
      <3>4. SameSize(q, job'[j])
        <4>1. q.status # "absent" /\ SameSize(q, q)
          BY <2>0, <3>2 DEF SameSize
        <4> QED BY <3>2, <3>3, <4>1, TransitionSizes
      <3> QED BY <3>2, <3>4 DEF SameSize
    <2> QED BY <1>6, <1>8, <2>1, <2>2 DEF PollStep
  <1>7. CASE job'[j] = job[j]
    BY <1>7
  <1>9. CASE PurgeStep(j)
    BY <1>0, <1>8, <1>9, TransitionSizes DEF PurgeStep
  <1> QED BY <1>0, <1>1, <1>2, <1>3, <1>4, <1>5, <1>6, <1>7, <1>9 DEF RecordStep

LEMMA RenewedFields ==
  ASSUME NEW r \in JobRecord, NEW d \in Engines, now \in Nat
  PROVE  /\ Renewed(r, d) \in JobRecord /\ Renewed(r, d).status = r.status
         /\ Renewed(r, d).assigned = r.assigned /\ Renewed(r, d).sealed = r.sealed
  <1>1. Renewed(r, d) \in JobRecord
    BY LeaseTypes
  <1>2. /\ Renewed(r, d).status = r.status
        /\ Renewed(r, d).assigned = r.assigned /\ Renewed(r, d).sealed = r.sealed
    BY DEF Renewed, JobRecord
  <1> QED BY <1>1, <1>2

\* Where the chats of engine d may come from.
ChatsStep(d, j) ==
  \/ chats'[d][j] \subseteq chats[d][j]
  \/ /\ phase[d] = "attach" /\ job[j].status = "processing"
     /\ job'[j].status = "processing"
     /\ chats'[d][j] \subseteq job[j].running \union {0}
  \/ /\ sub[d].job = j /\ sub'[d] = Idle /\ job'[j].status = job[j].status
     /\ chats'[d][j] \subseteq chats[d][j] \union {0, sub[d].conv}
  \/ /\ sub[d] = Idle /\ sub'[d] = Idle
     /\ job[j].status = "processing" /\ job'[j].status = "processing"
     /\ chats'[d][j] \subseteq job[j].sessions

LEMMA ChatsSteps ==
  ASSUME TypeInv, [Next]_vars, NEW d \in Engines, NEW j \in Jobs
  PROVE  ChatsStep(d, j)
  <1>0. /\ chats \in [Engines -> [Jobs -> SUBSET Nat]] /\ sub \in [Engines -> Submission]
        /\ job \in [Jobs -> JobRecord] /\ now \in Nat
    BY DEF TypeInv, TypeOK
  <1>1. CASE chats' = chats
    BY <1>1 DEF ChatsStep
  <1>2. CASE Sales \/ Mcp
    <2>1. chats' = chats
      BY <1>2 DEF Sales, Create, CreateCrash, SalesPoll, PageLeft, CancelRead, CancelWrite, RetryPartial,
                  Mcp, SealPlan, DeliveryGuard, DeliveryFails, WriteReceipt, workerVars
    <2> QED BY <1>1, <2>1
  <1>3. ASSUME NEW e \in Engines, Worker(e) PROVE ChatsStep(d, j)
    <2>1. CASE ResumeLogin(e) \/ Logout(e)
      <3>1. CASE ResumeLogin(e)
        <4>1. PICK unstopped \in SUBSET {k \in Jobs : Holds(e, k) /\ job[k].status = "cancelled"} :
                chats' = [chats EXCEPT ![e] =
                            [k \in Jobs |-> IF job[k].status = "cancelled" /\ k \notin unstopped
                                            THEN {} ELSE @[k]]]
          BY <3>1 DEF ResumeLogin
        <4>2. CASE d = e
          <5>1. chats'[d][j] = IF job[j].status = "cancelled" /\ j \notin unstopped
                               THEN {} ELSE chats[d][j]
            BY <1>0, <4>1, <4>2
          <5> QED BY <5>1 DEF ChatsStep
        <4>3. CASE d # e
          BY <1>0, <4>1, <4>3 DEF ChatsStep
        <4> QED BY <4>2, <4>3
      <3>2. CASE Logout(e)
        <4>1. chats'[d][j] = IF d = e THEN {} ELSE chats[d][j]
          BY <1>0, <3>2 DEF Logout
        <4> QED BY <4>1 DEF ChatsStep
      <3> QED BY <2>1, <3>1, <3>2
    <2>2. CASE Attach(e)
      <3>1. /\ chats'[d][j] = IF d = e /\ j \in Unattended(e) THEN AttachedChats(job[j])
                                                              ELSE chats[d][j]
            /\ job'[j] = IF j \in Unattended(e) THEN AttachedRecord(e, job[j]) ELSE job[j]
            /\ phase[e] = "attach"
        BY <1>0, <2>2 DEF Attach
      <3>2. CASE d = e /\ j \in Unattended(e)
        <4>1. job[j].status = "processing" /\ AttachedRecord(e, job[j]).status = "processing"
          BY <1>0, <3>2, ClaimEffects DEF Unattended
        <4>2. AttachedChats(job[j]) \subseteq job[j].running \union {0}
          BY DEF AttachedChats
        <4> QED BY <3>1, <3>2, <4>1, <4>2 DEF ChatsStep
      <3>3. CASE ~(d = e /\ j \in Unattended(e))
        BY <3>1, <3>3 DEF ChatsStep
      <3> QED BY <3>2, <3>3
    <2>3. CASE \/ ClaimNext(e) \/ SubmitLoggedOut(e) \/ SubmitMissing(e) \/ SubmitSend(e)
               \/ SubmitRecord(e) \/ FailPurge(e) \/ ClaimDone(e) \/ ServeNothing(e)
      <3>1. chats' = chats
        BY <2>3 DEF ClaimNext, SubmitLoggedOut, SubmitMissing, SubmitSend, SubmitRecord,
                    FailPurge, ClaimDone, ServeNothing
      <3> QED BY <1>1, <3>1
    <2>4. ASSUME SubmitRetry(e) \/ SubmitPurge(e) PROVE ChatsStep(d, j)
      <3> DEFINE k == sub[e].job
      <3>1. /\ sub[e].stage # "idle" /\ sub' = [sub EXCEPT ![e] = Idle]
            /\ \E c \in {0, sub[e].conv} : ChatsChanged(e, k, chats[e][k] \union {c})
            /\ \E s \in {[job[k] EXCEPT !.running = @ \union {0}], RetryPrompted(job[k]),
                         SourcePurged(job[k], sub[e].conv)} : JobChanged(k, s)
        BY <2>4 DEF SubmitRetry, SubmitPurge
      <3>2. k \in Jobs /\ sub[e].conv \in Nat
        BY <1>0, <3>1 DEF TypeInv, SubOK, Submission
      <3>3. CASE d = e /\ j = k
        <4>1. sub'[d] = Idle /\ chats'[d][j] \subseteq chats[d][j] \union {0, sub[d].conv}
          BY <1>0, <3>1, <3>3 DEF ChatsChanged
        <4>2. job'[j].status = job[j].status
          <5>1. PICK s \in {[job[k] EXCEPT !.running = @ \union {0}], RetryPrompted(job[k]),
                            SourcePurged(job[k], sub[e].conv)} : JobChanged(k, s)
            BY <3>1
          <5>2. job[k] \in JobRecord /\ job'[k] = s
            BY <1>0, <3>2, <5>1, ChangedRecord DEF TypeInv
          <5> QED BY <3>3, <5>1, <5>2 DEF RetryPrompted, SourcePurged, JobRecord
        <4> QED BY <3>3, <4>1, <4>2 DEF ChatsStep
      <3>4. CASE ~(d = e /\ j = k)
        <4>1. chats'[d][j] = chats[d][j]
          BY <1>0, <3>1, <3>2, <3>4 DEF ChatsChanged
        <4> QED BY <4>1 DEF ChatsStep
      <3> QED BY <3>3, <3>4
    <2>5. ASSUME NEW k \in Jobs, ReopenDeferred(e, k) PROVE ChatsStep(d, j)
      <3>1. PICK c \in job[k].sessions : /\ JobChanged(k, [job[k] EXCEPT !.running = {c}])
                                         /\ ChatsChanged(e, k, {c})
        BY <2>5 DEF ReopenDeferred
      <3>2. /\ job[k].status = "processing" /\ sub[e] = Idle /\ sub' = sub
        BY <2>5 DEF ReopenDeferred, ReadyToSettle
      <3>3. CASE d = e /\ j = k
        <4>1. chats'[d][j] = {c}
          BY <1>0, <3>1, <3>3 DEF ChatsChanged
        <4>2. job'[j].status = "processing"
          BY <1>0, <3>1, <3>2, <3>3, ChangedRecord DEF JobRecord, TypeInv
        <4> QED BY <3>1, <3>2, <3>3, <4>1, <4>2 DEF ChatsStep
      <3>4. CASE ~(d = e /\ j = k)
        <4>1. chats'[d][j] = chats[d][j]
          BY <1>0, <3>1, <3>4 DEF ChatsChanged
        <4> QED BY <4>1 DEF ChatsStep
      <3> QED BY <3>3, <3>4
    <2>6. ASSUME NEW k \in Jobs,
                 \/ FailUndelivered(e, k) \/ PollError(e, k)
                 \/ \E c \in Conversations : OpenChat(e, k, c)
          PROVE  ChatsStep(d, j)
      BY <1>1, <2>6 DEF FailUndelivered, PollError, OpenChat
    <2>8. CASE FailJob(e)
      <3> DEFINE k == sub[e].job
      <3>1. chats' = chats \/ chats' = [chats EXCEPT ![e][k] = chats[e][k] \ {sub[e].conv}]
        BY <2>8 DEF FailJob, ChatsChanged
      <3>2. chats'[d][j] \subseteq chats[d][j]
        BY <1>0, <3>1
      <3> QED BY <3>2 DEF ChatsStep
    <2>7. ASSUME NEW k \in Jobs, PollTerminal(e, k) \/ PollChat(e, k) PROVE ChatsStep(d, j)
      <3>1. \E kept \in SUBSET chats[e][k] : ChatsChanged(e, k, kept)
        BY <2>7 DEF PollTerminal, PollChat
      <3>2. PICK kept \in SUBSET chats[e][k] : chats' = [chats EXCEPT ![e][k] = kept]
        BY <3>1 DEF ChatsChanged
      <3>3. CASE d = e /\ j = k
        <4>1. chats'[d][j] = kept
          BY <1>0, <3>2, <3>3
        <4> QED BY <3>2, <3>3, <4>1 DEF ChatsStep
      <3>4. CASE ~(d = e /\ j = k)
        <4>1. chats'[d][j] = chats[d][j]
          BY <1>0, <3>2, <3>4
        <4> QED BY <4>1 DEF ChatsStep
      <3> QED BY <3>3, <3>4
    <2> QED BY <1>3, <2>1, <2>2, <2>3, <2>4, <2>5, <2>6, <2>7, <2>8 DEF Worker
  <1>4. CASE Environment
    <2>1. ASSUME NEW e \in Engines, Crash(e) PROVE ChatsStep(d, j)
      BY <1>0, <2>1 DEF Crash, ChatsStep
    <2>2. CASE Tick \/ \E e \in Engines : Start(e) \/ SignInChanges(e) \/ HeartbeatExpires(e)
      <3>1. chats' = chats
        BY <2>2 DEF Tick, Start, SignInChanges, HeartbeatExpires, workerVars
      <3> QED BY <1>1, <3>1
    <2> QED BY <1>4, <2>1, <2>2 DEF Environment
  <1>5. CASE UNCHANGED vars
    BY <1>1, <1>5 DEF vars, workerVars
  <1> QED BY <1>2, <1>3, <1>4, <1>5 DEF Next

\* A job of one chat that was never retried fails when nobody holds it any more.
LEMMA FailsUnheld ==
  ASSUME TypeInv, WorkInv, [Next]_vars, NEW d \in Engines, NEW j \in Jobs, j \notin Numbered,
         \A e \in Engines : OneChat(e, j),
         job[j].generation = 0, job[j].status # "failed", job'[j].status = "failed"
  PROVE  ~Holds(d, j)'
  <1>0. /\ RecordStep(j) /\ job[j] \in JobRecord /\ now \in Nat /\ ChatsStep(d, j)
        /\ "failed" \in Terminal /\ Delivered = {"completed", "partial"}
    BY RecordSteps, ChatsSteps DEF TypeInv, TypeOK, Terminal, Delivered
  <1>1. chats'[d][j] \subseteq chats[d][j]
    BY <1>0 DEF ChatsStep
  <1>2. SUFFICES ASSUME Holds(d, j) PROVE ~Holds(d, j)'
    BY <1>1 DEF Holds
  <1>3. \A e \in Engines : Holds(e, j) \/ sub[e].job = j => e = d
    BY <1>2, OneHolder DEF WorkInv
  <1>4. ~SalesStep(j)
    BY <1>0, EndingEffects, WaitingEffects DEF SalesStep, NewRecord, NoRecord
  <1>5. ~LoginStep(j)
    <2>1. job'[j] = LoggedOut(job[j]) => job'[j].status # "failed"
      BY <1>0, WaitingEffects DEF LoggedOut, Settled
    <2> QED BY <1>0, <2>1, WaitingEffects DEF LoginStep
  <1>6. ~ClaimStep(j)
    BY <1>0, ClaimEffects DEF ClaimStep
  <1>7. ~ChatStep(j)
    <2>1. ChatStep(j) => job'[j].status = job[j].status
      BY <1>0 DEF ChatStep, SessionRecorded, SourcePurged, RetryPrompted, JobRecord
    <2> QED BY <2>1
  <1>8. CASE FailStep(j)
    <2>1. PICK e \in Engines :
            \/ sub[e].job = j /\ ~Polling(e)
            \/ sub[e].job = j /\ chats'[e][j] = chats[e][j] \ {sub[e].conv}
            \/ job[j].worker = e /\ ~Holds(e, j)
      BY <1>8 DEF FailStep
    <2>2. CASE sub[e].job = j /\ ~Polling(e)
      BY <1>2, <1>3, <2>2 DEF OneChat
    <2>3. CASE job[j].worker = e /\ ~Holds(e, j)
      BY <1>2, <2>3, WorkerHolds, OneHolder DEF WorkInv
    <2>4. CASE sub[e].job = j /\ chats'[e][j] = chats[e][j] \ {sub[e].conv}
      <3>1. e = d /\ sub[d].conv = 0 /\ chats[d][j] \subseteq {0}
        BY <1>3, <2>4 DEF OneChat
      <3> QED BY <2>4, <3>1 DEF Holds
    <2> QED BY <2>1, <2>2, <2>3, <2>4
  <1>9. CASE PollStep(j)
    <2>1. Reconciled(j).status # "failed"
      BY <1>0, DeliveryWork
    <2>2. PICK e \in Engines, c \in Nat : 
            /\ Reconciled(j).status \notin Terminal /\ c \in chats[e][j]
            /\ \E out \in PollOutcomes(Renewed(Reconciled(j), e), c) :
                 job'[j] = out.rec /\ chats'[e][j] = chats[e][j] \ out.closed
      BY <1>9, <2>1 DEF PollStep
    <2>3. e = d /\ c = 0 /\ chats[d][j] = {0}
      BY <1>2, <1>3, <2>2 DEF Holds, OneChat
    <2>4. Reconciled(j) = job[j] /\ Renewed(job[j], e).status = job[j].status
          /\ Renewed(job[j], e) \in JobRecord
      BY <1>0, <2>2, DeliveryWork, MovingWork, LeaseTypes DEF Terminal
    <2>5. PICK out \in PollOutcomes(Renewed(job[j], e), c) :
            job'[j] = out.rec /\ chats'[e][j] = chats[e][j] \ out.closed
      BY <2>2, <2>4
    <2>6. out.closed = {c}
      <3> DEFINE q == Renewed(job[j], e)
      <3>1. out.rec = q => out.rec.status # "failed"
        BY <2>4
      <3> QED BY <2>5, <3>1 DEF PollOutcomes
    <2> QED BY <2>3, <2>5, <2>6 DEF Holds
  <1>10. ~PurgeStep(j)
    BY <1>0, EndingEffects DEF PurgeStep
  <1> QED BY <1>0, <1>4, <1>5, <1>6, <1>7, <1>8, <1>9, <1>10 DEF RecordStep

\* The retries of a job do not become fewer.
LEMMA GenerationGrows ==
  ASSUME TypeInv, [Next]_vars, NEW j \in Jobs, job'[j].generation = 0
  PROVE  job[j].generation = 0 \/ job[j].status = "absent"
  <1>1. SessionStep(j) /\ job[j].generation \in Nat
    BY SessionSteps, FieldTypes DEF TypeInv, TypeOK
  <1> QED BY <1>1 DEF SessionStep

LEMMA OneChatKept ==
  ASSUME TypeInv, TypeInv', WorkInv, WorkInv', LeaseInv, UnplannedInv, [Next]_vars,
         NEW d \in Engines, NEW j \in Jobs
  PROVE  OneChat(d, j)'
  <1> SUFFICES ASSUME j \notin Numbered PROVE OneChat(d, j)'
    BY DEF OneChat
  <1>0. /\ \A e \in Engines : OneChat(e, j)
        /\ Small(j, job[j]) /\ Small(j, job'[j]) /\ CancellingOK
    <2>1. /\ \A e \in Engines : OneChat(e, j)
          /\ Small(j, job[j]) /\ CancellingOK
      BY DEF UnplannedInv
    <2> QED BY <2>1, SizeKept
  <1>1. OneChat(d, j) /\ ChatsStep(d, j) /\ SubStep(d, j)
    BY <1>0, ChatsSteps, LoopSteps
  <1>3. chats'[d][j] \subseteq {0}
    BY <1>0, <1>1 DEF ChatsStep, OneChat, Small
  <1>4. sub'[d].job = j => sub'[d].conv = 0
    <2>1. ~(\E c \in Int : c \in 1..(Convs[j] - 1))
      BY StoreAssumption
    <2> QED BY <1>1, <2>1 DEF SubStep, OneChat
  <1>5. ASSUME job'[j].generation = 0, sub'[d].job = j, ~Polling(d)' PROVE ~Holds(d, j)'
    <2>1. CASE sub[d].job = j /\ ~Polling(d)
      <3>1. /\ job[j].generation = 0 /\ phase[d] # "attach"
        BY <1>5, <2>1, OneHolder, GenerationGrows DEF WorkInv, WorkersOK, SubmittingOK
      <3>2. ~Holds(d, j) /\ sub'[d] # Idle
        BY <1>1, <1>5, <2>1, <3>1, IdleHasNoJob DEF OneChat
      <3> QED BY <1>1, <3>1, <3>2 DEF ChatsStep, Holds
    <2>2. CASE sub'[d].stage \in {"claimed", "retry"}
      <3>1. SubmittingOK(d, j)' /\ HeldOK(d, j)'
        BY DEF WorkInv, WorkersOK
      <3>2. sub'[d].stage = "claimed"
        BY <1>5, <2>2, <3>1 DEF SubmittingOK
      <3>3. FirstPrompt(d, j)'
        BY FirstPromptKept
      <3> QED BY <1>5, <3>1, <3>2, <3>3 DEF FirstPrompt, HeldOK
    <2>3. CASE sub'[d].conv \in 1..(Convs[j] - 1)
      BY <1>4, <1>5, <2>3
    <2> QED BY <1>1, <1>5, <2>1, <2>2, <2>3 DEF SubStep
  <1>6. ASSUME job'[j].generation = 0, job'[j].status = "failed" PROVE ~Holds(d, j)'
    <2>1. CASE job[j].status = "failed"
      <3>1. job[j].generation = 0
        BY <1>6, <2>1, GenerationGrows
      <3>2. ~Holds(d, j) /\ sub[d].job # j
        BY <1>1, <2>1, <3>1 DEF OneChat, WorkInv, WorkersOK, SubmittingOK
      <3> QED BY <1>1, <2>1, <3>2 DEF ChatsStep, Holds
    <2>2. CASE job[j].status \notin {"failed", "absent"}
      <3>1. job[j].generation = 0
        BY <1>6, <2>2, GenerationGrows
      <3> QED BY <1>0, <1>6, <2>2, <3>1, FailsUnheld
    <2>3. CASE job[j].status = "absent"
      <3>1. ~Holds(d, j) /\ sub[d].job # j
        BY <2>3, OneHolder DEF WorkInv
      <3> QED BY <1>1, <2>3, <3>1 DEF ChatsStep, Holds
    <2> QED BY <2>1, <2>2, <2>3
  <1> QED BY <1>3, <1>4, <1>5, <1>6 DEF OneChat

\* A lease that a worker could lose has not run out.
LEMMA LiveLease ==
  ASSUME TypeInv, WorkInv, LeaseInv, NEW e \in Engines, NEW j \in Jobs,
         job[j].status = "processing", job[j].assigned = e, Attended(e, j)
  PROVE  ~LeaseExpired(job[j])
  <1>1. job[j].worker \in {NoEngine, e} /\ LeaseOK(e, j)
    BY DEF WorkInv, RecordsOK, RecordOK, LeaseInv
  <1>2. job[j].lease \in Times /\ now \in Nat
    BY FieldTypes DEF TypeInv, TypeOK
  <1> QED BY <1>1, <1>2 DEF LeaseOK, LeaseExpired, Times, Never

\* Who waits for a sign-in waited before, or its engine has just seen the
\* sign-out; a failed job comes back only where another of its chats is held.
LEMMA WaitingStep ==
  ASSUME TypeInv, WorkInv, LeaseInv, [Next]_vars, NEW j \in Jobs, NEW e \in Engines,
         job'[j].generation = 0, job'[j].status = "needs_login", job'[j].assigned = e
  PROVE  /\ job[j].assigned = e /\ (job[j].sealed => job'[j].sealed)
         /\ \/ job[j].status = "needs_login" /\ job'[j] # Resumed(job[j])
            \/ /\ phase'[e] = "resume" /\ Holds(e, j)
               /\ Submitted(job[j]) /\ ~Settled(job[j])
  <1>0. /\ RecordStep(j) /\ job[j] \in JobRecord /\ now \in Nat
        /\ Delivered = {"completed", "partial"}
    BY RecordSteps DEF TypeInv, TypeOK, Delivered
  <1>1. job'[j] # Resumed(job[j])
    BY <1>0, WaitingEffects
  <1>2. ~SalesStep(j)
    BY <1>0, EndingEffects, WaitingEffects DEF SalesStep, NewRecord, NoRecord
  <1>3. CASE LoginStep(j)
    <2>1. job'[j] = LoggedOut(job[j])
      BY <1>1, <1>3 DEF LoginStep
    <2>2. PICK d \in Engines : \/ Holds(d, j) /\ phase'[d] = "resume"
                               \/ sub[d].stage = "claimed" /\ sub[d].job = j
      BY <1>1, <1>3 DEF LoginStep
    <2>3. ~Settled(job[j]) /\ Submitted(job[j])
      <3>1. ~Settled(job[j])
        BY <1>0, <2>1 DEF LoggedOut, Settled
      <3>2. job'[j].status = IF Submitted(job[j]) THEN "needs_login" ELSE "queued"
        BY <1>0, <2>1, <3>1, MovingWork
      <3> QED BY <3>1, <3>2
    <2>4. job[j].assigned = e /\ (job[j].sealed => job'[j].sealed)
      BY <1>0, <2>1, <2>3 DEF LoggedOut, JobRecord
    <2>5. d = e
      BY <2>2, <2>4, OneHolder DEF WorkInv
    <2>6. ~(sub[d].stage = "claimed" /\ sub[d].job = j)
      <3>1. sub[d].job = j => job[j].generation = 0
        BY OneHolder, GenerationGrows DEF WorkInv
      <3> QED BY <2>3, <3>1 DEF LeaseInv, FirstPrompt
    <2> QED BY <2>2, <2>3, <2>4, <2>5, <2>6
  <1>4. ~ClaimStep(j)
    BY <1>0, ClaimEffects DEF ClaimStep
  <1>5. CASE ChatStep(j)
    <2>1. /\ job'[j].status = job[j].status /\ job'[j].assigned = job[j].assigned
          /\ job[j].sealed => job'[j].sealed
      BY <1>0, <1>5 DEF ChatStep, SessionRecorded, SourcePurged, RetryPrompted, JobRecord
    <2> QED BY <1>1, <2>1
  <1>6. ~FailStep(j)
    BY <1>0, EndingEffects DEF FailStep, Failed, FailedSourceMissing, Settled
  <1>7. CASE PollStep(j)
    <2>1. CASE job'[j] = Reconciled(j)
      <3>1. job'[j] = job[j]
        BY <1>0, <2>1, DeliveryWork
      <3> QED BY <1>1, <3>1
    <2>2. ASSUME NEW d \in Engines, NEW c \in Nat, Reconciled(j).status \notin Terminal,
                 job'[j] \in {out.rec : out \in PollOutcomes(Renewed(Reconciled(j), d), c)}
          PROVE  /\ job[j].status = "needs_login" /\ job[j].assigned = e
                 /\ job'[j].sealed = job[j].sealed
      <3> DEFINE q == Renewed(job[j], d)
      <3>1. Reconciled(j) = job[j]
        BY <1>0, <2>2, DeliveryWork DEF Terminal
      <3>2. /\ q \in JobRecord /\ q.status = job[j].status
            /\ q.assigned = job[j].assigned /\ q.sealed = job[j].sealed
        BY <1>0, RenewedFields
      <3>3. job'[j] \in {q, [q EXCEPT !.running = @ \ {c}], Failed(q)}
        BY <2>2, <3>1 DEF PollOutcomes
      <3> HIDE DEF q
      <3>4. /\ job'[j].status = q.status /\ job'[j].assigned = q.assigned
            /\ job'[j].sealed = q.sealed
        BY <3>2, <3>3, EndingEffects DEF Failed, Settled, JobRecord
      <3> QED BY <3>2, <3>4
    <2> QED BY <1>1, <1>7, <2>1, <2>2 DEF PollStep
  <1>8. CASE job'[j] = job[j]
    BY <1>1, <1>8
  <1>9. CASE PurgeStep(j)
    <2>1. /\ job'[j].status = job[j].status /\ job'[j].assigned = job[j].assigned
          /\ job[j].sealed => job'[j].sealed
      BY <1>0, <1>9 DEF PurgeStep, AllPurged, WithoutSource, JobRecord
    <2> QED BY <1>1, <2>1
  <1> QED BY <1>0, <1>2, <1>3, <1>4, <1>5, <1>6, <1>7, <1>8, <1>9 DEF RecordStep

\* A worker starts its round with the jobs that wait for a sign-in.
LEMMA RoundStarts ==
  ASSUME TypeInv, [Next]_vars, NEW e \in Engines, phase[e] \in {"resume", "down"}
  PROVE  phase'[e] \in {"resume", "down"} \/ ResumeLogin(e)
  <1>0. phase \in [Engines -> Phase]
    BY DEF TypeInv, TypeOK
  <1>1. CASE UNCHANGED phase
    BY <1>1
  <1>2. CASE Sales \/ Mcp
    <2>1. UNCHANGED phase
      BY <1>2 DEF Sales, Create, CreateCrash, SalesPoll, PageLeft, CancelRead, CancelWrite, RetryPartial,
                  Mcp, SealPlan, DeliveryGuard, DeliveryFails, WriteReceipt, workerVars
    <2> QED BY <1>1, <2>1
  <1>3. ASSUME NEW d \in Engines, Worker(d)
        PROVE  phase'[e] \in {"resume", "down"} \/ ResumeLogin(e)
    <2>1. \/ UNCHANGED phase \/ ResumeLogin(d)
          \/ phase[d] \notin {"resume", "down"} /\ \E p \in Phase : phase' = [phase EXCEPT ![d] = p]
      BY <1>3 DEF Worker, ResumeLogin, Logout, Attach, ClaimNext, SubmitRetry, SubmitLoggedOut,
                  SubmitMissing, SubmitSend, SubmitRecord, SubmitPurge, FailPurge, FailJob,
                  ClaimDone, ServeNothing, ReopenDeferred, FailUndelivered, PollTerminal, PollChat,
                  PollError, OpenChat, Goto, Phase
    <2>2. ResumeLogin(d) => phase' = [phase EXCEPT ![d] = "attach"]
      BY DEF ResumeLogin, Goto
    <2> QED BY <1>0, <2>1, <2>2
  <1>4. CASE Environment
    <2>1. UNCHANGED phase \/ \E d \in Engines, p \in {"resume", "down"} : Goto(d, p)
      BY <1>4 DEF Environment, Tick, SignInChanges, HeartbeatExpires, Crash, Start, workerVars
    <2> QED BY <1>0, <2>1 DEF Goto
  <1>5. CASE UNCHANGED vars
    BY <1>1, <1>5 DEF vars, workerVars
  <1> QED BY <1>2, <1>3, <1>4, <1>5 DEF Next

LEMMA SignedInKept ==
  ASSUME TypeInv, WorkInv, LeaseInv, UnplannedInv, [Next]_vars, NEW e \in Engines, NEW j \in Jobs
  PROVE  SignedIn(e, j)'
  <1> SUFFICES ASSUME job'[j].generation = 0, job'[j].status = "needs_login",
                      job'[j].assigned = e
               PROVE  phase'[e] \in {"resume", "down"}
    BY DEF SignedIn
  <1>1. \/ phase'[e] = "resume"
        \/ /\ job[j].status = "needs_login" /\ job[j].assigned = e
           /\ job'[j] # Resumed(job[j])
    BY WaitingStep
  <1>2. CASE job[j].status = "needs_login" /\ job[j].assigned = e /\ job'[j] # Resumed(job[j])
    <2>1. phase[e] \in {"resume", "down"}
      BY <1>2, GenerationGrows DEF UnplannedInv, SignedIn
    <2>2. ResumeLogin(e) => job'[j] = Resumed(job[j])
      BY <1>2, StoreAssumption DEF ResumeLogin, Waiting
    <2> QED BY <1>2, <2>1, <2>2, RoundStarts
  <1> QED BY <1>1, <1>2

\* A claim of engine e: there was room for a job of unknown size, and no other
\* record moved.
ClaimedBy(e, j) ==
  /\ HasRoom(e, j) /\ phase[e] = "claim" /\ job'[j] = Claimed(job[j], e)
  /\ \A k \in Jobs \ {j} : job'[k] = job[k]

LEMMA UnplannedStays ==
  ASSUME TypeInv, NEW e \in Engines, NEW j \in Jobs, job'[j] = job[j], now' >= now, now' \in Nat,
         Unplanned(e, j)'
  PROVE  Unplanned(e, j)
  <1>1. now \in Nat /\ job[j].lease \in Times
    BY FieldTypes DEF TypeInv, TypeOK
  <1> QED BY <1>1 DEF Unplanned, LeaseExpired, Submitted, Times, Never

\* A job comes to hold a slot of its engine only by a claim.
LEMMA RunningStep ==
  ASSUME TypeInv, TypeInv', WorkInv, LeaseInv, UnplannedInv, [Next]_vars,
         NEW e \in Engines, NEW j \in Jobs,
         Unplanned(e, j)', job'[j].status = "processing"
  PROVE  Unplanned(e, j) \/ ClaimedBy(e, j)
  <1>0. /\ RecordStep(j) /\ job[j] \in JobRecord /\ now \in Nat /\ now' \in Nat /\ now' >= now
        /\ Delivered = {"completed", "partial"}
    <2>1. now \in Nat
      BY DEF TypeInv, TypeOK
    <2> QED BY <2>1, RecordSteps, NowSteps DEF TypeInv, TypeOK, Delivered, Tick
  <1> DEFINE r == job[j]
             s == job'[j]
  <1>8. ASSUME s.status = r.status, s.assigned = r.assigned, s.sealed = r.sealed,
               s.lease = r.lease, Submitted(s) => Submitted(r)
        PROVE  Unplanned(e, j)
    <2>1. r.generation = 0
      BY <1>8, GenerationGrows DEF Unplanned
    <2>2. r.lease \in Times
      BY <1>0, FieldTypes
    <2> QED BY <1>0, <1>8, <2>1, <2>2 DEF Unplanned, LeaseExpired, Times, Never
  <1>9. ASSUME s.assigned = r.assigned, s.sealed = r.sealed, Submitted(r), r.status = "processing"
        PROVE  Unplanned(e, j)
    BY <1>9, GenerationGrows DEF Unplanned
  <1>1. ~SalesStep(j)
    BY <1>0, EndingEffects, WaitingEffects DEF SalesStep, NewRecord, NoRecord
  <1>2. CASE LoginStep(j)
    <2>1. LoggedOut(r).status = "processing" => r.status = "processing" /\ Settled(r)
      BY <1>0, WaitingEffects DEF LoggedOut
    <2>2. r.status = "needs_login" /\ s = Resumed(r)
      BY <1>0, <1>2, <2>1 DEF LoginStep, Settled
    <2>3. s.assigned = r.assigned /\ s.sealed = r.sealed /\ r.generation = 0
      BY <1>0, <2>2, GenerationGrows DEF Resumed, JobRecord, Unplanned
    <2> QED BY <2>2, <2>3 DEF Unplanned
  <1>3. CASE ClaimStep(j)
    <2>1. PICK d \in Engines :
            \/ /\ HasRoom(d, j) /\ phase[d] = "claim"
               /\ s = Claimed(r, d)
               /\ \A k \in Jobs \ {j} : job'[k] = job[k]
            \/ /\ r.status = "processing" /\ r.assigned = d /\ Submitted(r)
               /\ s = AttachedRecord(d, r)
      BY <1>3 DEF ClaimStep
    <2>2. CASE s = Claimed(r, d) /\ HasRoom(d, j) /\ phase[d] = "claim"
               /\ \A k \in Jobs \ {j} : job'[k] = job[k]
      <3>1. s.assigned = d
        BY <1>0, <2>2, MovingWork
      <3> QED BY <2>2, <3>1 DEF ClaimedBy, Unplanned
    <2>3. CASE r.status = "processing" /\ Submitted(r) /\ s = AttachedRecord(d, r)
      <3>1. s.assigned = r.assigned /\ s.sealed = r.sealed
        BY <1>0, <2>3 DEF AttachedRecord, Monitored, RetryPrompted, JobRecord
      <3> QED BY <1>9, <2>3, <3>1
    <2> QED BY <2>1, <2>2, <2>3
  <1>4. CASE ChatStep(j)
    <2>1. CASE s = [r EXCEPT !.sealed = TRUE]
      BY <1>0, <2>1 DEF Unplanned, JobRecord
    <2>2. ASSUME NEW d \in Engines, sub[d].job = j, s = SessionRecorded(r, sub[d].conv)
          PROVE  Unplanned(e, j)
      <3>1. sub[d].conv \in Nat
        BY DEF TypeInv, TypeOK, Submission
      <3>2. ASSUME NEW c \in Nat
            PROVE  /\ SessionRecorded(r, c).status = r.status
                   /\ SessionRecorded(r, c).assigned = r.assigned
                   /\ SessionRecorded(r, c).sealed = r.sealed
        BY <1>0 DEF SessionRecorded, JobRecord
      <3>3. /\ r.status = "processing" /\ r.assigned = e /\ ~r.sealed
            /\ r.generation = 0
        BY <2>2, <3>1, <3>2, GenerationGrows DEF Unplanned
      <3>4. Attended(e, j)
        BY <2>2, <3>3, OneHolder DEF WorkInv, Attended
      <3> QED BY <3>3, <3>4, LiveLease DEF Unplanned
    <2>3. ASSUME \/ \E c \in Nat : s = SourcePurged(r, c) \/ s = [r EXCEPT !.running = {c}]
                 \/ s = [r EXCEPT !.running = @ \union {0}]
                 \/ s = RetryPrompted(r)
          PROVE  Unplanned(e, j)
      <3>1. /\ s.status = r.status /\ s.assigned = r.assigned /\ s.sealed = r.sealed
            /\ s.lease = r.lease /\ s.sessions = r.sessions
        BY <1>0, <2>3 DEF SourcePurged, RetryPrompted, JobRecord
      <3> QED BY <1>8, <3>1 DEF Submitted
    <2> QED BY <1>4, <2>1, <2>2, <2>3 DEF ChatStep
  <1>5. ~FailStep(j)
    BY <1>0, EndingEffects DEF FailStep, Failed, FailedSourceMissing, Settled
  <1>6. CASE PollStep(j)
    <2>1. CASE s = Reconciled(j)
      <3>1. s = r
        BY <1>0, <2>1, DeliveryWork
      <3> QED BY <1>0, <3>1, UnplannedStays
    <2>2. ASSUME NEW d \in Engines, NEW c \in Nat, Reconciled(j).status \notin Terminal,
                 c \in chats[d][j],
                 s \in {out.rec : out \in PollOutcomes(Renewed(Reconciled(j), d), c)}
          PROVE  Unplanned(e, j)
      <3> DEFINE q == Renewed(r, d)
      <3>1. Reconciled(j) = r /\ Submitted(r)
        BY <1>0, <2>2, DeliveryWork DEF Terminal, Holds, WorkInv, WorkersOK, HeldOK
      <3>2. /\ q \in JobRecord /\ q.status = r.status
            /\ q.assigned = r.assigned /\ q.sealed = r.sealed
        BY <1>0, RenewedFields
      <3>3. s \in {q, [q EXCEPT !.running = @ \ {c}], Failed(q)}
        BY <2>2, <3>1 DEF PollOutcomes
      <3> HIDE DEF q
      <3>4. s.status = q.status /\ s.assigned = q.assigned /\ s.sealed = q.sealed
        BY <3>2, <3>3, EndingEffects DEF Failed, Settled, JobRecord
      <3> QED BY <1>9, <3>1, <3>2, <3>4
    <2> QED BY <1>6, <2>1, <2>2 DEF PollStep
  <1>7. CASE job'[j] = job[j]
    BY <1>0, <1>7, UnplannedStays
  <1>10. CASE PurgeStep(j)
    <2>1. /\ s.status = r.status /\ s.assigned = r.assigned /\ s.sealed = r.sealed
          /\ s.lease = r.lease /\ s.sessions = r.sessions
      BY <1>0, <1>10 DEF PurgeStep, AllPurged, WithoutSource, JobRecord
    <2> QED BY <1>8, <2>1 DEF Submitted
  <1> QED BY <1>0, <1>1, <1>2, <1>3, <1>4, <1>5, <1>6, <1>7, <1>10 DEF RecordStep

\* Two jobs of unknown size do not come to share an engine: a claim finds the
\* other one in a slot, since its lease is live and it waits for no sign-in.
LEMMA UnplannedKept ==
  ASSUME TypeInv, TypeInv', WorkInv, LeaseInv, UnplannedInv, [Next]_vars,
         NEW e \in Engines, NEW j \in Jobs, NEW k \in Jobs, Unplanned(e, j)', Unplanned(e, k)'
  PROVE  j = k
  <1>1. \A i \in Jobs : Unplanned(e, i)' => Unplanned(e, i) \/ ClaimedBy(e, i)
    <2> SUFFICES ASSUME NEW i \in Jobs, Unplanned(e, i)'
                 PROVE  Unplanned(e, i) \/ ClaimedBy(e, i)
      OBVIOUS
    <2>1. CASE job'[i].status = "processing"
      BY <2>1, RunningStep
    <2>2. CASE job'[i].status = "needs_login"
      <3>1. job'[i].generation = 0 /\ job'[i].assigned = e /\ ~job'[i].sealed
        BY DEF Unplanned
      <3>2. /\ job[i].assigned = e /\ ~job[i].sealed
            /\ \/ job[i].status = "needs_login"
               \/ Holds(e, i) /\ Submitted(job[i]) /\ ~Settled(job[i])
        BY <2>2, <3>1, WaitingStep
      <3>3. job[i].status # "absent" /\ job[i].generation = 0
        BY <3>1, <3>2, OneHolder, GenerationGrows DEF WorkInv
      <3>4. ASSUME Holds(e, i), Submitted(job[i]), ~Settled(job[i])
            PROVE  job[i].status \in {"processing", "needs_login"}
        <4>1. job[i].status # "failed"
          BY <3>2, <3>3, <3>4 DEF UnplannedInv, Small, OneChat
        <4>2. job[i].status # "queued"
          BY <3>3, <3>4 DEF WorkInv, RecordsOK, RecordOK, Early
        <4>3. job[i].status \in Status
          BY FieldTypes DEF TypeInv, TypeOK
        <4> QED BY <3>3, <3>4, <4>1, <4>2, <4>3 DEF Status, Terminal, Delivered, Settled
      <3> QED BY <3>2, <3>3, <3>4 DEF Unplanned
    <2> QED BY <2>1, <2>2 DEF Unplanned
  <1>2. ASSUME NEW a \in Jobs, NEW b \in Jobs, a # b, ClaimedBy(e, a), Unplanned(e, b)'
        PROVE  FALSE
    <2>1. now' \in Nat /\ now' >= now /\ job'[b] = job[b] /\ phase[e] = "claim" /\ HasRoom(e, a)
      BY <1>2, NowSteps DEF ClaimedBy, TypeInv, TypeOK, Tick
    <2>2. Unplanned(e, b)
      BY <1>2, <2>1, UnplannedStays
    <2>3. job[b].status # "needs_login"
      BY <2>1, <2>2 DEF Unplanned, UnplannedInv, SignedIn
    <2>4. job[b].status = "processing" /\ job[b].assigned = e /\ ~LeaseExpired(job[b])
      BY <2>1, <2>2, <2>3, LiveLease DEF Unplanned, Attended
    <2>5. HasUnplanned(e)
      BY <2>2, <2>4 DEF HasUnplanned, Occupying, Unplanned
    <2> QED BY <2>1, <2>5 DEF HasRoom
  <1>3. Unplanned(e, j) /\ Unplanned(e, k) => j = k
    BY DEF UnplannedInv
  <1> QED BY <1>1, <1>2, <1>3

LEMMA CancellingSteps ==
  ASSUME [Next]_vars, NEW j \in Jobs, j \in cancelling'
  PROVE  j \in cancelling \/ job'[j].status # "absent"
  <1>1. CASE Sales
    BY <1>1 DEF Sales, Create, CreateCrash, SalesPoll, PageLeft, CancelRead, CancelWrite, RetryPartial,
                storeVars
  <1>2. CASE Mcp
    BY <1>2 DEF Mcp, SealPlan, DeliveryGuard, DeliveryFails, WriteReceipt
  <1>3. ASSUME NEW e \in Engines, Worker(e) PROVE cancelling' = cancelling
    BY <1>3 DEF Worker, ResumeLogin, Logout, Attach, ClaimNext, SubmitRetry, SubmitLoggedOut,
                SubmitMissing, SubmitSend, SubmitRecord, SubmitPurge, FailPurge, FailJob,
                ClaimDone, ServeNothing, ReopenDeferred, FailUndelivered, PollTerminal, PollChat,
                PollError, OpenChat
  <1>4. CASE Environment \/ UNCHANGED vars
    BY <1>4 DEF Environment, Tick, SignInChanges, HeartbeatExpires, Crash, Start, vars
  <1> QED BY <1>1, <1>2, <1>3, <1>4 DEF Next

LEMMA UnplannedInvKept ==
  ASSUME TypeInv, TypeInv', WorkInv, WorkInv', LeaseInv, UnplannedInv, [Next]_vars
  PROVE  UnplannedInv'
  <1>1. ASSUME NEW j \in Jobs
        PROVE  Small(j, job'[j]) /\ (job[j].status # "absent" => job'[j].status # "absent")
    <2>1. Small(j, job[j]) /\ CancellingOK /\ \A e \in Engines : OneChat(e, j)
      BY DEF UnplannedInv
    <2> QED BY <2>1, SizeKept
  <1>2. CancellingOK'
    <2>1. cancelling' \subseteq Jobs
      BY DEF TypeInv, TypeOK
    <2> QED BY <1>1, <2>1, CancellingSteps DEF CancellingOK, UnplannedInv
  <1>3. \A e \in Engines, j \in Jobs : OneChat(e, j)' /\ SignedIn(e, j)'
    BY OneChatKept, SignedInKept
  <1>4. \A e \in Engines : \A j, k \in Jobs : Unplanned(e, j)' /\ Unplanned(e, k)' => j = k
    BY UnplannedKept
  <1> QED BY <1>1, <1>2, <1>3, <1>4 DEF UnplannedInv

\* Until a partial retry is asked for, a job of unknown size has its engine to
\* itself, for any number of jobs, sign-outs and crashes and one or both
\* engines, provided that a live worker comes round within half a lease.
THEOREM UnplannedJobsAreAlone ==
  ASSUME ~HostMayStall
  PROVE  Spec => []((\A j \in Jobs : job[j].generation = 0) => OneUnplannedJob)
  <1>1. Init => LeaseInv
    BY DEF Init, LeaseInv, LeaseOK, FirstPrompt, NoRecord, Idle, Holds
  <1>2. Init => UnplannedInv
    <2> SUFFICES ASSUME Init PROVE UnplannedInv
      OBVIOUS
    <2>1. CancellingOK /\ \A j \in Jobs : Small(j, job[j])
      BY DEF Init, CancellingOK, Small, NoRecord
    <2>2. \A e \in Engines, j \in Jobs : OneChat(e, j) /\ SignedIn(e, j) /\ ~Unplanned(e, j)
      BY DEF Init, OneChat, SignedIn, Unplanned, NoRecord, Idle, Holds
    <2> QED BY <2>1, <2>2 DEF UnplannedInv
  <1>3. TypeInv /\ TypeInv' /\ WorkInv /\ WorkInv' /\ LeaseInv /\ UnplannedInv /\ [Next]_vars
          => LeaseInv' /\ UnplannedInv'
    BY LeaseKept, FirstPromptKept, UnplannedInvKept DEF LeaseInv
  <1>4. UnplannedInv => ((\A j \in Jobs : job[j].generation = 0) => OneUnplannedJob)
    BY DEF UnplannedInv, Unplanned, OneUnplannedJob, Occupying
  <1> QED BY <1>1, <1>2, <1>3, <1>4, WorkIsSound, PTL DEF Spec

=============================================================================
