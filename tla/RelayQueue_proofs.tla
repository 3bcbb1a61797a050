-------------------------- MODULE RelayQueue_proofs --------------------------
(***************************************************************************)
(* What holds of the relay queue for any number of jobs, engines, chats,   *)
(* retries and crashes, and however slow a worker is.                      *)
(***************************************************************************)
EXTENDS RelayQueue, TLAPS

-----------------------------------------------------------------------------
(* Setting one field of a job record to a value of its type; the record    *)
(* transitions are chains of such steps.                                   *)

LEMMA SetStatus ==
  ASSUME NEW r \in JobRecord, NEW v \in Status
  PROVE  [r EXCEPT !.status = v] \in JobRecord
  BY DEF JobRecord

LEMMA SetRequest ==
  ASSUME NEW r \in JobRecord, NEW v \in Requests \union {NoRequest}
  PROVE  [r EXCEPT !.request = v] \in JobRecord
  BY DEF JobRecord

LEMMA SetPreferred ==
  ASSUME NEW r \in JobRecord, NEW v \in Engines \union {NoEngine}
  PROVE  [r EXCEPT !.preferred = v] \in JobRecord
  BY DEF JobRecord

LEMMA SetCreated ==
  ASSUME NEW r \in JobRecord, NEW v \in Nat
  PROVE  [r EXCEPT !.created = v] \in JobRecord
  BY DEF JobRecord

LEMMA SetAssigned ==
  ASSUME NEW r \in JobRecord, NEW v \in Engines \union {NoEngine}
  PROVE  [r EXCEPT !.assigned = v] \in JobRecord
  BY DEF JobRecord

LEMMA SetWorker ==
  ASSUME NEW r \in JobRecord, NEW v \in Engines \union {NoEngine}
  PROVE  [r EXCEPT !.worker = v] \in JobRecord
  BY DEF JobRecord

LEMMA SetLease ==
  ASSUME NEW r \in JobRecord, NEW v \in Times
  PROVE  [r EXCEPT !.lease = v] \in JobRecord
  BY DEF JobRecord

LEMMA SetLines ==
  ASSUME NEW r \in JobRecord, NEW v \in SUBSET Nat
  PROVE  [r EXCEPT !.lines = v] \in JobRecord
  BY DEF JobRecord

LEMMA SetPurged ==
  ASSUME NEW r \in JobRecord, NEW v \in BOOLEAN
  PROVE  [r EXCEPT !.purged = v] \in JobRecord
  BY DEF JobRecord

LEMMA SetSessions ==
  ASSUME NEW r \in JobRecord, NEW v \in SUBSET Nat
  PROVE  [r EXCEPT !.sessions = v] \in JobRecord
  BY DEF JobRecord

LEMMA SetRunning ==
  ASSUME NEW r \in JobRecord, NEW v \in SUBSET Nat
  PROVE  [r EXCEPT !.running = v] \in JobRecord
  BY DEF JobRecord

LEMMA SetSealed ==
  ASSUME NEW r \in JobRecord, NEW v \in BOOLEAN
  PROVE  [r EXCEPT !.sealed = v] \in JobRecord
  BY DEF JobRecord

LEMMA SetRetryAt ==
  ASSUME NEW r \in JobRecord, NEW v \in Times
  PROVE  [r EXCEPT !.retryAt = v] \in JobRecord
  BY DEF JobRecord

LEMMA SetPending ==
  ASSUME NEW r \in JobRecord, NEW v \in BOOLEAN
  PROVE  [r EXCEPT !.retryPending = v] \in JobRecord
  BY DEF JobRecord

LEMMA SetGeneration ==
  ASSUME NEW r \in JobRecord, NEW v \in Nat
  PROVE  [r EXCEPT !.generation = v] \in JobRecord
  BY DEF JobRecord

LEMMA SetResult ==
  ASSUME NEW r \in JobRecord, NEW v \in Outcomes \union {"none"}
  PROVE  [r EXCEPT !.result = v] \in JobRecord
  BY DEF JobRecord

LEMMA FieldTypes ==
  ASSUME NEW r \in JobRecord
  PROVE  /\ r.status \in Status /\ r.lease \in Times /\ r.retryAt \in Times
         /\ r.assigned \in Engines \union {NoEngine}
         /\ r.lines \in SUBSET Nat /\ r.sessions \in SUBSET Nat
         /\ r.running \in SUBSET Nat /\ r.generation \in Nat
         /\ r.purged \in BOOLEAN /\ r.sealed \in BOOLEAN
         /\ r.retryPending \in BOOLEAN
  BY DEF JobRecord

-----------------------------------------------------------------------------
(* The record transitions yield job records. *)

LEMMA SettlingTypes ==
  ASSUME now \in Nat, NEW r \in JobRecord
  PROVE  /\ WithoutSource(r) \in JobRecord
         /\ Cancelled(r) \in JobRecord
         /\ AllPurged(r) \in JobRecord
         /\ Failed(r) \in JobRecord
         /\ FailedSourceMissing(r) \in JobRecord
         /\ LoggedOut(r) \in JobRecord
         /\ Resumed(r) \in JobRecord
         /\ Retried(r) \in JobRecord
         /\ RetryPrompted(r) \in JobRecord
  <1>0. /\ Status = {"absent", "queued", "processing", "needs_login",
                     "completed", "partial", "failed", "cancelled"}
        /\ Never \in Times /\ now \in Times /\ TRUE \in BOOLEAN /\ FALSE \in BOOLEAN
        /\ {} \in SUBSET Nat /\ NoEngine \in Engines \union {NoEngine}
    BY DEF Status, Terminal, Delivered, Times
  <1>1. WithoutSource(r) \in JobRecord
    BY <1>0, SetLines, SetPurged DEF WithoutSource
  <1>c. Cancelled(r) \in JobRecord
    BY <1>0, <1>1, SetStatus DEF Cancelled
  <1>2. AllPurged(r) \in JobRecord
    BY <1>1 DEF AllPurged
  <1>3. Failed(r) \in JobRecord
    BY <1>0, SetStatus, SetLease DEF Failed
  <1>4. FailedSourceMissing(r) \in JobRecord
    BY <1>0, SetStatus DEF FailedSourceMissing
  <1>5. LoggedOut(r) \in JobRecord
    BY <1>0, FieldTypes, SetStatus, SetAssigned, SetWorker, SetLease DEF LoggedOut
  <1>6. Resumed(r) \in JobRecord
    BY <1>0, SetStatus, SetWorker, SetLease DEF Resumed
  <1>7. Retried(r) \in JobRecord
    <2>1. r.generation + 1 \in Nat BY FieldTypes
    <2> QED BY <1>0, <2>1, SetStatus, SetWorker, SetLease, SetRetryAt, SetPending,
               SetGeneration DEF Retried
  <1>8. RetryPrompted(r) \in JobRecord
    <2>1. r.running \union {0} \in SUBSET Nat BY FieldTypes
    <2> QED BY <1>0, <2>1, SetRunning, SetPending DEF RetryPrompted
  <1> QED BY <1>1, <1>c, <1>2, <1>3, <1>4, <1>5, <1>6, <1>7, <1>8

LEMMA LeaseTypes ==
  ASSUME now \in Nat, NEW r \in JobRecord, NEW e \in Engines
  PROVE  /\ Claimed(r, e) \in JobRecord
         /\ Monitored(r, e) \in JobRecord
         /\ Renewed(r, e) \in JobRecord
         /\ AttachedRecord(e, r) \in JobRecord
  <1>0. /\ now + LeaseTime \in Times /\ "processing" \in Status
        /\ e \in Engines \union {NoEngine}
    BY StoreAssumption DEF Times, Status
  <1>1. Claimed(r, e) \in JobRecord
    BY <1>0, SetStatus, SetAssigned, SetWorker, SetLease DEF Claimed
  <1>2. Monitored(r, e) \in JobRecord
    BY <1>0, SetWorker, SetLease DEF Monitored
  <1>3. Renewed(r, e) \in JobRecord
    BY <1>0, SetLease DEF Renewed
  <1>4. AttachedRecord(e, r) \in JobRecord
    BY <1>2, SettlingTypes DEF AttachedRecord
  <1> QED BY <1>1, <1>2, <1>3, <1>4

LEMMA ChatTypes ==
  ASSUME NEW r \in JobRecord, NEW c \in Nat
  PROVE  /\ SessionRecorded(r, c) \in JobRecord
         /\ SourcePurged(r, c) \in JobRecord
         /\ [r EXCEPT !.running = @ \union {c}] \in JobRecord
         /\ [r EXCEPT !.running = @ \ {c}] \in JobRecord
         /\ [r EXCEPT !.running = {c}] \in JobRecord
         /\ [r EXCEPT !.sealed = TRUE] \in JobRecord
  <1>1. /\ r.sessions \union {c} \in SUBSET Nat /\ r.running \union {c} \in SUBSET Nat
        /\ r.running \ {c} \in SUBSET Nat /\ {c} \in SUBSET Nat
        /\ r.lines \ {c} \in SUBSET Nat
    BY FieldTypes
  <1>2. SessionRecorded(r, c) \in JobRecord
    BY <1>1, SetSessions, SetRunning DEF SessionRecorded
  <1>3. SourcePurged(r, c) \in JobRecord
    BY <1>1, SetLines, SetPurged DEF SourcePurged
  <1> QED BY <1>1, <1>2, <1>3, SetRunning, SetSealed

\* Only a job that exists gets a delivery: the receipt names its outcome.
LEMMA ReceiptTypes ==
  ASSUME TypeOK, NEW j \in Jobs
  PROVE  Reconciled(j) \in JobRecord
  <1>1. job[j] \in JobRecord BY DEF TypeOK
  <1>2. CASE Reconciled(j) = job[j] BY <1>1, <1>2
  <1>3. CASE FreshReceipt(j) /\ Reconciled(j) = DeliveryOf(j)
    <2>1. receipt[j] \in Receipt BY <1>3 DEF TypeOK, FreshReceipt
    <2>2. receipt[j].outcome \in Outcomes \union {"none"} BY <2>1 DEF Receipt
    <2>3. /\ "completed" \in Status /\ "partial" \in Status /\ Never \in Times
      BY DEF Status, Terminal, Delivered, Times
    <2>4. DeliveryOf(j) \in JobRecord
      BY <1>1, <2>2, <2>3, SetStatus, SetResult, SetLease DEF DeliveryOf
    <2> QED BY <1>3, <2>4
  <1> QED BY <1>2, <1>3 DEF Reconciled

LEMMA NewRecordTypes ==
  ASSUME now \in Nat, NEW q \in Requests, NEW j \in Jobs, NEW e \in Engines
  PROVE  NewRecord(q, j, e) \in JobRecord
  <1>1. 0..(Convs[j] - 1) \in SUBSET Nat BY StoreAssumption
  <1>2. NoRecord \in JobRecord
    BY DEF NoRecord, JobRecord, Status, Times
  <1>3. /\ "queued" \in Status /\ q \in Requests \union {NoRequest} /\ now \in Nat
        /\ e \in Engines \union {NoEngine} /\ (j \in Numbered) \in BOOLEAN
        /\ (IF j \in Numbered THEN 0..(Convs[j] - 1) ELSE {0}) \in SUBSET Nat
    BY <1>1 DEF Status
  <1> QED BY <1>2, <1>3, SetStatus, SetRequest, SetPreferred, SetCreated, SetLines,
             SetSealed DEF NewRecord

-----------------------------------------------------------------------------
(* Type correctness *)

\* A submission in progress is about a job.
SubOK == \A e \in Engines : sub[e].stage # "idle" => sub[e].job \in Jobs

TypeInv == TypeOK /\ SubOK

LEMMA InitTypes == Init => TypeInv
  <1>1. NoRecord \in JobRecord
    BY DEF NoRecord, JobRecord, Status, Times
  <1> QED BY <1>1 DEF Init, TypeInv, TypeOK, SubOK, Idle, Submission, Stage, Phase, Page

LEMMA JobUpdateTypes ==
  ASSUME TypeOK, NEW j \in Jobs, NEW r \in JobRecord, JobChanged(j, r)
  PROVE  job' \in [Jobs -> JobRecord]
  BY DEF TypeOK, JobChanged

LEMMA PageTypes ==
  ASSUME TypeOK, NEW j \in Jobs
  PROVE  /\ \A p \in Page : PageTurns(j, p) => page' \in [Jobs -> Page]
         /\ PageOpens(j) => page' \in [Jobs -> Page]
  BY DEF TypeOK, PageTurns, PageOpens, Page

LEMMA ChatUpdateTypes ==
  ASSUME TypeOK, NEW e \in Engines, NEW j \in Jobs, NEW kept \in SUBSET Nat,
         ChatsChanged(e, j, kept)
  PROVE  chats' \in [Engines -> [Jobs -> SUBSET Nat]]
  BY DEF TypeOK, ChatsChanged

LEMMA PhaseTypes ==
  ASSUME TypeOK, NEW e \in Engines, NEW p \in Phase, Goto(e, p)
  PROVE  phase' \in [Engines -> Phase]
  BY DEF TypeOK, Goto

\* A submission ends, or its stage moves on.
LEMMA SubUpdateTypes ==
  ASSUME TypeInv, NEW e \in Engines
  PROVE  /\ sub' = [sub EXCEPT ![e] = Idle]
              => sub' \in [Engines -> Submission] /\ SubOK'
         /\ \A s \in Stage : sub[e].stage # "idle" /\ sub' = [sub EXCEPT ![e].stage = s]
              => sub' \in [Engines -> Submission] /\ SubOK'
         /\ \A j \in Jobs, c \in Nat, s \in Stage :
              sub' = [sub EXCEPT ![e] = [job |-> j, conv |-> c, stage |-> s]]
              => sub' \in [Engines -> Submission] /\ SubOK'
  <1>1. Idle \in Submission /\ Idle.stage = "idle"
    BY DEF Idle, Submission, Stage
  <1>2. ASSUME NEW s \in Submission, s.stage # "idle" => s.job \in Jobs,
               sub' = [sub EXCEPT ![e] = s]
        PROVE  sub' \in [Engines -> Submission] /\ SubOK'
    BY <1>2 DEF TypeInv, TypeOK, SubOK
  <1>3. ASSUME NEW s \in Stage, sub[e].stage # "idle"
        PROVE  /\ [sub[e] EXCEPT !.stage = s] \in Submission
               /\ [sub[e] EXCEPT !.stage = s].job \in Jobs
    BY <1>3 DEF TypeInv, TypeOK, SubOK, Submission
  <1>4. ASSUME NEW j \in Jobs, NEW c \in Nat, NEW s \in Stage
        PROVE  /\ [job |-> j, conv |-> c, stage |-> s] \in Submission
               /\ [job |-> j, conv |-> c, stage |-> s].job \in Jobs
    BY DEF Submission
  <1>5. \A s \in Stage : sub[e].stage # "idle" /\ sub' = [sub EXCEPT ![e].stage = s]
           => sub' \in [Engines -> Submission] /\ SubOK'
    BY <1>2, <1>3
  <1> QED BY <1>1, <1>2, <1>4, <1>5

LEMMA SalesTypes == TypeInv /\ Sales => TypeInv'
  <1> SUFFICES ASSUME TypeInv, Sales PROVE TypeInv'
    OBVIOUS
  <1> USE DEF TypeInv
  <1>1. ASSUME NEW q \in Requests, NEW j \in Jobs, NEW e \in Engines,
               Create(q, j, e) \/ CreateCrash(q, j, e)
        PROVE  TypeInv'
    <2>1. job' \in [Jobs -> JobRecord]
      BY <1>1, NewRecordTypes, JobUpdateTypes DEF Create, CreateCrash, TypeOK
    <2> QED BY <1>1, <2>1, PageTypes
          DEF Create, CreateCrash, TypeOK, SubOK, storeVars, workerVars
  <1>2. ASSUME NEW j \in Jobs, SalesPoll(j) PROVE TypeInv'
    <2>1. PICK p \in Page : PageTurns(j, p)
      BY <1>2 DEF SalesPoll, Page
    <2>2. job' \in [Jobs -> JobRecord] /\ page' \in [Jobs -> Page]
      BY <1>2, <2>1, ReceiptTypes, JobUpdateTypes, PageTypes DEF SalesPoll
    <2> QED BY <1>2, <2>2 DEF SalesPoll, TypeOK, SubOK, workerVars
  <1>3. ASSUME NEW j \in Jobs, CancelRead(j) PROVE TypeInv'
    BY <1>3 DEF CancelRead, TypeOK, SubOK, storeVars, workerVars
  <1>6. ASSUME NEW j \in Jobs, PageLeft(j) PROVE TypeInv'
    BY <1>6, PageTypes DEF PageLeft, Page, TypeOK, SubOK, storeVars, workerVars
  <1>4. ASSUME NEW j \in Jobs, CancelWrite(j) PROVE TypeInv'
    <2>1. Cancelled(job[j]) \in JobRecord
      BY SettlingTypes DEF TypeOK
    <2>2. page' \in [Jobs -> Page]
      BY <1>4, PageTypes DEF CancelWrite, Page
    <2> QED BY <1>4, <2>1, <2>2, JobUpdateTypes DEF CancelWrite, TypeOK, SubOK, workerVars
  <1>5. ASSUME NEW j \in Jobs, RetryPartial(j) PROVE TypeInv'
    <2>1. Retried(job[j]) \in JobRecord
      BY SettlingTypes DEF TypeOK
    <2>2. page' \in [Jobs -> Page]
      BY <1>5, PageTypes DEF RetryPartial
    <2> QED BY <1>5, <2>1, <2>2, JobUpdateTypes DEF RetryPartial, TypeOK, SubOK, workerVars
  <1> QED BY <1>1, <1>2, <1>3, <1>4, <1>5, <1>6 DEF Sales

LEMMA McpTypes == TypeInv /\ Mcp => TypeInv'
  <1> SUFFICES ASSUME TypeInv, Mcp PROVE TypeInv'
    OBVIOUS
  <1> USE DEF TypeInv
  <1>1. ASSUME NEW j \in Jobs, SealPlan(j) PROVE TypeInv'
    <2>1. [job[j] EXCEPT !.sealed = TRUE] \in JobRecord
      BY SetSealed DEF TypeOK
    <2> QED BY <1>1, <2>1, JobUpdateTypes DEF SealPlan, TypeOK, SubOK, workerVars
  <1>2. ASSUME NEW j \in Jobs, DeliveryGuard(j) \/ DeliveryFails(j) PROVE TypeInv'
    BY <1>2 DEF DeliveryGuard, DeliveryFails, TypeOK, SubOK, storeVars, workerVars
  <1>3. ASSUME NEW j \in Jobs, NEW o \in Outcomes, WriteReceipt(j, o) PROVE TypeInv'
    <2>1. [at |-> now, outcome |-> o] \in Receipt
      BY DEF Receipt, TypeOK
    <2> QED BY <1>3, <2>1 DEF WriteReceipt, TypeOK, SubOK, workerVars
  <1> QED BY <1>1, <1>2, <1>3 DEF Mcp

LEMMA LoopTypes ==
  ASSUME TypeInv, NEW e \in Engines,
         ResumeLogin(e) \/ Logout(e) \/ Attach(e) \/ ClaimDone(e) \/ ServeNothing(e)
  PROVE  TypeInv'
  <1> USE DEF TypeInv
  <1>1. CASE ResumeLogin(e)
    <2>1. job' \in [Jobs -> JobRecord]
      BY <1>1, SettlingTypes DEF ResumeLogin, TypeOK
    <2>2. chats' \in [Engines -> [Jobs -> SUBSET Nat]]
      BY <1>1 DEF ResumeLogin, TypeOK
    <2>3. phase' \in [Engines -> Phase]
      BY <1>1, PhaseTypes DEF ResumeLogin, Phase
    <2> QED BY <1>1, <2>1, <2>2, <2>3 DEF ResumeLogin, TypeOK, SubOK
  <1>2. CASE Logout(e)
    <2>1. job' \in [Jobs -> JobRecord]
      BY <1>2, SettlingTypes DEF Logout, TypeOK
    <2> QED BY <1>2, <2>1 DEF Logout, TypeOK, SubOK
  <1>3. CASE Attach(e)
    <2>1. job' \in [Jobs -> JobRecord]
      BY <1>3, LeaseTypes DEF Attach, TypeOK
    <2>2. \A j \in Jobs : AttachedChats(job[j]) \in SUBSET Nat
      BY FieldTypes DEF AttachedChats, TypeOK
    <2>3. chats' \in [Engines -> [Jobs -> SUBSET Nat]]
      BY <1>3, <2>2 DEF Attach, TypeOK
    <2>4. phase' \in [Engines -> Phase]
      BY <1>3, PhaseTypes DEF Attach, Phase
    <2> QED BY <1>3, <2>1, <2>3, <2>4 DEF Attach, TypeOK, SubOK
  <1>4. CASE ClaimDone(e)
    BY <1>4, PhaseTypes DEF ClaimDone, Phase, TypeOK, SubOK, storeVars
  <1>5. CASE ServeNothing(e)
    BY <1>5, PhaseTypes DEF ServeNothing, Phase, TypeOK, SubOK, storeVars
  <1> QED BY <1>1, <1>2, <1>3, <1>4, <1>5

LEMMA SubmitTypes ==
  ASSUME TypeInv, NEW e \in Engines,
         \/ ClaimNext(e) \/ SubmitRetry(e) \/ SubmitLoggedOut(e) \/ SubmitMissing(e)
         \/ SubmitSend(e) \/ SubmitRecord(e) \/ SubmitPurge(e)
         \/ FailPurge(e) \/ FailJob(e)
  PROVE  TypeInv'
  <1> USE DEF TypeInv
  <1>0. /\ sub[e].conv \in Nat /\ job \in [Jobs -> JobRecord] /\ now \in Nat
        /\ sub[e].stage # "idle" => sub[e].job \in Jobs
        /\ sub[e].stage = "idle" \/ sub[e].job \in Jobs
    BY DEF TypeOK, SubOK, Submission
  <1>1. CASE ClaimNext(e)
    <2>1. PICK j \in Jobs :
            /\ JobChanged(j, Claimed(job[j], e))
            /\ sub' = [sub EXCEPT ![e] =
                         [job |-> j, conv |-> 0,
                          stage |-> IF job[j].retryPending /\ Submitted(job[j])
                                    THEN "retry" ELSE "claimed"]]
      BY <1>1 DEF ClaimNext, OldestEligible, Eligible
    <2>2. job' \in [Jobs -> JobRecord]
      BY <1>0, <2>1, LeaseTypes, JobUpdateTypes
    <2>3. sub' \in [Engines -> Submission] /\ SubOK'
      BY <2>1, SubUpdateTypes DEF Stage
    <2> QED BY <1>1, <2>2, <2>3 DEF ClaimNext, TypeOK
  <1>2. CASE SubmitRetry(e)
    <2> DEFINE j == sub[e].job
    <2>1. j \in Jobs
      BY <1>0, <1>2 DEF SubmitRetry
    <2>2. /\ [job[j] EXCEPT !.running = @ \union {0}] \in JobRecord
          /\ RetryPrompted(job[j]) \in JobRecord
      BY <1>0, <2>1, ChatTypes, SettlingTypes
    <2>3. job' \in [Jobs -> JobRecord]
      BY <1>2, <2>1, <2>2, JobUpdateTypes DEF SubmitRetry
    <2>4. chats[e][j] \union {0} \in SUBSET Nat
      BY <2>1 DEF TypeOK
    <2>5. chats' \in [Engines -> [Jobs -> SUBSET Nat]]
      BY <1>2, <2>1, <2>4, ChatUpdateTypes DEF SubmitRetry
    <2>6. sub' \in [Engines -> Submission] /\ SubOK'
      BY <1>2, SubUpdateTypes DEF SubmitRetry
    <2> QED BY <1>2, <2>3, <2>5, <2>6 DEF SubmitRetry, TypeOK
  <1>3. CASE SubmitLoggedOut(e)
    <2>1. job' \in [Jobs -> JobRecord]
      BY <1>0, <1>3, SettlingTypes, JobUpdateTypes DEF SubmitLoggedOut
    <2>2. sub' \in [Engines -> Submission] /\ SubOK'
      BY <1>3, SubUpdateTypes DEF SubmitLoggedOut
    <2> QED BY <1>3, <2>1, <2>2 DEF SubmitLoggedOut, TypeOK
  <1>4. CASE SubmitMissing(e)
    <2>1. job' \in [Jobs -> JobRecord]
      BY <1>0, <1>4, SettlingTypes, JobUpdateTypes DEF SubmitMissing
    <2>2. sub' \in [Engines -> Submission] /\ SubOK'
      BY <1>4, SubUpdateTypes DEF SubmitMissing
    <2> QED BY <1>4, <2>1, <2>2 DEF SubmitMissing, TypeOK
  <1>5. CASE SubmitSend(e)
    <2>1. sub' \in [Engines -> Submission] /\ SubOK'
      BY <1>5, SubUpdateTypes DEF SubmitSend, Stage
    <2> QED BY <1>0, <1>5, <2>1 DEF SubmitSend, TypeOK, storeVars
  <1>6. CASE SubmitRecord(e)
    <2>1. job' \in [Jobs -> JobRecord]
      BY <1>0, <1>6, ChatTypes, JobUpdateTypes DEF SubmitRecord
    <2>2. sub' \in [Engines -> Submission] /\ SubOK'
      BY <1>6, SubUpdateTypes DEF SubmitRecord, Stage
    <2> QED BY <1>6, <2>1, <2>2 DEF SubmitRecord, TypeOK
  <1>7. CASE SubmitPurge(e)
    <2> DEFINE j == sub[e].job
    <2>1. j \in Jobs
      BY <1>0, <1>7 DEF SubmitPurge
    <2>2. job' \in [Jobs -> JobRecord]
      BY <1>0, <1>7, <2>1, ChatTypes, JobUpdateTypes DEF SubmitPurge
    <2>3. chats[e][j] \union {sub[e].conv} \in SUBSET Nat
      BY <1>0, <2>1 DEF TypeOK
    <2>4. chats' \in [Engines -> [Jobs -> SUBSET Nat]]
      BY <1>7, <2>1, <2>3, ChatUpdateTypes DEF SubmitPurge
    <2>5. sub' \in [Engines -> Submission] /\ SubOK'
      BY <1>7, SubUpdateTypes DEF SubmitPurge
    <2> QED BY <1>7, <2>2, <2>4, <2>5 DEF SubmitPurge, TypeOK
  <1>8. CASE FailPurge(e)
    <2>1. sub[e].job \in Jobs
      BY <1>0, <1>8 DEF FailPurge
    <2>2. job' \in [Jobs -> JobRecord]
      BY <1>0, <1>8, <2>1, SettlingTypes, JobUpdateTypes DEF FailPurge
    <2>3. sub' \in [Engines -> Submission] /\ SubOK'
      BY <1>8, SubUpdateTypes DEF FailPurge, Stage
    <2> QED BY <1>8, <2>2, <2>3 DEF FailPurge, TypeOK
  <1>9. CASE FailJob(e)
    <2> DEFINE j == sub[e].job
    <2>1. j \in Jobs
      BY <1>0, <1>9 DEF FailJob
    <2>2. job' \in [Jobs -> JobRecord]
      BY <1>0, <1>9, <2>1, SettlingTypes, JobUpdateTypes DEF FailJob
    <2>3. sub' \in [Engines -> Submission] /\ SubOK'
      BY <1>9, SubUpdateTypes DEF FailJob
    <2>4. chats[e][j] \ {sub[e].conv} \in SUBSET Nat
      BY <2>1 DEF TypeOK
    <2>5. chats' \in [Engines -> [Jobs -> SUBSET Nat]] /\ phase' \in [Engines -> Phase]
      BY <1>9, <2>1, <2>4, ChatUpdateTypes, PhaseTypes DEF FailJob, Phase, TypeOK
    <2> QED BY <1>9, <2>2, <2>3, <2>5 DEF FailJob, TypeOK
  <1> QED BY <1>1, <1>2, <1>3, <1>4, <1>5, <1>6, <1>7, <1>8, <1>9

LEMMA ServeTypes ==
  ASSUME TypeInv, NEW e \in Engines, NEW j \in Jobs,
         \/ ReopenDeferred(e, j) \/ FailUndelivered(e, j)
         \/ PollTerminal(e, j) \/ PollChat(e, j) \/ PollError(e, j)
         \/ \E c \in Conversations : OpenChat(e, j, c)
  PROVE  TypeInv'
  <1> USE DEF TypeInv
  <1>0. /\ job[j] \in JobRecord /\ Reconciled(j) \in JobRecord /\ now \in Nat
        /\ chats[e][j] \in SUBSET Nat
    BY ReceiptTypes DEF TypeOK
  <1>1. CASE ReopenDeferred(e, j)
    <2>1. PICK c \in job[j].sessions :
            /\ JobChanged(j, [job[j] EXCEPT !.running = {c}])
            /\ ChatsChanged(e, j, {c})
      BY <1>1 DEF ReopenDeferred
    <2>2. c \in Nat
      BY <1>0, FieldTypes
    <2>3. job' \in [Jobs -> JobRecord]
      BY <1>0, <2>1, <2>2, ChatTypes, JobUpdateTypes
    <2>4. chats' \in [Engines -> [Jobs -> SUBSET Nat]]
      BY <2>1, <2>2, ChatUpdateTypes
    <2> QED BY <1>1, <2>3, <2>4 DEF ReopenDeferred, TypeOK, SubOK
  <1>2. CASE FailUndelivered(e, j)
    <2>1. job' \in [Jobs -> JobRecord]
      BY <1>0, <1>2, SettlingTypes, JobUpdateTypes DEF FailUndelivered
    <2> QED BY <1>2, <2>1 DEF FailUndelivered, TypeOK, SubOK
  <1>3. CASE PollTerminal(e, j)
    <2>1. PICK unstopped \in SUBSET chats[e][j] : ChatsChanged(e, j, unstopped)
      BY <1>3 DEF PollTerminal
    <2>2. unstopped \in SUBSET Nat
      BY <1>0
    <2>3. chats' \in [Engines -> [Jobs -> SUBSET Nat]]
      BY <2>1, <2>2, ChatUpdateTypes
    <2>4. job' \in [Jobs -> JobRecord]
      BY <1>0, <1>3, JobUpdateTypes DEF PollTerminal
    <2>5. phase' \in [Engines -> Phase]
      BY <1>3, PhaseTypes DEF PollTerminal, Phase
    <2> QED BY <1>3, <2>3, <2>4, <2>5 DEF PollTerminal, TypeOK, SubOK
  <1>4. CASE PollChat(e, j)
    <2> DEFINE r == Renewed(Reconciled(j), e)
    <2>0. PICK c \in chats[e][j] : \E out \in PollOutcomes(r, c) :
            JobChanged(j, out.rec) /\ ChatsChanged(e, j, chats[e][j] \ out.closed)
      BY <1>4 DEF PollChat
    <2>1. PICK out \in PollOutcomes(r, c) :
            JobChanged(j, out.rec) /\ ChatsChanged(e, j, chats[e][j] \ out.closed)
      BY <2>0
    <2>2. r \in JobRecord /\ c \in Nat
      BY <1>0, LeaseTypes
    <2>3. out.rec \in JobRecord
      <3>1. /\ Failed(r) \in JobRecord
            /\ [r EXCEPT !.running = @ \ {c}] \in JobRecord
        BY <1>0, <2>2, SettlingTypes, ChatTypes
      <3> HIDE DEF r
      <3> QED BY <2>1, <2>2, <3>1 DEF PollOutcomes
    <2>4. chats[e][j] \ out.closed \in SUBSET Nat
      BY <1>0
    <2>5. job' \in [Jobs -> JobRecord] /\ chats' \in [Engines -> [Jobs -> SUBSET Nat]]
      BY <2>1, <2>3, <2>4, JobUpdateTypes, ChatUpdateTypes
    <2>6. phase' \in [Engines -> Phase]
      BY <1>4, PhaseTypes DEF PollChat, Phase
    <2> QED BY <1>4, <2>5, <2>6 DEF PollChat, TypeOK, SubOK
  <1>5. ASSUME NEW c \in Conversations, OpenChat(e, j, c) PROVE TypeInv'
    <2>1. c \in Nat
      BY StoreAssumption DEF Conversations
    <2>2. sub' \in [Engines -> Submission] /\ SubOK'
      BY <1>5, <2>1, SubUpdateTypes DEF OpenChat, Stage
    <2> QED BY <1>5, <2>2 DEF OpenChat, TypeOK, storeVars
  <1>6. CASE PollError(e, j)
    <2>1. job' \in [Jobs -> JobRecord]
      BY <1>0, <1>6, LeaseTypes, JobUpdateTypes DEF PollError
    <2>2. PICK c \in chats[e][j] :
            sub' = [sub EXCEPT ![e] = [job |-> j, conv |-> c, stage |-> "error"]]
      BY <1>6 DEF PollError
    <2>3. sub' \in [Engines -> Submission] /\ SubOK'
      BY <1>0, <2>2, SubUpdateTypes DEF Stage
    <2> QED BY <1>6, <2>1, <2>3 DEF PollError, TypeOK
  <1> QED BY <1>1, <1>2, <1>3, <1>4, <1>5, <1>6

LEMMA EnvironmentTypes == TypeInv /\ Environment => TypeInv'
  <1> SUFFICES ASSUME TypeInv, Environment PROVE TypeInv'
    OBVIOUS
  <1> USE DEF TypeInv
  <1>1. CASE Tick
    BY <1>1 DEF Tick, TypeOK, SubOK, workerVars
  <1>2. ASSUME NEW e \in Engines, SignInChanges(e) \/ HeartbeatExpires(e) PROVE TypeInv'
    BY <1>2 DEF SignInChanges, HeartbeatExpires, TypeOK, SubOK, storeVars, workerVars
  <1>3. ASSUME NEW e \in Engines, Crash(e) PROVE TypeInv'
    <2>1. sub' \in [Engines -> Submission] /\ SubOK'
      BY <1>3, SubUpdateTypes DEF Crash
    <2>2. phase' \in [Engines -> Phase]
      BY <1>3, PhaseTypes DEF Crash, Phase
    <2> QED BY <1>3, <2>1, <2>2 DEF Crash, TypeOK, storeVars
  <1>4. ASSUME NEW e \in Engines, Start(e) PROVE TypeInv'
    BY <1>4, PhaseTypes DEF Start, Phase, TypeOK, SubOK
  <1> QED BY <1>1, <1>2, <1>3, <1>4 DEF Environment

LEMMA NextTypes == TypeInv /\ [Next]_vars => TypeInv'
  <1> SUFFICES ASSUME TypeInv, [Next]_vars PROVE TypeInv'
    OBVIOUS
  <1>1. CASE Sales BY <1>1, SalesTypes
  <1>2. CASE Mcp BY <1>2, McpTypes
  <1>3. ASSUME NEW e \in Engines, Worker(e) PROVE TypeInv'
    BY <1>3, LoopTypes, SubmitTypes, ServeTypes DEF Worker
  <1>4. CASE Environment BY <1>4, EnvironmentTypes
  <1>5. CASE UNCHANGED vars
    BY <1>5 DEF vars, storeVars, workerVars, TypeInv, TypeOK, SubOK
  <1> QED BY <1>1, <1>2, <1>3, <1>4, <1>5 DEF Next

\* Every reachable state is well typed, and a submission in progress is
\* about a job: the records the API, the worker and the receipts write are
\* job records, whatever their order.
THEOREM TypeCorrect == Spec => []TypeInv
  <1> QED BY InitTypes, NextTypes, PTL DEF Spec

COROLLARY TypesHold == Spec => []TypeOK
  <1>1. TypeInv => TypeOK BY DEF TypeInv
  <1> QED BY <1>1, TypeCorrect, PTL

-----------------------------------------------------------------------------
(* What one step does to one job record, whoever takes it. *)

SalesStep(j) ==
  \/ /\ job[j].status = "absent"
     /\ \E q \in Requests, e \in Engines : job'[j] = NewRecord(q, j, e)
  \/ /\ j \in cancelling
     /\ job'[j] = Cancelled(job[j])
  \/ job[j].status = "partial" /\ job[j].result = "partial" /\ job'[j] = Retried(job[j])

LoginStep(j) ==
  \/ job[j].status = "needs_login" /\ job'[j] = Resumed(job[j])
  \/ /\ \E e \in Engines : \/ (Holds(e, j) /\ phase'[e] = "resume")
                          \/ (sub[e].stage = "claimed" /\ sub[e].job = j)
     /\ job'[j] = LoggedOut(job[j])

ClaimStep(j) ==
  \E e \in Engines :
    \/ /\ Claimable(j) /\ HasRoom(e, j) /\ phase[e] = "claim"
       /\ job'[j] = Claimed(job[j], e)
       /\ \A k \in Jobs \ {j} : job'[k] = job[k]
    \/ /\ job[j].status = "processing" /\ job[j].assigned = e /\ Submitted(job[j])
       /\ job'[j] = AttachedRecord(e, job[j])

ChatStep(j) ==
  \/ job'[j] = [job[j] EXCEPT !.sealed = TRUE]
  \/ \E c \in Nat : \/ /\ \E e \in Engines :
                            sub[e].stage = "sent" /\ sub[e].job = j /\ sub[e].conv = c
                       /\ job'[j] = SessionRecorded(job[j], c)
                    \/ /\ \E e \in Engines : sub[e].stage = "recorded" /\ sub[e].job = j
                       /\ job'[j] = SourcePurged(job[j], c)
                    \/ c \in job[j].sessions /\ job'[j] = [job[j] EXCEPT !.running = {c}]
  \/ job'[j] = [job[j] EXCEPT !.running = @ \union {0}]
  \/ /\ ~Settled(job[j]) /\ \E e \in Engines : sub[e].stage = "retry" /\ sub[e].job = j
     /\ job'[j] = RetryPrompted(job[j])

\* The chat that engine e is failing is one it polled.
Polling(e) == phase[e] = "serve" /\ sub[e].stage \in {"error", "failing"}

PurgeStep(j) ==
  /\ job'[j] = AllPurged(job[j])
  /\ \E e \in Engines :
       sub[e].job = j /\ sub'[e].job = j /\ sub'[e].stage = "failing"

FailStep(j) ==
  /\ job'[j] \in {Failed(job[j]), FailedSourceMissing(job[j])}
  /\ \E e \in Engines :
       \/ sub[e].job = j /\ ~Polling(e) /\ chats' = chats
       \/ sub[e].job = j /\ Polling(e) /\ chats'[e][j] = chats[e][j] \ {sub[e].conv}
       \/ /\ job[j].status = "processing" /\ job[j].worker = e /\ ~Holds(e, j)
          /\ chats' = chats

PollStep(j) ==
  \/ /\ job[j].status # "absent" \/ \E e \in Engines : Holds(e, j)
     /\ job'[j] = Reconciled(j)
  \/ /\ Reconciled(j).status \notin Terminal
     /\ \E e \in Engines, c \in Nat :
          /\ c \in chats[e][j]
          /\ \E out \in PollOutcomes(Renewed(Reconciled(j), e), c) :
               job'[j] = out.rec /\ chats'[e][j] = chats[e][j] \ out.closed

RecordStep(j) ==
  \/ job'[j] = job[j]
  \/ SalesStep(j) \/ LoginStep(j) \/ ClaimStep(j) \/ ChatStep(j)
  \/ PurgeStep(j) \/ FailStep(j) \/ PollStep(j)

LEMMA ChangedRecord ==
  ASSUME TypeOK, NEW k \in Jobs, NEW r, JobChanged(k, r), NEW j \in Jobs
  PROVE  job'[j] = IF j = k THEN r ELSE job[j]
  BY DEF TypeOK, JobChanged

LEMMA RecordSteps ==
  ASSUME TypeInv, [Next]_vars, NEW j \in Jobs
  PROVE  RecordStep(j)
  <1> USE DEF TypeInv
  <1>1. CASE Sales
    <2>1. ASSUME NEW q \in Requests, NEW k \in Jobs, NEW e \in Engines,
                 Create(q, k, e) \/ CreateCrash(q, k, e)
          PROVE  RecordStep(j)
      BY <2>1, ChangedRecord DEF Create, CreateCrash, RecordStep, SalesStep
    <2>2. ASSUME NEW k \in Jobs, SalesPoll(k) PROVE RecordStep(j)
      BY <2>2, ChangedRecord DEF SalesPoll, RecordStep, PollStep
    <2>3. ASSUME NEW k \in Jobs, CancelRead(k) PROVE RecordStep(j)
      BY <2>3 DEF CancelRead, storeVars, RecordStep
    <2>4. ASSUME NEW k \in Jobs, CancelWrite(k) PROVE RecordStep(j)
      BY <2>4, ChangedRecord DEF CancelWrite, RecordStep, SalesStep
    <2>5. ASSUME NEW k \in Jobs, RetryPartial(k) PROVE RecordStep(j)
      BY <2>5, ChangedRecord DEF RetryPartial, RecordStep, SalesStep
    <2>6. ASSUME NEW k \in Jobs, PageLeft(k) PROVE RecordStep(j)
      BY <2>6 DEF PageLeft, storeVars, RecordStep
    <2> QED BY <1>1, <2>1, <2>2, <2>3, <2>4, <2>5, <2>6 DEF Sales
  <1>2. CASE Mcp
    <2>1. ASSUME NEW k \in Jobs, SealPlan(k) PROVE RecordStep(j)
      BY <2>1, ChangedRecord DEF SealPlan, RecordStep, ChatStep
    <2>2. ASSUME NEW k \in Jobs, DeliveryGuard(k) \/ DeliveryFails(k) PROVE RecordStep(j)
      BY <2>2 DEF DeliveryGuard, DeliveryFails, storeVars, RecordStep
    <2>3. ASSUME NEW k \in Jobs, NEW o \in Outcomes, WriteReceipt(k, o) PROVE RecordStep(j)
      BY <2>3 DEF WriteReceipt, RecordStep
    <2> QED BY <1>2, <2>1, <2>2, <2>3 DEF Mcp
  <1>3. ASSUME NEW e \in Engines, Worker(e) PROVE RecordStep(j)
    <2>0. /\ sub[e].conv \in Nat
          /\ sub[e].stage # "idle" => sub[e].job \in Jobs
      BY DEF TypeOK, SubOK, Submission
    <2>1. CASE ResumeLogin(e)
      BY <2>1 DEF ResumeLogin, TypeOK, Waiting, RecordStep, LoginStep
    <2>2. CASE Logout(e)
      <3>1. /\ job'[j] = IF Holds(e, j) THEN LoggedOut(job[j]) ELSE job[j]
            /\ phase'[e] = "resume"
        BY <2>2 DEF Logout, TypeOK
      <3>2. CASE Holds(e, j)
        BY <3>1, <3>2 DEF RecordStep, LoginStep
      <3>3. CASE ~Holds(e, j)
        BY <3>1, <3>3 DEF RecordStep
      <3> QED BY <3>2, <3>3
    <2>3. CASE Attach(e)
      BY <2>3 DEF Attach, TypeOK, Unattended, RecordStep, ClaimStep
    <2>4. CASE ClaimNext(e)
      <3>1. PICK k \in Jobs : Claimable(k) /\ HasRoom(e, k) /\ JobChanged(k, Claimed(job[k], e))
        BY <2>4 DEF ClaimNext, OldestEligible, Eligible
      <3>2. phase[e] = "claim"
        BY <2>4 DEF ClaimNext
      <3>3. \A i \in Jobs : job'[i] = IF i = k THEN Claimed(job[k], e) ELSE job[i]
        BY <3>1, ChangedRecord
      <3> QED BY <3>1, <3>2, <3>3 DEF RecordStep, ClaimStep
    <2>5. CASE SubmitRetry(e)
      BY <2>0, <2>5, ChangedRecord DEF SubmitRetry, RecordStep, ChatStep
    <2>6. CASE SubmitLoggedOut(e)
      BY <2>0, <2>6, ChangedRecord DEF SubmitLoggedOut, RecordStep, LoginStep
    <2>7. CASE SubmitMissing(e)
      BY <2>0, <2>7, ChangedRecord DEF SubmitMissing, RecordStep, FailStep, Polling
    <2>8. CASE SubmitSend(e) \/ ClaimDone(e) \/ ServeNothing(e)
      BY <2>8 DEF SubmitSend, ClaimDone, ServeNothing, storeVars, RecordStep
    <2>9. CASE SubmitRecord(e)
      BY <2>0, <2>9, ChangedRecord DEF SubmitRecord, RecordStep, ChatStep
    <2>10. CASE SubmitPurge(e)
      BY <2>0, <2>10, ChangedRecord DEF SubmitPurge, RecordStep, ChatStep
    <2>11. CASE FailPurge(e)
      <3> DEFINE k == sub[e].job
      <3>1. /\ k \in Jobs /\ job'[j] = IF j = k THEN AllPurged(job[k]) ELSE job[j]
        BY <2>0, <2>11, ChangedRecord DEF FailPurge
      <3>2. sub'[e].job = k /\ sub'[e].stage = "failing"
        BY <2>11 DEF FailPurge, TypeOK, Submission
      <3> QED BY <3>1, <3>2 DEF RecordStep, PurgeStep
    <2>17. CASE FailJob(e)
      <3> DEFINE k == sub[e].job
      <3>1. /\ k \in Jobs /\ job'[j] = IF j = k THEN Failed(job[k]) ELSE job[j]
            /\ sub[e].stage = "failing"
        BY <2>0, <2>17, ChangedRecord DEF FailJob
      <3>2. CASE Polling(e)
        <4>1. chats'[e][k] = chats[e][k] \ {sub[e].conv}
          BY <2>17, <3>1, <3>2 DEF FailJob, Polling, ChatsChanged, TypeOK
        <4> QED BY <3>1, <3>2, <4>1 DEF RecordStep, FailStep
      <3>3. CASE ~Polling(e)
        <4>1. chats' = chats
          BY <2>17, <3>1, <3>3 DEF FailJob, Polling
        <4> QED BY <3>1, <3>3, <4>1 DEF RecordStep, FailStep
      <3> QED BY <3>2, <3>3
    <2>12. ASSUME NEW k \in Jobs, ReopenDeferred(e, k) PROVE RecordStep(j)
      <3>1. PICK c \in job[k].sessions : JobChanged(k, [job[k] EXCEPT !.running = {c}])
        BY <2>12 DEF ReopenDeferred
      <3>2. c \in Nat
        BY FieldTypes DEF TypeOK
      <3> QED BY <3>1, <3>2, ChangedRecord DEF RecordStep, ChatStep
    <2>13. ASSUME NEW k \in Jobs, FailUndelivered(e, k) PROVE RecordStep(j)
      <3>1. /\ job[k].status = "processing" /\ job[k].worker = e /\ ~Holds(e, k)
            /\ chats' = chats
            /\ \E r \in {Failed(job[k]), Reconciled(k)} : JobChanged(k, r)
        BY <2>13 DEF FailUndelivered, ReadyToSettle
      <3>2. CASE j = k
        <4>1. job'[j] \in {Failed(job[j]), Reconciled(j)}
          BY <3>1, <3>2, ChangedRecord
        <4> QED BY <3>1, <3>2, <4>1 DEF RecordStep, FailStep, PollStep
      <3>3. CASE j # k
        BY <3>1, <3>3, ChangedRecord DEF RecordStep
      <3> QED BY <3>2, <3>3
    <2>14. ASSUME NEW k \in Jobs, PollTerminal(e, k) PROVE RecordStep(j)
      BY <2>14, ChangedRecord DEF PollTerminal, RecordStep, PollStep
    <2>15. ASSUME NEW k \in Jobs, PollChat(e, k) PROVE RecordStep(j)
      <3>1. PICK c \in chats[e][k] : \E out \in PollOutcomes(Renewed(Reconciled(k), e), c) :
              JobChanged(k, out.rec) /\ ChatsChanged(e, k, chats[e][k] \ out.closed)
        BY <2>15 DEF PollChat
      <3>2. c \in Nat /\ Reconciled(k).status \notin Terminal
        BY <2>15 DEF TypeOK, PollChat
      <3>3. PICK out \in PollOutcomes(Renewed(Reconciled(k), e), c) :
              JobChanged(k, out.rec) /\ ChatsChanged(e, k, chats[e][k] \ out.closed)
        BY <3>1
      <3>4. /\ job'[j] = IF j = k THEN out.rec ELSE job[j]
            /\ chats'[e][k] = chats[e][k] \ out.closed
        BY <3>3, ChangedRecord DEF ChatsChanged, TypeOK
      <3> QED BY <3>2, <3>3, <3>4 DEF RecordStep, PollStep
    <2>18. ASSUME NEW k \in Jobs, PollError(e, k) PROVE RecordStep(j)
      <3>1. PICK c \in chats[e][k] : TRUE
        BY <2>18 DEF PollError
      <3>2. /\ c \in Nat /\ Reconciled(k).status \notin Terminal /\ chats' = chats
            /\ job'[j] = IF j = k THEN Renewed(Reconciled(k), e) ELSE job[j]
        BY <2>18, ChangedRecord DEF TypeOK, PollError
      <3>3. [rec |-> Renewed(Reconciled(k), e), closed |-> {}]
              \in PollOutcomes(Renewed(Reconciled(k), e), c)
        BY DEF PollOutcomes
      <3>4. chats'[e][k] = chats[e][k] \ [rec |-> Renewed(Reconciled(k), e), closed |-> {}].closed
        BY <3>2
      <3> QED BY <3>2, <3>3, <3>4 DEF RecordStep, PollStep
    <2>16. ASSUME NEW k \in Jobs, NEW c \in Conversations, OpenChat(e, k, c)
           PROVE  RecordStep(j)
      BY <2>16 DEF OpenChat, storeVars, RecordStep
    <2> QED BY <1>3, <2>1, <2>2, <2>3, <2>4, <2>5, <2>6, <2>7, <2>8, <2>9, <2>10, <2>11,
               <2>12, <2>13, <2>14, <2>15, <2>16, <2>17, <2>18 DEF Worker
  <1>4. CASE Environment \/ UNCHANGED vars
    BY <1>4 DEF Environment, Tick, SignInChanges, HeartbeatExpires, Crash, Start, vars,
                storeVars, RecordStep
  <1> QED BY <1>1, <1>2, <1>3, <1>4 DEF Next

-----------------------------------------------------------------------------
(* What the transitions do to the status and to the raw text *)

SameText(r, s) == s.lines = r.lines /\ s.purged = r.purged

NoText(r) == r.lines = {} /\ r.purged = TRUE

LEMMA EndingEffects ==
  ASSUME NEW r \in JobRecord
  PROVE  /\ NoText(WithoutSource(r)) /\ WithoutSource(r).status = r.status
         /\ NoText(Cancelled(r)) /\ Cancelled(r).status = "cancelled"
         /\ AllPurged(r).status = r.status
         /\ ~Settled(r) => NoText(AllPurged(r))
         /\ SameText(r, Failed(r))
         /\ ~Settled(r) => Failed(r).status = "failed"
         /\ SameText(r, FailedSourceMissing(r))
         /\ ~Settled(r) => FailedSourceMissing(r).status = "failed"
  <1> USE DEF JobRecord, NoText, SameText
  <1>1. NoText(WithoutSource(r)) /\ WithoutSource(r).status = r.status
    BY DEF WithoutSource
  <1>2. NoText(Cancelled(r)) /\ Cancelled(r).status = "cancelled"
    BY <1>1 DEF Cancelled, WithoutSource
  <1>3. AllPurged(r).status = r.status /\ (~Settled(r) => NoText(AllPurged(r)))
    BY <1>1 DEF AllPurged
  <1>4. SameText(r, Failed(r)) /\ (~Settled(r) => Failed(r).status = "failed")
    BY DEF Failed
  <1>5. /\ SameText(r, FailedSourceMissing(r))
        /\ ~Settled(r) => FailedSourceMissing(r).status = "failed"
    BY DEF FailedSourceMissing
  <1> QED BY <1>1, <1>2, <1>3, <1>4, <1>5

LEMMA WaitingEffects ==
  ASSUME NEW r \in JobRecord
  PROVE  /\ SameText(r, LoggedOut(r))
         /\ ~Settled(r) => LoggedOut(r).status \in {"needs_login", "queued"}
         /\ SameText(r, Resumed(r)) /\ Resumed(r).status \in {"processing", "queued"}
         /\ SameText(r, Retried(r)) /\ Retried(r).status = "queued"
         /\ SameText(r, RetryPrompted(r)) /\ RetryPrompted(r).status = r.status
  <1> USE DEF JobRecord, SameText
  <1>1. SameText(r, LoggedOut(r)) BY DEF LoggedOut
  <1>2. ~Settled(r) => LoggedOut(r).status \in {"needs_login", "queued"} BY DEF LoggedOut
  <1>3. SameText(r, Resumed(r)) /\ Resumed(r).status \in {"processing", "queued"} BY DEF Resumed
  <1>4. SameText(r, Retried(r)) /\ Retried(r).status = "queued" BY DEF Retried
  <1>5. SameText(r, RetryPrompted(r)) /\ RetryPrompted(r).status = r.status
    BY DEF RetryPrompted
  <1> QED BY <1>1, <1>2, <1>3, <1>4, <1>5

LEMMA ClaimEffects ==
  ASSUME NEW r \in JobRecord, NEW e \in Engines, now \in Nat
  PROVE  /\ SameText(r, Claimed(r, e)) /\ Claimed(r, e).status = "processing"
         /\ SameText(r, AttachedRecord(e, r)) /\ AttachedRecord(e, r).status = r.status
         /\ SameText(r, Renewed(r, e)) /\ Renewed(r, e).status = r.status
  <1>1. SameText(r, Claimed(r, e)) /\ Claimed(r, e).status = "processing"
    BY DEF Claimed, JobRecord, SameText
  <1>2. SameText(r, Monitored(r, e)) /\ Monitored(r, e).status = r.status
    BY DEF Monitored, JobRecord, SameText
  <1>3. SameText(r, Renewed(r, e)) /\ Renewed(r, e).status = r.status
    BY DEF Renewed, JobRecord, SameText
  <1>4. SameText(r, AttachedRecord(e, r)) /\ AttachedRecord(e, r).status = r.status
    BY <1>2, LeaseTypes, WaitingEffects DEF AttachedRecord, SameText
  <1> QED BY <1>1, <1>3, <1>4

LEMMA ChatEffects ==
  ASSUME NEW r \in JobRecord, NEW c \in Nat
  PROVE  /\ SameText(r, SessionRecorded(r, c)) /\ SessionRecorded(r, c).status = r.status
         /\ SourcePurged(r, c).lines = r.lines \ {c}
         /\ SourcePurged(r, c).purged <=> r.lines \ {c} = {}
         /\ SourcePurged(r, c).status = r.status
         /\ \A v : /\ SameText(r, [r EXCEPT !.running = v])
                  /\ [r EXCEPT !.running = v].status = r.status
         /\ SameText(r, [r EXCEPT !.sealed = TRUE]) /\ [r EXCEPT !.sealed = TRUE].status = r.status
  <1> USE DEF JobRecord, SameText
  <1>1. SameText(r, SessionRecorded(r, c)) /\ SessionRecorded(r, c).status = r.status
    BY DEF SessionRecorded
  <1>2. /\ SourcePurged(r, c).lines = r.lines \ {c}
        /\ SourcePurged(r, c).purged <=> r.lines \ {c} = {}
        /\ SourcePurged(r, c).status = r.status
    BY DEF SourcePurged
  <1> QED BY <1>1, <1>2

LEMMA DeliveryEffects ==
  ASSUME NEW j \in Jobs, job[j] \in JobRecord
  PROVE  \/ Reconciled(j) = job[j]
         \/ /\ Reconciled(j) = DeliveryOf(j) /\ FreshReceipt(j) /\ job[j].purged
            /\ job[j].status # "cancelled" /\ ~AlreadyDelivered(job[j])
            /\ SameText(job[j], DeliveryOf(j)) /\ DeliveryOf(j).status \in Delivered
  <1>1. SameText(job[j], DeliveryOf(j)) /\ DeliveryOf(j).status \in Delivered
    BY DEF DeliveryOf, JobRecord, SameText, Delivered
  <1> QED BY <1>1 DEF Reconciled

-----------------------------------------------------------------------------
(* Cancellation is final *)

\* Every reachable step leaves a cancelled record cancelled: update_if_not_
\* cancelled refuses it, a receipt does not touch it, no claim takes it and
\* the purges that ignore the status do not write one.
THEOREM CancellationIsFinal == Spec => CancelledIsFinal
  <1>1. ASSUME TypeInv, [Next]_vars, NEW j \in Jobs, job[j].status = "cancelled"
        PROVE  job'[j].status = "cancelled"
    <2>0. /\ RecordStep(j)
          /\ Settled(job[j]) /\ Reconciled(j) = job[j] /\ "cancelled" \in Terminal
          /\ job[j] \in JobRecord
      BY <1>1, RecordSteps DEF Settled, Reconciled, Terminal, TypeInv, TypeOK
    <2>1. CASE SalesStep(j)
      BY <1>1, <2>0, <2>1, EndingEffects DEF SalesStep
    <2>2. CASE LoginStep(j)
      BY <1>1, <2>0, <2>2 DEF LoginStep, LoggedOut
    <2>3. CASE ClaimStep(j)
      BY <1>1, <2>0, <2>3 DEF ClaimStep, Claimable, LeaseExpired
    <2>4. CASE ChatStep(j)
      BY <1>1, <2>0, <2>4 DEF ChatStep, SessionRecorded, SourcePurged, JobRecord
    <2>5. CASE FailStep(j)
      BY <1>1, <2>0, <2>5 DEF FailStep, Failed, FailedSourceMissing
    <2>6. CASE PollStep(j)
      BY <1>1, <2>0, <2>6 DEF PollStep
    <2>7. CASE PurgeStep(j)
      BY <1>1, <2>0, <2>7 DEF PurgeStep, AllPurged
    <2> QED BY <1>1, <2>0, <2>1, <2>2, <2>3, <2>4, <2>5, <2>6, <2>7 DEF RecordStep
  <1>2. TypeInv /\ [Next]_vars
          => [\A j \in Jobs : job[j].status = "cancelled" => job'[j].status = "cancelled"]_vars
    BY <1>1
  <1> QED BY <1>2, TypeCorrect, PTL DEF Spec, CancelledIsFinal

-----------------------------------------------------------------------------
(* No raw text outlives its job *)

\* What NoSourceKept needs: a record marked as purged has no text left, and
\* what ends a job with a delivery or a cancel has marked it.
Purged(r) ==
  /\ r.purged => r.lines = {}
  /\ r.status \in Delivered \union {"cancelled"} => r.purged

SourceInv == \A j \in Jobs : Purged(job[j])

LEMMA PurgedWithoutText ==
  ASSUME NEW r, NoText(r)
  PROVE  Purged(r)
  BY DEF NoText, Purged

LEMMA PurgedUnlessEnded ==
  ASSUME NEW r, NEW s, Purged(r), SameText(r, s),
         s.status \notin Delivered \union {"cancelled"} \/ s.status = r.status
  PROVE  Purged(s)
  BY DEF SameText, Purged

LEMMA PurgedKept ==
  ASSUME TypeInv, [Next]_vars, NEW j \in Jobs, Purged(job[j])
  PROVE  Purged(job'[j])
  <1>0. /\ RecordStep(j) /\ job[j] \in JobRecord /\ now \in Nat
        /\ Reconciled(j) \in JobRecord
        /\ Delivered \union {"cancelled"} = {"completed", "partial", "cancelled"}
    BY RecordSteps, ReceiptTypes DEF TypeInv, TypeOK, Delivered
  <1>r. Purged(Reconciled(j))
    BY <1>0, DeliveryEffects DEF SameText, Purged
  <1>1. CASE SalesStep(j)
    <2>1. ASSUME NEW q \in Requests, NEW e \in Engines, job'[j] = NewRecord(q, j, e)
          PROVE  Purged(job'[j])
      BY <1>0, <2>1 DEF NewRecord, NoRecord, Purged
    <2>2. CASE job'[j] = Cancelled(job[j])
      BY <1>0, <2>2, EndingEffects, PurgedWithoutText
    <2>3. CASE job'[j] = Retried(job[j])
      BY <1>0, <2>3, WaitingEffects DEF SameText, Purged
    <2> QED BY <1>1, <2>1, <2>2, <2>3 DEF SalesStep
  <1>2. CASE LoginStep(j)
    <2>1. CASE job'[j] = Resumed(job[j])
      BY <1>0, <2>1, WaitingEffects DEF SameText, Purged
    <2>2. CASE job'[j] = LoggedOut(job[j])
      BY <1>0, <2>2, WaitingEffects DEF SameText, Purged, LoggedOut
    <2> QED BY <1>2, <2>1, <2>2 DEF LoginStep
  <1>3. CASE ClaimStep(j)
    BY <1>0, <1>3, ClaimEffects DEF ClaimStep, SameText, Purged
  <1>4. CASE ChatStep(j)
    <2>1. ASSUME NEW v, job'[j] = [job[j] EXCEPT !.running = v] PROVE Purged(job'[j])
      BY <1>0, <2>1, ChatEffects DEF SameText, Purged
    <2>2. ASSUME NEW c \in Nat, job'[j] = SessionRecorded(job[j], c) PROVE Purged(job'[j])
      BY <1>0, <2>2, ChatEffects DEF SameText, Purged
    <2>3. ASSUME NEW c \in Nat, job'[j] = SourcePurged(job[j], c) PROVE Purged(job'[j])
      <3>1. /\ job'[j].lines = job[j].lines \ {c}
            /\ job'[j].purged => job[j].lines \ {c} = {}
            /\ job[j].lines \ {c} = {} => job'[j].purged
            /\ job'[j].status = job[j].status
        <4>1. job[j] \in JobRecord
          BY <1>0
        <4>2. /\ SourcePurged(job[j], c).lines = job[j].lines \ {c}
              /\ SourcePurged(job[j], c).purged => job[j].lines \ {c} = {}
              /\ job[j].lines \ {c} = {} => SourcePurged(job[j], c).purged
              /\ SourcePurged(job[j], c).status = job[j].status
          BY <4>1, <2>3, ChatEffects
        <4> QED BY <2>3, <4>2
      <3>2. CASE job[j].purged
        <4>1. job[j].lines = {}
          BY <3>2 DEF Purged
        <4> QED BY <3>1, <4>1 DEF Purged
      <3>3. CASE ~job[j].purged
        <4>1. job[j].status \notin Delivered \union {"cancelled"}
          BY <3>3 DEF Purged
        <4> QED BY <3>1, <4>1 DEF Purged
      <3> QED BY <3>2, <3>3
    <2>4. CASE job'[j] = [job[j] EXCEPT !.sealed = TRUE]
      BY <1>0, <2>4, ChatEffects DEF SameText, Purged
    <2>5. CASE job'[j] = RetryPrompted(job[j])
      BY <1>0, <2>5, WaitingEffects DEF SameText, Purged
    <2> QED BY <1>4, <2>1, <2>2, <2>3, <2>4, <2>5 DEF ChatStep
  <1>5. CASE FailStep(j)
    <2>1. CASE Settled(job[j])
      BY <1>5, <2>1 DEF FailStep, Failed, FailedSourceMissing
    <2>2. CASE ~Settled(job[j])
      BY <1>0, <1>5, <2>2, EndingEffects, PurgedUnlessEnded DEF FailStep
    <2> QED BY <2>1, <2>2
  <1>7. CASE PurgeStep(j)
    <2>1. CASE Settled(job[j])
      BY <1>7, <2>1 DEF PurgeStep, AllPurged
    <2>2. CASE ~Settled(job[j])
      BY <1>0, <1>7, <2>2, EndingEffects, PurgedWithoutText DEF PurgeStep
    <2> QED BY <2>1, <2>2
  <1>6. CASE PollStep(j)
    <2>1. ASSUME NEW e \in Engines, NEW c \in Nat,
                 job'[j] \in {out.rec : out \in PollOutcomes(Renewed(Reconciled(j), e), c)}
          PROVE  Purged(job'[j])
      <3> DEFINE q == Renewed(Reconciled(j), e)
      <3>1. q \in JobRecord /\ Purged(q)
        BY <1>0, <1>r, LeaseTypes, ClaimEffects DEF SameText, Purged
      <3>2. job'[j] \in {q, [q EXCEPT !.running = @ \ {c}], Failed(q)}
        BY <2>1 DEF PollOutcomes
      <3> HIDE DEF q
      <3>3. CASE job'[j] = [q EXCEPT !.running = @ \ {c}]
        BY <3>1, <3>3, ChatEffects DEF SameText, Purged
      <3>4. CASE job'[j] = Failed(q) /\ Settled(q)
        BY <3>1, <3>4 DEF Failed
      <3>5. CASE job'[j] = Failed(q) /\ ~Settled(q)
        BY <1>0, <3>1, <3>5, EndingEffects, PurgedUnlessEnded
      <3> QED BY <3>1, <3>2, <3>3, <3>4, <3>5
    <2> QED BY <1>6, <1>r, <2>1 DEF PollStep
  <1> QED BY <1>0, <1>1, <1>2, <1>3, <1>4, <1>5, <1>6, <1>7 DEF RecordStep

\* Once a job is delivered or cancelled no raw sales text is left in its
\* record, for any number of conversations and whatever crashed in between.
THEOREM SourceIsPurged == Spec => []NoSourceKept
  <1>1. Init => SourceInv
    BY DEF Init, SourceInv, Purged, NoRecord, Delivered
  <1>2. TypeInv /\ SourceInv /\ [Next]_vars => SourceInv'
    BY PurgedKept DEF SourceInv
  <1>3. SourceInv => NoSourceKept
    BY DEF SourceInv, Purged, NoSourceKept
  <1> QED BY <1>1, <1>2, <1>3, TypeCorrect, PTL DEF Spec

=============================================================================
