--------------------------- MODULE ChatWaves_proofs ---------------------------
(***************************************************************************)
(* The safety of ChatWaves for any number of waves, components, restarts   *)
(* and unconfirmed prompts:                                                *)
(*   - no text of a job is lost and no deferred retry overtakes one;       *)
(*   - the variables keep their shape;                                     *)
(*   - the job keeps to its share of chats, also across restarts;          *)
(*   - prompts stay within their budgets;                                  *)
(*   - the list of a deferred wave covers its open lines;                  *)
(*   - a failure is earned;                                                *)
(*   - the continuations of a wave end.                                    *)
(* The last five rest on Ordered, which says where the loop stands while a *)
(* worker function is in progress and in which order waves are sent.       *)
(***************************************************************************)
EXTENDS ChatWaves, TLAPS, WellFoundedInduction, FiniteSetTheorems

-----------------------------------------------------------------------------
(* The invariant *)

Kinds == {"text", "continue", "final", "retry"}

Sent(w) == asked[w].text > 0
AllSent == \A w \in Waves : Sent(w)

\* A function past its prompt has told its text; a retry, in progress or left
\* in the composer, follows the texts of all waves.
TaskSent ==
  /\ \A w \in Waves :
       \/ task.step = "mark" /\ task.wave + 1 = w
       \/ task.step \in {"record", "purge"} /\ task.wave = w
       => Sent(w)
  /\ task.step = "retry" => AllSent

DraftSent ==
  /\ draft = NoDraft \/ draft.kind \in Kinds
  /\ draft.kind = "retry" => AllSent

\* The function in progress is described in full.
IsTask(t) == t = [step |-> t.step, wave |-> t.wave, as |-> t.as, group |-> t.group]

IInv ==
  /\ IsTask(task)
  /\ asked \in [Waves -> Prompts] /\ lines \subseteq Waves
  /\ TaskSent /\ DraftSent /\ NoTextLost

LEMMA Tasks ==
  /\ IsTask(NoTask) /\ NoTask.step = "none"
  /\ \A step, w : /\ IsTask(Task(step, w)) /\ Task(step, w).step = step /\ Task(step, w).wave = w
                  /\ IsTask(Advance(w, step)) /\ Advance(w, step).step = "text"
  /\ \A t, step : IsTask(t) => /\ IsTask([t EXCEPT !.step = step])
                               /\ [t EXCEPT !.step = step].step = step
                               /\ [t EXCEPT !.step = step].wave = t.wave
  <1>0. ASSUME NEW step, NEW w
        PROVE  Task(step, w) = [step |-> step, wave |-> w, as |-> "none", group |-> {}]
    <2> DEFINE n == NoTask
    <2>1. n = [step |-> "none", wave |-> -1, as |-> "none", group |-> {}]
      BY DEF NoTask
    <2>2. Task(step, w) = [n EXCEPT !.step = step, !.wave = w]
      BY DEF Task
    <2> HIDE DEF n
    <2> QED BY <2>1, <2>2
  <1>1. IsTask(NoTask) /\ NoTask.step = "none"
    BY DEF IsTask, NoTask
  <1>2. ASSUME NEW step, NEW w
        PROVE  /\ IsTask(Task(step, w)) /\ Task(step, w).step = step /\ Task(step, w).wave = w
               /\ IsTask(Advance(w, step)) /\ Advance(w, step).step = "text"
    <2>1. Task(step, w) = [step |-> step, wave |-> w, as |-> "none", group |-> {}]
      BY <1>0
    <2>2. Advance(w, step) = [step |-> "text", wave |-> w, as |-> step, group |-> {}]
      <3> DEFINE n == Task("text", w)
      <3>1. n = [step |-> "text", wave |-> w, as |-> "none", group |-> {}]
        BY <1>0
      <3>2. Advance(w, step) = [n EXCEPT !.as = step]
        BY DEF Advance
      <3> HIDE DEF n
      <3> QED BY <3>1, <3>2
    <2> QED BY <2>1, <2>2 DEF IsTask
  <1>3. ASSUME NEW t, NEW step, IsTask(t)
        PROVE  /\ IsTask([t EXCEPT !.step = step])
               /\ [t EXCEPT !.step = step].step = step
               /\ [t EXCEPT !.step = step].wave = t.wave
    <2>1. [t EXCEPT !.step = step] = [step |-> step, wave |-> t.wave, as |-> t.as, group |-> t.group]
      BY <1>3 DEF IsTask
    <2> QED BY <2>1 DEF IsTask
  <1> QED BY <1>1, <1>2, <1>3

-----------------------------------------------------------------------------
(* What a prompt does to the history *)

RetriesAfterTexts ==
  (\E w \in Waves : asked'[w].retry > asked[w].retry) => AllSent

\* The history only grows, and what a chat hears or the composer keeps is no
\* retry before the texts.
Grows ==
  /\ asked' \in [Waves -> Prompts]
  /\ \A w \in Waves : Sent(w) => Sent(w)'
  /\ RetriesAfterTexts
  /\ DraftSent'

LEMMA Heard ==
  ASSUME asked \in [Waves -> Prompts], NEW p, p.kind \in Kinds, Hear(p)
  PROVE  /\ asked' \in [Waves -> Prompts]
         /\ \A w \in Waves : Sent(w) => Sent(w)'
         /\ p.kind = "text" => \A w \in Waves \intersect p.waves : Sent(w)'
         /\ p.kind # "retry" => \A w \in Waves : asked'[w].retry = asked[w].retry
  <1> USE DEF Hear, Prompts, Sent
  <1>1. MaxAsked \in Nat \ {0} BY WavesAssumption
  <1>2. CASE p.kind = "text" BY <1>1, <1>2
  <1>3. CASE p.kind = "continue" BY <1>1, <1>3
  <1>4. CASE p.kind = "final" BY <1>1, <1>4
  <1>5. CASE p.kind = "retry" BY <1>1, <1>5
  <1> QED BY <1>2, <1>3, <1>4, <1>5 DEF Kinds

LEMMA HeardGrows ==
  ASSUME IInv, NEW p, p.kind \in Kinds, p.kind = "retry" => AllSent, Hear(p), draft' = NoDraft
  PROVE  Grows
  <1>1. /\ asked' \in [Waves -> Prompts]
        /\ \A w \in Waves : Sent(w) => Sent(w)'
        /\ p.kind # "retry" => \A w \in Waves : asked'[w].retry = asked[w].retry
    BY Heard DEF IInv
  <1>2. RetriesAfterTexts
    BY <1>1 DEF IInv, Prompts, RetriesAfterTexts
  <1> QED BY <1>1, <1>2 DEF Grows, DraftSent, NoDraft

LEMMA UnheardGrows ==
  ASSUME IInv, asked' = asked,
         \/ draft' = draft
         \/ draft' = NoDraft
         \/ draft'.kind \in Kinds /\ (draft'.kind = "retry" => AllSent)
  PROVE  Grows
  <1>1. \A w \in Waves : Sent(w)' <=> Sent(w)
    BY DEF Sent
  <1>2. RetriesAfterTexts
    BY DEF IInv, Prompts, RetriesAfterTexts
  <1>3. DraftSent'
    BY <1>1 DEF IInv, DraftSent, AllSent, NoDraft
  <1> QED BY <1>1, <1>2, <1>3 DEF IInv, Grows

LEMMA FlushEffects ==
  ASSUME IInv, FlushDraft
  PROVE  Grows /\ task' = NoTask /\ UNCHANGED recordVars
  <1>1. /\ draft.kind \in Kinds /\ (draft.kind = "retry" => AllSent)
        /\ Hear(draft) /\ draft' = NoDraft
    BY DEF FlushDraft, IInv, DraftSent
  <1>2. Grows BY <1>1, HeardGrows
  <1>3. task' = NoTask /\ UNCHANGED recordVars
    BY DEF FlushDraft, Abandon, Restart
  <1> QED BY <1>2, <1>3

LEMMA SubmitEffects ==
  ASSUME IInv, NEW p, NEW next, p.kind \in Kinds, p.kind = "retry" => AllSent,
         Submit(p, next) \/ SubmitInNewChat(p, next)
  PROVE  /\ Grows /\ UNCHANGED recordVars
         /\ \/ task' = NoTask
            \/ /\ task' = next
               /\ p.kind = "text" => \A w \in Waves \intersect p.waves : Sent(w)'
  <1>1. CASE Hear(p) /\ task' = next /\ draft' = NoDraft /\ UNCHANGED recordVars
    BY <1>1, Heard, HeardGrows DEF IInv
  <1>2. CASE draft' \in {p, NoDraft} /\ asked' = asked /\ task' = NoTask /\ UNCHANGED recordVars
    BY <1>2, UnheardGrows
  <1>3. CASE FlushDraft
    BY <1>3, FlushEffects
  <1> QED BY <1>1, <1>2, <1>3 DEF Submit, SubmitInNewChat, Then, Abandon, Restart

-----------------------------------------------------------------------------
(* The steps *)

\* What a step keeps that writes no record and tells no chat too little.
LEMMA RecordKept ==
  ASSUME IInv, Grows, UNCHANGED recordVars
  PROVE  lines' \subseteq Waves /\ NoTextLost'
  BY DEF IInv, Grows, NoTextLost, Sent, recordVars

\* A step that starts no function past a prompt.
LEMMA PlainStep ==
  ASSUME IInv, Grows, status' = status \/ status' # "processing",
         lines' = lines \/ (status' # "processing" /\ lines' = {}),
         \/ task' = task
         \/ IsTask(task') /\ task'.step \notin {"mark", "record", "purge", "retry"}
  PROVE  IInv'
  <1>1. lines' \subseteq Waves /\ asked' \in [Waves -> Prompts] /\ DraftSent'
    BY DEF IInv, Grows
  <1>2. TaskSent'
    BY DEF IInv, TaskSent, Grows, AllSent
  <1>3. NoTextLost'
    BY DEF IInv, NoTextLost, Grows, Sent
  <1>4. IsTask(task)'
    BY DEF IInv, IsTask
  <1> QED BY <1>1, <1>2, <1>3, <1>4 DEF IInv

LEMMA TaskSteps ==
  ASSUME IInv, TaskStep
  PROVE  IInv' /\ Grows
  <1> DEFINE w == task.wave
  <1> DEFINE next(step) == [task EXCEPT !.step = step]
  <1>a. IsTask(task)
    BY DEF IInv
  <1>b. \A step : IsTask(next(step)) /\ next(step).step = step /\ next(step).wave = w
    BY <1>a, Tasks
  <1>c. IsTask(NoTask) /\ NoTask.step = "none"
    BY <1>a, Tasks
  <1> HIDE DEF next
  <1>1. CASE AdvanceText
    <2>1. /\ w + 1 \in Waves
          /\ Submit(Prompt("text", {w + 1}), next("mark"))
      BY <1>1 DEF AdvanceText, HasNext, next
    <2>2. Prompt("text", {w + 1}).kind = "text" /\ Prompt("text", {w + 1}).waves = {w + 1}
      BY DEF Prompt
    <2>3. /\ Grows /\ UNCHANGED recordVars
          /\ \/ task' = NoTask
             \/ task' = next("mark") /\ asked'[w + 1].text > 0
      BY <2>1, <2>2, SubmitEffects DEF Kinds, Sent
    <2>4. TaskSent' /\ IsTask(task)'
      <3>1. CASE task' = NoTask
        BY <3>1, <1>c DEF TaskSent, IsTask
      <3>2. CASE task' = next("mark") /\ asked'[w + 1].text > 0
        BY <3>2, <1>b DEF TaskSent, IsTask, Sent
      <3> QED BY <2>3, <3>1, <3>2
    <2> QED BY <2>3, <2>4, RecordKept DEF IInv, Grows
  <1>2. CASE OpenText
    <2>1. SubmitInNewChat(Prompt("text", {w}), next("record"))
      BY <1>2 DEF OpenText, next
    <2>2. Prompt("text", {w}).kind = "text" /\ Prompt("text", {w}).waves = {w}
      BY DEF Prompt
    <2>3. /\ Grows /\ UNCHANGED recordVars
          /\ \/ task' = NoTask
             \/ task' = next("record") /\ (w \in Waves => asked'[w].text > 0)
      BY <2>1, <2>2, SubmitEffects DEF Kinds, Sent
    <2>4. TaskSent' /\ IsTask(task)'
      <3>1. CASE task' = NoTask
        BY <3>1, <1>c DEF TaskSent, IsTask
      <3>2. CASE task' = next("record") /\ (w \in Waves => asked'[w].text > 0)
        BY <3>2, <1>b DEF TaskSent, IsTask, Sent
      <3> QED BY <2>3, <3>1, <3>2
    <2> QED BY <2>3, <2>4, RecordKept DEF IInv, Grows
  <1>3. ASSUME NEW p, NEW then, Submit(p, then), p.kind \in Kinds, p.kind = "retry" => AllSent,
               IsTask(then), then.step \notin {"mark", "record", "purge", "retry"}
        PROVE  IInv' /\ Grows
    <2>1. Grows /\ UNCHANGED recordVars /\ task' \in {NoTask, then}
      BY <1>3, SubmitEffects
    <2>2. IsTask(task') /\ task'.step \notin {"mark", "record", "purge", "retry"}
      BY <1>3, <2>1, <1>c
    <2> QED BY <2>1, <2>2, PlainStep DEF recordVars
  <1>4. CASE ContinuePrompt
    BY <1>3, <1>4, <1>c DEF ContinuePrompt, Prompt, Kinds
  <1>5. CASE FinalPrompt
    <2>1. Submit(Prompt("final", {w}), next("count"))
      BY <1>5 DEF FinalPrompt, next
    <2> QED BY <1>3, <2>1, <1>b DEF Prompt, Kinds
  <1>6. CASE RetryPrompt
    <2>1. Submit(Prompt("retry", task.group), next("retried")) /\ AllSent
      BY <1>6 DEF RetryPrompt, next, IInv, TaskSent
    <2> QED BY <1>3, <2>1, <1>b DEF Prompt, Kinds
  <1>7. CASE AdvanceEnds \/ FinalCount \/ RetryRecord
    <2>1. /\ asked' = asked /\ draft' = draft /\ task' = NoTask
          /\ status' = status /\ lines' = lines
      BY <1>7 DEF AdvanceEnds, FinalCount, RetryRecord, TaskDone, Then, desktopVars
    <2>2. Grows
      BY <2>1, UnheardGrows
    <2> QED BY <2>1, <2>2, <1>c, PlainStep
  <1>8. CASE AdvanceMark \/ RecordSession \/ PurgeText
    <2>1. asked' = asked /\ draft' = draft /\ status' = status
      BY <1>8 DEF AdvanceMark, RecordSession, PurgeText, desktopVars
    <2>2. Grows
      BY <2>1, UnheardGrows
    <2>3. /\ lines' = lines \/ (task.step = "purge" /\ lines' = lines \ {w})
          /\ \/ task.step = "mark" /\ task' = Task("record", w + 1)
             \/ task.step = "record" /\ task' = next("purge")
             \/ task' = NoTask
      BY <1>8 DEF AdvanceMark, RecordSession, PurgeText, TaskDone, Then, next
    <2>4. /\ IsTask(task')
          /\ \/ task.step = "mark" /\ task'.step = "record" /\ task'.wave = w + 1
             \/ task.step = "record" /\ task'.step = "purge" /\ task'.wave = w
             \/ task'.step = "none"
      BY <2>3, <1>a, <1>b, <1>c, Tasks
    <2>5. TaskSent'
      BY <2>2, <2>4 DEF IInv, TaskSent, Grows
    <2>6. NoTextLost'
      BY <2>1, <2>3 DEF IInv, TaskSent, NoTextLost, Sent
    <2>7. lines' \subseteq Waves
      BY <2>3 DEF IInv
    <2> QED BY <2>2, <2>4, <2>5, <2>6, <2>7 DEF IInv, Grows, IsTask
  <1> QED BY <1>1, <1>2, <1>4, <1>5, <1>6, <1>7, <1>8 DEF TaskStep

LEMMA LoopSteps ==
  ASSUME IInv, Loop
  PROVE  IInv' /\ Grows
  <1>a. IsTask(task)
    BY DEF IInv
  <1>b. IsTask(NoTask) /\ NoTask.step = "none"
    BY <1>a, Tasks
  <1>1. ASSUME FlushDraft
        PROVE  IInv' /\ Grows
    BY <1>1, <1>b, FlushEffects, PlainStep DEF recordVars
  <1>2. ASSUME asked' = asked, draft' = draft,
               status' = status \/ status' # "processing",
               lines' = lines \/ (status' # "processing" /\ lines' = {}),
               \/ task' = task
               \/ IsTask(task') /\ task'.step \notin {"mark", "record", "purge", "retry"}
        PROVE  IInv' /\ Grows
    <2>1. Grows
      BY <1>2, UnheardGrows
    <2> QED BY <1>2, <2>1, PlainStep
  <1>3. CASE Attach
    BY <1>1, <1>2, <1>3 DEF Attach, Goto, recordVars, desktopVars
  <1>4. CASE CreateMissing \/ OpenDone \/ SettleNothing \/ PollNothing
    BY <1>2, <1>4 DEF CreateMissing, OpenDone, SettleNothing, PollNothing, Goto, recordVars, desktopVars
  <1>5. CASE OpenNext
    <2>1. /\ UNCHANGED <<recordVars, desktopVars>>
          /\ \E v, st : task' = Advance(v, st) \/ task' = Task("open", v)
      BY <1>5 DEF OpenNext
    <2>2. IsTask(task') /\ task'.step \in {"text", "open"}
      BY <2>1, <1>a, Tasks
    <2> QED BY <2>1, <2>2, <1>2 DEF recordVars, desktopVars
  <1>6. CASE SettleRetry
    <2>1. /\ status = "processing" /\ lines = {}
          /\ UNCHANGED <<recordVars, desktopVars>>
          /\ task' = [Task("retry", Min(RetryGroup)) EXCEPT !.group = RetryGroup]
      BY <1>6 DEF SettleRetry, Quiet
    <2>2. AllSent
      BY <2>1 DEF IInv, NoTextLost, AllSent, Sent
    <2>3. Grows
      BY <2>1, UnheardGrows DEF desktopVars
    <2>4. IsTask(task') /\ task'.step = "retry"
      BY <2>1 DEF Task, NoTask, IsTask
    <2>5. TaskSent'
      BY <2>2, <2>3, <2>4 DEF TaskSent, AllSent, Grows
    <2> QED BY <2>1, <2>3, <2>4, <2>5, RecordKept DEF IInv, Grows, IsTask
  <1>7. CASE SettleFail \/ SettleOverLimit
    BY <1>2, <1>7 DEF SettleFail, SettleOverLimit, Goto, desktopVars
  <1>8. CASE StopTerminal
    <2>1. CASE draft # NoDraft /\ Hear(draft) /\ draft' = NoDraft /\ UNCHANGED <<recordVars, task>>
      <3>1. Grows
        BY <2>1, HeardGrows DEF IInv, DraftSent
      <3> QED BY <2>1, <3>1, PlainStep DEF recordVars
    <2>2. CASE Goto("attach") /\ UNCHANGED <<recordVars, draft, asked>>
      BY <2>2, <1>2 DEF Goto, recordVars
    <2> QED BY <1>8, <2>1, <2>2 DEF StopTerminal
  <1>9. CASE PollDraft
    BY <1>1, <1>9 DEF PollDraft
  <1> QED BY <1>3, <1>4, <1>5, <1>6, <1>7, <1>8, <1>9 DEF Loop

LEMMA PollSteps ==
  ASSUME IInv, NEW c \in Convs, PollEnds(c)
  PROVE  IInv' /\ Grows
  <1>a. IsTask(task)
    BY DEF IInv
  <1>1. /\ asked' = asked /\ draft' = draft /\ status' = status /\ lines' = lines
        /\ \/ task' = task \/ task' = NoTask
           \/ \E v, s : task' = Advance(v, s) \/ task' = Task("final", v) \/ task' = Task("continue", v)
    <2>1. ASSUME NEW v, ContinueWave(v)
          PROVE  /\ status' = status /\ lines' = lines
                 /\ \/ task' = NoTask
                    \/ \E u, s : \/ task' = Advance(u, s) \/ task' = Task("final", u)
                               \/ task' = Task("continue", u)
      <3>1. CASE ContinueFinished(v)
        BY <2>1, <3>1 DEF ContinueWave, ContinueFinished
      <3>2. CASE ContinueFinal(v)
        BY <2>1, <3>2 DEF ContinueWave, ContinueFinal
      <3>3. CASE ContinueExhausted(v)
        BY <2>1, <3>3 DEF ContinueWave, ContinueExhausted
      <3>4. CASE ContinueStalled(v)
        BY <2>1, <3>4 DEF ContinueWave, ContinueStalled
      <3> QED BY <2>1, <3>1, <3>2, <3>3, <3>4 DEF ContinueWave
    <2>2. ASSUME FinishGroup(c)
          PROVE  status' = status /\ lines' = lines /\ task' = NoTask
      BY <2>2 DEF FinishGroup
    <2>3. CASE AdvanceMachine(c)
      BY <2>3, <2>1 DEF AdvanceMachine, desktopVars
    <2>4. CASE Reply(c)
      BY <2>4, <2>1, <2>2 DEF Reply, Goto, desktopVars
    <2>5. CASE Timeout(c)
      BY <2>5, <2>1, <2>2 DEF Timeout
    <2> QED BY <2>3, <2>4, <2>5 DEF PollEnds
  <1>2. task' = task \/ (IsTask(task') /\ task'.step \in {"none", "text", "final", "continue"})
    BY <1>1, <1>a, Tasks
  <1>3. Grows
    BY <1>1, UnheardGrows
  <1> QED BY <1>1, <1>2, <1>3, PlainStep

LEMMA OtherSteps ==
  ASSUME IInv, Agents \/ AdoptReceipt \/ Cancel \/ Crash \/ Rest \/ UNCHANGED vars
  PROVE  IInv' /\ Grows
  <1>1. /\ asked' = asked /\ draft' = draft
        /\ status' = status \/ status' # "processing"
        /\ lines' = lines \/ (status' # "processing" /\ lines' = {})
        /\ task' = task \/ task' = NoTask
    <2>1. CASE Agents
      BY <2>1 DEF Agents, Register, SaveResult, CompletePrice, Deliver, ChatStops, desktopVars, recordVars
    <2>2. CASE AdoptReceipt \/ Cancel
      BY <2>2 DEF AdoptReceipt, Cancel, desktopVars
    <2>3. CASE Crash
      BY <2>3 DEF Crash, Restart, desktopVars, recordVars
    <2>4. CASE Rest \/ UNCHANGED vars
      BY <2>4 DEF Rest, vars, desktopVars, recordVars
    <2> QED BY <2>1, <2>2, <2>3, <2>4
  <1>2. IsTask(NoTask) /\ NoTask.step = "none"
    BY Tasks DEF IInv
  <1>3. Grows
    BY <1>1, UnheardGrows
  <1> QED BY <1>1, <1>2, <1>3, PlainStep

LEMMA NextKeeps ==
  ASSUME IInv, [Next]_vars
  PROVE  IInv' /\ Grows
  BY TaskSteps, LoopSteps, PollSteps, OtherSteps DEF Next

LEMMA InitKeeps ==
  ASSUME Init
  PROVE  IInv
  <1> USE DEF Init
  <1>1. MaxAsked \in Nat \ {0}
    BY WavesAssumption
  <1>2. asked \in [Waves -> Prompts]
    BY <1>1 DEF Prompts
  <1>3. lines \subseteq Waves /\ NoTextLost
    BY DEF NoTextLost
  <1>4. IsTask(task) /\ TaskSent
    BY DEF IsTask, NoTask, TaskSent
  <1>5. DraftSent
    BY DEF DraftSent, NoDraft
  <1> QED BY <1>2, <1>3, <1>4, <1>5 DEF IInv

-----------------------------------------------------------------------------
(* The theorems *)

THEOREM TextsAreSound == Spec => []IInv
  <1>1. Init => IInv
    BY InitKeeps
  <1>2. IInv /\ [Next]_vars => IInv'
    BY NextKeeps
  <1> QED BY <1>1, <1>2, PTL DEF Spec

\* However sends, records, purges, restarts and unconfirmed prompts of
\* advance_to_next_wave and create_missing_component_chats interleave, a text
\* leaves the queue file only after a chat has it.
THEOREM TextsAreKept == Spec => []NoTextLost
  <1>1. IInv => NoTextLost
    BY DEF IInv
  <1> QED BY <1>1, TextsAreSound, PTL

\* settle_programmatic_delivery sends a deferred retry, also one that was left
\* in the composer, only when every wave of the job has been sent.
THEOREM RetriesComeLast == Spec => RetryAfterAllTexts
  <1>1. IInv /\ [Next]_vars =>
          [(\E w \in Waves : asked'[w].retry > asked[w].retry)
             => \A v \in Waves : asked[v].text > 0]_vars
    BY NextKeeps DEF Grows, RetriesAfterTexts, AllSent, Sent
  <1> QED BY <1>1, TextsAreSound, PTL DEF Spec, RetryAfterAllTexts

-----------------------------------------------------------------------------
(* Numbers and waves *)
\* Min of FiniteSetsExt, of a set of naturals.
LEMMA MinOf ==
  ASSUME NEW S, S \subseteq Nat, S # {}
  PROVE  Min(S) \in S /\ \A x \in S : Min(S) <= x
  <1> DEFINE R == OpToRel(<, Nat)
  <1>1. IsWellFoundedOn(R, Nat)
    BY NatLessThanWellFounded
  <1> HIDE DEF R
  <1>2. PICK x \in S : \A y \in S : ~(<<y, x>> \in R)
    BY <1>1, WFMin
  <1>3. \A y \in S : ~(y < x)
    BY <1>2 DEF R, OpToRel
  <1>4. \A y \in S : x <= y
    BY <1>3
  <1> QED BY <1>4 DEF Min

\* A wave, its conversation and its components.
LEMMA WaveFacts ==
  ASSUME NEW w \in Waves
  PROVE  /\ w \in Nat /\ ConvOf(w) \in Convs
         /\ Roots[w] \in Nat \ {0} /\ Children[w] \in Nat
         /\ Keys(w) \subseteq Nat
  <1>1. w \in Nat /\ ConvOf(w) \in Convs
    BY WavesAssumption DEF Waves, Convs
  <1>2. Roots[w] \in Nat \ {0} /\ Children[w] \in Nat
    BY WavesAssumption
  <1>3. Keys(w) \subseteq Nat
    BY <1>2 DEF Keys
  <1> QED BY <1>1, <1>2, <1>3

\* The wave before a second wave is the first of its conversation.
LEMMA SecondWave ==
  ASSUME NEW w \in Waves, IsSecond(w)
  PROVE  w - 1 \in Waves /\ ConvOf(w - 1) = ConvOf(w) /\ ~IsSecond(w - 1)
  BY WavesAssumption DEF Waves, IsSecond, ConvOf

\* A conversation has two waves at most.
LEMMA TwoWaves ==
  ASSUME NEW v \in Waves, NEW w \in Waves, ConvOf(v) = ConvOf(w)
  PROVE  \/ v = w
         \/ IsSecond(w) /\ v = w - 1
         \/ IsSecond(v) /\ w = v - 1
  BY WavesAssumption DEF Waves, IsSecond, ConvOf

\* Max of FiniteSetsExt, of waves of one conversation.
LEMMA MaxOf ==
  ASSUME NEW S, S \subseteq Waves, S # {}, \A v, w \in S : ConvOf(v) = ConvOf(w)
  PROVE  Max(S) \in S
  <1>1. PICK x \in S : \A y \in S : x >= y
    <2>1. PICK v \in S : TRUE
      OBVIOUS
    <2>2. \A y \in S : \/ y = v \/ y = v - 1 \/ y - 1 = v
      BY TwoWaves
    <2>3. S \subseteq Nat
      BY WaveFacts
    <2>4. CASE v + 1 \in S
      <3>1. \A y \in S : y = v + 1 \/ y = v \/ y = v - 1
        BY <2>2, <2>3, <2>1
      <3> QED BY <2>4, <3>1, <2>3
    <2>5. CASE v + 1 \notin S
      BY <2>1, <2>2, <2>3, <2>5
    <2> QED BY <2>4, <2>5
  <1> QED BY <1>1 DEF Max

-----------------------------------------------------------------------------
(* The shapes of the variables *)

Prints == [completed : SUBSET Nat, saved : BOOLEAN, pending : BOOLEAN, remaining : SUBSET Nat]
Sessions == [status : SessionStatus, deferred : SUBSET Nat, retrySent : BOOLEAN,
             finals : Nat, settle : Prints]
Over == {"saved", "stalled", "deferred"}
Tasking == [step : Steps, wave : Waves \union {-1}, as : Over \union {"none"}, group : SUBSET Waves]
Chats == [wave : Waves \union {-1}, group : SUBSET Waves]
Drafts == [kind : Kinds \union {"none"}, waves : SUBSET Waves]

GoodTask(t) ==
  /\ t \in Tasking
  /\ t.step = "none" => t = NoTask
  /\ t.step # "none" => t.wave \in Waves
  /\ t.step \in {"text", "mark"} => t.as \in Over
  /\ t.step = "mark" => t.wave + 1 \in Waves /\ ConvOf(t.wave + 1) = ConvOf(t.wave)
  /\ t.step \in {"retry", "retried"} =>
       t.wave \in t.group /\ \A w \in t.group : ConvOf(w) = ConvOf(t.wave)
TaskTyped == GoodTask(task)

SessionsTyped ==
  /\ session \in [Waves -> Sessions]
  /\ \A w \in Waves : session[w].deferred \subseteq Keys(w)

GoodChat(c, q) == q \in Chats /\ (q # NoChat => q.wave \in Waves /\ ConvOf(q.wave) = c)
ChatsTyped == DOMAIN chat = Convs /\ \A c \in Convs : GoodChat(c, chat[c])

DoneTyped ==
  /\ DOMAIN done = Waves /\ \A w \in Waves : done[w] \subseteq Keys(w)
  /\ saved \subseteq registered /\ registered \subseteq Waves

DraftTyped == draft \in Drafts /\ (draft = NoDraft \/ draft.kind \in Kinds)

RestTyped ==
  /\ status \in {"processing", "failed", "delivered", "cancelled"}
  /\ lines \subseteq Waves /\ plan \subseteq Waves
  /\ owner \in Waves \union {-1} /\ receipt \in BOOLEAN
  /\ turn \in [Convs -> {"idle", "working"}]
  /\ phase \in {"attach", "create", "open", "settle", "turn", "polled", "timed"}
  /\ asked \in [Waves -> Prompts]
  /\ misses \in 0..MaxMisses /\ crashes \in 0..MaxCrashes

Typed ==
  /\ TaskTyped /\ SessionsTyped /\ ChatsTyped /\ DoneTyped /\ DraftTyped /\ RestTyped

\* The shapes imply the type invariant of the runs.
LEMMA TypedIsTypeOK ==
  ASSUME Typed
  PROVE  TypeOK
  <1>1. \A w \in Waves :
          /\ session[w].status \in SessionStatus
          /\ session[w].deferred \subseteq Keys(w)
          /\ session[w].retrySent \in BOOLEAN
          /\ session[w].finals \in Nat
          /\ done[w] \subseteq Keys(w)
    BY DEF Typed, SessionsTyped, Sessions, DoneTyped
  <1>2. task.step \in Steps /\ task.group \subseteq Waves
    BY DEF Typed, TaskTyped, GoodTask, Tasking
  <1>3. \A c \in Convs : chat[c] = NoChat \/ ConvOf(chat[c].wave) = c
    BY DEF Typed, ChatsTyped, GoodChat
  <1>4. draft.waves \subseteq Waves
    BY DEF Typed, DraftTyped, Drafts
  <1>5. DOMAIN session = Waves
    BY DEF Typed, SessionsTyped
  <1> QED BY <1>1, <1>2, <1>3, <1>4, <1>5 DEF Typed, RestTyped, DoneTyped, TypeOK

-----------------------------------------------------------------------------
(* What the worker writes into a session *)

SessionIs(s, st, def, retry, n) ==
  /\ s \in Sessions
  /\ s.status = st /\ s.deferred = def /\ s.retrySent = retry /\ s.finals = n

\* Session w becomes this, and the others stay.
Writes(w, st, def, retry, n) ==
  /\ session' \in [Waves -> Sessions]
  /\ SessionIs(session'[w], st, def, retry, n)
  /\ \A v \in Waves \ {w} : session'[v] = session[v]

\* The records that the code writes into a session.
LEMMA SessionShapes ==
  ASSUME NEW s \in Sessions, NEW st \in SessionStatus, NEW d \in SUBSET Nat
  PROVE  /\ SessionIs(Marked(s, st), st, s.deferred, s.retrySent, s.finals)
         /\ SessionIs([Marked(s, st) EXCEPT !.deferred = d], st, d, s.retrySent, s.finals)
         /\ SessionIs([Marked(s, st) EXCEPT !.finals = s.finals + 1], st, s.deferred, s.retrySent, s.finals + 1)
         /\ SessionIs([Marked(s, st) EXCEPT !.retrySent = TRUE], st, s.deferred, TRUE, s.finals)
         /\ SessionIs([Marked(s, st) EXCEPT !.deferred = @ \intersect d, !.retrySent = TRUE],
                      st, s.deferred \intersect d, TRUE, s.finals)
         /\ SessionIs(NewSession, "running", {}, FALSE, 0)
         /\ SessionIs(NoSession, "none", {}, FALSE, 0)
  <1> DEFINE m == Marked(s, st)
  <1>0. NoPrint \in Prints
    BY DEF NoPrint, Prints
  <1>1. SessionIs(m, st, s.deferred, s.retrySent, s.finals)
    BY <1>0 DEF Marked, Sessions, SessionIs
  <1>3. SessionIs(NewSession, "running", {}, FALSE, 0)
    BY <1>0 DEF Sessions, SessionIs, NewSession, SessionStatus
  <1>4. SessionIs(NoSession, "none", {}, FALSE, 0)
    <2> DEFINE n == NewSession
    <2>1. n \in Sessions /\ n.deferred = {} /\ n.retrySent = FALSE /\ n.finals = 0
      BY <1>3 DEF SessionIs
    <2>2. NoSession = [n EXCEPT !.status = "none"]
      BY DEF NoSession
    <2> HIDE DEF n
    <2> QED BY <2>1, <2>2 DEF Sessions, SessionIs, SessionStatus
  <1> HIDE DEF m
  <1>5. m \in Sessions /\ m.status = st /\ m.deferred = s.deferred /\ m.retrySent = s.retrySent
        /\ m.finals = s.finals
    BY <1>1 DEF SessionIs
  <1>6. SessionIs([m EXCEPT !.deferred = d], st, d, s.retrySent, s.finals)
    BY <1>5 DEF Sessions, SessionIs
  <1>7. SessionIs([m EXCEPT !.finals = s.finals + 1], st, s.deferred, s.retrySent, s.finals + 1)
    BY <1>5 DEF Sessions, SessionIs
  <1>8. SessionIs([m EXCEPT !.retrySent = TRUE], st, s.deferred, TRUE, s.finals)
    BY <1>5 DEF Sessions, SessionIs
  <1>9. SessionIs([m EXCEPT !.deferred = @ \intersect d, !.retrySent = TRUE],
                      st, s.deferred \intersect d, TRUE, s.finals)
    BY <1>5 DEF Sessions, SessionIs
  <1> QED BY <1>1, <1>3, <1>4, <1>6, <1>7, <1>8, <1>9 DEF m

\* The functions that the code starts.
LEMMA TaskShapes ==
  /\ GoodTask(NoTask) /\ NoTask.step = "none"
  /\ \A w \in Waves, step \in Steps \ {"none", "text", "mark", "retry", "retried"} :
       GoodTask(Task(step, w)) /\ Task(step, w).step = step /\ Task(step, w).wave = w
  /\ \A w \in Waves, st \in Over :
       /\ GoodTask(Advance(w, st)) /\ Advance(w, st).step = "text"
       /\ Advance(w, st).wave = w /\ Advance(w, st).as = st
  <1>1. GoodTask(NoTask) /\ NoTask.step = "none"
    BY DEF GoodTask, Tasking, NoTask, Steps
  <1>2. ASSUME NEW w \in Waves, NEW step \in Steps \ {"none"}
        PROVE  Task(step, w) = [step |-> step, wave |-> w, as |-> "none", group |-> {}]
    <2> DEFINE n == NoTask
    <2>1. n = [step |-> "none", wave |-> -1, as |-> "none", group |-> {}]
      BY DEF NoTask
    <2>2. Task(step, w) = [n EXCEPT !.step = step, !.wave = w]
      BY DEF Task
    <2> HIDE DEF n
    <2> QED BY <2>1, <2>2
  <1>3. ASSUME NEW w \in Waves, NEW step \in Steps \ {"none", "text", "mark", "retry", "retried"}
        PROVE  GoodTask(Task(step, w)) /\ Task(step, w).step = step /\ Task(step, w).wave = w
    BY <1>2 DEF GoodTask, Tasking
  <1>4. ASSUME NEW w \in Waves, NEW st \in Over
        PROVE  /\ GoodTask(Advance(w, st)) /\ Advance(w, st).step = "text"
               /\ Advance(w, st).wave = w /\ Advance(w, st).as = st
    <2>1. Advance(w, st) = [step |-> "text", wave |-> w, as |-> st, group |-> {}]
      <3> DEFINE n == Task("text", w)
      <3>1. n = [step |-> "text", wave |-> w, as |-> "none", group |-> {}]
        BY <1>2 DEF Steps
      <3>2. Advance(w, st) = [n EXCEPT !.as = st]
        BY DEF Advance
      <3> HIDE DEF n
      <3> QED BY <3>1, <3>2
    <2> QED BY <2>1 DEF GoodTask, Tasking, Steps
  <1> QED BY <1>1, <1>3, <1>4

\* A task goes on to its next step.
LEMMA NextStep ==
  ASSUME GoodTask(task), task.step # "none", NEW step \in Steps \ {"none", "text"},
         step = "mark" => /\ task.step = "text" /\ task.wave + 1 \in Waves
                          /\ ConvOf(task.wave + 1) = ConvOf(task.wave),
         step \in {"retry", "retried"} => task.step = "retry"
  PROVE  LET t == [task EXCEPT !.step = step]
         IN  /\ GoodTask(t) /\ t.step = step
             /\ t.wave = task.wave /\ t.as = task.as /\ t.group = task.group
  BY DEF GoodTask, Tasking

\* One session.
LEMMA SessionOf ==
  ASSUME SessionsTyped, NEW w \in Waves
  PROVE  /\ session[w] \in Sessions /\ session[w].status \in SessionStatus
         /\ session[w].deferred \in SUBSET Nat /\ session[w].deferred \subseteq Keys(w)
         /\ session[w].retrySent \in BOOLEAN /\ session[w].finals \in Nat
  <1>1. session[w] \in Sessions
    BY DEF SessionsTyped
  <1> QED BY <1>1, WaveFacts DEF SessionsTyped, Sessions

\* The function in progress.
LEMMA TaskOf ==
  ASSUME TaskTyped
  PROVE  /\ task.step \in Steps /\ task.group \subseteq Waves
         /\ task.step # "none" => task.wave \in Waves
         /\ task.step \in {"text", "mark"} => task.as \in Over
         /\ task.step = "none" <=> task = NoTask
  <1>1. NoTask.step = "none"
    BY TaskShapes
  <1> QED BY <1>1 DEF TaskTyped, GoodTask, Tasking

\* What advance_to_next_wave writes is a session status.
LEMMA OverIsStatus == Over \subseteq SessionStatus
  BY DEF Over, SessionStatus

\* An EXCEPT at one wave writes that session only.
LEMMA OneWrite ==
  ASSUME Typed, NEW w \in Waves, NEW e, session' = [session EXCEPT ![w] = e],
         NEW st, NEW def, NEW retry, NEW n, SessionIs(e, st, def, retry, n)
  PROVE  Writes(w, st, def, retry, n)
  BY DEF Typed, SessionsTyped, Writes, SessionIs

\* advance_to_next_wave closes the session of its wave.
LEMMA EndWrites ==
  ASSUME Typed, AdvanceEnds \/ AdvanceMark
  PROVE  /\ task.wave \in Waves /\ task.as \in Over
         /\ Writes(task.wave, task.as, session[task.wave].deferred,
                   session[task.wave].retrySent, session[task.wave].finals)
  <1> DEFINE w == task.wave
  <1>1. w \in Waves /\ task.as \in Over /\ task.as \in SessionStatus
    BY TaskOf, OverIsStatus DEF Typed, AdvanceEnds, AdvanceMark
  <1>2. session' = [session EXCEPT ![w] = Marked(session[w], task.as)]
    BY DEF AdvanceEnds, AdvanceMark
  <1>3. SessionIs(Marked(session[w], task.as), task.as, session[w].deferred,
                  session[w].retrySent, session[w].finals)
    BY <1>1, SessionOf, SessionShapes DEF Typed
  <1> QED BY <1>1, <1>2, <1>3, OneWrite

\* record_chat_session starts a session.
LEMMA RecordWrites ==
  ASSUME Typed, RecordSession
  PROVE  task.wave \in Waves /\ Writes(task.wave, "running", {}, FALSE, 0)
  <1>1. task.wave \in Waves /\ session' = [session EXCEPT ![task.wave] = NewSession]
    BY TaskOf DEF Typed, RecordSession
  <1>2. SessionIs(NewSession, "running", {}, FALSE, 0)
    BY <1>1, SessionOf, SessionShapes DEF Typed
  <1> QED BY <1>1, <1>2, OneWrite

\* A request for the result is counted.
LEMMA CountWrites ==
  ASSUME Typed, FinalCount
  PROVE  /\ task.wave \in Waves
         /\ Writes(task.wave, "running", session[task.wave].deferred,
                   session[task.wave].retrySent, session[task.wave].finals + 1)
  <1> DEFINE w == task.wave
  <1> DEFINE e == [Marked(session[w], "running") EXCEPT !.finals = session[w].finals + 1]
  <1>1. w \in Waves
    BY TaskOf DEF Typed, FinalCount
  <1>3. session' = [session EXCEPT ![w] = e]
    BY DEF FinalCount
  <1>2. SessionIs(e, "running", session[w].deferred, session[w].retrySent, session[w].finals + 1)
    BY <1>1, SessionOf, SessionShapes DEF Typed, SessionStatus
  <1> QED BY <1>1, <1>2, <1>3, OneWrite

\* The retry is recorded in every session of its group.
LEMMA RetryWrites ==
  ASSUME Typed, RetryRecord
  PROVE  /\ session' \in [Waves -> Sessions]
         /\ \A w \in task.group :
              SessionIs(session'[w], "running", session[w].deferred \intersect Incomplete(w),
                        TRUE, session[w].finals)
         /\ \A w \in Waves \ task.group : session'[w] = session[w]
  <1>0. task.group \subseteq Waves
    BY TaskOf DEF Typed
  <1>1. ASSUME NEW w \in task.group
        PROVE  SessionIs([Marked(session[w], "running") EXCEPT
                            !.deferred = @ \intersect Incomplete(w), !.retrySent = TRUE],
                         "running", session[w].deferred \intersect Incomplete(w),
                         TRUE, session[w].finals)
    <2>1. Incomplete(w) \in SUBSET Nat
      BY <1>0, WaveFacts DEF Incomplete
    <2> QED BY <1>0, <2>1, SessionOf, SessionShapes DEF Typed, SessionStatus
  <1>2. session' = [w \in Waves |->
       IF w \in task.group
       THEN [Marked(session[w], "running") EXCEPT
               !.deferred = @ \intersect Incomplete(w), !.retrySent = TRUE]
       ELSE session[w]]
    BY DEF RetryRecord
  <1>3. \A w \in task.group :
          session'[w] = [Marked(session[w], "running") EXCEPT
                           !.deferred = @ \intersect Incomplete(w), !.retrySent = TRUE]
    BY <1>0, <1>2
  <1>4. \A w \in Waves \ task.group : session'[w] = session[w]
    BY <1>2
  <1>5. \A w \in task.group :
              SessionIs(session'[w], "running", session[w].deferred \intersect Incomplete(w),
                        TRUE, session[w].finals)
    BY <1>1, <1>3
  <1>6. \A w \in Waves : session'[w] \in Sessions
    BY <1>4, <1>5 DEF SessionIs, Typed, SessionsTyped
  <1>7. session' \in [Waves -> Sessions]
    BY <1>2, <1>6
  <1> QED BY <1>4, <1>5, <1>7

\* A wave that had its retry and is still open fails.
LEMMA ExhaustedWrites ==
  ASSUME Typed, NEW w \in Waves, ContinueExhausted(w)
  PROVE  Writes(w, "deferred_failed", Incomplete(w), session[w].retrySent, session[w].finals)
  <1> DEFINE e == [Marked(session[w], "deferred_failed") EXCEPT !.deferred = Incomplete(w)]
  <1>1. session' = [session EXCEPT ![w] = e]
    BY DEF ContinueExhausted
  <1>2. Incomplete(w) \in SUBSET Nat
    BY WaveFacts DEF Incomplete
  <1>3. SessionIs(e, "deferred_failed", Incomplete(w), session[w].retrySent, session[w].finals)
    BY <1>2, SessionOf, SessionShapes DEF Typed, SessionStatus
  <1> QED BY <1>1, <1>3, OneWrite

\* The first component that is not on the list yet joins it.
LEMMA StalledWrites ==
  ASSUME Typed, NEW w \in Waves, ContinueStalled(w)
  PROVE  \E stalled \in SUBSET (Incomplete(w) \ OwnDeferred(w)) :
           LET fresh == Incomplete(w) \ OwnDeferred(w)
               more == fresh # stalled
           IN  /\ fresh # {} => \E k \in fresh : stalled = {k} /\ \A j \in fresh : k <= j
               /\ Writes(w, IF more THEN "running" ELSE "deferred", OwnDeferred(w) \union stalled,
                         session[w].retrySent, session[w].finals)
               /\ task' = IF more THEN Task("continue", w) ELSE Advance(w, "deferred")
  <1> DEFINE fresh == Incomplete(w) \ OwnDeferred(w)
  <1> DEFINE stalled == IF fresh = {} THEN {} ELSE {Min(fresh)}
  <1> DEFINE st == IF fresh # stalled THEN "running" ELSE "deferred"
  <1> DEFINE e == [Marked(session[w], st) EXCEPT !.deferred = OwnDeferred(w) \union stalled]
  <1>1. /\ session' = [session EXCEPT ![w] = e]
        /\ task' = IF fresh # stalled THEN Task("continue", w) ELSE Advance(w, "deferred")
    BY DEF ContinueStalled
  <1>2. fresh \subseteq Nat /\ OwnDeferred(w) \subseteq Nat
    BY WaveFacts DEF Incomplete, OwnDeferred
  <1>3. fresh # {} => \E k \in fresh : stalled = {k} /\ \A j \in fresh : k <= j
    BY <1>2, MinOf
  <1>4. stalled \subseteq fresh
    BY <1>3
  <1>5. SessionIs(e, st, OwnDeferred(w) \union stalled, session[w].retrySent, session[w].finals)
    <2>1. OwnDeferred(w) \union stalled \in SUBSET Nat
      BY <1>2, <1>4
    <2>2. st \in SessionStatus
      BY DEF SessionStatus
    <2> HIDE DEF st, stalled
    <2> QED BY <2>1, <2>2, SessionOf, SessionShapes DEF Typed
  <1>6. Writes(w, st, OwnDeferred(w) \union stalled, session[w].retrySent, session[w].finals)
    <2> HIDE DEF e, st, stalled
    <2> QED BY <1>1, <1>5, OneWrite
  <1> HIDE DEF stalled
  <1> QED BY <1>1, <1>3, <1>4, <1>6

\* finish_deferred_group_sessions closes the sessions of the group.
LEMMA GroupWrites ==
  ASSUME Typed, NEW c \in Convs, FinishGroup(c)
  PROVE  /\ session' \in [Waves -> Sessions]
         /\ \A w \in chat[c].group :
              SessionIs(session'[w], IF Finished(w) THEN "saved" ELSE "deferred_failed",
                        session[w].deferred, TRUE, session[w].finals)
         /\ \A w \in Waves \ chat[c].group : session'[w] = session[w]
  <1>0. chat[c].group \subseteq Waves
    BY DEF Typed, ChatsTyped, GoodChat, Chats
  <1> DEFINE st(w) == IF Finished(w) THEN "saved" ELSE "deferred_failed"
  <1>1. ASSUME NEW w \in chat[c].group
        PROVE  SessionIs([Marked(session[w], st(w)) EXCEPT !.retrySent = TRUE],
                         st(w), session[w].deferred, TRUE, session[w].finals)
    <2>1. st(w) \in SessionStatus
      BY DEF SessionStatus
    <2> HIDE DEF st
    <2> QED BY <1>0, <2>1, SessionOf, SessionShapes DEF Typed
  <1>2. session' = [w \in Waves |->
       IF w \in chat[c].group
       THEN [Marked(session[w], st(w)) EXCEPT !.retrySent = TRUE]
       ELSE session[w]]
    BY DEF FinishGroup
  <1> HIDE DEF st
  <1>3. \A w \in chat[c].group :
          session'[w] = [Marked(session[w], st(w)) EXCEPT !.retrySent = TRUE]
    BY <1>0, <1>2
  <1>4. \A w \in Waves \ chat[c].group : session'[w] = session[w]
    BY <1>2
  <1>5. \A w \in chat[c].group :
              SessionIs(session'[w], st(w), session[w].deferred, TRUE, session[w].finals)
    BY <1>1, <1>3
  <1>6. \A w \in Waves : session'[w] \in Sessions
    BY <1>4, <1>5 DEF SessionIs, Typed, SessionsTyped
  <1>7. session' \in [Waves -> Sessions]
    BY <1>2, <1>6
  <1> QED BY <1>4, <1>5, <1>7 DEF st

\* A settle window changes nothing else of the session.
LEMMA SettleWrites ==
  ASSUME Typed, NEW w \in Waves, session' = [session EXCEPT ![w].settle = Fingerprint(w)]
  PROVE  Writes(w, session[w].status, session[w].deferred, session[w].retrySent, session[w].finals)
  <1> DEFINE p == Fingerprint(w)
  <1>1. p \in Prints
    <2>1. done[w] \in SUBSET Nat /\ Incomplete(w) \in SUBSET Nat
      BY WaveFacts DEF Typed, DoneTyped, Incomplete
    <2> QED BY <2>1 DEF Fingerprint, Prints, DeliveryPending
  <1>2. session' = [session EXCEPT ![w] = [session[w] EXCEPT !.settle = p]]
    BY DEF Typed, SessionsTyped
  <1> HIDE DEF p
  <1>3. SessionIs([session[w] EXCEPT !.settle = p], session[w].status, session[w].deferred,
                  session[w].retrySent, session[w].finals)
    BY <1>1, SessionOf DEF Typed, Sessions, SessionIs
  <1> QED BY <1>2, <1>3, OneWrite

-----------------------------------------------------------------------------
(* What keeps the shapes *)

ChatShape(f) == DOMAIN f = Convs /\ \A c \in Convs : GoodChat(c, f[c])
Phases == {"attach", "create", "open", "settle", "turn", "polled", "timed"}

\* The chats that the code holds.
LEMMA ChatShapes ==
  /\ \A c \in Convs : GoodChat(c, NoChat)
  /\ \A w \in Waves, g \in SUBSET Waves : GoodChat(ConvOf(w), [wave |-> w, group |-> g])
  /\ \A w \in Waves, g \in SUBSET Waves : [wave |-> w, group |-> g] # NoChat
  <1>1. \A w \in Waves, g \in SUBSET Waves : [wave |-> w, group |-> g] # NoChat
    <2> TAKE w \in Waves, g \in SUBSET Waves
    <2>1. w # -1
      BY WaveFacts
    <2>2. [wave |-> w, group |-> g].wave = w /\ NoChat.wave = -1
      BY DEF NoChat
    <2> QED BY <2>1, <2>2
  <1>2. \A c \in Convs : GoodChat(c, NoChat)
    BY DEF GoodChat, NoChat, Chats
  <1>3. \A w \in Waves, g \in SUBSET Waves : GoodChat(ConvOf(w), [wave |-> w, group |-> g])
    BY DEF GoodChat, Chats
  <1> QED BY <1>1, <1>2, <1>3

\* A plan adds components to a wave.
LEMMA KeysGrow ==
  ASSUME registered \subseteq registered', NEW w \in Waves
  PROVE  Keys(w) \subseteq Keys(w)'
  <1>1. Roots[w] \in Nat /\ Children[w] \in Nat
    BY WaveFacts
  <1> QED BY <1>1 DEF Keys

\* Sessions keep their shape while lists stay within the components.
LEMMA SessionsStay ==
  ASSUME Typed, registered \subseteq registered', session' \in [Waves -> Sessions],
         \A w \in Waves : session'[w].deferred \subseteq Keys(w)
  PROVE  SessionsTyped'
  BY KeysGrow DEF SessionsTyped

\* ... in particular when one session is written
LEMMA SessionWritten ==
  ASSUME Typed, registered' = registered, NEW w \in Waves, NEW st, NEW def, NEW retry, NEW n,
         Writes(w, st, def, retry, n), def \subseteq Keys(w)
  PROVE  SessionsTyped'
  <1>1. ASSUME NEW v \in Waves PROVE session'[v].deferred \subseteq Keys(v)
    BY SessionOf DEF Writes, SessionIs, Typed
  <1> QED BY <1>1, SessionsStay DEF Writes

\* ... or none.
LEMMA SessionSame ==
  ASSUME Typed, session' = session, registered \subseteq registered'
  PROVE  SessionsTyped'
  BY SessionOf, SessionsStay DEF Typed, SessionsTyped

\* What the backend has keeps its shape when it stays.
LEMMA DoneSame ==
  ASSUME Typed, UNCHANGED backendVars
  PROVE  DoneTyped' /\ owner' \in Waves \union {-1} /\ receipt' \in BOOLEAN
  BY DEF Typed, DoneTyped, RestTyped, backendVars, Keys

\* A chat that hears a prompt.
LEMMA HeardTyped ==
  ASSUME Typed, NEW p, p.kind \in Kinds, Hear(p)
  PROVE  asked' \in [Waves -> Prompts] /\ turn' \in [Convs -> {"idle", "working"}]
  <1>1. asked' \in [Waves -> Prompts]
    BY Heard DEF Typed, RestTyped
  <1>2. turn' \in [Convs -> {"idle", "working"}]
    BY DEF Hear, Typed, RestTyped
  <1> QED BY <1>1, <1>2

\* A function that is given up.
LEMMA AbandonTyped ==
  ASSUME Typed, Abandon
  PROVE  /\ task' = NoTask /\ GoodTask(task') /\ phase' \in Phases
         /\ ChatShape(chat')
         /\ chat' = chat \/ chat' = [c \in Convs |-> NoChat]
  BY TaskShapes, ChatShapes DEF Abandon, Restart, Phases, ChatShape, Typed, ChatsTyped

\* An empty composer.
LEMMA NoDraftTyped == NoDraft \in Drafts
  BY DEF NoDraft, Drafts

\* What there is to show of a step that leaves the backend alone.
LEMMA WorkerStep ==
  ASSUME Typed, UNCHANGED backendVars,
         GoodTask(task'), SessionsTyped', ChatShape(chat'),
         draft' = draft \/ draft' = NoDraft \/ (draft' \in Drafts /\ draft'.kind \in Kinds),
         status' \in {"processing", "failed", "delivered", "cancelled"},
         lines' \subseteq Waves, plan' \subseteq Waves,
         turn' \in [Convs -> {"idle", "working"}], phase' \in Phases,
         asked' \in [Waves -> Prompts], misses' \in 0..MaxMisses, crashes' \in 0..MaxCrashes
  PROVE  Typed'
  <1>1. DoneTyped' /\ owner' \in Waves \union {-1} /\ receipt' \in BOOLEAN
    BY DoneSame
  <1>2. DraftTyped'
    BY NoDraftTyped DEF Typed, DraftTyped
  <1>3. TaskTyped' /\ ChatsTyped'
    BY DEF TaskTyped, ChatsTyped, ChatShape
  <1> QED BY <1>1, <1>2, <1>3 DEF Typed, RestTyped, Phases

\* continue_quote and start_quote.
LEMMA SubmitTyped ==
  ASSUME Typed, NEW p, p \in Drafts, p.kind \in Kinds, NEW next, GoodTask(next),
         Submit(p, next) \/ SubmitInNewChat(p, next)
  PROVE  Typed'
  <1>1. SessionsTyped'
    BY SessionSame DEF Submit, SubmitInNewChat, FlushDraft, recordVars, backendVars
  <1>2. misses < MaxMisses => misses + 1 \in 0..MaxMisses
    BY WavesAssumption DEF Typed, RestTyped
  <1>3. CASE /\ Hear(p) /\ Then(next)
             /\ UNCHANGED <<recordVars, backendVars, plan, misses, chat, crashes>>
             /\ draft' = draft \/ draft' = NoDraft
    BY <1>1, <1>3, HeardTyped, WorkerStep
       DEF Typed, RestTyped, ChatsTyped, ChatShape, recordVars, backendVars, Then, Phases
  <1>4. CASE /\ misses < MaxMisses /\ draft' \in {p, NoDraft} /\ misses' = misses + 1 /\ Abandon
             /\ UNCHANGED <<recordVars, backendVars, plan, turn, asked, crashes>>
    BY <1>1, <1>2, <1>4, AbandonTyped, WorkerStep DEF Typed, RestTyped, recordVars
  <1>5. CASE FlushDraft
    <2>1. draft.kind \in Kinds /\ Hear(draft)
      BY <1>5 DEF FlushDraft, Typed, DraftTyped
    <2> QED BY <1>1, <1>5, <2>1, HeardTyped, AbandonTyped, WorkerStep
            DEF FlushDraft, Typed, RestTyped, recordVars
  <1>6. CASE /\ misses < MaxMisses /\ draft' = NoDraft /\ misses' = misses + 1 /\ Restart
             /\ UNCHANGED <<recordVars, backendVars, plan, turn, asked, crashes>>
    <2>1. GoodTask(task') /\ phase' \in Phases /\ ChatShape(chat')
      BY <1>6, TaskShapes, ChatShapes DEF Restart, Phases, ChatShape
    <2> QED BY <1>1, <1>2, <1>6, <2>1, WorkerStep DEF Typed, RestTyped, recordVars
  <1>7. CASE Submit(p, next)
    BY <1>3, <1>4, <1>5, <1>7 DEF Submit
  <1>8. CASE SubmitInNewChat(p, next)
    <2>1. \/ /\ Hear(p) /\ Then(next)
             /\ UNCHANGED <<recordVars, backendVars, plan, misses, chat, crashes>>
             /\ draft' = NoDraft
          \/ /\ misses < MaxMisses /\ draft' = NoDraft /\ misses' = misses + 1 /\ Restart
             /\ UNCHANGED <<recordVars, backendVars, plan, turn, asked, crashes>>
      BY <1>8 DEF SubmitInNewChat, Then, loopVars
    <2> QED BY <1>3, <1>6, <2>1
  <1> QED BY <1>7, <1>8

-----------------------------------------------------------------------------
(* The steps keep the shapes *)

\* A prompt for a set of waves.
LEMMA PromptTyped ==
  ASSUME NEW kind \in Kinds, NEW ws \in SUBSET Waves
  PROVE  /\ Prompt(kind, ws) \in Drafts /\ Prompt(kind, ws).kind = kind
         /\ Prompt(kind, ws).waves = ws
  BY DEF Prompt, Drafts

\* Worker functions.
LEMMA TypedTaskSteps ==
  ASSUME Typed, TaskStep
  PROVE  Typed'
  <1> DEFINE w == task.wave
  <1> DEFINE next(step) == [task EXCEPT !.step = step]
  <1>a. /\ GoodTask(task) /\ task.step # "none" /\ w \in Waves /\ task.group \subseteq Waves
        /\ task.step \in {"text", "mark"} => task.as \in Over
    <2>1. task.step # "none"
      BY DEF TaskStep, AdvanceEnds, AdvanceText, AdvanceMark, RecordSession, PurgeText, OpenText,
             ContinuePrompt, FinalPrompt, FinalCount, RetryPrompt, RetryRecord
    <2> QED BY <2>1, TaskOf DEF Typed, TaskTyped
  <1>b. \A step \in {"record", "purge", "count"} : GoodTask(next(step))
    BY <1>a, NextStep DEF Steps
  <1>c. GoodTask(NoTask)
    BY TaskShapes
  <1>d. /\ status \in {"processing", "failed", "delivered", "cancelled"}
        /\ lines \subseteq Waves /\ plan \subseteq Waves /\ ChatShape(chat)
        /\ turn \in [Convs -> {"idle", "working"}] /\ phase \in Phases
        /\ asked \in [Waves -> Prompts] /\ misses \in 0..MaxMisses /\ crashes \in 0..MaxCrashes
    BY DEF Typed, RestTyped, ChatsTyped, ChatShape, Phases
  <1> HIDE DEF next
  <1>1. CASE AdvanceEnds
    <2>1. SessionsTyped'
      BY <1>1, <1>a, EndWrites, SessionWritten, SessionOf DEF AdvanceEnds, Typed, backendVars
    <2>2. ChatShape(chat')
      BY <1>1, <1>d, ChatShapes DEF AdvanceEnds, Dropped, ChatShape
    <2> QED BY <1>1, <2>1, <2>2, <1>c, <1>d, WorkerStep DEF AdvanceEnds, TaskDone, Then, desktopVars
  <1>2. CASE AdvanceText
    <2>1. GoodTask(next("mark"))
      BY <1>2, <1>a, NextStep DEF AdvanceText, HasNext, Steps, next
    <2>2. Prompt("text", {w + 1}) \in Drafts /\ Prompt("text", {w + 1}).kind \in Kinds
      BY <1>2, PromptTyped DEF AdvanceText, HasNext, Kinds
    <2>3. Submit(Prompt("text", {w + 1}), next("mark"))
      BY <1>2 DEF AdvanceText, next
    <2> QED BY <2>1, <2>2, <2>3, SubmitTyped
  <1>3. CASE AdvanceMark
    <2>1. SessionsTyped'
      BY <1>3, <1>a, EndWrites, SessionWritten, SessionOf DEF AdvanceMark, Typed, backendVars
    <2>2. GoodTask(task')
      BY <1>3, <1>a, TaskShapes DEF AdvanceMark, GoodTask, Steps
    <2> QED BY <1>3, <2>1, <2>2, <1>d, WorkerStep DEF AdvanceMark, desktopVars, loopVars
  <1>4. CASE RecordSession
    <2>1. SessionsTyped'
      <3>1. /\ session' \in [Waves -> Sessions] /\ session'[w].deferred = {}
            /\ \A v \in Waves \ {w} : session'[v] = session[v]
        BY <1>4, RecordWrites DEF Writes, SessionIs
      <3>2. \A v \in Waves : session'[v].deferred \subseteq Keys(v)
        BY <3>1, SessionOf DEF Typed
      <3> QED BY <1>4, <3>1, <3>2, SessionsStay DEF RecordSession, backendVars
    <2> QED BY <1>4, <2>1, <1>b, <1>d, WorkerStep DEF RecordSession, desktopVars, loopVars, next
  <1>5. CASE PurgeText
    <2>1. SessionsTyped'
      BY <1>5, SessionSame DEF PurgeText, backendVars
    <2>2. ChatShape(chat')
      BY <1>5, <1>a, <1>d, ChatShapes, WaveFacts DEF PurgeText, ChatShape
    <2> QED BY <1>5, <2>1, <2>2, <1>c, <1>d, WorkerStep DEF PurgeText, TaskDone, Then, desktopVars
  <1>6. CASE OpenText
    <2>1. Prompt("text", {w}) \in Drafts /\ Prompt("text", {w}).kind \in Kinds
      BY <1>a, PromptTyped DEF Kinds
    <2> QED BY <1>6, <2>1, <1>b, SubmitTyped DEF OpenText, next
  <1>7. CASE ContinuePrompt
    <2>1. Prompt("continue", {w}) \in Drafts /\ Prompt("continue", {w}).kind \in Kinds
      BY <1>a, PromptTyped DEF Kinds
    <2> QED BY <1>7, <2>1, <1>c, SubmitTyped DEF ContinuePrompt
  <1>8. CASE FinalPrompt
    <2>1. Prompt("final", {w}) \in Drafts /\ Prompt("final", {w}).kind \in Kinds
      BY <1>a, PromptTyped DEF Kinds
    <2> QED BY <1>8, <2>1, <1>b, SubmitTyped DEF FinalPrompt, next
  <1>9. CASE FinalCount
    <2>1. SessionsTyped'
      BY <1>9, <1>a, CountWrites, SessionWritten, SessionOf DEF FinalCount, Typed, backendVars
    <2> QED BY <1>9, <2>1, <1>c, <1>d, WorkerStep DEF FinalCount, TaskDone, Then, desktopVars
  <1>10. CASE RetryPrompt
    <2>1. GoodTask(next("retried"))
      BY <1>10, <1>a, NextStep DEF RetryPrompt, Steps, next
    <2>2. Prompt("retry", task.group) \in Drafts /\ Prompt("retry", task.group).kind \in Kinds
      BY <1>a, PromptTyped DEF Kinds
    <2> QED BY <1>10, <2>1, <2>2, SubmitTyped DEF RetryPrompt, next
  <1>11. CASE RetryRecord
    <2>1. \A v \in Waves : session'[v].deferred \subseteq Keys(v)
      BY <1>11, RetryWrites, SessionOf DEF SessionIs, Typed
    <2>2. SessionsTyped'
      BY <1>11, <2>1, RetryWrites, SessionsStay DEF RetryRecord, backendVars
    <2>3. ChatShape(chat')
      BY <1>11, <1>a, <1>d, ChatShapes, WaveFacts DEF RetryRecord, ChatShape
    <2> QED BY <1>11, <2>2, <2>3, <1>c, <1>d, WorkerStep DEF RetryRecord, TaskDone, Then, desktopVars
  <1> QED BY <1>1, <1>2, <1>3, <1>4, <1>5, <1>6, <1>7, <1>8, <1>9, <1>10, <1>11 DEF TaskStep

\* Steps of main()'s loop.
LEMMA TypedLoopSteps ==
  ASSUME Typed, Loop
  PROVE  Typed'
  <1>c. GoodTask(NoTask)
    BY TaskShapes
  <1>d. /\ status \in {"processing", "failed", "delivered", "cancelled"}
        /\ lines \subseteq Waves /\ plan \subseteq Waves /\ ChatShape(chat) /\ GoodTask(task)
        /\ turn \in [Convs -> {"idle", "working"}] /\ phase \in Phases
        /\ asked \in [Waves -> Prompts] /\ misses \in 0..MaxMisses /\ crashes \in 0..MaxCrashes
    BY DEF Typed, RestTyped, ChatsTyped, ChatShape, Phases, TaskTyped
  <1>e. ASSUME session' = session, UNCHANGED backendVars PROVE SessionsTyped'
    BY <1>e, SessionSame DEF backendVars
  <1>f. ASSUME FlushDraft PROVE Typed'
    <2>1. draft.kind \in Kinds /\ Hear(draft)
      BY <1>f DEF FlushDraft, Typed, DraftTyped
    <2> QED BY <1>e, <1>f, <2>1, <1>d, HeardTyped, AbandonTyped, WorkerStep DEF FlushDraft, recordVars
  <1>1. CASE Attach
    <2>1. CASE /\ chat' = [c \in Convs |->
                   LET here == {w \in Running : ConvOf(w) = c}
                   IN  IF here = {} THEN NoChat ELSE [wave |-> Max(here), group |-> {}]]
               /\ Goto("create")
               /\ UNCHANGED <<recordVars, backendVars, desktopVars, crashes>>
      <3>1. ASSUME NEW c \in Convs PROVE GoodChat(c, chat'[c])
        <4> DEFINE here == {w \in Running : ConvOf(w) = c}
        <4>1. chat'[c] = IF here = {} THEN NoChat ELSE [wave |-> Max(here), group |-> {}]
          BY <2>1
        <4>2. here # {} => Max(here) \in here /\ here \subseteq Waves
          BY MaxOf DEF Running
        <4>3. here # {} => Max(here) \in Waves /\ ConvOf(Max(here)) = c
          BY <4>2
        <4> HIDE DEF here
        <4> QED BY <4>1, <4>3, ChatShapes
      <3>2. ChatShape(chat')
        BY <2>1, <3>1 DEF ChatShape
      <3> QED BY <2>1, <3>2, <1>e, <1>d, WorkerStep DEF Goto, recordVars, desktopVars, Phases
    <2> QED BY <1>1, <2>1, <1>f DEF Attach
  <1>2. CASE CreateMissing \/ OpenDone
    BY <1>2, <1>e, <1>d, WorkerStep DEF CreateMissing, OpenDone, recordVars, desktopVars, Phases
  <1>3. CASE OpenNext
    <2>1. \/ /\ Recoverable # {} /\ task' = Advance(Min(Recoverable) - 1, session[Min(Recoverable) - 1].status)
             /\ plan' = plan \ {Min(Recoverable)}
          \/ /\ Openable # {}
             /\ task' = Task("open", Min(Openable)) /\ plan' = plan \ {Min(Openable)}
      BY <1>3 DEF OpenNext
    <2>2. Recoverable \subseteq Waves /\ Openable \subseteq Waves /\ Waves \subseteq Nat
      BY <1>d, WaveFacts DEF Recoverable, Openable
    <2>3. CASE Recoverable # {} /\ task' = Advance(Min(Recoverable) - 1, session[Min(Recoverable) - 1].status)
      <3> DEFINE v == Min(Recoverable)
      <3>1. v \in Recoverable
        BY <2>2, <2>3, MinOf
      <3>2. v - 1 \in Waves /\ session[v - 1].status \in Over
        BY <2>2, <3>1, SecondWave DEF Recoverable, Over
      <3> QED BY <2>3, <3>2, TaskShapes, <2>1, <1>3, <1>e, <1>d, WorkerStep DEF OpenNext, recordVars, desktopVars
    <2>4. CASE Openable # {} /\ task' = Task("open", Min(Openable))
      <3>1. Min(Openable) \in Waves
        BY <2>2, <2>4, MinOf
      <3> QED BY <2>4, <3>1, TaskShapes, <2>1, <1>3, <1>e, <1>d, WorkerStep DEF OpenNext, recordVars, desktopVars, Steps
    <2> QED BY <2>1, <2>3, <2>4
  <1>4. CASE SettleRetry
    <2>1. /\ task' = [Task("retry", Min(RetryGroup)) EXCEPT !.group = RetryGroup]
          /\ RetryGroup # {} /\ UNCHANGED <<recordVars, backendVars, desktopVars, loopVars, chat, crashes>>
      BY <1>4 DEF SettleRetry
    <2>2. /\ RetryGroup \subseteq Waves /\ RetryGroup \subseteq Nat
          /\ \A v, u \in RetryGroup : ConvOf(v) = ConvOf(u)
      BY WaveFacts DEF RetryGroup, Unretried
    <2>3. Min(RetryGroup) \in RetryGroup
      BY <2>1, <2>2, MinOf
    <2>4. task' = [step |-> "retry", wave |-> Min(RetryGroup), as |-> "none", group |-> RetryGroup]
      BY <2>1 DEF Task, NoTask
    <2>5. GoodTask(task')
      BY <2>1, <2>2, <2>3, <2>4 DEF GoodTask, Tasking, Steps
    <2> QED BY <2>1, <2>5, <1>e, <1>d, WorkerStep DEF recordVars, desktopVars, loopVars
  <1>5. CASE SettleFail \/ SettleOverLimit
    BY <1>5, <1>e, <1>d, WorkerStep DEF SettleFail, SettleOverLimit, Goto, desktopVars, Phases
  <1>6. CASE SettleNothing \/ PollNothing
    <2>1. phase' \in Phases
      BY <1>6 DEF SettleNothing, PollNothing, Goto, Phases
    <2> QED BY <1>6, <2>1, <1>e, <1>d, WorkerStep DEF SettleNothing, PollNothing, Goto, recordVars, desktopVars
  <1>7. CASE StopTerminal
    <2>1. CASE /\ draft # NoDraft /\ Hear(draft) /\ draft' = NoDraft
               /\ UNCHANGED <<recordVars, backendVars, loopVars, chat, task, misses, crashes>>
      <3>1. draft.kind \in Kinds
        BY <2>1 DEF Typed, DraftTyped
      <3> QED BY <2>1, <3>1, <1>e, <1>d, HeardTyped, WorkerStep DEF recordVars, loopVars
    <2>2. CASE /\ turn' = [c \in Convs |-> IF c \in Active THEN "idle" ELSE turn[c]]
               /\ chat' = [c \in Convs |-> NoChat]
               /\ Goto("attach")
               /\ UNCHANGED <<recordVars, backendVars, draft, asked, misses, crashes>>
      <3>1. turn' \in [Convs -> {"idle", "working"}]
        BY <2>2, <1>d
      <3>2. ChatShape(chat')
        BY <2>2, ChatShapes DEF ChatShape
      <3> QED BY <2>2, <3>1, <3>2, <1>e, <1>d, WorkerStep DEF Goto, recordVars, Phases
    <2> QED BY <1>7, <2>1, <2>2 DEF StopTerminal
  <1>8. CASE PollDraft
    BY <1>8, <1>f DEF PollDraft
  <1> QED BY <1>1, <1>2, <1>3, <1>4, <1>5, <1>6, <1>7, <1>8 DEF Loop

\* continue_component_batch.
LEMMA JudgedTyped ==
  ASSUME Typed, NEW w \in Waves, ContinueWave(w), UNCHANGED backendVars
  PROVE  SessionsTyped' /\ GoodTask(task') /\ ChatShape(chat')
  <1>c. ChatShape(chat)
    BY DEF Typed, ChatsTyped, ChatShape
  <1>1. CASE ContinueFinished(w)
    BY <1>1, <1>c, SessionSame, TaskShapes DEF ContinueFinished, Over, backendVars
  <1>2. CASE ContinueFinal(w)
    BY <1>2, <1>c, SessionSame, TaskShapes DEF ContinueFinal, Over, Steps, backendVars
  <1>3. CASE ContinueExhausted(w)
    <2>1. SessionsTyped'
      BY <1>3, ExhaustedWrites, SessionWritten DEF Incomplete, backendVars
    <2>2. ChatShape(chat')
      BY <1>3, <1>c, ChatShapes DEF ContinueExhausted, Dropped, ChatShape
    <2> QED BY <1>3, <2>1, <2>2, TaskShapes DEF ContinueExhausted
  <1>4. CASE ContinueStalled(w)
    <2> DEFINE fresh == Incomplete(w) \ OwnDeferred(w)
    <2>1. PICK stalled \in SUBSET fresh :
            /\ Writes(w, IF fresh # stalled THEN "running" ELSE "deferred", OwnDeferred(w) \union stalled,
                      session[w].retrySent, session[w].finals)
            /\ task' = IF fresh # stalled THEN Task("continue", w) ELSE Advance(w, "deferred")
      BY <1>4, StalledWrites
    <2>2. OwnDeferred(w) \union stalled \subseteq Keys(w)
      BY DEF OwnDeferred, Incomplete
    <2>3. session' \in [Waves -> Sessions] /\ session'[w].deferred \subseteq Keys(w)
          /\ \A v \in Waves \ {w} : session'[v] = session[v]
      BY <2>1, <2>2 DEF Writes, SessionIs
    <2>4. SessionsTyped'
      BY <2>3, SessionOf, SessionsStay DEF Typed, backendVars
    <2>5. GoodTask(task')
      BY <2>1, TaskShapes DEF Over, Steps
    <2> QED BY <1>4, <1>c, <2>4, <2>5 DEF ContinueStalled
  <1> QED BY <1>1, <1>2, <1>3, <1>4 DEF ContinueWave

\* finish_deferred_group_sessions.
LEMMA GroupTyped ==
  ASSUME Typed, NEW c \in Convs, FinishGroup(c), UNCHANGED backendVars
  PROVE  SessionsTyped' /\ GoodTask(task') /\ ChatShape(chat')
  <1>1. \A v \in Waves : session'[v].deferred \subseteq Keys(v)
    BY GroupWrites, SessionOf DEF SessionIs, Typed
  <1>2. SessionsTyped'
    BY <1>1, GroupWrites, SessionsStay DEF backendVars
  <1>3. ChatShape(chat')
    BY ChatShapes DEF FinishGroup, Dropped, ChatShape, Typed, ChatsTyped
  <1> QED BY <1>2, <1>3, TaskShapes DEF FinishGroup

\* A chat the worker holds.
LEMMA ActiveChat ==
  ASSUME ChatsTyped, NEW c \in Active
  PROVE  c \in Convs /\ chat[c].wave \in Waves /\ ConvOf(chat[c].wave) = c /\ chat[c].group \subseteq Waves
  BY DEF ChatsTyped, GoodChat, Active, Chats

\* Polls.
LEMMA TypedPollSteps ==
  ASSUME Typed, NEW c \in Convs, PollEnds(c)
  PROVE  Typed'
  <1> DEFINE w == chat[c].wave
  <1>d. /\ status \in {"processing", "failed", "delivered", "cancelled"}
        /\ lines \subseteq Waves /\ plan \subseteq Waves /\ ChatShape(chat) /\ GoodTask(task)
        /\ turn \in [Convs -> {"idle", "working"}] /\ phase \in Phases
        /\ asked \in [Waves -> Prompts] /\ misses \in 0..MaxMisses /\ crashes \in 0..MaxCrashes
    BY DEF Typed, RestTyped, ChatsTyped, ChatShape, Phases, TaskTyped
  <1>e. /\ UNCHANGED backendVars /\ status' = status /\ lines' = lines /\ plan' = plan
        /\ draft' = draft /\ asked' = asked /\ misses' = misses /\ crashes' = crashes
        /\ turn' = turn \/ turn' = [turn EXCEPT ![c] = "idle"]
        /\ phase' \in {"polled", "timed", "create"}
    BY DEF PollEnds, AdvanceMachine, Reply, Timeout, ContinueWave, FinishGroup, Goto, desktopVars
  <1>f. w \in Waves
    BY ActiveChat DEF Typed, PollEnds, AdvanceMachine, Reply, Timeout, Polled
  <1>1. SessionsTyped' /\ GoodTask(task') /\ ChatShape(chat')
    <2>1. CASE ContinueWave(w)
      BY <2>1, <1>e, <1>f, JudgedTyped
    <2>2. CASE FinishGroup(c)
      BY <2>2, <1>e, GroupTyped
    <2>3. CASE session' = [session EXCEPT ![w].settle = Fingerprint(w)] /\ UNCHANGED <<chat, task>>
      <3>1. SessionsTyped'
        <4>1. /\ session' \in [Waves -> Sessions] /\ session'[w].deferred = session[w].deferred
              /\ \A v \in Waves \ {w} : session'[v] = session[v]
          BY <2>3, <1>f, SettleWrites DEF Writes, SessionIs
        <4>2. \A v \in Waves : session'[v].deferred \subseteq Keys(v)
          BY <4>1, SessionOf DEF Typed
        <4> QED BY <1>e, <4>1, <4>2, SessionsStay DEF backendVars
      <3> QED BY <2>3, <3>1, <1>d
    <2> QED BY <2>1, <2>2, <2>3 DEF PollEnds, AdvanceMachine, Reply, Timeout, Goto
  <1>2. turn' \in [Convs -> {"idle", "working"}] /\ phase' \in Phases
    BY <1>d, <1>e DEF Phases
  <1> QED BY <1>1, <1>2, <1>d, <1>e, WorkerStep

\* Agents, receipts, sales and crashes.
LEMMA TypedOtherSteps ==
  ASSUME Typed, Agents \/ AdoptReceipt \/ Cancel \/ Crash \/ Rest \/ UNCHANGED vars
  PROVE  Typed'
  <1>c. ChatShape(chat) /\ GoodTask(task)
    BY DEF Typed, ChatsTyped, ChatShape, TaskTyped
  <1>1. CASE Agents
    <2>1. /\ registered \subseteq registered' /\ session' = session /\ task' = task
          /\ chat' = chat /\ draft' = draft /\ status' = status /\ lines' = lines /\ plan' = plan
          /\ phase' = phase /\ asked' = asked /\ misses' = misses /\ crashes' = crashes
      BY <1>1 DEF Agents, Register, SaveResult, CompletePrice, Deliver, ChatStops,
                  recordVars, backendVars, desktopVars, loopVars
    <2>2. SessionsTyped'
      BY <2>1, SessionSame
    <2>3. turn' \in [Convs -> {"idle", "working"}]
      BY <1>1 DEF Agents, Register, SaveResult, CompletePrice, Deliver, ChatStops, desktopVars, Typed, RestTyped
    <2>4. DoneTyped' /\ owner' \in Waves \union {-1} /\ receipt' \in BOOLEAN
      <3>1. ASSUME NEW w \in Waves, Register(w) PROVE DoneTyped'
        <4>1. registered \subseteq registered' /\ registered' \subseteq Waves /\ UNCHANGED <<done, saved>>
          BY <3>1 DEF Register, Typed, DoneTyped
        <4> QED BY <4>1, KeysGrow DEF DoneTyped, Typed
      <3>2. ASSUME NEW w \in Waves, SaveResult(w) PROVE DoneTyped'
        BY <3>2 DEF SaveResult, Typed, DoneTyped, Keys
      <3>3. ASSUME NEW w \in Waves, NEW k \in Keys(w), CompletePrice(w, k) PROVE DoneTyped'
        BY <3>3 DEF CompletePrice, Typed, DoneTyped, Keys
      <3>4. ASSUME Deliver \/ \E c \in Convs : ChatStops(c) PROVE DoneTyped'
        <4>1. UNCHANGED <<registered, done, saved>>
          BY <3>4 DEF Deliver, ChatStops, backendVars
        <4>2. \A w \in Waves : Keys(w)' = Keys(w)
          BY <4>1 DEF Keys
        <4> QED BY <4>1, <4>2 DEF Typed, DoneTyped
      <3>5. owner' \in Waves \union {-1} /\ receipt' \in BOOLEAN
        BY <1>1 DEF Agents, Register, SaveResult, CompletePrice, Deliver, ChatStops, backendVars, Typed, RestTyped
      <3> QED BY <1>1, <3>1, <3>2, <3>3, <3>4, <3>5 DEF Agents
    <2> QED BY <2>1, <2>2, <2>3, <2>4 DEF Typed, TaskTyped, ChatsTyped, GoodChat, DraftTyped, RestTyped
  <1>2. CASE AdoptReceipt \/ Cancel
    <2>1. SessionsTyped'
      BY <1>2, SessionSame DEF AdoptReceipt, Cancel, backendVars
    <2> QED BY <1>2, <1>c, <2>1, WorkerStep DEF AdoptReceipt, Cancel, desktopVars, loopVars, Typed, RestTyped, Phases
  <1>3. CASE Crash
    <2>1. SessionsTyped'
      BY <1>3, SessionSame DEF Crash, backendVars, recordVars
    <2>2. GoodTask(task') /\ phase' \in Phases /\ ChatShape(chat')
      BY <1>3, TaskShapes, ChatShapes DEF Crash, Restart, Phases, ChatShape
    <2>3. crashes' \in 0..MaxCrashes
      BY <1>3, WavesAssumption DEF Crash, Typed, RestTyped
    <2> QED BY <1>3, <2>1, <2>2, <2>3, WorkerStep DEF Crash, recordVars, desktopVars, Typed, RestTyped
  <1>4. CASE Rest \/ UNCHANGED vars
    <2>1. UNCHANGED vars
      BY <1>4 DEF Rest
    <2>2. SessionsTyped'
      BY <2>1, SessionSame DEF vars, recordVars, backendVars
    <2> QED BY <2>1, <2>2, <1>c, WorkerStep
            DEF vars, recordVars, backendVars, desktopVars, loopVars, Typed, RestTyped, Phases
  <1> QED BY <1>1, <1>2, <1>3, <1>4

\* The shapes hold at first
LEMMA TypedInit ==
  ASSUME Init
  PROVE  Typed
  <1> USE DEF Init
  <1>1. 0 \in Waves /\ 0 \in Convs
    <2>1. 0 \in Waves /\ ConvOf(0) = 0
      BY WavesAssumption DEF Waves, ConvOf
    <2> QED BY <2>1 DEF Convs
  <1>2. SessionsTyped
    <2>1. SessionIs(NewSession, "running", {}, FALSE, 0) /\ SessionIs(NoSession, "none", {}, FALSE, 0)
      <3>1. NoPrint \in Prints
        BY DEF NoPrint, Prints
      <3>2. NewSession \in Sessions
        BY <3>1 DEF NewSession, Sessions, SessionStatus
      <3> QED BY <3>2, SessionShapes DEF SessionStatus
    <2>2. \A w \in Waves : session[w] \in Sessions /\ session[w].deferred = {}
      BY <2>1 DEF SessionIs
    <2> QED BY <2>2 DEF SessionsTyped
  <1>3. ChatsTyped
    <2>1. GoodChat(0, [wave |-> 0, group |-> {}])
      BY <1>1, ChatShapes DEF ConvOf
    <2> QED BY <2>1, ChatShapes DEF ChatsTyped
  <1>4. TaskTyped
    BY TaskShapes DEF TaskTyped
  <1>5. DraftTyped /\ DoneTyped
    BY NoDraftTyped DEF DraftTyped, DoneTyped
  <1>6. asked \in [Waves -> Prompts]
    BY WavesAssumption DEF Prompts
  <1>7. RestTyped
    <2>1. misses \in 0..MaxMisses /\ crashes \in 0..MaxCrashes
      BY WavesAssumption
    <2>2. lines \subseteq Waves /\ plan \subseteq Waves /\ turn \in [Convs -> {"idle", "working"}]
      OBVIOUS
    <2> QED BY <1>6, <2>1, <2>2 DEF RestTyped
  <1> QED BY <1>2, <1>3, <1>4, <1>5, <1>7 DEF Typed

\* ... and after every step.
LEMMA TypedNext ==
  ASSUME Typed, [Next]_vars
  PROVE  Typed'
  BY TypedTaskSteps, TypedLoopSteps, TypedPollSteps, TypedOtherSteps DEF Next

\* TypeOK: what the worker and the MCP server write keeps its shape.
THEOREM TypesHold == Spec => []TypeOK
  <1>1. Init => Typed
    BY TypedInit
  <1>2. Typed /\ [Next]_vars => Typed'
    BY TypedNext
  <1>3. Typed => TypeOK
    BY TypedIsTypeOK
  <1> QED BY <1>1, <1>2, <1>3, PTL DEF Spec

-----------------------------------------------------------------------------
(* Where the loop stands, and in which order waves are sent *)

Retrying == task.step \in {"retry", "retried"}
Fresh == \A w \in Waves : ~session[w].retrySent
Unsent(w) == session[w].status = "none"

\* Where the loop stands while a function is in progress.
LoopPlaces ==
  /\ phase \in {"attach", "create", "turn"} => task = NoTask
  /\ phase = "settle" => task = NoTask \/ Retrying
  /\ phase = "open" => task.step \in {"none", "text", "mark", "record", "purge", "open"}
  /\ phase \in {"settle", "turn", "polled", "timed"} => plan = {}
  /\ phase \in {"polled", "timed"} /\ task # NoTask /\ ~Retrying => ConvOf(task.wave) \in Active
  /\ status = "failed" => task = NoTask /\ phase = "attach" /\ Active = {}

\* A deferred retry goes out when nothing else does, and nothing new is sent
\* after it.
RetryIsAlone ==
  /\ Retrying => /\ Running = {} /\ Active = {}
                 /\ \A w \in task.group : ~session[w].retrySent /\ ~Unsent(w)
  /\ ~Fresh \/ Retrying => /\ lines = {} /\ plan = {}
                           /\ task.step \notin {"open", "mark", "record", "purge"}
  /\ \A c \in Active : chat[c].group # {} => ~Fresh

\* What a function in progress knows about the sessions it is about.
TaskOrder ==
  /\ task.step \in {"open", "record"} => Unsent(task.wave)
  /\ task.step = "open" => ~IsSecond(task.wave)
  /\ task.step = "mark" => Unsent(task.wave + 1)
  /\ task.step \in {"text", "mark", "continue", "final", "count", "purge"} => ~Unsent(task.wave)
  /\ task.step \in {"record", "purge"} /\ IsSecond(task.wave) =>
       ~Unsent(task.wave - 1) /\ task.wave - 1 \notin Running
  /\ \A c \in Active : ~Unsent(chat[c].wave) /\ \A w \in chat[c].group : ~Unsent(w)

\* The second wave of a conversation is sent when the first is over.
WaveOrder ==
  /\ \A w \in Waves : Unsent(w) =>
       session[w].deferred = {} /\ session[w].finals = 0 /\ ~session[w].retrySent
  /\ \A w \in Waves : IsSecond(w) /\ ~Unsent(w) => ~Unsent(w - 1)
  /\ Fresh /\ ~Retrying =>
       \A w \in Waves : IsSecond(w) /\ ~Unsent(w) =>
         /\ w - 1 \notin Running /\ task.wave # w - 1
         /\ \A c \in Convs : chat[c].wave = w - 1 => task.step = "purge" /\ task.wave = w

\* Until a retry, what runs has a chat or is about to.
RunningHeld ==
  Fresh /\ phase # "attach" =>
    \A w \in Running : \/ ConvOf(w) \in Active
                       \/ task # NoTask /\ ConvOf(w) = ConvOf(task.wave)

Ordered == LoopPlaces /\ RetryIsAlone /\ TaskOrder /\ WaveOrder /\ RunningHeld

\* Steps of others.
LEMMA OrderedIdle ==
  ASSUME Typed, Ordered, UNCHANGED <<session, task, chat, phase, plan>>, lines' \in {lines, {}},
         status' = status \/ status' # "failed"
  PROVE  Ordered'
  <1>1. Fresh' = Fresh /\ Running' = Running /\ Retrying' = Retrying /\ Active' = Active
    BY DEF Fresh, Running, Retrying, Active
  <1>2. \A w : Unsent(w)' = Unsent(w)
    BY DEF Unsent
  <1>3. LoopPlaces'
    BY <1>1 DEF Ordered, LoopPlaces
  <1>4. RetryIsAlone'
    BY <1>1, <1>2 DEF Ordered, RetryIsAlone
  <1>5. TaskOrder'
    BY <1>1, <1>2 DEF Ordered, TaskOrder
  <1>6. WaveOrder'
    BY <1>1, <1>2 DEF Ordered, WaveOrder
  <1>7. RunningHeld'
    BY <1>1 DEF Ordered, RunningHeld
  <1> QED BY <1>3, <1>4, <1>5, <1>6, <1>7 DEF Ordered

\* No function and no chat are about no wave.
LEMMA NoTaskShape ==
  /\ NoTask.step = "none" /\ NoTask.wave = -1 /\ NoTask.group = {} /\ NoChat.wave = -1
  BY DEF NoTask, NoChat

\* A worker that has forgotten its chats.
LEMMA NobodyActive ==
  ASSUME chat' = [c \in Convs |-> NoChat]
  PROVE  Active' = {} /\ \A c \in Convs : chat'[c].wave = -1
  BY NoTaskShape DEF Active

\* The supervisor starts over, or a prompt is given up.
LEMMA OrderedAbandon ==
  ASSUME Typed, Ordered, UNCHANGED <<session, lines, status>>, plan' = plan,
         Restart \/ (Abandon /\ task.step # "purge")
  PROVE  Ordered'
  <1>0. UNCHANGED session /\ task' = NoTask /\ task'.step = "none" /\ task'.wave = -1 /\ ~Retrying'
        /\ \A w \in Waves : IsSecond(w) => w - 1 # -1
    BY NoTaskShape, WaveFacts, SecondWave DEF Abandon, Restart, Retrying
  <1>1. Fresh' = Fresh /\ Running' = Running
    BY DEF Fresh, Running
  <1>2. \A w : Unsent(w)' = Unsent(w)
    BY DEF Unsent
  <1>3. \/ Active' = {} /\ (\A c \in Convs : chat'[c].wave = -1) /\ phase' = "attach"
        \/ /\ chat' = chat /\ Active' = Active /\ task.step # "purge"
           /\ phase \in {"turn", "polled"} /\ phase' \in {"attach", "create"}
           /\ Active = {} => phase' = "attach"
    BY NobodyActive DEF Abandon, Restart, Active
  <1>4. status = "failed" => Active = {} /\ phase = "attach" /\ task = NoTask
    BY DEF Ordered, LoopPlaces
  <1>5. LoopPlaces'
    BY <1>0, <1>3, <1>4 DEF LoopPlaces
  <1>6. RetryIsAlone'
    BY <1>0, <1>1, <1>2, <1>3 DEF Ordered, RetryIsAlone
  <1>7. TaskOrder'
    BY <1>0, <1>2, <1>3 DEF Ordered, TaskOrder
  <1>8. WaveOrder'
    <2>1. CASE ~Retrying
      BY <1>0, <1>1, <1>2, <1>3, <2>1 DEF Ordered, WaveOrder, TaskOrder
    <2>2. CASE Retrying
      <3>1. Running = {} /\ Active = {}
        BY <2>2 DEF Ordered, RetryIsAlone
      <3>2. \A c \in Convs : chat'[c].wave = -1
        BY <1>3, <3>1, NoTaskShape DEF Active
      <3> QED BY <1>0, <1>1, <1>2, <3>1, <3>2 DEF Ordered, WaveOrder
    <2> QED BY <2>1, <2>2
  <1>9. RunningHeld'
    <2>1. CASE phase \in {"turn", "polled"} /\ Active' = Active /\ ~Retrying
      BY <1>0, <1>1, <2>1 DEF Ordered, RunningHeld, LoopPlaces
    <2>2. CASE Retrying
      BY <1>1, <2>2 DEF Ordered, RunningHeld, RetryIsAlone
    <2> QED BY <1>3, <2>1, <2>2 DEF RunningHeld
  <1> QED BY <1>5, <1>6, <1>7, <1>8, <1>9 DEF Ordered

\* A prompt is taken and the function goes on, or it is given up.
LEMMA SubmitOrdered ==
  ASSUME Typed, Ordered, task.step # "purge", NEW p, NEW next,
         Submit(p, next) \/ SubmitInNewChat(p, next)
  PROVE  Ordered' \/ (task' = next /\ UNCHANGED <<session, chat, phase, plan, lines, status>>)
  <1>1. \/ task' = next /\ UNCHANGED <<session, chat, phase, plan, lines, status>>
        \/ /\ UNCHANGED <<session, lines, status>> /\ plan' = plan
           /\ Restart \/ Abandon
    BY DEF Submit, SubmitInNewChat, FlushDraft, Then, recordVars, loopVars
  <1> QED BY <1>1, OrderedAbandon

\* The phases in which a function may be under way.
LEMMA TaskPhase ==
  ASSUME Typed, Ordered, task.step # "none"
  PROVE  /\ phase \in {"open", "polled", "timed"} \/ (phase = "settle" /\ Retrying)
         /\ phase = "open" => task.step \in {"text", "mark", "record", "purge", "open"}
         /\ phase \in {"polled", "timed"} /\ ~Retrying => ConvOf(task.wave) \in Active
         /\ phase \in {"settle", "polled", "timed"} => plan = {}
         /\ status # "failed" /\ task.wave \in Waves /\ task # NoTask
  BY TaskOf, NoTaskShape DEF Ordered, LoopPlaces, Typed, RestTyped

\* A function goes on after its prompt.
LEMMA OrderedTold ==
  ASSUME Typed, Ordered, task.step # "none", GoodTask(task'),
         UNCHANGED <<session, chat, phase, plan, lines, status>>,
         \/ /\ task.step = "text" /\ task'.step = "mark" /\ task'.wave = task.wave
            /\ task.wave + 1 \in lines
         \/ task.step = "open" /\ task'.step = "record" /\ task'.wave = task.wave
         \/ task.step = "final" /\ task'.step = "count" /\ task'.wave = task.wave
         \/ /\ task.step = "retry" /\ task'.step = "retried" /\ task'.wave = task.wave
            /\ task'.group = task.group
         \/ task.step = "continue" /\ task' = NoTask
  PROVE  Ordered'
  <1>1. Fresh' = Fresh /\ Running' = Running /\ Active' = Active
    BY DEF Fresh, Running, Active
  <1>2. \A w : Unsent(w)' = Unsent(w)
    BY DEF Unsent
  <1>3. \/ Retrying' = Retrying /\ task' # NoTask
        \/ (task' = NoTask /\ task.step = "continue" /\ ~Retrying /\ ~Retrying')
    BY NoTaskShape DEF Retrying
  <1>4. NoTask.step = "none" /\ NoTask.wave = -1 /\ \A w \in Waves : IsSecond(w) => w - 1 # -1
    BY NoTaskShape, WaveFacts, SecondWave
  <1>5. LoopPlaces'
    BY <1>1, <1>3, <1>4, TaskPhase DEF LoopPlaces
  <1>6. RetryIsAlone'
    BY <1>1, <1>2, <1>3, <1>4, TaskPhase DEF Ordered, RetryIsAlone, Retrying
  <1>7. TaskOrder'
    <2>1. CASE task.step = "text"
      <3>1. task.wave + 1 \in lines /\ task.wave + 1 \in Waves /\ ConvOf(task.wave + 1) = ConvOf(task.wave)
        BY <2>1 DEF GoodTask
      <3>2. IsSecond(task.wave + 1)
        <4>1. task.wave \in Waves
          BY TaskPhase
        <4>2. task.wave \in Nat
          BY <4>1, WaveFacts
        <4> QED BY <4>1, <4>2, <3>1, TwoWaves
      <3>3. Fresh /\ ~Retrying
        BY <2>1, <3>1 DEF Ordered, RetryIsAlone, Retrying
      <3>4. task.wave = (task.wave + 1) - 1
        BY TaskPhase, WaveFacts
      <3>5. Unsent(task.wave + 1)
        BY <3>1, <3>2, <3>3, <3>4 DEF Ordered, WaveOrder
      <3> QED BY <1>1, <1>2, <2>1, <3>5 DEF Ordered, TaskOrder
    <2>2. CASE task.step # "text"
      BY <1>1, <1>2, <1>4, <2>2 DEF Ordered, TaskOrder
    <2> QED BY <2>1, <2>2
  <1>8. WaveOrder'
    BY <1>1, <1>2, <1>3, <1>4 DEF Ordered, WaveOrder
  <1>9. RunningHeld'
    BY <1>1, <1>3, TaskPhase DEF Ordered, RunningHeld
  <1> QED BY <1>5, <1>6, <1>7, <1>8, <1>9 DEF Ordered

\* The prompts of the worker functions.
LEMMA OrderedPrompts ==
  ASSUME Typed, Ordered, AdvanceText \/ OpenText \/ ContinuePrompt \/ FinalPrompt \/ RetryPrompt
  PROVE  Ordered'
  <1> DEFINE w == task.wave
  <1> DEFINE next(step) == [task EXCEPT !.step = step]
  <1>a. GoodTask(task)
    BY DEF Typed, TaskTyped
  <1>b. ASSUME NEW step \in {"record", "count"}, task.step # "none"
        PROVE GoodTask(next(step)) /\ next(step).step = step /\ next(step).wave = w
    BY <1>a, <1>b, NextStep DEF Steps
  <1> HIDE DEF next
  <1>1. CASE AdvanceText
    <2>1. /\ GoodTask(next("mark")) /\ next("mark").step = "mark" /\ next("mark").wave = w
          /\ w + 1 \in lines
      BY <1>1, <1>a, NextStep DEF AdvanceText, HasNext, Steps, next
    <2>2. Ordered' \/ (task' = next("mark") /\ UNCHANGED <<session, chat, phase, plan, lines, status>>)
      BY <1>1, SubmitOrdered DEF AdvanceText, next
    <2> QED BY <1>1, <2>1, <2>2, OrderedTold DEF AdvanceText
  <1>2. CASE OpenText
    <2>1. Ordered' \/ (task' = next("record") /\ UNCHANGED <<session, chat, phase, plan, lines, status>>)
      BY <1>2, SubmitOrdered DEF OpenText, next
    <2> QED BY <1>2, <1>b, <2>1, OrderedTold DEF OpenText
  <1>3. CASE ContinuePrompt
    <2>1. Ordered' \/ (task' = NoTask /\ UNCHANGED <<session, chat, phase, plan, lines, status>>)
      BY <1>3, SubmitOrdered DEF ContinuePrompt
    <2> QED BY <1>3, <2>1, OrderedTold, TaskShapes DEF ContinuePrompt
  <1>4. CASE FinalPrompt
    <2>1. Ordered' \/ (task' = next("count") /\ UNCHANGED <<session, chat, phase, plan, lines, status>>)
      BY <1>4, SubmitOrdered DEF FinalPrompt, next
    <2> QED BY <1>4, <1>b, <2>1, OrderedTold DEF FinalPrompt
  <1>5. CASE RetryPrompt
    <2>1. /\ GoodTask(next("retried")) /\ next("retried").step = "retried" /\ next("retried").wave = w
          /\ next("retried").group = task.group
      BY <1>5, <1>a, NextStep DEF RetryPrompt, Steps, next
    <2>2. Ordered' \/ (task' = next("retried") /\ UNCHANGED <<session, chat, phase, plan, lines, status>>)
      BY <1>5, SubmitOrdered DEF RetryPrompt, next
    <2> QED BY <1>5, <2>1, <2>2, OrderedTold DEF RetryPrompt
  <1> QED BY <1>1, <1>2, <1>3, <1>4, <1>5

-----------------------------------------------------------------------------
(* Sessions that are written *)

\* A session is written, its retry left as it was.
StatusMoves(w, st) ==
  /\ session'[w].status = st /\ \A v \in Waves \ {w} : session'[v] = session[v]
  /\ session'[w].retrySent = session[w].retrySent

\* A session whose status is written.
LEMMA StatusFacts ==
  ASSUME Typed, NEW w \in Waves, NEW st, st # "none", StatusMoves(w, st)
  PROVE  /\ Fresh' <=> Fresh
         /\ st = "running" => Running' = Running \union {w}
         /\ st # "running" => Running' = Running \ {w}
         /\ ~Unsent(w)' /\ \A v \in Waves : v # w => (Unsent(v)' <=> Unsent(v))
         /\ \A v \in Waves : Unsent(v)' => Unsent(v) /\ session'[v] = session[v]
  <1>1. Fresh' <=> Fresh
    BY DEF Fresh, StatusMoves
  <1>2. ~Unsent(w)' /\ \A v \in Waves : v # w => (Unsent(v)' <=> Unsent(v))
    BY DEF Unsent, StatusMoves
  <1>3. st = "running" => Running' = Running \union {w}
    BY DEF Running, StatusMoves
  <1>4. st # "running" => Running' = Running \ {w}
    BY DEF Running, StatusMoves
  <1>5. \A v \in Waves : Unsent(v)' => Unsent(v) /\ session'[v] = session[v]
    BY <1>2 DEF StatusMoves
  <1> QED BY <1>1, <1>2, <1>3, <1>4, <1>5

\* The sessions that are not there yet are as they were.
LEMMA UnsentKept ==
  ASSUME WaveOrder, \A v \in Waves : Unsent(v)' => Unsent(v) /\ session'[v] = session[v]
  PROVE  \A v \in Waves : Unsent(v)' =>
           session'[v].deferred = {} /\ session'[v].finals = 0 /\ ~session'[v].retrySent
  BY DEF WaveOrder

\* advance_to_next_wave with nothing left to send.
LEMMA OrderedEnds ==
  ASSUME Typed, Ordered, AdvanceEnds
  PROVE  Ordered'
  <1>w. PICK w : w = task.wave
    OBVIOUS
  <1>0. /\ task.step = "text" /\ w \in Waves /\ task.as # "none" /\ task.as # "running"
        /\ StatusMoves(w, task.as) /\ session'[w].deferred = session[w].deferred
        /\ session'[w].finals = session[w].finals
    BY <1>w, EndWrites DEF AdvanceEnds, Over, Writes, SessionIs, StatusMoves
  <1>1. /\ Fresh' <=> Fresh
        /\ Running' = Running \ {w}
        /\ ~Unsent(w)' /\ \A v \in Waves : v # w => (Unsent(v)' <=> Unsent(v))
        /\ \A v \in Waves : Unsent(v)' => Unsent(v) /\ session'[v] = session[v]
    BY <1>w, <1>0, StatusFacts
  <1>2. /\ task' = NoTask /\ NoTask.step = "none" /\ NoTask.wave = -1 /\ NoChat.wave = -1
        /\ UNCHANGED <<phase, plan, lines, status>>
        /\ chat' = [chat EXCEPT ![ConvOf(w)] = NoChat]
    BY <1>w, NoTaskShape DEF AdvanceEnds, TaskDone, Then, Dropped
  <1>3. Active' = Active \ {ConvOf(w)} /\ \A c \in Convs : chat'[c] = chat[c] \/ chat'[c].wave = -1
    BY <1>w, <1>2 DEF Active, Typed, ChatsTyped
  <1>3a. \A c \in Active' : c \in Active /\ chat'[c] = chat[c]
    BY <1>w, <1>2, <1>3 DEF Active, Typed, ChatsTyped
  <1>4. \A v \in Waves : IsSecond(v) => v - 1 # -1 /\ v - 1 \in Waves
    BY <1>w, SecondWave, WaveFacts
  <1>5. ~Retrying /\ ~Retrying' /\ ~Unsent(w)
    BY <1>w, <1>0, <1>2 DEF Retrying, Ordered, TaskOrder
  <1>6. LoopPlaces'
    BY <1>w, <1>0, <1>2, <1>5, TaskPhase DEF LoopPlaces
  <1>7. RetryIsAlone'
    BY <1>w, <1>1, <1>2, <1>3a, <1>5 DEF Ordered, RetryIsAlone
  <1>8. TaskOrder'
    <2>1. \A c \in Active : chat[c].wave \in Waves /\ chat[c].group \subseteq Waves
      BY <1>w, ActiveChat DEF Typed
    <2> QED BY <1>w, <1>1, <1>2, <1>3a, <2>1 DEF Ordered, TaskOrder
  <1>9. WaveOrder'
    <2>1. \A v \in Waves : Unsent(v)' =>
            session'[v].deferred = {} /\ session'[v].finals = 0 /\ ~session'[v].retrySent
      BY <1>w, <1>1, UnsentKept DEF Ordered
    <2>2. \A v \in Waves : IsSecond(v) /\ ~Unsent(v)' => ~Unsent(v - 1)'
      BY <1>w, <1>1, <1>4, <1>5 DEF Ordered, WaveOrder
    <2>3. ASSUME Fresh, NEW v \in Waves, IsSecond(v), ~Unsent(v)'
          PROVE  /\ v - 1 \notin Running' /\ task'.wave # v - 1
                 /\ \A c \in Convs : chat'[c].wave # v - 1
      BY <1>w, <1>0, <1>1, <1>2, <1>3, <1>4, <1>5, <2>3 DEF Ordered, WaveOrder
    <2> QED BY <1>w, <1>1, <2>1, <2>2, <2>3 DEF WaveOrder
  <1>10. RunningHeld'
    <2> SUFFICES ASSUME Fresh, phase # "attach", NEW v \in Running, v # w
                 PROVE  ConvOf(v) \in Active'
      BY <1>w, <1>1, <1>2 DEF RunningHeld
    <2>1. v \in Waves /\ ~Unsent(v)
      BY <1>w DEF Running, Unsent
    <2>2. ConvOf(v) # ConvOf(w)
      <3>1. CASE IsSecond(w) /\ v = w - 1
        BY <1>w, <1>0, <1>5, <3>1 DEF Ordered, WaveOrder
      <3>2. CASE IsSecond(v) /\ w = v - 1
        BY <1>w, <1>5, <2>1, <3>2 DEF Ordered, WaveOrder
      <3> QED BY <1>w, <1>0, <2>1, <3>1, <3>2, TwoWaves
    <2> QED BY <1>w, <1>3, <2>2 DEF Ordered, RunningHeld
  <1> QED BY <1>w, <1>6, <1>7, <1>8, <1>9, <1>10 DEF Ordered

\* advance_to_next_wave closes the first wave.
LEMMA OrderedMark ==
  ASSUME Typed, Ordered, AdvanceMark
  PROVE  Ordered'
  <1>w. PICK w : w = task.wave
    OBVIOUS
  <1>0. /\ task.step = "mark" /\ w \in Waves /\ task.as # "none" /\ task.as # "running"
        /\ StatusMoves(w, task.as) /\ session'[w].deferred = session[w].deferred
        /\ session'[w].finals = session[w].finals
    BY <1>w, EndWrites DEF AdvanceMark, Over, Writes, SessionIs, StatusMoves
  <1>1. /\ Fresh' <=> Fresh
        /\ Running' = Running \ {w}
        /\ ~Unsent(w)' /\ \A v \in Waves : v # w => (Unsent(v)' <=> Unsent(v))
        /\ \A v \in Waves : Unsent(v)' => Unsent(v) /\ session'[v] = session[v]
    BY <1>w, <1>0, StatusFacts
  <1>2. /\ w + 1 \in Waves /\ ConvOf(w + 1) = ConvOf(w) /\ w \in Nat
        /\ IsSecond(w + 1) /\ ~IsSecond(w)
    <2>1. w + 1 \in Waves /\ ConvOf(w + 1) = ConvOf(w)
      BY <1>w, <1>0 DEF Typed, TaskTyped, GoodTask
    <2>2. w \in Nat /\ w = (w + 1) - 1
      BY <1>w, <1>0, WaveFacts
    <2>3. IsSecond(w + 1)
      BY <1>w, <1>0, <2>1, <2>2, TwoWaves
    <2> QED BY <1>w, <2>1, <2>2, <2>3, SecondWave
  <1>3. /\ task'.step = "record" /\ task'.wave = w + 1 /\ task' # NoTask
        /\ UNCHANGED <<phase, plan, lines, status, chat>>
    BY <1>w, <1>2, TaskShapes, NoTaskShape DEF AdvanceMark, loopVars, Steps
  <1>4. Active' = Active /\ ~Retrying /\ ~Retrying' /\ Fresh /\ Unsent(w + 1) /\ ~Unsent(w)
    BY <1>w, <1>0, <1>3 DEF Active, Retrying, Ordered, RetryIsAlone, TaskOrder
  <1>6. LoopPlaces'
    BY <1>w, <1>0, <1>2, <1>3, <1>4, TaskPhase DEF LoopPlaces
  <1>7. RetryIsAlone'
    BY <1>w, <1>1, <1>3, <1>4 DEF Ordered, RetryIsAlone
  <1>8. TaskOrder'
    <2>1. (w + 1) - 1 = w /\ w + 1 # w
      BY <1>w, <1>2
    <2>2. \A c \in Active : chat[c].wave \in Waves /\ chat[c].group \subseteq Waves
      BY <1>w, ActiveChat DEF Typed
    <2> QED BY <1>w, <1>0, <1>1, <1>2, <1>3, <1>4, <2>1, <2>2 DEF Ordered, TaskOrder
  <1>9. WaveOrder'
    <2>1. \A v \in Waves : Unsent(v)' =>
            session'[v].deferred = {} /\ session'[v].finals = 0 /\ ~session'[v].retrySent
      BY <1>w, <1>1, UnsentKept DEF Ordered
    <2>2. \A v \in Waves : IsSecond(v) => v - 1 \in Waves /\ v - 1 # w + 1
      BY <1>w, <1>2, SecondWave
    <2>3. \A v \in Waves : IsSecond(v) /\ ~Unsent(v)' => ~Unsent(v - 1)'
      BY <1>w, <1>1, <1>2, <1>4, <2>2 DEF Ordered, WaveOrder
    <2>4. ASSUME NEW v \in Waves, IsSecond(v), ~Unsent(v)'
          PROVE  /\ v - 1 \notin Running' /\ task'.wave # v - 1
                 /\ \A c \in Convs : chat'[c].wave # v - 1
      BY <1>w, <1>0, <1>1, <1>2, <1>3, <1>4, <2>2, <2>4 DEF Ordered, WaveOrder
    <2> QED BY <1>w, <2>1, <2>3, <2>4 DEF WaveOrder
  <1>10. RunningHeld'
    BY <1>w, <1>1, <1>2, <1>3, <1>4 DEF Ordered, RunningHeld
  <1> QED BY <1>w, <1>6, <1>7, <1>8, <1>9, <1>10 DEF Ordered

\* The new wave's session is recorded.
LEMMA OrderedRecord ==
  ASSUME Typed, Ordered, RecordSession
  PROVE  Ordered'
  <1>w. PICK w : w = task.wave
    OBVIOUS
  <1>a. GoodTask(task) /\ task.step = "record"
    BY <1>w DEF Typed, TaskTyped, RecordSession
  <1>0. /\ w \in Waves /\ session'[w].status = "running" /\ ~session'[w].retrySent
        /\ \A v \in Waves \ {w} : session'[v] = session[v]
    BY <1>w, RecordWrites DEF Writes, SessionIs
  <1>1. /\ Fresh /\ ~Retrying /\ Unsent(w)
        /\ IsSecond(w) => ~Unsent(w - 1) /\ w - 1 \notin Running
    BY <1>w, <1>a DEF Ordered, RetryIsAlone, TaskOrder, Retrying
  <1>2. /\ Fresh' /\ Running' = Running \union {w}
        /\ ~Unsent(w)' /\ \A v \in Waves : v # w => (Unsent(v)' <=> Unsent(v))
        /\ \A v \in Waves : Unsent(v)' => Unsent(v) /\ session'[v] = session[v]
    <2>1. Fresh' /\ ~Unsent(w)' /\ \A v \in Waves : v # w => (Unsent(v)' <=> Unsent(v))
      BY <1>w, <1>0, <1>1 DEF Fresh, Unsent
    <2>2. Running' = Running \union {w}
      BY <1>w, <1>0 DEF Running
    <2> QED BY <1>w, <1>0, <2>1, <2>2
  <1>3. /\ task'.step = "purge" /\ task'.wave = w /\ task' # NoTask
        /\ UNCHANGED <<phase, plan, lines, status, chat>>
    BY <1>w, <1>a, NextStep, NoTaskShape DEF RecordSession, loopVars, Steps
  <1>4. Active' = Active /\ ~Retrying'
    BY <1>w, <1>3 DEF Active, Retrying
  <1>5. \A v \in Waves : IsSecond(v) => v - 1 \in Waves /\ ~IsSecond(v - 1)
    BY <1>w, SecondWave
  <1>6. LoopPlaces'
    BY <1>w, <1>a, <1>1, <1>3, <1>4, TaskPhase DEF LoopPlaces
  <1>7. RetryIsAlone'
    BY <1>w, <1>1, <1>2, <1>3, <1>4 DEF Ordered, RetryIsAlone
  <1>8. TaskOrder'
    <2>1. \A c \in Active : chat[c].wave \in Waves /\ chat[c].group \subseteq Waves
      BY <1>w, ActiveChat DEF Typed
    <2>2. w \in Nat /\ \A v \in Waves : v - 1 # v
      BY <1>w, <1>0, WaveFacts
    <2> QED BY <1>w, <1>0, <1>1, <1>2, <1>3, <1>4, <1>5, <2>1, <2>2 DEF Ordered, TaskOrder
  <1>9. WaveOrder'
    <2>1. \A v \in Waves : Unsent(v)' =>
            session'[v].deferred = {} /\ session'[v].finals = 0 /\ ~session'[v].retrySent
      BY <1>w, <1>2, UnsentKept DEF Ordered
    <2>2. \A v \in Waves : IsSecond(v) /\ ~Unsent(v)' => ~Unsent(v - 1)'
      BY <1>w, <1>1, <1>2, <1>5 DEF Ordered, WaveOrder
    <2>3. ASSUME NEW v \in Waves, IsSecond(v), ~Unsent(v)', v # w
          PROVE  /\ v - 1 \notin Running' /\ task'.wave # v - 1
                 /\ \A c \in Convs : chat'[c].wave # v - 1
      BY <1>w, <1>a, <1>1, <1>2, <1>3, <1>5, <2>3 DEF Ordered, WaveOrder
    <2>4. IsSecond(w) => w - 1 \notin Running' /\ task'.wave # w - 1
      BY <1>w, <1>0, <1>1, <1>2, <1>3, <1>5
    <2> QED BY <1>w, <1>3, <2>1, <2>2, <2>3, <2>4 DEF WaveOrder
  <1>10. RunningHeld'
    BY <1>w, <1>a, <1>1, <1>2, <1>3, <1>4 DEF Ordered, RunningHeld
  <1> QED BY <1>w, <1>6, <1>7, <1>8, <1>9, <1>10 DEF Ordered

\* The new wave's text leaves the queue file, and the chat is on it.
LEMMA OrderedPurge ==
  ASSUME Typed, Ordered, PurgeText
  PROVE  Ordered'
  <1>w. PICK w : w = task.wave
    OBVIOUS
  <1> DEFINE q == [wave |-> w, group |-> {}]
  <1>0. /\ task.step = "purge" /\ w \in Waves /\ w # -1 /\ ConvOf(w) \in Convs
        /\ session' = session /\ task' = NoTask /\ NoTask.step = "none" /\ NoTask.wave = -1
        /\ UNCHANGED <<phase, plan, status>> /\ lines' = lines \ {w}
        /\ chat' = [chat EXCEPT ![ConvOf(w)] = q]
    BY <1>w, TaskOf, WaveFacts, NoTaskShape DEF PurgeText, TaskDone, Then, Typed
  <1>1. /\ Fresh' = Fresh /\ Running' = Running /\ \A v : Unsent(v)' = Unsent(v)
    BY <1>w, <1>0 DEF Fresh, Running, Unsent
  <1>2. /\ Fresh /\ ~Retrying /\ ~Retrying' /\ ~Unsent(w)
        /\ IsSecond(w) => ~Unsent(w - 1) /\ w - 1 \notin Running
    BY <1>w, <1>0 DEF Ordered, RetryIsAlone, TaskOrder, Retrying
  <1>3. /\ q # NoChat /\ q.wave = w /\ q.group = {}
        /\ Active' = Active \union {ConvOf(w)} /\ chat'[ConvOf(w)] = q
        /\ \A c \in Convs \ {ConvOf(w)} : chat'[c] = chat[c]
    <2>1. q # NoChat /\ q.wave = w /\ q.group = {}
      BY <1>w, <1>0, ChatShapes
    <2> HIDE DEF q
    <2> QED BY <1>w, <1>0, <2>1 DEF Active, Typed, ChatsTyped
  <1> HIDE DEF q
  <1>5. \A v \in Waves : IsSecond(v) => v - 1 \in Waves /\ ~IsSecond(v - 1) /\ v - 1 # -1
                                        /\ ConvOf(v - 1) = ConvOf(v)
    BY <1>w, SecondWave, WaveFacts
  <1>6. LoopPlaces'
    BY <1>w, <1>0, <1>2, TaskPhase DEF LoopPlaces
  <1>7. RetryIsAlone'
    BY <1>w, <1>0, <1>1, <1>2, <1>3 DEF Ordered, RetryIsAlone, Active
  <1>8. TaskOrder'
    BY <1>w, <1>0, <1>1, <1>2, <1>3 DEF Ordered, TaskOrder, Active
  <1>9. WaveOrder'
    <2>1. ASSUME NEW v \in Waves, IsSecond(v), ~Unsent(v)
          PROVE  /\ v - 1 \notin Running /\ w # v - 1
                 /\ \A c \in Convs : chat'[c].wave # v - 1
      <3>1. v - 1 \notin Running /\ w # v - 1
        BY <1>w, <1>0, <1>2, <2>1 DEF Ordered, WaveOrder
      <3>2. ASSUME NEW c \in Convs \ {ConvOf(w)}, chat[c].wave = v - 1 PROVE FALSE
        <4>1. v = w
          BY <1>w, <1>2, <2>1, <3>2 DEF Ordered, WaveOrder
        <4>2. ConvOf(chat[c].wave) = c
          BY <1>w, <1>5, <2>1, <3>2, NoTaskShape DEF Typed, ChatsTyped, GoodChat
        <4> QED BY <1>w, <1>5, <2>1, <3>2, <4>1, <4>2
      <3> QED BY <1>w, <1>3, <3>1, <3>2
    <2> QED BY <1>w, <1>0, <1>1, <1>5, <2>1 DEF Ordered, WaveOrder
  <1>10. RunningHeld'
    BY <1>w, <1>0, <1>1, <1>3 DEF Ordered, RunningHeld
  <1> QED BY <1>w, <1>6, <1>7, <1>8, <1>9, <1>10 DEF Ordered

\* A request for the result is counted.
LEMMA OrderedCount ==
  ASSUME Typed, Ordered, FinalCount
  PROVE  Ordered'
  <1>w. PICK w : w = task.wave
    OBVIOUS
  <1>0. /\ task.step = "count" /\ w \in Waves /\ StatusMoves(w, "running")
    BY <1>w, CountWrites DEF FinalCount, Writes, SessionIs, StatusMoves
  <1>1. /\ Fresh' <=> Fresh
        /\ Running' = Running \union {w}
        /\ ~Unsent(w)' /\ \A v \in Waves : v # w => (Unsent(v)' <=> Unsent(v))
        /\ \A v \in Waves : Unsent(v)' => Unsent(v) /\ session'[v] = session[v]
    BY <1>w, <1>0, StatusFacts
  <1>2. /\ task' = NoTask /\ NoTask.step = "none" /\ NoTask.wave = -1
        /\ UNCHANGED <<phase, plan, lines, status, chat>>
    BY <1>w, NoTaskShape DEF FinalCount, TaskDone, Then
  <1>3. Active' = Active /\ ~Retrying /\ ~Retrying' /\ ~Unsent(w) /\ ConvOf(w) \in Active
    BY <1>w, <1>0, <1>2, TaskPhase DEF Active, Retrying, Ordered, TaskOrder
  <1>4. \A v \in Waves : IsSecond(v) => v - 1 # -1 /\ v - 1 \in Waves
    BY <1>w, SecondWave, WaveFacts
  <1>6. LoopPlaces'
    BY <1>w, <1>0, <1>2, <1>3, TaskPhase DEF LoopPlaces
  <1>7. RetryIsAlone'
    BY <1>w, <1>1, <1>2, <1>3 DEF Ordered, RetryIsAlone
  <1>8. TaskOrder'
    <2>1. \A c \in Active : chat[c].wave \in Waves /\ chat[c].group \subseteq Waves
      BY <1>w, ActiveChat DEF Typed
    <2> QED BY <1>w, <1>1, <1>2, <1>3, <2>1 DEF Ordered, TaskOrder
  <1>9. WaveOrder'
    <2>1. \A v \in Waves : Unsent(v)' =>
            session'[v].deferred = {} /\ session'[v].finals = 0 /\ ~session'[v].retrySent
      BY <1>w, <1>1, UnsentKept DEF Ordered
    <2>2. \A v \in Waves : IsSecond(v) /\ ~Unsent(v)' => ~Unsent(v - 1)'
      BY <1>w, <1>1, <1>3, <1>4 DEF Ordered, WaveOrder
    <2>3. ASSUME Fresh, NEW v \in Waves, IsSecond(v), ~Unsent(v)'
          PROVE  /\ v - 1 \notin Running' /\ task'.wave # v - 1
                 /\ \A c \in Convs : chat'[c].wave # v - 1
      BY <1>w, <1>0, <1>1, <1>2, <1>3, <1>4, <2>3 DEF Ordered, WaveOrder
    <2> QED BY <1>w, <1>1, <2>1, <2>2, <2>3 DEF WaveOrder
  <1>10. RunningHeld'
    BY <1>w, <1>0, <1>1, <1>2, <1>3 DEF Ordered, RunningHeld
  <1> QED BY <1>w, <1>6, <1>7, <1>8, <1>9, <1>10 DEF Ordered

\* The deferred retry is recorded.
LEMMA OrderedRetry ==
  ASSUME Typed, Ordered, RetryRecord
  PROVE  Ordered'
  <1>w. PICK w : w = task.wave
    OBVIOUS
  <1> DEFINE q == [wave |-> w, group |-> task.group]
  <1>0. /\ task.step = "retried" /\ w \in Waves /\ w \in task.group /\ task.group \subseteq Waves
        /\ task' = NoTask /\ NoTask.step = "none" /\ NoTask.wave = -1
        /\ UNCHANGED <<phase, plan, status, lines>>
        /\ chat' = [chat EXCEPT ![ConvOf(w)] = q]
    BY <1>w, TaskOf, NoTaskShape DEF RetryRecord, TaskDone, Then, Typed, TaskTyped, GoodTask
  <1>1. /\ \A v \in task.group : session'[v].status = "running" /\ session'[v].retrySent
        /\ \A v \in Waves \ task.group : session'[v] = session[v]
    BY <1>w, RetryWrites DEF SessionIs
  <1>2. /\ ~Fresh' /\ Retrying /\ ~Retrying' /\ lines = {} /\ plan = {} /\ Active = {}
        /\ \A v \in Waves : Unsent(v)' => Unsent(v) /\ session'[v] = session[v]
        /\ \A v \in task.group : ~Unsent(v)'
    BY <1>w, <1>0, <1>1 DEF Fresh, Retrying, Unsent, Ordered, RetryIsAlone
  <1>3. /\ q # NoChat /\ q.wave = w /\ q.group = task.group
        /\ Active' = {ConvOf(w)} /\ chat'[ConvOf(w)] = q
    <2>1. q # NoChat /\ q.wave = w /\ q.group = task.group
      BY <1>w, <1>0, ChatShapes
    <2>2. ConvOf(w) \in Convs
      BY <1>w, <1>0, WaveFacts
    <2> HIDE DEF q
    <2> QED BY <1>w, <1>0, <1>2, <2>1, <2>2 DEF Active, Typed, ChatsTyped
  <1> HIDE DEF q
  <1>6. LoopPlaces'
    BY <1>w, <1>0, <1>2, TaskPhase DEF LoopPlaces
  <1>7. RetryIsAlone'
    BY <1>w, <1>0, <1>2 DEF RetryIsAlone
  <1>8. TaskOrder'
    BY <1>w, <1>0, <1>2, <1>3 DEF TaskOrder
  <1>9. WaveOrder'
    <2>1. \A v \in Waves : ~Unsent(v) => ~Unsent(v)'
      BY <1>w, <1>2
    <2>2. \A v \in Waves : IsSecond(v) /\ ~Unsent(v)' => ~Unsent(v - 1)'
      <3> SUFFICES ASSUME NEW v \in Waves, IsSecond(v), ~Unsent(v)' PROVE ~Unsent(v - 1)'
        OBVIOUS
      <3>1. v - 1 \in Waves
        BY <1>w, SecondWave
      <3>2. v \notin task.group => ~Unsent(v)
        BY <1>w, <1>1 DEF Unsent
      <3>3. v \in task.group => ~Unsent(v)
        BY <1>2 DEF Ordered, RetryIsAlone
      <3> QED BY <1>w, <2>1, <3>1, <3>2, <3>3 DEF Ordered, WaveOrder
    <2>3. \A v \in Waves : Unsent(v)' =>
            session'[v].deferred = {} /\ session'[v].finals = 0 /\ ~session'[v].retrySent
      BY <1>w, <1>2, UnsentKept DEF Ordered
    <2> QED BY <1>w, <1>2, <2>2, <2>3 DEF WaveOrder
  <1>10. RunningHeld'
    BY <1>w, <1>2 DEF RunningHeld
  <1> QED BY <1>w, <1>6, <1>7, <1>8, <1>9, <1>10 DEF Ordered

-----------------------------------------------------------------------------
(* Steps of the loop *)

\* reattach_job_chats.
LEMMA OrderedAttach ==
  ASSUME Typed, Ordered, Attach
  PROVE  Ordered'
  <1>0. task = NoTask /\ NoTask.step = "none" /\ NoTask.wave = -1 /\ NoChat.wave = -1
    BY NoTaskShape DEF Attach, Ordered, LoopPlaces
  <1>1. CASE FlushDraft
    BY <1>0, <1>1, OrderedAbandon DEF FlushDraft, recordVars
  <1>2. CASE /\ chat' = [c \in Convs |->
                   LET here == {w \in Running : ConvOf(w) = c}
                   IN  IF here = {} THEN NoChat ELSE [wave |-> Max(here), group |-> {}]]
             /\ Goto("create")
             /\ UNCHANGED <<recordVars, backendVars, desktopVars, crashes>>
    <2>1. /\ UNCHANGED <<session, task, plan, lines, status>> /\ phase' = "create"
          /\ ~Retrying /\ ~Retrying'
      BY <1>0, <1>2 DEF Goto, recordVars, Retrying
    <2>2. Fresh' = Fresh /\ Running' = Running /\ \A v : Unsent(v)' = Unsent(v)
      BY <2>1 DEF Fresh, Running, Unsent
    <2>3. ASSUME NEW c \in Convs
          PROVE  IF \E w \in Running : ConvOf(w) = c
                 THEN /\ chat'[c].wave \in Running /\ ConvOf(chat'[c].wave) = c
                      /\ chat'[c] # NoChat /\ chat'[c].group = {}
                 ELSE chat'[c] = NoChat
      <3> DEFINE here == {w \in Running : ConvOf(w) = c}
      <3>1. chat'[c] = IF here = {} THEN NoChat ELSE [wave |-> Max(here), group |-> {}]
        BY <1>2
      <3>2. here # {} => Max(here) \in here /\ here \subseteq Waves
        BY MaxOf DEF Running
      <3>3. here # {} => Max(here) \in Running /\ ConvOf(Max(here)) = c /\ Max(here) \in Waves
        BY <3>2
      <3>4. here # {} <=> \E w \in Running : ConvOf(w) = c
        OBVIOUS
      <3> HIDE DEF here
      <3> DEFINE m == Max(here)
      <3> HIDE DEF m
      <3>5. ASSUME here # {}
            PROVE  [wave |-> m, group |-> {}] # NoChat
        BY <3>3, <3>5, ChatShapes DEF m
      <3> QED BY <3>1, <3>3, <3>4, <3>5 DEF m
    <2>4. \A c \in Active' : /\ c \in Convs /\ chat'[c].wave \in Running /\ chat'[c].group = {}
                             /\ \E w \in Running : ConvOf(w) = c
      BY <2>3 DEF Active
    <2>5. \A w \in Running : w \in Waves /\ ~Unsent(w)
      BY DEF Running, Unsent
    <2>6. \A v \in Waves : IsSecond(v) => v - 1 # -1 /\ v - 1 \in Waves
      BY SecondWave, WaveFacts
    <2>7. LoopPlaces'
      BY <1>0, <2>1 DEF Attach, Ordered, LoopPlaces
    <2>8. RetryIsAlone'
      BY <1>0, <2>1, <2>2, <2>4 DEF Ordered, RetryIsAlone
    <2>9. TaskOrder'
      BY <1>0, <2>1, <2>2, <2>4, <2>5 DEF Ordered, TaskOrder
    <2>10. WaveOrder'
      <3>1. ASSUME Fresh, NEW v \in Waves, IsSecond(v), ~Unsent(v), NEW c \in Convs
            PROVE  chat'[c].wave # v - 1
        BY <1>0, <2>1, <2>3, <2>6, <3>1 DEF Ordered, WaveOrder
      <3> QED BY <1>0, <2>1, <2>2, <2>6, <3>1 DEF Ordered, WaveOrder
    <2>11. RunningHeld'
      BY <2>2, <2>3, <2>5, WaveFacts DEF RunningHeld, Active
    <2> QED BY <2>7, <2>8, <2>9, <2>10, <2>11 DEF Ordered
  <1> QED BY <1>1, <1>2 DEF Attach

\* Steps of the loop that neither write a session nor touch a chat.
LEMMA OrderedGoto ==
  ASSUME Typed, Ordered, task = NoTask, UNCHANGED <<session, task, chat, lines>>,
         phase \notin {"attach"}, phase' \in {"attach", "create", "open", "settle", "turn"},
         plan' \in {plan, {}, lines},
         phase' \in {"settle", "turn"} => plan' = {},
         \/ status' = status /\ status # "failed"
         \/ phase' = "attach" /\ Active = {}
  PROVE  Ordered'
  <1>0. NoTask.step = "none" /\ NoTask.wave = -1 /\ ~Retrying /\ ~Retrying'
    BY NoTaskShape DEF Retrying
  <1>1. Fresh' = Fresh /\ Running' = Running /\ Active' = Active /\ \A v : Unsent(v)' = Unsent(v)
    BY DEF Fresh, Running, Active, Unsent
  <1>2. LoopPlaces'
    BY <1>0, <1>1 DEF Ordered, LoopPlaces
  <1>3. RetryIsAlone'
    BY <1>0, <1>1 DEF Ordered, RetryIsAlone
  <1>4. TaskOrder'
    BY <1>0, <1>1 DEF Ordered, TaskOrder
  <1>5. WaveOrder'
    BY <1>0, <1>1 DEF Ordered, WaveOrder
  <1>6. RunningHeld'
    BY <1>0, <1>1 DEF Ordered, RunningHeld
  <1> QED BY <1>2, <1>3, <1>4, <1>5, <1>6 DEF Ordered

\* create_missing_component_chats takes the next text.
LEMMA OrderedOpenNext ==
  ASSUME Typed, Ordered, OpenNext
  PROVE  Ordered'
  <1>0. /\ task = NoTask /\ phase = "open" /\ UNCHANGED <<session, chat, phase, lines, status>>
        /\ NoTask.step = "none" /\ NoTask.wave = -1 /\ ~Retrying /\ status # "failed"
    BY NoTaskShape DEF OpenNext, recordVars, Retrying, Ordered, LoopPlaces
  <1>1. Fresh' = Fresh /\ Running' = Running /\ Active' = Active /\ \A v : Unsent(v)' = Unsent(v)
    BY <1>0 DEF Fresh, Running, Active, Unsent
  <1>2. Recoverable \subseteq Waves /\ Openable \subseteq Waves /\ Waves \subseteq Nat
    BY WaveFacts DEF Recoverable, Openable, Typed, RestTyped
  <1>3. PICK w \in plan :
          /\ Unsent(w) /\ plan' \subseteq plan
          /\ \/ /\ ~IsSecond(w) /\ task' = Task("open", w)
             \/ /\ IsSecond(w) /\ session[w - 1].status \in Over
                /\ task' = Advance(w - 1, session[w - 1].status)
    <2>1. CASE Recoverable # {} /\ task' = Advance(Min(Recoverable) - 1, session[Min(Recoverable) - 1].status)
      <3>1. Min(Recoverable) \in Recoverable
        BY <1>2, <2>1, MinOf
      <3> QED BY <2>1, <3>1 DEF Recoverable, Over, Unsent, OpenNext
    <2>2. CASE Openable # {} /\ task' = Task("open", Min(Openable))
      <3>1. Min(Openable) \in Openable
        BY <1>2, <2>2, MinOf
      <3> QED BY <2>2, <3>1 DEF Openable, Unsent, OpenNext
    <2> QED BY <2>1, <2>2 DEF OpenNext
  <1>4. w \in Waves /\ Fresh
    BY <1>3 DEF Typed, RestTyped, Ordered, RetryIsAlone
  <1>5. \/ ~IsSecond(w) /\ task'.step = "open" /\ task'.wave = w
        \/ IsSecond(w) /\ task'.step = "text" /\ task'.wave = w - 1 /\ ~Unsent(w - 1)
    BY <1>3, <1>4, TaskShapes, SecondWave DEF Steps, Over, Unsent
  <1>6. task' # NoTask /\ ~Retrying'
    BY <1>0, <1>5 DEF Retrying
  <1>7. LoopPlaces'
    BY <1>0, <1>5, <1>6 DEF LoopPlaces
  <1>8. RetryIsAlone'
    BY <1>0, <1>1, <1>3, <1>4, <1>5, <1>6 DEF Ordered, RetryIsAlone
  <1>9. TaskOrder'
    BY <1>0, <1>1, <1>3, <1>5 DEF Ordered, TaskOrder
  <1>10. WaveOrder'
    <2>1. ASSUME NEW v \in Waves, IsSecond(v), ~Unsent(v)
          PROVE  /\ v - 1 \notin Running /\ task'.wave # v - 1
                 /\ \A c \in Convs : chat[c].wave # v - 1
      <3>1. /\ v - 1 \notin Running /\ ~Unsent(v - 1)
            /\ \A c \in Convs : chat[c].wave # v - 1
        BY <1>0, <1>4, <2>1 DEF Ordered, WaveOrder
      <3>2. w # v /\ w \in Nat /\ v \in Nat
        BY <1>2, <1>3, <1>4, <2>1
      <3> QED BY <1>3, <1>5, <3>1, <3>2
    <2> QED BY <1>0, <1>1, <2>1 DEF Ordered, WaveOrder
  <1>11. RunningHeld'
    BY <1>0, <1>1 DEF Ordered, RunningHeld
  <1> QED BY <1>7, <1>8, <1>9, <1>10, <1>11 DEF Ordered

\* settle_programmatic_delivery starts a retry.
LEMMA OrderedSettleRetry ==
  ASSUME Typed, Ordered, SettleRetry
  PROVE  Ordered'
  <1>1. /\ task' = [Task("retry", Min(RetryGroup)) EXCEPT !.group = RetryGroup]
        /\ UNCHANGED <<session, chat, phase, plan, lines, status>>
        /\ Active = {} /\ Running = {} /\ lines = {} /\ plan = {} /\ status = "processing"
        /\ phase \in {"settle", "polled", "timed"}
    BY DEF SettleRetry, Quiet, Settling, recordVars, loopVars, Ordered, LoopPlaces
  <1>2. task'.step = "retry" /\ task'.group = RetryGroup
    BY <1>1 DEF Task, NoTask
  <1>3. task' # NoTask /\ Retrying'
    BY <1>2, NoTaskShape DEF Retrying
  <1>4. Fresh' = Fresh /\ Running' = Running /\ Active' = Active /\ \A v : Unsent(v)' = Unsent(v)
    BY <1>1 DEF Fresh, Running, Active, Unsent
  <1>5. \A w \in RetryGroup : ~session[w].retrySent /\ ~Unsent(w)
    BY DEF RetryGroup, Unretried, Unsent
  <1>6. LoopPlaces'
    BY <1>1, <1>3 DEF LoopPlaces
  <1>7. RetryIsAlone'
    BY <1>1, <1>2, <1>3, <1>4, <1>5 DEF Ordered, RetryIsAlone
  <1>8. TaskOrder'
    BY <1>1, <1>2, <1>4 DEF Ordered, TaskOrder
  <1>9. WaveOrder'
    BY <1>1, <1>3, <1>4 DEF Ordered, WaveOrder
  <1>10. RunningHeld'
    BY <1>1, <1>4 DEF RunningHeld
  <1> QED BY <1>6, <1>7, <1>8, <1>9, <1>10 DEF Ordered

\* Steps of main()'s loop.
LEMMA OrderedLoop ==
  ASSUME Typed, Ordered, Loop
  PROVE  Ordered'
  <1>1. CASE CreateMissing \/ OpenDone
    <2>1. /\ task = NoTask /\ UNCHANGED <<session, task, chat, lines, status>>
          /\ phase # "attach" /\ status # "failed" /\ plan' \in {plan, {}, lines}
          /\ phase' = "open" \/ (phase' = "settle" /\ plan' = {})
      BY <1>1 DEF CreateMissing, OpenDone, recordVars, Ordered, LoopPlaces
    <2> QED BY <2>1, OrderedGoto
  <1>2. CASE SettleFail \/ SettleOverLimit
    <2>1. /\ task = NoTask /\ UNCHANGED <<session, task, chat>> /\ lines' = lines
          /\ phase # "attach" /\ phase' = "attach" /\ plan' = plan /\ Active = {}
      BY <1>2 DEF SettleFail, SettleOverLimit, Settling, Goto, Quiet
    <2> QED BY <2>1, OrderedGoto
  <1>3. CASE SettleNothing \/ PollNothing
    <2>1. /\ task = NoTask /\ UNCHANGED <<session, task, chat, lines, status>>
          /\ phase # "attach" /\ plan' = plan /\ status # "failed"
          /\ phase' \in {"attach", "turn", "create"} /\ plan = {}
      BY <1>3 DEF SettleNothing, PollNothing, Settling, Goto, recordVars, Ordered, LoopPlaces
    <2> QED BY <2>1, OrderedGoto
  <1>4. CASE StopTerminal
    <2>1. CASE /\ draft # NoDraft /\ Hear(draft) /\ draft' = NoDraft
               /\ UNCHANGED <<recordVars, backendVars, loopVars, chat, task, misses, crashes>>
      BY <2>1, OrderedIdle DEF recordVars, loopVars
    <2>2. CASE /\ chat' = [c \in Convs |-> NoChat]
               /\ Goto("attach")
               /\ UNCHANGED recordVars
      <3>1. task = NoTask
        BY <1>4 DEF StopTerminal, Settling
      <3>2. Restart
        BY <2>2, <3>1 DEF Restart, Goto
      <3> QED BY <2>2, <3>2, OrderedAbandon DEF recordVars, Goto
    <2> QED BY <1>4, <2>1, <2>2 DEF StopTerminal
  <1>5. CASE PollDraft
    <2>1. task = NoTask /\ FlushDraft
      BY <1>5 DEF PollDraft, Polled
    <2> QED BY <2>1, OrderedAbandon, NoTaskShape DEF FlushDraft, recordVars
  <1> QED BY <1>1, <1>2, <1>3, <1>4, <1>5, OrderedAttach, OrderedOpenNext, OrderedSettleRetry DEF Loop

-----------------------------------------------------------------------------
(* Polls *)

\* The wave of a polled chat is judged, and the chat stays.
LEMMA OrderedJudged ==
  ASSUME Typed, Ordered, phase = "turn", task = NoTask, status = "processing",
         NEW c \in Active, NEW w, w = chat[c].wave,
         UNCHANGED <<chat, lines, status, plan>>, phase' \in {"polled", "timed"},
         session' = session \/ \E st : st # "none" /\ StatusMoves(w, st),
         task'.step \in {"text", "final", "continue"}, task'.wave = w
  PROVE  Ordered'
  <1>0. /\ plan = {} /\ c \in Convs /\ w \in Waves /\ ConvOf(w) = c /\ ~Unsent(w)
        /\ ~Retrying /\ ~Retrying' /\ NoTask.step = "none" /\ task' # NoTask /\ Active' = Active
    BY ActiveChat, NoTaskShape DEF Typed, Ordered, LoopPlaces, TaskOrder, Retrying, Active
  <1>1. /\ Fresh' <=> Fresh
        /\ Running' \subseteq Running \union {w}
        /\ \A v \in Waves : Unsent(v)' <=> Unsent(v)
        /\ \A v \in Waves : Unsent(v)' => Unsent(v) /\ session'[v] = session[v]
    <2>1. CASE session' = session
      BY <2>1 DEF Fresh, Running, Unsent
    <2>2. CASE \E st : st # "none" /\ StatusMoves(w, st)
      <3>1. PICK st : st # "none" /\ StatusMoves(w, st)
        BY <2>2
      <3> QED BY <1>0, <3>1, StatusFacts
    <2> QED BY <2>1, <2>2
  <1>2. LoopPlaces'
    BY <1>0 DEF LoopPlaces
  <1>3. RetryIsAlone'
    BY <1>0, <1>1 DEF Ordered, RetryIsAlone
  <1>4. TaskOrder'
    <2>1. \A d \in Active : chat[d].wave \in Waves /\ chat[d].group \subseteq Waves
      BY ActiveChat DEF Typed
    <2> QED BY <1>0, <1>1, <2>1 DEF Ordered, TaskOrder
  <1>5. WaveOrder'
    <2>1. \A v \in Waves : Unsent(v)' =>
            session'[v].deferred = {} /\ session'[v].finals = 0 /\ ~session'[v].retrySent
      BY <1>1, UnsentKept DEF Ordered
    <2>2. \A v \in Waves : IsSecond(v) => v - 1 \in Waves
      BY SecondWave
    <2>3. \A v \in Waves : IsSecond(v) /\ ~Unsent(v)' => ~Unsent(v - 1)'
      BY <1>1, <2>2 DEF Ordered, WaveOrder
    <2>4. ASSUME Fresh, NEW v \in Waves, IsSecond(v), ~Unsent(v)
          PROVE  /\ v - 1 \notin Running /\ w # v - 1
                 /\ \A d \in Convs : chat[d].wave # v - 1
      BY <1>0, <2>4 DEF Ordered, WaveOrder
    <2> QED BY <1>0, <1>1, <2>1, <2>3, <2>4 DEF WaveOrder
  <1>6. RunningHeld'
    <2>1. Fresh => \A v \in Running : ConvOf(v) \in Active
      BY <1>0 DEF Ordered, RunningHeld
    <2> QED BY <1>0, <1>1, <2>1 DEF RunningHeld
  <1> QED BY <1>2, <1>3, <1>4, <1>5, <1>6 DEF Ordered

\* The chat of a retry is let go of.
LEMMA OrderedDropped ==
  ASSUME Typed, Ordered, phase = "turn", task = NoTask, status = "processing",
         NEW c \in Active, task' = NoTask, Dropped(c), ~Fresh, ~Fresh',
         UNCHANGED <<lines, status, plan>>, phase' \in {"polled", "timed"},
         \A v \in Waves : Unsent(v)' <=> Unsent(v),
         \A v \in Waves : Unsent(v)' => session'[v] = session[v]
  PROVE  Ordered'
  <1>0. /\ plan = {} /\ c \in Convs /\ ~Retrying /\ ~Retrying' /\ NoTask.step = "none"
    BY ActiveChat, NoTaskShape DEF Typed, Ordered, LoopPlaces, Retrying
  <1>1. \A d \in Active' : d \in Active /\ chat'[d] = chat[d]
    BY <1>0 DEF Dropped, Active, Typed, ChatsTyped
  <1>2. LoopPlaces'
    BY <1>0 DEF LoopPlaces
  <1>3. RetryIsAlone'
    BY <1>0 DEF Ordered, RetryIsAlone
  <1>4. TaskOrder'
    <2>1. \A d \in Active : chat[d].wave \in Waves /\ chat[d].group \subseteq Waves
      BY ActiveChat DEF Typed
    <2> QED BY <1>0, <1>1, <2>1 DEF Ordered, TaskOrder
  <1>5. WaveOrder'
    <2>1. \A v \in Waves : Unsent(v)' =>
            session'[v].deferred = {} /\ session'[v].finals = 0 /\ ~session'[v].retrySent
      BY UnsentKept DEF Ordered
    <2>2. \A v \in Waves : IsSecond(v) => v - 1 \in Waves
      BY SecondWave
    <2>3. \A v \in Waves : IsSecond(v) /\ ~Unsent(v)' => ~Unsent(v - 1)'
      BY <2>2 DEF Ordered, WaveOrder
    <2> QED BY <2>1, <2>3 DEF WaveOrder
  <1>6. RunningHeld'
    BY DEF RunningHeld
  <1> QED BY <1>2, <1>3, <1>4, <1>5, <1>6 DEF Ordered

\* A settle window is opened.
LEMMA OrderedSettling ==
  ASSUME Typed, Ordered, phase = "turn", task = NoTask, status = "processing",
         NEW w \in Waves, Writes(w, session[w].status, session[w].deferred, session[w].retrySent, session[w].finals),
         UNCHANGED <<chat, lines, status, plan, task>>, phase' = "create"
  PROVE  Ordered'
  <1>0. \A v \in Waves : /\ session'[v].status = session[v].status
                         /\ session'[v].deferred = session[v].deferred
                         /\ session'[v].retrySent = session[v].retrySent
                         /\ session'[v].finals = session[v].finals
    BY DEF Writes, SessionIs
  <1>1. Fresh' = Fresh /\ Running' = Running /\ Active' = Active /\ Retrying' = Retrying
        /\ \A v \in Waves : Unsent(v)' = Unsent(v)
    BY <1>0 DEF Fresh, Running, Active, Unsent, Retrying
  <1>2. \A d \in Active : chat[d].wave \in Waves /\ chat[d].group \subseteq Waves
    BY ActiveChat DEF Typed
  <1>3. NoTask.step = "none" /\ NoTask.wave = -1 /\ ~Retrying
    BY NoTaskShape DEF Retrying
  <1>4. LoopPlaces'
    BY <1>1 DEF Ordered, LoopPlaces
  <1>5. RetryIsAlone'
    BY <1>1, <1>3 DEF Ordered, RetryIsAlone
  <1>6. TaskOrder'
    BY <1>1, <1>2, <1>3 DEF Ordered, TaskOrder
  <1>7. WaveOrder'
    <2>1. \A v \in Waves : IsSecond(v) => v - 1 \in Waves
      BY SecondWave
    <2> QED BY <1>0, <1>1, <2>1 DEF Ordered, WaveOrder
  <1>8. RunningHeld'
    BY <1>1, <1>3 DEF Ordered, RunningHeld
  <1> QED BY <1>4, <1>5, <1>6, <1>7, <1>8 DEF Ordered

\* The outcomes of a poll.
LEMMA PollOutcomes ==
  ASSUME Typed, NEW c \in Convs, PollEnds(c)
  PROVE  /\ phase = "turn" /\ task = NoTask /\ status = "processing" /\ c \in Active
         /\ draft = NoDraft /\ chat[c].wave \in Waves
         /\ UNCHANGED <<backendVars, status, lines, plan, draft, asked, misses, crashes>>
         /\ \/ ContinueWave(chat[c].wave) /\ chat[c].group = {} /\ phase' \in {"polled", "timed"}
            \/ FinishGroup(c) /\ chat[c].group # {} /\ phase' \in {"polled", "timed"}
            \/ /\ session' = [session EXCEPT ![chat[c].wave].settle = Fingerprint(chat[c].wave)]
               /\ UNCHANGED <<chat, task>> /\ phase' = "create"
  <1>1. Polled(c) /\ draft = NoDraft
    BY DEF PollEnds, AdvanceMachine, Reply, Timeout
  <1>2. chat[c].wave \in Waves
    BY <1>1, ActiveChat DEF Typed, Polled
  <1>3. UNCHANGED <<backendVars, status, lines, plan, draft, asked, misses, crashes>>
    BY DEF PollEnds, AdvanceMachine, Reply, Timeout, ContinueWave, FinishGroup, Goto, desktopVars
  <1>4. CASE AdvanceMachine(c)
    BY <1>4, <1>1, <1>2, <1>3 DEF AdvanceMachine, FastPath, Polled
  <1>5. CASE Reply(c)
    BY <1>5, <1>1, <1>2, <1>3 DEF Reply, Polled, Goto
  <1>6. CASE Timeout(c)
    BY <1>6, <1>1, <1>2, <1>3 DEF Timeout, Polled
  <1> QED BY <1>4, <1>5, <1>6 DEF PollEnds

\* Polls.
LEMMA OrderedPolls ==
  ASSUME Typed, Ordered, NEW c \in Convs, PollEnds(c)
  PROVE  Ordered'
  <1>w. PICK w : w = chat[c].wave
    OBVIOUS
  <1>0. /\ phase = "turn" /\ task = NoTask /\ status = "processing" /\ c \in Active /\ w \in Waves
        /\ UNCHANGED <<status, lines, plan>> /\ ~Unsent(w)
        /\ \A v \in chat[c].group : v \in Waves /\ ~Unsent(v)
    BY <1>w, PollOutcomes, ActiveChat DEF Ordered, TaskOrder, Typed
  <1>1. CASE ContinueWave(w) /\ phase' \in {"polled", "timed"}
    <2>1. CASE ContinueFinished(w) \/ ContinueFinal(w)
      <3>1. UNCHANGED <<session, chat>> /\ task'.step \in {"text", "final"} /\ task'.wave = w
        BY <1>0, <2>1, TaskShapes DEF ContinueFinished, ContinueFinal, Over, Steps
      <3> QED BY <1>w, <1>0, <1>1, <3>1, OrderedJudged
    <2>2. CASE ContinueStalled(w)
      <3> DEFINE fresh == Incomplete(w) \ OwnDeferred(w)
      <3>1. PICK stalled \in SUBSET fresh :
              /\ Writes(w, IF fresh # stalled THEN "running" ELSE "deferred", OwnDeferred(w) \union stalled,
                        session[w].retrySent, session[w].finals)
              /\ task' = IF fresh # stalled THEN Task("continue", w) ELSE Advance(w, "deferred")
        BY <1>0, <2>2, StalledWrites
      <3>2. PICK st : st = (IF fresh # stalled THEN "running" ELSE "deferred")
        OBVIOUS
      <3>3. st # "none" /\ StatusMoves(w, st)
        BY <3>1, <3>2 DEF StatusMoves, Writes, SessionIs
      <3>4. task'.step \in {"text", "continue"} /\ task'.wave = w
        BY <1>0, <3>1, TaskShapes DEF Over, Steps
      <3>5. chat' = chat
        BY <2>2 DEF ContinueStalled
      <3> QED BY <1>w, <1>0, <1>1, <3>3, <3>4, <3>5, OrderedJudged
    <2>3. CASE ContinueExhausted(w)
      <3>1. StatusMoves(w, "deferred_failed") /\ session[w].retrySent
        BY <1>0, <2>3, ExhaustedWrites DEF StatusMoves, Writes, SessionIs, ContinueExhausted
      <3>2. /\ ~Fresh /\ ~Fresh'
            /\ \A v \in Waves : Unsent(v)' <=> Unsent(v)
            /\ \A v \in Waves : Unsent(v)' => session'[v] = session[v]
        BY <1>0, <3>1, StatusFacts DEF Fresh
      <3>3. task' = NoTask /\ Dropped(c)
        BY <1>w, <1>0, <2>3, ActiveChat DEF ContinueExhausted, Typed
      <3> QED BY <1>0, <1>1, <3>2, <3>3, OrderedDropped
    <2> QED BY <1>1, <2>1, <2>2, <2>3 DEF ContinueWave
  <1>2. CASE FinishGroup(c) /\ chat[c].group # {} /\ phase' \in {"polled", "timed"}
    <2>1. /\ \A v \in chat[c].group : session'[v].status # "none" /\ session'[v].retrySent
          /\ \A v \in Waves \ chat[c].group : session'[v] = session[v]
      BY <1>2, GroupWrites DEF SessionIs
    <2>2. ~Fresh
      BY <1>0, <1>2 DEF Ordered, RetryIsAlone
    <2>3. ~Fresh'
      BY <1>0, <1>2, <2>1 DEF Fresh
    <2>4. /\ \A v \in Waves : Unsent(v)' <=> Unsent(v)
          /\ \A v \in Waves : Unsent(v)' => session'[v] = session[v]
      BY <1>0, <2>1 DEF Unsent
    <2>5. task' = NoTask /\ Dropped(c)
      BY <1>2 DEF FinishGroup
    <2> QED BY <1>0, <1>2, <2>2, <2>3, <2>4, <2>5, OrderedDropped
  <1>3. CASE /\ session' = [session EXCEPT ![w].settle = Fingerprint(w)]
             /\ UNCHANGED <<chat, task>> /\ phase' = "create"
    BY <1>0, <1>3, SettleWrites, OrderedSettling
  <1> QED BY <1>w, <1>1, <1>2, <1>3, PollOutcomes

\* Agents, receipts, sales and crashes.
LEMMA OrderedOthers ==
  ASSUME Typed, Ordered, Agents \/ AdoptReceipt \/ Cancel \/ Crash \/ Rest \/ UNCHANGED vars
  PROVE  Ordered'
  <1>1. CASE Agents
    <2>1. UNCHANGED <<session, task, chat, phase, plan, lines, status>>
      BY <1>1 DEF Agents, Register, SaveResult, CompletePrice, Deliver, ChatStops,
                  recordVars, loopVars
    <2> QED BY <2>1, OrderedIdle
  <1>2. CASE AdoptReceipt \/ Cancel
    <2>1. /\ UNCHANGED <<session, task, chat, phase, plan>> /\ lines' \in {lines, {}}
          /\ status' # "failed"
      BY <1>2 DEF AdoptReceipt, Cancel, loopVars
    <2> QED BY <2>1, OrderedIdle
  <1>3. CASE Crash
    BY <1>3, OrderedAbandon DEF Crash, recordVars
  <1>4. CASE Rest \/ UNCHANGED vars
    BY <1>4, OrderedIdle DEF Rest, vars, recordVars, loopVars
  <1> QED BY <1>1, <1>2, <1>3, <1>4

\* The order holds at first
LEMMA OrderedInit ==
  ASSUME Init
  PROVE  Ordered
  <1>1. 0 \in Waves /\ ConvOf(0) = 0 /\ ~IsSecond(0) /\ 0 \in Convs
    <2>1. 0 \in Waves /\ ConvOf(0) = 0 /\ ~IsSecond(0)
      BY WavesAssumption DEF Waves, ConvOf, IsSecond
    <2> QED BY <2>1 DEF Convs
  <1>2. \A w \in Waves : /\ session[w].status = IF w = 0 THEN "running" ELSE "none"
                         /\ session[w].deferred = {} /\ session[w].finals = 0
                         /\ session[w].retrySent = FALSE
    <2>1. NoPrint \in Prints
      BY DEF NoPrint, Prints
    <2>2. NewSession \in Sessions
      BY <2>1 DEF NewSession, Sessions, SessionStatus
    <2>3. SessionIs(NewSession, "running", {}, FALSE, 0) /\ SessionIs(NoSession, "none", {}, FALSE, 0)
      BY <2>2, SessionShapes DEF SessionStatus
    <2> QED BY <2>3 DEF Init, SessionIs
  <1>3. /\ Fresh /\ ~Retrying /\ Running = {0} /\ NoTask.step = "none"
        /\ \A w \in Waves : Unsent(w) <=> w # 0
    BY <1>1, <1>2, NoTaskShape DEF Fresh, Retrying, Running, Unsent, Init
  <1>4. /\ 0 \in Active /\ Active \subseteq {0} /\ chat[0].wave = 0 /\ chat[0].group = {}
    BY <1>1, ChatShapes DEF Active, Init
  <1>5. LoopPlaces
    BY DEF LoopPlaces, Init
  <1>6. RetryIsAlone
    BY <1>3, <1>4, NoTaskShape DEF RetryIsAlone, Init
  <1>7. TaskOrder
    BY <1>1, <1>3, <1>4, NoTaskShape DEF TaskOrder, Init
  <1>8. WaveOrder
    BY <1>1, <1>2, <1>3 DEF WaveOrder
  <1>9. RunningHeld
    BY <1>1, <1>3, <1>4 DEF RunningHeld
  <1> QED BY <1>5, <1>6, <1>7, <1>8, <1>9 DEF Ordered

\* ... and after every step.
LEMMA OrderedNext ==
  ASSUME Typed, Ordered, [Next]_vars
  PROVE  Ordered'
  <1>1. CASE TaskStep
    BY <1>1, OrderedEnds, OrderedMark, OrderedRecord, OrderedPurge, OrderedCount, OrderedRetry,
       OrderedPrompts DEF TaskStep
  <1> QED BY <1>1, OrderedLoop, OrderedPolls, OrderedOthers DEF Next

-----------------------------------------------------------------------------
(* The job's share of chats *)

\* Conversations that hold a chat, or will once the function in progress, or
\* the next restart, has given them one.
InUse(c) ==
  \/ c \in Active
  \/ \E w \in Running : ConvOf(w) = c
  \/ task # NoTask /\ ConvOf(task.wave) = c
Busy == {c \in Convs : InUse(c)}

BusyOK == Cardinality(Busy) <= MaxPerJob

\* Conversations are finitely many.
LEMMA FewConvs ==
  ASSUME NEW S \in SUBSET Convs
  PROVE  IsFiniteSet(S) /\ Cardinality(S) \in Nat
  <1>1. S \subseteq 0..NumWaves
    BY WavesAssumption DEF Convs, Waves, ConvOf
  <1>2. IsFiniteSet(0..NumWaves)
    BY FS_Interval, WavesAssumption
  <1> QED BY <1>1, <1>2, FS_Subset, FS_CardinalityType

\* A step that takes no conversation into use.
LEMMA FewerBusy ==
  ASSUME BusyOK, \A c \in Convs : InUse(c)' => InUse(c)
  PROVE  BusyOK'
  <1>1. Busy' \subseteq Busy
    BY DEF Busy
  <1>2. IsFiniteSet(Busy) /\ Cardinality(Busy) \in Nat
    BY FewConvs DEF Busy
  <1>3. Cardinality(Busy') <= Cardinality(Busy)
    BY <1>1, <1>2, FS_Subset
  <1>4. Cardinality(Busy') \in Nat
    BY FewConvs, <1>1 DEF Busy
  <1> QED BY <1>2, <1>3, <1>4, WavesAssumption DEF BusyOK

\* What a step may do without taking a conversation into use.
LEMMA SameUse ==
  ASSUME Typed,
         \A c \in Convs : chat'[c] = NoChat \/ chat'[c] = chat[c] \/ InUse(c),
         \A w \in Waves : session'[w].status = "running" => w \in Running \/ InUse(ConvOf(w)),
         task' = NoTask \/ InUse(ConvOf(task'.wave))
  PROVE  \A c \in Convs : InUse(c)' => InUse(c)
  <1>1. ASSUME NEW c \in Convs, c \in Active' PROVE InUse(c)
    BY <1>1 DEF Active, InUse
  <1>2. ASSUME NEW w \in Running' PROVE InUse(ConvOf(w))
    <2>1. w \in Waves /\ session'[w].status = "running"
      BY <1>2 DEF Running
    <2> QED BY <2>1 DEF InUse
  <1> QED BY <1>1, <1>2 DEF InUse

\* Prompts take none into use
LEMMA SubmitUse ==
  ASSUME Typed, task # NoTask, NEW p, NEW next, next = NoTask \/ next.wave = task.wave,
         Submit(p, next) \/ SubmitInNewChat(p, next)
  PROVE  \A c \in Convs : InUse(c)' => InUse(c)
  <1>1. session' = session /\ \A c \in Convs : chat'[c] = NoChat \/ chat'[c] = chat[c]
    BY DEF Submit, SubmitInNewChat, FlushDraft, Abandon, Restart, recordVars
  <1>2. task' = NoTask \/ task' = next
    BY DEF Submit, SubmitInNewChat, FlushDraft, Abandon, Restart, Then
  <1> QED BY <1>1, <1>2, SameUse DEF InUse, Running

\* ... and neither do the worker functions: their conversation is in use.
LEMMA TaskStepUse ==
  ASSUME Typed, Ordered, TaskStep
  PROVE  \A c \in Convs : InUse(c)' => InUse(c)
  <1>w. PICK w : w = task.wave
    OBVIOUS
  <1>0. task # NoTask /\ w \in Waves /\ InUse(ConvOf(w)) /\ GoodTask(task)
    <2>1. task.step # "none"
      BY DEF TaskStep, AdvanceEnds, AdvanceText, AdvanceMark, RecordSession, PurgeText, OpenText,
             ContinuePrompt, FinalPrompt, FinalCount, RetryPrompt, RetryRecord
    <2> QED BY <1>w, <2>1, TaskPhase DEF InUse, Typed, TaskTyped
  <1>1. CASE AdvanceEnds
    <2>1. \A v \in Waves : session'[v].status = "running" => v \in Running
      BY <1>1, EndWrites DEF Writes, SessionIs, Over, Running
    <2>2. task' = NoTask /\ \A c \in Convs : chat'[c] = NoChat \/ chat'[c] = chat[c]
      BY <1>1 DEF AdvanceEnds, Dropped, TaskDone, Then, Typed, ChatsTyped
    <2> QED BY <2>1, <2>2, SameUse
  <1>2. CASE AdvanceMark
    <2>1. \A v \in Waves : session'[v].status = "running" => v \in Running
      BY <1>2, EndWrites DEF Writes, SessionIs, Over, Running
    <2>2. ConvOf(w + 1) = ConvOf(w) /\ w + 1 \in Waves
      BY <1>w, <1>0, <1>2 DEF GoodTask, AdvanceMark
    <2>3. task'.wave = w + 1 /\ chat' = chat
      BY <1>w, <1>2, <2>2, TaskShapes DEF AdvanceMark, Steps
    <2>4. InUse(ConvOf(task'.wave))
      BY <1>0, <2>2, <2>3
    <2> QED BY <2>1, <2>3, <2>4, SameUse
  <1>3. CASE RecordSession
    <2>1. \A v \in Waves : session'[v].status = "running" => v \in Running \/ v = w
      BY <1>w, <1>3, RecordWrites DEF Writes, SessionIs, Running
    <2>2. task'.wave = w /\ chat' = chat
      BY <1>w, <1>0, <1>3, NextStep, NoTaskShape DEF RecordSession, Steps
    <2>3. InUse(ConvOf(task'.wave)) /\ \A v \in Waves : v = w => InUse(ConvOf(v))
      BY <1>0, <2>2
    <2> QED BY <2>1, <2>2, <2>3, SameUse
  <1>4. CASE PurgeText
    <2>1. session' = session /\ task' = NoTask /\ \A c \in Convs : c # ConvOf(w) => chat'[c] = chat[c]
      BY <1>w, <1>4 DEF PurgeText, TaskDone, Then, Typed, ChatsTyped
    <2>2. \A c \in Convs : c = ConvOf(w) => InUse(c)
      BY <1>0
    <2> QED BY <2>1, <2>2, SameUse DEF Running
  <1>5. CASE FinalCount
    <2>1. \A v \in Waves : session'[v].status = "running" => v \in Running \/ v = w
      BY <1>w, <1>5, CountWrites DEF Writes, SessionIs, Running
    <2>2. task' = NoTask /\ chat' = chat /\ \A v \in Waves : v = w => InUse(ConvOf(v))
      BY <1>0, <1>5 DEF FinalCount, TaskDone, Then
    <2> QED BY <2>1, <2>2, SameUse
  <1>6. CASE RetryRecord
    <2>1. \A v \in Waves : session'[v].status = "running" => v \in Running \/ v \in task.group
      BY <1>6, RetryWrites DEF Running
    <2>2. \A v \in task.group : InUse(ConvOf(v))
      BY <1>w, <1>0, <1>6 DEF RetryRecord, GoodTask
    <2>3. task' = NoTask /\ \A c \in Convs : c # ConvOf(w) => chat'[c] = chat[c]
      BY <1>w, <1>6 DEF RetryRecord, TaskDone, Then, Typed, ChatsTyped
    <2>4. \A c \in Convs : c = ConvOf(w) => InUse(c)
      BY <1>0
    <2> QED BY <2>1, <2>2, <2>3, <2>4, SameUse
  <1>7. CASE AdvanceText \/ OpenText \/ FinalPrompt \/ RetryPrompt \/ ContinuePrompt
    <2> DEFINE next(step) == [task EXCEPT !.step = step]
    <2>1. \A step : next(step).wave = task.wave
      BY <1>0 DEF GoodTask, Tasking
    <2> HIDE DEF next
    <2>2. \E p, n : (n = NoTask \/ \E step : n = next(step)) /\ (Submit(p, n) \/ SubmitInNewChat(p, n))
      BY <1>7 DEF AdvanceText, OpenText, FinalPrompt, RetryPrompt, ContinuePrompt, next
    <2> QED BY <1>0, <2>1, <2>2, SubmitUse
  <1> QED BY <1>1, <1>2, <1>3, <1>4, <1>5, <1>6, <1>7 DEF TaskStep

\* Only OpenNext and the retry take a conversation into use, and they have room.
LEMMA BusyNext ==
  ASSUME Typed, Ordered, BusyOK, [Next]_vars
  PROVE  BusyOK'
  <1>1. CASE TaskStep
    BY <1>1, TaskStepUse, FewerBusy
  <1>2. CASE OpenNext
    <2>1. /\ task = NoTask /\ phase = "open" /\ session' = session /\ chat' = chat
          /\ \E w \in plan : HasRoom
      BY <1>2, MinOf DEF OpenNext, Recoverable, Openable, recordVars
    <2>2. Fresh
      BY <2>1 DEF Ordered, RetryIsAlone
    <2>3. Busy \subseteq Active /\ Active \subseteq Convs
      BY <2>1, <2>2 DEF Busy, InUse, Active, Ordered, RunningHeld
    <2>4. Active' = Active /\ Running' = Running
      BY <2>1 DEF Active, Running
    <2>5. PICK d : d = ConvOf(task'.wave)
      OBVIOUS
    <2>6. Busy' \subseteq Active \union {d}
      BY <2>1, <2>3, <2>4, <2>5 DEF Busy, InUse
    <2>7. IsFiniteSet(Active) /\ Cardinality(Active) \in Nat /\ Cardinality(Active) < MaxPerJob
      BY <2>1, <2>3, FewConvs DEF HasRoom
    <2>8. /\ IsFiniteSet(Active \union {d})
          /\ Cardinality(Active \union {d}) <= Cardinality(Active) + 1
          /\ Cardinality(Active \union {d}) \in Nat
      <3>1. /\ IsFiniteSet(Active \union {d})
            /\ Cardinality(Active \union {d}) =
                 IF d \in Active THEN Cardinality(Active) ELSE Cardinality(Active) + 1
        BY <2>7, FS_AddElement
      <3> QED BY <2>7, <3>1
    <2>9. Cardinality(Busy') <= Cardinality(Active \union {d})
      BY <2>6, <2>8, FS_Subset
    <2>10. Cardinality(Busy') \in Nat
      <3>1. IsFiniteSet(Busy')
        BY <2>6, <2>8, FS_Subset
      <3> QED BY <3>1, FS_CardinalityType
    <2> QED BY <2>7, <2>8, <2>9, <2>10, WavesAssumption DEF BusyOK
  <1>3. CASE SettleRetry
    <2>1. session' = session /\ chat' = chat /\ Active = {} /\ Running = {}
      BY <1>3 DEF SettleRetry, Quiet, recordVars
    <2>2. PICK d : d = ConvOf(task'.wave)
      OBVIOUS
    <2>3. Busy' \subseteq {d}
      BY <2>1, <2>2 DEF Busy, InUse, Active, Running
    <2>4. IsFiniteSet({d}) /\ Cardinality({d}) = 1
      BY FS_Singleton
    <2>5. Cardinality(Busy') <= 1 /\ IsFiniteSet(Busy')
      BY <2>3, <2>4, FS_Subset
    <2>6. Cardinality(Busy') \in Nat
      BY <2>5, FS_CardinalityType
    <2> QED BY <2>5, <2>6, WavesAssumption DEF BusyOK
  <1>4. CASE Loop /\ ~OpenNext /\ ~SettleRetry
    <2>1. CASE Attach
      <3>1. session' = session /\ task' = NoTask
        BY <2>1, NoTaskShape DEF Attach, FlushDraft, Abandon, Restart, Goto, recordVars, Ordered, LoopPlaces
      <3>2. \A c \in Convs : chat'[c] = NoChat \/ chat'[c] = chat[c] \/ InUse(c)
        <4>1. CASE FlushDraft
          BY <4>1 DEF FlushDraft, Abandon, Restart
        <4>2. CASE chat' = [c \in Convs |->
                   LET here == {w \in Running : ConvOf(w) = c}
                   IN  IF here = {} THEN NoChat ELSE [wave |-> Max(here), group |-> {}]]
          BY <4>2 DEF InUse
        <4> QED BY <2>1, <4>1, <4>2 DEF Attach
      <3> QED BY <3>1, <3>2, SameUse, FewerBusy DEF Running
    <2>2. CASE CreateMissing \/ OpenDone \/ SettleFail \/ SettleOverLimit \/ SettleNothing
               \/ StopTerminal \/ PollDraft \/ PollNothing
      <3>1. session' = session /\ \A c \in Convs : chat'[c] = NoChat \/ chat'[c] = chat[c]
        BY <2>2 DEF CreateMissing, OpenDone, SettleFail, SettleOverLimit, SettleNothing,
               StopTerminal, PollDraft, PollNothing, FlushDraft, Abandon, Restart, Goto, recordVars
      <3>2. task' = NoTask \/ task' = task
        BY <2>2 DEF CreateMissing, OpenDone, SettleFail, SettleOverLimit, SettleNothing,
               StopTerminal, PollDraft, PollNothing, FlushDraft, Abandon, Restart, Goto, loopVars
      <3> QED BY <3>1, <3>2, SameUse, FewerBusy DEF Running, InUse
    <2> QED BY <1>4, <2>1, <2>2 DEF Loop
  <1>5. ASSUME NEW c \in Convs, PollEnds(c) PROVE BusyOK'
    <2>w. PICK w : w = chat[c].wave
      OBVIOUS
    <2>0. w \in Waves /\ ConvOf(w) = c /\ InUse(c) /\ \A v \in chat[c].group : v \in Waves
      BY <2>w, <1>5, PollOutcomes, ActiveChat DEF Typed, InUse
    <2>1. CASE ContinueWave(w)
      <3>1. CASE ContinueFinished(w) \/ ContinueFinal(w)
        <4>1. UNCHANGED <<session, chat>> /\ task'.wave = w
          BY <2>0, <3>1, TaskShapes DEF ContinueFinished, ContinueFinal, Over, Steps
        <4> QED BY <2>0, <4>1, SameUse, FewerBusy DEF Running
      <3>2. CASE ContinueStalled(w)
        <4>1. chat' = chat /\ task'.wave = w
          BY <2>0, <3>2, StalledWrites, TaskShapes DEF ContinueStalled, Over, Steps
        <4>2. \A v \in Waves : session'[v].status = "running" => v \in Running \/ v = w
          BY <2>0, <3>2, StalledWrites DEF Writes, Running
        <4>3. InUse(ConvOf(task'.wave)) /\ \A v \in Waves : v = w => InUse(ConvOf(v))
          BY <2>0, <4>1
        <4> QED BY <4>1, <4>2, <4>3, SameUse, FewerBusy
      <3>3. CASE ContinueExhausted(w)
        <4>1. \A v \in Waves : session'[v].status = "running" => v \in Running
          BY <2>0, <3>3, ExhaustedWrites DEF Writes, SessionIs, Running
        <4>2. task' = NoTask /\ \A d \in Convs : chat'[d] = NoChat \/ chat'[d] = chat[d]
          BY <3>3 DEF ContinueExhausted, Dropped, Typed, ChatsTyped
        <4> QED BY <4>1, <4>2, SameUse, FewerBusy
      <3> QED BY <2>1, <3>1, <3>2, <3>3 DEF ContinueWave
    <2>2. CASE FinishGroup(c)
      <3>1. \A v \in Waves : session'[v].status = "running" => v \in Running
        BY <2>0, <2>2, GroupWrites DEF SessionIs, Running
      <3>2. task' = NoTask /\ \A d \in Convs : chat'[d] = NoChat \/ chat'[d] = chat[d]
        BY <2>2 DEF FinishGroup, Dropped, Typed, ChatsTyped
      <3> QED BY <3>1, <3>2, SameUse, FewerBusy
    <2>3. CASE /\ session' = [session EXCEPT ![w].settle = Fingerprint(w)]
               /\ UNCHANGED <<chat, task>>
      <3>1. \A v \in Waves : session'[v].status = "running" => v \in Running
        BY <2>0, <2>3, SettleWrites DEF Writes, SessionIs, Running
      <3>2. task' = NoTask
        BY <1>5, <2>3, PollOutcomes
      <3> QED BY <3>1, <3>2, <2>3, SameUse, FewerBusy
    <2> QED BY <2>w, <1>5, <2>1, <2>2, <2>3, PollOutcomes
  <1>6. CASE Agents \/ AdoptReceipt \/ Cancel \/ Crash \/ Rest \/ UNCHANGED vars
    <2>1. session' = session /\ \A c \in Convs : chat'[c] = NoChat \/ chat'[c] = chat[c]
      BY <1>6 DEF Agents, Register, SaveResult, CompletePrice, Deliver, ChatStops,
                  AdoptReceipt, Cancel, Crash, Restart, Rest, vars, recordVars
    <2>2. task' = NoTask \/ task' = task
      BY <1>6 DEF Agents, Register, SaveResult, CompletePrice, Deliver, ChatStops,
                  AdoptReceipt, Cancel, Crash, Restart, Rest, vars
    <2> QED BY <2>1, <2>2, SameUse, FewerBusy DEF Running, InUse
  <1> QED BY <1>1, <1>2, <1>3, <1>4, <1>5, <1>6 DEF Next

\* ChatLimit: the job never holds more chats than its share, through every
\* restart and reattachment.
THEOREM ChatLimitHolds == Spec => []ChatLimit
  <1> DEFINE Inv == Typed /\ Ordered /\ BusyOK
  <1>1. Init => Inv
    <2> SUFFICES ASSUME Init PROVE BusyOK
      BY TypedInit, OrderedInit
    <2>1. Busy \subseteq {0}
      <3>1. ConvOf(0) = 0
        BY DEF ConvOf
      <3>2. \A w \in Running : w = 0
        <4>1. NoSession.status = "none"
          BY DEF NoSession, NewSession
        <4> QED BY <4>1 DEF Running, Init
      <3>3. Active \subseteq {0}
        BY DEF Active, Init
      <3> QED BY <3>1, <3>2, <3>3 DEF Busy, InUse, Init
    <2>2. Cardinality(Busy) <= 1
      <3>1. IsFiniteSet({0}) /\ Cardinality({0}) = 1
        BY FS_Singleton
      <3> QED BY <2>1, <3>1, FS_Subset
    <2>3. Cardinality(Busy) \in Nat
      BY FewConvs DEF Busy
    <2> QED BY <2>2, <2>3, WavesAssumption DEF BusyOK
  <1>2. Inv /\ [Next]_vars => Inv'
    BY TypedNext, OrderedNext, BusyNext
  <1>3. Inv => ChatLimit
    <2> SUFFICES ASSUME BusyOK PROVE ChatLimit
      OBVIOUS
    <2>1. Active \subseteq Busy /\ Busy \subseteq Convs
      BY DEF Active, Busy, InUse
    <2>2. IsFiniteSet(Busy) /\ Cardinality(Busy) \in Nat /\ Cardinality(Active) \in Nat
      BY <2>1, FewConvs
    <2>3. Cardinality(Active) <= Cardinality(Busy)
      BY <2>1, <2>2, FS_Subset
    <2> QED BY <2>2, <2>3, WavesAssumption DEF BusyOK, ChatLimit
  <1> HIDE DEF Inv
  <1> QED BY <1>1, <1>2, <1>3, PTL DEF Spec

-----------------------------------------------------------------------------
(* How often a chat was told a wave's prompts *)

Excused == crashes + misses

Hits(p, kind, w) == IF p.kind = kind /\ w \in p.waves THEN 1 ELSE 0

\* Prompts that reached a chat, with the one that lies in the composer.
Reached(kind, w) == asked[w][kind] + Hits(draft, kind, w)

\* A step tells no more than prompt p.
ToldOnce(p) == \A w \in Waves, kind \in Kinds :
  Reached(kind, w)' \in Nat /\ Reached(kind, w)' <= Reached(kind, w) + Hits(p, kind, w)

\* The kinds one by one.
LEMMA ToldEach ==
  ASSUME NEW p, ToldOnce(p), NEW w \in Waves
  PROVE  /\ Reached("text", w)' \in Nat /\ Reached("text", w)' <= Reached("text", w) + Hits(p, "text", w)
         /\ Reached("continue", w)' \in Nat
         /\ Reached("continue", w)' <= Reached("continue", w) + Hits(p, "continue", w)
         /\ Reached("final", w)' \in Nat /\ Reached("final", w)' <= Reached("final", w) + Hits(p, "final", w)
         /\ Reached("retry", w)' \in Nat /\ Reached("retry", w)' <= Reached("retry", w) + Hits(p, "retry", w)
  BY DEF ToldOnce, Kinds

\* The counts are numbers.
LEMMA ToldTyped ==
  ASSUME Typed
  PROVE  /\ Excused \in Nat
         /\ \A w \in Waves, kind \in Kinds : Reached(kind, w) \in Nat
  <1>1. Excused \in Nat
    BY WavesAssumption DEF Excused, Typed, RestTyped
  <1>2. ASSUME NEW w \in Waves, NEW kind \in Kinds PROVE Reached(kind, w) \in Nat
    <2>1. MaxAsked \in Nat
      BY WavesAssumption
    <2>2. asked[w][kind] \in Nat
      BY <2>1, <1>2 DEF Typed, RestTyped, Prompts, Kinds
    <2> QED BY <2>2 DEF Reached, Hits
  <1> QED BY <1>1, <1>2

\* A prompt counts once, and no prompt not at all.
LEMMA NoHits ==
  /\ \A w \in Waves, kind \in Kinds : Hits(NoDraft, kind, w) = 0
  /\ \A p, kind, w : Hits(p, kind, w) \in {0, 1}
  BY DEF Hits, NoDraft

\* A chat that hears a prompt has heard one more.
LEMMA HeardOnce ==
  ASSUME Typed, NEW p, p.kind \in Kinds, Hear(p), NEW w \in Waves
  PROVE  /\ \A kind \in Kinds : /\ asked'[w][kind] \in Nat
                                /\ asked[w][kind] <= asked'[w][kind]
                                /\ asked'[w][kind] <= asked[w][kind] + Hits(p, kind, w)
         /\ w \in p.waves => asked'[w][p.kind] > 0
  <1>1. MaxAsked \in Nat \ {0} /\ asked \in [Waves -> Prompts]
    BY WavesAssumption DEF Typed, RestTyped
  <1>2. asked'[w] = IF w \in p.waves /\ asked[w][p.kind] < MaxAsked
                    THEN [asked[w] EXCEPT ![p.kind] = @ + 1] ELSE asked[w]
    BY DEF Hear
  <1>3. asked[w] \in Prompts
    BY <1>1
  <1> DEFINE a == asked[w]
  <1>4. a = [text |-> a.text, continue |-> a.continue, final |-> a.final, retry |-> a.retry]
        /\ a.text \in 0..MaxAsked /\ a.continue \in 0..MaxAsked /\ a.final \in 0..MaxAsked
        /\ a.retry \in 0..MaxAsked
    BY <1>3 DEF Prompts
  <1>5. CASE p.kind = "text"
    BY <1>1, <1>2, <1>4, <1>5 DEF Hits, Kinds
  <1>6. CASE p.kind = "continue"
    BY <1>1, <1>2, <1>4, <1>6 DEF Hits, Kinds
  <1>7. CASE p.kind = "final"
    BY <1>1, <1>2, <1>4, <1>7 DEF Hits, Kinds
  <1>8. CASE p.kind = "retry"
    BY <1>1, <1>2, <1>4, <1>8 DEF Hits, Kinds
  <1> QED BY <1>5, <1>6, <1>7, <1>8 DEF Kinds

\* The prompt in the composer goes out.
LEMMA FlushTold ==
  ASSUME Typed, draft # NoDraft, Hear(draft), draft' = NoDraft
  PROVE  ToldOnce(NoDraft)
  <1>1. draft.kind \in Kinds
    BY DEF Typed, DraftTyped
  <1>2. ASSUME NEW w \in Waves, NEW kind \in Kinds
        PROVE  Reached(kind, w)' \in Nat /\ Reached(kind, w)' <= Reached(kind, w) + Hits(NoDraft, kind, w)
    <2>1. /\ asked'[w][kind] \in Nat
          /\ asked'[w][kind] <= asked[w][kind] + Hits(draft, kind, w)
      BY <1>1, HeardOnce
    <2>2. Hits(NoDraft, kind, w) = 0 /\ Reached(kind, w) \in Nat
      BY NoHits, ToldTyped
    <2> QED BY <2>1, <2>2 DEF Reached
  <1> QED BY <1>2 DEF ToldOnce

\* continue_quote: told and confirmed, told or left with an excuse, or another draft went out.
LEMMA SubmitTold ==
  ASSUME Typed, NEW p, p.kind \in Kinds, NEW next, Submit(p, next) \/ SubmitInNewChat(p, next)
  PROVE  /\ UNCHANGED <<recordVars, backendVars>> /\ plan' = plan
         /\ \/ task' = next /\ Excused' = Excused /\ ToldOnce(p) /\ Hear(p)
            \/ task' = NoTask /\ Excused' = Excused + 1 /\ ToldOnce(p)
            \/ task' = NoTask /\ Excused' = Excused /\ ToldOnce(NoDraft)
  <1>0. UNCHANGED <<recordVars, backendVars>> /\ plan' = plan
    BY DEF Submit, SubmitInNewChat, FlushDraft, loopVars
  <1>t. \A w \in Waves, kind \in Kinds : Reached(kind, w) \in Nat /\ Hits(NoDraft, kind, w) = 0
                                         /\ asked[w][kind] \in Nat /\ Hits(p, kind, w) \in {0, 1}
    <2>1. \A w \in Waves, kind \in Kinds : asked[w][kind] \in Nat
      BY WavesAssumption DEF Typed, RestTyped, Prompts, Kinds
    <2> QED BY <2>1, NoHits, ToldTyped
  <1>e. misses \in Nat /\ crashes \in Nat
    BY WavesAssumption DEF Typed, RestTyped
  <1>1. CASE Hear(p) /\ draft' = NoDraft /\ task' = next /\ UNCHANGED <<misses, crashes>>
    <2>1. ASSUME NEW w \in Waves, NEW kind \in Kinds
          PROVE  Reached(kind, w)' \in Nat /\ Reached(kind, w)' <= Reached(kind, w) + Hits(p, kind, w)
      <3>1. /\ asked'[w][kind] \in Nat
            /\ asked'[w][kind] <= asked[w][kind] + Hits(p, kind, w)
        BY <1>1, HeardOnce
      <3>2. Reached(kind, w)' = asked'[w][kind]
        BY <1>1, <1>t, <3>1 DEF Reached
      <3>3. asked[w][kind] <= Reached(kind, w)
        BY <1>t, NoHits DEF Reached
      <3> QED BY <1>t, <3>1, <3>2, <3>3
    <2>2. ToldOnce(p)
      BY <2>1 DEF ToldOnce
    <2> QED BY <1>0, <1>1, <2>2 DEF Excused
  <1>2. CASE draft = NoDraft /\ draft' = p /\ asked' = asked /\ task' = NoTask
             /\ misses' = misses + 1 /\ crashes' = crashes
    <2>1. ASSUME NEW w \in Waves, NEW kind \in Kinds
          PROVE  Reached(kind, w)' \in Nat /\ Reached(kind, w)' <= Reached(kind, w) + Hits(p, kind, w)
      <3>1. Reached(kind, w)' = asked[w][kind] + Hits(p, kind, w) /\ Reached(kind, w) = asked[w][kind]
        BY <1>2, <1>t DEF Reached
      <3> QED BY <1>t, <3>1
    <2>2. ToldOnce(p)
      BY <2>1 DEF ToldOnce
    <2> QED BY <1>0, <1>e, <1>2, <2>2 DEF Excused
  <1>3. CASE FlushDraft
    <2>1. ToldOnce(NoDraft)
      BY <1>3, FlushTold DEF FlushDraft
    <2> QED BY <1>0, <1>3, <2>1 DEF FlushDraft, Abandon, Restart, Excused
  <1>4. CASE draft' = NoDraft /\ asked' = asked /\ task' = NoTask
             /\ misses' = misses + 1 /\ crashes' = crashes
    <2>1. ASSUME NEW w \in Waves, NEW kind \in Kinds
          PROVE  Reached(kind, w)' \in Nat /\ Reached(kind, w)' <= Reached(kind, w) + Hits(p, kind, w)
      <3>1. Reached(kind, w)' = asked[w][kind]
        BY <1>4, <1>t DEF Reached
      <3>2. Reached(kind, w) = asked[w][kind] + Hits(draft, kind, w) /\ Hits(draft, kind, w) \in {0, 1}
        BY NoHits DEF Reached
      <3> QED BY <1>t, <3>1, <3>2
    <2>2. ToldOnce(p)
      BY <2>1 DEF ToldOnce
    <2> QED BY <1>0, <1>e, <1>4, <2>2 DEF Excused
  <1>5. CASE Submit(p, next)
    <2>1. CASE draft = NoDraft /\ Hear(p) /\ Then(next) /\ UNCHANGED <<draft, misses, crashes>>
      BY <2>1, <1>1 DEF Then
    <2>2. CASE draft = NoDraft /\ draft' = p /\ misses' = misses + 1 /\ Abandon
               /\ UNCHANGED <<asked, crashes>>
      BY <2>2, <1>2 DEF Abandon, Restart
    <2> QED BY <1>5, <1>3, <2>1, <2>2 DEF Submit
  <1>6. CASE SubmitInNewChat(p, next)
    BY <1>6, <1>1, <1>4 DEF SubmitInNewChat, Restart
  <1> QED BY <1>5, <1>6

-----------------------------------------------------------------------------
(* The budgets of prompts *)

\* What a wave has had, by its session and by the function in progress.
TextSpent(w) ==
  \/ ~Unsent(w)
  \/ task.step = "record" /\ task.wave = w
  \/ task.step = "mark" /\ task.wave + 1 = w
RetrySpent(w) ==
  session[w].retrySent \/ (task.step = "retried" /\ w \in task.group)
FinalsSpent(w) ==
  session[w].finals + (IF task.step = "count" /\ task.wave = w THEN 1 ELSE 0)

Budget == \A w \in Waves :
  /\ Reached("text", w) <= Excused + (IF TextSpent(w) THEN 1 ELSE 0)
  /\ Reached("retry", w) <= Excused + (IF RetrySpent(w) THEN 1 ELSE 0)
  /\ Reached("final", w) <= Excused + FinalsSpent(w)
  /\ session[w].finals <= MaxFinalize
  /\ task.step \in {"final", "count"} /\ task.wave = w => session[w].finals < MaxFinalize

\* The budgets imply the property of the runs.
LEMMA BudgetIsEnough ==
  ASSUME Typed, Budget
  PROVE  PromptBudget
  <1> SUFFICES ASSUME NEW w \in Waves
               PROVE  /\ asked[w].text <= 1 + Excused
                      /\ asked[w].retry <= 1 + Excused
                      /\ asked[w].final <= MaxFinalize + Excused
    BY DEF PromptBudget, Excused
  <1>1. /\ asked[w].text \in Nat /\ asked[w].retry \in Nat /\ asked[w].final \in Nat
        /\ Excused \in Nat /\ session[w].finals \in Nat /\ MaxFinalize \in Nat
    BY ToldTyped, SessionOf, WavesAssumption DEF Typed, RestTyped, Prompts
  <1>2. /\ Reached("text", w) = asked[w].text + Hits(draft, "text", w)
        /\ Reached("retry", w) = asked[w].retry + Hits(draft, "retry", w)
        /\ Reached("final", w) = asked[w].final + Hits(draft, "final", w)
    BY DEF Reached
  <1>3. /\ Hits(draft, "text", w) \in {0, 1} /\ Hits(draft, "retry", w) \in {0, 1}
        /\ Hits(draft, "final", w) \in {0, 1}
    BY NoHits
  <1>4. FinalsSpent(w) <= MaxFinalize /\ FinalsSpent(w) \in Nat
    BY <1>1 DEF FinalsSpent, Budget
  <1>5. /\ Reached("text", w) <= Excused + 1 /\ Reached("retry", w) <= Excused + 1
        /\ Reached("final", w) <= Excused + FinalsSpent(w)
    BY <1>1, ToldTyped DEF Budget, Kinds
  <1> QED BY <1>1, <1>2, <1>3, <1>4, <1>5

\* A step takes nothing back.
SpentKept ==
  /\ \A w \in Waves :
       /\ TextSpent(w) => TextSpent(w)'
       /\ RetrySpent(w) => RetrySpent(w)'
       /\ FinalsSpent(w) <= FinalsSpent(w)'
       /\ session'[w].finals \in Nat /\ session'[w].finals <= MaxFinalize
       /\ task'.step \in {"final", "count"} /\ task'.wave = w => session'[w].finals < MaxFinalize

\* A prompt is accounted for: by a restart or a miss, or by the record.
Accounted(p) ==
  \/ Excused' = Excused + 1
  \/ /\ Excused' = Excused
     /\ \A w \in Waves :
          /\ Hits(p, "text", w) = 0 \/ (~TextSpent(w) /\ TextSpent(w)')
          /\ Hits(p, "retry", w) = 0 \/ (~RetrySpent(w) /\ RetrySpent(w)')
          /\ Hits(p, "final", w) = 0 \/ FinalsSpent(w)' = FinalsSpent(w) + 1

\* A step that takes nothing back and accounts for its prompt.
LEMMA BudgetStep ==
  ASSUME Typed, Budget, NEW p, ToldOnce(p), SpentKept, Accounted(p)
  PROVE  Budget'
  <1> SUFFICES ASSUME NEW w \in Waves
               PROVE  /\ Reached("text", w)' <= Excused' + (IF TextSpent(w)' THEN 1 ELSE 0)
                      /\ Reached("retry", w)' <= Excused' + (IF RetrySpent(w)' THEN 1 ELSE 0)
                      /\ Reached("final", w)' <= Excused' + FinalsSpent(w)'
    BY DEF Budget, SpentKept
  <1> DEFINE t == IF TextSpent(w) THEN 1 ELSE 0
  <1> DEFINE r == IF RetrySpent(w) THEN 1 ELSE 0
  <1>1. /\ Reached("text", w)' <= Reached("text", w) + Hits(p, "text", w)
        /\ Reached("retry", w)' <= Reached("retry", w) + Hits(p, "retry", w)
        /\ Reached("final", w)' <= Reached("final", w) + Hits(p, "final", w)
        /\ Reached("text", w)' \in Nat /\ Reached("retry", w)' \in Nat /\ Reached("final", w)' \in Nat
    BY ToldEach
  <1>2. /\ Reached("text", w) \in Nat /\ Reached("retry", w) \in Nat /\ Reached("final", w) \in Nat
        /\ Excused \in Nat /\ FinalsSpent(w) \in Nat /\ FinalsSpent(w)' \in Nat
    BY ToldTyped, SessionOf DEF Kinds, FinalsSpent, SpentKept, Typed
  <1>3. /\ Hits(p, "text", w) \in {0, 1} /\ Hits(p, "retry", w) \in {0, 1}
        /\ Hits(p, "final", w) \in {0, 1}
    BY NoHits
  <1>4. /\ Reached("text", w) <= Excused + (IF TextSpent(w) THEN 1 ELSE 0)
        /\ Reached("retry", w) <= Excused + (IF RetrySpent(w) THEN 1 ELSE 0)
        /\ Reached("final", w) <= Excused + FinalsSpent(w)
    BY DEF Budget
  <1>5. /\ TextSpent(w) => TextSpent(w)'
        /\ RetrySpent(w) => RetrySpent(w)'
        /\ FinalsSpent(w) <= FinalsSpent(w)'
    BY DEF SpentKept
  <1>6. CASE Excused' = Excused + 1
    BY <1>1, <1>2, <1>3, <1>4, <1>5, <1>6
  <1>7. CASE /\ Excused' = Excused
             /\ Hits(p, "text", w) = 0 \/ (~TextSpent(w) /\ TextSpent(w)')
             /\ Hits(p, "retry", w) = 0 \/ (~RetrySpent(w) /\ RetrySpent(w)')
             /\ Hits(p, "final", w) = 0 \/ FinalsSpent(w)' = FinalsSpent(w) + 1
    BY <1>1, <1>2, <1>3, <1>4, <1>5, <1>7
  <1> QED BY <1>6, <1>7 DEF Accounted

\* A step without a prompt.
LEMMA CalmBudget ==
  ASSUME Typed, Budget, SpentKept, Excused' = Excused, ToldOnce(NoDraft)
  PROVE  Budget'
  <1>1. Accounted(NoDraft)
    BY NoHits DEF Accounted, Kinds
  <1> QED BY <1>1, BudgetStep

\* A step at which no chat is told anything.
LEMMA SilentSteps ==
  ASSUME Typed, UNCHANGED <<asked, draft, misses, crashes>>
  PROVE  Excused' = Excused /\ ToldOnce(NoDraft)
  <1>1. \A w \in Waves, kind \in Kinds : Reached(kind, w)' = Reached(kind, w)
    BY DEF Reached, Hits
  <1>2. \A w \in Waves, kind \in Kinds : Reached(kind, w) \in Nat /\ Hits(NoDraft, kind, w) = 0
    BY ToldTyped, NoHits
  <1> QED BY <1>1, <1>2 DEF ToldOnce, Excused

\* A step that leaves the sessions alone.
LEMMA SameSpent ==
  ASSUME Typed, Budget, session' = session,
         task.step \notin {"record", "mark", "retried", "count"} \/ task' = task,
         \/ task' = task \/ task'.step \notin {"final", "count"}
         \/ session[task'.wave].finals < MaxFinalize
  PROVE  SpentKept
  <1>1. \A w \in Waves : session[w].finals \in Nat
    BY SessionOf DEF Typed
  <1>2. MaxFinalize \in Nat
    BY WavesAssumption
  <1> QED BY <1>1, <1>2 DEF SpentKept, TextSpent, RetrySpent, FinalsSpent, Unsent, Budget

\* The prompts of the worker functions are accounted for.
LEMMA BudgetPrompts ==
  ASSUME Typed, Ordered, Budget, TaskTyped', Ordered',
         AdvanceText \/ OpenText \/ ContinuePrompt \/ FinalPrompt \/ RetryPrompt
  PROVE  Budget'
  <1> DEFINE next(step) == [task EXCEPT !.step = step]
  <1>w. PICK w : w = task.wave
    OBVIOUS
  <1>0. /\ GoodTask(task) /\ task.step # "none" /\ w \in Waves /\ task.group \subseteq Waves
        /\ task.step \notin {"record", "mark", "retried", "count"}
        /\ Excused \in Nat /\ MaxFinalize \in Nat
        /\ \A v \in Waves : /\ session[v].finals \in Nat
                            /\ Reached("text", v) \in Nat /\ Reached("retry", v) \in Nat
                            /\ Reached("final", v) \in Nat
    <2>1. task.step \in {"text", "open", "continue", "final", "retry"}
      BY DEF AdvanceText, OpenText, ContinuePrompt, FinalPrompt, RetryPrompt
    <2>2. w \in Waves /\ task.group \subseteq Waves
      BY <1>w, <2>1, TaskOf DEF Typed
    <2> QED BY <2>1, <2>2, ToldTyped, SessionOf, WavesAssumption DEF Typed, TaskTyped, Kinds
  <1>n. \A step : next(step).step = step /\ next(step).wave = w /\ next(step).group = task.group
    BY <1>w, <1>0 DEF GoodTask, Tasking
  <1>h. \A p, kind, v : Hits(p, kind, v) \in {0, 1}
    BY NoHits
  <1> HIDE DEF next
  \* The prompt is not confirmed, or one that lay in the composer goes first.
  <1>a. ASSUME NEW p, ToldOnce(p), task' = NoTask, session' = session,
               Excused' = Excused + 1 \/ (p = NoDraft /\ Excused' = Excused)
        PROVE  Budget'
    <2>1. SpentKept
      BY <1>a, <1>0, SameSpent, NoTaskShape
    <2>2. Accounted(p)
      BY <1>a, NoHits DEF Accounted, Kinds
    <2> QED BY <1>a, <2>1, <2>2, BudgetStep
  <1>1. CASE AdvanceText \/ OpenText
    <2>0. PICK v \in Waves : \E n :
            /\ Submit(Prompt("text", {v}), n) \/ SubmitInNewChat(Prompt("text", {v}), n)
            /\ \/ n = next("mark") /\ v = w + 1 /\ task.step = "text"
               \/ n = next("record") /\ v = w /\ task.step = "open"
      <3>1. CASE AdvanceText
        BY <1>w, <1>0, <3>1 DEF AdvanceText, HasNext, next
      <3>2. CASE OpenText
        BY <1>w, <1>0, <3>2 DEF OpenText, next
      <3> QED BY <1>1, <3>1, <3>2
    <2>1. PICK n :
            /\ Submit(Prompt("text", {v}), n) \/ SubmitInNewChat(Prompt("text", {v}), n)
            /\ \/ n = next("mark") /\ v = w + 1 /\ task.step = "text"
               \/ n = next("record") /\ v = w /\ task.step = "open"
      BY <2>0
    <2> DEFINE p == Prompt("text", {v})
    <2>2. p.kind = "text" /\ p.waves = {v} /\ p.kind \in Kinds
      BY PromptTyped DEF Kinds
    <2> HIDE DEF p
    <2>3. \/ task' = n /\ Excused' = Excused /\ ToldOnce(p)
          \/ task' = NoTask /\ Excused' = Excused + 1 /\ ToldOnce(p)
          \/ task' = NoTask /\ Excused' = Excused /\ ToldOnce(NoDraft)
      BY <2>1, <2>2, SubmitTold DEF p
    <2>4. session' = session
      BY <2>1, <2>2, SubmitTold DEF recordVars, p
    <2>5. CASE task' = n /\ Excused' = Excused /\ ToldOnce(p)
      <3>1. SpentKept
        BY <1>0, <1>n, <2>1, <2>4, <2>5, SameSpent
      <3>2. Unsent(v)
        <4>1. Unsent(v)'
          BY <1>n, <2>1, <2>5 DEF Ordered, TaskOrder
        <4> QED BY <2>4, <4>1 DEF Unsent
      <3>3. ~TextSpent(v) /\ TextSpent(v)'
        BY <1>0, <1>n, <2>1, <2>5, <3>2 DEF TextSpent
      <3>4. \A u \in Waves : /\ Hits(p, "retry", u) = 0 /\ Hits(p, "final", u) = 0
                             /\ Hits(p, "text", u) = 0 \/ u = v
        BY <2>2 DEF Hits
      <3>5. Accounted(p)
        BY <2>5, <3>3, <3>4 DEF Accounted
      <3> QED BY <2>5, <3>1, <3>5, BudgetStep
    <2> QED BY <1>a, <2>3, <2>4, <2>5
  <1>2. CASE ContinuePrompt
    <2> DEFINE p == Prompt("continue", {w})
    <2>2. p.kind = "continue" /\ p.kind \in Kinds
      BY <1>0, PromptTyped DEF Kinds
    <2> HIDE DEF p
    <2>3. /\ session' = session
          /\ \/ task' = NoTask /\ Excused' = Excused /\ ToldOnce(p)
             \/ task' = NoTask /\ Excused' = Excused + 1 /\ ToldOnce(p)
             \/ task' = NoTask /\ Excused' = Excused /\ ToldOnce(NoDraft)
      BY <1>2, <1>w, <2>2, SubmitTold DEF ContinuePrompt, recordVars, p
    <2>4. CASE task' = NoTask /\ Excused' = Excused /\ ToldOnce(p)
      <3>1. SpentKept
        BY <1>0, <2>3, SameSpent, NoTaskShape
      <3>2. \A u \in Waves : Hits(p, "retry", u) = 0 /\ Hits(p, "final", u) = 0 /\ Hits(p, "text", u) = 0
        BY <2>2 DEF Hits
      <3>3. Accounted(p)
        BY <2>4, <3>2 DEF Accounted
      <3> QED BY <2>4, <3>1, <3>3, BudgetStep
    <2> QED BY <1>a, <2>3, <2>4
  <1>3. CASE FinalPrompt
    <2> DEFINE p == Prompt("final", {w})
    <2>2. p.kind = "final" /\ p.waves = {w} /\ p.kind \in Kinds
      BY <1>0, PromptTyped DEF Kinds
    <2> HIDE DEF p
    <2>3. /\ session' = session
          /\ \/ task' = next("count") /\ Excused' = Excused /\ ToldOnce(p)
             \/ task' = NoTask /\ Excused' = Excused + 1 /\ ToldOnce(p)
             \/ task' = NoTask /\ Excused' = Excused /\ ToldOnce(NoDraft)
      BY <1>3, <1>w, <2>2, SubmitTold DEF FinalPrompt, recordVars, p, next
    <2>4. CASE task' = next("count") /\ Excused' = Excused /\ ToldOnce(p)
      <3>0. session[w].finals < MaxFinalize
        BY <1>0, <1>w, <1>3 DEF FinalPrompt, Budget
      <3>1. SpentKept
        BY <1>0, <1>n, <2>3, <2>4, <3>0, SameSpent
      <3>2. \A u \in Waves : FinalsSpent(u)' = FinalsSpent(u) + (IF u = w THEN 1 ELSE 0)
        BY <1>0, <1>n, <2>3, <2>4 DEF FinalsSpent
      <3>4. \A u \in Waves : /\ Hits(p, "retry", u) = 0 /\ Hits(p, "text", u) = 0
                             /\ Hits(p, "final", u) = 0 \/ u = w
        BY <2>2 DEF Hits
      <3>5. Accounted(p)
        BY <2>4, <3>2, <3>4 DEF Accounted
      <3> QED BY <2>4, <3>1, <3>5, BudgetStep
    <2> QED BY <1>a, <2>3, <2>4
  <1>4. CASE RetryPrompt
    <2> DEFINE p == Prompt("retry", task.group)
    <2>g. PICK g : g = task.group
      OBVIOUS
    <2>2. p.kind = "retry" /\ p.waves = g /\ p.kind \in Kinds
      BY <1>0, <2>g, PromptTyped DEF Kinds
    <2> HIDE DEF p
    <2>3. /\ session' = session
          /\ \/ task' = next("retried") /\ Excused' = Excused /\ ToldOnce(p)
             \/ task' = NoTask /\ Excused' = Excused + 1 /\ ToldOnce(p)
             \/ task' = NoTask /\ Excused' = Excused /\ ToldOnce(NoDraft)
      BY <1>4, <2>2, SubmitTold DEF RetryPrompt, recordVars, p, next
    <2>4. CASE task' = next("retried") /\ Excused' = Excused /\ ToldOnce(p)
      <3>1. SpentKept
        BY <1>0, <1>n, <2>3, <2>4, SameSpent
      <3>2. \A u \in g : ~RetrySpent(u) /\ RetrySpent(u)'
        <4>1. \A u \in g : ~session[u].retrySent
          BY <1>4, <2>g DEF RetryPrompt, Retrying, Ordered, RetryIsAlone
        <4> QED BY <1>0, <1>n, <2>g, <2>4, <4>1 DEF RetrySpent
      <3>4. \A u \in Waves : /\ Hits(p, "final", u) = 0 /\ Hits(p, "text", u) = 0
                             /\ Hits(p, "retry", u) = 0 \/ u \in g
        BY <2>2 DEF Hits
      <3>5. Accounted(p)
        BY <2>4, <3>2, <3>4 DEF Accounted
      <3> QED BY <2>4, <3>1, <3>5, BudgetStep
    <2> QED BY <1>a, <2>3, <2>4
  <1> QED BY <1>1, <1>2, <1>3, <1>4

\* What the worker functions write takes nothing back.
LEMMA SpentTask ==
  ASSUME Typed, Ordered, Budget,
         AdvanceEnds \/ AdvanceMark \/ RecordSession \/ PurgeText \/ FinalCount \/ RetryRecord
  PROVE  SpentKept
  <1>w. PICK w : w = task.wave
    OBVIOUS
  <1>0. /\ GoodTask(task) /\ task.step # "none" /\ w \in Waves /\ w \in Nat
        /\ MaxFinalize \in Nat /\ NoTask.step = "none"
        /\ \A v \in Waves : /\ session[v].finals \in Nat /\ session[v].finals <= MaxFinalize
                            /\ v \in Nat
    <2>1. task.step # "none"
      BY DEF AdvanceEnds, AdvanceMark, RecordSession, PurgeText, FinalCount, RetryRecord
    <2> QED BY <1>w, <2>1, TaskOf, SessionOf, WaveFacts, NoTaskShape, WavesAssumption
            DEF Typed, TaskTyped, Budget
  <1>1. CASE AdvanceEnds \/ AdvanceMark
    <2>1. /\ session'[w].retrySent = session[w].retrySent /\ session'[w].finals = session[w].finals
          /\ session'[w].status # "none"
          /\ \A v \in Waves \ {w} : session'[v] = session[v]
      BY <1>w, <1>1, EndWrites DEF Writes, SessionIs, Over
    <2>2. \/ task.step = "text" /\ task' = NoTask
          \/ task.step = "mark" /\ task'.step = "record" /\ task'.wave = w + 1
      BY <1>w, <1>0, <1>1, TaskShapes DEF AdvanceEnds, AdvanceMark, TaskDone, Then, GoodTask, Steps
    <2> QED BY <1>w, <1>0, <2>1, <2>2 DEF SpentKept, TextSpent, RetrySpent, FinalsSpent, Unsent
  <1>2. CASE RecordSession
    <2>1. /\ ~session'[w].retrySent /\ session'[w].finals = 0 /\ session'[w].status = "running"
          /\ \A v \in Waves \ {w} : session'[v] = session[v]
      BY <1>w, <1>2, RecordWrites DEF Writes, SessionIs
    <2>2. ~session[w].retrySent /\ session[w].finals = 0
      BY <1>w, <1>0, <1>2 DEF RecordSession, Ordered, TaskOrder, WaveOrder
    <2>3. task.step = "record" /\ task'.step = "purge"
      BY <1>0, <1>2, NextStep DEF RecordSession, Steps
    <2> QED BY <1>w, <1>0, <2>1, <2>2, <2>3 DEF SpentKept, TextSpent, RetrySpent, FinalsSpent, Unsent
  <1>3. CASE PurgeText
    BY <1>0, <1>3 DEF PurgeText, TaskDone, Then, SpentKept, TextSpent, RetrySpent, FinalsSpent, Unsent
  <1>4. CASE FinalCount
    <2>1. /\ session'[w].retrySent = session[w].retrySent /\ session'[w].status = "running"
          /\ session'[w].finals = session[w].finals + 1
          /\ \A v \in Waves \ {w} : session'[v] = session[v]
      BY <1>w, <1>4, CountWrites DEF Writes, SessionIs
    <2>2. task' = NoTask /\ task.step = "count" /\ session[w].finals < MaxFinalize
      BY <1>w, <1>0, <1>4 DEF FinalCount, TaskDone, Then, Budget
    <2> QED BY <1>w, <1>0, <2>1, <2>2 DEF SpentKept, TextSpent, RetrySpent, FinalsSpent, Unsent
  <1>5. CASE RetryRecord
    <2>1. /\ \A v \in task.group : /\ session'[v].retrySent /\ session'[v].status = "running"
                                   /\ session'[v].finals = session[v].finals
          /\ \A v \in Waves \ task.group : session'[v] = session[v]
      BY <1>5, RetryWrites DEF SessionIs
    <2>2. task' = NoTask /\ task.step = "retried"
      BY <1>5 DEF RetryRecord, TaskDone, Then
    <2> QED BY <1>w, <1>0, <2>1, <2>2 DEF SpentKept, TextSpent, RetrySpent, FinalsSpent, Unsent
  <1> QED BY <1>1, <1>2, <1>3, <1>4, <1>5

\* Neither do polls.
LEMMA SpentPoll ==
  ASSUME Typed, Ordered, Budget, NEW c \in Convs, PollEnds(c)
  PROVE  SpentKept
  <1>w. PICK w : w = chat[c].wave
    OBVIOUS
  <1>0. /\ task = NoTask /\ NoTask.step = "none" /\ w \in Waves /\ MaxFinalize \in Nat
        /\ \A v \in Waves : session[v].finals \in Nat /\ session[v].finals <= MaxFinalize
        /\ ~Unsent(w) /\ \A v \in chat[c].group : v \in Waves /\ ~Unsent(v)
    <2>1. c \in Active /\ task = NoTask
      BY PollOutcomes
    <2> QED BY <1>w, <2>1, ActiveChat, SessionOf, NoTaskShape, WavesAssumption
            DEF Typed, Budget, Ordered, TaskOrder
  <1>1. CASE ContinueWave(w)
    <2>1. CASE ContinueFinished(w)
      BY <1>0, <2>1, SameSpent, TaskShapes DEF ContinueFinished, Over
    <2>2. CASE ContinueFinal(w)
      <3>1. \/ task'.step = "text"
            \/ task'.step = "final" /\ task'.wave = w /\ ~(session[w].finals >= MaxFinalize)
        BY <1>0, <2>2, TaskShapes DEF ContinueFinal, Over, Steps
      <3> QED BY <1>0, <2>2, <3>1, SameSpent DEF ContinueFinal
    <2>3. CASE ContinueExhausted(w) \/ ContinueStalled(w)
      <3>1. /\ session'[w].retrySent = session[w].retrySent
            /\ session'[w].finals = session[w].finals
            /\ \A v \in Waves \ {w} : session'[v] = session[v]
        BY <1>0, <2>3, ExhaustedWrites, StalledWrites DEF Writes, SessionIs
      <3>2. session'[w].status # "none"
        BY <1>0, <2>3, ExhaustedWrites, StalledWrites DEF Writes, SessionIs
      <3>3. task'.step \in {"none", "text", "continue"}
        BY <1>0, <2>3, TaskShapes DEF ContinueExhausted, ContinueStalled, Over, Steps
      <3> QED BY <1>0, <3>1, <3>2, <3>3 DEF SpentKept, TextSpent, RetrySpent, FinalsSpent, Unsent
    <2> QED BY <1>1, <2>1, <2>2, <2>3 DEF ContinueWave
  <1>2. CASE FinishGroup(c)
    <2>1. /\ \A v \in chat[c].group : /\ session'[v].retrySent /\ session'[v].status # "none"
                                      /\ session'[v].finals = session[v].finals
          /\ \A v \in Waves \ chat[c].group : session'[v] = session[v]
      BY <1>2, GroupWrites DEF SessionIs
    <2>2. task' = NoTask
      BY <1>2 DEF FinishGroup
    <2> QED BY <1>0, <2>1, <2>2 DEF SpentKept, TextSpent, RetrySpent, FinalsSpent, Unsent
  <1>3. CASE /\ session' = [session EXCEPT ![w].settle = Fingerprint(w)] /\ task' = task
    <2>1. /\ session'[w].retrySent = session[w].retrySent /\ session'[w].status = session[w].status
          /\ session'[w].finals = session[w].finals
          /\ \A v \in Waves \ {w} : session'[v] = session[v]
      BY <1>0, <1>3, SettleWrites DEF Writes, SessionIs
    <2> QED BY <1>0, <1>3, <2>1 DEF SpentKept, TextSpent, RetrySpent, FinalsSpent, Unsent
  <1> QED BY <1>w, <1>1, <1>2, <1>3, PollOutcomes

\* Steps that leave the sessions alone and give up at most a function that has
\* not been under way.
LEMMA SpentLoop ==
  ASSUME Typed, Ordered, Budget, Loop
  PROVE  SpentKept /\ session' = session /\ (task' = task \/ task = NoTask \/ task' = NoTask)
         /\ task.step = "none"
  <1>0. task = NoTask /\ task.step = "none"
    <2>1. task = NoTask
      BY DEF Loop, Attach, CreateMissing, OpenNext, OpenDone, SettleRetry, SettleFail, SettleOverLimit,
             SettleNothing, StopTerminal, PollDraft, PollNothing, Settling, Polled, Ordered, LoopPlaces
    <2> QED BY <2>1, NoTaskShape
  <1>1. session' = session
    BY DEF Loop, Attach, CreateMissing, OpenNext, OpenDone, SettleRetry, SettleFail, SettleOverLimit,
           SettleNothing, StopTerminal, PollDraft, PollNothing, FlushDraft, recordVars
  <1>2. task' = task \/ task' = NoTask \/ task'.step \in {"text", "open", "retry"}
    <2>1. CASE OpenNext
      <3>1. Recoverable \subseteq Waves /\ Openable \subseteq Waves /\ Waves \subseteq Nat
        BY WaveFacts DEF Recoverable, Openable, Typed, RestTyped
      <3>2. CASE Recoverable # {} /\ task' = Advance(Min(Recoverable) - 1, session[Min(Recoverable) - 1].status)
        <4>1. Min(Recoverable) \in Recoverable
          BY <3>1, <3>2, MinOf
        <4>2. Min(Recoverable) - 1 \in Waves /\ session[Min(Recoverable) - 1].status \in Over
          BY <3>1, <4>1, SecondWave DEF Recoverable, Over
        <4> QED BY <3>2, <4>2, TaskShapes
      <3>3. CASE Openable # {} /\ task' = Task("open", Min(Openable))
        <4>1. Min(Openable) \in Waves
          BY <3>1, <3>3, MinOf
        <4> QED BY <3>3, <4>1, TaskShapes DEF Steps
      <3> QED BY <2>1, <3>2, <3>3 DEF OpenNext
    <2>2. CASE SettleRetry
      BY <2>2 DEF SettleRetry, Task, NoTask
    <2>3. CASE Attach \/ CreateMissing \/ OpenDone \/ SettleFail \/ SettleOverLimit
               \/ SettleNothing \/ StopTerminal \/ PollDraft \/ PollNothing
      BY <2>3 DEF Attach, CreateMissing, OpenDone, SettleFail, SettleOverLimit,
             SettleNothing, StopTerminal, PollDraft, PollNothing, FlushDraft, Abandon, Restart, Goto, loopVars
    <2> QED BY <2>1, <2>2, <2>3 DEF Loop
  <1> QED BY <1>0, <1>1, <1>2, SameSpent, NoTaskShape

\* A restart forgets the step after a prompt, and is the excuse for the next.
LEMMA BudgetNext ==
  ASSUME Typed, Ordered, Budget, [Next]_vars
  PROVE  Budget'
  <1>1. CASE TaskStep
    <2>1. CASE AdvanceText \/ OpenText \/ ContinuePrompt \/ FinalPrompt \/ RetryPrompt
      <3>1. TaskTyped' /\ Ordered'
        BY <2>1, TypedNext, OrderedNext DEF Typed
      <3> QED BY <2>1, <3>1, BudgetPrompts
    <2>2. CASE AdvanceEnds \/ AdvanceMark \/ RecordSession \/ PurgeText \/ FinalCount \/ RetryRecord
      <3>1. UNCHANGED <<asked, draft, misses, crashes>>
        BY <2>2 DEF AdvanceEnds, AdvanceMark, RecordSession, PurgeText, FinalCount, RetryRecord, desktopVars
      <3> QED BY <2>2, <3>1, SpentTask, SilentSteps, CalmBudget
    <2> QED BY <1>1, <2>1, <2>2 DEF TaskStep
  <1>2. CASE Loop
    <2>1. \/ UNCHANGED <<asked, draft, misses, crashes>>
          \/ draft # NoDraft /\ Hear(draft) /\ draft' = NoDraft /\ UNCHANGED <<misses, crashes>>
      BY <1>2 DEF Loop, Attach, CreateMissing, OpenNext, OpenDone, SettleRetry, SettleFail, SettleOverLimit,
             SettleNothing, StopTerminal, PollDraft, PollNothing, FlushDraft, Goto, desktopVars
    <2>2. Excused' = Excused /\ ToldOnce(NoDraft)
      BY <2>1, SilentSteps, FlushTold DEF Excused
    <2> QED BY <1>2, <2>2, SpentLoop, CalmBudget
  <1>3. ASSUME NEW c \in Convs, PollEnds(c) PROVE Budget'
    BY <1>3, SpentPoll, PollOutcomes, SilentSteps, CalmBudget
  <1>4. CASE Agents \/ AdoptReceipt \/ Cancel \/ Rest \/ UNCHANGED vars
    <2>1. UNCHANGED <<asked, draft, misses, crashes, session, task>>
      BY <1>4 DEF Agents, Register, SaveResult, CompletePrice, Deliver, ChatStops,
                  AdoptReceipt, Cancel, Rest, vars, desktopVars, recordVars
    <2> QED BY <2>1, SameSpent, SilentSteps, CalmBudget
  <1>5. CASE Crash
    <2>1. /\ UNCHANGED <<asked, draft, misses, session>> /\ crashes' = crashes + 1
          /\ task' = NoTask /\ NoTask.step = "none"
      BY <1>5, NoTaskShape DEF Crash, Restart, desktopVars, recordVars
    <2>2. \A w \in Waves : /\ Reached("text", w)' = Reached("text", w) /\ Reached("retry", w)' = Reached("retry", w)
                           /\ Reached("final", w)' = Reached("final", w)
      BY <2>1 DEF Reached, Hits
    <2>3. Excused' = Excused + 1 /\ Excused \in Nat
      BY <2>1, ToldTyped, WavesAssumption DEF Excused, Typed, RestTyped
    <2> SUFFICES ASSUME NEW w \in Waves
                 PROVE  /\ Reached("text", w) <= Excused + 1 + (IF TextSpent(w)' THEN 1 ELSE 0)
                        /\ Reached("retry", w) <= Excused + 1 + (IF RetrySpent(w)' THEN 1 ELSE 0)
                        /\ Reached("final", w) <= Excused + 1 + FinalsSpent(w)'
      BY <2>1, <2>2, <2>3 DEF Budget
    <2>4. FinalsSpent(w)' = session[w].finals /\ session[w].finals \in Nat
      BY <2>1, SessionOf DEF FinalsSpent, Typed
    <2>5. FinalsSpent(w) <= session[w].finals + 1 /\ FinalsSpent(w) \in Nat
      BY <2>4 DEF FinalsSpent
    <2>6. Reached("text", w) \in Nat /\ Reached("retry", w) \in Nat /\ Reached("final", w) \in Nat
      BY ToldTyped DEF Kinds
    <2>7. /\ Reached("text", w) <= Excused + (IF TextSpent(w) THEN 1 ELSE 0)
          /\ Reached("retry", w) <= Excused + (IF RetrySpent(w) THEN 1 ELSE 0)
          /\ Reached("final", w) <= Excused + FinalsSpent(w)
      BY DEF Budget
    <2> QED BY <2>3, <2>4, <2>5, <2>6, <2>7
  <1> QED BY <1>1, <1>2, <1>3, <1>4, <1>5 DEF Next

\* The budgets hold at first.
LEMMA BudgetInit ==
  ASSUME Init
  PROVE  Budget
  <1>1. \A w \in Waves : /\ session[w].status = IF w = 0 THEN "running" ELSE "none"
                         /\ session[w].finals = 0
    <2>1. NoPrint \in Prints
      BY DEF NoPrint, Prints
    <2>2. NewSession \in Sessions
      BY <2>1 DEF NewSession, Sessions, SessionStatus
    <2>3. SessionIs(NewSession, "running", {}, FALSE, 0) /\ SessionIs(NoSession, "none", {}, FALSE, 0)
      BY <2>2, SessionShapes DEF SessionStatus
    <2> QED BY <2>3 DEF Init, SessionIs
  <1>2. Excused = 0 /\ task.step = "none"
    BY NoTaskShape DEF Init, Excused
  <1>3. \A w \in Waves : /\ Reached("text", w) = IF w = 0 THEN 1 ELSE 0
                         /\ Reached("retry", w) = 0 /\ Reached("final", w) = 0
    BY NoHits DEF Reached, Init, Kinds
  <1>4. MaxFinalize \in Nat
    BY WavesAssumption
  <1> QED BY <1>1, <1>2, <1>3, <1>4 DEF Budget, TextSpent, RetrySpent, FinalsSpent, Unsent

\* PromptBudget: however restarts and unconfirmed prompts fall between a prompt
\* and its record, each makes the worker repeat itself at most once.
THEOREM PromptBudgetHolds == Spec => []PromptBudget
  <1> DEFINE Inv == Typed /\ Ordered /\ Budget
  <1>1. Init => Inv
    BY TypedInit, OrderedInit, BudgetInit
  <1>2. Inv /\ [Next]_vars => Inv'
    BY TypedNext, OrderedNext, BudgetNext
  <1>3. Inv => PromptBudget
    BY BudgetIsEnough
  <1> HIDE DEF Inv
  <1> QED BY <1>1, <1>2, <1>3, PTL DEF Spec

-----------------------------------------------------------------------------
(* The lists of deferred components *)

\* Numbered lines the backend does not have yet.
Open(w) == (1..Roots[w]) \ done[w]

\* The wave has been closed as this, or is about to be.
Closing(w, st) ==
  \/ session[w].status = st
  \/ task.step \in {"text", "mark"} /\ task.as = st /\ task.wave = w

Cover == \A w \in Waves : Closing(w, "deferred") => Open(w) \subseteq session[w].deferred

\* The open components among the numbered lines.
LEMMA OpenLines ==
  ASSUME NEW w \in Waves
  PROVE  Incomplete(w) \intersect (1..Roots[w]) = Open(w)
  BY WaveFacts DEF Incomplete, Keys, Open

\* The cover implies the property of the runs.
LEMMA CoverIsEnough ==
  ASSUME Cover
  PROVE  DeferredCoversOpen
  BY OpenLines DEF Cover, DeferredCoversOpen, Closing

\* What is done stays done.
LEMMA DoneGrows ==
  ASSUME Typed, [Next]_vars
  PROVE  \A w \in Waves : done[w] \subseteq done'[w]
  <1>1. CASE UNCHANGED done
    BY <1>1
  <1>2. CASE Agents
    <2>1. \A w \in Waves : done[w] \subseteq Keys(w)
      BY DEF Typed, DoneTyped
    <2> QED BY <1>2, <2>1 DEF Agents, Register, SaveResult, CompletePrice, Deliver, ChatStops,
                     backendVars, Typed, DoneTyped
  <1>3. CASE TaskStep
    <2>1. CASE AdvanceText \/ OpenText \/ ContinuePrompt \/ FinalPrompt \/ RetryPrompt
      BY <1>1, <2>1 DEF AdvanceText, OpenText, ContinuePrompt, FinalPrompt, RetryPrompt,
           Submit, SubmitInNewChat, FlushDraft, backendVars
    <2> QED BY <1>1, <1>3, <2>1 DEF TaskStep, AdvanceEnds, AdvanceMark, RecordSession, PurgeText,
           FinalCount, RetryRecord, backendVars
  <1>4. CASE Loop
    BY <1>1, <1>4 DEF Loop, Attach, CreateMissing, OpenNext, OpenDone, SettleRetry, SettleFail,
           SettleOverLimit, SettleNothing, StopTerminal, PollDraft, PollNothing, FlushDraft, backendVars
  <1>5. ASSUME NEW c \in Convs, PollEnds(c) PROVE UNCHANGED done
    BY <1>5, PollOutcomes DEF backendVars
  <1>6. CASE AdoptReceipt \/ Cancel \/ Crash \/ Rest \/ UNCHANGED vars
    BY <1>1, <1>6 DEF AdoptReceipt, Cancel, Crash, Rest, vars, backendVars
  <1> QED BY <1>1, <1>2, <1>3, <1>4, <1>5, <1>6 DEF Next

\* A wave that is deferred was so before, with the same list, or is covered.
LEMMA CoverStep ==
  ASSUME Typed, Cover, [Next]_vars,
         \A w \in Waves : Closing(w, "deferred")' =>
           \/ Closing(w, "deferred") /\ session'[w].deferred = session[w].deferred
           \/ Open(w) \subseteq session'[w].deferred
  PROVE  Cover'
  <1>1. \A w \in Waves : Open(w)' \subseteq Open(w)
    BY DoneGrows DEF Open
  <1> QED BY <1>1 DEF Cover

\* Worker functions.
LEMMA CoverTask ==
  ASSUME Typed, Cover, TaskStep
  PROVE  Cover'
  <1>w. PICK w : w = task.wave
    OBVIOUS
  <1>a. [Next]_vars
    BY DEF Next
  <1>0. /\ GoodTask(task) /\ task.step # "none" /\ w \in Waves /\ NoTask.step = "none"
    <2>1. task.step # "none"
      BY DEF TaskStep, AdvanceEnds, AdvanceText, AdvanceMark, RecordSession, PurgeText, OpenText,
             ContinuePrompt, FinalPrompt, FinalCount, RetryPrompt, RetryRecord
    <2> QED BY <1>w, <2>1, TaskOf, NoTaskShape DEF Typed, TaskTyped
  <1>1. CASE AdvanceEnds \/ AdvanceMark
    <2>1. /\ session'[w].status = task.as /\ session'[w].deferred = session[w].deferred
          /\ \A v \in Waves \ {w} : session'[v] = session[v]
      BY <1>w, <1>1, EndWrites DEF Writes, SessionIs
    <2>2. task'.step \notin {"text", "mark"} /\ task.step \in {"text", "mark"}
      BY <1>w, <1>0, <1>1, TaskShapes DEF AdvanceEnds, AdvanceMark, TaskDone, Then, GoodTask, Steps
    <2> QED BY <1>w, <1>a, <2>1, <2>2, CoverStep DEF Closing
  <1>2. CASE RecordSession
    <2>1. /\ session'[w].status = "running"
          /\ \A v \in Waves \ {w} : session'[v] = session[v]
      BY <1>w, <1>2, RecordWrites DEF Writes, SessionIs
    <2>2. task'.step = "purge"
      BY <1>0, <1>2, NextStep DEF RecordSession, Steps
    <2> QED BY <1>a, <2>1, <2>2, CoverStep DEF Closing
  <1>3. CASE PurgeText
    BY <1>a, <1>0, <1>3, CoverStep DEF PurgeText, TaskDone, Then, Closing
  <1>4. CASE FinalCount
    <2>1. /\ session'[w].status = "running" /\ task' = NoTask
          /\ \A v \in Waves \ {w} : session'[v] = session[v]
      BY <1>w, <1>4, CountWrites DEF Writes, SessionIs, FinalCount, TaskDone, Then
    <2> QED BY <1>a, <1>0, <2>1, CoverStep DEF Closing
  <1>5. CASE RetryRecord
    <2>1. /\ \A v \in task.group : session'[v].status = "running"
          /\ \A v \in Waves \ task.group : session'[v] = session[v]
          /\ task' = NoTask
      BY <1>5, RetryWrites DEF SessionIs, RetryRecord, TaskDone, Then
    <2> QED BY <1>a, <1>0, <2>1, CoverStep DEF Closing
  <1>6. CASE AdvanceText \/ OpenText \/ ContinuePrompt \/ FinalPrompt \/ RetryPrompt
    <2>1. session' = session
      BY <1>6 DEF AdvanceText, OpenText, ContinuePrompt, FinalPrompt, RetryPrompt,
           Submit, SubmitInNewChat, FlushDraft, recordVars
    <2>2. \/ task' = NoTask
          \/ task.step = "text" /\ task' = [task EXCEPT !.step = "mark"]
          \/ \E step \in {"record", "count", "retried"} : task' = [task EXCEPT !.step = step]
      BY <1>6 DEF AdvanceText, OpenText, ContinuePrompt, FinalPrompt, RetryPrompt,
           Submit, SubmitInNewChat, FlushDraft, Abandon, Restart, Then
    <2>3. \/ task'.step \notin {"text", "mark"}
          \/ task.step = "text" /\ task'.as = task.as /\ task'.wave = task.wave
      BY <1>0, <2>2 DEF GoodTask, Tasking
    <2> QED BY <1>a, <2>1, <2>3, CoverStep DEF Closing
  <1> QED BY <1>1, <1>2, <1>3, <1>4, <1>5, <1>6 DEF TaskStep

\* A wave is deferred when no component is left that is not on its list.
LEMMA CoverPoll ==
  ASSUME Typed, Cover, NEW c \in Convs, PollEnds(c)
  PROVE  Cover'
  <1>w. PICK w : w = chat[c].wave
    OBVIOUS
  <1>a. [Next]_vars
    BY DEF Next
  <1>0. w \in Waves /\ task = NoTask /\ NoTask.step = "none" /\ \A v \in chat[c].group : v \in Waves
    BY <1>w, PollOutcomes, ActiveChat, NoTaskShape DEF Typed
  <1>1. CASE ContinueFinished(w) \/ ContinueFinal(w)
    <2>1. session' = session /\ (task'.as # "deferred" \/ task'.step = "final")
      BY <1>0, <1>1, TaskShapes DEF ContinueFinished, ContinueFinal, Over, Steps
    <2> QED BY <1>a, <2>1, CoverStep DEF Closing
  <1>2. CASE ContinueExhausted(w)
    <2>1. /\ session'[w].status = "deferred_failed" /\ task' = NoTask
          /\ \A v \in Waves \ {w} : session'[v] = session[v]
      BY <1>0, <1>2, ExhaustedWrites DEF Writes, SessionIs, ContinueExhausted
    <2> QED BY <1>a, <1>0, <2>1, CoverStep DEF Closing
  <1>3. CASE ContinueStalled(w)
    <2> DEFINE fresh == Incomplete(w) \ OwnDeferred(w)
    <2>1. PICK stalled \in SUBSET fresh :
            /\ Writes(w, IF fresh # stalled THEN "running" ELSE "deferred", OwnDeferred(w) \union stalled,
                      session[w].retrySent, session[w].finals)
            /\ task' = IF fresh # stalled THEN Task("continue", w) ELSE Advance(w, "deferred")
      BY <1>0, <1>3, StalledWrites
    <2>2. CASE fresh # stalled
      <3>1. /\ session'[w].status = "running" /\ task'.step = "continue"
            /\ \A v \in Waves \ {w} : session'[v] = session[v]
        BY <1>0, <2>1, <2>2, TaskShapes DEF Writes, SessionIs, Steps
      <3> QED BY <1>a, <1>0, <3>1, CoverStep DEF Closing
    <2>3. CASE fresh = stalled
      <3>1. /\ session'[w].deferred = OwnDeferred(w) \union fresh /\ task'.wave = w
            /\ \A v \in Waves \ {w} : session'[v] = session[v]
        BY <1>0, <2>1, <2>3, TaskShapes DEF Writes, SessionIs, Over
      <3>2. Open(w) \subseteq session'[w].deferred
        BY <1>0, <3>1, OpenLines
      <3> QED BY <1>a, <1>0, <3>1, <3>2, CoverStep DEF Closing
    <2> QED BY <2>2, <2>3
  <1>4. CASE FinishGroup(c)
    <2>1. /\ \A v \in chat[c].group : session'[v].status \in {"saved", "deferred_failed"}
          /\ \A v \in Waves \ chat[c].group : session'[v] = session[v]
      BY <1>4, GroupWrites DEF SessionIs
    <2>2. task' = NoTask
      BY <1>4 DEF FinishGroup
    <2>3. \A v \in Waves : Closing(v, "deferred")' => Closing(v, "deferred") /\ session'[v] = session[v]
      BY <1>0, <2>1, <2>2 DEF Closing
    <2> QED BY <1>a, <2>3, CoverStep
  <1>5. CASE /\ session' = [session EXCEPT ![w].settle = Fingerprint(w)] /\ task' = task
    <2>1. /\ session'[w].deferred = session[w].deferred /\ session'[w].status = session[w].status
          /\ \A v \in Waves \ {w} : session'[v] = session[v]
      BY <1>0, <1>5, SettleWrites DEF Writes, SessionIs
    <2> QED BY <1>a, <1>0, <1>5, <2>1, CoverStep DEF Closing
  <1> QED BY <1>w, <1>1, <1>2, <1>3, <1>4, <1>5, PollOutcomes DEF ContinueWave

\* The cover holds after every step
LEMMA CoverNext ==
  ASSUME Typed, Ordered, Cover, [Next]_vars
  PROVE  Cover'
  <1>1. CASE OpenNext
    <2>1. session' = session
      BY <1>1 DEF OpenNext, recordVars
    <2>2. Recoverable \subseteq Waves /\ Openable \subseteq Waves /\ Waves \subseteq Nat
      BY WaveFacts DEF Recoverable, Openable, Typed, RestTyped
    <2>3. CASE Recoverable # {} /\ task' = Advance(Min(Recoverable) - 1, session[Min(Recoverable) - 1].status)
      <3>1. Min(Recoverable) \in Recoverable
        BY <2>2, <2>3, MinOf
      <3>2. PICK v \in Waves : /\ session[v].status \in Over /\ task' = Advance(v, session[v].status)
        <4>1. Min(Recoverable) - 1 \in Waves /\ session[Min(Recoverable) - 1].status \in Over
          BY <2>2, <3>1, SecondWave DEF Recoverable, Over
        <4> QED BY <2>3, <4>1
      <3>3. task'.wave = v /\ task'.as = session[v].status
        BY <3>2, TaskShapes
      <3> QED BY <2>1, <3>3, CoverStep DEF Closing
    <2>4. CASE Openable # {} /\ task' = Task("open", Min(Openable))
      <3>1. task'.step = "open"
        <4>1. Min(Openable) \in Waves
          BY <2>2, <2>4, MinOf
        <4> QED BY <2>4, <4>1, TaskShapes DEF Steps
      <3> QED BY <2>1, <3>1, CoverStep DEF Closing
    <2> QED BY <1>1, <2>3, <2>4 DEF OpenNext
  <1>2. CASE Loop /\ ~OpenNext
    <2>1. session' = session
      BY <1>2 DEF Loop, Attach, CreateMissing, OpenDone, SettleRetry, SettleFail, SettleOverLimit,
             SettleNothing, StopTerminal, PollDraft, PollNothing, FlushDraft, recordVars
    <2>2. task' = task \/ task' = NoTask \/ task'.step = "retry"
      BY <1>2 DEF Loop, Attach, CreateMissing, OpenDone, SettleRetry, SettleFail, SettleOverLimit,
             SettleNothing, StopTerminal, PollDraft, PollNothing, FlushDraft, Abandon, Restart, Goto,
             loopVars, Task, NoTask
    <2> QED BY <2>1, <2>2, CoverStep, NoTaskShape DEF Closing
  <1>3. CASE Agents \/ AdoptReceipt \/ Cancel \/ Crash \/ Rest \/ UNCHANGED vars
    <2>1. session' = session /\ (task' = task \/ task' = NoTask)
      BY <1>3 DEF Agents, Register, SaveResult, CompletePrice, Deliver, ChatStops,
                  AdoptReceipt, Cancel, Crash, Restart, Rest, vars, recordVars
    <2> QED BY <2>1, CoverStep, NoTaskShape DEF Closing
  <1> QED BY <1>1, <1>2, <1>3, CoverTask, CoverPoll DEF Next

\* ... and at first.
LEMMA CoverInit ==
  ASSUME Init
  PROVE  Cover
  <1>1. \A w \in Waves : session[w].status # "deferred"
    <2>1. NewSession.status = "running" /\ NoSession.status = "none"
      BY DEF NewSession, NoSession
    <2> QED BY <2>1 DEF Init
  <1> QED BY <1>1, NoTaskShape DEF Cover, Closing, Init

\* DeferredCoversOpen: the list the one retry is built from leaves out no
\* numbered line that is still open.
THEOREM DeferredCoversOpenHolds == Spec => []DeferredCoversOpen
  <1> DEFINE Inv == Typed /\ Ordered /\ Cover
  <1>1. Init => Inv
    BY TypedInit, OrderedInit, CoverInit
  <1>2. Inv /\ [Next]_vars => Inv'
    BY TypedNext, OrderedNext, CoverNext
  <1>3. Inv => DeferredCoversOpen
    BY CoverIsEnough
  <1> HIDE DEF Inv
  <1> QED BY <1>1, <1>2, <1>3, PTL DEF Spec

-----------------------------------------------------------------------------
(* What a failure has earned *)

\* Every change of the history is a prompt.
LEMMA WhoHears ==
  ASSUME Typed, [Next]_vars
  PROVE  asked' = asked \/ \E p : p.kind \in Kinds /\ Hear(p)
  <1>1. CASE FlushDraft
    BY <1>1 DEF FlushDraft, Typed, DraftTyped
  <1>2. ASSUME NEW p, p.kind \in Kinds, NEW next, Submit(p, next) \/ SubmitInNewChat(p, next)
        PROVE  asked' = asked \/ \E q : q.kind \in Kinds /\ Hear(q)
    BY <1>1, <1>2 DEF Submit, SubmitInNewChat
  <1>3. CASE TaskStep
    <2>1. \A ws : /\ Prompt("text", ws).kind \in Kinds /\ Prompt("continue", ws).kind \in Kinds
                  /\ Prompt("final", ws).kind \in Kinds /\ Prompt("retry", ws).kind \in Kinds
      BY DEF Prompt, Kinds
    <2> QED BY <1>2, <1>3, <2>1 DEF TaskStep, AdvanceEnds, AdvanceMark, RecordSession, PurgeText, FinalCount,
           RetryRecord, AdvanceText, OpenText, ContinuePrompt, FinalPrompt, RetryPrompt, desktopVars
  <1>4. CASE Loop
    <2>1. CASE StopTerminal
      BY <2>1 DEF StopTerminal, Typed, DraftTyped
    <2> QED BY <1>1, <1>4, <2>1 DEF Loop, Attach, CreateMissing, OpenNext, OpenDone, SettleRetry, SettleFail,
           SettleOverLimit, SettleNothing, PollDraft, PollNothing, desktopVars
  <1>5. ASSUME NEW c \in Convs, PollEnds(c) PROVE asked' = asked
    BY <1>5, PollOutcomes
  <1>6. CASE Agents \/ AdoptReceipt \/ Cancel \/ Crash \/ Rest \/ UNCHANGED vars
    BY <1>6 DEF Agents, Register, SaveResult, CompletePrice, Deliver, ChatStops,
                AdoptReceipt, Cancel, Crash, Rest, vars, desktopVars
  <1> QED BY <1>3, <1>4, <1>5, <1>6 DEF Next

\* What was asked for stays asked for.
LEMMA AskedGrows ==
  ASSUME Typed, [Next]_vars, NEW w \in Waves
  PROVE  /\ asked[w].text > 0 => asked'[w].text > 0
         /\ asked[w].final > 0 => asked'[w].final > 0
         /\ asked[w].retry > 0 => asked'[w].retry > 0
  <1>1. \A kind \in Kinds : asked[w][kind] \in Nat
    BY WavesAssumption DEF Typed, RestTyped, Prompts, Kinds
  <1>2. ASSUME NEW p, p.kind \in Kinds, Hear(p), NEW kind \in Kinds
        PROVE  asked[w][kind] <= asked'[w][kind] /\ asked'[w][kind] \in Nat
    BY <1>2, HeardOnce
  <1>3. \A kind \in Kinds : asked[w][kind] > 0 => asked'[w][kind] > 0
    BY <1>1, <1>2, WhoHears
  <1> QED BY <1>3 DEF Kinds

\* The wave had its retry, by any of the records of it.
RetryMark(w) ==
  \/ RetrySpent(w) \/ session[w].status = "deferred_failed"
  \/ \E c \in Active : w \in chat[c].group

\* What the record says of a wave, the chat was asked for.
Earned == \A w \in Waves :
  /\ status = "processing" /\ w \notin lines => ~Unsent(w)
  /\ Closing(w, "saved") => w \in saved
  /\ Closing(w, "stalled") => session[w].finals >= MaxFinalize
  /\ FinalsSpent(w) > 0 => asked[w].final > 0
  /\ RetryMark(w) => asked[w].retry > 0

\* A step records nothing about wave w that was not so, or is not so now.
Records(w) ==
  /\ Unsent(w)' => Unsent(w)
  /\ status' = "processing" => status = "processing" /\ (w \in lines => w \in lines' \/ ~Unsent(w))
  /\ Closing(w, "saved")' => Closing(w, "saved") \/ w \in saved
  /\ Closing(w, "stalled")' =>
       \/ session'[w].finals >= MaxFinalize
       \/ Closing(w, "stalled") /\ session'[w].finals = session[w].finals
  /\ FinalsSpent(w)' > 0 => FinalsSpent(w) > 0 \/ asked'[w].final > 0
  /\ RetryMark(w)' => RetryMark(w) \/ asked'[w].retry > 0

\* A step that records nothing new keeps it.
LEMMA EarnedStep ==
  ASSUME Typed, Earned, [Next]_vars, saved \subseteq saved', \A w \in Waves : Records(w)
  PROVE  Earned'
  <1> SUFFICES ASSUME NEW w \in Waves
               PROVE  /\ status' = "processing" /\ w \notin lines' => ~Unsent(w)'
                      /\ Closing(w, "saved")' => w \in saved'
                      /\ Closing(w, "stalled")' => session'[w].finals >= MaxFinalize
                      /\ FinalsSpent(w)' > 0 => asked'[w].final > 0
                      /\ RetryMark(w)' => asked'[w].retry > 0
    BY DEF Earned
  <1>1. Records(w)
    OBVIOUS
  <1>2. /\ asked[w].final > 0 => asked'[w].final > 0
        /\ asked[w].retry > 0 => asked'[w].retry > 0
    BY AskedGrows
  <1>3. /\ status = "processing" /\ w \notin lines => ~Unsent(w)
        /\ Closing(w, "saved") => w \in saved
        /\ Closing(w, "stalled") => session[w].finals >= MaxFinalize
        /\ FinalsSpent(w) > 0 => asked[w].final > 0
        /\ RetryMark(w) => asked[w].retry > 0
    BY DEF Earned
  <1> HIDE DEF Earned
  <1> QED BY <1>1, <1>2, <1>3 DEF Records

\* What is sealed stays sealed.
LEMMA SavedGrows ==
  ASSUME Typed, [Next]_vars
  PROVE  saved \subseteq saved'
  <1>1. CASE UNCHANGED backendVars
    BY <1>1 DEF backendVars
  <1>2. CASE Agents
    BY <1>2 DEF Agents, Register, SaveResult, CompletePrice, Deliver, ChatStops, backendVars
  <1>3. CASE TaskStep
    <2>1. CASE AdvanceText \/ OpenText \/ ContinuePrompt \/ FinalPrompt \/ RetryPrompt
      BY <1>1, <2>1 DEF AdvanceText, OpenText, ContinuePrompt, FinalPrompt, RetryPrompt,
           Submit, SubmitInNewChat, FlushDraft
    <2> QED BY <1>1, <1>3, <2>1 DEF TaskStep, AdvanceEnds, AdvanceMark, RecordSession, PurgeText,
           FinalCount, RetryRecord
  <1>4. CASE Loop
    BY <1>1, <1>4 DEF Loop, Attach, CreateMissing, OpenNext, OpenDone, SettleRetry, SettleFail,
           SettleOverLimit, SettleNothing, StopTerminal, PollDraft, PollNothing, FlushDraft
  <1>5. ASSUME NEW c \in Convs, PollEnds(c) PROVE UNCHANGED backendVars
    BY <1>5, PollOutcomes
  <1>6. CASE AdoptReceipt \/ Cancel \/ Crash \/ Rest \/ UNCHANGED vars
    BY <1>1, <1>6 DEF AdoptReceipt, Cancel, Crash, Rest, vars
  <1> QED BY <1>1, <1>2, <1>3, <1>4, <1>5, <1>6 DEF Next

\* A record of a prompt is written after the prompt.
LEMMA EarnedTask ==
  ASSUME Typed, Ordered, Earned, TaskStep
  PROVE  Earned'
  <1>w. PICK w : w = task.wave
    OBVIOUS
  <1>a. [Next]_vars /\ saved \subseteq saved'
    BY SavedGrows DEF Next
  <1>0. /\ GoodTask(task) /\ task.step # "none" /\ w \in Waves /\ NoTask.step = "none"
        /\ \A v \in Waves : session[v].finals \in Nat
        /\ \A c \in Convs : NoChat.group = {}
    <2>1. task.step # "none"
      BY DEF TaskStep, AdvanceEnds, AdvanceText, AdvanceMark, RecordSession, PurgeText, OpenText,
             ContinuePrompt, FinalPrompt, FinalCount, RetryPrompt, RetryRecord
    <2> QED BY <1>w, <2>1, TaskOf, NoTaskShape, SessionOf DEF Typed, TaskTyped, NoChat
  <1>s. status' = status
    BY DEF TaskStep, AdvanceEnds, AdvanceText, AdvanceMark, RecordSession, PurgeText, OpenText,
           ContinuePrompt, FinalPrompt, FinalCount, RetryPrompt, RetryRecord,
           Submit, SubmitInNewChat, FlushDraft, recordVars
  <1>1. CASE AdvanceEnds \/ AdvanceMark
    <2>1. /\ session'[w].retrySent = session[w].retrySent /\ session'[w].finals = session[w].finals
          /\ session'[w].status = task.as /\ task.as \in Over
          /\ \A v \in Waves \ {w} : session'[v] = session[v]
      BY <1>w, <1>1, EndWrites DEF Writes, SessionIs
    <2>2. task'.step \in {"none", "record"} /\ task.step \in {"text", "mark"}
      BY <1>w, <1>0, <1>1, TaskShapes DEF AdvanceEnds, AdvanceMark, TaskDone, Then, GoodTask, Steps
    <2>3. lines' = lines /\ \A c \in Active' : c \in Active /\ chat'[c] = chat[c]
      BY <1>1 DEF AdvanceEnds, AdvanceMark, Dropped, Active, Typed, ChatsTyped
    <2>4. \A v \in Waves : Records(v)
      <3> SUFFICES ASSUME NEW v \in Waves PROVE Records(v)
        OBVIOUS
      <3>1. Unsent(v)' => Unsent(v)
        BY <2>1 DEF Unsent, Over
      <3>2. Closing(v, "saved")' => Closing(v, "saved")
        BY <1>w, <2>1, <2>2 DEF Closing
      <3>3. Closing(v, "stalled")' => Closing(v, "stalled")
        BY <1>w, <2>1, <2>2 DEF Closing
      <3>4. session'[v].finals = session[v].finals
        BY <2>1
      <3>5. FinalsSpent(v)' = FinalsSpent(v)
        BY <2>2, <3>4 DEF FinalsSpent
      <3>6. RetryMark(v)' => RetryMark(v)
        BY <2>1, <2>2, <2>3 DEF RetryMark, RetrySpent, Over
      <3> QED BY <1>s, <2>3, <3>1, <3>2, <3>3, <3>4, <3>5, <3>6 DEF Records
    <2> QED BY <1>a, <2>4, EarnedStep
  <1>2. CASE RecordSession
    <2>1. /\ ~session'[w].retrySent /\ session'[w].finals = 0 /\ session'[w].status = "running"
          /\ \A v \in Waves \ {w} : session'[v] = session[v]
      BY <1>w, <1>2, RecordWrites DEF Writes, SessionIs
    <2>2. task'.step = "purge"
      BY <1>0, <1>2, NextStep DEF RecordSession, Steps
    <2>3. lines' = lines /\ chat' = chat
      BY <1>2 DEF RecordSession
    <2>4. \A v \in Waves : Records(v)
      <3> SUFFICES ASSUME NEW v \in Waves PROVE Records(v)
        OBVIOUS
      <3>1. Unsent(v)' => Unsent(v)
        BY <2>1 DEF Unsent
      <3>2. /\ Closing(v, "saved")' => Closing(v, "saved")
            /\ Closing(v, "stalled")' => Closing(v, "stalled") /\ session'[v].finals = session[v].finals
        BY <2>1, <2>2 DEF Closing
      <3>3. FinalsSpent(v)' > 0 => FinalsSpent(v) > 0
        BY <1>0, <2>1, <2>2 DEF FinalsSpent
      <3>4. RetryMark(v)' => RetryMark(v)
        BY <2>1, <2>2, <2>3 DEF RetryMark, RetrySpent, Active
      <3> QED BY <1>s, <2>3, <3>1, <3>2, <3>3, <3>4 DEF Records
    <2> QED BY <1>a, <2>4, EarnedStep
  <1>3. CASE PurgeText
    <2>1. /\ session' = session /\ task' = NoTask /\ lines' = lines \ {w}
          /\ \A c \in Active' : chat'[c].group = {} \/ (c \in Active /\ chat'[c] = chat[c])
      BY <1>w, <1>3 DEF PurgeText, TaskDone, Then, Active, Typed, ChatsTyped
    <2>2. ~Unsent(w)
      BY <1>w, <1>3 DEF PurgeText, Ordered, TaskOrder
    <2>3. \A v \in Waves : Records(v)
      BY <1>0, <1>s, <2>1, <2>2 DEF Records, Unsent, Closing, FinalsSpent, RetryMark, RetrySpent
    <2> QED BY <1>a, <2>3, EarnedStep
  <1>4. CASE FinalCount
    <2>1. /\ session'[w].retrySent = session[w].retrySent /\ session'[w].status = "running"
          /\ session'[w].finals = session[w].finals + 1
          /\ \A v \in Waves \ {w} : session'[v] = session[v]
      BY <1>w, <1>4, CountWrites DEF Writes, SessionIs
    <2>2. task' = NoTask /\ task.step = "count" /\ lines' = lines /\ chat' = chat
      BY <1>4 DEF FinalCount, TaskDone, Then
    <2>3. \A v \in Waves : Records(v)
      BY <1>w, <1>0, <1>s, <2>1, <2>2
         DEF Records, Unsent, Closing, FinalsSpent, RetryMark, RetrySpent, Active
    <2> QED BY <1>a, <2>3, EarnedStep
  <1>5. CASE RetryRecord
    <2>1. /\ \A v \in task.group : /\ session'[v].retrySent /\ session'[v].status = "running"
                                   /\ session'[v].finals = session[v].finals
          /\ \A v \in Waves \ task.group : session'[v] = session[v]
      BY <1>5, RetryWrites DEF SessionIs
    <2>2. task' = NoTask /\ task.step = "retried" /\ lines' = lines
      BY <1>5 DEF RetryRecord, TaskDone, Then
    <2>3. \A c \in Active' : chat'[c].group = task.group \/ (c \in Active /\ chat'[c] = chat[c])
      BY <1>5 DEF RetryRecord, Active, Typed, ChatsTyped
    <2>4. \A v \in Waves : Records(v)
      <3> SUFFICES ASSUME NEW v \in Waves PROVE Records(v)
        OBVIOUS
      <3>1. (Unsent(v)' => Unsent(v)) /\ session'[v].finals = session[v].finals
        BY <2>1 DEF Unsent
      <3>2. /\ Closing(v, "saved")' => Closing(v, "saved")
            /\ Closing(v, "stalled")' => Closing(v, "stalled")
        BY <1>0, <2>1, <2>2 DEF Closing
      <3>3. FinalsSpent(v)' = FinalsSpent(v)
        BY <1>0, <2>2, <3>1 DEF FinalsSpent
      <3>4. RetryMark(v)' => RetryMark(v)
        BY <1>0, <2>1, <2>2, <2>3 DEF RetryMark, RetrySpent
      <3> QED BY <1>s, <2>2, <3>1, <3>2, <3>3, <3>4 DEF Records
    <2> QED BY <1>a, <2>4, EarnedStep
  <1>6. CASE AdvanceText \/ OpenText \/ ContinuePrompt \/ FinalPrompt \/ RetryPrompt
    <2> DEFINE next(step) == [task EXCEPT !.step = step]
    <2>n. \A step : /\ next(step).step = step /\ next(step).wave = w /\ next(step).as = task.as
                    /\ next(step).group = task.group
      BY <1>w, <1>0 DEF GoodTask, Tasking
    <2> HIDE DEF next
    <2>1. session' = session /\ lines' = lines /\ \A c \in Active' : c \in Active /\ chat'[c] = chat[c]
      BY <1>6 DEF AdvanceText, OpenText, ContinuePrompt, FinalPrompt, RetryPrompt,
           Submit, SubmitInNewChat, FlushDraft, Abandon, Restart, recordVars, Active
    <2>2. \/ task' = NoTask
          \/ task.step = "text" /\ task' = next("mark")
          \/ task.step = "open" /\ task' = next("record")
          \/ task.step = "final" /\ task' = next("count") /\ Hear(Prompt("final", {w}))
          \/ task.step = "retry" /\ task' = next("retried") /\ Hear(Prompt("retry", task.group))
      BY <1>w, <1>6 DEF AdvanceText, OpenText, ContinuePrompt, FinalPrompt, RetryPrompt,
           Submit, SubmitInNewChat, FlushDraft, Abandon, Restart, Then, next
    <2>3. \/ task'.step \notin {"text", "mark"}
          \/ task.step = "text" /\ task'.as = task.as /\ task'.wave = task.wave
      BY <1>w, <1>0, <2>n, <2>2
    <2>4. ASSUME task'.step = "count" PROVE asked'[w].final > 0 /\ task'.wave = w
      <3>1. task' = next("count") /\ Hear(Prompt("final", {w})) /\ task'.wave = w
        BY <1>0, <2>n, <2>2, <2>4
      <3> DEFINE p == Prompt("final", {w})
      <3>2. p.kind = "final" /\ p.waves = {w} /\ p.kind \in Kinds
        BY <1>0, PromptTyped DEF Kinds
      <3> HIDE DEF p
      <3> QED BY <1>0, <3>1, <3>2, HeardOnce DEF p
    <2>5. ASSUME task'.step = "retried"
          PROVE  task'.group = task.group /\ \A v \in Waves \intersect task.group : asked'[v].retry > 0
      <3>1. task' = next("retried") /\ Hear(Prompt("retry", task.group)) /\ task'.group = task.group
        BY <1>0, <2>n, <2>2, <2>5
      <3> DEFINE p == Prompt("retry", task.group)
      <3>2. p.kind = "retry" /\ p.waves = task.group /\ p.kind \in Kinds
        BY <1>0, PromptTyped DEF Kinds, GoodTask, Tasking
      <3> HIDE DEF p
      <3> QED BY <3>1, <3>2, HeardOnce DEF p
    <2>6. \A v \in Waves : Records(v)
      <3> SUFFICES ASSUME NEW v \in Waves PROVE Records(v)
        OBVIOUS
      <3>1. (Unsent(v)' => Unsent(v)) /\ session'[v].finals = session[v].finals
        BY <2>1 DEF Unsent
      <3>2. /\ Closing(v, "saved")' => Closing(v, "saved")
            /\ Closing(v, "stalled")' => Closing(v, "stalled")
        BY <2>1, <2>3 DEF Closing
      <3>3. FinalsSpent(v)' > 0 => FinalsSpent(v) > 0 \/ asked'[v].final > 0
        BY <1>0, <2>4, <3>1 DEF FinalsSpent
      <3>4. RetryMark(v)' => RetryMark(v) \/ asked'[v].retry > 0
        BY <2>1, <2>5 DEF RetryMark, RetrySpent
      <3> QED BY <1>s, <2>1, <3>1, <3>2, <3>3, <3>4 DEF Records
    <2> QED BY <1>a, <2>6, EarnedStep
  <1> QED BY <1>1, <1>2, <1>3, <1>4, <1>5, <1>6 DEF TaskStep

\* A step that leaves the sessions alone.
LEMMA EarnedSame ==
  ASSUME Typed, Earned, [Next]_vars, session' = session,
         status' = "processing" => status = "processing" /\ lines' = lines,
         \/ task' = task \/ task' = NoTask
         \/ task'.step \notin {"text", "mark", "count", "retried"}
         \/ task'.step = "text" /\ task'.as = session[task'.wave].status,
         \A c \in Active' : chat'[c].group = {} \/ (c \in Active /\ chat'[c] = chat[c])
  PROVE  Earned'
  <1>1. saved \subseteq saved' /\ NoTask.step = "none"
    BY SavedGrows, NoTaskShape
  <1>2. \A w \in Waves : Records(w)
    <2> SUFFICES ASSUME NEW w \in Waves PROVE Records(w)
      OBVIOUS
    <2>1. (Unsent(w)' => Unsent(w)) /\ session'[w].finals = session[w].finals
      BY DEF Unsent
    <2>2. \A st : Closing(w, st)' => Closing(w, st)
      BY <1>1 DEF Closing
    <2>3. FinalsSpent(w)' > 0 => FinalsSpent(w) > 0
      <3>0. session[w].finals \in Nat
        BY SessionOf DEF Typed
      <3>1. task'.step = "count" /\ task'.wave = w => task.step = "count" /\ task.wave = w
        BY <1>1
      <3> QED BY <2>1, <3>0, <3>1 DEF FinalsSpent
    <2>4. RetryMark(w)' => RetryMark(w)
      BY <1>1 DEF RetryMark, RetrySpent
    <2> QED BY <2>1, <2>2, <2>3, <2>4 DEF Records
  <1> QED BY <1>1, <1>2, EarnedStep

\* Steps of main()'s loop.
LEMMA EarnedLoop ==
  ASSUME Typed, Ordered, Earned, Loop
  PROVE  Earned'
  <1>a. [Next]_vars /\ NoTask.step = "none" /\ task = NoTask /\ task.step = "none" /\ NoChat.group = {}
    <2>1. task = NoTask
      BY DEF Loop, Attach, CreateMissing, OpenNext, OpenDone, SettleRetry, SettleFail, SettleOverLimit,
             SettleNothing, StopTerminal, PollDraft, PollNothing, Settling, Polled, Ordered, LoopPlaces
    <2> QED BY <2>1, NoTaskShape DEF Next, NoChat
  <1>1. CASE OpenNext
    <2>1. UNCHANGED <<session, status, lines, chat>>
      BY <1>1 DEF OpenNext, recordVars
    <2>2. Recoverable \subseteq Waves /\ Openable \subseteq Waves /\ Waves \subseteq Nat
      BY WaveFacts DEF Recoverable, Openable, Typed, RestTyped
    <2>3. CASE task' = Advance(Min(Recoverable) - 1, session[Min(Recoverable) - 1].status) /\ Recoverable # {}
      <3>1. PICK v : v = Min(Recoverable) - 1
        OBVIOUS
      <3>2. Min(Recoverable) \in Recoverable
        BY <2>2, <2>3, MinOf
      <3>3. v \in Waves /\ session[v].status \in Over
        <4>1. Min(Recoverable) \in Waves /\ IsSecond(Min(Recoverable)) /\ session[v].status \in Over
          BY <3>1, <3>2, <2>2 DEF Recoverable, Over
        <4> QED BY <3>1, <4>1, SecondWave
      <3>4. task'.step = "text" /\ task'.as = session[task'.wave].status
        BY <2>3, <3>1, <3>3, TaskShapes
      <3> QED BY <1>a, <2>1, <3>4, EarnedSame DEF Active
    <2>4. CASE task' = Task("open", Min(Openable)) /\ Openable # {}
      <3>1. Min(Openable) \in Waves
        BY <2>2, <2>4, MinOf
      <3>2. task'.step = "open"
        BY <2>4, <3>1, TaskShapes DEF Steps
      <3> QED BY <1>a, <2>1, <3>2, EarnedSame DEF Active
    <2> QED BY <1>1, <2>3, <2>4 DEF OpenNext
  <1>2. CASE Attach
    <2>1. session' = session /\ status' = status /\ lines' = lines /\ (task' = task \/ task' = NoTask)
      BY <1>2 DEF Attach, FlushDraft, Abandon, Restart, Goto, recordVars
    <2>2. \A c \in Active' : chat'[c].group = {} \/ (c \in Active /\ chat'[c] = chat[c])
      <3>1. CASE FlushDraft
        BY <3>1 DEF FlushDraft, Abandon, Restart, Active
      <3>2. CASE chat' = [c \in Convs |->
                   LET here == {v \in Running : ConvOf(v) = c}
                   IN  IF here = {} THEN NoChat ELSE [wave |-> Max(here), group |-> {}]]
        <4>1. \A c \in Convs : chat'[c] = NoChat \/ \E n : chat'[c] = [wave |-> n, group |-> {}]
          BY <3>2
        <4>2. \A n : [wave |-> n, group |-> {}].group = {}
          OBVIOUS
        <4> QED BY <1>a, <4>1, <4>2 DEF Active
      <3> QED BY <1>2, <3>1, <3>2 DEF Attach
    <2> QED BY <1>a, <2>1, <2>2, EarnedSame
  <1>3. CASE Loop /\ ~OpenNext /\ ~Attach
    <2>1. session' = session
      BY <1>3 DEF Loop, CreateMissing, OpenDone, SettleRetry, SettleFail, SettleOverLimit,
             SettleNothing, StopTerminal, PollDraft, PollNothing, FlushDraft, recordVars
    <2>2. task' = task \/ task' = NoTask \/ task'.step = "retry"
      BY <1>3 DEF Loop, CreateMissing, OpenDone, SettleRetry, SettleFail, SettleOverLimit,
             SettleNothing, StopTerminal, PollDraft, PollNothing, FlushDraft, Abandon, Restart, Goto,
             loopVars, Task, NoTask
    <2>3. status' = "processing" => status = "processing" /\ lines' = lines
      BY <1>3 DEF Loop, CreateMissing, OpenDone, SettleRetry, SettleFail, SettleOverLimit,
             SettleNothing, StopTerminal, PollDraft, PollNothing, FlushDraft, recordVars
    <2>4. \A c \in Active' : chat'[c].group = {} \/ (c \in Active /\ chat'[c] = chat[c])
      BY <1>3 DEF Loop, CreateMissing, OpenDone, SettleRetry, SettleFail, SettleOverLimit,
             SettleNothing, StopTerminal, PollDraft, PollNothing, FlushDraft, Abandon, Restart, Active
    <2> QED BY <1>a, <2>1, <2>2, <2>3, <2>4, EarnedSame
  <1> QED BY <1>1, <1>2, <1>3

\* A wave is closed as saved when it is sealed, as stalled when its requests are used up.
LEMMA EarnedPoll ==
  ASSUME Typed, Ordered, Earned, NEW c \in Convs, PollEnds(c)
  PROVE  Earned'
  <1>w. PICK w : w = chat[c].wave
    OBVIOUS
  <1>a. [Next]_vars /\ saved \subseteq saved'
    BY SavedGrows DEF Next
  <1>0. /\ w \in Waves /\ task = NoTask /\ NoTask.step = "none" /\ c \in Active
        /\ \A v \in chat[c].group : v \in Waves
        /\ \A v \in Waves : session[v].finals \in Nat
        /\ status' = status /\ lines' = lines /\ ~Unsent(w) /\ \A v \in chat[c].group : ~Unsent(v)
    <2>1. c \in Active /\ task = NoTask /\ status' = status /\ lines' = lines
      BY PollOutcomes
    <2> QED BY <1>w, <2>1, ActiveChat, SessionOf, NoTaskShape DEF Typed, Ordered, TaskOrder
  <1>1. CASE (ContinueFinished(w) \/ ContinueFinal(w))
    <2>1. /\ session' = session /\ chat' = chat
          /\ \/ task'.step = "text" /\ task'.as = "saved" /\ w \in saved /\ task'.wave = w
             \/ /\ task'.step = "text" /\ task'.as = "stalled" /\ session[w].finals >= MaxFinalize
                /\ task'.wave = w
             \/ task'.step = "final"
      BY <1>0, <1>1, TaskShapes DEF ContinueFinished, ContinueFinal, Finished, Over, Steps
    <2>2. \A v \in Waves : Records(v)
      <3> SUFFICES ASSUME NEW v \in Waves PROVE Records(v)
        OBVIOUS
      <3>1. (Unsent(v)' => Unsent(v)) /\ session'[v].finals = session[v].finals
        BY <2>1 DEF Unsent
      <3>2. Closing(v, "saved")' => Closing(v, "saved") \/ v \in saved
        BY <2>1 DEF Closing
      <3>3. Closing(v, "stalled")' => Closing(v, "stalled") \/ session'[v].finals >= MaxFinalize
        BY <2>1 DEF Closing
      <3>4. (FinalsSpent(v)' > 0 => FinalsSpent(v) > 0) /\ (RetryMark(v)' => RetryMark(v))
        BY <1>0, <2>1 DEF FinalsSpent, RetryMark, RetrySpent, Active
      <3> QED BY <1>0, <3>1, <3>2, <3>3, <3>4 DEF Records
    <2> QED BY <1>a, <2>2, EarnedStep
  <1>2. CASE ContinueExhausted(w)
    <2>1. /\ session'[w].status = "deferred_failed" /\ session'[w].finals = session[w].finals
          /\ session'[w].retrySent = session[w].retrySent
          /\ task' = NoTask /\ session[w].retrySent
          /\ \A v \in Waves \ {w} : session'[v] = session[v]
      BY <1>0, <1>2, ExhaustedWrites DEF Writes, SessionIs, ContinueExhausted
    <2>2. \A d \in Active' : d \in Active /\ chat'[d] = chat[d]
      BY <1>2 DEF ContinueExhausted, Dropped, Active, Typed, ChatsTyped
    <2>3. \A v \in Waves : Records(v)
      BY <1>0, <2>1, <2>2 DEF Records, Unsent, Closing, FinalsSpent, RetryMark, RetrySpent
    <2> QED BY <1>a, <2>3, EarnedStep
  <1>3. CASE ContinueStalled(w)
    <2>1. /\ session'[w].status \in {"running", "deferred"} /\ session'[w].finals = session[w].finals
          /\ session'[w].retrySent = session[w].retrySent
          /\ \A v \in Waves \ {w} : session'[v] = session[v]
      BY <1>0, <1>3, StalledWrites DEF Writes, SessionIs
    <2>2. chat' = chat /\ (task'.step = "continue" \/ (task'.step = "text" /\ task'.as = "deferred"))
      BY <1>0, <1>3, TaskShapes DEF ContinueStalled, Over, Steps
    <2>3. \A v \in Waves : Records(v)
      BY <1>0, <2>1, <2>2 DEF Records, Unsent, Closing, FinalsSpent, RetryMark, RetrySpent, Active
    <2> QED BY <1>a, <2>3, EarnedStep
  <1>4. CASE FinishGroup(c)
    <2>1. /\ \A v \in chat[c].group : /\ session'[v].status = IF Finished(v) THEN "saved" ELSE "deferred_failed"
                                      /\ session'[v].finals = session[v].finals
          /\ \A v \in Waves \ chat[c].group : session'[v] = session[v]
      BY <1>4, GroupWrites DEF SessionIs
    <2>2. task' = NoTask
      BY <1>4 DEF FinishGroup
    <2>3. \A d \in Active' : d \in Active /\ chat'[d] = chat[d]
      BY <1>4 DEF FinishGroup, Dropped, Active, Typed, ChatsTyped
    <2>4. ASSUME NEW v \in chat[c].group PROVE Records(v)
      <3>1. RetryMark(v)
        BY <1>0 DEF RetryMark
      <3>2. session'[v].status # "none" /\ session'[v].status # "stalled"
            /\ (session'[v].status = "saved" => v \in saved)
        BY <2>1 DEF Finished
      <3> QED BY <1>0, <2>1, <2>2, <3>1, <3>2 DEF Records, Unsent, Closing, FinalsSpent
    <2>5. ASSUME NEW v \in Waves \ chat[c].group PROVE Records(v)
      BY <1>0, <2>1, <2>2, <2>3 DEF Records, Unsent, Closing, FinalsSpent, RetryMark, RetrySpent
    <2> QED BY <1>a, <2>4, <2>5, EarnedStep
  <1>5. CASE /\ session' = [session EXCEPT ![w].settle = Fingerprint(w)]
             /\ task' = task /\ chat' = chat
    <2>1. /\ session'[w].finals = session[w].finals /\ session'[w].status = session[w].status
          /\ session'[w].retrySent = session[w].retrySent
          /\ \A v \in Waves \ {w} : session'[v] = session[v]
      BY <1>0, <1>5, SettleWrites DEF Writes, SessionIs
    <2>2. \A v \in Waves : Records(v)
      BY <1>0, <1>5, <2>1 DEF Records, Unsent, Closing, FinalsSpent, RetryMark, RetrySpent, Active
    <2> QED BY <1>a, <2>2, EarnedStep
  <1> QED BY <1>w, <1>1, <1>2, <1>3, <1>4, <1>5, PollOutcomes DEF ContinueWave

\* It holds after every step
LEMMA EarnedNext ==
  ASSUME Typed, Ordered, Earned, [Next]_vars
  PROVE  Earned'
  <1>1. CASE Agents \/ AdoptReceipt \/ Cancel \/ Crash \/ Rest \/ UNCHANGED vars
    <2>1. session' = session /\ (task' = task \/ task' = NoTask)
      BY <1>1 DEF Agents, Register, SaveResult, CompletePrice, Deliver, ChatStops,
                  AdoptReceipt, Cancel, Crash, Restart, Rest, vars, recordVars
    <2>2. status' = "processing" => status = "processing" /\ lines' = lines
      BY <1>1 DEF Agents, Register, SaveResult, CompletePrice, Deliver, ChatStops,
                  AdoptReceipt, Cancel, Crash, Restart, Rest, vars, recordVars
    <2>3. \A c \in Active' : c \in Active /\ chat'[c] = chat[c]
      BY <1>1 DEF Agents, Register, SaveResult, CompletePrice, Deliver, ChatStops,
                  AdoptReceipt, Cancel, Crash, Restart, Rest, vars, Active
    <2> QED BY <2>1, <2>2, <2>3, EarnedSame
  <1> QED BY <1>1, EarnedTask, EarnedLoop, EarnedPoll DEF Next

\* ... and at first.
LEMMA EarnedInit ==
  ASSUME Init
  PROVE  Earned
  <1>1. /\ NewSession.status = "running" /\ NewSession.finals = 0 /\ ~NewSession.retrySent
        /\ NoSession.status = "none" /\ NoSession.finals = 0 /\ ~NoSession.retrySent
    BY DEF NewSession, NoSession
  <1>2. \A w \in Waves : /\ session[w].status \in {"none", "running"} /\ session[w].finals = 0
                         /\ ~session[w].retrySent /\ (w \notin lines => session[w].status = "running")
    BY <1>1 DEF Init
  <1>3. \A c \in Active : chat[c].group = {}
    BY DEF Init, Active, NoChat
  <1> QED BY <1>2, <1>3, NoTaskShape DEF Init, Earned, Unsent, Closing, FinalsSpent, RetryMark, RetrySpent

-----------------------------------------------------------------------------
(* The job is given up *)

\* What the retries are built from is what they are built from.
LEMMA SameRetries ==
  ASSUME UNCHANGED <<session, done, registered>>
  PROVE  /\ \A w \in Waves : Incomplete(w)' = Incomplete(w)
         /\ Unretried' = Unretried /\ WithinLimit' = WithinLimit
  <1>1. \A w : Incomplete(w)' = Incomplete(w)
    BY DEF Incomplete, Keys
  <1>2. \A w : RetryKeys(w)' = RetryKeys(w)
    BY <1>1 DEF RetryKeys
  <1>3. Unretried' = Unretried
    BY <1>1 DEF Unretried
  <1>4. RetryGroup' = RetryGroup
    BY <1>2, <1>3 DEF RetryGroup
  <1>5. RetryLoad' = RetryLoad
    BY <1>2, <1>4 DEF RetryLoad
  <1> QED BY <1>1, <1>3, <1>5 DEF WithinLimit

\* A job that has failed stays as it is.
LEMMA FailedRests ==
  ASSUME Typed, Ordered, [Next]_vars, status = "failed"
  PROVE  UNCHANGED <<session, done, registered, saved>>
  <1>1. task = NoTask /\ task.step = "none" /\ phase = "attach" /\ Active = {}
    BY NoTaskShape DEF Ordered, LoopPlaces
  <1>2. ~TaskStep
    BY <1>1 DEF TaskStep, AdvanceEnds, AdvanceText, AdvanceMark, RecordSession, PurgeText, OpenText,
           ContinuePrompt, FinalPrompt, FinalCount, RetryPrompt, RetryRecord
  <1>3. ~Loop
    BY <1>1 DEF Loop, Attach, CreateMissing, OpenNext, OpenDone, SettleRetry, SettleFail, SettleOverLimit,
             SettleNothing, StopTerminal, PollDraft, PollNothing, Settling, Polled
  <1>4. \A c \in Convs : ~PollEnds(c)
    BY PollOutcomes
  <1>5. CASE Agents
    BY <1>5 DEF Agents, Register, SaveResult, CompletePrice, Deliver, ChatStops, Told,
           recordVars, backendVars
  <1>6. CASE AdoptReceipt \/ Cancel \/ Crash \/ Rest \/ UNCHANGED vars
    BY <1>6 DEF AdoptReceipt, Cancel, Crash, Rest, vars, recordVars, backendVars
  <1> QED BY <1>2, <1>3, <1>4, <1>5, <1>6 DEF Next

\* The two ways to give the job up.
LEMMA GivenUp ==
  ASSUME IInv, Typed, Ordered, Earned, SettleFail \/ SettleOverLimit, status' = "failed"
  PROVE  FailureIsEarned'
  <1>1. /\ status = "processing" /\ lines = {} /\ Running = {}
        /\ Unretried = {} \/ ~WithinLimit
        /\ UNCHANGED <<session, done, registered, saved, asked>>
    BY DEF SettleFail, SettleOverLimit, Quiet, backendVars, desktopVars
  <1>2. /\ \A w \in Waves : Incomplete(w)' = Incomplete(w)
        /\ Unretried' = Unretried /\ WithinLimit' = WithinLimit
    BY <1>1, SameRetries
  <1>3. ASSUME NEW w \in Waves \ saved
        PROVE  /\ asked[w].text > 0
               /\ \/ asked[w].retry > 0 \/ asked[w].final > 0 \/ Incomplete(w) = {}
                  \/ w \in Unretried /\ ~WithinLimit
    <2>1. asked[w].text > 0
      BY <1>1 DEF IInv, NoTextLost
    <2>2. /\ ~Unsent(w) /\ session[w].status # "saved" /\ session[w].status # "running"
      BY <1>1, <1>3 DEF Earned, Closing, Running
    <2>3. session[w].status \in {"stalled", "deferred", "deferred_failed"}
      BY <2>2, SessionOf DEF Typed, SessionStatus, Unsent
    <2>4. CASE session[w].status = "stalled"
      <3>1. session[w].finals >= MaxFinalize /\ session[w].finals \in Nat /\ MaxFinalize \in Nat \ {0}
        BY <2>4, SessionOf, WavesAssumption DEF Typed, Earned, Closing
      <3>2. FinalsSpent(w) > 0
        BY <3>1 DEF FinalsSpent
      <3> QED BY <2>1, <3>2 DEF Earned
    <2>5. CASE session[w].status = "deferred_failed"
      BY <2>1, <2>5 DEF Earned, RetryMark
    <2>6. CASE session[w].status = "deferred"
      <3>1. CASE session[w].retrySent
        BY <2>1, <3>1 DEF Earned, RetryMark, RetrySpent
      <3>2. CASE ~session[w].retrySent /\ Incomplete(w) # {}
        <4>1. w \in Unretried
          BY <2>6, <3>2 DEF Unretried
        <4> QED BY <1>1, <2>1, <4>1
      <3> QED BY <2>1, <3>1, <3>2
    <2> QED BY <2>3, <2>4, <2>5, <2>6
  <1> QED BY <1>1, <1>2, <1>3 DEF FailureIsEarned

\* A failure is earned when it is written, and stays so.
LEMMA FailureNext ==
  ASSUME IInv, Typed, Ordered, Earned, FailureIsEarned, [Next]_vars
  PROVE  FailureIsEarned'
  <1>1. CASE status' # "failed"
    BY <1>1 DEF FailureIsEarned
  <1>2. CASE status = "failed"
    <2>1. UNCHANGED <<session, done, registered, saved>>
      BY <1>2, FailedRests
    <2>2. /\ \A w \in Waves : Incomplete(w)' = Incomplete(w)
          /\ Unretried' = Unretried /\ WithinLimit' = WithinLimit
      BY <2>1, SameRetries
    <2>3. \A w \in Waves : /\ asked[w].text > 0 => asked'[w].text > 0
                           /\ asked[w].final > 0 => asked'[w].final > 0
                           /\ asked[w].retry > 0 => asked'[w].retry > 0
      BY AskedGrows
    <2> QED BY <1>2, <2>1, <2>2, <2>3 DEF FailureIsEarned
  <1>3. CASE status # "failed" /\ status' = "failed"
    <2>1. CASE TaskStep
      BY <1>3, <2>1 DEF TaskStep, AdvanceEnds, AdvanceText, AdvanceMark, RecordSession, PurgeText,
           OpenText, ContinuePrompt, FinalPrompt, FinalCount, RetryPrompt, RetryRecord,
           Submit, SubmitInNewChat, FlushDraft, recordVars
    <2>2. CASE Loop /\ ~SettleFail /\ ~SettleOverLimit
      BY <1>3, <2>2 DEF Loop, Attach, CreateMissing, OpenNext, OpenDone, SettleRetry,
           SettleNothing, StopTerminal, PollDraft, PollNothing, FlushDraft, recordVars
    <2>3. ASSUME NEW c \in Convs, PollEnds(c) PROVE FALSE
      BY <1>3, <2>3, PollOutcomes
    <2>4. CASE Agents \/ AdoptReceipt \/ Cancel \/ Crash \/ Rest \/ UNCHANGED vars
      BY <1>3, <2>4 DEF Agents, Register, SaveResult, CompletePrice, Deliver, ChatStops,
           AdoptReceipt, Cancel, Crash, Rest, vars, recordVars
    <2> QED BY <1>3, <2>1, <2>2, <2>3, <2>4, GivenUp DEF Next
  <1> QED BY <1>1, <1>2, <1>3

\* FailureIsEarned: settle_programmatic_delivery and
\* fail_completed_deferred_delivery give the job up only after every wave was
\* sent and each unsealed one was asked for again, is priced, or is part of a
\* retry that is too large to send.
THEOREM FailureIsEarnedHolds == Spec => []FailureIsEarned
  <1> DEFINE Inv == IInv /\ Typed /\ Ordered /\ Earned /\ FailureIsEarned
  <1>1. Init => Inv
    <2>1. Init => FailureIsEarned
      BY DEF Init, FailureIsEarned
    <2> QED BY <2>1, InitKeeps, TypedInit, OrderedInit, EarnedInit
  <1>2. Inv /\ [Next]_vars => Inv'
    BY NextKeeps, TypedNext, OrderedNext, EarnedNext, FailureNext
  <1>3. Inv => FailureIsEarned
    OBVIOUS
  <1> HIDE DEF Inv
  <1> QED BY <1>1, <1>2, <1>3, PTL DEF Spec

-----------------------------------------------------------------------------
(* Continuations *)

\* Numbered lines that are on the list or done.
Seen(w) == (session[w].deferred \union done[w]) \intersect (1..Roots[w])

\* Continuations of wave w, with the one that is about to go out.
Onward(w) ==
  Reached("continue", w) + (IF task.step = "continue" /\ task.wave = w THEN 1 ELSE 0)

Count == \A w \in Waves :
  Children[w] <= 1 =>
    Onward(w) <= Cardinality(Seen(w)) /\ Onward(w) < Cardinality(Keys(w))

\* The sets that are counted are finite.
LEMMA SeenFinite ==
  ASSUME NEW w \in Waves
  PROVE  /\ IsFiniteSet(Seen(w)) /\ Cardinality(Seen(w)) \in Nat
         /\ IsFiniteSet(Seen(w)') /\ Cardinality(Seen(w)') \in Nat
         /\ IsFiniteSet(Keys(w)) /\ Cardinality(Keys(w)) \in Nat
         /\ IsFiniteSet(Keys(w)') /\ Cardinality(Keys(w)') \in Nat
  <1>1. /\ \A n \in Nat : IsFiniteSet(1..n) /\ Cardinality(1..n) \in Nat
    BY FS_Interval, FS_CardinalityType
  <1>2. Roots[w] \in Nat /\ Children[w] \in Nat
    BY WaveFacts
  <1>3. IsFiniteSet(Keys(w)) /\ IsFiniteSet(Keys(w)')
    <2>1. (\E n \in Nat : Keys(w) = 1..n) /\ \E n \in Nat : Keys(w)' = 1..n
      <3>1. Roots[w] + Children[w] \in Nat /\ Roots[w] + 0 \in Nat
        BY <1>2
      <3>2. /\ Keys(w) = 1..(Roots[w] + Children[w]) \/ Keys(w) = 1..(Roots[w] + 0)
            /\ Keys(w)' = 1..(Roots[w] + Children[w]) \/ Keys(w)' = 1..(Roots[w] + 0)
        BY DEF Keys
      <3> QED BY <3>1, <3>2
    <2> QED BY <1>1, <2>1
  <1>4. Seen(w) \subseteq 1..Roots[w] /\ Seen(w)' \subseteq 1..Roots[w]
    BY DEF Seen
  <1>5. IsFiniteSet(Seen(w)) /\ IsFiniteSet(Seen(w)')
    BY <1>1, <1>2, <1>4, FS_Subset
  <1> QED BY <1>3, <1>5, FS_CardinalityType

\* The counts are numbers.
LEMMA OnwardTyped ==
  ASSUME Typed, NEW w \in Waves
  PROVE  Onward(w) \in Nat /\ Reached("continue", w) \in Nat
  BY ToldTyped DEF Onward, Kinds

\* What a step may tell a chat.
LEMMA Telling ==
  ASSUME Typed, [Next]_vars
  PROVE  \E p : /\ ToldOnce(p)
                /\ p.kind = "continue" =>
                     task.step = "continue" /\ p.waves = {task.wave} /\ task' = NoTask
  <1>0. NoDraft.kind = "none"
    BY DEF NoDraft
  <1>1. CASE UNCHANGED <<asked, draft>>
    <2>1. \A w \in Waves, kind \in Kinds : Reached(kind, w)' = Reached(kind, w)
      BY <1>1 DEF Reached, Hits
    <2>2. \A w \in Waves, kind \in Kinds : Reached(kind, w) \in Nat /\ Hits(NoDraft, kind, w) = 0
      BY ToldTyped, NoHits
    <2>3. ToldOnce(NoDraft)
      BY <2>1, <2>2 DEF ToldOnce
    <2> QED BY <1>0, <2>3
  <1>2. CASE draft # NoDraft /\ Hear(draft) /\ draft' = NoDraft
    BY <1>0, <1>2, FlushTold
  <1>3. CASE ContinuePrompt
    <2>0. task.wave \in Waves
      BY <1>3, TaskOf DEF ContinuePrompt, Typed
    <2> DEFINE p == Prompt("continue", {task.wave})
    <2>1. p.kind = "continue" /\ p.waves = {task.wave} /\ p.kind \in Kinds
      BY <2>0, PromptTyped DEF Kinds
    <2> HIDE DEF p
    <2>2. Submit(p, NoTask) /\ task.step = "continue"
      BY <1>3 DEF ContinuePrompt, p
    <2>3. task' = NoTask /\ (ToldOnce(p) \/ ToldOnce(NoDraft))
      BY <2>1, <2>2, SubmitTold
    <2> QED BY <1>0, <2>1, <2>2, <2>3
  <1>4. ASSUME NEW p, p.kind \in Kinds \ {"continue"}, NEW next, Submit(p, next) \/ SubmitInNewChat(p, next)
        PROVE  \E q : ToldOnce(q) /\ q.kind # "continue"
    <2>1. ToldOnce(p) \/ ToldOnce(NoDraft)
      BY <1>4, SubmitTold
    <2> QED BY <1>0, <1>4, <2>1
  <1>5. CASE AdvanceText \/ OpenText \/ FinalPrompt \/ RetryPrompt
    <2>1. \A ws : /\ Prompt("text", ws).kind \in Kinds \ {"continue"}
                  /\ Prompt("final", ws).kind \in Kinds \ {"continue"}
                  /\ Prompt("retry", ws).kind \in Kinds \ {"continue"}
      BY DEF Prompt, Kinds
    <2>2. \E q : ToldOnce(q) /\ q.kind # "continue"
      BY <1>4, <1>5, <2>1 DEF AdvanceText, OpenText, FinalPrompt, RetryPrompt
    <2> QED BY <2>2
  <1>6. CASE AdvanceEnds \/ AdvanceMark \/ RecordSession \/ PurgeText \/ FinalCount \/ RetryRecord
    BY <1>1, <1>6 DEF AdvanceEnds, AdvanceMark, RecordSession, PurgeText, FinalCount, RetryRecord, desktopVars
  <1>7. CASE Loop
    BY <1>1, <1>2, <1>7 DEF Loop, Attach, CreateMissing, OpenNext, OpenDone, SettleRetry, SettleFail,
           SettleOverLimit, SettleNothing, StopTerminal, PollDraft, PollNothing, FlushDraft, desktopVars
  <1>8. ASSUME NEW c \in Convs, PollEnds(c) PROVE UNCHANGED <<asked, draft>>
    BY <1>8, PollOutcomes
  <1>9. CASE Agents \/ AdoptReceipt \/ Cancel \/ Crash \/ Rest \/ UNCHANGED vars
    BY <1>1, <1>9 DEF Agents, Register, SaveResult, CompletePrice, Deliver, ChatStops,
                AdoptReceipt, Cancel, Crash, Rest, vars, desktopVars
  <1> QED BY <1>1, <1>3, <1>5, <1>6, <1>7, <1>8, <1>9 DEF Next, TaskStep

\* A function that asks a chat to go on starts in continue_component_batch.
LEMMA GoingOn ==
  ASSUME Typed, Ordered, [Next]_vars, task'.step = "continue", task' # task
  PROVE  \E c \in Convs : PollEnds(c) /\ ContinueStalled(chat[c].wave)
  <1>0. NoTask.step = "none" /\ Waves \subseteq Nat
    BY NoTaskShape, WaveFacts
  <1>1. ~TaskStep
    <2>1. CASE AdvanceEnds \/ PurgeText \/ FinalCount \/ RetryRecord
      BY <1>0, <2>1 DEF AdvanceEnds, PurgeText, FinalCount, RetryRecord, TaskDone, Then
    <2>2. CASE AdvanceMark
      BY <2>2, TaskShapes DEF AdvanceMark, Typed, TaskTyped, GoodTask, Steps
    <2>3. CASE RecordSession \/ AdvanceText \/ OpenText \/ ContinuePrompt \/ FinalPrompt \/ RetryPrompt
      <3>1. \/ task' = NoTask
            \/ \E step \in {"purge", "mark", "record", "count", "retried"} :
                 task' = [task EXCEPT !.step = step]
        BY <2>3 DEF RecordSession, AdvanceText, OpenText, ContinuePrompt, FinalPrompt, RetryPrompt,
             Submit, SubmitInNewChat, FlushDraft, Abandon, Restart, Then
      <3> QED BY <1>0, <3>1 DEF Typed, TaskTyped, GoodTask, Tasking
    <2> QED BY <2>1, <2>2, <2>3 DEF TaskStep
  <1>2. ~Loop
    <2>1. CASE OpenNext
      <3>1. Recoverable \subseteq Waves /\ Openable \subseteq Waves
        BY DEF Recoverable, Openable, Typed, RestTyped
      <3>2. \A n, st : Advance(n, st).step = "text" /\ Task("open", n).step = "open"
        BY DEF Advance, Task, NoTask
      <3> QED BY <2>1, <3>2 DEF OpenNext
    <2>2. CASE Loop /\ ~OpenNext
      <3>1. task' = task \/ task' = NoTask \/ task'.step = "retry"
        BY <2>2 DEF Loop, Attach, CreateMissing, OpenDone, SettleRetry, SettleFail, SettleOverLimit,
             SettleNothing, StopTerminal, PollDraft, PollNothing, FlushDraft, Abandon, Restart, Goto,
             loopVars, Task, NoTask
      <3> QED BY <1>0, <3>1
    <2> QED BY <2>1, <2>2
  <1>3. ASSUME NEW c \in Convs, PollEnds(c) PROVE ContinueStalled(chat[c].wave)
    <2>1. PICK w : w = chat[c].wave
      OBVIOUS
    <2>2. w \in Waves
      BY <1>3, <2>1, PollOutcomes
    <2>3. ~FinishGroup(c) /\ task' # task
      BY <1>0 DEF FinishGroup
    <2>4. ContinueWave(w)
      BY <1>3, <2>1, <2>3, PollOutcomes
    <2>5. ~ContinueFinished(w) /\ ~ContinueFinal(w) /\ ~ContinueExhausted(w)
      BY <1>0, <2>2, TaskShapes DEF ContinueFinished, ContinueFinal, ContinueExhausted, Over, Steps
    <2> QED BY <2>1, <2>4, <2>5 DEF ContinueWave
  <1>4. CASE Agents \/ AdoptReceipt \/ Cancel \/ Crash \/ Rest \/ UNCHANGED vars
    BY <1>0, <1>4 DEF Agents, Register, SaveResult, CompletePrice, Deliver, ChatStops,
                AdoptReceipt, Cancel, Crash, Restart, Rest, vars
  <1> QED BY <1>1, <1>2, <1>3, <1>4 DEF Next

\* No step but that of GoingOn adds a continuation.
LEMMA OnwardFalls ==
  ASSUME Typed, [Next]_vars, task'.step # "continue" \/ task' = task, NEW w \in Waves
  PROVE  Onward(w)' \in Nat /\ Onward(w)' <= Onward(w)
  <1>1. PICK p : /\ ToldOnce(p)
                 /\ p.kind = "continue" =>
                      task.step = "continue" /\ p.waves = {task.wave} /\ task' = NoTask
    BY Telling
  <1>2. /\ Reached("continue", w)' \in Nat /\ Reached("continue", w) \in Nat
        /\ Reached("continue", w)' <= Reached("continue", w) + Hits(p, "continue", w)
    BY <1>1, ToldEach, OnwardTyped
  <1>3. NoTask.step = "none"
    BY NoTaskShape
  <1>4. CASE p.kind = "continue" /\ w \in p.waves
    <2>1. task.step = "continue" /\ task.wave = w /\ task'.step = "none"
      BY <1>1, <1>3, <1>4
    <2>2. Hits(p, "continue", w) = 1
      BY <1>4 DEF Hits
    <2> QED BY <1>2, <2>1, <2>2 DEF Onward
  <1>5. CASE ~(p.kind = "continue" /\ w \in p.waves)
    <2>1. Hits(p, "continue", w) = 0
      BY <1>5 DEF Hits
    <2> QED BY <1>2, <2>1 DEF Onward
  <1> QED BY <1>4, <1>5

\* No wave loses a line from its list that is not done.
LEMMA SeenGrows ==
  ASSUME Typed, Ordered, [Next]_vars, NEW w \in Waves
  PROVE  Seen(w) \subseteq Seen(w)'
  <1>1. done[w] \subseteq done'[w]
    BY DoneGrows
  <1>2. SUFFICES (session[w].deferred \intersect (1..Roots[w])) \ done[w] \subseteq session'[w].deferred
    BY <1>1 DEF Seen
  <1>3. CASE session'[w].deferred = session[w].deferred
    BY <1>3
  <1>4. 1..Roots[w] \subseteq Keys(w)
    BY WaveFacts DEF Keys
  <1>5. Incomplete(w) \intersect (1..Roots[w]) = (1..Roots[w]) \ done[w]
    BY <1>4 DEF Incomplete
  <1>6. CASE TaskStep
    <2>1. CASE AdvanceEnds \/ AdvanceMark
      BY <1>3, <2>1, EndWrites DEF Writes, SessionIs
    <2>2. CASE RecordSession
      <3>1. CASE w = task.wave
        BY <1>6, <2>2, <3>1 DEF RecordSession, Ordered, TaskOrder, WaveOrder
      <3> QED BY <1>3, <2>2, <3>1, RecordWrites DEF Writes
    <2>3. CASE FinalCount
      BY <1>3, <2>3, CountWrites DEF Writes, SessionIs
    <2>4. CASE RetryRecord
      BY <1>3, <1>5, <2>4, RetryWrites DEF SessionIs
    <2>5. CASE PurgeText \/ AdvanceText \/ OpenText \/ ContinuePrompt \/ FinalPrompt \/ RetryPrompt
      BY <1>3, <2>5 DEF PurgeText, AdvanceText, OpenText, ContinuePrompt, FinalPrompt, RetryPrompt,
           Submit, SubmitInNewChat, FlushDraft, recordVars
    <2> QED BY <1>6, <2>1, <2>2, <2>3, <2>4, <2>5 DEF TaskStep
  <1>7. CASE Loop
    BY <1>3, <1>7 DEF Loop, Attach, CreateMissing, OpenNext, OpenDone, SettleRetry, SettleFail,
           SettleOverLimit, SettleNothing, StopTerminal, PollDraft, PollNothing, FlushDraft, recordVars
  <1>8. ASSUME NEW c \in Convs, PollEnds(c)
        PROVE  (session[w].deferred \intersect (1..Roots[w])) \ done[w] \subseteq session'[w].deferred
    <2>1. PICK v : v = chat[c].wave
      OBVIOUS
    <2>2. v \in Waves
      BY <1>8, <2>1, PollOutcomes
    <2>3. CASE ContinueFinished(v) \/ ContinueFinal(v)
      BY <1>3, <2>3 DEF ContinueFinished, ContinueFinal
    <2>4. CASE ContinueExhausted(v)
      BY <1>3, <1>5, <2>2, <2>4, ExhaustedWrites DEF Writes, SessionIs
    <2>5. CASE ContinueStalled(v)
      <3>1. \A u \in Waves \ {v} : session'[u] = session[u]
        BY <2>2, <2>5, StalledWrites DEF Writes
      <3>2. OwnDeferred(v) \subseteq session'[v].deferred
        BY <2>2, <2>5, StalledWrites DEF Writes, SessionIs
      <3> QED BY <1>3, <1>5, <3>1, <3>2 DEF OwnDeferred
    <2>6. CASE FinishGroup(c)
      BY <1>3, <1>8, <2>6, GroupWrites DEF SessionIs
    <2>7. CASE session' = [session EXCEPT ![v].settle = Fingerprint(v)]
      BY <1>3, <2>2, <2>7, SettleWrites DEF Writes, SessionIs
    <2> QED BY <1>8, <2>1, <2>3, <2>4, <2>5, <2>6, <2>7, PollOutcomes DEF ContinueWave
  <1>9. CASE Agents \/ AdoptReceipt \/ Cancel \/ Crash \/ Rest \/ UNCHANGED vars
    BY <1>3, <1>9 DEF Agents, Register, SaveResult, CompletePrice, Deliver, ChatStops,
                AdoptReceipt, Cancel, Crash, Rest, vars, recordVars
  <1> QED BY <1>6, <1>7, <1>8, <1>9 DEF Next

\* No component goes away.
LEMMA KeysStay ==
  ASSUME Typed, [Next]_vars, NEW w \in Waves
  PROVE  Keys(w) \subseteq Keys(w)' /\ Cardinality(Keys(w)) <= Cardinality(Keys(w)')
  <1>1. registered \subseteq registered'
    <2>1. CASE Agents
      BY <2>1 DEF Agents, Register, SaveResult, CompletePrice, Deliver, ChatStops, backendVars
    <2>2. CASE TaskStep
      BY <2>2 DEF TaskStep, AdvanceEnds, AdvanceMark, RecordSession, PurgeText, FinalCount, RetryRecord,
             AdvanceText, OpenText, ContinuePrompt, FinalPrompt, RetryPrompt,
             Submit, SubmitInNewChat, FlushDraft, backendVars
    <2>3. CASE Loop
      BY <2>3 DEF Loop, Attach, CreateMissing, OpenNext, OpenDone, SettleRetry, SettleFail,
             SettleOverLimit, SettleNothing, StopTerminal, PollDraft, PollNothing, FlushDraft, backendVars
    <2>4. ASSUME NEW c \in Convs, PollEnds(c) PROVE UNCHANGED registered
      BY <2>4, PollOutcomes DEF backendVars
    <2>5. CASE AdoptReceipt \/ Cancel \/ Crash \/ Rest \/ UNCHANGED vars
      BY <2>5 DEF AdoptReceipt, Cancel, Crash, Rest, vars, backendVars
    <2> QED BY <2>1, <2>2, <2>3, <2>4, <2>5 DEF Next
  <1>2. Keys(w) \subseteq Keys(w)'
    BY <1>1, KeysGrow
  <1> QED BY <1>2, SeenFinite, FS_Subset

\* A wave that is told nothing new.
LEMMA CountKept ==
  ASSUME Typed, Ordered, [Next]_vars, NEW w \in Waves,
         Onward(w) <= Cardinality(Seen(w)) /\ Onward(w) < Cardinality(Keys(w)),
         Onward(w)' \in Nat, Onward(w)' <= Onward(w)
  PROVE  Onward(w)' <= Cardinality(Seen(w)') /\ Onward(w)' < Cardinality(Keys(w)')
  <1>1. Cardinality(Seen(w)) <= Cardinality(Seen(w)')
    BY SeenGrows, SeenFinite, FS_Subset
  <1>2. Cardinality(Keys(w)) <= Cardinality(Keys(w)')
    BY KeysStay
  <1>3. /\ Cardinality(Seen(w)) \in Nat /\ Cardinality(Keys(w)) \in Nat /\ Onward(w) \in Nat
        /\ Cardinality(Seen(w)') \in Nat /\ Cardinality(Keys(w)') \in Nat
    BY SeenFinite, OnwardTyped
  <1> QED BY <1>1, <1>2, <1>3

\* The component that stalled is a numbered line, if another one is left to go
\* on with: of those that are not numbered there is one at most, the last.
LEMMA StalledIsNumbered ==
  ASSUME NEW w \in Waves, Children[w] <= 1,
         NEW k \in Incomplete(w) \ OwnDeferred(w), NEW j \in Incomplete(w) \ OwnDeferred(w), k <= j, j # k
  PROVE  k \in 1..Roots[w]
  <1>1. Roots[w] \in Nat \ {0} /\ Children[w] \in Nat
    BY WaveFacts
  <1>2. /\ k \in 1..(Roots[w] + Children[w]) \/ k \in 1..(Roots[w] + 0)
        /\ j \in 1..(Roots[w] + Children[w]) \/ j \in 1..(Roots[w] + 0)
    BY DEF Incomplete, Keys
  <1>3. k \in Nat /\ j \in Nat /\ 1 <= k /\ j <= Roots[w] + 1
    BY <1>1, <1>2
  <1> QED BY <1>1, <1>3

\* A continuation adds its component to the list, and leaves another one.
LEMMA CountGoesOn ==
  ASSUME Typed, Ordered, Count, NEW c \in Convs, PollEnds(c), ContinueStalled(chat[c].wave),
         task'.step = "continue"
  PROVE  Count'
  <1>w. PICK w : w = chat[c].wave
    OBVIOUS
  <1>a. [Next]_vars
    BY DEF Next
  <1>0. /\ w \in Waves /\ task.step = "none" /\ UNCHANGED <<registered, done, draft, asked>>
    BY <1>w, PollOutcomes, NoTaskShape DEF backendVars
  <1> DEFINE fresh == Incomplete(w) \ OwnDeferred(w)
  <1>1. PICK stalled \in SUBSET fresh :
          /\ fresh # {} => \E k \in fresh : stalled = {k} /\ \A j \in fresh : k <= j
          /\ Writes(w, IF fresh # stalled THEN "running" ELSE "deferred", OwnDeferred(w) \union stalled,
                    session[w].retrySent, session[w].finals)
          /\ task' = IF fresh # stalled THEN Task("continue", w) ELSE Advance(w, "deferred")
    BY <1>w, <1>0, StalledWrites
  <1>2. fresh # stalled /\ task'.wave = w
    BY <1>0, <1>1, TaskShapes DEF Over, Steps
  <1>3. PICK k \in fresh : stalled = {k} /\ \A j \in fresh : k <= j
    BY <1>1, <1>2
  <1>4. PICK j \in fresh : j # k
    BY <1>2, <1>3
  <1>5. \A v \in Waves : Reached("continue", v)' = Reached("continue", v)
    BY <1>0 DEF Reached, Hits
  <1>6. ASSUME NEW v \in Waves, v # w
        PROVE  Onward(v)' \in Nat /\ Onward(v)' <= Onward(v)
    BY <1>0, <1>2, <1>5, <1>6, OnwardTyped DEF Onward
  <1>7. Onward(w)' = Onward(w) + 1 /\ Onward(w) \in Nat
    BY <1>0, <1>2, <1>5, OnwardTyped DEF Onward
  <1>8. ASSUME Children[w] <= 1
        PROVE  Onward(w)' <= Cardinality(Seen(w)') /\ Onward(w)' < Cardinality(Keys(w)')
    <2>1. k \in 1..Roots[w] /\ j \in Keys(w)
      BY <1>0, <1>3, <1>4, <1>8, StalledIsNumbered DEF Incomplete
    <2>2. session'[w].deferred = OwnDeferred(w) \union {k}
      BY <1>1, <1>3 DEF Writes, SessionIs
    <2>3. 1..Roots[w] \subseteq Keys(w)
      BY <1>0, WaveFacts DEF Keys
    <2>4. Seen(w)' = Seen(w) \union {k}
      BY <1>0, <2>1, <2>2, <2>3 DEF Seen, OwnDeferred, Incomplete
    <2>5. k \notin Seen(w)
      BY <2>1, <2>3 DEF Seen, OwnDeferred, Incomplete
    <2>6. j \notin Seen(w)'
      BY <1>4, <2>3, <2>4 DEF Seen, OwnDeferred, Incomplete
    <2>7. Cardinality(Seen(w)') = Cardinality(Seen(w)) + 1
      BY <1>0, <2>4, <2>5, SeenFinite, FS_AddElement
    <2>8. Seen(w)' \subseteq Keys(w) /\ Keys(w)' = Keys(w)
      BY <1>0, <2>3 DEF Seen, Keys
    <2>9. Cardinality(Seen(w)') <= Cardinality(Keys(w)) /\ Cardinality(Seen(w)') # Cardinality(Keys(w))
      BY <1>0, <2>1, <2>6, <2>8, SeenFinite, FS_Subset
    <2>10. /\ Cardinality(Seen(w)) \in Nat /\ Cardinality(Seen(w)') \in Nat
           /\ Cardinality(Keys(w)) \in Nat
      BY <1>0, SeenFinite
    <2>11. Onward(w) <= Cardinality(Seen(w))
      BY <1>0, <1>8 DEF Count
    <2>12. Cardinality(Keys(w)') = Cardinality(Keys(w))
      BY <2>8
    <2> QED BY <1>7, <2>7, <2>9, <2>10, <2>11, <2>12
  <1>9. ASSUME NEW v \in Waves, v # w, Children[v] <= 1
        PROVE  Onward(v)' <= Cardinality(Seen(v)') /\ Onward(v)' < Cardinality(Keys(v)')
    BY <1>a, <1>6, <1>9, CountKept DEF Count
  <1> QED BY <1>8, <1>9 DEF Count

\* The count holds after every step
LEMMA CountNext ==
  ASSUME Typed, Ordered, Count, [Next]_vars
  PROVE  Count'
  <1>1. CASE task'.step # "continue" \/ task' = task
    <2>1. ASSUME NEW v \in Waves, Children[v] <= 1
          PROVE  Onward(v)' <= Cardinality(Seen(v)') /\ Onward(v)' < Cardinality(Keys(v)')
      <3>1. Onward(v)' \in Nat /\ Onward(v)' <= Onward(v)
        BY <1>1, OnwardFalls
      <3> QED BY <2>1, <3>1, CountKept DEF Count
    <2> QED BY <2>1 DEF Count
  <1>2. CASE task'.step = "continue" /\ task' # task
    BY <1>2, GoingOn, CountGoesOn
  <1> QED BY <1>1, <1>2

\* ... and at first.
LEMMA CountInit ==
  ASSUME Init
  PROVE  Count
  <1> SUFFICES ASSUME NEW w \in Waves
               PROVE  Onward(w) <= Cardinality(Seen(w)) /\ Onward(w) < Cardinality(Keys(w))
    BY DEF Count
  <1>1. Onward(w) = 0
    BY NoTaskShape DEF Init, Onward, Reached, Hits, NoDraft
  <1>2. 1 \in Keys(w)
    BY WaveFacts DEF Keys
  <1>3. Cardinality(Keys(w)) # 0
    BY <1>2, SeenFinite, FS_EmptySet
  <1> QED BY <1>1, <1>3, SeenFinite

\* ContinuationsBounded: every continuation of continue_component_batch leaves
\* one more numbered line behind.
THEOREM ContinuationsAreBounded == Spec => []ContinuationsBounded
  <1> DEFINE Inv == Typed /\ Ordered /\ Count
  <1>1. Init => Inv
    BY TypedInit, OrderedInit, CountInit
  <1>2. Inv /\ [Next]_vars => Inv'
    BY TypedNext, OrderedNext, CountNext
  <1>3. Inv => ContinuationsBounded
    <2>1. ASSUME Inv, NEW w \in Waves, Children[w] <= 1
          PROVE  asked[w].continue < Cardinality(Keys(w))
      <3>1. Onward(w) < Cardinality(Keys(w))
        BY <2>1 DEF Count
      <3>2. asked[w].continue \in Nat
        BY <2>1, WavesAssumption DEF Typed, RestTyped, Prompts
      <3>3. Onward(w) = asked[w].continue + Hits(draft, "continue", w)
                        + (IF task.step = "continue" /\ task.wave = w THEN 1 ELSE 0)
        BY DEF Onward, Reached
      <3>4. Hits(draft, "continue", w) \in {0, 1} /\ Cardinality(Keys(w)) \in Nat
        BY NoHits, SeenFinite
      <3> QED BY <3>1, <3>2, <3>3, <3>4
    <2> QED BY <2>1 DEF ContinuationsBounded
  <1> HIDE DEF Inv
  <1> QED BY <1>1, <1>2, <1>3, PTL DEF Spec
=============================================================================
