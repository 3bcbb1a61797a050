----------------------------- MODULE ChatWaves ------------------------------
(***************************************************************************)
(* One numbered sales job in the hands of one desktop worker               *)
(* (tools/gpt_quote_relay_worker.py).  Its components arrive in waves, two *)
(* waves to a conversation.  The worker sends the first wave of each       *)
(* conversation, waits until the backend has the results or the chat stops *)
(* making progress, sends the second wave in the same conversation, and    *)
(* goes back to what it had to defer when every wave has been sent.        *)
(*                                                                         *)
(* The job starts as submit_job leaves it (RelayQueue): wave 0 is in its   *)
(* chat.  The chats' agents write prices and sealed results through the    *)
(* MCP server whenever they like, also after their turn has ended.  The    *)
(* writes of one worker function are separate steps where a crash, or a    *)
(* prompt the desktop does not confirm, may fall between them.             *)
(*                                                                         *)
(* Abstractions.  Components of a wave are numbers in the order the worker *)
(* takes them, the numbered lines (roots) first.  Time is left out: a      *)
(* deadline may pass at any poll, a settle window between any two polls    *)
(* that see the same state.  The order of the polls is left to fairness.   *)
(* Chat references and their promotion, sign-out, leases and other jobs    *)
(* are not here (see RelayQueue).                                          *)
(***************************************************************************)
EXTENDS Integers, FiniteSets, FiniteSetsExt

CONSTANTS
  NumWaves,        \* intake_batch_count
  Roots,           \* [Waves -> Nat]: numbered lines of the wave
  Children,        \* [Waves -> Nat]: components its agent splits off
  MaxPerJob,       \* max_active_chats_per_sales_job
  MaxFinalize,     \* max_continuations_without_progress
  GroupLimit,      \* max_deferred_components_per_retry
  MayCancel,       \* may sales withdraw the job?
  MaxCrashes,      \* bound on restarts of the worker
  MaxMisses,       \* bound on prompts that the desktop does not confirm
  MaxAsked         \* the history of prompts counts up to here

Waves == 0..(NumWaves - 1)

ASSUME WavesAssumption ==
  /\ NumWaves \in Nat \ {0}
  /\ Roots \in [Waves -> Nat \ {0}]
  /\ Children \in [Waves -> Nat]
  /\ MaxPerJob \in Nat \ {0}
  /\ MaxFinalize \in Nat \ {0}
  /\ GroupLimit \in Nat \ {0}
  /\ MayCancel \in BOOLEAN
  /\ MaxCrashes \in Nat
  /\ MaxMisses \in Nat
  /\ MaxAsked \in Nat \ {0}

VARIABLES
  status,          \* the job's status
  lines,           \* waves whose raw text is still in the queue file
  session,         \* chat_sessions, by batch_index
  registered,      \* waves whose cleaned plan is in the price batch
  done,            \* per wave, components the backend has as completed
  saved,           \* waves whose component result is sealed
  owner,           \* automatic_delivery_owner_batch_index
  receipt,         \* the completion receipt (and delivery_completed)
  turn,            \* per conversation, is its agent generating?
  chat,            \* active_quotes: per conversation, what it works on
  phase,           \* where main()'s loop stands
  plan,            \* intake batches create_missing_component_chats has read
  task,            \* the worker function in progress
  draft,           \* a prompt left unconfirmed in the composer
  asked,           \* history: prompts that reached a chat, per wave and kind
  misses, crashes

backendVars == <<registered, done, saved, owner, receipt>>
recordVars == <<status, lines, session>>
desktopVars == <<turn, draft, asked, misses>>
loopVars == <<phase, plan>>
vars == <<recordVars, backendVars, desktopVars, loopVars, chat, task, crashes>>

-----------------------------------------------------------------------------
(* Waves, components and the state of a wave *)

ConvOf(w) == w \div 2
Convs == {ConvOf(w) : w \in Waves}
IsSecond(w) == w % 2 = 1

Keys(w) == 1..(Roots[w] + IF w \in registered THEN Children[w] ELSE 0)
Incomplete(w) == Keys(w) \ done[w]

DeliveryPending(w) == saved = Waves /\ ~receipt /\ owner = w

\* batch_is_finished.
Finished(w) == w \in saved /\ ~DeliveryPending(w)

\* component_batch_state_fingerprint.
Fingerprint(w) ==
  [completed |-> done[w], saved |-> w \in saved,
   pending |-> DeliveryPending(w), remaining |-> Incomplete(w)]
NoPrint == [completed |-> {}, saved |-> FALSE, pending |-> FALSE, remaining |-> {}]

SessionStatus ==
  {"none", "running", "saved", "stalled", "deferred", "deferred_failed"}

NewSession ==
  [status |-> "running", deferred |-> {}, retrySent |-> FALSE, finals |-> 0, settle |-> NoPrint]
NoSession == [NewSession EXCEPT !.status = "none"]

\* Every rewrite of a session's status also closes its settle window.
Marked(s, st) == [s EXCEPT !.status = st, !.settle = NoPrint]

Running == {w \in Waves : session[w].status = "running"}

NoChat == [wave |-> -1, group |-> {}]
Active == {c \in Convs : chat[c] # NoChat}
\* Mutant: one chat too many.
HasRoomForOneMore == Cardinality(Active) <= MaxPerJob

HasRoom == Cardinality(Active) < MaxPerJob

\* reconcile_delivery_receipt would adopt the receipt now.
Adoptable == receipt /\ lines = {} /\ status \in {"processing", "failed"}

NoTask == [step |-> "none", wave |-> -1, as |-> "none", group |-> {}]
Task(step, w) == [NoTask EXCEPT !.step = step, !.wave = w]
Advance(w, st) == [Task("text", w) EXCEPT !.as = st]

NoDraft == [kind |-> "none", waves |-> {}]
Prompt(kind, ws) == [kind |-> kind, waves |-> ws]

Init ==
  /\ status = "processing"
  /\ lines = Waves \ {0}
  /\ session = [w \in Waves |-> IF w = 0 THEN NewSession ELSE NoSession]
  /\ registered = {} /\ saved = {}
  /\ done = [w \in Waves |-> {}]
  /\ owner = -1 /\ receipt = FALSE
  /\ turn = [c \in Convs |-> IF c = 0 THEN "working" ELSE "idle"]
  /\ chat = [c \in Convs |-> IF c = 0 THEN [wave |-> 0, group |-> {}] ELSE NoChat]
  /\ phase = "create" /\ plan = {}
  /\ task = NoTask /\ draft = NoDraft
  /\ asked = [w \in Waves |-> [text |-> IF w = 0 THEN 1 ELSE 0,
                               continue |-> 0, final |-> 0, retry |-> 0]]
  /\ misses = 0 /\ crashes = 0

-----------------------------------------------------------------------------
(* The chats' agents, through the MCP server *)

\* An agent can work on a wave once it has been told of it.
Told(w) == asked[w].text > 0 /\ status = "processing"

\* get_prices registers the wave's cleaned plan, once.
Register(w) ==
  /\ Told(w) /\ w \notin registered
  /\ registered' = registered \union {w}
  /\ UNCHANGED <<recordVars, desktopVars, loopVars, chat, task, crashes,
                 done, saved, owner, receipt>>

\* get_prices completes the last scope of a component.
CompletePrice(w, k) ==
  /\ Told(w) /\ w \in registered /\ k \in Incomplete(w)
  /\ done' = [done EXCEPT ![w] = @ \union {k}]
  /\ UNCHANGED <<recordVars, desktopVars, loopVars, chat, task, crashes,
                 registered, saved, owner, receipt>>

\* Mutant: a result is sealed though its plan is not registered.
SaveUnregistered(w) ==
  /\ Told(w) /\ w \notin saved
  /\ saved' = saved \union {w}
  /\ done' = [done EXCEPT ![w] = Keys(w)]
  /\ owner' = IF saved' = Waves THEN w ELSE owner
  /\ UNCHANGED <<recordVars, desktopVars, loopVars, chat, task, crashes, registered, receipt>>

\* saveComponentResultFragment seals the wave, whatever its queries say.
SaveResult(w) ==
  /\ Told(w) /\ w \in registered \ saved
  /\ saved' = saved \union {w}
  /\ done' = [done EXCEPT ![w] = Keys(w)]
  /\ owner' = IF saved' = Waves THEN w ELSE owner
  /\ UNCHANGED <<recordVars, desktopVars, loopVars, chat, task, crashes, registered, receipt>>

\* The call that sealed the last wave, or a repetition of it, delivers.
Deliver ==
  /\ status = "processing" /\ saved = Waves /\ ~receipt
  /\ receipt' = TRUE
  /\ UNCHANGED <<recordVars, desktopVars, loopVars, chat, task, crashes,
                 registered, done, saved, owner>>

ChatStops(c) ==
  /\ turn[c] = "working"
  /\ turn' = [turn EXCEPT ![c] = "idle"]
  /\ UNCHANGED <<recordVars, backendVars, draft, asked, misses, loopVars, chat, task, crashes>>

Agents ==
  \/ \E w \in Waves : Register(w) \/ SaveResult(w) \/ \E k \in Keys(w) : CompletePrice(w, k)
  \/ Deliver
  \/ \E c \in Convs : ChatStops(c)

-----------------------------------------------------------------------------
(* The desktop *)

\* The chat takes prompt p as a new turn.
Hear(p) ==
  /\ asked' = [w \in Waves |->
       IF w \in p.waves /\ asked[w][p.kind] < MaxAsked
       THEN [asked[w] EXCEPT ![p.kind] = @ + 1] ELSE asked[w]]
  /\ turn' = [c \in Convs |-> IF \E w \in p.waves : ConvOf(w) = c THEN "working" ELSE turn[c]]

\* The supervisor's last resort: it forgets its chats and starts over.
Restart ==
  /\ chat' = [c \in Convs |-> NoChat]
  /\ task' = NoTask
  /\ phase' = "attach"

\* PendingPromptSubmissionError: caught around a poll, where the chats stay;
\* elsewhere, and in the handler of a timeout, it reaches the supervisor.
Abandon ==
  \/ phase \notin {"turn", "polled"} /\ Restart
  \/ /\ phase \in {"turn", "polled"}
     /\ phase' = IF Active = {} THEN "attach" ELSE "create"
     /\ task' = NoTask /\ UNCHANGED chat

\* A draft found in the composer is submitted first, and nothing else is.
FlushDraft ==
  /\ draft # NoDraft
  /\ Hear(draft)
  /\ draft' = NoDraft
  /\ Abandon
  /\ UNCHANGED <<recordVars, backendVars, plan, misses, crashes>>

\* A worker function goes on, or (NoTask) hands control back to its caller.
Then(next) == task' = next /\ UNCHANGED phase
TaskDone == Then(NoTask)

\* continue_quote: the prompt is confirmed, or stays behind as a draft.
Submit(p, next) ==
  \/ /\ draft = NoDraft
     /\ Hear(p)
     /\ Then(next)
     /\ UNCHANGED <<recordVars, backendVars, plan, draft, misses, chat, crashes>>
  \/ /\ draft = NoDraft /\ misses < MaxMisses
     /\ draft' = p
     /\ misses' = misses + 1
     /\ Abandon
     /\ UNCHANGED <<recordVars, backendVars, plan, turn, asked, crashes>>
  \/ FlushDraft

\* start_quote opens a blank chat: a draft left elsewhere is out of sight.
SubmitInNewChat(p, next) ==
  \/ /\ Hear(p)
     /\ task' = next
     /\ draft' = NoDraft
     /\ UNCHANGED <<recordVars, backendVars, loopVars, misses, chat, crashes>>
  \/ /\ misses < MaxMisses
     /\ misses' = misses + 1
     /\ draft' = NoDraft
     /\ Restart
     /\ UNCHANGED <<recordVars, backendVars, plan, turn, asked, crashes>>

-----------------------------------------------------------------------------
(* Worker functions of several steps.  `task' says which step is next. *)

Dropped(c) == chat' = [chat EXCEPT ![c] = NoChat]

HasNext(w) == w + 1 \in Waves /\ ConvOf(w + 1) = ConvOf(w) /\ w + 1 \in lines

\* advance_to_next_wave: nothing to send, the chat's slot is free.
AdvanceEnds ==
  LET w == task.wave IN
  /\ task.step = "text" /\ ~HasNext(w)
  /\ session' = [session EXCEPT ![w] = Marked(@, task.as)]
  /\ Dropped(ConvOf(w))
  /\ TaskDone
  /\ UNCHANGED <<status, lines, backendVars, desktopVars, plan, crashes>>

\* The next wave's text goes out first ...
AdvanceText ==
  LET w == task.wave IN
  /\ task.step = "text" /\ HasNext(w)
  /\ Submit(Prompt("text", {w + 1}), [task EXCEPT !.step = "mark"])

\* ... then the previous session is closed ...
AdvanceMark ==
  LET w == task.wave IN
  /\ task.step = "mark"
  /\ session' = [session EXCEPT ![w] = Marked(@, task.as)]
  /\ task' = Task("record", w + 1)
  /\ UNCHANGED <<status, lines, backendVars, desktopVars, loopVars, chat, crashes>>

\* ... the new one is recorded (also for a chat that was just opened) ...
RecordSession ==
  LET w == task.wave IN
  /\ task.step = "record"
  /\ session' = [session EXCEPT ![w] = NewSession]
  /\ task' = [task EXCEPT !.step = "purge"]
  /\ UNCHANGED <<status, lines, backendVars, desktopVars, loopVars, chat, crashes>>

\* Mutant: the purge takes the texts of the waves not sent yet as well.
PurgeAllTexts ==
  LET w == task.wave IN
  /\ task.step = "purge"
  /\ lines' = {}
  /\ chat' = [chat EXCEPT ![ConvOf(w)] = [wave |-> w, group |-> {}]]
  /\ TaskDone
  /\ UNCHANGED <<status, session, backendVars, desktopVars, plan, crashes>>

\* ... and the text leaves the queue file.
PurgeText ==
  LET w == task.wave IN
  /\ task.step = "purge"
  /\ lines' = lines \ {w}
  /\ chat' = [chat EXCEPT ![ConvOf(w)] = [wave |-> w, group |-> {}]]
  /\ TaskDone
  /\ UNCHANGED <<status, session, backendVars, desktopVars, plan, crashes>>

OpenText ==
  /\ task.step = "open"
  /\ SubmitInNewChat(Prompt("text", {task.wave}), [task EXCEPT !.step = "record"])

\* The chat is asked to go on with the components after the stalled one.
ContinuePrompt ==
  /\ task.step = "continue"
  /\ Submit(Prompt("continue", {task.wave}), NoTask)

\* The chat is asked for the sealed result; the attempt is counted after.
FinalPrompt ==
  /\ task.step = "final"
  /\ Submit(Prompt("final", {task.wave}), [task EXCEPT !.step = "count"])

\* Mutant: the attempt is not counted.
FinalUncounted ==
  LET w == task.wave IN
  /\ task.step = "count"
  /\ session' = [session EXCEPT ![w] = Marked(@, "running")]
  /\ TaskDone
  /\ UNCHANGED <<status, lines, backendVars, desktopVars, plan, chat, crashes>>

FinalCount ==
  LET w == task.wave IN
  /\ task.step = "count"
  /\ session' = [session EXCEPT ![w] = [Marked(@, "running") EXCEPT !.finals = session[w].finals + 1]]
  /\ TaskDone
  /\ UNCHANGED <<status, lines, backendVars, desktopVars, plan, chat, crashes>>

\* The deferred retry: the prompt, then the budget of every wave in it.
RetryPrompt ==
  /\ task.step = "retry"
  /\ Submit(Prompt("retry", task.group), [task EXCEPT !.step = "retried"])

RetryRecord ==
  /\ task.step = "retried"
  /\ session' = [w \in Waves |->
       IF w \in task.group
       THEN [Marked(session[w], "running") EXCEPT
               !.deferred = @ \intersect Incomplete(w), !.retrySent = TRUE]
       ELSE session[w]]
  /\ chat' = [chat EXCEPT ![ConvOf(task.wave)] = [wave |-> task.wave, group |-> task.group]]
  /\ TaskDone
  /\ UNCHANGED <<status, lines, backendVars, desktopVars, plan, crashes>>

TaskStep ==
  \/ AdvanceEnds \/ AdvanceText \/ AdvanceMark \/ RecordSession \/ PurgeText
  \/ OpenText \/ ContinuePrompt \/ FinalPrompt \/ FinalCount \/ RetryPrompt \/ RetryRecord

-----------------------------------------------------------------------------
(* main()'s loop *)

Goto(p) == phase' = p /\ UNCHANGED <<plan, task>>

\* claim_submitted_for_monitoring and reattach_job_chats: every running wave
\* is resumed, and of two in one conversation the later takes the key.
Attach ==
  /\ phase = "attach" /\ status = "processing" /\ ~Adoptable
  /\ \/ /\ draft = NoDraft \/ Running = {}
        /\ chat' = [c \in Convs |->
             LET here == {w \in Running : ConvOf(w) = c}
             IN  IF here = {} THEN NoChat ELSE [wave |-> Max(here), group |-> {}]]
        /\ Goto("create")
        /\ UNCHANGED <<recordVars, backendVars, desktopVars, crashes>>
     \/ Running # {} /\ FlushDraft

\* create_missing_component_chats reads the record and the texts once.
CreateMissing ==
  /\ phase = "create" /\ task = NoTask
  /\ plan' = IF status = "processing" /\ NumWaves > 1 THEN lines ELSE {}
  /\ phase' = "open"
  /\ UNCHANGED <<recordVars, backendVars, desktopVars, chat, task, crashes>>

\* Second waves whose first wave is over, in the saved conversation.
Recoverable ==
  {w \in plan : /\ IsSecond(w) /\ session[w].status = "none"
                /\ session[w - 1].status \in {"saved", "stalled", "deferred"}
                /\ ConvOf(w) \notin Active /\ HasRoom}

\* First waves of further conversations.
Openable ==
  {w \in plan : ~IsSecond(w) /\ session[w].status = "none" /\ HasRoom}

OpenNext ==
  /\ phase = "open" /\ task = NoTask
  /\ \/ /\ Recoverable # {}
        /\ LET w == Min(Recoverable)
           IN  task' = Advance(w - 1, session[w - 1].status) /\ plan' = plan \ {w}
     \/ /\ Recoverable = {} /\ Openable # {}
        /\ task' = Task("open", Min(Openable)) /\ plan' = plan \ {Min(Openable)}
  /\ UNCHANGED <<recordVars, backendVars, desktopVars, chat, phase, crashes>>

OpenDone ==
  /\ phase = "open" /\ task = NoTask
  /\ Recoverable = {} /\ Openable = {}
  /\ plan' = {} /\ phase' = "settle"
  /\ UNCHANGED <<recordVars, backendVars, desktopVars, chat, task, crashes>>

\* Mutant: texts may be left.
QuietChats == status = "processing" /\ ~Adoptable /\ Active = {} /\ Running = {}

\* settle_programmatic_delivery acts only when nothing is going on.
Quiet ==
  /\ status = "processing" /\ ~Adoptable
  /\ Active = {} /\ Running = {} /\ lines = {}

\* Mutant: a wave whose plan never reached the backend is not retried.
UnretriedRegistered ==
  {w \in registered : session[w].status = "deferred" /\ ~session[w].retrySent
                      /\ Incomplete(w) # {}}

Unretried ==
  {w \in Waves : session[w].status = "deferred" /\ ~session[w].retrySent /\ Incomplete(w) # {}}

RetryKeys(w) == session[w].deferred \intersect Incomplete(w)

\* The deferred waves of the first conversation that has any.
RetryGroup ==
  {w \in Unretried : ConvOf(w) = ConvOf(Min(Unretried)) /\ RetryKeys(w) # {}}

\* All components one retry would ask for.
RetryLoad == UNION {{w} \X RetryKeys(w) : w \in RetryGroup}

WithinLimit == Cardinality(RetryLoad) <= GroupLimit

Settling == phase \in {"settle", "polled", "timed"} /\ task = NoTask

SettleRetry ==
  /\ Settling /\ Quiet
  /\ Unretried # {} /\ RetryGroup # {} /\ WithinLimit
  /\ task' = [Task("retry", Min(RetryGroup)) EXCEPT !.group = RetryGroup]
  /\ UNCHANGED <<recordVars, backendVars, desktopVars, loopVars, chat, crashes>>

\* Mutant: only a pending delivery fails the job.
UndeliveredOnly == \E w \in Waves : DeliveryPending(w)

Undelivered == saved # Waves \/ \E w \in Waves : DeliveryPending(w)

\* Mutant: the job fails with retries still to be sent.
SettleFailEarly ==
  /\ Settling /\ Quiet
  /\ Undelivered
  /\ status' = "failed" /\ lines' = {}
  /\ Goto("attach")
  /\ UNCHANGED <<session, backendVars, desktopVars, chat, crashes>>

SettleFail ==
  /\ Settling /\ Quiet
  /\ Unretried = {} /\ Undelivered
  /\ status' = "failed" /\ lines' = {}
  /\ Goto("attach")
  /\ UNCHANGED <<session, backendVars, desktopVars, chat, crashes>>

\* A group over the limit raises an error: after a poll it fails the job,
\* elsewhere the supervisor starts over, with no chats as it has none now.
SettleOverLimit ==
  /\ Settling /\ Quiet
  /\ Unretried # {} /\ RetryGroup # {} /\ ~WithinLimit
  /\ status' = IF phase = "polled" THEN "failed" ELSE status
  /\ Goto("attach")
  /\ UNCHANGED <<lines, session, backendVars, desktopVars, chat, crashes>>

\* Everything else returns.
SettleNothing ==
  /\ Settling /\ ~Adoptable
  /\ status = "processing" \/ Active = {}
  /\ ~Quiet \/ (Unretried # {} /\ RetryGroup = {})
  /\ Goto(CASE Active = {} -> "attach"
           [] Active # {} /\ phase = "settle" -> "turn"
           [] Active # {} /\ phase # "settle" -> "create")
  /\ UNCHANGED <<recordVars, backendVars, desktopVars, chat, crashes>>

\* reconcile_delivery_receipt, by the sales page's poll or the worker.
AdoptReceipt ==
  /\ Adoptable
  /\ status' = "delivered"
  /\ UNCHANGED <<lines, session, backendVars, desktopVars, loopVars, chat, task, crashes>>

Cancel ==
  /\ MayCancel /\ status = "processing"
  /\ status' = "cancelled" /\ lines' = {}
  /\ UNCHANGED <<session, backendVars, desktopVars, loopVars, chat, task, crashes>>

\* stop_terminal_job_chats: a chat whose composer held a draft is kept.
StopTerminal ==
  /\ (phase = "turn" /\ task = NoTask) \/ Settling
  /\ status # "processing" /\ Active # {}
  /\ \/ /\ draft = NoDraft
        /\ turn' = [c \in Convs |-> IF c \in Active THEN "idle" ELSE turn[c]]
        /\ chat' = [c \in Convs |-> NoChat]
        /\ Goto("attach")
        /\ UNCHANGED <<recordVars, backendVars, draft, asked, misses, crashes>>
     \/ /\ draft # NoDraft
        /\ Hear(draft) /\ draft' = NoDraft
        /\ UNCHANGED <<recordVars, backendVars, loopVars, chat, task, misses, crashes>>

-----------------------------------------------------------------------------
(* One poll of one chat *)

\* Mutant: what was deferred before is forgotten.
OwnForgotten(w) == {}

\* continue_component_batch for the wave of a chat whose turn is over.  The
\* deferred components are read back through the wave's own keys, which are
\* the numbered lines.
OwnDeferred(w) == session[w].deferred \intersect (1..Roots[w]) \intersect Incomplete(w)

ContinueFinished(w) ==
  /\ Finished(w)
  /\ task' = Advance(w, "saved")
  /\ UNCHANGED <<session, chat>>

ContinueFinal(w) ==
  /\ ~Finished(w) /\ Incomplete(w) = {}
  /\ task' = IF session[w].finals >= MaxFinalize THEN Advance(w, "stalled") ELSE Task("final", w)
  /\ UNCHANGED <<session, chat>>

ContinueExhausted(w) ==
  /\ ~Finished(w) /\ Incomplete(w) # {} /\ session[w].retrySent
  /\ session' = [session EXCEPT ![w] =
                    [Marked(@, "deferred_failed") EXCEPT !.deferred = Incomplete(w)]]
  /\ task' = NoTask
  /\ Dropped(ConvOf(w))

\* Mutant: only the component that stalled last is on the list.
ContinueStalledOnly(w) ==
  LET fresh == Incomplete(w) \ OwnDeferred(w)
      stalled == IF fresh = {} THEN {} ELSE {Min(fresh)}
      more == fresh # stalled
  IN  /\ ~Finished(w) /\ Incomplete(w) # {} /\ ~session[w].retrySent
      /\ session' = [session EXCEPT ![w] =
                       [Marked(@, IF more THEN "running" ELSE "deferred") EXCEPT
                          !.deferred = stalled]]
      /\ task' = IF more THEN Task("continue", w) ELSE Advance(w, "deferred")
      /\ UNCHANGED chat

\* component_recovery_plan: the first component that is not deferred yet is
\* deferred, and the chat goes on with the rest.
ContinueStalled(w) ==
  LET fresh == Incomplete(w) \ OwnDeferred(w)
      stalled == IF fresh = {} THEN {} ELSE {Min(fresh)}
      more == fresh # stalled
  IN  /\ ~Finished(w) /\ Incomplete(w) # {} /\ ~session[w].retrySent
      /\ session' = [session EXCEPT ![w] =
                       [Marked(@, IF more THEN "running" ELSE "deferred") EXCEPT
                          !.deferred = OwnDeferred(w) \union stalled]]
      /\ task' = IF more THEN Task("continue", w) ELSE Advance(w, "deferred")
      /\ UNCHANGED chat

ContinueWave(w) ==
  /\ ContinueFinished(w) \/ ContinueFinal(w) \/ ContinueExhausted(w) \/ ContinueStalled(w)
  /\ UNCHANGED <<status, lines, plan>>

\* finish_deferred_group_sessions.
FinishGroup(c) ==
  /\ session' = [w \in Waves |->
       IF w \in chat[c].group
       THEN [Marked(session[w], IF Finished(w) THEN "saved" ELSE "deferred_failed") EXCEPT
               !.retrySent = TRUE]
       ELSE session[w]]
  /\ task' = NoTask
  /\ Dropped(c)
  /\ UNCHANGED <<status, lines, plan>>

\* advance_machine_completed_wave takes a chat with a finished wave and, until
\* its agent has stopped, comes back without having polled any chat.
FastPath(c) == NumWaves > 1 /\ chat[c].group = {} /\ Finished(chat[c].wave)

Polled(c) ==
  /\ phase = "turn" /\ task = NoTask
  /\ c \in Active
  /\ status = "processing" /\ ~Adoptable

AdvanceMachine(c) ==
  /\ Polled(c) /\ draft = NoDraft
  /\ FastPath(c) /\ turn[c] = "idle"
  /\ ContinueWave(chat[c].wave)
  /\ phase' = "polled"
  /\ UNCHANGED <<backendVars, desktopVars, crashes>>

\* The agent's reply is there.  A wave is judged only after a window in which
\* its state did not change (component_batch_state_settled).
Reply(c) ==
  LET w == chat[c].wave
      unsettled == ~Finished(w) /\ session[w].settle # Fingerprint(w)
  IN  /\ Polled(c) /\ draft = NoDraft
      /\ ~FastPath(c) /\ turn[c] = "idle"
      /\ \/ chat[c].group # {} /\ FinishGroup(c) /\ phase' = "polled"
         \/ chat[c].group = {} /\ ~unsettled /\ ContinueWave(w) /\ phase' = "polled"
         \/ /\ chat[c].group = {} /\ unsettled
            /\ session' = [session EXCEPT ![w].settle = Fingerprint(w)]
            /\ Goto("create")
            /\ UNCHANGED <<status, lines, chat>>
      /\ UNCHANGED <<backendVars, desktopVars, crashes>>

\* handle_no_progress_timeout stops the agent and does not wait again.
Timeout(c) ==
  /\ Polled(c) /\ draft = NoDraft
  /\ ~FastPath(c)
  /\ turn' = [turn EXCEPT ![c] = "idle"]
  /\ IF chat[c].group # {} THEN FinishGroup(c) ELSE ContinueWave(chat[c].wave)
  /\ phase' = "timed"
  /\ UNCHANGED <<backendVars, draft, asked, misses, crashes>>

PollEnds(c) == AdvanceMachine(c) \/ Reply(c) \/ Timeout(c)

PollDraft == (\E c \in Convs : Polled(c)) /\ FlushDraft

PollNothing ==
  /\ phase = "turn" /\ task = NoTask
  /\ status = "processing" \/ Active = {}
  /\ Goto("create")
  /\ UNCHANGED <<recordVars, backendVars, desktopVars, chat, crashes>>

-----------------------------------------------------------------------------

Crash ==
  /\ crashes < MaxCrashes
  /\ crashes' = crashes + 1
  /\ Restart
  /\ UNCHANGED <<recordVars, backendVars, desktopVars, plan>>

Loop ==
  \/ Attach \/ CreateMissing \/ OpenNext \/ OpenDone
  \/ SettleRetry \/ SettleFail \/ SettleOverLimit \/ SettleNothing \/ StopTerminal
  \/ PollDraft \/ PollNothing

\* The job has ended and the worker has let go of it.
Rest == status # "processing" /\ Active = {} /\ task = NoTask /\ UNCHANGED vars

Next ==
  \/ TaskStep \/ Loop \/ (\E c \in Convs : PollEnds(c))
  \/ Agents \/ AdoptReceipt \/ Cancel \/ Crash \/ Rest

Spec == Init /\ [][Next]_vars

\* The worker's loop runs; chats are polled least recently seen first and each
\* has a deadline; the sales page polls its job.
WorkerFairness ==
  /\ WF_vars(TaskStep) /\ WF_vars(Loop) /\ WF_vars(AdoptReceipt)
  /\ \A c \in Convs : SF_vars(PollEnds(c))

FairSpec == Spec /\ WorkerFairness

\* In addition, an agent's turn ends at last.
RepliesSpec == FairSpec /\ \A c \in Convs : WF_vars(ChatStops(c))

-----------------------------------------------------------------------------
(* Properties *)

Prompts == [text : 0..MaxAsked, continue : 0..MaxAsked, final : 0..MaxAsked, retry : 0..MaxAsked]
Steps == {"none", "text", "mark", "record", "purge", "open", "continue", "final", "count",
          "retry", "retried"}

\* The variables keep their shape: what the worker and the server write.
TypeOK ==
  /\ status \in {"processing", "failed", "delivered", "cancelled"}
  /\ lines \subseteq Waves
  /\ DOMAIN session = Waves
  /\ \A w \in Waves :
       /\ session[w].status \in SessionStatus
       /\ session[w].deferred \subseteq Keys(w)
       /\ session[w].retrySent \in BOOLEAN
       /\ session[w].finals \in Nat
       /\ done[w] \subseteq Keys(w)
  /\ saved \subseteq registered /\ registered \subseteq Waves
  /\ owner \in Waves \union {-1} /\ receipt \in BOOLEAN
  /\ turn \in [Convs -> {"idle", "working"}]
  /\ \A c \in Convs : chat[c] = NoChat \/ ConvOf(chat[c].wave) = c
  /\ phase \in {"attach", "create", "open", "settle", "turn", "polled", "timed"} /\ plan \subseteq Waves
  /\ task.step \in Steps /\ task.group \subseteq Waves
  /\ draft.waves \subseteq Waves
  /\ asked \in [Waves -> Prompts]
  /\ misses \in 0..MaxMisses /\ crashes \in 0..MaxCrashes

\* A text leaves the queue file only when a chat has it: however the send,
\* the session record, the purge and a restart interleave, no line is lost.
NoTextLost ==
  status = "processing" => \A w \in Waves \ lines : asked[w].text > 0

\* Only a restart or an unconfirmed prompt makes the worker repeat a text, a
\* request for the result or a deferred retry (the counters are saved after
\* the prompt, see advance_to_next_wave and settle_programmatic_delivery).
PromptBudget ==
  LET excused == crashes + misses IN
  \A w \in Waves :
    /\ asked[w].text <= 1 + excused
    /\ asked[w].retry <= 1 + excused
    /\ asked[w].final <= MaxFinalize + excused

\* A wave is asked to go on fewer times than it has components: every
\* continuation of continue_component_batch leaves one numbered line behind.
\* (Components the agent splits off never join the list that is read back, see
\* session_deferred_component_keys; with two of them left nothing counts down.)
ContinuationsBounded ==
  \A w \in Waves : Children[w] <= 1 => asked[w].continue < Cardinality(Keys(w))

\* A deferred wave has all its open numbered lines on the list that the one
\* retry is built from, so the retry misses none of them.
DeferredCoversOpen ==
  \A w \in Waves : session[w].status = "deferred" =>
    Incomplete(w) \intersect (1..Roots[w]) \subseteq session[w].deferred

\* The job never holds more chats than its share, also after a restart, when
\* reattach_job_chats resumes them without counting.
ChatLimit == Cardinality(Active) <= MaxPerJob

\* The worker gives a job up only when every wave was sent and each unsealed
\* one has had its retry or a request for its result, or is fully priced, or
\* belongs to a retry that is over the limit and cannot be sent.
FailureIsEarned ==
  status = "failed" =>
    \A w \in Waves \ saved :
      /\ asked[w].text > 0
      /\ \/ asked[w].retry > 0 \/ asked[w].final > 0 \/ Incomplete(w) = {}
         \/ w \in Unretried /\ ~WithinLimit

\* No retry goes out before every normal wave has been sent: "Deferred retries
\* run only after every normal source wave has actually been submitted".
RetryAfterAllTexts ==
  [][(\E w \in Waves : asked'[w].retry > asked[w].retry)
       => \A v \in Waves : asked[v].text > 0]_vars

\* The job does not stay `processing' for ever.
JobEnds == (status = "processing") ~> (status # "processing")

\* What was deferred is asked for again, unless it comes in by itself: the
\* worker goes back to the wave's own conversation before it gives the job up.
DeferredIsRetried ==
  \A w \in Waves :
    (session[w].status = "deferred" /\ RetryKeys(w) # {})
      ~> (asked[w].retry > 0 \/ RetryKeys(w) = {} \/ status \in {"delivered", "cancelled"})
=============================================================================
