------------------------------ MODULE Scheduler ------------------------------
(***************************************************************************)
(* The continuous-batch scheduler of a worker: worker/src/scheduler.rs.    *)
(* HTTP handlers submit sessions through a bounded channel; one task keeps *)
(* up to max_batch_size of them active and asks each for one token per     *)
(* batch.  A client may drop its receiver at any time, which the task      *)
(* notices when it next sends to it.                                       *)
(*                                                                         *)
(* `queued` is the shared counter, which handlers and the task update one  *)
(* after the other.  `stepped` and `late` are history: who was asked in    *)
(* this batch, and who was submitted since slots were last filled.         *)
(***************************************************************************)
EXTENDS Integers, Sequences, FiniteSets

CONSTANTS
    Session,
    NoSession,
    max_batch_size,
    queue_capacity,
    MaxTokens         \* the most tokens a session yields before Length

\* SchedulerConfig::validate.
ASSUME SchedulerConfigIsValid == /\ max_batch_size \in Nat \ {0}
                        /\ queue_capacity \in Nat \ {0}
ASSUME SessionType == NoSession \notin Session
ASSUME TokensType == MaxTokens \in Nat

VARIABLES
    status,   \* status[r]: how far request r has come
    gone,     \* requests whose receiver was dropped
    queue,    \* the channel
    queued,   \* SchedulerState.queued
    taken,    \* received from the channel and not yet admitted
    active,
    emitted,  \* emitted_tokens
    pc,       \* where the task is: wait, fill, delay or step
    index,
    stepped, late

handlers == <<status, gone, queue, queued>>
batch == <<active, emitted, pc, index, stepped>>
schedulerVars == <<handlers, taken, batch, late>>

-----------------------------------------------------------------------------
EndStatus == {"completed", "cancelled", "failed"}
Status == {"new", "sending", "queued", "active", "refused"} \cup EndStatus

Members(s) == {s[i] : i \in DOMAIN s}

\* Mutant of swap_remove: the last element is lost.
truncate(s, i) == SubSeq(s, 1, Len(s) - 1)

\* The last element takes the place of the removed one.
swap_remove(s, i) ==
    [j \in 1..(Len(s) - 1) |-> IF j = i THEN s[Len(s)] ELSE s[j]]

SchedulerInit ==
    /\ status = [r \in Session |-> "new"]
    /\ gone = {}
    /\ queue = << >>
    /\ queued = 0
    /\ taken = NoSession
    /\ active = << >>
    /\ emitted = [r \in Session |-> 0]
    /\ pc = "wait"
    /\ index = 1
    /\ stepped = {} /\ late = {}

SetStatus(r, s) == status' = [status EXCEPT ![r] = s]

-----------------------------------------------------------------------------
(* Handlers.                                                                 *)

\* submit: the counter goes up before the send.
SubmitCounts(r) ==
    /\ status[r] = "new"
    /\ SetStatus(r, "sending")
    /\ queued' = queued + 1
    /\ UNCHANGED <<gone, queue, taken, batch, late>>

\* submit: try_send finds room.
SubmitSends(r) ==
    /\ status[r] = "sending"
    /\ Len(queue) < queue_capacity
    /\ SetStatus(r, "queued")
    /\ queue' = Append(queue, r)
    /\ late' = late \cup {r}
    /\ UNCHANGED <<gone, queued, taken, batch>>

\* Mutant of Uncount: the refused submission stays counted.
KeepCounted == UNCHANGED queued

Uncount == queued' = queued - 1

\* submit: the channel is full and the counter goes down again.
SubmitRefused(r) ==
    /\ status[r] = "sending"
    /\ Len(queue) >= queue_capacity
    /\ SetStatus(r, "refused")
    /\ Uncount
    /\ UNCHANGED <<gone, queue, taken, batch, late>>

\* The client goes away: its receiver is dropped.
Leave(r) ==
    /\ status[r] \in {"queued", "active"}
    /\ r \notin gone
    /\ gone' = gone \cup {r}
    /\ UNCHANGED <<status, queue, queued, taken, batch, late>>

-----------------------------------------------------------------------------
(* The scheduler task.                                                       *)

SlotFree == Len(active) < max_batch_size

\* recv, or try_recv while a slot is free.
Take ==
    /\ pc = "wait" \/ (pc = "fill" /\ SlotFree)
    /\ taken = NoSession
    /\ queue # << >>
    /\ taken' = Head(queue)
    /\ queue' = Tail(queue)
    /\ UNCHANGED <<status, gone, queued, batch, late>>

\* admit: the rest of it.  Slots are filled afterwards.
Admit ==
    /\ taken # NoSession
    /\ queued' = queued - 1
    /\ SetStatus(taken, "active")
    /\ active' = Append(active, taken)
    /\ taken' = NoSession
    /\ pc' = "fill"
    /\ UNCHANGED <<gone, queue, emitted, index, stepped, late>>

\* Mutant of NothingToDo: the task waits for work while it has some.
NothingQueued == queue = << >>

\* The loop starts over with no active sequence: the task waits for one.
NothingToDo == active = << >>

\* Mutant of FillEnds: one admission is enough.
FillEndsEarly == active # << >> \/ queue = << >>

\* fill_available_slots ends: no slot is free or try_recv finds nothing.
FillEnds == Len(active) >= max_batch_size \/ queue = << >>

Filled ==
    /\ pc = "fill" /\ taken = NoSession
    /\ FillEnds
    /\ pc' = IF NothingToDo THEN "wait" ELSE "delay"
    /\ late' = {}
    /\ UNCHANGED <<handlers, taken, active, emitted, index, stepped>>

\* The tick delay is over and the batch begins.
BatchBegins ==
    /\ pc = "delay"
    /\ pc' = "step"
    /\ index' = 1
    /\ stepped' = {}
    /\ UNCHANGED <<handlers, taken, active, emitted, late>>

\* The sequence whose turn it is.
Current == active[index]
Stepping ==
    /\ pc = "step"
    /\ index <= Len(active)
    /\ stepped' = stepped \cup {Current}

\* Mutant of AfterRemoval: the index moves on over the swapped-in sequence.
SkipSwapped(i) == i + 1

\* The removed sequence's place has a new sequence, whose turn is next.
AfterRemoval(i) == i

Removed(end) ==
    /\ active' = swap_remove(active, index)
    /\ index' = AfterRemoval(index)
    /\ SetStatus(Current, end)

\* next_token yields a token, which the client gets.
StepToken ==
    /\ Stepping
    /\ emitted[Current] < MaxTokens
    /\ emitted' = [emitted EXCEPT ![Current] = @ + 1]
    /\ Current \notin gone
    /\ index' = index + 1
    /\ UNCHANGED <<handlers, taken, active, pc, late>>

\* next_token yields a token for a client that is gone.
StepCancelled ==
    /\ Stepping
    /\ emitted[Current] < MaxTokens
    /\ emitted' = [emitted EXCEPT ![Current] = @ + 1]
    /\ Current \in gone
    /\ Removed("cancelled")
    /\ UNCHANGED <<gone, queue, queued, taken, pc, late>>

\* finish: end of sequence or length.
StepFinishes ==
    /\ Stepping
    /\ Removed(IF Current \in gone THEN "cancelled" ELSE "completed")
    /\ UNCHANGED <<gone, queue, queued, taken, emitted, pc, late>>

\* next_token fails.
StepFails ==
    /\ Stepping
    /\ Removed("failed")
    /\ UNCHANGED <<gone, queue, queued, taken, emitted, pc, late>>

\* Every active sequence had its turn; the slots are filled again.
BatchEnds ==
    /\ pc = "step"
    /\ index > Len(active)
    /\ pc' = "fill"
    /\ UNCHANGED <<handlers, taken, active, emitted, index, stepped, late>>

TaskStep ==
    \/ Take \/ Admit \/ Filled \/ BatchBegins
    \/ StepToken \/ StepCancelled \/ StepFinishes \/ StepFails
    \/ BatchEnds

SchedulerNext ==
    \/ \E r \in Session : SubmitCounts(r)
    \/ \E r \in Session : SubmitSends(r)
    \/ \E r \in Session : SubmitRefused(r)
    \/ \E r \in Session : Leave(r)
    \/ Take \/ Admit \/ Filled \/ BatchBegins
    \/ StepToken \/ StepCancelled \/ StepFinishes \/ StepFails
    \/ BatchEnds

SchedulerSpec == SchedulerInit /\ [][SchedulerNext]_schedulerVars

\* The task runs whenever it can.
SchedulerFairSpec == SchedulerSpec /\ WF_schedulerVars(TaskStep)

-----------------------------------------------------------------------------
(* Properties.                                                               *)

\* Type correctness, the capacity of the channel and the size of the batch.
SchedulerTypeOK ==
    /\ status \in [Session -> Status]
    /\ gone \subseteq Session
    /\ queue \in Seq(Session) /\ Len(queue) <= queue_capacity
    /\ queued \in Nat
    /\ taken \in Session \cup {NoSession}
    /\ active \in Seq(Session) /\ Len(active) <= max_batch_size
    /\ emitted \in [Session -> 0..MaxTokens]
    /\ pc \in {"wait", "fill", "delay", "step"}
    /\ index \in Nat \ {0}
    /\ stepped \subseteq Session /\ late \subseteq Session

Distinct(s) == \A i, j \in DOMAIN s : s[i] = s[j] => i = j

\* A request is in one place only: the channel, the task's hand or one slot of
\* the batch while it is under way, and nowhere once it has ended.  No sequence
\* is lost or doubled when another is removed (admit, swap_remove).
OnePlace ==
    /\ Distinct(queue) /\ Distinct(active)
    /\ \A r \in Session :
          /\ status[r] = "queued" <=> r \in Members(queue) \/ r = taken
          /\ ~(r \in Members(queue) /\ r = taken)
          /\ status[r] = "active" <=> r \in Members(active)

\* The shared counter is the number of submissions between the two updates of
\* their handler or on their way to a slot, so it never wraps below zero and
\* comes back to the length of the channel (submit, admit).
QueuedCounts ==
    queued = Cardinality({r \in Session : status[r] \in {"sending", "queued"}})

\* In a batch the sequences before the index have had their one step and the
\* others are still to come, whichever were removed on the way: none is
\* skipped and none is asked twice (run_scheduler).
OneStepPerBatch ==
    pc = "step" => \A i \in DOMAIN active : active[i] \in stepped <=> i < index

\* "Freed slots are filled from queued work before another batch begins": when
\* a batch runs short, all that waits was submitted after the slots were filled.
FreedSlotsAreFilled ==
    pc = "delay" /\ Len(active) < max_batch_size => Members(queue) \subseteq late

\* The task's walk over the batch treats every sequence once: OnePlace,
\* QueuedCounts, OneStepPerBatch and FreedSlotsAreFilled.
SchedulerHolds ==
    SchedulerTypeOK /\ OnePlace /\ QueuedCounts /\ OneStepPerBatch /\ FreedSlotsAreFilled

\* Every accepted request ends, whoever leaves or fails meanwhile.  A session is
\* submitted once, so it is enough that again and again none is under way.
AcceptedRequestsEnd == []<>(\A r \in Session : status[r] \notin {"queued", "active"})
=============================================================================
