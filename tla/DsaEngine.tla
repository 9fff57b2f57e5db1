------------------------------ MODULE DsaEngine ------------------------------
(***************************************************************************)
(* DsaEngine (dsa.hpp, dsa.ipp) with the DirectSubmitter and a locked task *)
(* queue (task_queue.hpp), driven by one thread, and the operations it     *)
(* completes (operation_base_mixin.hpp, scheduler.hpp).                    *)
(*                                                                         *)
(* submit() waits at its gate by calling poll(); poll() runs notify() of   *)
(* the completed operations; notify() of an operation that met a page      *)
(* fault calls submit() again, and the receiver of a finished operation    *)
(* may start the next one.  So submit and poll nest, and the calls of the  *)
(* thread are a stack.  A poll frame holds the operations that poll() has  *)
(* unlinked from the queue and not yet notified, and how many it has       *)
(* notified: notify_complete() runs only when the frame returns.           *)
(* Operations are numbered in the order of their start().                  *)
(***************************************************************************)
EXTENDS DirectSubmitter, Sequences, SequencesExt

CONSTANTS
  NumOps,        \* bound on the operations started
  Kinds,         \* the kinds of operation that are started
  MaxFaults      \* bound on the page faults the device reports in all

ASSUME EngineAssumption ==
  /\ NumOps \in Nat
  /\ Kinds \subseteq {"copy", "schedule"}
  /\ MaxFaults \in Nat

Ops == 1..NumOps

VARIABLES
  status,        \* comp->status of each operation, 0 while it is pending
  queue,         \* the list at head_ of the task queue
  stack,         \* frames of submit() and poll()
  started,       \* number of operations whose start() has been called
  kind,          \* "copy" has a descriptor, "schedule" (ScheduleOperation) none
  completions,   \* history: completion signals each receiver got
  faults,        \* history: page faults reported so far
  alive          \* FALSE after ~DsaEngine

opVars == <<started, kind, completions>>
vars   == <<mode, inflight, wq, running, dropped, status, queue, stack, started,
            kind, completions, faults, alive>>

Statuses == {"none", "success", "page_fault", "error"}

Submit(op) == [fn |-> "submit", op |-> op]
Poll(list) == [fn |-> "poll", list |-> list, notified |-> 0]

Top == stack[Len(stack)]
Push(f) == Append(stack, f)
Pop     == SubSeq(stack, 1, Len(stack) - 1)
InSubmit == stack # <<>> /\ Top.fn = "submit"
InPoll   == stack # <<>> /\ Top.fn = "poll"

Init ==
  /\ DirectInit
  /\ status = [op \in Ops |-> "none"]
  /\ queue = <<>>
  /\ stack = <<>>
  /\ started = 0
  /\ kind = [op \in Ops |-> "copy"]
  /\ completions = [op \in Ops |-> 0]
  /\ faults = 0
  /\ alive = TRUE

-----------------------------------------------------------------------------
(* Software.                                                               *)

\* Mutant: the list behind the new head is lost.
PushOp_Unlinked(op) == <<op>>

\* push() of the task queue.
PushOp(op) == <<op>> \o queue

\* start() of an operation with a descriptor enters submit(op, desc).  Left
\* out: a dualcast that pre_start_validate() refuses, which never reaches the
\* engine, and the handlers for an exception of submit(), which throws only
\* when no portal is mapped.
StartCopy(op, frames) ==
  /\ "copy" \in Kinds
  /\ stack' = Append(frames, Submit(op))
  /\ UNCHANGED <<queue, kind, status>>

(* start() of a schedule operation, whose status has been set when it was  *)
(* made, only pushes it onto the queue.                                    *)
StartSchedule(op, frames) ==
  /\ "schedule" \in Kinds
  /\ kind' = [kind EXCEPT ![op] = "schedule"]
  /\ status' = [status EXCEPT ![op] = "success"]
  /\ queue' = PushOp(op)
  /\ stack' = frames

StartNext(frames) ==
  LET op == started + 1
  IN  /\ op \in Ops
      /\ started' = op
      /\ StartCopy(op, frames) \/ StartSchedule(op, frames)

Start ==
  /\ alive
  /\ stack = <<>>
  /\ StartNext(stack)
  /\ UNCHANGED <<directVars, completions, faults, alive>>

\* submit() past the gate: submit_descriptor, then push onto the queue.
SubmitDescriptor ==
  /\ InSubmit
  /\ GateOpen
  /\ Doorbell(Top.op)
  /\ inflight' = inflight + 1
  /\ queue' = PushOp(Top.op)
  /\ stack' = Pop
  /\ UNCHANGED <<mode, status, opVars, faults, alive>>

(* task_queue_.poll() up to the callbacks: the completed operations are    *)
(* unlinked from the list and pushed, one by one, onto a local list.       *)
Completed(op) == status[op] # "none"

PollWalk ==
  /\ queue' = SelectSeq(queue, LAMBDA op : ~Completed(op))
  /\ stack' = Push(Poll(Reverse(SelectSeq(queue, Completed))))
  /\ UNCHANGED <<directVars, status, opVars, faults, alive>>

\* The gate of submit() is closed: poll().
GatePoll ==
  /\ InSubmit
  /\ ~GateOpen
  /\ PollWalk

\* poll() called by the thread that waits for its operations.
UserPoll ==
  /\ alive
  /\ stack = <<>>
  /\ PollWalk

\* Mutant: an operation is notified and not counted.
Taken_NotCounted == [stack EXCEPT ![Len(stack)].list = Tail(@)]

\* The poll frame after the first operation of its list has been taken off.
Taken == [stack EXCEPT ![Len(stack)].list = Tail(@), ![Len(stack)].notified = @ + 1]

(* notify() of an operation that is done: its receiver is completed, after *)
(* which its memory belongs to the caller again.                           *)
NotifyDone ==
  /\ InPoll
  /\ Top.list # <<>>
  /\ LET op == Head(Top.list)
     IN  /\ status[op] \in {"success", "error"}
         /\ completions' = [completions EXCEPT ![op] = @ + 1]
         /\ \/ stack' = Taken /\ UNCHANGED <<queue, status, started, kind>>
            \/ StartNext(Taken)
  /\ UNCHANGED <<directVars, faults, alive>>

\* Mutant: the completion record keeps the page fault.
Cleared_Not(op) == status

\* The completion record is zeroed before the retry.
Cleared(op) == [status EXCEPT ![op] = "none"]

(* notify() of an operation that met a page fault: touch the page, advance *)
(* the descriptor, clear the completion record and submit() again.         *)
NotifyPageFault ==
  /\ InPoll
  /\ Top.list # <<>>
  /\ LET op == Head(Top.list)
     IN  /\ status[op] = "page_fault"
         /\ status' = Cleared(op)
         /\ stack' = Append(Taken, Submit(op))
  /\ UNCHANGED <<directVars, queue, opVars, faults, alive>>

\* poll() returns: submitter_.notify_complete(completed).
PollReturn ==
  /\ InPoll
  /\ Top.list = <<>>
  /\ inflight' = NotifyComplete(inflight, Top.notified)
  /\ stack' = Pop
  /\ UNCHANGED <<mode, wqVars, status, queue, opVars, faults, alive>>

\* ~DsaEngine: drain() of the DirectSubmitter does nothing.
Destroy ==
  /\ alive
  /\ stack = <<>>
  /\ alive' = FALSE
  /\ UNCHANGED <<directVars, status, queue, stack, opVars, faults>>

\* A thread inside submit() or poll().
Inside ==
  \/ SubmitDescriptor \/ GatePoll \/ NotifyDone \/ NotifyPageFault \/ PollReturn

-----------------------------------------------------------------------------
(* The device (external).                                                  *)

HwDispatch ==
  /\ \E op \in wq : Dispatch(op)
  /\ UNCHANGED <<mode, inflight, status, queue, stack, opVars, faults, alive>>

HwComplete ==
  /\ \E op \in running :
       /\ Retire(op)
       /\ \/ /\ status' = [status EXCEPT ![op] = "success"]
             /\ UNCHANGED faults
          \/ /\ status' = [status EXCEPT ![op] = "error"]
             /\ UNCHANGED faults
          \/ /\ faults < MaxFaults
             /\ status' = [status EXCEPT ![op] = "page_fault"]
             /\ faults' = faults + 1
  /\ UNCHANGED <<mode, inflight, queue, stack, opVars, alive>>

Next ==
  \/ Start
  \/ UserPoll
  \/ Destroy
  \/ Inside
  \/ HwDispatch
  \/ HwComplete

Spec == Init /\ [][Next]_vars

(* The device finishes what it started, a thread inside the engine is      *)
(* scheduled, and the thread that waits for its operations keeps polling.  *)
Fairness ==
  /\ WF_vars(HwDispatch)
  /\ WF_vars(HwComplete)
  /\ WF_vars(Inside)
  /\ WF_vars(UserPoll)

FairSpec == Spec /\ Fairness

-----------------------------------------------------------------------------
(* Properties.                                                             *)

TypeOK ==
  /\ mode \in Modes
  /\ InDevice \cup dropped \subseteq Ops
  /\ inflight \in Nat
  /\ status \in [Ops -> Statuses]
  /\ Range(queue) \subseteq Ops
  /\ started \in 0..NumOps
  /\ kind \in [Ops -> {"copy", "schedule"}]
  /\ completions \in [Ops -> Nat]
  /\ faults \in 0..MaxFaults

\* Operations that a frame of the stack still refers to.
OnStack ==
  UNION {IF f.fn = "submit" THEN {f.op} ELSE Range(f.list) : f \in Range(stack)}

\* Descriptors that are complete but not yet subtracted by notify_complete.
Unsubtracted ==
  Cardinality({i \in DOMAIN queue : Completed(queue[i])})
  + FoldSeq(LAMBDA f, n : IF f.fn = "poll" THEN n + Len(f.list) + f.notified ELSE n,
            0, stack)

\* No operation without a descriptor has been started.
OnlyCopies == \A op \in 1..started : kind[op] = "copy"

(* As long as only operations with a descriptor are started, inflight_ is  *)
(* the number of descriptors the device holds plus those that have         *)
(* completed and that no returning poll() has subtracted yet, however      *)
(* submit() and poll() nest.  It never undercounts and never saturates.    *)
InflightAccounting ==
  OnlyCopies => inflight = Cardinality(InDevice) + Cardinality(dropped) + Unsubtracted

(* README.md of src/dsa: "without backpressure, submissions silently drop  *)
(* when the WQ is full".  With it none is dropped, as long as poll() only  *)
(* subtracts what submit() has added.                                      *)
NoDrop == OnlyCopies => dropped = {}

(* Once its receiver has been completed, nothing refers to an operation    *)
(* any more: not the device, not the queue, not a frame of poll() or       *)
(* submit(); and it is completed at most once.                             *)
CompletedIsReleased ==
  \A op \in Ops :
    completions[op] > 0 =>
      /\ completions[op] = 1
      /\ op \notin InDevice
      /\ op \notin Range(queue)
      /\ op \notin OnStack

(* On a shared queue every started operation completes its receiver, as    *)
(* long as the engine lives: page faults, nested submissions and poll()    *)
(* frames never lose one.                                                  *)
EveryOpCompletes ==
  \A op \in Ops :
    (mode = "shared" /\ op <= started) ~> (completions[op] = 1 \/ ~alive)

(* DsaEngine::submit: "Backpressure: wait until WQ has space before        *)
(* submitting".  The wait ends: a submission at the gate goes through.     *)
GateIsPassed == \A op \in Ops : (InSubmit /\ Top.op = op) ~> (op \in InDevice)

=============================================================================
