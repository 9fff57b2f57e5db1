-------------------------- MODULE FixedRingSubmitter --------------------------
(***************************************************************************)
(* FixedRingSubmitter (descriptor_submitter.hpp): a ring of batch entries, *)
(* each with its own descriptor array and completion record.  batch_fill_  *)
(* is the entry that is being filled, batch_head_ the oldest one that may  *)
(* still be in flight; both only grow and are masked into the ring.        *)
(*                                                                         *)
(* The caller is DsaEngine on one thread (see StagingSubmitter).  A step   *)
(* is one iteration of a loop or the straight-line code between two loops, *)
(* so that the device may act in between.  Descriptors are numbered in the *)
(* order they are handed over.                                             *)
(***************************************************************************)
EXTENDS DirectSubmitter

CONSTANTS
  NumDescs,     \* bound on the descriptors handed over
  MaxBatch,     \* max_batch_size_
  NumBatches    \* num_batches_, a power of two

ASSUME FixedRingAssumption ==
  /\ NumDescs \in Nat
  /\ MaxBatch \in Nat \ {0}
  /\ NumBatches \in Nat \ {0}

VARIABLES
  descs,        \* batches_[i].descs
  count,        \* batches_[i].count
  state,        \* batches_[i].state
  comp,         \* batches_[i].comp.status: 0 until the device writes it
  batch_fill,   \* batch_fill_
  batch_head,   \* batch_head_
  pc,           \* where the thread is inside the submitter
  caller,       \* the function the running loop or seal returns to
  cur,          \* the argument of submit_descriptor
  phase,        \* "open", "draining" in drain(), "closed" after it
  handed,       \* history: number of submit_descriptor calls
  executed      \* history: executions of each descriptor by the device

ringVars == <<descs, count, state, batch_fill, batch_head>>
callVars == <<pc, caller, cur, phase>>
histVars == <<handed, executed>>
vars     == <<mode, inflight, wq, running, dropped, descs, count, state, comp,
              batch_fill, batch_head, pc, caller, cur, phase, handed, executed>>

Slots == 0..(NumBatches - 1)

\* batch_index: pos & (num_batches_ - 1)
batch_index(pos) == pos % NumBatches

Current == batch_index(batch_fill)

Single(d)     == [kind |-> "single", desc |-> d]
BatchOf(s, n) == [kind |-> "batch", slot |-> s, count |-> n, next |-> 0]

Singles == [kind : {"single"}, desc : 0..NumDescs]
Batches == [kind : {"batch"}, slot : Slots, count : 2..MaxBatch, next : 0..MaxBatch]

\* The place in the caller where a function of the submitter returns to.
ReturnTo(c) ==
  CASE c = "submit"   -> "idle"
    [] c = "pre_poll" -> "idle"
    [] c = "wait"     -> "slot"
    [] c = "drain"    -> "drain"

-----------------------------------------------------------------------------
(* Software.                                                               *)

Init ==
  /\ DirectInit
  /\ descs = [s \in Slots |-> [i \in 0..(MaxBatch - 1) |-> 0]]
  /\ count = [s \in Slots |-> 0]
  /\ state = [s \in Slots |-> "Free"]
  /\ comp = [s \in Slots |-> 0]
  /\ batch_fill = 0
  /\ batch_head = 0
  /\ pc = "idle"
  /\ caller = "submit"
  /\ cur = 0
  /\ phase = "open"
  /\ handed = 0
  /\ executed = [d \in 0..NumDescs |-> 0]

\* DsaEngine::submit past its gate calls submit_descriptor.
SubmitDescriptor ==
  /\ pc = "idle"
  /\ phase = "open"
  /\ handed < NumDescs
  /\ GateOpen
  /\ cur' = handed + 1
  /\ handed' = handed + 1
  /\ pc' = "slot"
  /\ UNCHANGED <<directVars, ringVars, comp, caller, phase, executed>>

\* submit_descriptor: "Wait for slot if current batch is still InFlight".
WaitForSlot ==
  /\ pc = "slot"
  /\ state[Current] = "InFlight"
  /\ pc' = "reclaim"
  /\ caller' = "wait"
  /\ UNCHANGED <<directVars, ringVars, comp, cur, phase, histVars>>

\* Mutant: an entry of max_batch_size_ descriptors takes one more.
BatchFull_OffByOne(n) == n > MaxBatch

BatchFull(n) == n >= MaxBatch

\* submit_descriptor: open a Free entry, copy the descriptor, seal when full.
StoreDescriptor ==
  LET fresh == state[Current] = "Free"
      n     == IF fresh THEN 0 ELSE count[Current]
  IN  /\ pc = "slot"
      /\ state[Current] # "InFlight"
      /\ state' = [state EXCEPT ![Current] = "Filling"]
      /\ comp' = IF fresh THEN [comp EXCEPT ![Current] = 0] ELSE comp
      /\ descs' = [descs EXCEPT ![Current][n] = cur]
      /\ count' = [count EXCEPT ![Current] = n + 1]
      /\ pc' = IF BatchFull(n + 1) THEN "seal" ELSE "idle"
      /\ caller' = "submit"
      /\ UNCHANGED <<directVars, batch_fill, batch_head, cur, phase, histVars>>

\* Mutant: a lone descriptor is left for a later batch.
PartialBatch_NotOne == state[Current] = "Filling" /\ count[Current] > 1

\* pre_poll() and drain() seal a partial batch before they go on.
PartialBatch == state[Current] = "Filling" /\ count[Current] > 0

PrePoll ==
  /\ pc = "idle"
  /\ phase = "open"
  /\ pc' = IF PartialBatch THEN "seal" ELSE "reclaim"
  /\ caller' = "pre_poll"
  /\ UNCHANGED <<directVars, ringVars, comp, cur, phase, histVars>>

Drain ==
  /\ pc = "idle"
  /\ phase = "open"
  /\ phase' = "draining"
  /\ pc' = IF PartialBatch THEN "seal" ELSE "drain"
  /\ caller' = "drain"
  /\ UNCHANGED <<directVars, ringVars, comp, cur, histVars>>

(* seal_and_submit_current() with submit_batch(): ring the doorbell and    *)
(* move on to the next entry.  A batch of one goes out as a plain          *)
(* descriptor; its doorbell is taken off the count at once and its entry   *)
(* is free again.  reclaim_completed() follows when the next entry is not  *)
(* free, and always when pre_poll() was the caller.                        *)
SealAndSubmit ==
  LET alone == count[Current] = 1
  IN  /\ pc = "seal"
      /\ Doorbell(IF alone THEN Single(descs[Current][0])
                           ELSE BatchOf(Current, count[Current]))
      /\ inflight' = IF alone THEN NotifyComplete(inflight + 1, 1) ELSE inflight + 1
      /\ state' = [state EXCEPT ![Current] = IF alone THEN "Free" ELSE "InFlight"]
      /\ batch_fill' = batch_fill + 1
      /\ pc' = IF caller = "pre_poll" \/ state'[batch_index(batch_fill + 1)] # "Free"
               THEN "reclaim" ELSE ReturnTo(caller)
      /\ UNCHANGED <<mode, descs, count, comp, batch_head, caller, cur, phase, histVars>>

(* One iteration of the loop of reclaim_completed().                       *)
Oldest == batch_index(batch_head)

\* Mutant: the loop goes on past a batch that has not completed.
HeadSkipped_AlsoPending == state[Oldest] = "Free" \/ comp[Oldest] = 0

\* An entry that went out as a single descriptor is free already.
HeadSkipped == state[Oldest] = "Free"

ReclaimSkipFree ==
  /\ pc = "reclaim"
  /\ batch_head # batch_fill
  /\ HeadSkipped
  /\ batch_head' = batch_head + 1
  /\ UNCHANGED <<directVars, descs, count, state, comp, batch_fill,
                 callVars, histVars>>

\* Mutant: the completion record is not looked at.
HeadCompleted_AnyStatus == state[Oldest] = "InFlight"

\* The batch at batch_head_ may be taken off: the device has reported it.
HeadCompleted == state[Oldest] = "InFlight" /\ comp[Oldest] # 0

ReclaimCompleted ==
  /\ pc = "reclaim"
  /\ batch_head # batch_fill
  /\ HeadCompleted
  /\ state' = [state EXCEPT ![Oldest] = "Free"]
  /\ inflight' = NotifyComplete(inflight, 1)
  /\ batch_head' = batch_head + 1
  /\ UNCHANGED <<mode, wqVars, descs, count, comp, batch_fill, callVars, histVars>>

ReclaimReturn ==
  /\ pc = "reclaim"
  /\ \/ batch_head = batch_fill
     \/ ~HeadSkipped /\ ~HeadCompleted
  /\ pc' = ReturnTo(caller)
  /\ UNCHANGED <<directVars, ringVars, comp, caller, cur, phase, histVars>>

\* drain(): wait until no entry is InFlight, reclaiming meanwhile.
DrainStep ==
  /\ pc = "drain"
  /\ IF \E s \in Slots : state[s] = "InFlight"
     THEN pc' = "reclaim" /\ phase' = phase
     ELSE pc' = "idle" /\ phase' = "closed"
  /\ UNCHANGED <<directVars, ringVars, comp, caller, cur, histVars>>

Reclaim == ReclaimSkipFree \/ ReclaimCompleted \/ ReclaimReturn

\* A thread that is inside a function of the submitter.
Inside == WaitForSlot \/ StoreDescriptor \/ SealAndSubmit \/ Reclaim \/ DrainStep

-----------------------------------------------------------------------------
(* The device (external).                                                  *)

HwDispatch ==
  /\ \E e \in wq : Dispatch(e)
  /\ UNCHANGED <<mode, inflight, ringVars, comp, callVars, histVars>>

\* A work descriptor that came in the portal write itself.
HwExecuteSingle ==
  /\ \E e \in running \cap Singles :
       /\ Retire(e)
       /\ executed' = [executed EXCEPT ![e.desc] = @ + 1]
  /\ UNCHANGED <<mode, inflight, ringVars, comp, callVars, handed>>

\* The device reads the next descriptor of a batch from memory, executes it.
HwExecuteFromBatch ==
  /\ \E e \in running \cap Batches :
       /\ e.next < e.count
       /\ executed' = [executed EXCEPT ![descs[e.slot][e.next]] = @ + 1]
       /\ running' = (running \ {e}) \cup {[e EXCEPT !.next = @ + 1]}
  /\ UNCHANGED <<mode, inflight, wq, dropped, ringVars, comp, callVars, handed>>

\* The device writes the completion record of the batch.
HwCompleteBatch ==
  /\ \E e \in running \cap Batches :
       /\ e.next = e.count
       /\ Retire(e)
       /\ comp' = [comp EXCEPT ![e.slot] = 1]
  /\ UNCHANGED <<mode, inflight, ringVars, callVars, histVars>>

Hardware == HwDispatch \/ HwExecuteSingle \/ HwExecuteFromBatch \/ HwCompleteBatch

Next ==
  \/ SubmitDescriptor
  \/ PrePoll
  \/ Drain
  \/ Inside
  \/ Hardware

Spec == Init /\ [][Next]_vars

(* The device finishes what it started, a thread inside the submitter is   *)
(* scheduled, and the thread that waits for its operations keeps polling   *)
(* until it shuts the engine down.                                         *)
Fairness ==
  /\ WF_vars(HwDispatch)
  /\ WF_vars(HwExecuteSingle)
  /\ WF_vars(HwExecuteFromBatch)
  /\ WF_vars(HwCompleteBatch)
  /\ WF_vars(Inside)
  /\ WF_vars(PrePoll)

FairSpec == Spec /\ Fairness

-----------------------------------------------------------------------------
(* Properties.                                                             *)

InFlightSlots == {s \in Slots : state[s] = "InFlight"}

TypeOK ==
  /\ mode \in Modes
  /\ wq \subseteq Singles \cup Batches
  /\ running \subseteq Singles \cup Batches
  /\ dropped \subseteq Singles \cup Batches
  /\ inflight \in Nat
  /\ descs \in [Slots -> [0..(MaxBatch - 1) -> 0..NumDescs]]
  /\ count \in [Slots -> 0..MaxBatch]
  /\ state \in [Slots -> {"Free", "Filling", "InFlight"}]
  /\ comp \in [Slots -> {0, 1}]
  /\ batch_fill \in Nat
  /\ batch_head \in Nat
  /\ pc \in {"idle", "slot", "seal", "reclaim", "drain"}
  /\ caller \in {"submit", "pre_poll", "wait", "drain"}
  /\ cur \in 0..NumDescs
  /\ phase \in {"open", "draining", "closed"}
  /\ handed \in 0..NumDescs
  /\ executed \in [0..NumDescs -> Nat]

(* inflight_ counts exactly the entries whose batch doorbell has not been  *)
(* reclaimed, through the +1 in submit_descriptor and the -1 in            *)
(* submit_batch and reclaim_completed; the saturation is never needed.     *)
InflightIsInFlightSlots == inflight = Cardinality(InFlightSlots)

(* An entry in flight is in the range that reclaim_completed() walks, so   *)
(* neither the wait in submit_descriptor nor drain() spins on an entry     *)
(* that nothing will ever free.                                            *)
InFlightIsReclaimable ==
  \A s \in InFlightSlots : \E p \in batch_head..(batch_fill - 1) : batch_index(p) = s

(* The descriptors of a batch that the device has still to read are not    *)
(* overwritten by submit_descriptor when the ring has gone round.          *)
NoWriteUnderDma ==
  [][\A e \in InDevice \cap Batches : \A k \in e.next..(e.count - 1) :
        descs'[e.slot][k] = descs[e.slot][k]]_vars

(* After drain() the device does not read an array of this object: the     *)
(* engine may unmap the portal and destroy the submitter.                  *)
DrainLeavesNoBatch == (phase = "closed") => (InDevice \cap Batches = {})

(* Each descriptor is executed at most once, with the contents it was      *)
(* handed over with, and no stale array slot is ever executed.             *)
Exec == INSTANCE DescriptorExecution
ExecutesOnce == Exec!Spec

(* On a shared queue every descriptor handed over is executed, as long as  *)
(* somebody polls or drains.                                               *)
EveryDescExecuted ==
  \A d \in 1..NumDescs : (mode = "shared" /\ d <= handed) ~> (executed[d] = 1)

(* On a shared queue drain() returns.                                      *)
DrainReturns == (mode = "shared" /\ phase = "draining") ~> (phase = "closed")

(* README.md of src/dsa: "WQ backpressure for dedicated queues. ...        *)
(* without backpressure, submissions silently drop when the WQ is full."   *)
NoDrop == dropped = {}

=============================================================================
