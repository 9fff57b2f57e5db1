---------------------------- MODULE RingSubmitter ----------------------------
(***************************************************************************)
(* RingSubmitter (descriptor_submitter.hpp): DescriptorRing with batches   *)
(* that never cross the end of the descriptor ring.                        *)
(***************************************************************************)
EXTENDS DescriptorRing

\* Mutant: no wrap-around check.
MustWrap_Never == FALSE

\* "Wrap-around check": the entry has descriptors up to the end of the ring.
MustWrap ==
  state[Current] = "Filling" /\ count[Current] > 0 /\ desc_index(desc_tail) = 0

StoreDescriptor ==
  /\ At("slot")
  /\ state[Current] # "InFlight"
  /\ ~MustWrap
  /\ Store

SealBeforeWrap ==
  /\ At("slot")
  /\ MustWrap
  /\ GoTo("wrap")
  /\ todo' = <<"seal">>
  /\ UNCHANGED <<directVars, desc_ring, headVars, desc_tail, entryVars,
                 batch_fill, phase, queued, histVars>>

WaitAfterWrap ==
  /\ At("wrap")
  /\ state[Current] = "InFlight"
  /\ GoTo("wrap_poll")
  /\ todo' = <<"reclaim">>
  /\ UNCHANGED <<directVars, desc_ring, headVars, desc_tail, entryVars,
                 batch_fill, phase, queued, histVars>>

\* The new entry is set up without a look at its state.
StoreAfterWrap ==
  /\ At("wrap")
  /\ state[Current] # "InFlight"
  /\ StoreInto(0, 0, 0)

\* The ring is one array: behind its end the device finds no descriptor.
Fetch(i) == IF i < DescRingSize THEN desc_ring[i] ELSE 0

HwExecuteFromBatch ==
  \E e \in running \cap Batches : ExecuteNext(e, Fetch(e.start + e.next))

Inside ==
  \/ PollReturns \/ Gate \/ CheckSpace \/ WaitForSlot \/ StoreDescriptor
  \/ SealBeforeWrap \/ WaitAfterWrap \/ StoreAfterWrap \/ Return
  \/ Seal \/ Reclaim \/ DrainStep

Next ==
  \/ Submit
  \/ Callback
  \/ UserPoll
  \/ Drain
  \/ Inside
  \/ HwDispatch
  \/ HwExecuteSingle
  \/ HwExecuteFromBatch
  \/ HwCompleteBatch

Spec == Init /\ [][Next]_vars

(* The device finishes what it started, a thread inside the submitter is   *)
(* scheduled, and the thread that waits for its operations keeps polling.  *)
Fairness ==
  /\ WF_vars(HwDispatch)
  /\ WF_vars(HwExecuteSingle)
  /\ WF_vars(HwExecuteFromBatch)
  /\ WF_vars(HwCompleteBatch)
  /\ WF_vars(Inside)
  /\ WF_vars(UserPoll)

FairSpec == Spec /\ Fairness

-----------------------------------------------------------------------------
(* Properties.                                                             *)

TypeOK == RingTypeOK

(* The doorbell for d has been rung, or will be when the current entry is  *)
(* sealed.  (A dedicated queue may have discarded it.)                     *)
Held(d) ==
  \/ Single(d) \in InDevice \cup dropped
  \/ \E e \in (InDevice \cup dropped) \cap Batches : \E k \in e.next..(e.count - 1) :
       Fetch(e.start + k) = d
  \/ /\ state[Current] = "Filling"
     /\ \E k \in 0..(count[Current] - 1) : Fetch(start[Current] + k) = d

(* An operation that waits in the task queue has a descriptor that the     *)
(* device has executed or will be given: no descriptor is forgotten, by    *)
(* the wrap-around code ("seal the current batch and start a new one at    *)
(* index 0") in particular.                                                *)
NoLostDescriptor == \A d \in queued : executed[d] > 0 \/ Held(d)

(* Each descriptor is executed at most once, with the contents it was      *)
(* handed over with, and no stale ring slot is ever executed.              *)
Exec == INSTANCE DescriptorExecution
ExecutesOnce == Exec!Spec

(* On a shared queue every descriptor whose submission has begun is        *)
(* executed, as long as somebody polls or drains.                          *)
EveryDescExecuted ==
  \A d \in 1..NumDescs : (mode = "shared" /\ d <= handed) ~> (executed[d] = 1)

=============================================================================
