------------------------ MODULE MirroredRingSubmitter ------------------------
(***************************************************************************)
(* MirroredRingSubmitter (descriptor_submitter.hpp): DescriptorRing whose  *)
(* descriptor memory is a MirroredRing (mirrored_ring.hpp), the same pages *)
(* mapped twice in a row, so that a batch may cross the end of the ring.   *)
(* Memory is measured in descriptors of 64 bytes.                          *)
(***************************************************************************)
EXTENDS DescriptorRing

CONSTANT PageSlots     \* descriptors in a page (4096 / 64 in the program)

ASSUME PageAssumption == PageSlots \in Nat \ {0}

\* page_align_up
PageAlignUp(n) == ((n + PageSlots - 1) \div PageSlots) * PageSlots

\* region_size_: where the second mapping of the pages begins.
RegionSlots == PageAlignUp(DescRingSize)

\* Mutant: the pages are mapped once.
Fetch_NoMirror(i) == IF i < DescRingSize THEN desc_ring[i] ELSE 0

(* What the device reads at offset i of the double mapping.  The pages are *)
(* zero behind the last ring slot.                                         *)
Fetch(i) ==
  LET j == i % RegionSlots
  IN  IF j < DescRingSize THEN desc_ring[j] ELSE 0

\* "No wrap-around check needed".
StoreDescriptor ==
  /\ At("slot")
  /\ state[Current] # "InFlight"
  /\ Store

HwExecuteFromBatch ==
  \E e \in running \cap Batches : ExecuteNext(e, Fetch(e.start + e.next))

Inside ==
  \/ PollReturns \/ Gate \/ CheckSpace \/ WaitForSlot \/ StoreDescriptor
  \/ Return \/ Seal \/ Reclaim \/ DrainStep

Next ==
  \/ Submit
  \/ Callback
  \/ UserPoll
  \/ Drain
  \/ Inside
  \/ HwDispatch
  \/ HwExecuteSingle
  \/ HwExecuteFromBatch
  \/ HwCompleteBatch

Spec == Init /\ [][Next]_vars

-----------------------------------------------------------------------------
(* Properties.                                                             *)

(* The doorbell for d has been rung, or will be when the current entry is  *)
(* sealed.  (A dedicated queue may have discarded it.)                     *)
Held(d) ==
  \/ Single(d) \in InDevice \cup dropped
  \/ \E e \in (InDevice \cup dropped) \cap Batches : \E k \in e.next..(e.count - 1) :
       Fetch(e.start + k) = d
  \/ /\ state[Current] = "Filling"
     /\ \E k \in 0..(count[Current] - 1) : Fetch(start[Current] + k) = d

(* No descriptor is forgotten when callbacks submit from within a          *)
(* suspended submit_descriptor.                                            *)
NoLostDescriptor == \A d \in queued : executed[d] > 0 \/ Held(d)

(* Each descriptor is executed at most once, with the contents it was      *)
(* handed over with, and no stale ring slot is ever executed.              *)
Exec == INSTANCE DescriptorExecution
ExecutesOnce == Exec!Spec

=============================================================================
