----------------------- MODULE StagingSubmitter_proofs -----------------------
(***************************************************************************)
(* Proofs about the StagingSubmitter, for every batch size, queue size and *)
(* number of descriptors, on dedicated and on shared queues.               *)
(*                                                                         *)
(* The inductive invariant comes in four layers, each proved with the help *)
(* of the ones before it: types (TypeOK, FillInv), the batch in the device *)
(* (BatchInv), the count of doorbells (CountInv), and the descriptors that *)
(* are still to be executed (DataInv).                                     *)
(***************************************************************************)
EXTENDS StagingSubmitter, FiniteSetTheorems, TLAPS

USE StagingAssumption, WqAssumption

\* The batches that the device has accepted and not completed.
DeviceBatches == InDevice \cap Batches

(* Between calls the active buffer has room for one more descriptor, and   *)
(* flush() only gets past its early return with something to send.         *)
FillInv ==
  /\ pc = "idle" => staged_count < MaxBatch
  /\ pc = "flush" => staged_count > 0

TypeInv == TypeOK /\ FillInv

-----------------------------------------------------------------------------
(* Types.                                                                  *)

LEMMA InitTypeInv == Init => TypeInv
  BY DEF Init, DirectInit, TypeInv, TypeOK, FillInv, Bufs

LEMMA SubmitTypeInv == TypeInv /\ SubmitDescriptor => TypeInv'
<1> SUFFICES ASSUME TypeInv, SubmitDescriptor
             PROVE  TypeInv'
  OBVIOUS
<1>1. /\ staged_count \in 0..(MaxBatch - 1)
      /\ handed + 1 \in 0..NumDescs
      /\ active_buf \in Bufs
  BY DEF TypeInv, TypeOK, FillInv, SubmitDescriptor
<1>2. staged' \in [Bufs -> [0..(MaxBatch - 1) -> 0..NumDescs]]
  <2>1. staged' = [staged EXCEPT ![active_buf] =
                     [staged[active_buf] EXCEPT ![staged_count] = handed + 1]]
    BY DEF SubmitDescriptor
  <2>2. [staged[active_buf] EXCEPT ![staged_count] = handed + 1]
          \in [0..(MaxBatch - 1) -> 0..NumDescs]
    BY <1>1 DEF TypeInv, TypeOK
  <2> QED
    BY <1>1, <2>1, <2>2 DEF TypeInv, TypeOK
<1>3. /\ staged_count' \in 0..MaxBatch
      /\ pc' \in {"idle", "flush"}
      /\ handed' \in 0..NumDescs
      /\ FillInv'
  BY <1>1 DEF SubmitDescriptor, BufferFull, FillInv
<1>4. UNCHANGED <<mode, inflight, wq, running, dropped, active_buf, batch_submitted,
                  batch_comp, phase, executed>>
  BY DEF SubmitDescriptor, wqVars
<1> QED
  BY <1>2, <1>3, <1>4 DEF TypeInv, TypeOK

LEMMA FlushTypeInv == TypeInv /\ Flush => TypeInv'
<1> SUFFICES ASSUME TypeInv, Flush
             PROVE  TypeInv'
  OBVIOUS
<1>1. active_buf \in Bufs /\ active_buf' \in Bufs
  BY DEF TypeInv, TypeOK, Flush, OtherBuf, Bufs
<1>2. inflight' \in Nat
  BY DEF TypeInv, TypeOK, Flush, NotifyComplete
<1>3. \E e \in Singles \cup Batches : Doorbell(e)
  <2>1. CASE staged_count = 1
    <3>1. Single(staged[active_buf][0]) \in Singles
      BY <1>1 DEF TypeInv, TypeOK, Single, Singles
    <3> QED
      BY <2>1, <3>1 DEF Flush
  <2>2. CASE staged_count # 1
    <3>1. BatchOf(active_buf, staged_count) \in Batches
      BY <1>1, <2>2 DEF TypeInv, TypeOK, FillInv, Flush, BatchOf, Batches
    <3> QED
      BY <2>2, <3>1 DEF Flush
  <2> QED
    BY <2>1, <2>2
<1>4. /\ wq' \subseteq Singles \cup Batches
      /\ running' \subseteq Singles \cup Batches
      /\ dropped' \subseteq Singles \cup Batches
  <2>1. PICK e \in Singles \cup Batches : Doorbell(e)
    BY <1>3
  <2>2. running' = running /\ wq' \subseteq wq \cup {e} /\ dropped' \subseteq dropped \cup {e}
    BY <2>1 DEF Doorbell
  <2> QED
    BY <2>2 DEF TypeInv, TypeOK
<1>5. batch_submitted' \in [Bufs -> BOOLEAN] /\ batch_comp' \in [Bufs -> {0, 1}]
  BY <1>1 DEF TypeInv, TypeOK, Flush
<1>6. /\ staged_count' \in 0..MaxBatch
      /\ pc' \in {"idle", "flush"}
      /\ phase' \in {"open", "draining", "closed"}
      /\ FillInv'
  BY DEF TypeInv, TypeOK, Flush, FillInv
<1>7. UNCHANGED <<mode, staged, handed, executed>>
  BY DEF Flush, histVars
<1> QED
  BY <1>1, <1>2, <1>4, <1>5, <1>6, <1>7 DEF TypeInv, TypeOK

LEMMA HardwareTypeInv == TypeInv /\ Hardware => TypeInv'
<1> SUFFICES ASSUME TypeInv, Hardware
             PROVE  TypeInv'
  OBVIOUS
<1>1. CASE HwDispatch
  <2>1. wq' \cup running' \subseteq Singles \cup Batches
    BY <1>1 DEF TypeInv, TypeOK, HwDispatch, Dispatch
  <2>2. UNCHANGED <<mode, inflight, dropped, staged, staged_count, active_buf,
                    batch_submitted, batch_comp, pc, phase, handed, executed>>
    BY <1>1 DEF HwDispatch, Dispatch, bufVars, histVars
  <2> QED
    BY <2>1, <2>2 DEF TypeInv, TypeOK, FillInv
<1>2. CASE HwExecuteSingle
  <2>1. running' \subseteq Singles \cup Batches
    BY <1>2 DEF TypeInv, TypeOK, HwExecuteSingle, Retire
  <2>2. executed' \in [0..NumDescs -> Nat]
    BY <1>2 DEF TypeInv, TypeOK, HwExecuteSingle, Singles
  <2>3. UNCHANGED <<mode, inflight, wq, dropped, staged, staged_count, active_buf,
                    batch_submitted, batch_comp, pc, phase, handed>>
    BY <1>2 DEF HwExecuteSingle, Retire, bufVars
  <2> QED
    BY <2>1, <2>2, <2>3 DEF TypeInv, TypeOK, FillInv
<1>3. CASE HwExecuteFromBatch
  <2>1. PICK e \in running \cap Batches :
          /\ e.next < e.count
          /\ executed' = [executed EXCEPT ![staged[e.buf][e.next]] = @ + 1]
          /\ running' = (running \ {e}) \cup {[e EXCEPT !.next = @ + 1]}
    BY <1>3 DEF HwExecuteFromBatch
  <2>2. [e EXCEPT !.next = @ + 1] \in Batches
    BY <2>1 DEF Batches
  <2>3. executed' \in [0..NumDescs -> Nat]
    BY <2>1 DEF Batches, TypeInv, TypeOK
  <2>4. UNCHANGED <<mode, inflight, wq, dropped, staged, staged_count, active_buf,
                    batch_submitted, batch_comp, pc, phase, handed>>
    BY <1>3 DEF HwExecuteFromBatch, bufVars
  <2> QED
    BY <2>1, <2>2, <2>3, <2>4 DEF TypeInv, TypeOK, FillInv
<1>4. CASE HwCompleteBatch
  <2>1. running' \subseteq Singles \cup Batches /\ batch_comp' \in [Bufs -> {0, 1}]
    BY <1>4 DEF TypeInv, TypeOK, HwCompleteBatch, Retire
  <2>2. UNCHANGED <<mode, inflight, wq, dropped, staged, staged_count, active_buf,
                    batch_submitted, pc, phase, handed, executed>>
    BY <1>4 DEF HwCompleteBatch, Retire, bufVars, histVars
  <2> QED
    BY <2>1, <2>2 DEF TypeInv, TypeOK, FillInv
<1> QED
  BY <1>1, <1>2, <1>3, <1>4 DEF Hardware

\* pre_poll() and drain() only decide whether flush() has something to do.
LEMMA CallsFlush ==
  ASSUME TypeInv, PrePoll \/ Drain
  PROVE  /\ UNCHANGED <<mode, inflight, wq, running, dropped, staged, staged_count,
                        active_buf, batch_submitted, batch_comp, handed, executed>>
         /\ pc' \in {"idle", "flush"} /\ phase' \in {"open", "draining", "closed"}
         /\ pc' = "flush" => staged_count > 0
         /\ pc = "idle"
  BY DEF TypeInv, TypeOK, PrePoll, Drain, Staged, directVars, bufVars, histVars

LEMMA NextTypeInv == TypeInv /\ [Next]_vars => TypeInv'
<1> SUFFICES ASSUME TypeInv, [Next]_vars
             PROVE  TypeInv'
  OBVIOUS
<1>1. CASE PrePoll \/ Drain
  BY <1>1, CallsFlush DEF TypeInv, TypeOK, FillInv
<1>2. CASE UNCHANGED vars
  BY <1>2 DEF vars, TypeInv, TypeOK, FillInv
<1> QED
  BY <1>1, <1>2, SubmitTypeInv, FlushTypeInv, HardwareTypeInv DEF Next

(* The copy in submit_descriptor never goes past the end of a staging      *)
(* buffer: staged_count_ is below max_batch_size_ between two calls.       *)
THEOREM TypeCorrect == Spec => []TypeInv
  BY InitTypeInv, NextTypeInv, PTL DEF Spec

(* The state of the submitter keeps its types for every batch size.        *)
THEOREM TypeOKCorrect == Spec => []TypeOK
  BY TypeCorrect, PTL DEF TypeInv

-----------------------------------------------------------------------------
(* The batch in the device.                                                *)

(* At most one batch is in the device, from the buffer that is not being   *)
(* filled; its completion record is awaited and still clear.               *)
BatchInv ==
  /\ \A e \in DeviceBatches :
       /\ e.buf # active_buf
       /\ batch_submitted[e.buf] = TRUE
       /\ batch_comp[e.buf] = 0
       /\ e.next <= e.count
  /\ \A e, f \in DeviceBatches : e = f
  /\ wq \cap running \cap Batches = {}
  /\ batch_submitted[active_buf] = FALSE

LEMMA InitBatchInv == Init => BatchInv
  BY DEF Init, DirectInit, BatchInv, DeviceBatches, InDevice, Bufs

\* The loop of flush() has seen the completion of the batch in the device.
LEMMA FlushAfterBatch ==
  ASSUME TypeInv, BatchInv, Flush
  PROVE  DeviceBatches = {}
<1> SUFFICES ASSUME NEW e \in DeviceBatches
             PROVE  FALSE
  OBVIOUS
<1>1. e.buf \in Bufs
  BY DEF DeviceBatches, Batches
<1>2. e.buf = OtherBuf(active_buf)
  BY <1>1 DEF BatchInv, TypeInv, TypeOK, OtherBuf, Bufs
<1> QED
  BY <1>2 DEF BatchInv, Flush, PrevReleased

LEMMA FlushBatchInv == TypeInv /\ BatchInv /\ Flush => BatchInv'
<1> SUFFICES ASSUME TypeInv, BatchInv, Flush
             PROVE  BatchInv'
  OBVIOUS
<1> DEFINE prev == OtherBuf(active_buf)
           new == BatchOf(active_buf, staged_count)
<1>1. prev \in Bufs /\ active_buf \in Bufs /\ active_buf # prev /\ active_buf' = prev
  BY DEF TypeInv, TypeOK, OtherBuf, Bufs, Flush
<1>2. wq \cap Batches = {} /\ running \cap Batches = {}
  BY FlushAfterBatch DEF DeviceBatches, InDevice
<1>3. CASE staged_count = 1
  <2>1. Single(staged[active_buf][0]) \notin Batches
    BY DEF Single, Batches
  <2>2. wq' \cap Batches = {} /\ running' \cap Batches = {}
    BY <1>2, <1>3, <2>1 DEF Flush, Doorbell
  <2>3. batch_submitted'[active_buf'] = FALSE
    BY <1>1, <1>3 DEF Flush, TypeInv, TypeOK
  <2> QED
    BY <2>2, <2>3 DEF BatchInv, DeviceBatches, InDevice
<1>4. CASE staged_count # 1
  <2>1. wq' \cap Batches \subseteq {new} /\ running' \cap Batches = {}
    BY <1>2, <1>4 DEF Flush, Doorbell
  <2>2. DeviceBatches' \subseteq {new}
    BY <2>1 DEF DeviceBatches, InDevice
  <2>3. new.buf = active_buf /\ new.next = 0 /\ new.count = staged_count
    BY DEF BatchOf
  <2>4. /\ batch_submitted'[active_buf] = TRUE
        /\ batch_submitted'[prev] = FALSE
        /\ batch_comp'[active_buf] = 0
    BY <1>1, <1>4 DEF Flush, TypeInv, TypeOK
  <2>5. 0 <= staged_count
    BY DEF TypeInv, TypeOK
  <2> QED
    BY <1>1, <2>1, <2>2, <2>3, <2>4, <2>5 DEF BatchInv
<1> QED
  BY <1>3, <1>4

LEMMA HardwareBatchInv == TypeInv /\ BatchInv /\ Hardware => BatchInv'
<1> SUFFICES ASSUME TypeInv, BatchInv, Hardware
             PROVE  BatchInv'
  OBVIOUS
<1>1. CASE HwDispatch
  <2>1. PICK e \in wq : Dispatch(e)
    BY <1>1 DEF HwDispatch
  <2>2. DeviceBatches' = DeviceBatches /\ wq' \cap running' \subseteq wq \cap running
    BY <2>1 DEF Dispatch, DeviceBatches, InDevice
  <2>3. UNCHANGED <<active_buf, batch_submitted, batch_comp>>
    BY <1>1 DEF HwDispatch, bufVars
  <2> QED
    BY <2>2, <2>3 DEF BatchInv
<1>2. CASE HwExecuteSingle
  <2>1. wq' = wq /\ running' \subseteq running
    BY <1>2 DEF HwExecuteSingle, Retire
  <2>2. DeviceBatches' \subseteq DeviceBatches
    BY <2>1 DEF DeviceBatches, InDevice
  <2>3. UNCHANGED <<active_buf, batch_submitted, batch_comp>>
    BY <1>2 DEF HwExecuteSingle, bufVars
  <2> QED
    BY <2>1, <2>2, <2>3 DEF BatchInv
<1>3. CASE HwExecuteFromBatch
  <2>1. PICK e \in running \cap Batches :
          /\ e.next < e.count
          /\ running' = (running \ {e}) \cup {[e EXCEPT !.next = @ + 1]}
    BY <1>3 DEF HwExecuteFromBatch
  <2> DEFINE new == [e EXCEPT !.next = @ + 1]
  <2>2. wq' = wq
    BY <1>3 DEF HwExecuteFromBatch
  <2>3. wq \cap Batches = {} /\ running \cap Batches = {e}
    BY DEF BatchInv, DeviceBatches, InDevice
  <2>4. wq' \cap Batches = {} /\ running' \cap Batches \subseteq {new}
    BY <2>1, <2>2, <2>3
  <2>5. DeviceBatches' \subseteq {new}
    BY <2>4 DEF DeviceBatches, InDevice
  <2>6. new.buf = e.buf /\ new.next = e.next + 1 /\ new.count = e.count
        /\ e.next \in Nat /\ e.count \in Nat
    BY DEF Batches
  <2>7. e \in DeviceBatches
    BY DEF DeviceBatches, InDevice
  <2>8. UNCHANGED <<active_buf, batch_submitted, batch_comp>>
    BY <1>3 DEF HwExecuteFromBatch, bufVars
  <2>9. \A f \in DeviceBatches' :
          /\ f.buf # active_buf'
          /\ batch_submitted'[f.buf] = TRUE
          /\ batch_comp'[f.buf] = 0
          /\ f.next <= f.count
    <3>1. /\ e.buf # active_buf
          /\ batch_submitted[e.buf] = TRUE
          /\ batch_comp[e.buf] = 0
      BY <2>7 DEF BatchInv
    <3>2. e.next + 1 <= e.count
      BY <2>1, <2>6
    <3> HIDE DEF new
    <3> QED
      BY <2>5, <2>6, <2>8, <3>1, <3>2
  <2> QED
    BY <2>4, <2>5, <2>8, <2>9 DEF BatchInv
<1>4. CASE HwCompleteBatch
  <2>1. PICK e \in running \cap Batches : Retire(e)
    BY <1>4 DEF HwCompleteBatch
  <2>2. wq \cap Batches = {} /\ running \cap Batches = {e}
    BY DEF BatchInv, DeviceBatches, InDevice
  <2>3. wq' \cap Batches = {} /\ running' \cap Batches = {}
    BY <2>1, <2>2 DEF Retire
  <2>4. UNCHANGED <<active_buf, batch_submitted>>
    BY <1>4 DEF HwCompleteBatch, bufVars
  <2> QED
    BY <2>3, <2>4 DEF BatchInv, DeviceBatches, InDevice
<1> QED
  BY <1>1, <1>2, <1>3, <1>4 DEF Hardware

LEMMA NextBatchInv == TypeInv /\ BatchInv /\ [Next]_vars => BatchInv'
<1> SUFFICES ASSUME TypeInv, BatchInv, [Next]_vars
             PROVE  BatchInv'
  OBVIOUS
<1>1. CASE SubmitDescriptor
  BY <1>1 DEF SubmitDescriptor, wqVars, BatchInv, DeviceBatches, InDevice
<1>2. CASE PrePoll \/ Drain
  BY <1>2, CallsFlush DEF BatchInv, DeviceBatches, InDevice
<1>3. CASE UNCHANGED vars
  BY <1>3 DEF vars, BatchInv, DeviceBatches, InDevice
<1> QED
  BY <1>1, <1>2, <1>3, FlushBatchInv, HardwareBatchInv DEF Next

(* The double buffering of flush(): the device never holds two batches,    *)
(* and never one whose array submit_descriptor is filling.                 *)
THEOREM BatchCorrect == Spec => []BatchInv
  BY TypeCorrect, InitBatchInv, NextBatchInv, PTL DEF Spec

(* submit_descriptor never writes to an array that the device has still to *)
(* read: the active buffer is never the one of the batch in the device.    *)
THEOREM NoWriteUnderDmaCorrect == Spec => NoWriteUnderDma
<1> DEFINE Kept == \A e \in InDevice \cap Batches : \A k \in e.next..(e.count - 1) :
                     staged'[e.buf][k] = staged[e.buf][k]
<1>1. TypeInv /\ BatchInv /\ [Next]_vars => Kept
  <2> SUFFICES ASSUME TypeInv, BatchInv, [Next]_vars,
                      NEW e \in InDevice \cap Batches
               PROVE  staged'[e.buf] = staged[e.buf]
    OBVIOUS
  <2>1. e.buf # active_buf /\ e.buf \in Bufs
    BY DEF BatchInv, DeviceBatches, Batches
  <2>2. CASE SubmitDescriptor
    BY <2>1, <2>2 DEF SubmitDescriptor, TypeInv, TypeOK
  <2>3. CASE PrePoll \/ Drain
    BY <2>3, CallsFlush
  <2>4. CASE Flush
    BY <2>4 DEF Flush
  <2>5. CASE Hardware
    BY <2>5 DEF Hardware, HwDispatch, HwExecuteSingle, HwExecuteFromBatch,
                HwCompleteBatch, bufVars
  <2>6. CASE UNCHANGED vars
    BY <2>6 DEF vars
  <2> QED
    BY <2>2, <2>3, <2>4, <2>5, <2>6 DEF Next
<1> QED
  BY <1>1, TypeCorrect, BatchCorrect, PTL DEF Spec, NoWriteUnderDma

-----------------------------------------------------------------------------
(* The count of doorbells.                                                 *)

\* 1 when the last batch is complete and flush() has not yet subtracted it.
Unsubtracted ==
  LET prev == OtherBuf(active_buf)
  IN  IF batch_submitted[prev] = TRUE /\ batch_comp[prev] # 0 THEN 1 ELSE 0

(* inflight_ covers what the device holds and the batch that flush() will  *)
(* subtract next; while something is staged on a dedicated queue there is  *)
(* room for one more doorbell, because the gate was open when it came in.  *)
CountInv ==
  /\ IsFiniteSet(InDevice)
  /\ Cardinality(InDevice) + Unsubtracted <= inflight
  /\ mode = "dedicated" /\ staged_count > 0 => inflight < WqSize
  /\ dropped = {}

LEMMA InitCountInv == Init => CountInv
<1> SUFFICES ASSUME Init
             PROVE  CountInv
  OBVIOUS
<1>1. InDevice = {}
  BY DEF Init, DirectInit, InDevice
<1>2. Unsubtracted = 0
  BY DEF Init, Unsubtracted, OtherBuf, Bufs
<1> QED
  BY <1>1, <1>2, FS_EmptySet DEF Init, DirectInit, CountInv

\* No doorbell meets a full queue.
LEMMA FlushHasRoom ==
  ASSUME TypeInv, CountInv, Flush
  PROVE  mode = "dedicated" => ~WqFull
<1> SUFFICES ASSUME mode = "dedicated"
             PROVE  ~WqFull
  OBVIOUS
<1>1. inflight < WqSize
  BY DEF CountInv, TypeInv, FillInv, Flush
<1>2. Cardinality(wq) <= Cardinality(InDevice) /\ Cardinality(wq) \in Nat
      /\ Cardinality(InDevice) \in Nat
  <2>1. IsFiniteSet(InDevice) /\ wq \subseteq InDevice
    BY DEF CountInv, InDevice
  <2> QED
    BY <2>1, FS_Subset, FS_CardinalityType
<1>3. Unsubtracted \in {0, 1}
  BY DEF Unsubtracted
<1> QED
  BY <1>1, <1>2, <1>3 DEF CountInv, WqFull, TypeInv, TypeOK

LEMMA FlushCountInv == TypeInv /\ BatchInv /\ CountInv /\ Flush => CountInv'
<1> SUFFICES ASSUME TypeInv, BatchInv, CountInv, Flush
             PROVE  CountInv'
  OBVIOUS
<1> DEFINE prev == OtherBuf(active_buf)
<1>1. prev \in Bufs /\ active_buf \in Bufs /\ active_buf # prev /\ active_buf' = prev
      /\ OtherBuf(active_buf') = active_buf
  BY DEF TypeInv, TypeOK, OtherBuf, Bufs, Flush
<1>2. PICK e : Doorbell(e)
  BY DEF Flush
<1>3. ~WqFull
  BY <1>2, FlushHasRoom DEF Doorbell, TypeInv, TypeOK
<1>4. InDevice' = InDevice \cup {e} /\ dropped' = dropped
  BY <1>2, <1>3 DEF Doorbell, InDevice
<1>5. /\ IsFiniteSet(InDevice')
      /\ Cardinality(InDevice) \in Nat /\ Cardinality(InDevice') \in Nat
      /\ Cardinality(InDevice') <= Cardinality(InDevice) + 1
  <2>1. IsFiniteSet(InDevice)
    BY DEF CountInv
  <2>2. /\ IsFiniteSet(InDevice \cup {e})
        /\ \/ Cardinality(InDevice \cup {e}) = Cardinality(InDevice)
           \/ Cardinality(InDevice \cup {e}) = Cardinality(InDevice) + 1
    BY <2>1, FS_AddElement
  <2>3. Cardinality(InDevice) \in Nat
    BY <2>1, FS_CardinalityType
  <2> QED
    BY <1>4, <2>2, <2>3
<1>6. inflight' = inflight - Unsubtracted + 1
  <2>1. CASE batch_submitted[prev] = TRUE
    <3>1. batch_comp[prev] # 0
      BY <2>1 DEF Flush, PrevReleased
    <3>2. Unsubtracted = 1
      BY <2>1, <3>1 DEF Unsubtracted
    <3> QED
      BY <1>5, <2>1, <3>2 DEF Flush, NotifyComplete, CountInv, TypeInv, TypeOK
  <2>2. CASE batch_submitted[prev] = FALSE
    BY <2>2 DEF Flush, Unsubtracted, TypeInv, TypeOK
  <2> QED
    BY <1>1, <2>1, <2>2 DEF TypeInv, TypeOK
<1>7. Unsubtracted' = 0
  <2>1. CASE staged_count = 1
    <3>1. batch_submitted'[active_buf] = FALSE
      BY <1>1, <2>1 DEF Flush, BatchInv, TypeInv, TypeOK
    <3> QED
      BY <1>1, <3>1 DEF Unsubtracted
  <2>2. CASE staged_count # 1
    <3>1. batch_comp'[active_buf] = 0
      BY <1>1, <2>2 DEF Flush, TypeInv, TypeOK
    <3> QED
      BY <1>1, <3>1 DEF Unsubtracted
  <2> QED
    BY <2>1, <2>2
<1>8. Unsubtracted \in {0, 1} /\ inflight \in Nat
  BY DEF Unsubtracted, TypeInv, TypeOK
<1>9. Cardinality(InDevice') + Unsubtracted' <= inflight'
  BY <1>5, <1>6, <1>7, <1>8 DEF CountInv
<1>10. staged_count' = 0
  BY DEF Flush
<1> QED
  BY <1>4, <1>5, <1>9, <1>10 DEF CountInv

LEMMA HardwareCountInv == TypeInv /\ BatchInv /\ CountInv /\ Hardware => CountInv'
<1> SUFFICES ASSUME TypeInv, BatchInv, CountInv, Hardware
             PROVE  CountInv'
  OBVIOUS
<1>1. UNCHANGED <<mode, inflight, dropped, staged_count, active_buf, batch_submitted>>
  BY DEF Hardware, HwDispatch, HwExecuteSingle, HwExecuteFromBatch, HwCompleteBatch,
         Dispatch, Retire, bufVars
<1>2. Cardinality(InDevice) \in Nat /\ Unsubtracted \in {0, 1} /\ inflight \in Nat
  BY FS_CardinalityType DEF CountInv, Unsubtracted, TypeInv, TypeOK
<1>3. CASE HwDispatch
  <2>1. InDevice' = InDevice /\ batch_comp' = batch_comp
    BY <1>3 DEF HwDispatch, Dispatch, InDevice
  <2> QED
    BY <1>1, <2>1 DEF CountInv, Unsubtracted
<1>4. CASE HwExecuteSingle
  <2>1. InDevice' \subseteq InDevice /\ batch_comp' = batch_comp
    BY <1>4 DEF HwExecuteSingle, Retire, InDevice
  <2>2. IsFiniteSet(InDevice') /\ Cardinality(InDevice') <= Cardinality(InDevice)
        /\ Cardinality(InDevice') \in Nat
    BY <2>1, FS_Subset, FS_CardinalityType DEF CountInv
  <2>3. Unsubtracted' = Unsubtracted
    BY <1>1, <2>1 DEF Unsubtracted
  <2> QED
    BY <1>1, <1>2, <2>2, <2>3 DEF CountInv
<1>5. CASE HwExecuteFromBatch
  <2>1. PICK e \in running \cap Batches :
          running' = (running \ {e}) \cup {[e EXCEPT !.next = @ + 1]}
    BY <1>5 DEF HwExecuteFromBatch
  <2> DEFINE new == [e EXCEPT !.next = @ + 1]
             rest == InDevice \ {e}
  <2>2. e \in InDevice /\ e \notin wq
    BY DEF InDevice, BatchInv
  <2>3. InDevice' = rest \cup {new} /\ batch_comp' = batch_comp
    BY <1>5, <2>1, <2>2 DEF HwExecuteFromBatch, InDevice
  <2> HIDE DEF new
  <2>4. IsFiniteSet(rest) /\ Cardinality(rest) = Cardinality(InDevice) - 1
    BY <2>2, FS_RemoveElement DEF CountInv
  <2>5. IsFiniteSet(InDevice') /\ Cardinality(InDevice') <= Cardinality(InDevice)
        /\ Cardinality(InDevice') \in Nat
    <3>1. /\ IsFiniteSet(rest \cup {new})
          /\ \/ Cardinality(rest \cup {new}) = Cardinality(rest)
             \/ Cardinality(rest \cup {new}) = Cardinality(rest) + 1
      BY <2>4, FS_AddElement
    <3>2. Cardinality(rest \cup {new}) \in Nat
      BY <3>1, FS_CardinalityType
    <3> QED
      BY <1>2, <2>3, <2>4, <3>1, <3>2
  <2>6. Unsubtracted' = Unsubtracted
    BY <1>1, <2>3 DEF Unsubtracted
  <2> QED
    BY <1>1, <1>2, <2>5, <2>6 DEF CountInv
<1>6. CASE HwCompleteBatch
  <2>1. PICK e \in running \cap Batches : Retire(e)
    BY <1>6 DEF HwCompleteBatch
  <2>2. e \in InDevice /\ e \notin wq /\ InDevice' = InDevice \ {e}
    BY <2>1 DEF InDevice, BatchInv, Retire
  <2>3. IsFiniteSet(InDevice') /\ Cardinality(InDevice') = Cardinality(InDevice) - 1
    BY <2>2, FS_RemoveElement DEF CountInv
  <2>4. Unsubtracted = 0
    <3>1. e \in DeviceBatches /\ e.buf \in Bufs
      BY <2>2 DEF DeviceBatches, Batches
    <3>2. e.buf = OtherBuf(active_buf)
      BY <3>1 DEF BatchInv, OtherBuf, Bufs, TypeInv, TypeOK
    <3> QED
      BY <3>1, <3>2 DEF BatchInv, Unsubtracted
  <2>5. Unsubtracted' \in {0, 1}
    BY DEF Unsubtracted
  <2> QED
    BY <1>1, <1>2, <2>3, <2>4, <2>5 DEF CountInv
<1> QED
  BY <1>3, <1>4, <1>5, <1>6 DEF Hardware

LEMMA NextCountInv == TypeInv /\ BatchInv /\ CountInv /\ [Next]_vars => CountInv'
<1> SUFFICES ASSUME TypeInv, BatchInv, CountInv, [Next]_vars
             PROVE  CountInv'
  OBVIOUS
<1>1. CASE SubmitDescriptor
  <2>1. mode = "dedicated" => inflight < WqSize
    BY <1>1 DEF SubmitDescriptor, GateOpen, WqCapacity
  <2>2. UNCHANGED <<mode, inflight, wq, running, dropped, active_buf, batch_submitted,
                    batch_comp>>
    BY <1>1 DEF SubmitDescriptor, wqVars
  <2> QED
    BY <2>1, <2>2 DEF CountInv, Unsubtracted, InDevice
<1>2. CASE PrePoll \/ Drain
  BY <1>2, CallsFlush DEF CountInv, Unsubtracted, InDevice
<1>3. CASE UNCHANGED vars
  BY <1>3 DEF vars, CountInv, Unsubtracted, InDevice
<1> QED
  BY <1>1, <1>2, <1>3, FlushCountInv, HardwareCountInv DEF Next

(* inflight_ never undercounts the doorbells that the device still holds.  *)
THEOREM CountCorrect == Spec => []CountInv
  BY TypeCorrect, BatchCorrect, InitCountInv, NextCountInv, PTL DEF Spec

(* The gate of DsaEngine::submit, which only looks at inflight_, keeps     *)
(* every doorbell of flush() within a dedicated queue of any size.         *)
THEOREM NoDropCorrect == Spec => []NoDrop
  BY CountCorrect, PTL DEF CountInv, NoDrop

-----------------------------------------------------------------------------
(* The completion records that flush() waits for.                          *)

AwaitInv ==
  \A b \in Bufs : batch_submitted[b] = TRUE /\ batch_comp[b] = 0 =>
                    \E e \in DeviceBatches : e.buf = b

LEMMA InitAwaitInv == Init => AwaitInv
  BY DEF Init, AwaitInv, Bufs

LEMMA FlushAwaitInv ==
  ASSUME TypeInv, BatchInv, CountInv, Flush
  PROVE  AwaitInv'
<1> DEFINE prev == OtherBuf(active_buf)
           new == BatchOf(active_buf, staged_count)
<1>1. prev \in Bufs /\ active_buf \in Bufs /\ active_buf # prev /\ Bufs = {prev, active_buf}
  BY DEF TypeInv, TypeOK, OtherBuf, Bufs
<1>2. batch_submitted'[prev] = FALSE
  BY <1>1 DEF Flush, TypeInv, TypeOK
<1>3. CASE staged_count = 1
  <2>1. batch_submitted'[active_buf] = FALSE
    BY <1>1, <1>3 DEF Flush, BatchInv, TypeInv, TypeOK
  <2> QED
    BY <1>1, <1>2, <2>1 DEF AwaitInv
<1>4. CASE staged_count # 1
  <2>1. new \in wq'
    BY <1>4, FlushHasRoom DEF Flush, Doorbell
  <2>2. new \in Batches /\ new.buf = active_buf
    BY <1>1, <1>4 DEF TypeInv, TypeOK, FillInv, Flush, BatchOf, Batches
  <2>3. new \in DeviceBatches'
    BY <2>1, <2>2 DEF DeviceBatches, InDevice
  <2> QED
    BY <1>1, <1>2, <2>2, <2>3 DEF AwaitInv
<1> QED
  BY <1>3, <1>4

LEMMA HardwareAwaitInv ==
  ASSUME TypeInv, BatchInv, AwaitInv, Hardware
  PROVE  AwaitInv'
<1>1. batch_submitted' = batch_submitted
  BY DEF Hardware, HwDispatch, HwExecuteSingle, HwExecuteFromBatch, HwCompleteBatch, bufVars
<1>2. CASE HwDispatch
  <2>1. DeviceBatches' = DeviceBatches /\ batch_comp' = batch_comp
    BY <1>2 DEF HwDispatch, Dispatch, DeviceBatches, InDevice
  <2> QED
    BY <1>1, <2>1 DEF AwaitInv
<1>3. CASE HwExecuteSingle
  <2>1. PICK e \in Singles : Retire(e)
    BY <1>3 DEF HwExecuteSingle
  <2>2. e \notin Batches
    BY DEF Singles, Batches
  <2>3. DeviceBatches' = DeviceBatches /\ batch_comp' = batch_comp
    <3>1. wq' = wq /\ running' \cap Batches = running \cap Batches
      BY <2>1, <2>2 DEF Retire
    <3> QED
      BY <1>3, <3>1 DEF HwExecuteSingle, DeviceBatches, InDevice
  <2> QED
    BY <1>1, <2>3 DEF AwaitInv
<1>4. CASE HwExecuteFromBatch
  <2>1. PICK e \in running \cap Batches :
          /\ e.next < e.count
          /\ running' = (running \ {e}) \cup {[e EXCEPT !.next = @ + 1]}
    BY <1>4 DEF HwExecuteFromBatch
  <2> DEFINE new == [e EXCEPT !.next = @ + 1]
  <2>2. new \in Batches /\ new.buf = e.buf
    BY <2>1 DEF Batches
  <2>3. new \in DeviceBatches'
    BY <2>1, <2>2 DEF DeviceBatches, InDevice
  <2>4. e \in DeviceBatches /\ batch_comp' = batch_comp
    BY <1>4 DEF HwExecuteFromBatch, DeviceBatches, InDevice
  <2> HIDE DEF new
  <2> QED
    BY <1>1, <2>2, <2>3, <2>4 DEF AwaitInv, BatchInv
<1>5. CASE HwCompleteBatch
  <2>1. PICK e \in running \cap Batches : batch_comp' = [batch_comp EXCEPT ![e.buf] = 1]
    BY <1>5 DEF HwCompleteBatch
  <2>2. e \in DeviceBatches /\ e.buf \in Bufs
    BY DEF DeviceBatches, InDevice, Batches
  <2>3. batch_comp'[e.buf] = 1 /\ \A b \in Bufs : b # e.buf => batch_comp'[b] = batch_comp[b]
    BY <2>1, <2>2 DEF TypeInv, TypeOK
  <2> QED
    BY <1>1, <2>2, <2>3 DEF AwaitInv, BatchInv
<1> QED
  BY <1>2, <1>3, <1>4, <1>5 DEF Hardware

LEMMA NextAwaitInv ==
  TypeInv /\ BatchInv /\ CountInv /\ AwaitInv /\ [Next]_vars => AwaitInv'
<1> SUFFICES ASSUME TypeInv, BatchInv, CountInv, AwaitInv, [Next]_vars
             PROVE  AwaitInv'
  OBVIOUS
<1>1. CASE SubmitDescriptor
  BY <1>1 DEF SubmitDescriptor, wqVars, AwaitInv, DeviceBatches, InDevice
<1>2. CASE PrePoll \/ Drain
  BY <1>2, CallsFlush DEF AwaitInv, DeviceBatches, InDevice
<1>3. CASE UNCHANGED vars
  BY <1>3 DEF vars, AwaitInv, DeviceBatches, InDevice
<1> QED
  BY <1>1, <1>2, <1>3, FlushAwaitInv, HardwareAwaitInv DEF Next

(* The loop of flush() spins exactly while the device holds the batch it   *)
(* waits for, so it can end, and it does not end early.                    *)
THEOREM AwaitedBatchCorrect == Spec => []AwaitedBatchIsInDevice
<1>1. TypeInv /\ BatchInv /\ AwaitInv => AwaitedBatchIsInDevice
  <2> SUFFICES ASSUME TypeInv, BatchInv, AwaitInv, NEW b \in Bufs
               PROVE  (batch_submitted[b] /\ batch_comp[b] = 0) <=>
                        \E e \in InDevice \cap Batches : e.buf = b
    BY DEF AwaitedBatchIsInDevice
  <2>1. batch_submitted[b] \in BOOLEAN
    BY DEF TypeInv, TypeOK
  <2> QED
    BY <2>1 DEF AwaitInv, BatchInv, DeviceBatches
<1> QED
  BY <1>1, InitAwaitInv, NextAwaitInv, TypeCorrect, BatchCorrect, CountCorrect, PTL DEF Spec

-----------------------------------------------------------------------------
(* The descriptors that are still to be executed.                          *)

\* Number of descriptors that flush() has sent.
Sent == handed - staged_count

DeviceSingles == InDevice \cap Singles

\* Descriptor array slots that the device has still to read.
Unread(e) == e.next..(e.count - 1)

(* The active buffer holds the descriptors handed over since the last      *)
(* flush(), in order.                                                      *)
StagedInv ==
  /\ staged_count <= handed
  /\ \A i \in 0..(staged_count - 1) : staged[active_buf][i] = Sent + 1 + i
  /\ \A d \in 0..NumDescs : d > Sent => executed[d] = 0

\* A single descriptor in the device has been sent and not been executed.
SingleInv ==
  /\ \A e \in DeviceSingles : e.desc \in 1..Sent /\ executed[e.desc] = 0
  /\ wq \cap running = {}

(* So has each descriptor that is still to be read, and it is in no other  *)
(* slot and no other doorbell.                                             *)
UnreadInv ==
  \A e \in DeviceBatches : \A k \in Unread(e) :
    /\ staged[e.buf][k] \in 1..Sent
    /\ executed[staged[e.buf][k]] = 0
    /\ \A l \in Unread(e) : l # k => staged[e.buf][l] # staged[e.buf][k]
    /\ \A s \in DeviceSingles : s.desc # staged[e.buf][k]

DataInv == StagedInv /\ SingleInv /\ UnreadInv

LEMMA InitDataInv == Init => DataInv
  BY DEF Init, DirectInit, DataInv, StagedInv, SingleInv, UnreadInv, DeviceSingles,
         DeviceBatches, InDevice, Sent

LEMMA SubmitDataInv ==
  ASSUME TypeInv, BatchInv, DataInv, SubmitDescriptor
  PROVE  DataInv'
<1>1. UNCHANGED <<wq, running, executed, active_buf>>
  BY DEF SubmitDescriptor, wqVars
<1>2. Sent' = Sent
  BY DEF SubmitDescriptor, Sent, TypeInv, TypeOK
<1>3. InDevice' = InDevice /\ DeviceSingles' = DeviceSingles /\ DeviceBatches' = DeviceBatches
  BY <1>1 DEF InDevice, DeviceSingles, DeviceBatches
<1>4. /\ active_buf \in Bufs
      /\ staged_count \in 0..(MaxBatch - 1)
      /\ staged'[active_buf] = [staged[active_buf] EXCEPT ![staged_count] = handed + 1]
      /\ \A b \in Bufs : b # active_buf => staged'[b] = staged[b]
  BY DEF SubmitDescriptor, TypeInv, TypeOK, FillInv
<1>5. StagedInv'
  <2>1. staged_count' <= handed'
    BY DEF SubmitDescriptor, DataInv, StagedInv, TypeInv, TypeOK
  <2>2. ASSUME NEW i \in 0..(staged_count' - 1)
        PROVE  staged'[active_buf][i] = Sent + 1 + i
    <3>1. CASE i = staged_count
      BY <1>4, <3>1 DEF Sent, TypeInv, TypeOK
    <3>2. CASE i # staged_count
      <4>1. i \in 0..(staged_count - 1) /\ i \in 0..(MaxBatch - 1)
        BY <1>4, <3>2 DEF SubmitDescriptor
      <4>2. staged'[active_buf][i] = staged[active_buf][i]
        BY <1>4, <3>2, <4>1 DEF TypeInv, TypeOK
      <4> QED
        BY <4>1, <4>2 DEF DataInv, StagedInv
    <3> QED
      BY <3>1, <3>2
  <2> QED
    BY <1>1, <1>2, <2>1, <2>2 DEF DataInv, StagedInv
<1>6. SingleInv'
  BY <1>1, <1>2, <1>3 DEF DataInv, SingleInv
<1>7. UnreadInv'
  <2>1. \A e \in DeviceBatches : e.buf \in Bufs /\ staged'[e.buf] = staged[e.buf]
    BY <1>4 DEF BatchInv, DeviceBatches, Batches
  <2> QED
    BY <1>1, <1>2, <1>3, <2>1 DEF DataInv, UnreadInv, Unread
<1> QED
  BY <1>5, <1>6, <1>7 DEF DataInv

LEMMA FlushDataInv ==
  ASSUME TypeInv, BatchInv, CountInv, DataInv, Flush
  PROVE  DataInv'
<1>1. /\ staged_count' = 0 /\ handed' = handed /\ executed' = executed /\ staged' = staged
      /\ handed \in 0..NumDescs /\ staged_count \in 1..MaxBatch /\ staged_count <= handed
      /\ active_buf \in Bufs
  BY DEF Flush, histVars, TypeInv, TypeOK, FillInv, DataInv, StagedInv
<1>2. Sent' = handed /\ Sent \in 0..NumDescs /\ Sent < handed /\ handed = Sent + staged_count
  BY <1>1 DEF Sent
<1>3. StagedInv'
  BY <1>1, <1>2 DEF DataInv, StagedInv
<1>4. DeviceBatches = {}
  BY FlushAfterBatch
<1>5. \A i \in 0..(staged_count - 1) :
        staged[active_buf][i] = Sent + 1 + i /\ executed[Sent + 1 + i] = 0
  BY <1>1, <1>2 DEF DataInv, StagedInv
<1>6. CASE staged_count = 1
  <2> DEFINE new == Single(Sent + 1)
  <2>1. wq' = wq \cup {new} /\ running' = running
    <3>1. staged[active_buf][0] = Sent + 1
      BY <1>2, <1>5, <1>6
    <3>2. Doorbell(Single(staged[active_buf][0]))
      BY <1>6 DEF Flush
    <3>3. Doorbell(new)
      BY <3>1, <3>2
    <3> QED
      BY <3>3, FlushHasRoom DEF Doorbell
  <2>2. new \in Singles /\ new.desc = Sent + 1 /\ new \notin Batches
    BY <1>1, <1>2 DEF Single, Singles, Batches
  <2> HIDE DEF new
  <2>3. DeviceSingles' = DeviceSingles \cup {new} /\ DeviceBatches' = {}
    BY <1>4, <2>1, <2>2 DEF DeviceSingles, DeviceBatches, InDevice
  <2>4. new \notin running
    BY <1>2, <2>2 DEF DataInv, SingleInv, DeviceSingles, InDevice
  <2>5. SingleInv'
    <3>1. \A e \in DeviceSingles' : e.desc \in 1..handed /\ executed[e.desc] = 0
      BY <1>1, <1>2, <1>5, <2>2, <2>3 DEF DataInv, SingleInv
    <3>2. wq' \cap running' = {}
      BY <2>1, <2>4 DEF DataInv, SingleInv
    <3> QED
      BY <1>1, <1>2, <3>1, <3>2 DEF SingleInv
  <2>6. UnreadInv'
    BY <2>3 DEF UnreadInv
  <2> QED
    BY <1>3, <2>5, <2>6 DEF DataInv
<1>7. CASE staged_count # 1
  <2> DEFINE new == BatchOf(active_buf, staged_count)
  <2>1. wq' = wq \cup {new} /\ running' = running
    BY <1>7, FlushHasRoom DEF Flush, Doorbell
  <2>2. /\ new \in Batches /\ new \notin Singles
        /\ new.buf = active_buf /\ new.next = 0 /\ new.count = staged_count
    BY <1>1, <1>7 DEF BatchOf, Batches, Singles
  <2> HIDE DEF new
  <2>3. DeviceSingles' = DeviceSingles /\ DeviceBatches' = {new}
    BY <1>4, <2>1, <2>2 DEF DeviceSingles, DeviceBatches, InDevice
  <2>4. new \notin running
    BY <1>4, <2>2 DEF DeviceBatches, InDevice
  <2>5. SingleInv'
    <3>1. \A e \in DeviceSingles' : e.desc \in 1..handed /\ executed[e.desc] = 0
      BY <1>1, <1>2, <2>3 DEF DataInv, SingleInv
    <3>2. wq' \cap running' = {}
      BY <2>1, <2>4 DEF DataInv, SingleInv
    <3> QED
      BY <1>1, <1>2, <3>1, <3>2 DEF SingleInv
  <2>6. UnreadInv'
    <3>1. Unread(new) = 0..(staged_count - 1)
      BY <2>2 DEF Unread
    <3>2. \A s \in DeviceSingles : s.desc \in 1..Sent
      BY DEF DataInv, SingleInv
    <3>3. \A k \in Unread(new) :
            /\ staged[new.buf][k] = Sent + 1 + k
            /\ executed[Sent + 1 + k] = 0
            /\ Sent + 1 + k \in 1..handed
      BY <1>1, <1>2, <1>5, <2>2, <3>1
    <3>4. \A k, l \in Unread(new) : l # k => staged[new.buf][l] # staged[new.buf][k]
      BY <1>2, <3>1, <3>3
    <3>5. \A k \in Unread(new) : \A s \in DeviceSingles : s.desc # staged[new.buf][k]
      BY <1>2, <3>1, <3>2, <3>3
    <3> QED
      BY <1>1, <1>2, <2>3, <3>3, <3>4, <3>5 DEF UnreadInv, Unread
  <2> QED
    BY <1>3, <2>5, <2>6 DEF DataInv
<1> QED
  BY <1>6, <1>7

LEMMA DispatchDataInv ==
  ASSUME TypeInv, DataInv, HwDispatch
  PROVE  DataInv'
<1>1. PICK e \in wq : Dispatch(e)
  BY DEF HwDispatch
<1>2. InDevice' = InDevice /\ wq' \cap running' = {}
  BY <1>1 DEF Dispatch, InDevice, DataInv, SingleInv
<1>3. DeviceSingles' = DeviceSingles /\ DeviceBatches' = DeviceBatches
  BY <1>2 DEF DeviceSingles, DeviceBatches
<1>4. UNCHANGED <<staged, staged_count, active_buf, handed, executed>>
  BY DEF HwDispatch, bufVars, histVars
<1> QED
  BY <1>2, <1>3, <1>4 DEF DataInv, StagedInv, SingleInv, UnreadInv, Unread, Sent

LEMMA ExecuteSingleDataInv ==
  ASSUME TypeInv, BatchInv, DataInv,
         NEW e \in running \cap Singles,
         Retire(e), executed' = [executed EXCEPT ![e.desc] = @ + 1],
         UNCHANGED <<staged, staged_count, active_buf, handed>>
  PROVE  DataInv'
<1>1. e \in DeviceSingles /\ e \notin wq /\ e \notin Batches
  BY DEF DeviceSingles, InDevice, DataInv, SingleInv, Singles, Batches
<1>2. e.desc \in 1..Sent /\ e.desc \in 0..NumDescs
  BY <1>1 DEF DataInv, SingleInv, Singles
<1>3. InDevice' = InDevice \ {e} /\ wq' \cap running' = {}
  BY <1>1 DEF Retire, InDevice, DataInv, SingleInv
<1>4. DeviceSingles' = DeviceSingles \ {e} /\ DeviceBatches' = DeviceBatches
  BY <1>1, <1>3 DEF DeviceSingles, DeviceBatches
<1>5. \A d \in 0..NumDescs : d # e.desc => executed'[d] = executed[d]
  BY DEF TypeInv, TypeOK
<1>6. Sent' = Sent /\ Sent \in 0..NumDescs
  BY DEF Sent, TypeInv, TypeOK, DataInv, StagedInv
<1>7. StagedInv'
  BY <1>2, <1>5, <1>6 DEF DataInv, StagedInv
<1>8. SingleInv'
  <2>1. ASSUME NEW f \in DeviceSingles'
        PROVE  f.desc \in 1..Sent /\ executed'[f.desc] = 0
    <3>1. f \in DeviceSingles /\ f \in Singles /\ f # e
      BY <1>4 DEF DeviceSingles
    <3>2. f.desc # e.desc
      BY <3>1 DEF Singles
    <3>3. f.desc \in 1..Sent /\ executed[f.desc] = 0
      BY <3>1 DEF DataInv, SingleInv
    <3> QED
      BY <1>5, <1>6, <3>2, <3>3
  <2> QED
    BY <1>3, <1>6, <2>1 DEF SingleInv
<1>9. UnreadInv'
  <2>1. ASSUME NEW f \in DeviceBatches, NEW k \in Unread(f)
        PROVE  staged[f.buf][k] \in 1..Sent /\ executed'[staged[f.buf][k]] = 0
    <3>1. staged[f.buf][k] \in 1..Sent /\ executed[staged[f.buf][k]] = 0
          /\ staged[f.buf][k] # e.desc
      BY <1>1 DEF DataInv, UnreadInv
    <3> QED
      BY <1>5, <1>6, <3>1
  <2> QED
    BY <1>4, <1>6, <2>1 DEF DataInv, UnreadInv, Unread
<1> QED
  BY <1>7, <1>8, <1>9 DEF DataInv

LEMMA ExecuteFromBatchDataInv ==
  ASSUME TypeInv, BatchInv, DataInv,
         NEW e \in running \cap Batches,
         e.next < e.count,
         executed' = [executed EXCEPT ![staged[e.buf][e.next]] = @ + 1],
         running' = (running \ {e}) \cup {[e EXCEPT !.next = @ + 1]},
         UNCHANGED <<wq, staged, staged_count, active_buf, handed>>
  PROVE  DataInv'
<1> DEFINE d == staged[e.buf][e.next]
           new == [e EXCEPT !.next = @ + 1]
<1>1. /\ new \in Batches /\ new \notin Singles /\ e \notin Singles
      /\ new.buf = e.buf /\ new.count = e.count /\ new.next = e.next + 1
      /\ e.next \in Nat /\ e.count \in Nat
  BY DEF Batches, Singles
<1>2. e \in DeviceBatches /\ DeviceBatches = {e}
  BY DEF DeviceBatches, InDevice, BatchInv
<1>3. e.next \in Unread(e) /\ Unread(new) \subseteq Unread(e) \ {e.next}
  BY <1>1 DEF Unread
<1>4. d \in 1..Sent
  BY <1>2, <1>3 DEF DataInv, UnreadInv
<1> HIDE DEF d, new
<1>5. Sent' = Sent /\ Sent \in 0..NumDescs
  BY DEF Sent, TypeInv, TypeOK, DataInv, StagedInv
<1>6. \A x \in 0..NumDescs : x # d => executed'[x] = executed[x]
  BY DEF TypeInv, TypeOK, d
<1>7. wq \cap Batches = {} /\ running \cap Batches = {e}
  BY <1>2 DEF DeviceBatches, InDevice, BatchInv
<1>8. running' = (running \ {e}) \cup {new} /\ wq' = wq
  BY DEF new
<1>9. DeviceSingles' = DeviceSingles /\ DeviceBatches' = {new} /\ wq' \cap running' = {}
  BY <1>1, <1>7, <1>8 DEF DeviceSingles, DeviceBatches, InDevice, DataInv, SingleInv
<1>10. StagedInv'
  BY <1>4, <1>5, <1>6 DEF DataInv, StagedInv
<1>11. SingleInv'
  <2>1. \A f \in DeviceSingles : f.desc # d
    BY <1>2, <1>3 DEF DataInv, UnreadInv, d
  <2>2. \A f \in DeviceSingles : f.desc \in 1..Sent /\ executed'[f.desc] = 0
    BY <1>5, <1>6, <2>1 DEF DataInv, SingleInv
  <2> QED
    BY <1>5, <1>9, <2>2 DEF SingleInv
<1>12. UnreadInv'
  <2>1. ASSUME NEW k \in Unread(new)
        PROVE  /\ staged[new.buf][k] \in 1..Sent
               /\ executed'[staged[new.buf][k]] = 0
               /\ \A l \in Unread(new) : l # k => staged[new.buf][l] # staged[new.buf][k]
               /\ \A s \in DeviceSingles : s.desc # staged[new.buf][k]
    <3>1. k \in Unread(e) /\ k # e.next
      BY <1>3
    <3>2. staged[e.buf][k] # d /\ staged[e.buf][k] \in 1..Sent /\ executed[staged[e.buf][k]] = 0
      BY <1>2, <1>3, <3>1 DEF DataInv, UnreadInv, d
    <3>3. executed'[staged[e.buf][k]] = 0
      BY <1>5, <1>6, <3>2
    <3>4. \A l \in Unread(new) : l # k => staged[e.buf][l] # staged[e.buf][k]
      BY <1>2, <1>3, <3>1 DEF DataInv, UnreadInv
    <3>5. \A s \in DeviceSingles : s.desc # staged[e.buf][k]
      BY <1>2, <3>1 DEF DataInv, UnreadInv
    <3> QED
      BY <1>1, <3>2, <3>3, <3>4, <3>5
  <2> QED
    BY <1>5, <1>9, <2>1 DEF UnreadInv, Unread
<1> QED
  BY <1>10, <1>11, <1>12 DEF DataInv

LEMMA CompleteBatchDataInv ==
  ASSUME TypeInv, DataInv, HwCompleteBatch
  PROVE  DataInv'
<1>1. PICK e \in running \cap Batches : Retire(e)
  BY DEF HwCompleteBatch
<1>2. e \notin Singles
  BY DEF Singles, Batches
<1>3. wq' = wq /\ running' = running \ {e}
  BY <1>1 DEF Retire
<1>4. DeviceSingles' = DeviceSingles
  BY <1>2, <1>3 DEF DeviceSingles, InDevice
<1>5. DeviceBatches' \subseteq DeviceBatches /\ wq' \cap running' = {}
  BY <1>3 DEF DeviceBatches, InDevice, DataInv, SingleInv
<1>6. UNCHANGED <<staged, staged_count, active_buf, handed, executed>>
  BY DEF HwCompleteBatch, bufVars, histVars
<1> QED
  BY <1>4, <1>5, <1>6 DEF DataInv, StagedInv, SingleInv, UnreadInv, Unread, Sent

LEMMA HardwareDataInv ==
  ASSUME TypeInv, BatchInv, DataInv, Hardware
  PROVE  DataInv'
<1>1. CASE HwExecuteSingle
  BY <1>1, ExecuteSingleDataInv DEF HwExecuteSingle, bufVars
<1>2. CASE HwExecuteFromBatch
  BY <1>2, ExecuteFromBatchDataInv DEF HwExecuteFromBatch, bufVars
<1> QED
  BY <1>1, <1>2, DispatchDataInv, CompleteBatchDataInv DEF Hardware

LEMMA NextDataInv == TypeInv /\ BatchInv /\ CountInv /\ DataInv /\ [Next]_vars => DataInv'
<1> SUFFICES ASSUME TypeInv, BatchInv, CountInv, DataInv, [Next]_vars
             PROVE  DataInv'
  OBVIOUS
<1>1. CASE PrePoll \/ Drain
  BY <1>1, CallsFlush DEF DataInv, StagedInv, SingleInv, UnreadInv, Unread, Sent,
                          DeviceSingles, DeviceBatches, InDevice
<1>2. CASE UNCHANGED vars
  BY <1>2 DEF vars, DataInv, StagedInv, SingleInv, UnreadInv, Unread, Sent,
              DeviceSingles, DeviceBatches, InDevice
<1> QED
  BY <1>1, <1>2, SubmitDataInv, FlushDataInv, HardwareDataInv DEF Next

\* Executing a descriptor that was sent and not yet executed is an abstract step.
LEMMA ExecuteIsAbstract ==
  ASSUME TypeInv, NEW d \in 1..Sent, executed[d] = 0,
         executed' = [executed EXCEPT ![d] = @ + 1], handed' = handed
  PROVE  \E x \in 1..handed : Exec!Execute(x)
<1>1. d \in 1..handed
  BY DEF Sent, TypeInv, TypeOK
<1>2. executed' = [executed EXCEPT ![d] = 1]
  OBVIOUS
<1>3. Exec!Execute(d)
  BY <1>2 DEF Exec!Execute
<1> QED
  BY <1>1, <1>3

LEMMA NextIsAbstract ==
  TypeInv /\ DataInv /\ [Next]_vars => [Exec!Next]_(Exec!vars)
<1> SUFFICES ASSUME TypeInv, DataInv, [Next]_vars
             PROVE  [Exec!Next]_(Exec!vars)
  OBVIOUS
<1>1. CASE SubmitDescriptor
  BY <1>1 DEF SubmitDescriptor, Exec!Next, Exec!Hand
<1>2. CASE PrePoll \/ Drain
  BY <1>2, CallsFlush DEF Exec!vars
<1>3. CASE Flush
  BY <1>3 DEF Flush, histVars, Exec!vars
<1>4. CASE HwDispatch \/ HwCompleteBatch
  BY <1>4 DEF HwDispatch, HwCompleteBatch, histVars, Exec!vars
<1>5. CASE HwExecuteSingle
  <2>1. PICK e \in running \cap Singles : executed' = [executed EXCEPT ![e.desc] = @ + 1]
    BY <1>5 DEF HwExecuteSingle
  <2>2. e.desc \in 1..Sent /\ executed[e.desc] = 0
    BY DEF DataInv, SingleInv, DeviceSingles, InDevice
  <2>3. handed' = handed
    BY <1>5 DEF HwExecuteSingle
  <2> QED
    BY <2>1, <2>2, <2>3, ExecuteIsAbstract DEF Exec!Next
<1>6. CASE HwExecuteFromBatch
  <2>1. PICK e \in running \cap Batches :
          /\ e.next < e.count
          /\ executed' = [executed EXCEPT ![staged[e.buf][e.next]] = @ + 1]
    BY <1>6 DEF HwExecuteFromBatch
  <2>2. e \in DeviceBatches /\ e.next \in Unread(e)
    BY <2>1 DEF DeviceBatches, InDevice, Batches, Unread
  <2>3. staged[e.buf][e.next] \in 1..Sent /\ executed[staged[e.buf][e.next]] = 0
    BY <2>2 DEF DataInv, UnreadInv
  <2>4. handed' = handed
    BY <1>6 DEF HwExecuteFromBatch
  <2> QED
    BY <2>1, <2>3, <2>4, ExecuteIsAbstract DEF Exec!Next
<1>7. CASE UNCHANGED vars
  BY <1>7 DEF vars, Exec!vars
<1> QED
  BY <1>1, <1>2, <1>3, <1>4, <1>5, <1>6, <1>7 DEF Next, Hardware

(* StagingSubmitter implements DescriptorExecution: the device executes a  *)
(* descriptor at most once, with the contents given to submit_descriptor,  *)
(* and never reads a stale slot of the two buffers.                        *)
THEOREM ExecutesOnceCorrect == Spec => ExecutesOnce
<1>1. Spec => []DataInv
  BY InitDataInv, NextDataInv, TypeCorrect, BatchCorrect, CountCorrect, PTL DEF Spec
<1>2. Init => Exec!Init
  BY DEF Init, Exec!Init
<1> QED
  BY <1>1, <1>2, NextIsAbstract, TypeCorrect, PTL DEF Spec, ExecutesOnce, Exec!Spec

=============================================================================
