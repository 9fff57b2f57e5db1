--------------------------- MODULE StagingSubmitter ---------------------------
(***************************************************************************)
(* StagingSubmitter (descriptor_submitter.hpp): descriptors are copied     *)
(* into one of two staging buffers and handed to the device as one batch.  *)
(* While the device may still read one buffer, software fills the other.   *)
(*                                                                         *)
(* The caller is DsaEngine on one thread: submit() passes the backpressure *)
(* gate and calls submit_descriptor, poll() calls pre_poll, the destructor *)
(* calls drain.  Calls nested through a completion callback are calls in   *)
(* some order, because no step of this class runs a callback.              *)
(* Descriptors are numbered in the order they are handed over.             *)
(***************************************************************************)
EXTENDS DirectSubmitter

CONSTANTS
  NumDescs,    \* bound on the descriptors handed over
  MaxBatch     \* max_batch_size_

ASSUME StagingAssumption == NumDescs \in Nat /\ MaxBatch \in Nat \ {0}

VARIABLES
  staged,           \* staged_[2]: contents of the two descriptor arrays
  staged_count,     \* staged_count_
  active_buf,       \* active_buf_
  batch_submitted,  \* batch_submitted_[2]
  batch_comp,       \* status of batch_comp_[2]: 0 until the device writes it
  pc,               \* "idle", or "flush" while flush() waits or submits
  phase,            \* "open", "draining" in drain(), "closed" after it
  handed,           \* history: number of submit_descriptor calls
  executed          \* history: executions of each descriptor by the device

bufVars  == <<staged, staged_count, active_buf, batch_submitted>>
histVars == <<handed, executed>>
vars     == <<mode, inflight, wq, running, dropped, staged, staged_count, active_buf,
              batch_submitted, batch_comp, pc, phase, handed, executed>>

Bufs == {0, 1}

\* active_buf_ ^ 1
OtherBuf(b) == 1 - b

Single(d)       == [kind |-> "single", desc |-> d]
BatchOf(b, n)   == [kind |-> "batch", buf |-> b, count |-> n, next |-> 0]

Singles == [kind : {"single"}, desc : 0..NumDescs]
Batches == [kind : {"batch"}, buf : Bufs, count : 2..MaxBatch, next : 0..MaxBatch]

-----------------------------------------------------------------------------
(* Software.                                                               *)

Init ==
  /\ DirectInit
  /\ staged = [b \in Bufs |-> [i \in 0..(MaxBatch - 1) |-> 0]]
  /\ staged_count = 0
  /\ active_buf = 0
  /\ batch_submitted = [b \in Bufs |-> FALSE]
  /\ batch_comp = [b \in Bufs |-> 0]
  /\ pc = "idle"
  /\ phase = "open"
  /\ handed = 0
  /\ executed = [d \in 0..NumDescs |-> 0]

\* Mutant: a buffer of max_batch_size_ descriptors takes one more.
BufferFull_OffByOne(n) == n > MaxBatch

BufferFull(n) == n >= MaxBatch

(* DsaEngine::submit past its gate, then submit_descriptor: copy the       *)
(* descriptor, and flush when the buffer has reached max_batch_size_.      *)
SubmitDescriptor ==
  /\ pc = "idle"
  /\ phase = "open"
  /\ handed < NumDescs
  /\ GateOpen
  /\ staged' = [staged EXCEPT ![active_buf][staged_count] = handed + 1]
  /\ staged_count' = staged_count + 1
  /\ pc' = IF BufferFull(staged_count + 1) THEN "flush" ELSE "idle"
  /\ handed' = handed + 1
  /\ UNCHANGED <<mode, inflight, wqVars, active_buf, batch_submitted, batch_comp,
                 phase, executed>>

\* Mutant: flush() leaves a lone descriptor for a later batch.
Staged_NotOne == staged_count > 1

\* flush() returns at once when nothing is staged.
Staged == staged_count # 0

\* pre_poll() is flush().
PrePoll ==
  /\ pc = "idle"
  /\ phase = "open"
  /\ Staged
  /\ pc' = "flush"
  /\ UNCHANGED <<directVars, bufVars, batch_comp, phase, histVars>>

\* drain() is flush() too.
Drain ==
  /\ pc = "idle"
  /\ phase = "open"
  /\ IF Staged
     THEN phase' = "draining" /\ pc' = "flush"
     ELSE phase' = "closed" /\ pc' = pc
  /\ UNCHANGED <<directVars, bufVars, batch_comp, histVars>>

\* Mutant: flush() does not wait for the batch of the other buffer.
PrevReleased_NoWait == TRUE

\* The loop of flush() that waits for the batch of the other buffer.
PrevReleased ==
  LET prev == OtherBuf(active_buf)
  IN  batch_submitted[prev] => batch_comp[prev] # 0

(* flush() past that loop: take the previous batch off the count, submit   *)
(* the staged descriptors, swap the buffers.                               *)
Flush ==
  LET prev == OtherBuf(active_buf)
      inf  == IF batch_submitted[prev] THEN NotifyComplete(inflight, 1) ELSE inflight
  IN  /\ pc = "flush"
      /\ PrevReleased
      /\ inflight' = inf + 1
      /\ \/ /\ staged_count = 1
            /\ Doorbell(Single(staged[active_buf][0]))
            /\ batch_submitted' = [batch_submitted EXCEPT ![prev] = FALSE]
            /\ UNCHANGED batch_comp
         \/ /\ staged_count # 1
            /\ Doorbell(BatchOf(active_buf, staged_count))
            /\ batch_submitted' = [batch_submitted EXCEPT ![prev] = FALSE,
                                                          ![active_buf] = TRUE]
            /\ batch_comp' = [batch_comp EXCEPT ![active_buf] = 0]
      /\ active_buf' = prev
      /\ staged_count' = 0
      /\ pc' = "idle"
      /\ phase' = IF phase = "draining" THEN "closed" ELSE phase
      /\ UNCHANGED <<mode, staged, histVars>>

-----------------------------------------------------------------------------
(* The device (external).                                                  *)

HwDispatch ==
  /\ \E e \in wq : Dispatch(e)
  /\ UNCHANGED <<mode, inflight, bufVars, batch_comp, pc, phase, histVars>>

\* A work descriptor that came in the portal write itself.
HwExecuteSingle ==
  /\ \E e \in running \cap Singles :
       /\ Retire(e)
       /\ executed' = [executed EXCEPT ![e.desc] = @ + 1]
  /\ UNCHANGED <<mode, inflight, bufVars, batch_comp, pc, phase, handed>>

\* The device reads the next descriptor of a batch from memory, executes it.
HwExecuteFromBatch ==
  /\ \E e \in running \cap Batches :
       /\ e.next < e.count
       /\ executed' = [executed EXCEPT ![staged[e.buf][e.next]] = @ + 1]
       /\ running' = (running \ {e}) \cup {[e EXCEPT !.next = @ + 1]}
  /\ UNCHANGED <<mode, inflight, wq, dropped, bufVars, batch_comp, pc, phase, handed>>

\* The device writes the completion record of the batch.
HwCompleteBatch ==
  /\ \E e \in running \cap Batches :
       /\ e.next = e.count
       /\ Retire(e)
       /\ batch_comp' = [batch_comp EXCEPT ![e.buf] = 1]
  /\ UNCHANGED <<mode, inflight, bufVars, pc, phase, histVars>>

Hardware == HwDispatch \/ HwExecuteSingle \/ HwExecuteFromBatch \/ HwCompleteBatch

Next ==
  \/ SubmitDescriptor
  \/ PrePoll
  \/ Drain
  \/ Flush
  \/ Hardware

Spec == Init /\ [][Next]_vars

(* The device finishes what it started; a thread inside flush() is         *)
(* scheduled; the thread that waits for its operations keeps polling.      *)
Fairness ==
  /\ WF_vars(HwDispatch)
  /\ WF_vars(HwExecuteSingle)
  /\ WF_vars(HwExecuteFromBatch)
  /\ WF_vars(HwCompleteBatch)
  /\ WF_vars(Flush)
  /\ WF_vars(PrePoll)

FairSpec == Spec /\ Fairness

-----------------------------------------------------------------------------
(* Properties.                                                             *)

TypeOK ==
  /\ mode \in Modes
  /\ inflight \in Nat
  /\ wq \subseteq Singles \cup Batches
  /\ running \subseteq Singles \cup Batches
  /\ dropped \subseteq Singles \cup Batches
  /\ staged \in [Bufs -> [0..(MaxBatch - 1) -> 0..NumDescs]]
  /\ staged_count \in 0..MaxBatch
  /\ active_buf \in Bufs
  /\ batch_submitted \in [Bufs -> BOOLEAN]
  /\ batch_comp \in [Bufs -> {0, 1}]
  /\ pc \in {"idle", "flush"}
  /\ phase \in {"open", "draining", "closed"}
  /\ handed \in 0..NumDescs
  /\ executed \in [0..NumDescs -> Nat]

(* No portal write meets a full dedicated queue.  A batch in progress and  *)
(* every single descriptor ever sent are counted in inflight_, so the gate *)
(* of DsaEngine::submit closes before the device would discard a doorbell. *)
NoDrop == dropped = {}

(* The descriptors of a batch that the device has still to read are not    *)
(* overwritten: neither the copy in submit_descriptor nor the reuse of a   *)
(* buffer after the swap in flush() touches them.                          *)
NoWriteUnderDma ==
  [][\A e \in InDevice \cap Batches : \A k \in e.next..(e.count - 1) :
        staged'[e.buf][k] = staged[e.buf][k]]_vars

(* flush() never spins on a completion record nobody will write, and the   *)
(* device never writes one that flush() has given to another batch: an     *)
(* awaited record that is still zero belongs to a batch that the device    *)
(* holds, and each batch the device holds is awaited.                      *)
AwaitedBatchIsInDevice ==
  \A b \in Bufs :
    (batch_submitted[b] /\ batch_comp[b] = 0) <=>
      \E e \in InDevice \cap Batches : e.buf = b

(* Each descriptor is executed at most once, with the contents it was      *)
(* handed over with, and no stale array slot is ever executed.             *)
Exec == INSTANCE DescriptorExecution
ExecutesOnce == Exec!Spec

(* Every descriptor handed over is executed, as long as somebody polls or  *)
(* drains.                                                                 *)
EveryDescExecuted == \A d \in 1..NumDescs : (d <= handed) ~> (executed[d] = 1)

(* DsaEngine::submit: "Backpressure: wait until WQ has space before        *)
(* submitting".  A closed gate opens again once the device has caught up.  *)
BackpressureReleases == (phase = "open" /\ ~GateOpen) ~> (GateOpen \/ phase # "open")

=============================================================================
