---------------------------- MODULE DescriptorRing ----------------------------
(***************************************************************************)
(* What RingSubmitter and MirroredRingSubmitter (descriptor_submitter.hpp) *)
(* have in common: one ring of descriptors and one ring of batch entries,  *)
(* each entry naming a range of the descriptor ring.                       *)
(*                                                                         *)
(* While submit_descriptor waits for room it calls poll_fn_, that is       *)
(* task_queue_.poll(), which runs the completion callbacks of finished     *)
(* operations; a callback may submit the next operation.  So               *)
(* submit_descriptor is re-entered while an outer call is suspended in one *)
(* of its loops.  The calls of the one thread are a stack of frames, each  *)
(* a submit() with its descriptor or a poll() of the user's thread; the    *)
(* leaf functions the top frame still has to finish are in todo.           *)
(* Descriptors are numbered in the order their submission begins; 0 stands *)
(* for memory that never held one.                                         *)
(***************************************************************************)
EXTENDS DirectSubmitter, FiniteSetsExt, Sequences

CONSTANTS
  NumDescs,     \* bound on the descriptors handed over
  MaxBatch,     \* max_batch_size_
  NumBatches,   \* num_batches_, a power of two
  MaxDepth      \* bound on nested submit calls

ASSUME RingAssumption ==
  /\ NumDescs \in Nat
  /\ MaxBatch \in Nat \ {0}
  /\ NumBatches \in Nat \ {0}
  /\ MaxDepth \in Nat \ {0}

VARIABLES
  desc_ring,    \* desc_ring_
  desc_head,    \* desc_head_
  desc_tail,    \* desc_tail_
  start,        \* batches_[i].start
  count,        \* batches_[i].count
  state,        \* batches_[i].state
  batch_comp,   \* batches_[i].batch_comp.status
  batch_fill,   \* batch_fill_
  batch_head,   \* batch_head_
  stack,        \* frames of DsaEngine::submit with submit_descriptor, and poll
  todo,         \* leaf functions ("seal", "reclaim") still to be run
  phase,        \* "open", "draining" in drain(), "closed" after it
  queued,       \* descriptors whose operation is in the task queue
  handed,       \* history: number of submissions begun
  executed      \* history: executions of each descriptor by the device

entryVars == <<start, count, state, batch_comp>>
headVars  == <<desc_head, batch_head>>
callVars  == <<stack, todo, phase, queued>>
histVars  == <<handed, executed>>
vars == <<mode, inflight, wq, running, dropped, desc_ring, desc_head, desc_tail,
          start, count, state, batch_comp, batch_fill, batch_head, stack, todo,
          phase, queued, handed, executed>>

\* round_up_pow2: the least power of two that is not below n.
RoundUpPow2(n) == Min({p \in {2^k : k \in 0..n} : p >= n})

DescRingSize == RoundUpPow2(MaxBatch * NumBatches)

Slots == 0..(NumBatches - 1)

\* The masks of desc_index and batch_index.
desc_index(pos)  == pos % DescRingSize
batch_index(pos) == pos % NumBatches
desc_available   == DescRingSize - (desc_tail - desc_head)

Current == batch_index(batch_fill)

Single(d)        == [kind |-> "single", desc |-> d]
BatchOf(s, b, n) == [kind |-> "batch", slot |-> s, start |-> b, count |-> n, next |-> 0]

Singles == [kind : {"single"}, desc : 0..NumDescs]
Batches == [kind : {"batch"}, slot : Slots, start : 0..(DescRingSize - 1),
            count : 2..MaxBatch, next : 0..MaxBatch]

-----------------------------------------------------------------------------
(* Calls.                                                                  *)

Top == stack[Len(stack)]

Pop == SubSeq(stack, 1, Len(stack) - 1)

\* How deep submit() is nested.
Depth == Cardinality({i \in DOMAIN stack : stack[i].at # "user_poll"})

\* The top frame is about to run the code at place a.
At(a) == todo = <<>> /\ stack # <<>> /\ Top.at = a

\* The thread is outside the submitter.
Outside == todo = <<>> /\ stack = <<>>

GoTo(a) == stack' = [stack EXCEPT ![Len(stack)].at = a]

\* DsaEngine::submit is called with the next descriptor.
Enter ==
  /\ handed < NumDescs
  /\ stack' = Append(stack, [desc |-> handed + 1, at |-> "gate"])
  /\ handed' = handed + 1

\* Places where task_queue_.poll() runs callbacks, and where it returns to.
AfterPoll == [gate_poll |-> "gate", avail_poll |-> "avail",
              slot_poll |-> "slot", wrap_poll |-> "wrap"]

PollPoints == DOMAIN AfterPoll \cup {"user_poll"}

Polling == todo = <<>> /\ stack # <<>> /\ Top.at \in PollPoints

Init ==
  /\ DirectInit
  /\ desc_ring = [i \in 0..(DescRingSize - 1) |-> 0]
  /\ desc_head = 0
  /\ desc_tail = 0
  /\ start = [s \in Slots |-> 0]
  /\ count = [s \in Slots |-> 0]
  /\ state = [s \in Slots |-> "Free"]
  /\ batch_comp = [s \in Slots |-> 0]
  /\ batch_fill = 0
  /\ batch_head = 0
  /\ stack = <<>>
  /\ todo = <<>>
  /\ phase = "open"
  /\ queued = {}
  /\ handed = 0
  /\ executed = [d \in 0..NumDescs |-> 0]

-----------------------------------------------------------------------------
(* DsaEngine: submit, its gate, poll, and the callbacks.                   *)

Submit ==
  /\ Outside
  /\ phase = "open"
  /\ Enter
  /\ UNCHANGED <<directVars, desc_ring, headVars, desc_tail, entryVars,
                 batch_fill, todo, phase, queued, executed>>

(* notify() of an operation whose descriptor the device has processed: the *)
(* operation leaves the queue, and either its receiver is completed, or it *)
(* calls submit() again, to retry after a page fault or to start what      *)
(* follows, on top of the suspended call.                                  *)
Callback ==
  /\ Polling
  /\ \E d \in queued : executed[d] > 0 /\ queued' = queued \ {d}
  /\ \/ UNCHANGED <<stack, handed>>
     \/ Depth < MaxDepth /\ Enter
  /\ UNCHANGED <<directVars, desc_ring, headVars, desc_tail, entryVars,
                 batch_fill, todo, phase, executed>>

PollReturns ==
  /\ Polling
  /\ IF Top.at = "user_poll" THEN stack' = Pop ELSE GoTo(AfterPoll[Top.at])
  /\ UNCHANGED <<directVars, desc_ring, headVars, desc_tail, entryVars,
                 batch_fill, todo, phase, queued, histVars>>

\* Mutant: a lone descriptor is left for a later batch.
PartialBatch_NotOne == state[Current] = "Filling" /\ count[Current] > 1

PartialBatch == state[Current] = "Filling" /\ count[Current] > 0

\* The leaf functions pre_poll() runs.
PrePollCalls == IF PartialBatch THEN <<"seal", "reclaim">> ELSE <<"reclaim">>

\* The gate of DsaEngine::submit: poll() until it is open.
Gate ==
  /\ At("gate")
  /\ IF GateOpen
     THEN GoTo("avail") /\ todo' = todo
     ELSE GoTo("gate_poll") /\ todo' = PrePollCalls
  /\ UNCHANGED <<directVars, desc_ring, headVars, desc_tail, entryVars,
                 batch_fill, phase, queued, histVars>>

\* DsaEngine::poll called by the thread that waits for its operations.
UserPoll ==
  /\ Outside
  /\ phase = "open"
  /\ stack' = <<[desc |-> 0, at |-> "user_poll"]>>
  /\ todo' = PrePollCalls
  /\ UNCHANGED <<directVars, desc_ring, headVars, desc_tail, entryVars,
                 batch_fill, phase, queued, histVars>>

-----------------------------------------------------------------------------
(* submit_descriptor.                                                      *)

\* "Ensure descriptor ring has space".
CheckSpace ==
  /\ At("avail")
  /\ IF desc_available = 0
     THEN GoTo("avail_poll") /\ todo' = <<"reclaim">>
     ELSE GoTo("slot") /\ todo' = todo
  /\ UNCHANGED <<directVars, desc_ring, headVars, desc_tail, entryVars,
                 batch_fill, phase, queued, histVars>>

\* "Ensure the current batch slot is available".
WaitForSlot ==
  /\ At("slot")
  /\ state[Current] = "InFlight"
  /\ GoTo("slot_poll")
  /\ todo' = <<"reclaim">>
  /\ UNCHANGED <<directVars, desc_ring, headVars, desc_tail, entryVars,
                 batch_fill, phase, queued, histVars>>

\* Mutant: an entry of max_batch_size_ descriptors takes one more.
BatchFull_OffByOne(n) == n > MaxBatch

BatchFull(n) == n >= MaxBatch

(* Copy the descriptor of the top frame behind the n descriptors that the  *)
(* current entry, which begins at ring index b and whose completion status *)
(* is c, already has; seal the entry when it is full.                      *)
StoreInto(b, n, c) ==
  /\ state' = [state EXCEPT ![Current] = "Filling"]
  /\ start' = [start EXCEPT ![Current] = b]
  /\ count' = [count EXCEPT ![Current] = n + 1]
  /\ batch_comp' = [batch_comp EXCEPT ![Current] = c]
  /\ desc_ring' = [desc_ring EXCEPT ![desc_index(desc_tail)] = Top.desc]
  /\ desc_tail' = desc_tail + 1
  /\ todo' = IF BatchFull(n + 1) THEN <<"seal">> ELSE <<>>
  /\ GoTo("return")
  /\ UNCHANGED <<directVars, headVars, batch_fill, phase, queued, histVars>>

(* The descriptor opens a Free entry, which begins at the next ring index, *)
(* or joins the entry that is being filled.                                *)
Store ==
  IF state[Current] = "Free"
  THEN StoreInto(desc_index(desc_tail), 0, 0)
  ELSE StoreInto(start[Current], count[Current], batch_comp[Current])

\* DsaEngine::submit: task_queue_.push(op) after submit_descriptor.
Return ==
  /\ At("return")
  /\ queued' = queued \cup {Top.desc}
  /\ stack' = Pop
  /\ UNCHANGED <<directVars, desc_ring, headVars, desc_tail, entryVars,
                 batch_fill, todo, phase, histVars>>

-----------------------------------------------------------------------------
(* The leaf functions.                                                     *)

(* seal_and_submit_current() with submit_batch().  A batch of one goes out *)
(* as a plain descriptor: its doorbell is taken off the count at once, and *)
(* its entry stays InFlight with the status already set.                   *)
Seal ==
  LET alone == count[Current] = 1
  IN  /\ todo # <<>>
      /\ Head(todo) = "seal"
      /\ Doorbell(IF alone THEN Single(desc_ring[start[Current]])
                           ELSE BatchOf(Current, start[Current], count[Current]))
      /\ inflight' = IF alone THEN NotifyComplete(inflight + 1, 1) ELSE inflight + 1
      /\ batch_comp' = IF alone THEN [batch_comp EXCEPT ![Current] = 1] ELSE batch_comp
      /\ state' = [state EXCEPT ![Current] = "InFlight"]
      /\ batch_fill' = batch_fill + 1
      /\ todo' = (IF state'[batch_index(batch_fill + 1)] # "Free"
                  THEN <<"reclaim">> ELSE <<>>) \o Tail(todo)
      /\ UNCHANGED <<mode, desc_ring, headVars, desc_tail, start, count, stack, phase,
                     queued, histVars>>

\* Mutant: the completion record is not looked at.
Blocks_AnyStatus(p) == p = batch_fill \/ state[batch_index(p)] = "Filling"

\* reclaim_completed() breaks at this position.
Blocks(p) ==
  \/ p = batch_fill
  \/ state[batch_index(p)] = "Filling"
  \/ state[batch_index(p)] = "InFlight" /\ batch_comp[batch_index(p)] = 0

\* Mutant: desc_head_ advances by one per batch.
Released_One(p) == 1

\* desc_head_ += b.count
Released(p) == count[batch_index(p)]

(* reclaim_completed(): free the finished entries from batch_head_ on, in  *)
(* order.  Only this thread changes what the loop changes, so the loop is  *)
(* one step, taken when it reads the last completion record.               *)
Reclaim ==
  LET stop  == Min({p \in batch_head..batch_fill : Blocks(p)})
      freed == {p \in batch_head..(stop - 1) : state[batch_index(p)] = "InFlight"}
  IN  /\ todo # <<>>
      /\ Head(todo) = "reclaim"
      /\ batch_head' = stop
      /\ desc_head' = desc_head + MapThenSumSet(Released, freed)
      /\ state' = [s \in Slots |-> IF \E p \in freed : batch_index(p) = s
                                   THEN "Free" ELSE state[s]]
      /\ inflight' = NotifyComplete(inflight, Cardinality(freed))
      /\ todo' = Tail(todo)
      /\ UNCHANGED <<mode, wqVars, desc_ring, desc_tail, start, count, batch_comp,
                     batch_fill, stack, phase, queued, histVars>>

\* drain() of the destructor: seal what is left, then wait and reclaim.
Drain ==
  /\ Outside
  /\ phase = "open"
  /\ phase' = "draining"
  /\ todo' = IF PartialBatch THEN <<"seal">> ELSE <<>>
  /\ UNCHANGED <<directVars, desc_ring, headVars, desc_tail, entryVars,
                 batch_fill, stack, queued, histVars>>

DrainStep ==
  /\ phase = "draining"
  /\ todo = <<>>
  /\ IF \E s \in Slots : state[s] = "InFlight"
     THEN todo' = <<"reclaim">> /\ phase' = phase
     ELSE todo' = todo /\ phase' = "closed"
  /\ UNCHANGED <<directVars, desc_ring, headVars, desc_tail, entryVars,
                 batch_fill, stack, queued, histVars>>

-----------------------------------------------------------------------------
(* The device (external).                                                  *)

HwDispatch ==
  /\ \E e \in wq : Dispatch(e)
  /\ UNCHANGED <<mode, inflight, desc_ring, headVars, desc_tail, entryVars, batch_fill,
                 callVars, histVars>>

HwExecuteSingle ==
  /\ \E e \in running \cap Singles :
       /\ Retire(e)
       /\ executed' = [executed EXCEPT ![e.desc] = @ + 1]
  /\ UNCHANGED <<mode, inflight, desc_ring, headVars, desc_tail, entryVars, batch_fill,
                 callVars, handed>>

\* The device finds d as the next descriptor of the batch e, and executes it.
ExecuteNext(e, d) ==
  /\ e.next < e.count
  /\ executed' = [executed EXCEPT ![d] = @ + 1]
  /\ running' = (running \ {e}) \cup {[e EXCEPT !.next = @ + 1]}
  /\ UNCHANGED <<mode, inflight, wq, dropped, desc_ring, headVars, desc_tail, entryVars,
                 batch_fill, callVars, handed>>

HwCompleteBatch ==
  /\ \E e \in running \cap Batches :
       /\ e.next = e.count
       /\ Retire(e)
       /\ batch_comp' = [batch_comp EXCEPT ![e.slot] = 1]
  /\ UNCHANGED <<mode, inflight, desc_ring, headVars, desc_tail, start, count, state,
                 batch_fill, callVars, histVars>>

-----------------------------------------------------------------------------
(* Properties of both submitters.                                          *)

RingTypeOK ==
  /\ mode \in Modes
  /\ InDevice \cup dropped \subseteq Singles \cup Batches
  /\ inflight \in Nat
  /\ desc_ring \in [0..(DescRingSize - 1) -> 0..NumDescs]
  /\ desc_head \in Nat /\ desc_tail \in Nat
  /\ start \in [Slots -> 0..(DescRingSize - 1)]
  /\ count \in [Slots -> 0..MaxBatch]
  /\ state \in [Slots -> {"Free", "Filling", "InFlight"}]
  /\ batch_comp \in [Slots -> {0, 1}]
  /\ batch_fill \in Nat /\ batch_head \in Nat
  /\ \A i \in DOMAIN stack : stack[i].desc \in 0..handed
  /\ Depth <= MaxDepth
  /\ \A i \in DOMAIN todo : todo[i] \in {"seal", "reclaim"}
  /\ phase \in {"open", "draining", "closed"}
  /\ handed \in 0..NumDescs /\ queued \subseteq 1..handed
  /\ executed \in [0..NumDescs -> Nat]

\* Ring positions whose entries have descriptors: sealed, or being filled.
Claimed ==
  {p \in batch_head..batch_fill :
     state[batch_index(p)] = (IF p = batch_fill THEN "Filling" ELSE "InFlight")}

(* The two rings agree, also while calls are nested: the descriptors       *)
(* between desc_head_ and desc_tail_ are those of the entries between      *)
(* batch_head_ and batch_fill_, and they fit into the descriptor ring      *)
(* although submit_descriptor looks at the room before it polls.           *)
RingAccounting ==
  /\ desc_tail - desc_head = MapThenSumSet(LAMBDA p : count[batch_index(p)], Claimed)
  /\ desc_tail - desc_head <= DescRingSize

(* submit_descriptor and reclaim_completed never let a ring slot that the  *)
(* device has still to read for a batch be overwritten.                    *)
NoWriteUnderDma ==
  [][\A e \in InDevice \cap Batches : \A k \in e.next..(e.count - 1) :
        desc_ring'[desc_index(e.start + k)] = desc_ring[desc_index(e.start + k)]]_vars

=============================================================================
