--------------------------- MODULE DirectSubmitter ---------------------------
(***************************************************************************)
(* DirectSubmitter (descriptor_submitter.hpp) and the device behind it.    *)
(* Every other submitter owns a DirectSubmitter and rings its doorbells    *)
(* through it, so this module is extended by the module of each submitter. *)
(*                                                                         *)
(* A work descriptor travels inside the 64-byte portal write; a batch      *)
(* doorbell only carries the address of a descriptor array, which the      *)
(* device reads after the write, until it has written the completion       *)
(* record of the batch.                                                    *)
(***************************************************************************)
EXTENDS Naturals, FiniteSets

CONSTANTS
  WqSize,      \* entries of the work queue (accfg_wq_get_size)
  Modes        \* the values mode_ may have

ASSUME WqAssumption ==
  /\ WqSize \in Nat \ {0}
  /\ Modes \subseteq {"dedicated", "shared"}

VARIABLES
  mode,        \* mode_: ACCFG_WQ_DEDICATED or ACCFG_WQ_SHARED
  inflight,    \* inflight_
  wq,          \* doorbells the device has accepted and not yet dispatched
  running,     \* doorbells dispatched to a device engine, not yet complete
  dropped      \* doorbells the device discarded because the queue was full

wqVars     == <<wq, running, dropped>>
directVars == <<mode, inflight, wq, running, dropped>>

InDevice == wq \cup running

-----------------------------------------------------------------------------
(* DirectSubmitter.                                                        *)

DirectInit ==
  /\ mode \in Modes
  /\ inflight = 0
  /\ wq = {}
  /\ running = {}
  /\ dropped = {}

\* wq_capacity(): zero, i.e. no gating, on a shared queue.
WqCapacity == IF mode = "dedicated" THEN WqSize ELSE 0

\* Mutants: no subtraction; a subtraction that does not saturate.
NotifyComplete_Ignored(inf, n)     == inf
NotifyComplete_Unsaturated(inf, n) == inf - n

\* The value notify_complete(n) leaves in inflight_.
NotifyComplete(inf, n) == IF n <= inf THEN inf - n ELSE 0

\* Mutant: one submission too many passes the gate.
GateOpen_OffByOne == WqCapacity = 0 \/ inflight <= WqCapacity

\* The exit condition of the backpressure loop of DsaEngine::submit.
GateOpen == WqCapacity = 0 \/ inflight < WqCapacity

-----------------------------------------------------------------------------
(* The portal and the device's queue.                                      *)

WqFull == Cardinality(wq) >= WqSize

(* The portal write of submit_descriptor.  _movdir64b gives no answer: a   *)
(* full queue discards the descriptor.  _enqcmd is repeated until the      *)
(* queue takes the descriptor, so on a shared queue the step waits.        *)
Doorbell(e) ==
  \/ /\ ~WqFull
     /\ wq' = wq \cup {e}
     /\ UNCHANGED <<running, dropped>>
  \/ /\ WqFull
     /\ mode = "dedicated"
     /\ dropped' = dropped \cup {e}
     /\ UNCHANGED <<wq, running>>

\* An engine of the device takes a descriptor off the queue.
Dispatch(e) ==
  /\ e \in wq
  /\ wq' = wq \ {e}
  /\ running' = running \cup {e}
  /\ UNCHANGED dropped

\* The device is done with a descriptor.
Retire(e) ==
  /\ e \in running
  /\ running' = running \ {e}
  /\ UNCHANGED <<wq, dropped>>

=============================================================================
