------------------------- MODULE DescriptorExecution -------------------------
(***************************************************************************)
(* What a descriptor submitter promises to DsaEngine: a descriptor handed  *)
(* to submit_descriptor is executed by the device at most once, with the   *)
(* contents it was handed over with, and nothing else is executed.         *)
(*                                                                         *)
(* Descriptors are numbered 1, 2, 3... in the order they are handed over;  *)
(* 0 stands for memory that never held a descriptor.                       *)
(***************************************************************************)
EXTENDS Naturals

CONSTANT NumDescs   \* bound on the descriptors handed over

VARIABLES
  handed,           \* number of descriptors handed over
  executed          \* how often the device executed each descriptor

vars == <<handed, executed>>

Init ==
  /\ handed = 0
  /\ executed = [d \in 0..NumDescs |-> 0]

Hand ==
  /\ handed' = handed + 1
  /\ UNCHANGED executed

Execute(d) ==
  /\ executed[d] = 0
  /\ executed' = [executed EXCEPT ![d] = 1]
  /\ UNCHANGED handed

Next == Hand \/ \E d \in 1..handed : Execute(d)

Spec == Init /\ [][Next]_vars

=============================================================================
