---------------------------- MODULE EvidencePhase ----------------------------
(***************************************************************************)
(* What a runner of client/server evidence promises to the scripts that    *)
(* call it: it says "passed" only when it has read a client and a server   *)
(* report for every pair, each belongs to its own pair, and the two come   *)
(* from one and the same run.  What the files hold, and when they change,  *)
(* is left open: the promise is about what was read.                       *)
(***************************************************************************)
EXTENDS Naturals

CONSTANTS
  AllPairs,    \* names of pairs of reports
  Runs         \* identities of runs; run.pair is the pair a run is for

VARIABLES
  pairs,       \* the pairs the runner is responsible for
  status,      \* "running", "passed", or "ended" without that verdict
  seen         \* the run whose report was read from each file, or NoReport

phaseVars == <<pairs, status, seen>>

Files    == AllPairs \X {"client", "server"}
NoReport == [pair |-> 0, turn |-> 0]

PhaseInit ==
  /\ pairs \subseteq AllPairs
  /\ status = "running"
  /\ seen = [f \in Files |-> NoReport]

Begin ==
  /\ status # "running"
  /\ status' = "running"
  /\ seen' = [f \in Files |-> NoReport]
  /\ UNCHANGED pairs

Read ==
  /\ status = "running"
  /\ seen' # seen
  /\ \E f \in Files :
       /\ seen[f] = NoReport
       /\ seen'[f] \in Runs
       /\ seen' = [seen EXCEPT ![f] = seen'[f]]
  /\ UNCHANGED <<pairs, status>>

Trustworthy ==
  \A p \in pairs :
     /\ seen[<<p, "client">>] = seen[<<p, "server">>]
     /\ seen[<<p, "client">>].pair = p

Pass ==
  /\ status = "running"
  /\ status' = "passed"
  /\ Trustworthy
  /\ UNCHANGED <<pairs, seen>>

\* A failure, or an invocation that was not asked for a verdict.
End ==
  /\ status = "running"
  /\ status' = "ended"
  /\ UNCHANGED <<pairs, seen>>

PhaseNext ==
  \/ Begin
  \/ Read
  \/ Pass
  \/ End

PhaseSpec == PhaseInit /\ [][PhaseNext]_phaseVars
=============================================================================
