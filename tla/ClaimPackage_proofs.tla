-------------------------- MODULE ClaimPackage_proofs --------------------------
(***************************************************************************)
(* OutputsAgree and RowsArePaired of the claim package, for every number   *)
(* of invocations, and whatever the phases, their orphans, the fixture and *)
(* the directories of Criterion do to the files that are read.             *)
(***************************************************************************)
EXTENDS ClaimPackage, TLAPS

OutNames == {"comparison_summary_json", "ordinary_vs_idxd_csv", "claim_table_md"}

\* What the summariser writes, from what it holds in its variables.
Output == [state |-> "complete", turn |-> turn, rows |-> BuildRows(loaded), floor |-> floor]

\* While the outputs are written the reports that were compared are kept, and
\* the outputs before the k-th are made of them.
WriteInv ==
  /\ pc = "write" =>
       /\ ~PairMismatch(loaded)
       /\ k \in 1 .. 4
       /\ \A i \in 1 .. 3 : i < k => out[Outputs[i]] = Output
  /\ pc = "validate" => \A o \in OutNames : out[o] = Output

OutInv ==
  /\ DOMAIN out = OutNames
  /\ WriteInv
  /\ OutputsAgree
  /\ RowsArePaired

-----------------------------------------------------------------------------

\* The three outputs of claim_package_contract.py are those of the summariser.
LEMMA OutputNames ==
  /\ DOMAIN ExpectedDerivedOutputs = OutNames
  /\ \A i \in 1 .. 3 : Outputs[i] \in OutNames
  /\ \A o \in OutNames : \E i \in 1 .. 3 : o = Outputs[i]
  /\ \A i, j \in 1 .. 3 : i # j => Outputs[i] # Outputs[j]
  /\ Len(Outputs) = 3
  BY DEF ExpectedDerivedOutputs, Outputs, OutNames

\* Rows that build_rows() makes of reports which passed the comparison of
\* load_family_reports() pair a client and a server of one run.
LEMMA RowsOfMatchingReports ==
  ASSUME ~PairMismatch(loaded),
         NEW label \in Labels, NEW family \in Families
  PROVE  BuildRows(loaded)[<<label, "client">>].run_id[family]
           = BuildRows(loaded)[<<label, "server">>].run_id[family]
<1>1. <<label, "client">> \in Labels \X Endpoints /\ <<label, "server">> \in Labels \X Endpoints
  BY DEF Endpoints
<1>2. /\ BuildRows(loaded)[<<label, "client">>].run_id[family]
           = loaded[<<family, label, "client">>].run_id
      /\ BuildRows(loaded)[<<label, "server">>].run_id[family]
           = loaded[<<family, label, "server">>].run_id
  BY <1>1 DEF BuildRows
<1> QED
  BY <1>2 DEF PairMismatch

\* No output is there before the first invocation.
LEMMA OutInit == Init => OutInv
  BY OutputNames DEF Init, OutInv, WriteInv, OutputsAgree, RowsArePaired, Passed, Summary,
     Missing, OutNames

\* A step outside the summariser, while it or the runner is where it was.
LEMMA QuietStep ==
  ASSUME OutInv, UNCHANGED <<pc, exit, k, turn, loaded, floor, out>>
  PROVE  OutInv'
  BY DEF OutInv, WriteInv, OutputsAgree, RowsArePaired, Passed, Summary, Output

\* A step that neither writes an output nor ends with "phase=done".
LEMMA OtherStep ==
  ASSUME OutInv, out' = out, pc' \notin {"write", "validate"},
         pc' = "exit" => exit'.phase # "done"
  PROVE  OutInv'
  BY DEF OutInv, WriteInv, OutputsAgree, RowsArePaired, Passed, Summary

\* The summariser or the runner is stopped: an output may be cut off, which
\* is then not complete.
LEMMA CutOffStep ==
  ASSUME OutInv, out' \in CutOff, pc' = "exit", exit'.phase # "done"
  PROVE  OutInv'
<1>1. CASE out' = out
  BY <1>1, OtherStep
<1>2. CASE out' # out
  <2>1. pc = "write" /\ k <= 3
    BY <1>2, OutputNames DEF CutOff
  <2>2. PICK st \in {"empty", "partial"} : out' = [out EXCEPT ![Outputs[k]] = [state |-> st]]
    BY <1>2, OutputNames DEF CutOff
  <2>3. DOMAIN out' = OutNames
    BY <2>2 DEF OutInv
  <2>4. RowsArePaired'
    <3>1. CASE Outputs[k] = "comparison_summary_json"
      BY <2>2, <3>1 DEF RowsArePaired, Summary, OutInv, OutNames
    <3>2. CASE Outputs[k] # "comparison_summary_json"
      BY <2>2, <3>2 DEF RowsArePaired, Summary, OutInv, OutNames
    <3> QED
      BY <3>1, <3>2
  <2> QED
    BY <2>3, <2>4 DEF OutInv, WriteInv, OutputsAgree, Passed
<1> QED
  BY <1>1, <1>2

\* write_json(), write_csv() and write_claim_table().
LEMMA WriteStep ==
  ASSUME OutInv, WriteOutput
  PROVE  OutInv'
<1>1. pc = "write" /\ k \in 1 .. 3
  BY OutputNames DEF WriteOutput, OutInv, WriteInv
<1>2. out' = [out EXCEPT ![Outputs[k]] = Output] /\ k' = k + 1
  BY DEF WriteOutput, Output
<1>3. pc' = pc /\ exit' = exit /\ turn' = turn /\ loaded' = loaded /\ floor' = floor
  BY DEF WriteOutput, config, summary
<1>4. DOMAIN out' = OutNames
  BY <1>2 DEF OutInv
<1>5. WriteInv'
  <2>1. Output' = Output
    BY <1>3 DEF Output
  <2>2. \A i \in 1 .. 3 : i < k + 1 => out'[Outputs[i]] = Output
    <3> SUFFICES ASSUME NEW i \in 1 .. 3, i < k + 1
                 PROVE  out'[Outputs[i]] = Output
      OBVIOUS
    <3>1. Outputs[i] \in DOMAIN out
      BY OutputNames DEF OutInv
    <3>2. CASE i = k
      BY <1>2, <3>1, <3>2
    <3>3. CASE i # k
      <4>1. Outputs[i] # Outputs[k] /\ i < k
        BY <1>1, <3>3, OutputNames
      <4>2. out'[Outputs[i]] = out[Outputs[i]]
        BY <1>2, <3>1, <4>1
      <4> QED
        BY <1>1, <4>1, <4>2 DEF OutInv, WriteInv
    <3> QED
      BY <3>2, <3>3
  <2>3. ~PairMismatch(loaded)'
    BY <1>1, <1>3 DEF OutInv, WriteInv, PairMismatch
  <2> QED
    BY <1>1, <1>2, <1>3, <2>1, <2>2, <2>3 DEF WriteInv
<1>6. OutputsAgree'
  BY <1>1, <1>3 DEF OutputsAgree, Passed
<1>7. RowsArePaired'
  <2>1. CASE Outputs[k] = "comparison_summary_json"
    <3>1. Summary' = Output
      BY <1>2, <2>1 DEF Summary, OutInv, OutNames
    <3>2. Summary'.rows = BuildRows(loaded)
      BY <3>1 DEF Output
    <3> QED
      BY <1>1, <3>2, RowsOfMatchingReports DEF RowsArePaired, OutInv, WriteInv
  <2>2. CASE Outputs[k] # "comparison_summary_json"
    BY <1>2, <2>2 DEF RowsArePaired, Summary, OutInv, OutNames
  <2> QED
    BY <2>1, <2>2
<1> QED
  BY <1>4, <1>5, <1>6, <1>7 DEF OutInv

\* verify_outputs() is only reached when the third output has been written.
LEMMA ReturnStep ==
  ASSUME OutInv, SummaryReturned
  PROVE  OutInv'
<1>1. out' = out /\ turn' = turn
  BY DEF SummaryReturned, config
<1>2. CASE pc' = "validate"
  <2>1. loaded' = loaded /\ floor' = floor
    BY <1>2 DEF SummaryReturned, SummaryFails, Return, summary
  <2>2. \A o \in OutNames : out[o] = Output
    BY OutputNames DEF SummaryReturned, OutInv, WriteInv
  <2>3. Output' = Output
    BY <1>1, <2>1 DEF Output
  <2> QED
    BY <1>1, <1>2, <2>2, <2>3
    DEF OutInv, WriteInv, OutputsAgree, RowsArePaired, Passed, Summary
<1>3. CASE pc' # "validate"
  <2>1. pc' = "exit" /\ exit'.phase = "summary"
    BY <1>3 DEF SummaryReturned, SummaryFails, Return
  <2> QED
    BY <1>1, <2>1, OtherStep
<1> QED
  BY <1>2, <1>3

\* "phase=done verdict=pass" is printed after the outputs have been validated.
LEMMA ValidateStep ==
  ASSUME OutInv, ValidateOutputs
  PROVE  OutInv'
<1>1. out' = out /\ turn' = turn /\ pc = "validate" /\ pc' = "exit"
  BY DEF ValidateOutputs, Return, config
<1>2. \A o \in OutNames : out[o] = Output
  BY <1>1 DEF OutInv, WriteInv
<1>3. \A o \in OutNames : out[o] = out["comparison_summary_json"] /\ out[o].turn = turn
  BY <1>2 DEF Output, OutNames
<1> QED
  BY <1>1, <1>3 DEF OutInv, WriteInv, OutputsAgree, RowsArePaired, Passed, Summary

\* Every step keeps the invariant about the outputs.
LEMMA OutStep == OutInv /\ [Next]_vars => OutInv'
<1> SUFFICES ASSUME OutInv, [Next]_vars
             PROVE  OutInv'
  OBVIOUS
<1>1. CASE ProcContinues
  BY <1>1, QuietStep DEF ProcContinues, procFrame, config, summary
<1>2. CASE ProcWrites
  BY <1>2, QuietStep DEF ProcWrites, procFrame, config, summary
<1>3. CASE ProcPasses
  BY <1>3, QuietStep DEF ProcPasses, procFrame, config, summary
<1>4. CASE ProcBlocked
  BY <1>4, QuietStep DEF ProcBlocked, procFrame, config, summary
<1>5. CASE ProcFails
  BY <1>5, QuietStep DEF ProcFails, config, summary
<1>6. CASE OrphanWrites
  BY <1>6, QuietStep DEF OrphanWrites, procFrame, config, summary
<1>7. CASE OrphanEnds
  BY <1>7, QuietStep DEF OrphanEnds, procFrame, config, summary
<1>8. CASE ManifestRefused
  BY <1>8, OtherStep DEF ManifestRefused, Return
<1>9. CASE ValidateOnly
  BY <1>9, OtherStep DEF ValidateOnly, Return
<1>10. CASE PrepareRunRoot
  BY <1>10, OtherStep DEF PrepareRunRoot
<1>11. CASE SoftwareReturned
  BY <1>11, OtherStep DEF SoftwareReturned, Return
<1>12. CASE IdxdReturned
  BY <1>12, OtherStep DEF IdxdReturned, IdxdFailed, Return
<1>13. CASE PhaseTimeout
  BY <1>13, OtherStep DEF PhaseTimeout, IdxdFailed, Return
<1>14. CASE SeedFile
  BY <1>14, OtherStep DEF SeedFile, Return
<1>15. CASE SeedVerified
  BY <1>15, OtherStep DEF SeedVerified, Return
<1>16. CASE SummaryStarts
  BY <1>16, OtherStep DEF SummaryStarts, SummaryFails, Return
<1>17. CASE ReadReport
  BY <1>17, OtherStep DEF ReadReport, SummaryFails, Return
<1>18. CASE Invoke
  BY <1>18, OtherStep DEF Invoke
<1>19. CASE WriteOutput
  BY <1>19, WriteStep
<1>20. CASE SummaryReturned
  BY <1>20, ReturnStep
<1>21. CASE ValidateOutputs
  BY <1>21, ValidateStep
<1>22. CASE SummaryTimeout
  BY <1>22, CutOffStep DEF SummaryTimeout, SummaryFails, Return
<1>23. CASE Interrupted
  BY <1>23, CutOffStep DEF Interrupted, SummaryFails, Return
<1>24. CASE CheckPairs
  <2>1. CASE PairMismatch(loaded)
    BY <1>24, <2>1, OtherStep DEF CheckPairs, SummaryFails, Return
  <2>2. CASE ~PairMismatch(loaded)
    <3>1. /\ pc' = "write" /\ k' = 1 /\ out' = out
          /\ loaded' = loaded
      BY <1>24, <2>2 DEF CheckPairs, summary
    <3> QED
      BY <2>2, <3>1
      DEF OutInv, WriteInv, OutputsAgree, RowsArePaired, Passed, Summary, PairMismatch
  <2> QED
    BY <2>1, <2>2
<1>25. CASE Done
  BY <1>25, QuietStep DEF Done, vars, config, summary
<1>26. CASE UNCHANGED vars
  BY <1>26, QuietStep DEF vars, config, summary
<1> QED
  BY <1>1, <1>2, <1>3, <1>4, <1>5, <1>6, <1>7, <1>8, <1>9, <1>10, <1>11, <1>12, <1>13,
     <1>14, <1>15, <1>16, <1>17, <1>18, <1>19, <1>20, <1>21, <1>22, <1>23, <1>24, <1>25,
     <1>26
  DEF Next

\* The invariant about the outputs.
THEOREM OutAlways == Spec => []OutInv
  BY OutInit, OutStep, PTL DEF Spec

\* execute_run(): with "verdict=pass" the three outputs are of this invocation
\* and made of the same reports, for every number of invocations.
THEOREM OutputsAgreeHolds == Spec => []OutputsAgree
<1>1. OutInv => OutputsAgree
  BY DEF OutInv
<1> QED
  BY <1>1, OutAlways, PTL

\* load_family_reports(): no summary ever compares a client and a server of
\* two runs, whoever writes the reports while they are read.
THEOREM RowsArePairedHolds == Spec => []RowsArePaired
<1>1. OutInv => RowsArePaired
  BY DEF OutInv
<1> QED
  BY <1>1, OutAlways, PTL
=============================================================================
