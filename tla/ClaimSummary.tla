----------------------------- MODULE ClaimSummary -----------------------------
(***************************************************************************)
(* What summarize_s04_claim_package.py makes of the reports in a run root. *)
(* A report keeps the metadata that are compared and the identity of the   *)
(* run it is of; its metrics are determined by these and are left out, so  *)
(* a row of the summary is the runs it compares.                           *)
(***************************************************************************)
EXTENDS ClaimContract

Missing == [state |-> "missing"]
Torn    == [state |-> "torn"]

\* The report of a run of a family; run identifies the value of --run-id.
ReportFor(family, label, role, run, device) ==
  [state           |-> "complete",
   run_id          |-> run,
   endpoint_role   |-> role,
   workload_label  |-> label,
   instrumentation |-> ExpectedFamily[family].instrumentation,
   selected_path   |-> ExpectedFamily[family].selected_path,
   device_path     |-> device]

\* load_report() goes through.  family and entry are of the manifest.
LoadReport(family, entry, report) ==
  /\ report.state = "complete"
  /\ report.endpoint_role = entry.endpoint_role
  /\ report.workload_label = entry.workload_label
  /\ report.instrumentation = family.instrumentation
  /\ report.selected_path = family.selected_path
  /\ (family.selected_path = "idxd") = required_str(report.device_path)

\* Mutant: client and server are summarised whatever their runs.
PairMismatch_Never(loaded) == FALSE

\* The second loop of load_family_reports(), on <<family, label, role>>.
PairMismatch(loaded) ==
  \E family \in Families, label \in Labels :
     loaded[<<family, label, "client">>].run_id # loaded[<<family, label, "server">>].run_id

BuildRows(loaded) ==
  [row \in Labels \X Endpoints |->
     [device_path |-> loaded[<<"idxd_attribution", row[1], row[2]>>].device_path,
      run_id      |-> [f \in Families |-> loaded[<<f, row[1], row[2]>>].run_id]]]

\* verify_outputs(), and validate_summary_outputs() of the runner: the files
\* are there and not empty; half of one would do.
VerifyOutputs(out) == \A k \in DOMAIN out : out[k].state \in {"partial", "complete"}
=============================================================================
