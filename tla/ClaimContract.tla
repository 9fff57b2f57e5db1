---------------------------- MODULE ClaimContract ----------------------------
(***************************************************************************)
(* The contract of the claim package: what load_manifest() of              *)
(* claim_package_contract.py accepts.  An artifact path is a record of its *)
(* first directory below the run root, the directories below that, and the *)
(* base name; upstream manifests are reduced to the names of the endpoint  *)
(* artifacts, label by label.                                              *)
(***************************************************************************)
EXTENDS Naturals, Sequences, FiniteSets

NoText == {"absent", "null", "empty"}

Labels    == {"bytes-64", "small-to-heavy"}
Endpoints == {"client", "server"}
PairingKeys == <<"workload_label", "endpoint_role", "run_family">>
RunRoot   == "s04-claim-package/latest"
ReportPath == "014.idxd_tonic_same_repo_claim_package.md"

\* EXPECTED_FAMILIES
Families == {"software_baseline", "software_attribution", "idxd_attribution"}
ExpectedFamily ==
  [f \in Families |->
     [source_key      |-> IF f = "idxd_attribution" THEN "idxd_manifest"
                                                    ELSE "software_manifest",
      instrumentation |-> IF f = "software_baseline" THEN "off" ELSE "on",
      selected_path   |-> IF f = "idxd_attribution" THEN "idxd" ELSE "software"]]

\* EXPECTED_DERIVED_OUTPUTS, in its order.
Outputs == <<"comparison_summary_json", "ordinary_vs_idxd_csv", "claim_table_md">>
ExpectedDerivedOutputs ==
  [k \in {Outputs[i] : i \in DOMAIN Outputs} |->
     CASE k = "comparison_summary_json" -> "summary/comparison_summary.json"
       [] k = "ordinary_vs_idxd_csv"    -> "summary/ordinary_vs_idxd.csv"
       [] k = "claim_table_md"          -> "summary/claim_table.md"]

Inputs == {"software_manifest", "idxd_manifest", "control_floor_summary", "report_contract"}

required_str(v) == v \notin NoText

-----------------------------------------------------------------------------
(* The sections of the manifest.                                           *)

ValidateScope(scope) ==
  /\ scope.kind = "object"
  /\ {scope.workload_labels[i] : i \in DOMAIN scope.workload_labels} = Labels
  /\ scope.pairing_keys = PairingKeys

\* Every input is named and exists, the control-floor summary included.
ValidateInputs(inputs, existing) ==
  \A k \in Inputs : required_str(inputs[k]) /\ inputs[k] \in existing

ValidateDerivedOutputs(derived) ==
  /\ \A k \in DOMAIN ExpectedDerivedOutputs : derived[k] = ExpectedDerivedOutputs[k]
  /\ \A k, l \in DOMAIN ExpectedDerivedOutputs : k # l => derived[k] # derived[l]

ExpectedReportReferences(run_root) ==
  [i \in DOMAIN Outputs |-> <<run_root, ExpectedDerivedOutputs[Outputs[i]]>>]

ValidateReport(report, run_root) ==
  /\ report.path = ReportPath
  /\ report.required_references = ExpectedReportReferences(run_root)

-----------------------------------------------------------------------------
(* Upstream manifests: label |-> mode |-> role |-> name for s02, without   *)
(* the mode for s03.                                                       *)

IndexS02Workloads(upstream) ==
  /\ DOMAIN upstream # {}
  /\ \A label \in DOMAIN upstream : \A mode \in {"off", "on"} : \A role \in Endpoints :
        required_str(label) /\ required_str(upstream[label][mode][role])

IndexS03Workloads(upstream) ==
  /\ DOMAIN upstream # {}
  /\ \A label \in DOMAIN upstream : \A role \in Endpoints :
        required_str(label) /\ required_str(upstream[label][role])

UpstreamName(s02, s03, family, label, role) ==
  IF family = "idxd_attribution" THEN s03[label][role]
  ELSE s02[label][ExpectedFamily[family].instrumentation][role]

\* The entries of one family.  A label that the upstream manifest lacks ends
\* in a KeyError, which leaves main() with the same exit status.
ValidateFamilyEntries(family, entries, s02, s03) ==
  LET upstream == IF family = "idxd_attribution" THEN DOMAIN s03 ELSE DOMAIN s02 IN
  /\ entries # <<>>
  /\ \A i \in DOMAIN entries :
       LET e == entries[i] IN
       /\ e.workload_label \in Labels
       /\ e.endpoint_role \in Endpoints
       /\ \A j \in DOMAIN entries : j # i =>
            \/ entries[j].workload_label # e.workload_label
            \/ entries[j].endpoint_role # e.endpoint_role
       \* a prefix and a base name: what is in between is not looked at
       /\ e.artifact.dir = ExpectedFamily[family].selected_path
       /\ e.workload_label \in upstream
       /\ e.artifact.name
            = UpstreamName(s02, s03, family, e.workload_label, e.endpoint_role)
  /\ \A label \in Labels : \A role \in Endpoints : \E i \in DOMAIN entries :
       entries[i].workload_label = label /\ entries[i].endpoint_role = role

\* global_artifacts: no path occurs twice, within a family or across families.
ArtifactsDiffer(families) ==
  \A f, g \in DOMAIN families :
    \A i \in DOMAIN families[f].endpoint_reports, j \in DOMAIN families[g].endpoint_reports :
       <<f, i>> # <<g, j>> => families[f].endpoint_reports[i].artifact
                                # families[g].endpoint_reports[j].artifact

ValidateArtifactFamilies(m, s02, s03) ==
  /\ IndexS02Workloads(s02)
  /\ IndexS03Workloads(s03)
  /\ \A f \in DOMAIN m.artifact_families :
       LET family   == m.artifact_families[f]
           expected == ExpectedFamily[family.run_family] IN
       /\ family.run_family \in Families
       /\ family.source_manifest = m.inputs[expected.source_key]
       /\ family.instrumentation = expected.instrumentation
       /\ family.selected_path = expected.selected_path
       /\ ValidateFamilyEntries(family.run_family, family.endpoint_reports, s02, s03)
  /\ \A f, g \in DOMAIN m.artifact_families :
       f # g => m.artifact_families[f].run_family # m.artifact_families[g].run_family
  /\ ArtifactsDiffer(m.artifact_families)
  /\ Families = {m.artifact_families[f].run_family : f \in DOMAIN m.artifact_families}

LoadManifest(m, s02, s03, existing) ==
  /\ m.version = 1
  /\ m.run_root = RunRoot
  /\ ValidateScope(m.scope)
  /\ ValidateInputs(m.inputs, existing)
  /\ ValidateDerivedOutputs(m.derived_outputs)
  /\ ValidateArtifactFamilies(m, s02, s03)
  /\ ValidateReport(m.report, m.run_root)
=============================================================================
