--------------------------- MODULE EvidenceManifest ---------------------------
(***************************************************************************)
(* The workload manifests of the three evidence runners of tonic-profile   *)
(* (run_s01_workloads.py, run_s02_evidence.py, run_s03_idxd_evidence.py)   *)
(* and what load_manifest() of each of them accepts.                       *)
(*                                                                         *)
(* A JSON value is abstracted to what the checks tell apart: the strings   *)
(* of NotText stand for a missing key, null, a value of a wrong type, the  *)
(* integers by sign, the booleans and the empty string; every other string *)
(* is a non-empty text.                                                    *)
(***************************************************************************)
EXTENDS Naturals, Sequences, FiniteSets

NotText ==
  {"absent", "null", "zero", "negative", "positive", "true", "false", "empty"}

Roles == {"client", "server"}
Modes == {"off", "on"}

IntFields == {"measure_ms", "requests", "concurrency"}
StrFields == {"runtime", "compression", "buffer_policy"}
S03Fields == {"instrumentation", "accelerated_path"}
RpcFields == {"payload_size", "payload_kind", "proto_shape", "response_shape"}
Fields == {"label", "rpc", "warmup_ms"}
            \cup IntFields \cup StrFields \cup S03Fields \cup RpcFields

Metadata == {"ordinary_path", "selected_path", "seam", "accelerated_lane",
             "accelerated_direction", "require_device_path"}

-----------------------------------------------------------------------------
(* The checks on one value.                                                *)

required_str(obj, key) == obj[key] \notin NotText

\* isinstance(True, int) holds in Python, so a boolean passes for a number.
required_positive_int(obj, key) == obj[key] \in {"positive", "true"}
NonNegativeInt(v) == v \in {"positive", "zero", "true", "false"}

required_bool(obj, key) == obj[key] \in {"true", "false"}

\* dict(defaults) updated with the keys of the entry.
Merged(defaults, entry) ==
  [f \in Fields |-> IF entry.field[f] = "absent" THEN defaults.field[f]
                                                 ELSE entry.field[f]]

\* The fields that go with the rpc mode; any other mode is unsupported.
RpcFieldsPresent(merged) ==
  \/ /\ merged["rpc"] = "unary-bytes"
     /\ required_positive_int(merged, "payload_size")
     /\ required_str(merged, "payload_kind")
  \/ /\ merged["rpc"] = "unary-proto-shape"
     /\ required_str(merged, "proto_shape")
     /\ required_str(merged, "response_shape")

\* seen_labels: no label occurs twice.
LabelsDiffer(m) ==
  \A i, j \in DOMAIN m.workloads :
     i # j => m.workloads[i].field["label"] # m.workloads[j].field["label"]

RequiredLabels == {"bytes-64", "small-to-heavy"}

LabelsComplete(m) ==
  RequiredLabels \subseteq {m.workloads[i].field["label"] : i \in DOMAIN m.workloads}

-----------------------------------------------------------------------------
(* run_s01_workloads.py.  An entry names one artifact per instrumentation  *)
(* mode, the report of the client.                                         *)

ValidateWorkloadS01(entry, defaults) ==
  LET merged == Merged(defaults, entry) IN
  /\ entry.kind = "object"
  /\ \A f \in {"label", "rpc"} : required_str(entry.field, f)
  /\ \A mode \in Modes : entry.artifact[<<mode, "client">>] \notin NotText
  /\ \A f \in IntFields \cup {"warmup_ms"} : required_positive_int(merged, f)
  /\ \A f \in StrFields : required_str(merged, f)
  /\ RpcFieldsPresent(merged)

LoadManifestS01(m) ==
  /\ m.root = "object"
  /\ m.defaults.kind \in {"object", "null"}
  /\ m.workloads # <<>>
  /\ \A i \in DOMAIN m.workloads : ValidateWorkloadS01(m.workloads[i], m.defaults)
  /\ LabelsDiffer(m)

-----------------------------------------------------------------------------
(* run_s02_evidence.py.  An entry names a client and a server report for   *)
(* each mode; the four paths of one entry must differ, paths of different  *)
(* entries are not compared.                                               *)

ValidateEndpointArtifactsS02(artifact) ==
  /\ \A k \in Modes \X Roles : artifact[k] \notin NotText
  /\ \A k, l \in Modes \X Roles : k # l => artifact[k] # artifact[l]

ValidateWorkloadS02(entry, defaults) ==
  LET merged == Merged(defaults, entry) IN
  /\ entry.kind = "object"
  /\ \A f \in {"label", "rpc"} : required_str(entry.field, f)
  /\ ValidateEndpointArtifactsS02(entry.artifact)
  /\ NonNegativeInt(merged["warmup_ms"])
  /\ \A f \in IntFields : required_positive_int(merged, f)
  /\ \A f \in StrFields : required_str(merged, f)
  /\ RpcFieldsPresent(merged)

\* "manifest.get("defaults") or {}" also accepts an empty value of any type.
LoadManifestS02(m) ==
  /\ m.root = "object"
  /\ m.defaults.kind \in {"object", "null", "falsy"}
  /\ m.benchmarks = "suite"
  /\ m.workloads # <<>>
  /\ \A i \in DOMAIN m.workloads : ValidateWorkloadS02(m.workloads[i], m.defaults)
  /\ LabelsDiffer(m)
  /\ LabelsComplete(m)

-----------------------------------------------------------------------------
(* run_s03_idxd_evidence.py.  One mode, "on"; the expected metadata of the *)
(* accelerated path are part of the manifest.                              *)

ExpectedMetadataFields ==
  [k \in Metadata \ {"require_device_path"} |->
     CASE k = "ordinary_path"         -> "software"
       [] k = "selected_path"         -> "idxd"
       [] k = "seam"                  -> "codec_body"
       [] k = "accelerated_lane"      -> "codec_memmove"
       [] k = "accelerated_direction" -> "bidirectional"]

ValidateExpectedMetadata(expected) ==
  /\ \A k \in DOMAIN ExpectedMetadataFields : expected[k] = ExpectedMetadataFields[k]
  /\ required_bool(expected, "require_device_path")

ValidateEndpointArtifactsS03(artifact) ==
  /\ \A role \in Roles : artifact[<<"on", role>>] \notin NotText
  /\ artifact[<<"on", "client">>] # artifact[<<"on", "server">>]

ValidateWorkloadS03(entry, defaults) ==
  LET merged == Merged(defaults, entry) IN
  /\ entry.kind = "object"
  /\ \A f \in {"label", "rpc"} : required_str(entry.field, f)
  /\ ValidateEndpointArtifactsS03(entry.artifact)
  /\ NonNegativeInt(merged["warmup_ms"])
  /\ \A f \in IntFields : required_positive_int(merged, f)
  /\ \A f \in StrFields : required_str(merged, f)
  /\ merged["instrumentation"] = "on"
  /\ merged["accelerated_path"] = "idxd"
  /\ RpcFieldsPresent(merged)

LoadManifestS03(m) ==
  /\ m.root = "object"
  /\ m.defaults.kind \in {"object", "null", "falsy"}
  /\ ValidateExpectedMetadata(m.expected)
  /\ m.workloads # <<>>
  /\ \A i \in DOMAIN m.workloads : ValidateWorkloadS03(m.workloads[i], m.defaults)
  /\ LabelsDiffer(m)
  /\ LabelsComplete(m)

-----------------------------------------------------------------------------
(* The three runners side by side.                                         *)

\* The runs of run_manifest(), in order: workload index and instrumentation.
JobsS02(m) ==
  [n \in 1 .. 2 * Len(m.workloads) |->
     [index |-> (n + 1) \div 2, mode |-> IF n % 2 = 1 THEN "off" ELSE "on"]]
JobsS03(m) ==
  [n \in 1 .. Len(m.workloads) |-> [index |-> n, mode |-> "on"]]
Jobs(suite, m) == IF suite = "s03" THEN JobsS03(m) ELSE JobsS02(m)

Entry(m, job)          == m.workloads[job.index]
Workload(m, job)       == Merged(m.defaults, Entry(m, job))
Artifact(m, job, role) == Entry(m, job).artifact[<<job.mode, role>>]
=============================================================================
