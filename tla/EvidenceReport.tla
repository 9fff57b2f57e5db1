---------------------------- MODULE EvidenceReport ----------------------------
(***************************************************************************)
(* The reports that the tonic-profile binary writes (report.rs,            *)
(* workload.rs) and what the artifact validation of the three runners      *)
(* accepts.  A report keeps the metadata the validators compare; sizes,    *)
(* latencies and counters are kept as far as they are compared with zero   *)
(* or, for the workload-sensitivity check, with each other.                *)
(***************************************************************************)
EXTENDS EvidenceManifest

\* Contents of an artifact path other than a complete report.
Missing == [state |-> "missing"]
Torn    == [state |-> "torn"]

-----------------------------------------------------------------------------
(* The binary.                                                             *)

\* clap accepts digits for a number, not "True".
ArgsParse(workload) == \A f \in Fields : workload[f] \notin {"true", "false"}

\* "same" is resolved to the shape of the request before it is reported.
ResolveResponseShape(workload) ==
  IF workload["response_shape"] = "same" THEN workload["proto_shape"]
                                         ELSE workload["response_shape"]

\* workload_probe(): the label follows from the arguments, not the manifest.
WorkloadLabel(workload) ==
  IF workload["rpc"] = "unary-bytes"
    THEN IF workload["payload_kind"] = "repeated" THEN "bytes-64" ELSE "bytes-other"
    ELSE IF ResolveResponseShape(workload) = "heavy" THEN "small-to-heavy"
                                                     ELSE "small-to-small"

\* The report of an endpoint.  run identifies the value of --run-id.
BuildReport(suite, workload, mode, role, run, completed, counters) ==
  [state           |-> "complete",
   run             |-> run,
   endpoint_role   |-> role,
   workload_label  |-> WorkloadLabel(workload),
   instrumentation |-> mode,
   rpc             |-> workload["rpc"],
   buffer_policy   |-> workload["buffer_policy"],
   selected_path   |-> IF suite = "s03" THEN "idxd" ELSE "software",
   device_path     |-> IF suite = "s03" THEN "wq" ELSE "absent",
   payload_kind    |-> workload["payload_kind"],
   request_shape   |-> workload["proto_shape"],
   response_shape  |-> ResolveResponseShape(workload),
   completed       |-> completed,
   signature       |-> IF mode = "off" THEN "none"
                       ELSE IF counters = "flat" THEN "flat"
                       ELSE WorkloadLabel(workload)]

-----------------------------------------------------------------------------
(* parse_json() and the validators.  entry is the merged workload.         *)

Parses(file) == file.state = "complete"

\* assert_metadata() of run_s01_workloads.py.
AssertMetadata(workload, mode, report) ==
  /\ report.rpc = workload["rpc"]
  /\ report.workload_label = workload["label"]
  /\ report.instrumentation = mode
  /\ IF workload["rpc"] = "unary-bytes"
       THEN report.payload_kind = workload["payload_kind"]
       ELSE /\ report.request_shape = workload["proto_shape"]
            /\ report.response_shape = ResolveResponseShape(workload)

\* The checks of validate_artifacts() of run_s01_workloads.py on one report;
\* requests_completed may be zero.
ValidateReportS01(workload, mode, report) ==
  /\ AssertMetadata(workload, mode, report)
  /\ (report.signature # "none") = (mode = "on")

\* The counters of the seven stages are all zero.
PlaceholderOnly(report) == report.signature = "none"

ValidateReportS02(workload, mode, role, report) ==
  /\ report.endpoint_role = role
  /\ report.rpc = workload["rpc"]
  /\ report.workload_label = workload["label"]
  /\ report.instrumentation = mode
  /\ report.buffer_policy = workload["buffer_policy"]
  /\ IF workload["rpc"] = "unary-bytes"
       THEN report.payload_kind = workload["payload_kind"]
       ELSE /\ report.request_shape = workload["proto_shape"]
            /\ report.response_shape = workload["response_shape"]
  /\ report.completed = "positive"
  /\ (mode = "on") = ~PlaceholderOnly(report)

ValidateReportS03(workload, expected, role, device, report) ==
  /\ report.endpoint_role = role
  /\ report.selected_path = expected["selected_path"]
  /\ report.rpc = workload["rpc"]
  /\ report.workload_label = workload["label"]
  /\ report.instrumentation = workload["instrumentation"]
  /\ report.buffer_policy = workload["buffer_policy"]
  /\ expected["require_device_path"] = "true" => report.device_path = device
  /\ IF workload["rpc"] = "unary-bytes"
       THEN report.payload_kind = workload["payload_kind"]
       ELSE /\ report.request_shape = workload["proto_shape"]
            /\ report.response_shape = workload["response_shape"]
  /\ report.completed = "positive"
  /\ ~PlaceholderOnly(report)

ValidateReport(suite, m, job, role, device, report) ==
  LET workload == Workload(m, job) IN
  \/ suite = "s01" /\ ValidateReportS01(workload, job.mode, report)
  \/ suite = "s02" /\ ValidateReportS02(workload, job.mode, role, report)
  \/ suite = "s03" /\ ValidateReportS03(workload, m.expected, role, device, report)
=============================================================================
