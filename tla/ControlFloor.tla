----------------------------- MODULE ControlFloor -----------------------------
(***************************************************************************)
(* The control-floor summary: export_summary() and validate_summary() of   *)
(* async-bench/scripts/export_control_floor.py, which make it from the     *)
(* output of Criterion, and load_control_floor() of                        *)
(* tonic-profile/scripts/summarize_s04_claim_package.py, which reads it.   *)
(*                                                                         *)
(* A JSON value is abstracted to its kind: "text", "blank" (a string of    *)
(* spaces), "null", "number", "bool", "list", "none" (an empty list); a    *)
(* name is a string of its own.  An estimate stands for its                *)
(* point_estimate, "null" if there is no such object.                      *)
(***************************************************************************)
EXTENDS Naturals, Sequences, FiniteSets

NotName == {"text", "blank", "null", "number", "bool", "list", "none"}

Suite     == "async_control_floor"
Expected  == {"spawn_join", "same_thread_wake"}

Estimates == {"mean", "median", "slope", "std_dev"}
Sources   == {"criterion_directory", "benchmark_source", "estimates_source", "sample_source"}

-----------------------------------------------------------------------------
(* The checks on one value.                                                *)

require_non_empty_string(v) == v \notin NotName \ {"text"}

\* isinstance(True, int) holds here; float() makes a number of it.
require_number(v) == v \in {"number", "bool"}

-----------------------------------------------------------------------------
(* Export.  A directory of the suite is a record of its name, of the files *)
(* under new/ that are there and parse, and of the fields that are read.   *)

benchmark_name(dir) == IF dir.function_id = "null" THEN dir.group_id ELSE dir.function_id

\* metadata.get("full_id") or metadata.get("title"); "null" is also an empty text.
benchmark_id(dir) == IF dir.full_id # "null" THEN dir.full_id ELSE dir.title

BenchmarkNameFromMetadata(dir) ==
  /\ require_non_empty_string(dir.group_id)
  /\ dir.group_id = Suite
  /\ require_non_empty_string(benchmark_name(dir))
  /\ require_non_empty_string(benchmark_id(dir))

\* summarize_benchmark() goes through; a null slope (flat sampling) is refused.
SummarizeBenchmark(dir) ==
  /\ {"benchmark", "estimates", "sample"} \subseteq dir.parses
  /\ BenchmarkNameFromMetadata(dir)
  /\ \A e \in Estimates : require_number(dir.estimate[e])
  /\ require_non_empty_string(dir.sampling_mode)
  /\ dir.times = "list"

\* BenchmarkSummary.to_json()
ToJson(dir) ==
  [benchmark_name |-> benchmark_name(dir),
   benchmark_id   |-> benchmark_id(dir),
   source         |-> [s \in Sources |-> dir.name],
   estimate_ns    |-> [e \in Estimates |-> "number"],
   sample_count   |-> "positive",
   sampling_mode  |-> dir.sampling_mode]

BenchmarkDirectories(root) == SelectSeq(root, LAMBDA dir : "benchmark" \in dir.files)

\* A later directory replaces an earlier one of the same benchmark.
BenchmarkMap(dirs) ==
  LET names == {benchmark_name(dirs[i]) : i \in DOMAIN dirs}
      last(name) == CHOOSE i \in DOMAIN dirs :
                      /\ benchmark_name(dirs[i]) = name
                      /\ \A j \in DOMAIN dirs : benchmark_name(dirs[j]) = name => j <= i
  IN  [name \in names |-> ToJson(dirs[last(name)])]

\* Mutant: it is not looked for expected benchmarks that are missing.
ExportSucceeds_AnySet(root) ==
  LET dirs == BenchmarkDirectories(root) IN
  /\ dirs # <<>>
  /\ \A i \in DOMAIN dirs : SummarizeBenchmark(dirs[i])

ExportSucceeds(root) ==
  LET dirs == BenchmarkDirectories(root) IN
  /\ dirs # <<>>
  /\ \A i \in DOMAIN dirs : SummarizeBenchmark(dirs[i])
  /\ Expected \subseteq DOMAIN BenchmarkMap(dirs)

ExportSummary(root) ==
  [schema_version |-> 1, suite_name |-> Suite,
   benchmarks |-> BenchmarkMap(BenchmarkDirectories(root))]

-----------------------------------------------------------------------------
(* The readers.                                                            *)

ValidateSummary(payload) ==
  /\ payload.schema_version = 1
  /\ payload.suite_name = Suite
  /\ Expected \subseteq DOMAIN payload.benchmarks
  /\ \A name \in DOMAIN payload.benchmarks :
       LET benchmark == payload.benchmarks[name] IN
       /\ require_non_empty_string(benchmark.benchmark_name)
       /\ require_non_empty_string(benchmark.benchmark_id)
       /\ \A s \in Sources : require_non_empty_string(benchmark.source[s])
       /\ require_non_empty_string(benchmark.sampling_mode)
       /\ \A e \in Estimates : require_number(benchmark.estimate_ns[e])
       /\ benchmark.sample_count = "positive"

\* expected_benchmarks of the software manifest is what the suite exports.
LoadControlFloor(payload) ==
  \A name \in Expected :
     /\ name \in DOMAIN payload.benchmarks
     /\ payload.benchmarks[name].benchmark_name = name
     /\ \A e \in {"mean", "median", "std_dev"} :
          payload.benchmarks[name].estimate_ns[e] = "number"
     /\ payload.benchmarks[name].sample_count \in {"positive", "number"}
=============================================================================
