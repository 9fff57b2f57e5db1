----------------------------- MODULE ClaimPackage -----------------------------
(***************************************************************************)
(* The claim package: execute_run() and main() of run_s04_claim_package.py *)
(* with its three phases.  The software phase (verify_s02...sh) and the    *)
(* IDXD phase (verify_s03_idxd_path.sh) are processes that write their     *)
(* reports job by job and exit with 0 only if they keep the promise of     *)
(* EvidencePhase; the summary phase is summarize_s04_claim_package.py.     *)
(*                                                                         *)
(* The run root is not cleaned between invocations.  A phase that runs out *)
(* of time loses its shell, but the endpoints of its current job go on and *)
(* may still write their reports (orphans); the runner of that job ends at *)
(* its next message, since nobody reads its output any more.  The same     *)
(* endpoints may outlive an IDXD phase that fails, behind devenv.          *)
(***************************************************************************)
EXTENDS ClaimSummary, ControlFloor

CONSTANTS
  MaxTurns     \* bound: how often the runner is started

ASSUME TurnsAssumption == MaxTurns \in Nat \ {0}

VARIABLES
  file,        \* the manifest, by its number
  criterion,   \* the output of Criterion, by its number
  fixture,     \* what the sibling fixture/idxd directory holds
  turn,        \* number of this invocation
  pc,          \* where the runner is
  exit,        \* [code, phase] once main() has returned
  k,           \* the file the runner or the summariser is at
  proc,        \* the process of the software or the IDXD phase
  orphans,     \* endpoints that outlived their phase
  disk,        \* file -> Missing, Torn, a report or the control floor
  floorCopy,   \* control-floor/ in the run root
  loaded,      \* reports the summariser has read
  floor,       \* the control floor it has read
  out,         \* the three derived outputs
  haunted      \* an orphan was alive during this invocation (history)

config  == <<file, criterion, fixture, turn>>
summary == <<loaded, floor>>
vars    == <<config, pc, exit, k, proc, orphans, disk, floorCopy, summary, out, haunted>>

-----------------------------------------------------------------------------
(* Files and jobs.                                                         *)

FamilyOrder == <<"software_baseline", "software_attribution", "idxd_attribution">>
LabelOrder  == <<"bytes-64", "small-to-heavy">>

FileNames ==
  [software_baseline    |-> << <<"b.off.client", "b.off.server">>,
                               <<"s.off.client", "s.off.server">> >>,
   software_attribution |-> << <<"b.on.client", "b.on.server">>,
                               <<"s.on.client", "s.on.server">> >>,
   idxd_attribution     |-> << <<"b.idxd.client", "b.idxd.server">>,
                               <<"s.idxd.client", "s.idxd.server">> >>]

\* A file on disk is called by its name, which tells its directory.
NameOf(family, label, role) ==
  FileNames[family][IF label = "bytes-64" THEN 1 ELSE 2][IF role = "client" THEN 1 ELSE 2]

Floor == "control-floor"

Reports == Families \X Labels \X Endpoints
Files   == {NameOf(r[1], r[2], r[3]) : r \in Reports} \cup {Floor}

\* The report that belongs into a file.
Owner == [p \in Files \ {Floor} |-> CHOOSE r \in Reports : NameOf(r[1], r[2], r[3]) = p]

\* Its path, as the manifest has it.
PathOf(family, label, role) ==
  [dir |-> ExpectedFamily[family].selected_path, sub |-> "", name |-> NameOf(family, label, role)]

Job(family, label) == [family |-> family, label |-> label]

\* The jobs of a phase in order; the last one of the software phase exports
\* the control floor, the first one of the IDXD phase is its selftest.
JobsOf ==
  [software |-> << Job("software_baseline", "bytes-64"),
                   Job("software_attribution", "bytes-64"),
                   Job("software_baseline", "small-to-heavy"),
                   Job("software_attribution", "small-to-heavy"),
                   Job("floor", "none") >>,
   idxd     |-> << Job("selftest", "none"),
                   Job("idxd_attribution", "bytes-64"),
                   Job("idxd_attribution", "small-to-heavy") >>]

JobFiles(job) ==
  CASE job.family \in Families -> {NameOf(job.family, job.label, role) : role \in Endpoints}
    [] job.family = "floor"    -> {Floor}
    [] job.family = "selftest" -> {}

PairOrder == [i \in 1 .. 6 |-> <<FamilyOrder[(i + 1) \div 2], LabelOrder[2 - (i % 2)]>>]

\* The runs of one pair of endpoints differ by the invocation.
RunId(t, p) == [turn |-> t, pair |-> CHOOSE i \in DOMAIN PairOrder :
                                       PairOrder[i] = <<Owner[p][1], Owner[p][2]>>]

-----------------------------------------------------------------------------
(* Inputs: manifests, Criterion directories, fixtures.                     *)

Upstream02 ==
  [label \in Labels |-> [mode \in {"off", "on"} |-> [role \in Endpoints |->
     NameOf(IF mode = "off" THEN "software_baseline" ELSE "software_attribution",
            label, role)]]]
Upstream03 ==
  [label \in Labels |-> [role \in Endpoints |-> NameOf("idxd_attribution", label, role)]]

RowOrder == << <<"bytes-64", "client">>, <<"bytes-64", "server">>,
               <<"small-to-heavy", "client">>, <<"small-to-heavy", "server">> >>

TrackedFamily(family) ==
  [run_family       |-> family,
   source_manifest  |-> ExpectedFamily[family].source_key,
   instrumentation  |-> ExpectedFamily[family].instrumentation,
   selected_path    |-> ExpectedFamily[family].selected_path,
   endpoint_reports |-> [i \in DOMAIN RowOrder |->
      [workload_label |-> RowOrder[i][1], endpoint_role |-> RowOrder[i][2],
       artifact |-> PathOf(family, RowOrder[i][1], RowOrder[i][2])]]]

\* An input is called by its key.
Tracked ==
  [version |-> 1,
   run_root |-> RunRoot,
   scope |-> [kind |-> "object", workload_labels |-> LabelOrder,
              pairing_keys |-> PairingKeys],
   inputs |-> [i \in Inputs |-> i],
   derived_outputs |-> ExpectedDerivedOutputs,
   artifact_families |-> [i \in DOMAIN FamilyOrder |-> TrackedFamily(FamilyOrder[i])],
   report |-> [path |-> ReportPath, required_references |-> ExpectedReportReferences(RunRoot)]]

Manifests ==
  LET m == Tracked
      idxd == TrackedFamily("idxd_attribution") IN
  << m,
     \* accepted: the artifact is below another directory of the family
     [m EXCEPT !.artifact_families[3].endpoint_reports[1].artifact.sub = "old"],
     \* refused
     [m EXCEPT !.version = 2],
     [m EXCEPT !.run_root = "elsewhere"],
     [m EXCEPT !.scope.workload_labels = <<"bytes-64">>],
     [m EXCEPT !.scope.pairing_keys = <<"endpoint_role", "workload_label", "run_family">>],
     [m EXCEPT !.inputs["report_contract"] = "gone"],
     [m EXCEPT !.derived_outputs["claim_table_md"] = "summary/ordinary_vs_idxd.csv"],
     [m EXCEPT !.artifact_families = <<m.artifact_families[1], idxd>>],
     [m EXCEPT !.artifact_families[2] = m.artifact_families[1]],
     [m EXCEPT !.artifact_families[1].instrumentation = "on"],
     [m EXCEPT !.artifact_families[3].endpoint_reports = SubSeq(idxd.endpoint_reports, 1, 3)],
     [m EXCEPT !.artifact_families[3].endpoint_reports[2] = idxd.endpoint_reports[1]],
     [m EXCEPT !.artifact_families[3].endpoint_reports[1].artifact.name = "stale"],
     [m EXCEPT !.report.required_references = ExpectedReportReferences("elsewhere")] >>

manifest == Manifests[file]

\* A directory of Criterion, named like its benchmark.
Bench(name) ==
  [name |-> name, files |-> {"benchmark", "estimates", "sample"},
   parses |-> {"benchmark", "estimates", "sample"},
   group_id |-> Suite, function_id |-> name, full_id |-> "text", title |-> "null",
   estimate |-> [e \in Estimates |-> "number"], sampling_mode |-> "text", times |-> "list"]

Healthy == <<Bench("same_thread_wake"), Bench("spawn_join")>>

CriterionRoots ==
  << Healthy,
     \* a directory of an earlier name of the benchmark, and one without report
     <<[Bench("old_name") EXCEPT !.function_id = "spawn_join"]>> \o Healthy,
     <<[Bench("report") EXCEPT !.files = {}]>> \o Healthy,
     [Healthy EXCEPT ![1].estimate["mean"] = "bool"],
     [Healthy EXCEPT ![1].full_id = "null", ![1].title = "text"],
     \* refused
     <<>>,
     <<Bench("spawn_join")>>,
     [Healthy EXCEPT ![2].estimate["slope"] = "null"],
     [Healthy EXCEPT ![2].group_id = "other_suite"],
     [Healthy EXCEPT ![2].function_id = "blank"],
     [Healthy EXCEPT ![2].parses = {"benchmark", "estimates"}],
     [Healthy EXCEPT ![2].times = "none"] >>

Fixtures == {"complete", "none", "partial", "mixed"}

\* The usual configuration: the tracked manifest, two benchmarks, a complete
\* fixture.  Bounds: one of file, criterion and fixture is unusual at a time;
\* a control floor that is missing or torn at first goes with unusual ones.
Usual == file = 1 /\ criterion = 1 /\ fixture = "complete"

\* Bound: the runner is started again only in the usual configuration.
Turns == IF Usual THEN MaxTurns ELSE 1

\* Bound: what happens to the files after the last invocation has returned,
\* or because it was interrupted, is not followed: nobody reads them again.
Matters == turn < Turns \/ pc # "exit"

\* A file on disk keeps who wrote it; RunOf caches RunId.
RunOf == [t \in 0 .. MaxTurns |-> [p \in Files \ {Floor} |-> RunId(t, p)]]
Report(run, device) == [state |-> "complete", run |-> run, device |-> device]

\* The fixture's reports are of runs of turn 0; a mixed one pairs two runs.
FixtureReport(p) ==
  CASE fixture = "partial" /\ Owner[p][2] = "small-to-heavy" /\ Owner[p][3] = "server" -> Missing
    [] fixture = "mixed" /\ Owner[p][3] = "server" ->
         Report([RunOf[0][p] EXCEPT !.pair = 0], "wq-fixture")
    [] OTHER -> Report(RunOf[0][p], "wq-fixture")

\* The control-floor summary is an input that must be there beforehand.
Present == IF disk[Floor].state = "missing" THEN Inputs \ {"control_floor_summary"} ELSE Inputs

ManifestLoads == LoadManifest(manifest, Upstream02, Upstream03, Present) = TRUE

-----------------------------------------------------------------------------
(* The processes of the software and the IDXD phase.                       *)

NoProc == [phase |-> "none", at |-> 0, left |-> {}, said |-> FALSE,
           why |-> "none", state |-> "none"]

Payloads == [c \in DOMAIN CriterionRoots |-> ExportSummary(CriterionRoots[c])]
Exports  == {c \in DOMAIN CriterionRoots : ExportSucceeds(CriterionRoots[c])}

\* The summary in a file of the control floor.
Payload(f) == Payloads[f.root]

Started(phase) == [NoProc EXCEPT !.phase = phase, !.state = "running"]

\* What the process of invocation t writes to a path.
Written(t, p) ==
  IF p = Floor
    THEN [state |-> "complete", turn |-> t, root |-> criterion]
    ELSE Report(RunOf[t][p], IF Owner[p][1] = "idxd_attribution" THEN "wq" ELSE "null")

FamiliesOf(phase) ==
  IF phase = "idxd" THEN {"idxd_attribution"} ELSE Families \ {"idxd_attribution"}

\* The promise of EvidencePhase about the reports of a phase: they are
\* complete, client and server of a pair are of one run, on one device.
Verified(phase, device) ==
  \A family \in FamiliesOf(phase), label \in Labels :
    /\ \A role \in Endpoints :
         LET got == disk[NameOf(family, label, role)] IN
         /\ got.state = "complete"
         /\ got.device = device
    /\ disk[NameOf(family, label, "client")].run
         = disk[NameOf(family, label, "server")].run

procFrame == <<config, pc, exit, k, floorCopy, summary, out, haunted>>

NextOf(p) == JobsOf[p.phase][p.at + 1]

\* The next command or job of the script.  The reports of the software phase
\* are validated before the control floor is exported, and the export only
\* writes what it could make of all directories.
ProcContinues ==
  /\ proc.state = "running"
  /\ proc.left = {}
  /\ proc.at < Len(JobsOf[proc.phase])
  /\ NextOf(proc).family = "floor" =>
       Verified("software", "null") /\ criterion \in Exports
  /\ proc' = [proc EXCEPT !.at = @ + 1, !.left = JobFiles(NextOf(proc)),
                          !.said = @ \/ NextOf(proc).family = "selftest"]
  /\ UNCHANGED <<procFrame, orphans, disk>>

ProcWrites ==
  /\ proc.state = "running"
  /\ \E p \in proc.left :
       /\ proc' = [proc EXCEPT !.left = @ \ {p}]
       /\ disk' = [disk EXCEPT ![p] = Written(turn, p)]
  /\ UNCHANGED <<procFrame, orphans>>

ProcPasses ==
  /\ proc.state = "running"
  /\ proc.left = {}
  /\ proc.at = Len(JobsOf[proc.phase])
  /\ IF proc.phase = "software"
       THEN disk[Floor].state = "complete" /\ ValidateSummary(Payload(disk[Floor]))
       ELSE Verified("idxd", "wq")
  /\ proc' = [proc EXCEPT !.state = "exit0"]
  /\ UNCHANGED <<procFrame, orphans, disk>>

\* No work queue, devenv, launcher or capability: fail_phase preflight.
ProcBlocked ==
  /\ proc.state = "running"
  /\ proc.phase = "idxd"
  /\ proc.at = 0
  /\ proc' = [proc EXCEPT !.state = "exitN", !.said = TRUE, !.why = "preflight"]
  /\ UNCHANGED <<procFrame, orphans, disk>>

\* Why a phase that ends now has failed: its selftest, or anything else.
WhyOf(p) == IF p.phase = "idxd" /\ p.at = 1 THEN "preflight" ELSE "other"

\* A file is truncated, then written: an endpoint that ends at a bad moment
\* leaves half a file.
Interrupting(left) == {disk} \cup {[disk EXCEPT ![p] = Torn] : p \in left}

\* The script stops at the first command that fails.  In the IDXD phase the
\* endpoints of a failed job may outlive devenv, which the runner has killed.
ProcFails ==
  /\ proc.state = "running"
  /\ proc' = [proc EXCEPT !.state = "exitN", !.left = {}, !.why = WhyOf(proc)]
  /\ \/ disk' \in Interrupting(proc.left) /\ UNCHANGED <<orphans, haunted>>
     \/ /\ proc.phase = "idxd" /\ proc.left # {}
        /\ orphans' = orphans \cup {[turn |-> turn, left |-> proc.left]}
        /\ haunted' = TRUE
        /\ UNCHANGED disk
  /\ UNCHANGED <<config, pc, exit, k, floorCopy, summary, out>>

OrphanWrites ==
  /\ Matters
  /\ \E o \in orphans : \E p \in o.left :
       /\ orphans' = (orphans \ {o}) \cup
            (IF o.left = {p} THEN {} ELSE {[o EXCEPT !.left = @ \ {p}]})
       /\ disk' = [disk EXCEPT ![p] = Written(o.turn, p)]
  /\ UNCHANGED <<procFrame, proc>>

OrphanEnds ==
  /\ Matters
  /\ \E o \in orphans :
       /\ orphans' = orphans \ {o}
       /\ disk' \in Interrupting(o.left)
  /\ UNCHANGED <<procFrame, proc>>

-----------------------------------------------------------------------------
(* main() and execute_run() up to the summary.                             *)

NotLoaded == [r \in Reports |-> Missing]

\* main() returns; what it held in its variables is gone.
Return(code, phase) ==
  /\ pc' = "exit"
  /\ exit' = [code |-> code, phase |-> phase]
  /\ k' = 1
  /\ proc' = NoProc
  /\ loaded' = NotLoaded
  /\ floor' = 0

NotReturned == [code |-> 0, phase |-> "none"]

\* load_manifest() refuses: nothing has been touched.
ManifestRefused ==
  /\ pc = "main"
  /\ ~ManifestLoads
  /\ Return(1, "manifest-parse")
  /\ UNCHANGED <<config, orphans, disk, floorCopy, out, haunted>>

ValidateOnly ==
  /\ pc = "main"
  /\ ManifestLoads
  /\ Return(0, "manifest-parse")
  /\ UNCHANGED <<config, orphans, disk, floorCopy, out, haunted>>

\* prepare_run_root() removes nothing; copy_control_floor_reference() takes
\* the summary that is there before the software phase replaces it.
PrepareRunRoot ==
  /\ pc = "main"
  /\ ManifestLoads
  /\ floorCopy' = disk[Floor]
  /\ proc' = Started("software")
  /\ pc' = "software"
  /\ UNCHANGED <<config, exit, k, orphans, disk, summary, out, haunted>>

PhaseFailed(p) == p.state = "exitN"

\* run_phase_command() returned.
SoftwareReturned ==
  /\ pc = "software"
  /\ proc.state \in {"exit0", "exitN"}
  /\ IF PhaseFailed(proc)
       THEN Return(1, "software")
       ELSE pc' = "idxd" /\ proc' = Started("idxd") /\ UNCHANGED <<exit, k, summary>>
  /\ UNCHANGED <<config, orphans, disk, floorCopy, out, haunted>>

\* idxd_failure_allows_fallback(): a marker anywhere in what the phase wrote.
\* "phase=preflight" is also the banner in front of the selftest.
AllowsFallback(p) == p.said

\* The handler of execute_run(), for a phase that ended as p; without a
\* fixture the error is raised again.
IdxdFailed(p) ==
  IF AllowsFallback(p) /\ fixture # "none"
    THEN pc' = "seed" /\ k' = 1 /\ proc' = p /\ UNCHANGED <<exit, summary>>
    ELSE Return(1, "idxd")

IdxdReturned ==
  /\ pc = "idxd"
  /\ proc.state \in {"exit0", "exitN"}
  /\ IF PhaseFailed(proc)
       THEN IdxdFailed(proc)
       ELSE pc' = "summary" /\ UNCHANGED <<exit, k, proc, summary>>
  /\ UNCHANGED <<config, orphans, disk, floorCopy, out, haunted>>

\* subprocess.run() kills the shell; the current job of the script lives on.
PhaseTimeout ==
  /\ pc \in {"software", "idxd"}
  /\ proc.state = "running"
  /\ orphans' = orphans \cup
       (IF proc.left = {} THEN {}
        ELSE {[turn |-> turn, left |-> proc.left]})
  /\ haunted' = (haunted \/ proc.left # {})
  /\ IF pc = "software"
       THEN Return(1, "software")
       ELSE IdxdFailed([proc EXCEPT !.state = "killed", !.left = {}, !.why = WhyOf(proc)])
  /\ UNCHANGED <<config, disk, floorCopy, out>>

-----------------------------------------------------------------------------
(* seed_idxd_fallback().                                                   *)

SeedOrder == [i \in DOMAIN RowOrder |->
                NameOf("idxd_attribution", RowOrder[i][1], RowOrder[i][2])]

\* One file per step.  When one is missing, those before it stay replaced.
SeedFile ==
  /\ pc = "seed"
  /\ k <= Len(SeedOrder)
  /\ LET source == FixtureReport(SeedOrder[k]) IN
     IF source.state = "missing"
       THEN Return(1, "idxd") /\ UNCHANGED disk
       ELSE /\ disk' = [disk EXCEPT ![SeedOrder[k]] = source]
            /\ k' = k + 1
            /\ UNCHANGED <<pc, exit, proc, summary>>
  /\ UNCHANGED <<config, orphans, floorCopy, out, haunted>>

\* The device of the fixture, then run_s03_idxd_evidence.py --verify-only.
SeedVerified ==
  /\ pc = "seed"
  /\ k > Len(SeedOrder)
  /\ IF Verified("idxd", "wq-fixture")
       THEN pc' = "summary" /\ UNCHANGED <<exit, k, proc, summary>>
       ELSE Return(1, "idxd-fallback")
  /\ UNCHANGED <<config, orphans, disk, floorCopy, out, haunted>>

-----------------------------------------------------------------------------
(* The summary phase: summarize(), one file per step.                      *)

\* The reports in the order of the manifest: <<family, entry>>.
ReadOrder ==
  [i \in 1 .. 12 |-> <<manifest.artifact_families[(i + 3) \div 4],
                       manifest.artifact_families[(i + 3) \div 4]
                         .endpoint_reports[((i - 1) % 4) + 1]>>]

\* The report at a path: the role, the workload, ... follow from the job that
\* writes there.
FileAt(artifact) ==
  LET own == Owner[artifact.name]
      got == disk[artifact.name]
  IN  IF artifact # PathOf(own[1], own[2], own[3]) THEN Missing
      ELSE IF got.state # "complete" THEN got
      ELSE ReportFor(own[1], own[2], own[3], got.run, got.device)

\* Mutant: the exit status of the summariser is not looked at.
SummaryFails_Ignored == pc' = "validate" /\ UNCHANGED <<exit, k, proc, summary>>

SummaryFails == Return(1, "summary")

\* Mutant: the summary takes the copy in the run root.
FloorRead_Copy == floorCopy

\* load_control_floor() reads the input of the manifest.
FloorRead == disk[Floor]

\* load_manifest() again, on the copied manifest, and load_control_floor().
SummaryStarts ==
  /\ pc = "summary"
  /\ IF /\ ManifestLoads
        /\ FloorRead.state = "complete"
        /\ LoadControlFloor(Payload(FloorRead))
       THEN /\ floor' = FloorRead.turn
            /\ loaded' = NotLoaded
            /\ k' = 1
            /\ proc' = NoProc
            /\ pc' = "read"
            /\ UNCHANGED exit
       ELSE SummaryFails
  /\ UNCHANGED <<config, orphans, disk, floorCopy, out, haunted>>

ReadReport ==
  /\ pc = "read"
  /\ k <= 12
  /\ LET family == ReadOrder[k][1]
         entry  == ReadOrder[k][2]
         got    == FileAt(entry.artifact)
     IN  IF LoadReport(family, entry, got)
           THEN /\ loaded' = [loaded EXCEPT ![<<family.run_family, entry.workload_label,
                                                entry.endpoint_role>>] =
                                [run_id |-> got.run_id, device_path |-> got.device_path]]
                /\ k' = k + 1
                /\ UNCHANGED <<pc, exit, proc, floor>>
           ELSE SummaryFails
  /\ UNCHANGED <<config, orphans, disk, floorCopy, out, haunted>>

CheckPairs ==
  /\ pc = "read"
  /\ k > 12
  /\ IF PairMismatch(loaded)
       THEN SummaryFails
       ELSE pc' = "write" /\ k' = 1 /\ UNCHANGED <<exit, proc, summary>>
  /\ UNCHANGED <<config, orphans, disk, floorCopy, out, haunted>>

\* write_json(), write_csv(), write_claim_table()
WriteOutput ==
  /\ pc = "write"
  /\ k <= Len(Outputs)
  /\ out' = [out EXCEPT ![Outputs[k]] = [state |-> "complete", turn |-> turn,
                                         rows |-> BuildRows(loaded), floor |-> floor]]
  /\ k' = k + 1
  /\ UNCHANGED <<config, pc, exit, proc, orphans, disk, floorCopy, summary, haunted>>

SummaryReturned ==
  /\ pc = "write"
  /\ k > Len(Outputs)
  /\ IF VerifyOutputs(out)
       THEN pc' = "validate" /\ UNCHANGED <<exit, k, proc, summary>>
       ELSE SummaryFails
  /\ UNCHANGED <<config, orphans, disk, floorCopy, out, haunted>>

\* The outputs when the summariser is killed: the one it is at may be cut off.
CutOff ==
  {out} \cup (IF pc = "write" /\ k <= Len(Outputs)
                THEN {[out EXCEPT ![Outputs[k]] = [state |-> st]] : st \in {"empty", "partial"}}
                ELSE {})

\* The summariser is the child itself: no orphans.
SummaryTimeout ==
  /\ pc \in {"summary", "read", "write"}
  /\ out' \in CutOff
  /\ SummaryFails
  /\ UNCHANGED <<config, orphans, disk, floorCopy, haunted>>

\* The references of the manifest, taken below the actual run root.
ReportReferencesMatch ==
  manifest.report.required_references
    = [i \in DOMAIN Outputs |-> <<manifest.run_root, manifest.derived_outputs[Outputs[i]]>>]

\* validate_summary_outputs(), validate_report_references()
ValidateOutputs ==
  /\ pc = "validate"
  /\ IF VerifyOutputs(out) /\ ReportReferencesMatch
       THEN Return(0, "done")
       ELSE Return(1, "output-validation")
  /\ UNCHANGED <<config, orphans, disk, floorCopy, out, haunted>>

-----------------------------------------------------------------------------
(* The surroundings.                                                       *)

\* The user interrupts the runner and its children.
Interrupted ==
  /\ turn < Turns
  /\ pc \notin {"main", "exit"}
  /\ Return(130, "interrupted")
  /\ disk' \in Interrupting(proc.left)
  /\ out' \in CutOff
  /\ UNCHANGED <<config, orphans, floorCopy, haunted>>

Init ==
  /\ file \in DOMAIN Manifests
  /\ criterion \in (IF file = 1 THEN DOMAIN CriterionRoots ELSE {1})
  /\ fixture \in (IF file = 1 /\ criterion = 1 THEN Fixtures ELSE {"complete"})
  /\ turn = 1
  /\ pc = "main"
  /\ exit = NotReturned
  /\ k = 1
  /\ proc = NoProc
  /\ orphans = {}
  /\ \E f \in {[state |-> "complete", turn |-> 0, root |-> 1]}
              \cup (IF Usual THEN {} ELSE {Missing, Torn}) :
       disk = [p \in Files |-> IF p = Floor THEN f ELSE Missing]
  /\ floorCopy = Missing
  /\ loaded = NotLoaded
  /\ floor = 0
  /\ out = [o \in DOMAIN ExpectedDerivedOutputs |-> Missing]
  /\ haunted = FALSE

\* The runner is started again on the same run root.
Invoke ==
  /\ pc = "exit"
  /\ turn < Turns
  /\ turn' = turn + 1
  /\ pc' = "main"
  /\ exit' = NotReturned
  /\ haunted' = (orphans # {})
  /\ UNCHANGED <<file, criterion, fixture, k, proc, orphans, disk, floorCopy, summary, out>>

Done ==
  /\ pc = "exit"
  /\ turn = Turns
  /\ UNCHANGED vars

Next ==
  \/ ManifestRefused \/ ValidateOnly \/ PrepareRunRoot
  \/ SoftwareReturned \/ IdxdReturned \/ PhaseTimeout
  \/ SeedFile \/ SeedVerified
  \/ SummaryStarts \/ ReadReport \/ CheckPairs
  \/ WriteOutput \/ SummaryReturned \/ SummaryTimeout \/ ValidateOutputs
  \/ ProcContinues \/ ProcWrites \/ ProcPasses \/ ProcBlocked \/ ProcFails
  \/ OrphanWrites \/ OrphanEnds
  \/ Interrupted \/ Invoke \/ Done

Spec == Init /\ [][Next]_vars

-----------------------------------------------------------------------------
(* Properties.                                                             *)

Passed == pc = "exit" /\ exit.phase = "done"

Summary == out["comparison_summary_json"]

\* "phase=done verdict=pass": the three outputs are complete, of this
\* invocation and of the same rows, although earlier invocations leave theirs
\* in the run root and an interrupted one leaves new and old ones side by side.
OutputsAgree ==
  Passed => \A o \in DOMAIN out : out[o] = Summary /\ out[o].turn = turn

\* In every summary ever written, the client and the server that stand for a
\* workload are of one run, also while orphans of an earlier phase write.
RowsArePaired ==
  Summary.state = "complete" =>
    \A label \in Labels, family \in Families :
       Summary.rows[<<label, "client">>].run_id[family]
         = Summary.rows[<<label, "server">>].run_id[family]

\* When the run passes and no phase has left a process behind, the software
\* rows and the control floor are of this invocation, and the IDXD rows are
\* all of this invocation or all of the fixture: nothing stale, no mixture.
PackageIsFresh ==
  Passed /\ ~haunted =>
    /\ Summary.floor = turn
    /\ \A r \in DOMAIN Summary.rows : \A f \in Families \ {"idxd_attribution"} :
         Summary.rows[r].run_id[f].turn = turn
    /\ \E t \in {0, turn} : \A r \in DOMAIN Summary.rows :
         Summary.rows[r].run_id["idxd_attribution"].turn = t

\* What export_summary() has written, whatever directories it found, passes
\* validate_summary() and the summariser's load_control_floor().
ExportedFloorLoads ==
  disk[Floor].state = "complete" =>
    ValidateSummary(Payload(disk[Floor])) /\ LoadControlFloor(Payload(disk[Floor]))

\* 014.idxd_tonic_same_repo_claim_package.md: the package is of mixed
\* provenance "when S03 preflight is blocked".  The fixture is only used then.
FallbackOnlyWhenPreflightBlocked == pc = "seed" => proc.why = "preflight"
=============================================================================
