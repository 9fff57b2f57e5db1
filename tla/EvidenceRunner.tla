---------------------------- MODULE EvidenceRunner ----------------------------
(***************************************************************************)
(* The evidence runners of tonic-profile: main() of run_s01_workloads.py,  *)
(* run_s02_evidence.py and run_s03_idxd_evidence.py, with                  *)
(* run_server_client_pair() of proof_runner_common.py, the two endpoint    *)
(* processes they start, and the artifacts that stay on disk from one      *)
(* invocation to the next.                                                 *)
(*                                                                         *)
(* A runner works through its jobs one at a time: reserve a port, start    *)
(* the server, wait for the port, run the client, wait for the server to   *)
(* exit, clean up.  Each wait ends by what the endpoint does or by its     *)
(* timeout, which may fire at any moment.  The endpoints may fail or hang  *)
(* anywhere, and a third process may take the reserved port first.         *)
(***************************************************************************)
EXTENDS EvidenceReport

CONSTANTS
  Suites,          \* the runners explored: a subset of {"s01", "s02", "s03"}
  MaxInvocations   \* bound: how often the runner is started

ASSUME RunnerAssumption ==
  /\ Suites \subseteq {"s01", "s02", "s03"}
  /\ MaxInvocations \in Nat \ {0}

VARIABLES
  suite,       \* which runner
  file,        \* the manifest file, by its number
  counters,    \* whether stage counters depend on the workload ("own", "flat")
  forks,       \* s03: devenv stays between the runner and the endpoint
  args,        \* the command line of this invocation
  inv,         \* number of this invocation
  pc,          \* where the runner is
  n,           \* the job it is at
  exc,         \* phase of the exception in flight, "none" without one
  exit,        \* [code, phase] once main() has returned
  at,          \* the artifact validate_artifacts() is at
  reports,     \* the reports it has read (pair_reports, on_signatures)
  server,      \* state of the server process of this job
  client,      \* state of the client process of this job
  signal,      \* strongest signal sent to the server
  port,        \* who listens on the reserved port
  orphans,     \* endpoints that outlived their killed launcher
  disk,        \* artifact path -> Missing, Torn or a report
  servedBy     \* who answered in this job (history): nobody, somebody the probe
               \* of wait_for_port(), or whoever then answered the client

config == <<suite, file, counters, forks>>
main   == <<args, inv, exit>>
reader == <<at, reports>>
procs  == <<server, client, signal, port, orphans, servedBy>>
vars   == <<config, main, pc, n, exc, reader, procs, disk>>

-----------------------------------------------------------------------------
(* Inputs: command lines and manifests.                                    *)

Given == [output_dir |-> TRUE, binary |-> TRUE, device |-> TRUE, devenv |-> TRUE]

\* Complete command lines, and runs with one thing missing.
Args ==
  {[verb |-> v, given |-> Given] : v \in {"run", "verify", "validate", "both"}}
    \cup {[verb |-> "run", given |-> [Given EXCEPT ![x] = FALSE]] : x \in DOMAIN Given}

PathName(i, mode, role) ==
  LET name == << <<"a.off.client", "a.off.server", "a.on.client", "a.on.server">>,
                 <<"b.off.client", "b.off.server", "b.on.client", "b.on.server">> >>
  IN  name[i][(IF mode = "on" THEN 3 ELSE 1) + (IF role = "server" THEN 1 ELSE 0)]

Paths == {PathName(i, mode, role) : i \in 1 .. 2, mode \in Modes, role \in Roles}

\* The tracked manifests: one payload workload and one shape workload.
EntryFields(su, i) ==
  [f \in Fields |->
     CASE f = "label"          -> IF i = 1 THEN "bytes-64"
                                  ELSE IF su = "s01" THEN "small-to-small"
                                  ELSE "small-to-heavy"
       [] f = "rpc"            -> IF i = 1 THEN "unary-bytes" ELSE "unary-proto-shape"
       [] f = "payload_size"   -> IF i = 1 THEN "positive" ELSE "absent"
       [] f = "payload_kind"   -> IF i = 1 THEN "repeated" ELSE "absent"
       [] f = "proto_shape"    -> IF i = 1 THEN "absent" ELSE "small"
       [] f = "response_shape" -> IF i = 1 THEN "absent"
                                  ELSE IF su = "s01" THEN "same" ELSE "heavy"
       [] OTHER                -> "absent"]

DefaultFields(su) ==
  [f \in Fields |->
     CASE f = "warmup_ms"        -> IF su = "s01" THEN "positive" ELSE "zero"
       [] f \in IntFields        -> "positive"
       [] f \in StrFields        -> "default"
       [] f = "instrumentation"  -> "on"
       [] f = "accelerated_path" -> "idxd"
       [] OTHER                  -> "absent"]

Tracked(su) ==
  [root       |-> "object",
   defaults   |-> [kind |-> "object", field |-> DefaultFields(su)],
   benchmarks |-> "suite",
   expected   |-> [k \in Metadata |-> IF k = "require_device_path" THEN "true"
                                      ELSE ExpectedMetadataFields[k]],
   workloads  |-> [i \in 1 .. 2 |->
                     [kind     |-> "object",
                      field    |-> EntryFields(su, i),
                      artifact |-> [k \in Modes \X Roles |-> PathName(i, k[1], k[2])]]]]

\* Manifests with a null or an empty value, a repeated label, ...
Malformed(m) ==
  LET field == <<"label", "rpc", "payload_size", "payload_kind", "warmup_ms",
                 "measure_ms", "requests", "concurrency",
                 "runtime", "compression", "buffer_policy">>
      Edit(v) == [i \in DOMAIN field |-> [m EXCEPT !.workloads[1].field[field[i]] = v]]
  IN  Edit("null") \o Edit("empty") \o
      << [m EXCEPT !.workloads[1].field["label"] = m.workloads[2].field["label"]],
         [m EXCEPT !.workloads[2].kind = "other"],
         [m EXCEPT !.workloads[2].artifact[<<"on", "client">>] = "absent"],
         [m EXCEPT !.workloads = <<>>],
         [m EXCEPT !.root = "unreadable"],
         [m EXCEPT !.defaults.kind = "other"] >>

\* ... and manifests that load: warm-up requests, a boolean for a number, two
\* workloads or two modes that name the same artifact.
Unusual(m) ==
  << [m EXCEPT !.workloads[2].field["warmup_ms"] = "positive"],
     [m EXCEPT !.workloads[2].field["requests"] = "true"],
     [m EXCEPT !.workloads[2].artifact[<<"on", "client">>] = PathName(1, "on", "client")],
     [m EXCEPT !.workloads[1].artifact[<<"off", "client">>] = PathName(1, "on", "client")] >>

\* File 1 is the tracked manifest.
Manifests ==
  [su \in Suites |->
     LET m == Tracked(su) IN <<m>> \o Unusual(m) \o Malformed(m)]

JobTable == [su \in Suites |-> [i \in DOMAIN Manifests[su] |-> Jobs(su, Manifests[su][i])]]

manifest == Manifests[suite][file]
RunJobs  == JobTable[suite][file]

-----------------------------------------------------------------------------
(* main() up to the first job.                                             *)

Job             == RunJobs[n]
PathOf(k, role) == Artifact(manifest, RunJobs[k], role)
RunId(k)        == [turn |-> inv, pair |-> k]

\* The artifacts in the order in which validate_artifacts() reads them.
ReadOrder ==
  IF suite = "s01"
    THEN [i \in 1 .. Len(RunJobs) |-> [job |-> i, role |-> "client"]]
    ELSE [i \in 1 .. 2 * Len(RunJobs) |->
            [job |-> (i + 1) \div 2, role |-> IF i % 2 = 1 THEN "client" ELSE "server"]]

Check(stops, code, phase) ==
  [stops |-> stops, exit |-> [code |-> code, phase |-> phase]]

\* The checks of main(), in order; the first one that stops decides.
MainS01 ==
  << Check(args.verb = "both", 2, "usage"),
     Check(~LoadManifestS01(manifest), 1, "manifest-parse"),
     Check(args.verb = "validate", 0, "manifest-parse"),
     Check(~args.given.output_dir, 1, "output-dir"),
     Check(args.verb = "run" /\ ~args.given.binary, 1, "build") >>

MainS02 ==
  << Check(args.verb = "both", 2, "usage"),
     Check(~LoadManifestS02(manifest), 1, "manifest-parse"),
     Check(args.verb = "validate", 0, "manifest-parse"),
     Check(~args.given.output_dir, 1, "output-dir"),
     Check(args.verb = "run" /\ ~args.given.binary, 1, "build") >>

LaunchPrefixFails == ~args.given.devenv

MainS03 ==
  << Check(args.verb = "both", 2, "usage"),
     Check(~LoadManifestS03(manifest), 1, "manifest-parse"),
     Check(args.verb = "validate", 0, "manifest-parse"),
     Check(~args.given.device, 1, "preflight"),
     Check(~args.given.output_dir, 1, "artifact-validation"),
     Check(args.verb = "run" /\ ~args.given.binary, 1, "build"),
     Check(args.verb = "run" /\ LaunchPrefixFails, 1, "preflight") >>

MainChecks ==
  CASE suite = "s01" -> MainS01 [] suite = "s02" -> MainS02 [] suite = "s03" -> MainS03

Stopping == {i \in DOMAIN MainChecks : MainChecks[i].stops}

NotReturned == [code |-> 0, phase |-> "none"]
Return(code, phase) == pc' = "exit" /\ exit' = [code |-> code, phase |-> phase]

MainStops ==
  /\ pc = "main"
  /\ Stopping # {}
  /\ pc' = "exit"
  /\ exit' = MainChecks[CHOOSE i \in Stopping : \A j \in Stopping : i <= j].exit
  /\ UNCHANGED <<config, args, inv, n, exc, reader, procs, disk>>

MainGoesOn ==
  /\ pc = "main"
  /\ Stopping = {}
  /\ pc' = IF args.verb = "verify" THEN "validate" ELSE "reserve"
  /\ UNCHANGED <<config, main, n, exc, reader, procs, disk>>

-----------------------------------------------------------------------------
(* One job: run_server_client_pair(), and the body of the loop of          *)
(* run_manifest() of run_s01_workloads.py, which has no flush.             *)

Gone(st) == st \in {"exit0", "exitN"}

\* reserve_addr() binds a port and closes the socket again.
ReserveAddr ==
  /\ pc = "reserve"
  /\ pc' = "spawn"
  /\ port' = "free"
  /\ server' = "none"
  /\ client' = "none"
  /\ signal' = "none"
  /\ servedBy' = "none"
  /\ UNCHANGED <<config, main, n, exc, reader, orphans, disk>>

SpawnServer ==
  /\ pc = "spawn"
  /\ pc' = "wait_port"
  /\ server' = "starting"
  /\ UNCHANGED <<config, main, n, exc, reader, client, signal, port, orphans, servedBy, disk>>

\* Popen raises OSError.  s01 turns any exception into a RunError.
SpawnFails ==
  /\ pc \in {"spawn", "client"}
  /\ exc' = IF suite = "s01" THEN "server-startup" ELSE "uncaught"
  /\ pc' = "cleanup"
  /\ UNCHANGED <<config, main, n, reader, procs, disk>>

\* wait_for_port() of proof_runner_common.py looks at the process first.
ServerGaveUp ==
  /\ pc = "wait_port"
  /\ suite # "s01"
  /\ Gone(server)
  /\ exc' = "server-startup"
  /\ pc' = "drain"
  /\ UNCHANGED <<config, main, n, reader, procs, disk>>

Connectable ==
  /\ port # "free"
  /\ suite # "s01" => ~Gone(server)

PortAnswers ==
  /\ pc = "wait_port"
  /\ Connectable
  /\ pc' = "client"
  /\ servedBy' = "probe"
  /\ UNCHANGED <<config, main, n, exc, reader, server, client, signal, port, orphans, disk>>

PortTimeout ==
  /\ pc = "wait_port"
  /\ exc' = "server-startup"
  /\ pc' = "cleanup"
  /\ UNCHANGED <<config, main, n, reader, procs, disk>>

SpawnClient ==
  /\ pc = "client"
  /\ pc' = "client_wait"
  /\ client' = "running"
  /\ UNCHANGED <<config, main, n, exc, reader, server, signal, port, orphans, servedBy, disk>>

ClientReturned ==
  /\ pc = "client_wait"
  /\ Gone(client)
  /\ IF client = "exit0"
       THEN /\ pc' = IF suite = "s01" THEN "cleanup" ELSE "flush"
            /\ UNCHANGED exc
       ELSE /\ pc' = "cleanup"
            /\ exc' = "client-execution"
  /\ UNCHANGED <<config, main, n, reader, procs, disk>>

\* The endpoint behind a killed launcher, if it goes on without it.
Survivor(role) ==
  {[role |-> role, run |-> RunId(n), path |-> PathOf(n, role),
    served |-> role = "client" \/ server \in {"served", "writing"}]}

Surviving(role) == IF forks THEN {{}, Survivor(role)} ELSE {{}}

\* subprocess.run() kills its child and waits for it.
ClientTimeout ==
  /\ pc = "client_wait"
  /\ ~Gone(client)
  /\ client' = "killed"
  /\ \E o \in Surviving("client") : orphans' = orphans \cup o
  /\ exc' = "client-execution"
  /\ pc' = "cleanup"
  /\ UNCHANGED <<config, main, n, reader, server, signal, port, servedBy, disk>>

\* Mutant: the exit status of the server is not looked at.
FlushVerdict_AnyExit(st) == "pass"

FlushVerdict(st) == IF st = "exit0" THEN "pass" ELSE "fail"

ServerFlushed ==
  /\ pc = "flush"
  /\ Gone(server)
  /\ IF FlushVerdict(server) = "pass"
       THEN pc' = "cleanup" /\ UNCHANGED exc
       ELSE pc' = "drain" /\ exc' = "server-flush"
  /\ UNCHANGED <<config, main, n, reader, procs, disk>>

\* Mutant: the timeout is left to the handler for the client.
FlushTimeoutPhase_Outer == "client-execution"

FlushTimeoutPhase == "server-flush"

\* Mutant: server.wait() without a timeout.
FlushTimeout_Never == pc = "flush" /\ pc # "flush" /\ UNCHANGED vars

FlushTimeout ==
  /\ pc = "flush"
  /\ ~Gone(server)
  /\ exc' = FlushTimeoutPhase
  /\ pc' = "cleanup"
  /\ UNCHANGED <<config, main, n, reader, procs, disk>>

\* drain_process_output() of a process that has exited.
Drained ==
  /\ pc = "drain"
  /\ pc' = "cleanup"
  /\ UNCHANGED <<config, main, n, exc, reader, procs, disk>>

\* A process that devenv left behind holds the pipe: the second communicate()
\* times out, and the handler for the timeout of the client catches it.
DrainTimeout ==
  /\ pc = "drain"
  /\ forks
  /\ exc' = "client-execution"
  /\ pc' = "cleanup"
  /\ UNCHANGED <<config, main, n, reader, procs, disk>>

-----------------------------------------------------------------------------
(* The finally clause and terminate_process().                             *)

\* Mutant: a server that passed wait_for_port is left alone.
NothingToStop_Listening == server = "none" \/ Gone(server) \/ server = "listening"

\* There is no server, or poll() says it has exited.
NothingToStop == server = "none" \/ Gone(server)

Terminate ==
  /\ pc = "cleanup"
  /\ ~NothingToStop
  /\ signal' = "term"
  /\ pc' = "term_wait"
  /\ UNCHANGED <<config, main, n, exc, reader, server, client, port, orphans, servedBy, disk>>

Kill ==
  /\ pc = "term_wait"
  /\ ~Gone(server)
  /\ signal' = "kill"
  /\ pc' = "kill_wait"
  /\ UNCHANGED <<config, main, n, exc, reader, server, client, port, orphans, servedBy, disk>>

\* The second wait() times out: SIGKILL has not ended the server yet, and the
\* TimeoutExpired leaves main().  A phase of its own tells this exit from that
\* of an OSError (SpawnFails), which passes through the finally clause.
KillTimeout ==
  /\ pc = "kill_wait"
  /\ ~Gone(server)
  /\ Return(1, "sigkill-timeout")
  /\ UNCHANGED <<config, args, inv, n, exc, reader, procs, disk>>

CleanedUp ==
  \/ pc = "cleanup" /\ NothingToStop
  \/ pc \in {"term_wait", "kill_wait"} /\ Gone(server)

\* Mutant: a server that does not start is skipped.
Raised_SkipsStartup == exc \notin {"none", "server-startup"}

\* An exception leaves run_server_client_pair(), and run_manifest() with it.
Raised == exc # "none"

JobFailed ==
  /\ CleanedUp
  /\ Raised
  /\ Return(1, exc)
  /\ UNCHANGED <<config, args, inv, n, exc, reader, procs, disk>>

\* Mutant: one job too many.
MoreJobs_OffByOne == n <= Len(RunJobs)

MoreJobs == n < Len(RunJobs)

NextJob ==
  /\ CleanedUp
  /\ ~Raised
  /\ MoreJobs
  /\ n' = n + 1
  /\ exc' = "none"
  /\ pc' = "reserve"
  /\ UNCHANGED <<config, main, reader, procs, disk>>

\* After the last job s01 returns; s02 and s03 go on to validate_artifacts().
LastJob ==
  /\ CleanedUp
  /\ ~Raised
  /\ ~MoreJobs
  /\ IF suite = "s01" THEN Return(0, "run-complete")
                      ELSE pc' = "validate" /\ UNCHANGED exit
  /\ UNCHANGED <<config, args, inv, n, exc, reader, procs, disk>>

-----------------------------------------------------------------------------
(* validate_artifacts(): one artifact per step.                            *)

\* The report in a file.  The disk only keeps who wrote it: the job, the
\* invocation and the role determine what the binary reports.
Content(f) ==
  LET job == RunJobs[f.run.pair] IN
  BuildReport(suite, Workload(manifest, job), job.mode, f.role, f.run, f.completed, counters)

\* Mutant: client and server reports are not compared.
PairAgrees_Always(read, j) == TRUE

\* The run_id of the two reports of job j; s01 has one report per job.
PairAgrees(read, j) ==
  /\ read[<<j, "client">>].run = read[<<j, "server">>].run
  /\ Content(read[<<j, "client">>]).workload_label
       = Content(read[<<j, "server">>]).workload_label

ValidateNext ==
  /\ pc = "validate"
  /\ at <= Len(ReadOrder)
  /\ LET j    == ReadOrder[at].job
         role == ReadOrder[at].role
         got  == disk[PathOf(j, role)]
         read == [reports EXCEPT ![<<j, role>>] = got]
     IN  IF /\ Parses(got)
            /\ ValidateReport(suite, manifest, RunJobs[j], role, "wq", Content(got))
            /\ role = "server" => PairAgrees(read, j)
           THEN /\ reports' = read
                /\ at' = at + 1
                /\ UNCHANGED <<pc, exit>>
           ELSE /\ Return(1, "artifact-validation")
                /\ UNCHANGED reader
  /\ UNCHANGED <<config, args, inv, n, exc, procs, disk>>

Signatures(role) ==
  {Content(reports[<<j, role>>]).signature : j \in {k \in DOMAIN RunJobs : RunJobs[k].mode = "on"}}

\* The reports are complete; s02 and s03 compare the workloads.
ValidateEnd ==
  /\ pc = "validate"
  /\ at > Len(ReadOrder)
  /\ IF suite # "s01" /\ \E role \in Roles : Cardinality(Signatures(role)) <= 1
       THEN Return(1, "workload-sensitivity")
       ELSE Return(0, "run-complete")
  /\ UNCHANGED <<config, args, inv, n, exc, reader, procs, disk>>

-----------------------------------------------------------------------------
(* The endpoint processes (runtime.rs, service.rs, report.rs).             *)

endpointFrame == <<config, main, pc, n, exc, reader>>

ReportOf(role, completed) ==
  [state |-> "complete", run |-> RunId(n), role |-> role, completed |-> completed]

\* run_server_with_shutdown(): bind, or give up.
ServerBinds ==
  /\ server = "starting"
  /\ port = "free"
  /\ ArgsParse(Workload(manifest, Job))
  /\ server' = "listening"
  /\ port' = "server"
  /\ UNCHANGED <<endpointFrame, client, signal, orphans, servedBy, disk>>

ServerExits(code) ==
  /\ server' = code
  /\ port' = IF port = "server" THEN "free" ELSE port
  /\ UNCHANGED <<endpointFrame, client, signal, servedBy>>

ServerFails ==
  /\ server \in {"starting", "listening", "served", "writing"}
  /\ ServerExits("exitN")
  /\ UNCHANGED <<orphans, disk>>

\* A signal reaches the child of the runner, which may be devenv.
ServerStopped ==
  /\ signal # "none"
  /\ server \in {"starting", "listening", "served", "writing"}
  /\ \E o \in Surviving("server") : orphans' = orphans \cup o
  /\ ServerExits("exitN")
  /\ UNCHANGED disk

\* The warm-up requests count for --shutdown-after-requests too.
ServerCountsWarmup ==
  /\ suite # "s01"
  /\ client = "running"
  /\ server = "listening"
  /\ Workload(manifest, Job)["warmup_ms"] = "positive"
  /\ server' = "served"
  /\ UNCHANGED <<endpointFrame, client, signal, port, orphans, servedBy, disk>>

\* fs::write() truncates, then writes; main() returns after it.
ServerTruncates ==
  /\ server = "served"
  /\ server' = "writing"
  /\ disk' = [disk EXCEPT ![PathOf(n, "server")] = Torn]
  /\ UNCHANGED <<endpointFrame, client, signal, port, orphans, servedBy>>

ServerReports ==
  /\ server = "writing"
  /\ disk' = [disk EXCEPT ![PathOf(n, "server")] = ReportOf("server", "positive")]
  /\ ServerExits("exit0")
  /\ UNCHANGED orphans

\* run_client(): all requests answered, by whoever listens on the port.
ClientAnswered ==
  /\ client = "running"
  /\ ArgsParse(Workload(manifest, Job))
  /\ port # "free"
  /\ client' = "full"
  /\ servedBy' = port
  /\ server' = IF port = "server" /\ suite # "s01" /\ server = "listening"
                 THEN "served" ELSE server
  /\ UNCHANGED <<endpointFrame, signal, port, orphans, disk>>

\* measure_ms is over before the requests are: no error for the client, and
\* the server goes on waiting.  (Some answers or none: the extreme is kept.)
ClientDeadline ==
  /\ client = "running"
  /\ ArgsParse(Workload(manifest, Job))
  /\ port # "free"
  /\ client' = "nothing"
  /\ servedBy' = port
  /\ UNCHANGED <<endpointFrame, server, signal, port, orphans, disk>>

ClientFails ==
  /\ client \in {"running", "writing", "writing0"}
  /\ client' = "exitN"
  /\ UNCHANGED <<endpointFrame, server, signal, port, orphans, servedBy, disk>>

ClientTruncates ==
  /\ client \in {"full", "nothing"}
  /\ client' = IF client = "nothing" THEN "writing0" ELSE "writing"
  /\ disk' = [disk EXCEPT ![PathOf(n, "client")] = Torn]
  /\ UNCHANGED <<endpointFrame, server, signal, port, orphans, servedBy>>

ClientReports ==
  /\ client \in {"writing", "writing0"}
  /\ client' = "exit0"
  /\ disk' = [disk EXCEPT ![PathOf(n, "client")] =
                ReportOf("client", IF client = "writing" THEN "positive" ELSE "zero")]
  /\ UNCHANGED <<endpointFrame, server, signal, port, orphans, servedBy>>

\* An endpoint without its launcher finishes, at any later time.
OrphanReports ==
  \E o \in orphans :
    /\ o.served \/ \E p \in orphans : p.role = "client" /\ p.run = o.run
    /\ disk' = [disk EXCEPT ![o.path] = [state |-> "complete", run |-> o.run,
                                          role |-> o.role, completed |-> "positive"]]
    /\ orphans' = orphans \ {o}
    /\ UNCHANGED <<endpointFrame, server, client, signal, port, servedBy>>

-----------------------------------------------------------------------------
(* The surroundings.                                                       *)

\* Between reserve_addr() and the bind of the server the port is anybody's.
PortTaken ==
  /\ pc \in {"spawn", "wait_port"}
  /\ port = "free"
  /\ port' = "other"
  /\ UNCHANGED <<endpointFrame, server, client, signal, orphans, servedBy, disk>>

PortReleased ==
  /\ port = "other"
  /\ port' = "free"
  /\ UNCHANGED <<endpointFrame, server, client, signal, orphans, servedBy, disk>>

\* timeout(1) around the runner, or the user, ends the whole process group.
RunnerKilled ==
  /\ pc \notin {"main", "exit"}
  /\ Return(143, "killed")
  /\ server' = IF server = "none" THEN "none" ELSE "exitN"
  /\ client' = IF client = "none" THEN "none" ELSE "killed"
  /\ UNCHANGED <<config, args, inv, n, exc, reader, signal, port, orphans, servedBy, disk>>

NoReports == [k \in (1 .. Len(RunJobs)) \X Roles |-> Missing]

Init ==
  /\ suite \in Suites
  /\ file \in DOMAIN Manifests[suite]
  /\ counters \in (IF file = 1 THEN {"own", "flat"} ELSE {"own"})
  /\ forks \in (IF suite = "s03" /\ file = 1 THEN BOOLEAN ELSE {FALSE})
  /\ args \in Args
  /\ inv = 1
  /\ pc = "main"
  /\ n = 1
  /\ exc = "none"
  /\ exit = NotReturned
  /\ at = 1
  /\ reports = NoReports
  /\ server = "none"
  /\ client = "none"
  /\ signal = "none"
  /\ port = "free"
  /\ orphans = {}
  /\ disk = [p \in Paths |-> Missing]
  /\ servedBy = "none"

\* Bound: only runs of the tracked manifest are repeated (s01: verified).
Turns == IF file = 1 /\ counters = "own" /\ (inv > 1 \/ args.verb = "run")
           THEN MaxInvocations ELSE 1

\* The runner is started again on the same output directory.
Invoke ==
  /\ pc = "exit"
  /\ inv < Turns
  /\ inv' = inv + 1
  /\ \E verb \in (IF suite = "s01" THEN {"verify"} ELSE {"run", "verify"}) :
       args' = [verb |-> verb, given |-> Given]
  /\ pc' = "main"
  /\ n' = 1
  /\ exc' = "none"
  /\ exit' = NotReturned
  /\ at' = 1
  /\ reports' = NoReports
  /\ server' = "none"
  /\ client' = "none"
  /\ signal' = "none"
  /\ port' = "free"
  /\ servedBy' = "none"
  /\ UNCHANGED <<config, orphans, disk>>

Done ==
  /\ pc = "exit"
  /\ inv = Turns
  /\ UNCHANGED vars

Runner ==
  \/ MainStops \/ MainGoesOn
  \/ ReserveAddr \/ SpawnServer \/ SpawnFails
  \/ ServerGaveUp \/ PortAnswers \/ PortTimeout
  \/ SpawnClient \/ ClientReturned \/ ClientTimeout
  \/ ServerFlushed \/ FlushTimeout \/ Drained \/ DrainTimeout
  \/ Terminate \/ Kill \/ KillTimeout
  \/ JobFailed \/ NextJob \/ LastJob
  \/ ValidateNext \/ ValidateEnd

Endpoints ==
  \/ ServerBinds \/ ServerFails \/ ServerStopped \/ ServerCountsWarmup
  \/ ServerTruncates \/ ServerReports
  \/ ClientAnswered \/ ClientDeadline \/ ClientFails
  \/ ClientTruncates \/ ClientReports
  \/ OrphanReports

Next ==
  \/ Runner
  \/ Endpoints
  \/ PortTaken \/ PortReleased \/ RunnerKilled
  \/ Invoke \/ Done

\* The runner is scheduled and its timeouts expire; nothing is assumed of the
\* endpoints, which may hang.
Spec == Init /\ [][Next]_vars /\ WF_vars(Runner)

-----------------------------------------------------------------------------
(* Properties.                                                             *)

AllRuns == [turn : 1 .. MaxInvocations, pair : 1 .. 4]

\* The variables keep their types; in particular the loop of run_manifest()
\* never goes past its last job and validate_artifacts() past its last file.
TypeOK ==
  /\ inv \in 1 .. MaxInvocations
  /\ n \in 1 .. (IF RunJobs = <<>> THEN 1 ELSE Len(RunJobs))
  /\ at \in 1 .. Len(ReadOrder) + 1
  /\ pc \in {"main", "reserve", "spawn", "wait_port", "client", "client_wait", "flush",
              "drain", "cleanup", "term_wait", "kill_wait", "validate", "exit"}
  /\ exc \in {"none", "server-startup", "client-execution", "server-flush", "uncaught"}
  /\ server \in {"none", "starting", "listening", "served", "writing", "exit0", "exitN"}
  /\ client \in {"none", "running", "full", "nothing", "writing", "writing0",
                  "exit0", "exitN", "killed"}
  /\ signal \in {"none", "term", "kill"}
  /\ port \in {"free", "server", "other"}
  /\ servedBy \in {"none", "probe", "server", "other"}
  /\ \A p \in Paths : disk[p].state \in {"missing", "torn", "complete"}

RunAccepted == pc = "exit" /\ exit.phase = "run-complete" /\ args.verb = "run"

\* A run of s02 or s03 that exits with 0 leaves, at every artifact path, a
\* complete report of this very invocation and job, with requests in it: no
\* report of an earlier invocation, half a file or another workload's report
\* passes, whatever failed, was killed or timed out before.  (Endpoints that
\* outlive their launcher are excepted: they may write after the check.)
AcceptedIsFresh ==
  RunAccepted /\ suite # "s01" /\ ~forks =>
    \A j \in DOMAIN RunJobs : \A role \in Roles :
       LET got == disk[PathOf(j, role)] IN
       /\ got.state = "complete"
       /\ got.run = RunId(j)
       /\ got.role = role
       /\ got.completed = "positive"

\* A job of s02 or s03 passes only if its client was answered by the server
\* the runner itself had started, also when another process took the port
\* between reserve_addr() and the bind.
ServedByOwnServer ==
  CleanedUp /\ ~Raised /\ suite # "s01" => servedBy = "server" /\ server = "exit0"

\* When main() is over, by a return or by an exception nobody catches (the
\* OSError of a client that cannot be started among them), the server it
\* started has exited; the one exception is a server that SIGKILL does not end
\* within two seconds.  Behind devenv an endpoint may outlive the launcher that
\* the runner killed, but only an endpoint of the very job at which this
\* invocation failed, and never after an exit with 0.
NoServerLeft ==
  pc = "exit" =>
    /\ exit.phase # "sigkill-timeout" => server = "none" \/ Gone(server)
    /\ \A o \in orphans : o.run.turn = inv =>
         /\ exit.code # 0
         /\ o.run.pair = n

\* The phase in the error message is that of the endpoint that failed:
\* "server-startup" says that nobody had answered wait_for_port() and no client
\* was started, "client-execution" that the client did not succeed, and
\* "server-flush" that it did.  Two exceptions: s01, whose last handler also
\* calls it "server-startup" when the client cannot be started; and, behind
\* devenv, DrainTimeout, which blames the client (not started, or successful)
\* for the pipe of the server that failed.
BlamedEndpointFailed ==
  pc = "exit" =>
    /\ exit.phase = "server-startup" =>
         client = "none" /\ (servedBy = "none" \/ suite = "s01")
    /\ exit.phase = "client-execution" =>
         \/ client \in {"exitN", "killed"}
         \/ forks /\ client \in {"none", "exit0"} /\ server = "exitN"
    /\ exit.phase = "server-flush" => client = "exit0"

\* The runner returns, even if the server or the client hangs forever.
RunnerReturns == (pc # "exit") ~> (pc = "exit")

\* The promise of EvidencePhase.  s01 never gives that verdict: it has no
\* server reports, and its runs are not validated.
MappedStatus ==
  IF pc # "exit" THEN "running"
  ELSE IF exit.phase = "run-complete" /\ suite # "s01" THEN "passed" ELSE "ended"

NoRun == [pair |-> 0, turn |-> 0]

MappedSeen ==
  [f \in (1 .. 4) \X Roles |->
     IF suite # "s01" /\ f[1] <= Len(RunJobs) /\ reports[f].state = "complete"
       THEN reports[f].run
       ELSE NoRun]

Phase == INSTANCE EvidencePhase
           WITH AllPairs <- 1 .. 4, Runs <- AllRuns, pairs <- DOMAIN RunJobs,
                status <- MappedStatus, seen <- MappedSeen

\* Every step of the runner, of its endpoints and of late writers is a step of
\* the promise: "passed" is only said of pairs of reports that were read, are
\* of their own workload and mode, and carry one run_id.
ImplementsPhase == Phase!PhaseSpec
=============================================================================
