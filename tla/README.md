# TLA+ models of dsa-stdexec

The repository drives the Intel Data Streaming Accelerator (DSA), a device that
copies, fills and compares memory on its own. Software writes a 64-byte
*descriptor* to a *portal*; the device queues it, executes it at some later time
and writes a *completion record* to memory. `dsa-stdexec` (C++) wraps this in
stdexec senders, `accel-rpc` (Rust) in an async session and a gRPC profiling
server. Almost everything that can go wrong lies between a portal write and the
completion record: memory is reused while the device still reads it, a counter
says there is room when there is none, or a callback re-enters the function that
is running.

Around the library stands a second system, mostly in Python: scripts that start
a profiling server and a client, collect their JSON reports and turn them into
published evidence. Here the hard part is trust: a "pass" must not rest on a
report of an earlier run, on half a file, or on a server somebody else started,
although endpoints fail, hang and are killed.

This directory models both parts and checks them with TLC on small instances.
TLAPS proves the safety of one submitter, of the control of the evidence runners
and of the outputs of the claim package for every instance.

## The system

| Part (source) | State | Operations | What is hard about it |
|---|---|---|---|
| Work queue and portal (device) | queue entries, running descriptors | accept, discard when full (`_movdir64b`), dispatch, execute, write record | asynchronous; silent discard on a dedicated queue |
| `DirectSubmitter` (`src/dsa/descriptor_submitter.hpp`) | `inflight_`, `mode_` | `submit_descriptor`, `notify_complete`, `wq_capacity` | the count is the only thing that keeps a dedicated queue from overflowing |
| `StagingSubmitter` (same) | two descriptor arrays, `active_buf_`, two records | `submit_descriptor`, `flush`, `pre_poll`, `drain` | the device reads an array long after the doorbell |
| `FixedRingSubmitter` (same) | ring of entries, `batch_fill_`, `batch_head_` | the same, `seal_and_submit_current`, `reclaim_completed` | entries are reused when the ring has gone round; loops that only another step can end |
| `RingSubmitter`, `MirroredRingSubmitter`, `MirroredRing` | a descriptor ring and a ring of entries | the same, with `poll_fn_` inside the loops | `submit_descriptor` is re-entered by completion callbacks; two rings must agree; wrap-around |
| `DsaEngine` (`dsa.ipp`, `dsa.hpp`) | submitter, task queue, poller thread | `submit`, `poll`, destructor, `start_poller` | `submit` polls while it waits, `poll` runs callbacks that submit |
| Operations (`operation_base_mixin.hpp`, `scheduler.hpp`, `operations/`) | descriptor, record, receiver | `start`, `check_completion`, `notify`, page-fault retry | a retry reuses the descriptor and the record |
| Task queues (`task_queue.hpp`) | list or ring of pending operations | `push`, `poll` | concurrent producers; callbacks push while `poll` runs |
| Run loop, `sync_wait` (`include/dsa_stdexec/`) | queue, `stop_` | `run`, `finish`, `push_back` | a flag read without the lock |
| Batch sender (`batch.hpp`) | descriptor array, records | `start`, `notify` | one record for many operations |
| Benchmark strategies (`benchmark/dsa`) | slots, free list, counters | sliding window, batch, workers | slots reused by callbacks, on two threads |
| `dsa-ffi` (`accel-rpc/dsa-ffi`) | session, worker thread, lifecycle | `memmove`, `shutdown`, retries | shutdown races requests; a time-out leaves the device writing |
| `tonic-profile` (`accel-rpc/tonic-profile/src`) | server, client, reports | serve, shut down after a number of requests, report | a notification nobody waits for yet; a report is truncated before it is written |
| Evidence runners (`tonic-profile/scripts/run_s01_workloads.py`, `run_s02_evidence.py`, `run_s03_idxd_evidence.py`, `proof_runner_common.py`) | manifest, two child processes, artifacts on disk | `load_manifest`, `run_manifest`, `run_server_client_pair`, `terminate_process`, `validate_artifacts` | six timeouts around two processes; a port that is reserved by closing it; an output directory that is never emptied |
| Control-floor export (`export_control_floor.py`) | Criterion directories, summary | `export_summary`, `validate_summary` | what Criterion leaves behind |
| Claim package (`run_s04_claim_package.py`, `claim_package_contract.py`, `summarize_s04_claim_package.py`) | run root, phases, three outputs | `load_manifest`, `execute_run`, `seed_idxd_fallback`, `summarize` | phases killed with their children alive; a fallback to recorded reports; outputs written one by one |
| `dsa-bindings`, `hw-eval` | portal, measurement windows | `submit`, `poll`, pipelined loops | a full queue; slots completing out of order |

A user's thread calls `start()` on an operation. `DsaEngine::submit` waits at a
*gate* until `inflight_ < wq_capacity()`, gives the descriptor to the submitter
and pushes the operation onto the task queue. `DsaEngine::poll` first lets the
submitter flush (`pre_poll`), then asks the task queue for completed operations
and runs `notify()` of each, and at last subtracts them from the count
(`notify_complete`). `notify()` completes the receiver, which may start the next
operation, or calls `submit()` again after a page fault. So `submit` and `poll`
nest, in one thread, as deeply as the operations allow.

`run_s04_claim_package.py` runs two shell scripts. `verify_s02_trustworthy_evidence.sh`
runs `run_s02_evidence.py` (pairs of endpoints, each workload with instrumentation
off and on) and exports the control floor. `verify_s03_idxd_path.sh` does a
preflight with a selftest and then runs `run_s03_idxd_evidence.py` (pairs on an
IDXD work queue, behind `devenv`). If the preflight is blocked, the reports of a
fixture take the place of the live ones. `summarize_s04_claim_package.py` then
compares the families of reports and writes a JSON, a CSV and a Markdown file.

## Modules

| Module | Models |
|---|---|
| `DirectSubmitter` | the work queue, the portal write, `inflight_`, the gate; extended by every other module |
| `DescriptorExecution` | abstract: what a submitter promises, "each descriptor handed over is executed at most once, and nothing else is" |
| `StagingSubmitter` | `StagingSubmitter` against the device |
| `StagingSubmitter_proofs` | theorems about it |
| `FixedRingSubmitter` | `FixedRingSubmitter` against the device |
| `DescriptorRing` | what the two ring submitters share, with re-entrant calls |
| `RingSubmitter` | `DescriptorRing` with the wrap-around code |
| `MirroredRingSubmitter` | `DescriptorRing` over the double mapping of `MirroredRing` |
| `DsaEngine` | `submit`, `poll`, operations and the locked task queue, over a `DirectSubmitter` |
| `EvidenceManifest` | `load_manifest` of s01, s02 and s03, as an operator on JSON values; the jobs of a manifest |
| `EvidenceReport` | the reports that the endpoints write for a job, and what `validate_artifacts` asks of each |
| `EvidencePhase` | abstract: "passed" is only said when a client and a server report were read for every pair, both of that pair and of one run |
| `EvidenceRunner` | `main()` of the three runners with the two endpoints, signals, the port and the disk |
| `EvidenceRunner_proofs` | theorems about it |
| `ControlFloor` | `export_summary`, `validate_summary`, `load_control_floor` as operators on Criterion directories |
| `ClaimContract` | `load_manifest` of the claim package with its checks |
| `ClaimSummary` | what the summariser asks of a report, of a pair and of its outputs; the rows |
| `ClaimPackage` | `main()` of the claim package, the phases, the fallback, the summariser, over several invocations |
| `ClaimPackage_proofs` | theorems about it |

Conventions of the models of the C++ library:

* **Variables** have the names of the members they stand for, without the final
  underscore. History variables (`handed`, `executed`, `completions`, `faults`)
  are marked as such. Software only numbers things with them, except that in
  `DescriptorRing` `executed[d] > 0` also stands for the completion record of the
  operation of `d`.
* **Descriptors** are numbers, given in the order they are handed over; 0 is
  memory that never held a descriptor. That is all the properties tell apart: an
  overwritten or stale slot shows as a wrong number.
* **The device** is external to the repository. It is modelled from how the code
  uses it: a doorbell for one descriptor carries the descriptor itself; a
  doorbell for a batch carries an address and a count, and the device reads the
  array one descriptor at a time (`HwExecuteFromBatch`), at any time until it has
  written the record of the batch (`HwCompleteBatch`). Doorbells are dispatched
  and executed in any order. `Doorbell` is discarded by a full dedicated queue
  (`_movdir64b` gives no answer) and waits on a full shared one (`_enqcmd` is
  repeated).
* **`mode`** is chosen by `Init` and never changes, so that a run covers both
  kinds of queue.
* **A step** is one iteration of a loop, or the code between two loops. Software
  is one thread, so only the device acts between steps. `reclaim_completed` of
  the ring submitters is one step: the thread is alone in changing what it
  changes, and a record that the device writes during the loop may as well have
  been written before it or after it.
* **Nested calls** are a stack of frames (`DescriptorRing`, `DsaEngine`). In
  `DescriptorRing` a frame is at a place of `submit()`; at the places where
  `poll_fn_` or `poll()` runs callbacks, `Callback` may push another frame. `todo`
  holds the leaf functions (`seal`, `reclaim`) that the frame has called. In
  `DsaEngine` a poll frame holds the operations it has unlinked and not yet
  notified. `MaxDepth` bounds the nesting in the rings; in `DsaEngine` the number
  of operations and of page faults does.
Conventions of the models of the evidence scripts:

* **A runner** is a program counter `pc`. One job goes through `reserve`, `spawn`,
  `wait_port`, `client`, `client_wait`, `flush`, on an error `drain` (the pipes
  are read), and the `finally` clause `cleanup`, `term_wait`, `kill_wait`. `exc`
  is the exception in flight. Each wait has one action for what ends it and one
  for its timeout, which may fire at any moment. `validate` reads one artifact
  per step, so late writers interleave with it.
* **Endpoints** are processes with states (`starting`, `listening`, `served`,
  `writing`, `exit0`, `exitN`, ...). They may fail or stop for ever anywhere. A
  report is truncated in one step and written in another.
* **JSON values** are abstracted to what the scripts tell apart: `absent`, `null`,
  `empty`, `zero`, `positive`, `true`, or the name of a valid choice. A manifest
  is a record of such values; the loaders are predicates with one
  conjunct per check.
* **The disk** maps a path to `Missing`, `Torn` or a report, and a report says
  which invocation and which job wrote it (`run_id` in the code). It survives
  from one invocation to the next.
* **Third parties**: `PortTaken` is another process that binds the port between
  `reserve_addr()` and the server; `RunnerKilled` is `timeout(1)` or the user
  ending the process group; `forks` says that `devenv` stays between runner and
  endpoint, so that a signal reaches only the launcher and the endpoint becomes
  an orphan that may still write. In `ClaimPackage` a phase that runs out of time
  may leave such orphans, and so may an IDXD phase that fails (`ProcFails`).
* **History**: `servedBy` records who answered in a job, first the probe of
  `wait_for_port()`, then the client. The exit of `KillTimeout` (the server has not
  exited two seconds after SIGKILL) has the phase `sigkill-timeout`, that of any
  other uncaught exception `uncaught`; both are names of the model for a traceback.
* **Composition**: `ClaimPackage` does not contain `EvidenceRunner`. A phase writes
  its reports job by job and can fail or be killed at any point; it exits with 0
  only in states allowed by `Verified`, the verdict of `EvidencePhase`, which the run
  `evidence` shows the runners to keep (`ImplementsPhase`).

In all modules:

* **Mutants**: a definition `X_Y` right before a definition `X` is `X` with a
  plausible mistake. It documents which mistake each property would show.

## Runs

The runs of the C++ models are with deadlock checking off: each system stops for
good once its bounded work is done or its engine is destroyed. In `evidence` and
`claim` deadlock is checked: the only state without a step of the system is the
end of the last invocation (`Done`).

| Run | Instance | Shows |
|---|---|---|
| `staging` | batch 3, queue 2, 6 descriptors, both modes | `TypeOK`, `NoDrop`, `NoWriteUnderDma`, `AwaitedBatchIsInDevice`, `ExecutesOnce`, `EveryDescExecuted` |
| `staging_gate` | 2 singles fill the count | **violated**: `BackpressureReleases` |
| `fixed_ring` | 2 entries of 2, 6 descriptors, both modes | `TypeOK`, `InflightIsInFlightSlots`, `InFlightIsReclaimable`, `NoWriteUnderDma`, `DrainLeavesNoBatch`, `ExecutesOnce`, `EveryDescExecuted`, `DrainReturns` |
| `fixed_ring_overrun` | dedicated queue | **violated**: `NoDrop` |
| `ring` | 5 descriptors, both modes, no nested submission | `TypeOK`, `RingAccounting`, `NoLostDescriptor`, `NoWriteUnderDma`, `ExecutesOnce`, `EveryDescExecuted` |
| `ring_reentry` | 6 descriptors, nesting 2 | **violated**: `NoLostDescriptor` |
| `mirrored` | 2 entries of 2, 5 descriptors, nesting 2, both modes | `RingAccounting`, `NoLostDescriptor`, `NoWriteUnderDma`, `ExecutesOnce` |
| `engine` | queue 2, 4 operations of both kinds, 1 page fault, both modes | `TypeOK`, `InflightAccounting`, `NoDrop`, `CompletedIsReleased`, `EveryOpCompletes` |
| `engine_gate` | dedicated queue, 1 page fault | **violated**: `GateIsPassed` |
| `evidence` | three runners, all manifests and command lines below, 2 invocations | `TypeOK`, `AcceptedIsFresh`, `ServedByOwnServer`, `NoServerLeft`, `BlamedEndpointFailed`, `RunnerReturns`, `ImplementsPhase` |
| `claim` | 2 workloads, 3 families, all inputs below, 2 invocations | `OutputsAgree`, `RowsArePaired`, `PackageIsFresh`, `ExportedFloorLoads` |
| `claim_fallback` | 1 invocation | **violated**: `FallbackOnlyWhenPreflightBlocked` |

`ExecutesOnce` is refinement: `Exec == INSTANCE DescriptorExecution` and the
abstract specification is the property. The mapping is the identity on `handed`
and `executed`.

`ImplementsPhase` is refinement too: `Phase == INSTANCE EvidencePhase`, where
`status` comes from the exit of `main()` and `seen` from the reports that
`validate_artifacts` has read. It holds with orphans and shared artifact paths
as well, because it is about what was read; `AcceptedIsFresh` is about the disk
after the verdict, and therefore excludes endpoints that outlive `devenv`.

`NoServerLeft` is about every way out of `main()`, uncaught exceptions included
(such as the `OSError` of a client that cannot be started, after which only the
`finally` clause stops the server). It makes two exceptions: after
`sigkill-timeout` the server may be alive, and behind `devenv` an endpoint may
outlive its launcher; the property then says that it belongs to the very job at
which this invocation failed, so that a run that exits with 0 leaves nothing.
`BlamedEndpointFailed` makes two exceptions as well, each confined to its clause:
the last handler of s01 (`run_s01_workloads.py:326-329`) says `server-startup`
also when the client cannot be started, and behind `devenv` a timeout while the
pipe of a failed server is drained is caught by the handler for the client and
reported as `client-execution`.

**Bounds.** A submitter with two buffers or two entries shows every phase of
reuse once three batches have been sent; six descriptors in batches of at most
three (staging) or two (rings) give that, with partial batches and singles mixed
in. The descriptor ring then has four slots, so five descriptors wrap around. A
queue of two entries can be empty, half full and full. Four operations with one
fault reach three nested calls of `poll()`, and a retry on top of a suspended submission.
The mirrored run uses a page as large as the ring: this is the layout of every
configuration whose ring has at least one page of 64 descriptors. A ring smaller
than a page has a gap before its mirror (see `PROJECT.json`, hazards).

Evidence: two workloads (one of bytes, one of a message shape) give the s02
runner four jobs. Each malformed manifest differs from the tracked one in one
place (`Malformed`: a null or empty field, a repeated label, a missing artifact,
...); `Unusual` are manifests that load: warm-up requests, `true` for a number, a
shared artifact path. Only the tracked manifest is run twice (`Turns`), the second
time to run or to verify: everything that one invocation can leave behind is
there when the second begins, and no check looks further back than that. Claim
package: `file`, `criterion` and `fixture` range over lists of inputs, one unusual
at a time, and only the usual configuration is invoked twice. Files are not
followed after the last invocation has returned (`Matters`), and the user
interrupts only an invocation that has a successor, as nobody reads the files
otherwise.

**Fairness.** Weak fairness of each device action: the device finishes what it
has accepted, and the engines of the device do not starve one descriptor. Weak
fairness of the thread while it is inside a function. Weak fairness of
`PrePoll`/`UserPoll`: a thread that waits for its operations polls in a loop
(`PollingRunLoop::run`, the poller thread); descriptors of a partial batch are
only sent by the next poll, so nothing can be promised without it. Nothing is
assumed of `Submit`, `Start`, `Drain` or `Destroy`, nor of the choices of the
device (a fault or not, an error or not). `EveryDescExecuted` of the ring
submitters, `DrainReturns` and `EveryOpCompletes` are stated for shared queues,
because on a dedicated one the violations below stop progress.

`EvidenceRunner` has weak fairness of the runner (`WF_vars(Runner)`) and nothing
else: the process is scheduled and its timeouts, which are all finite in the
code, expire. Nothing is assumed of the endpoints, so `RunnerReturns` covers
endpoints that hang. `ClaimPackage` has no liveness property: its phases return
or are killed by the timeout of `run_phase_command`, but `seed_idxd_fallback`
calls the validator without one (line 584), so there is no promise to state.

### Where the code disagrees with its comments and documents

* `staging_gate`: `flush()` sends a lone descriptor through `DirectSubmitter`,
  which counts it, and no line of `StagingSubmitter` subtracts it. After as many
  singles as the queue has entries, the gate of `DsaEngine::submit` stays closed
  although the queue is empty.
* `fixed_ring_overrun`: a single is taken off the count at once ("doorbell
  consumed immediately"), before the device has taken it off its queue, so the
  gate does not see it and a dedicated queue may discard a doorbell.
* `ring_reentry`: after a wrap-around `submit_descriptor` waits in a loop that
  runs callbacks, then resets the entry without looking at it. A callback that
  has submitted meanwhile loses its descriptor. `mirrored` shows that the variant
  without wrap-around code does not have this problem under the same nesting.
* `engine_gate`: `poll()` subtracts completed operations only after all callbacks
  have returned. A callback that submits while the count is at the capacity polls
  forever, because only the suspended `poll()` can lower the count.
* `claim_fallback`: the report says that the fixture is used "when S03 preflight is
  blocked". `idxd_failure_allows_fallback` looks for `phase=preflight` anywhere in
  the output of the phase, and the script prints it as a banner in front of the
  selftest of a healthy host. A failure of the live runner after a successful
  preflight is therefore covered up by the fixture. The trace ends where the
  seeding begins; that such a run can go on to `verdict=pass` is read off the code
  after it. (Line 46 of the report is looser than its lines 12 and 69: there the
  fixture is used "when the live S03 path cannot refresh them".)

## Proofs

`StagingSubmitter_proofs` proves, for every `NumDescs`, `MaxBatch >= 1`,
`WqSize >= 1` and either mode (`StagingAssumption`, `WqAssumption`), every safety
property that the run `staging` checks:

| Theorem | Statement |
|---|---|
| `TypeOKCorrect` | `Spec => []TypeOK` |
| `BatchCorrect` | `Spec => []BatchInv` |
| `NoWriteUnderDmaCorrect` | `Spec => NoWriteUnderDma` |
| `NoDropCorrect` | `Spec => []NoDrop` |
| `AwaitedBatchCorrect` | `Spec => []AwaitedBatchIsInDevice` |
| `ExecutesOnceCorrect` | `Spec => ExecutesOnce` (refinement) |

None of these is inductive. The inductive invariant is built in layers, each
using the ones before; each was checked with TLC first.

1. `TypeInv`: `TypeOK`, and between calls the active buffer has room for one more
   descriptor (`FillInv`). Without the latter the copy in `submit_descriptor`
   could leave the array.
2. `BatchInv`: the device holds at most one batch, from the buffer that is not
   active, and the record of that batch is awaited and clear. The key lemma is
   `FlushAfterBatch`: when `flush()` gets past its loop, the device holds no batch
   at all. `NoWriteUnderDma` follows, because only the active buffer is written.
3. `CountInv`: `Cardinality(InDevice) + Unsubtracted <= inflight`, where
   `Unsubtracted` is 1 when the last batch is complete and `flush()` has not seen
   it; and while anything is staged on a dedicated queue, `inflight < WqSize`,
   because the gate was open when the descriptor came in and only `flush()` raises
   the count. So `flush()` never meets a full queue (`FlushHasRoom`). The
   inequality is what the code maintains: singles stay in the count for ever.
4. `AwaitInv`: an awaited, clear record belongs to a batch in the device. It needs
   layer 3, since a discarded doorbell would break it.
5. `DataInv`: the active buffer holds the descriptors handed over since the last
   `flush()` in order; what the device has still to execute (single doorbells and
   unread slots) was sent, has not been executed, and is listed once. This makes
   every device step an abstract `Execute` step or a stutter.

`EvidenceRunner_proofs` proves, for any number of invocations and any choice of
the three runners (`RunnerAssumption`):

| Theorem | Statement |
|---|---|
| `ControlAlways` | `Spec => []ControlInv` |
| `OrphanAlways` | `Spec => [](ControlInv /\ OrphanInv)` |
| `ServedByOwnServerHolds` | `Spec => []ServedByOwnServer` |
| `NoServerLeftHolds` | `Spec => []NoServerLeft` |
| `BlamedEndpointFailedHolds` | `Spec => []BlamedEndpointFailed` |

The three properties speak of the end of a job; what makes them true happens
earlier. `ControlInv` is the conjunction of `PortInv` (the port is the server's
exactly while it serves; a stranger on it means that the server has not bound),
`ServedInv` (who answered the client; a server that was not the one has not served
and will not), `PlaceInv` (in which states the endpoints can be where the runner
is; on the way through `finally` without an exception both have exited with 0),
`BlameInv` (the phase of the exception fits how the two endpoints ended) and
`LeftInv` (at the exit the server has stopped, or SIGKILL timed out and the exit
code is not 0).
The argument for `ServedByOwnServer`: a client that was answered by a stranger
leaves the server short of its requests, so the server does not exit with 0 and
the wait for its flush fails. `NoServerLeft` also needs `OrphanInv`, which follows
an endpoint behind `devenv` from the moment its launcher is stopped: a server is
signalled only in the `finally` clause, where without an exception the server of
s03 has already exited with 0, and a client is only killed by its timeout, which
is an exception; so an orphan of this invocation means that the job is failing,
no further job is begun, and the exit code is not 0. Orphans of earlier
invocations carry a smaller number. The proof does not look into the manifests,
so it holds for every list of them. The exceptions of the two properties are
those named above; the theorems have no others.

`ClaimPackage_proofs` proves, for any number of invocations (`TurnsAssumption`):

| Theorem | Statement |
|---|---|
| `OutputsAgreeHolds` | `Spec => []OutputsAgree` |
| `RowsArePairedHolds` | `Spec => []RowsArePaired` |

Both follow from `OutInv`, which adds `WriteInv`: while the outputs are written,
the reports that passed the comparison of pairs are still the ones in memory, and
the outputs before the `k`-th are made of them. It is needed because the files on
disk may change under the summariser (orphans of a phase), and because the
outputs of an interrupted invocation stay until they are overwritten.

Only model-checked:

* all liveness properties, which need fairness;
* `AcceptedIsFresh`, `ImplementsPhase` and `TypeOK` of the evidence runners and
  `PackageIsFresh` of the claim package: they depend on the contents of the
  manifests, that is, on the paths being distinct within a pair;
* `ExportedFloorLoads`, a statement about filtering a sequence, which needs
  induction over sequences;
* everything about `FixedRingSubmitter`, `DescriptorRing`, `RingSubmitter`,
  `MirroredRingSubmitter` and `DsaEngine`.

## Not modelled

* **Unreached code.** `run_s02_evidence.py` and `run_s03_idxd_evidence.py` define
  helpers that `proof_runner_common.py` has replaced and nothing calls;
  `run_s04_claim_package.py` defines validation functions whose names it later
  binds to those of `claim_package_contract.py` (lines 833-850).
* **Arithmetic and layout of the summary**: ratios, CSV columns, Markdown, wording
  of messages. The rows are modelled by the reports they are made of.
* **Plots, PDF and text tools**: one pass over the input, no state to speak of.
* **`cargo`, Criterion and `devenv`** are external: what they leave behind or do to
  signals is an input of the models. The encoding of messages and the counters of
  the codec in `tonic-profile` do not influence the control of the runners, beyond
  the counters being distinct or not (`counters`).
* **Device discovery, `mmap`, configuration, reporting**: input and output.
* **Refused starts**: a dualcast that `pre_start_validate` refuses completes with an
  error and never reaches the engine; the handlers of `start()` and `notify()` for
  an exception of `submit()` run only when no portal is mapped, which the
  constructor of the engine rules out.
* **The poller thread** (`start_poller`): its accesses to the submitters are data
  races; there is no synchronisation to model and any outcome is possible.
* **The other task queues** (lock-free, ring buffer, indexed), the **run loop**,
  **`data_move` and the page-fault offsets**, the **batch sender**: the engine is
  modelled with the locked queue and one thread only.
* **`dsa-ffi`** (the retry loop of `memmove`, the asynchronous session and its
  shutdown), the **benchmark strategies** and **`hw-eval`**: programs of their own
  beside the two systems modelled here. Their hard points are a time-out that
  leaves the device writing into the caller's buffer, a shutdown that races a
  request, and slots reused by callbacks on two threads.
