------------------------- MODULE EvidenceRunner_proofs -------------------------
(***************************************************************************)
(* ServedByOwnServer, NoServerLeft and BlamedEndpointFailed, for every     *)
(* manifest, command line and number of invocations.  The argument is      *)
(* about control only: what the runner waits for, who holds the port and   *)
(* how the two endpoints have ended; no manifest is ever looked into.      *)
(***************************************************************************)
EXTENDS EvidenceRunner, TLAPS

Serving == {"listening", "served", "writing"}
Ended   == {"exit0", "exitN"}
Stopped == {"none"} \cup Ended

CleaningUp == {"cleanup", "term_wait", "kill_wait"}
Trying    == {"reserve", "spawn", "wait_port", "client", "client_wait", "flush"}

Blame(phase) ==
  /\ phase = "server-startup" => client = "none" /\ (servedBy = "none" \/ suite = "s01")
  /\ phase = "client-execution" =>
       \/ client \in {"exitN", "killed"}
       \/ forks /\ client \in {"none", "exit0"} /\ server = "exitN"
  /\ phase = "server-flush" => client = "exit0"

\* While main() runs, the port is the server's exactly as long as it serves.
PortInv ==
  pc # "exit" =>
    /\ port \in {"free", "server", "other"}
    /\ port = "server" <=> server \in Serving
    /\ port = "other" => server \in {"none", "starting", "exitN"}

\* Who answered the client.  If it was not the server, the server had not
\* begun to serve then, and it gets no requests any more.
ServedInv ==
  pc # "exit" =>
    /\ client \in {"none", "running"} => servedBy \in {"none", "probe"}
    /\ client \in {"full", "nothing", "writing", "writing0", "exit0"}
         => servedBy \in {"server", "other"}
    /\ servedBy = "other" => server \in {"none", "starting", "listening", "exitN"}

\* Where the runner is when the endpoints are in which state.
PlaceInv ==
  /\ suite \in {"s01", "s02", "s03"}
  /\ pc = "main" => server = "none" /\ client = "none" /\ exc = "none"
  /\ pc \in {"main", "reserve", "validate"} => server \in Stopped
  /\ pc = "spawn" => server = "none"
  /\ pc \in {"spawn", "wait_port", "client"} => client = "none"
  /\ pc \in {"spawn", "wait_port"} => servedBy = "none"
  /\ pc = "wait_port" => server \in {"starting", "listening", "exitN"}
  /\ pc = "flush" => client = "exit0"
  /\ pc \in Trying => exc = "none"
  /\ pc = "drain" => exc # "none" /\ client \in {"none", "exit0"} /\ server = "exitN"
  /\ pc \in CleaningUp /\ exc = "none" /\ suite # "s01" => client = "exit0" /\ server = "exit0"

BlameInv ==
  /\ pc \in CleaningUp \cup {"drain"} => Blame(exc)
  /\ pc = "exit" => Blame(exit.phase)

LeftInv ==
  pc = "exit" => server \in Stopped \/ (exit.phase = "sigkill-timeout" /\ exit.code # 0)

ControlInv == PortInv /\ ServedInv /\ PlaceInv /\ BlameInv /\ LeftInv

\* A server is signalled in the finally clause of its job, and not before.
SignalInv == signal # "none" => pc \in {"term_wait", "kill_wait", "reserve", "validate", "exit"}

\* An endpoint that outlives its launcher is of an earlier invocation, or of
\* the job this one is failing at: its exception is in flight or has ended it.
FailingAt(o) ==
  /\ o.run.pair = n
  /\ \/ pc \in CleaningUp /\ exc # "none"
     \/ pc = "exit" /\ exit.code # 0

OrphanInv ==
  /\ inv \in Nat \ {0}
  /\ forks => suite = "s03"
  /\ SignalInv
  /\ \A o \in orphans : o.run.turn \in 1 .. inv /\ (o.run.turn = inv => FailingAt(o))

-----------------------------------------------------------------------------

\* main() begins with no endpoint, no exception and a free port.
LEMMA ControlInit == Init => ControlInv
  BY RunnerAssumption DEF Init, ControlInv, PortInv, ServedInv, PlaceInv, BlameInv,
     LeftInv, Serving, Stopped,
         Trying, CleaningUp, Blame, NotReturned

USE DEF Serving, Ended, Stopped, CleaningUp, Trying

\* The phases that main() itself reports.
MainPhases == {"usage", "manifest-parse", "output-dir", "build", "preflight",
               "artifact-validation"}

\* Of the checks of main() that stop there is a first one.
LEMMA FirstStops ==
  ASSUME NEW S, S \subseteq 1 .. 7, S # {}
  PROVE  (CHOOSE i \in S : \A j \in S : i <= j) \in S
<1>1. \E i \in S : \A j \in S : i <= j
  <2>1. S \subseteq {1, 2, 3, 4, 5, 6, 7}
    OBVIOUS
  <2>2. CASE 1 \in S
    BY <2>1, <2>2
  <2>3. CASE 1 \notin S /\ 2 \in S
    BY <2>1, <2>3
  <2>4. CASE 1 \notin S /\ 2 \notin S /\ 3 \in S
    BY <2>1, <2>4
  <2>5. CASE 1 \notin S /\ 2 \notin S /\ 3 \notin S /\ 4 \in S
    BY <2>1, <2>5
  <2>6. CASE 1 \notin S /\ 2 \notin S /\ 3 \notin S /\ 4 \notin S /\ 5 \in S
    BY <2>1, <2>6
  <2>7. CASE 1 \notin S /\ 2 \notin S /\ 3 \notin S /\ 4 \notin S /\ 5 \notin S /\ 6 \in S
    BY <2>1, <2>7
  <2>8. CASE 1 \notin S /\ 2 \notin S /\ 3 \notin S /\ 4 \notin S /\ 5 \notin S /\ 6 \notin S /\ 7 \in S
    BY <2>1, <2>8
  <2> QED
    BY <2>1, <2>2, <2>3, <2>4, <2>5, <2>6, <2>7, <2>8
<1> QED
  BY <1>1

\* main() never reports the phase of an endpoint before it has started one.
LEMMA MainStopsPhase ==
  ASSUME suite \in {"s01", "s02", "s03"}, MainStops
  PROVE  exit'.phase \in MainPhases
<1> DEFINE i == CHOOSE i \in Stopping : \A j \in Stopping : i <= j
<1>1. MainChecks \in {MainS01, MainS02, MainS03}
  BY DEF MainChecks
<1>2. DOMAIN MainS01 = 1 .. 5 /\ DOMAIN MainS02 = 1 .. 5 /\ DOMAIN MainS03 = 1 .. 7
  BY DEF MainS01, MainS02, MainS03
<1>3. i \in DOMAIN MainChecks
  <2>1. Stopping \subseteq 1 .. 7 /\ Stopping # {}
    BY <1>1, <1>2 DEF Stopping, MainStops
  <2>2. i \in Stopping
    BY <2>1, FirstStops
  <2> QED
    BY <2>2 DEF Stopping
<1> HIDE DEF i
<1>4. CASE MainChecks = MainS01
  <2>1. MainS01[i].exit.phase \in MainPhases
    BY <1>2, <1>3, <1>4 DEF MainS01, Check, MainPhases
  <2> QED
    BY <1>4, <2>1 DEF MainStops, i
<1>5. CASE MainChecks = MainS02
  <2>1. MainS02[i].exit.phase \in MainPhases
    BY <1>2, <1>3, <1>5 DEF MainS02, Check, MainPhases
  <2> QED
    BY <1>5, <2>1 DEF MainStops, i
<1>6. CASE MainChecks = MainS03
  <2>1. MainS03[i].exit.phase \in MainPhases
    BY <1>2, <1>3, <1>6 DEF MainS03, Check, MainPhases
  <2> QED
    BY <1>6, <2>1 DEF MainStops, i
<1> QED
  BY <1>1, <1>4, <1>5, <1>6

\* Every step of the runner, of its endpoints and of the surroundings keeps
\* the control invariant.
LEMMA ControlStep == ControlInv /\ [Next]_vars => ControlInv'
<1> SUFFICES ASSUME ControlInv, [Next]_vars
             PROVE  ControlInv'
  OBVIOUS
<1> USE DEF ControlInv, PortInv, ServedInv, PlaceInv, BlameInv, LeftInv, Blame,
            config, main, reader, procs, endpointFrame
<1>1. CASE MainStops
  <2>1. exit'.phase \in MainPhases
    BY <1>1, MainStopsPhase
  <2> QED
    BY <1>1, <2>1 DEF MainStops, MainPhases
<1>2. CASE MainGoesOn
  BY <1>2 DEF MainGoesOn
<1>3. CASE ReserveAddr
  BY <1>3 DEF ReserveAddr
<1>4. CASE SpawnServer
  BY <1>4 DEF SpawnServer
<1>5. CASE SpawnFails
  BY <1>5 DEF SpawnFails
<1>6. CASE ServerGaveUp
  BY <1>6 DEF ServerGaveUp, Gone
<1>7. CASE PortAnswers
  BY <1>7 DEF PortAnswers, Connectable
<1>8. CASE PortTimeout
  BY <1>8 DEF PortTimeout
<1>9. CASE SpawnClient
  BY <1>9 DEF SpawnClient
<1>10. CASE ClientReturned
  BY <1>10 DEF ClientReturned, Gone
<1>11. CASE ClientTimeout
  BY <1>11 DEF ClientTimeout, Gone
<1>12. CASE ServerFlushed
  BY <1>12 DEF ServerFlushed, Gone, FlushVerdict
<1>13. CASE FlushTimeout
  BY <1>13 DEF FlushTimeout, Gone, FlushTimeoutPhase
<1>14. CASE Drained
  BY <1>14 DEF Drained
<1>15. CASE DrainTimeout
  BY <1>15 DEF DrainTimeout
<1>16. CASE Terminate
  BY <1>16 DEF Terminate, NothingToStop, Gone
<1>17. CASE Kill
  BY <1>17 DEF Kill, Gone
<1>18. CASE KillTimeout
  BY <1>18 DEF KillTimeout, Gone, Return
<1>19. CASE JobFailed
  BY <1>19 DEF JobFailed, CleanedUp, NothingToStop, Gone, Raised, Return
<1>20. CASE NextJob
  BY <1>20 DEF NextJob, CleanedUp, NothingToStop, Gone, Raised
<1>21. CASE LastJob
  BY <1>21 DEF LastJob, CleanedUp, NothingToStop, Gone, Raised, Return
<1>22. CASE ValidateNext
  BY <1>22 DEF ValidateNext, Return
<1>23. CASE ValidateEnd
  BY <1>23 DEF ValidateEnd, Return
<1>24. CASE ServerBinds
  BY <1>24 DEF ServerBinds
<1>25. CASE ServerFails
  BY <1>25 DEF ServerFails, ServerExits
<1>26. CASE ServerStopped
  BY <1>26 DEF ServerStopped, ServerExits
<1>27. CASE ServerCountsWarmup
  BY <1>27 DEF ServerCountsWarmup
<1>28. CASE ServerTruncates
  BY <1>28 DEF ServerTruncates
<1>29. CASE ServerReports
  BY <1>29 DEF ServerReports, ServerExits
<1>30. CASE ClientAnswered
  BY <1>30 DEF ClientAnswered
<1>31. CASE ClientDeadline
  BY <1>31 DEF ClientDeadline
<1>32. CASE ClientFails
  BY <1>32 DEF ClientFails
<1>33. CASE ClientTruncates
  BY <1>33 DEF ClientTruncates
<1>34. CASE ClientReports
  BY <1>34 DEF ClientReports
<1>35. CASE OrphanReports
  BY <1>35 DEF OrphanReports
<1>36. CASE PortTaken
  BY <1>36 DEF PortTaken
<1>37. CASE PortReleased
  BY <1>37 DEF PortReleased
<1>38. CASE RunnerKilled
  BY <1>38 DEF RunnerKilled, Return
<1>39. CASE Invoke
  BY <1>39 DEF Invoke, NotReturned
<1>40. CASE Done
  BY <1>40 DEF Done, vars
<1>41. CASE UNCHANGED vars
  BY <1>41 DEF vars
<1> QED
  BY <1>1, <1>2, <1>3, <1>4, <1>5, <1>6, <1>7, <1>8, <1>9, <1>10, <1>11, <1>12, <1>13,
     <1>14, <1>15, <1>16, <1>17, <1>18, <1>19, <1>20, <1>21, <1>22, <1>23, <1>24, <1>25,
     <1>26, <1>27, <1>28, <1>29, <1>30, <1>31, <1>32, <1>33, <1>34, <1>35, <1>36, <1>37,
     <1>38, <1>39, <1>40, <1>41
  DEF Next, Runner, Endpoints

\* At first there is no endpoint without its launcher.
LEMMA OrphanInit == Init => OrphanInv
<1> SUFFICES ASSUME Init
             PROVE  OrphanInv
  OBVIOUS
<1>1. forks => suite = "s03"
  <2>1. CASE suite = "s03"
    BY <2>1
  <2>2. CASE suite # "s03"
    BY <2>2 DEF Init
  <2> QED
    BY <2>1, <2>2
<1>2. inv \in Nat \ {0} /\ signal = "none" /\ orphans = {}
  BY DEF Init
<1> QED
  BY <1>1, <1>2 DEF OrphanInv, SignalInv

\* A new survivor is of this invocation and of this job.
LEMMA SurvivorIsOfThisJob ==
  ASSUME NEW role, NEW s \in Surviving(role), NEW o \in s
  PROVE  o.run.turn = inv /\ o.run.pair = n /\ forks
  BY DEF Surviving, Survivor, RunId

\* Every step keeps the survivors where they belong.
LEMMA OrphanStep == ControlInv /\ OrphanInv /\ [Next]_vars => OrphanInv'
<1> SUFFICES ASSUME ControlInv, OrphanInv, [Next]_vars
             PROVE  OrphanInv'
  OBVIOUS
<1> USE DEF OrphanInv, SignalInv, FailingAt, config, main, reader, procs, endpointFrame
<1>1. CASE ClientTimeout
  <2>1. PICK s \in Surviving("client") : orphans' = orphans \cup s
    BY <1>1 DEF ClientTimeout
  <2>2. \A o \in s : o.run.turn = inv /\ o.run.pair = n
    BY <2>1, SurvivorIsOfThisJob
  <2>3. UNCHANGED <<inv, n, forks, suite, signal>> /\ pc = "client_wait" /\ pc' = "cleanup"
        /\ exc' = "client-execution"
    BY <1>1 DEF ClientTimeout
  <2>4. \A o \in orphans : o.run.turn # inv
    BY <2>3
  <2>5. \A o \in orphans' : o.run.turn \in 1 .. inv' /\ (o.run.turn = inv' => FailingAt(o)')
    <3> SUFFICES ASSUME NEW o \in orphans'
                 PROVE  o.run.turn \in 1 .. inv' /\ (o.run.turn = inv' => FailingAt(o)')
      OBVIOUS
    <3>1. CASE o \in orphans
      BY <2>3, <2>4, <3>1
    <3>2. CASE o \in s
      BY <2>2, <2>3, <3>2
    <3> QED
      BY <2>1, <3>1, <3>2
  <2> QED
    BY <2>3, <2>5
<1>2. CASE ServerStopped
  <2>1. PICK s \in Surviving("server") : orphans' = orphans \cup s
    BY <1>2 DEF ServerStopped
  <2>2. \A o \in s : o.run.turn = inv /\ o.run.pair = n /\ forks
    BY <2>1, SurvivorIsOfThisJob
  <2>3. \A o \in s : FailingAt(o)
    BY <1>2, <2>2 DEF ServerStopped, ControlInv, PlaceInv, LeftInv
  <2>4. UNCHANGED <<inv, n, forks, suite, signal, pc, exc, exit>>
    BY <1>2 DEF ServerStopped, ServerExits
  <2>5. \A o \in orphans' : o.run.turn \in 1 .. inv' /\ (o.run.turn = inv' => FailingAt(o)')
    <3> SUFFICES ASSUME NEW o \in orphans'
                 PROVE  o.run.turn \in 1 .. inv' /\ (o.run.turn = inv' => FailingAt(o)')
      OBVIOUS
    <3>1. CASE o \in orphans
      BY <2>4, <3>1
    <3>2. CASE o \in s
      BY <2>2, <2>3, <2>4, <3>2
    <3> QED
      BY <2>1, <3>1, <3>2
  <2> QED
    BY <2>4, <2>5
<1>3. CASE OrphanReports
  BY <1>3 DEF OrphanReports
<1>4. CASE Invoke
  BY <1>4 DEF Invoke
<1>5. CASE MainStops \/ MainGoesOn \/ ReserveAddr \/ SpawnServer \/ SpawnFails
  BY <1>5 DEF MainStops, MainGoesOn, ReserveAddr, SpawnServer, SpawnFails
<1>6. CASE ServerGaveUp \/ PortAnswers \/ PortTimeout \/ SpawnClient \/ ClientReturned
  BY <1>6 DEF ServerGaveUp, PortAnswers, PortTimeout, SpawnClient, ClientReturned
<1>7. CASE ServerFlushed \/ FlushTimeout \/ Drained \/ DrainTimeout
  BY <1>7 DEF ServerFlushed, FlushTimeout, Drained, DrainTimeout
<1>8. CASE Terminate \/ Kill \/ KillTimeout
  BY <1>8 DEF Terminate, Kill, KillTimeout, Return
<1>9. CASE JobFailed \/ NextJob \/ LastJob
  BY <1>9 DEF JobFailed, NextJob, LastJob, CleanedUp, Raised, Return
<1>10. CASE ValidateNext \/ ValidateEnd
  BY <1>10 DEF ValidateNext, ValidateEnd, Return
<1>11. CASE ServerBinds \/ ServerFails \/ ServerCountsWarmup \/ ServerTruncates \/ ServerReports
  BY <1>11 DEF ServerBinds, ServerFails, ServerExits, ServerCountsWarmup, ServerTruncates,
               ServerReports
<1>12. CASE ClientAnswered \/ ClientDeadline \/ ClientFails \/ ClientTruncates \/ ClientReports
  BY <1>12 DEF ClientAnswered, ClientDeadline, ClientFails, ClientTruncates, ClientReports
<1>13. CASE PortTaken \/ PortReleased \/ RunnerKilled
  BY <1>13 DEF PortTaken, PortReleased, RunnerKilled, Return
<1>14. CASE Done \/ UNCHANGED vars
  BY <1>14 DEF Done, vars
<1> QED
  BY <1>1, <1>2, <1>3, <1>4, <1>5, <1>6, <1>7, <1>8, <1>9, <1>10, <1>11, <1>12, <1>13, <1>14
  DEF Next, Runner, Endpoints

\* The control invariant of the runner and its two endpoints.
THEOREM ControlAlways == Spec => []ControlInv
  BY ControlInit, ControlStep, PTL DEF Spec

\* run_server_client_pair(): a job passes only if its client was answered by
\* the server that the runner started and the server exited with 0.
THEOREM ServedByOwnServerHolds == Spec => []ServedByOwnServer
<1>1. ControlInv => ServedByOwnServer
  BY DEF ControlInv, PlaceInv, ServedInv, ServedByOwnServer, CleanedUp, Raised
<1> QED
  BY <1>1, ControlAlways, PTL

\* The control invariant, and where the survivors behind devenv come from.
THEOREM OrphanAlways == Spec => [](ControlInv /\ OrphanInv)
  BY ControlInit, ControlStep, OrphanInit, OrphanStep, PTL DEF Spec

\* terminate_process() and the finally clause of run_server_client_pair():
\* when main() is over, however it ends, the server it started has exited,
\* unless SIGKILL does not end it within two seconds; an endpoint that outlives
\* devenv is of the job at which the invocation failed, and a run that exits
\* with 0 leaves none.
THEOREM NoServerLeftHolds == Spec => []NoServerLeft
<1>1. ControlInv /\ OrphanInv => NoServerLeft
  BY DEF ControlInv, LeftInv, OrphanInv, FailingAt, NoServerLeft, Gone
<1> QED
  BY <1>1, OrphanAlways, PTL

\* The handlers of run_server_client_pair() blame the endpoint that failed, but
\* for the last handler of s01 and for the drain of a pipe behind devenv.
THEOREM BlamedEndpointFailedHolds == Spec => []BlamedEndpointFailed
<1>1. ControlInv => BlamedEndpointFailed
  BY DEF ControlInv, BlameInv, Blame, BlamedEndpointFailed
<1> QED
  BY <1>1, ControlAlways, PTL
=============================================================================
