------------------------- MODULE MediaMTXSupervisor -------------------------
(***************************************************************************)
(* The MediaMTX supervisor (internal/runtime/mediamtx/supervisor.go): one  *)
(* media server process, started, watched, restarted, stopped and          *)
(* reinstalled on behalf of concurrent API calls, through one record       *)
(* behind one mutex.                                                       *)
(*                                                                         *)
(* An action is one critical section of Supervisor.mu or one unlocked      *)
(* operation between two of them.  A worker is a chain of goroutines:      *)
(* launch -> watchExit and pollIngest -> scheduleRestart -> RequestStart,  *)
(* or runInstall; the at most one process it spawns is named by it.        *)
(***************************************************************************)
EXTENDS Integers, FiniteSets

CONSTANTS
  Workers,        \* goroutine chains that can be alive at once
  Clients,        \* concurrent API calls
  NoWorker,
  MinBackoff, MaxBackoff, MaxRestarts,  \* minBackoff, maxBackoff, maxRestartsPerWindow
  AutoStart, AutoRestart,               \* Options
  InitialBinary,  \* what is on disk at first
  Operations,     \* the API operations clients call
  Faults,         \* what may fail: see Fault below
  MaxCalls, MaxCrashes   \* bounds on the environment's inputs

Operation == {"start", "stop", "restart", "install", "shutdown"}

\* "ports": a port is taken, or the configuration is not written;  "spawn":
\* cmd.Start fails;  "ready": no answer in time;  "probe": --version fails;
\* "install": the installation fails;  "stop": stop() times out
Fault  == {"ports", "spawn", "ready", "probe", "install", "stop"}
Binary == {"missing", "incompatible", "supported"}

ASSUME SupervisorAssumption ==
  /\ NoWorker \notin Workers
  /\ MinBackoff \in Nat \ {0} /\ MaxBackoff \in Nat /\ MinBackoff <= MaxBackoff
  /\ MaxRestarts \in Nat /\ AutoStart \in BOOLEAN /\ AutoRestart \in BOOLEAN
  /\ InitialBinary \in Binary
  /\ Operations \subseteq Operation /\ Faults \subseteq Fault
  /\ MaxCalls \in Nat /\ MaxCrashes \in Nat

VARIABLES
  sup,        \* the Supervisor record
  binary,     \* the executable on disk
  workers,    \* the goroutine chains and their processes
  calls,      \* the API calls in progress
  lifecycle,  \* "open", "closing" (Shutdown began), "cancelled", "down" (it returned)
  past        \* the environment's inputs so far, and the starts that were overtaken

vars == <<sup, binary, workers, calls, lifecycle, past>>

-----------------------------------------------------------------------------
(* Records *)

\* "idle" stands for every ingest state but "receiving"
Applied(s, found) ==
  [s EXCEPT !.known = found, !.state = IF found = "supported" THEN "stopped" ELSE found]

Fresh == Applied([state |-> "missing", current |-> NoWorker, stopRequested |-> FALSE,
                  installing |-> FALSE, generation |-> 0, backoff |-> MinBackoff,
                  restarts |-> 0, ingest |-> "idle", known |-> "missing"], InitialBinary)

Busy == {"starting", "ready", "stopping", "installing"}

Launching  == {"ports", "spawn", "attach", "await", "answered", "abort"}
Retrying   == {"crashed", "aborted", "backoff", "refresh", "apply", "restart"}
Installing == {"install", "publish", "installed", "finish"}

Done == [pc |-> "done", generation |-> 0, proc |-> "none", polling |-> FALSE,
         answer |-> "none", found |-> "missing"]
Launch(g) == [Done EXCEPT !.pc = "ports", !.generation = g]

IdleCall == [op |-> "none", pc |-> "idle", proc |-> NoWorker, found |-> "missing"]

Alive(w)   == workers[w].proc # "none"
Active(w)  == workers[w].pc # "done" \/ workers[w].polling
Current(w) == Active(w) /\ workers[w].generation = sup.generation

\* A worker id is used again only when nothing refers to its last process
Allocatable(w) == /\ ~Active(w) /\ ~Alive(w)
                  /\ sup.current # w
                  /\ \A c \in Clients : calls[c].proc # w

\* A handle on an exited process is inert: stop returns at once
Handle(w)    == IF w # NoWorker /\ Alive(w) THEN w ELSE NoWorker
Signalled(w) == [v \in Workers |-> IF v = w /\ workers[v].proc = "running"
                                     THEN [workers[v] EXCEPT !.proc = "signalled"]
                                     ELSE workers[v]]
Move(w, pc)  == workers' = [workers EXCEPT ![w].pc = pc]

\* A goroutine of the chain ends; its process and its poller may outlive it
Ended(r)     == IF r.polling THEN [r EXCEPT !.pc = "done"] ELSE [Done EXCEPT !.proc = r.proc]
Finish(w)    == workers' = [workers EXCEPT ![w] = Ended(@)]

\* s.workers.Wait waits for these; nothing waits for launch
Awaited(w) ==
  workers[w].polling \/ workers[w].pc \notin Launching \cup {"discard", "aborted", "done"}

\* What Resolve can report: it stats the file, then runs it in the given context
Resolutions(cancelled) ==
  IF binary = "missing" THEN {"missing"}
  ELSE (IF cancelled THEN {} ELSE {binary})
         \cup (IF cancelled \/ "probe" \in Faults THEN {"incompatible"} ELSE {})

Cancelled == lifecycle \in {"cancelled", "down"}

-----------------------------------------------------------------------------
\* Mutant of Started: the generation is not advanced
StartedInSameGeneration(s) == [s EXCEPT !.state = "starting", !.stopRequested = FALSE]

Started(s) ==
  [s EXCEPT !.state = "starting", !.stopRequested = FALSE, !.generation = @ + 1]

\* Start has resolved the binary, and requested the automatic start, before the
\* HTTP server begins
Init == /\ IF AutoStart /\ InitialBinary = "supported"
             THEN /\ sup = Started(Fresh)
                  /\ \E starter \in Workers :
                       workers = [w \in Workers |-> IF w = starter THEN Launch(sup.generation)
                                                        ELSE Done]
             ELSE sup = Fresh /\ workers = [w \in Workers |-> Done]
        /\ binary = InitialBinary
        /\ calls = [c \in Clients |-> IdleCall]
        /\ lifecycle = "open"
        /\ past = [calls |-> 0, crashes |-> 0, overtaken |-> {}]

-----------------------------------------------------------------------------
(* RequestStart, by a call and by goroutines *)

\* binaryPath is empty exactly when the last resolution found nothing
CanStart == sup.state \in {"stopped", "stopping", "error"} /\ sup.known # "missing"

\* Shutdown comes after HTTP has drained
Begin(c, op, pc) ==
  /\ op \in Operations
  /\ lifecycle = "open"
  /\ calls[c].pc = "idle"
  /\ past.calls < MaxCalls
  /\ past' = [past EXCEPT !.calls = @ + 1]
  /\ calls' = [calls EXCEPT ![c] = [IdleCall EXCEPT !.op = op, !.pc = pc]]
  /\ UNCHANGED <<sup, binary, workers, lifecycle>>

BeginCall(c) ==
  \/ \E op \in {"start", "stop", "restart", "install"} : Begin(c, op, op)
  \/ Begin(c, "shutdown", "shutdown") /\ \A other \in Clients : calls[other].pc = "idle"

Return(c) == calls' = [calls EXCEPT ![c] = IdleCall]

StartAccepted(c) ==
  /\ calls[c].pc = "start" /\ CanStart
  /\ sup' = Started(sup)
  /\ \E w \in Workers :
       Allocatable(w) /\ workers' = [workers EXCEPT ![w] = Launch(sup'.generation)]
  /\ Return(c)
  /\ UNCHANGED <<binary, lifecycle, past>>

StartRefused(c) ==
  /\ calls[c].pc = "start" /\ ~CanStart
  /\ Return(c)
  /\ UNCHANGED <<sup, binary, workers, lifecycle, past>>

-----------------------------------------------------------------------------
(* RequestStop and RequestRestart *)

CanStop == sup.state \in {"ready", "starting"}

StopRefused(c) ==
  /\ calls[c].pc = "stop" /\ ~CanStop
  /\ Return(c)
  /\ UNCHANGED <<sup, binary, workers, lifecycle, past>>

Stopping(s) ==
  [s EXCEPT !.state = "stopping", !.stopRequested = TRUE, !.generation = @ + 1]

\* The signal is sent just after the unlock
StopAccepted(c) ==
  /\ calls[c].pc = "stop" /\ CanStop
  /\ sup' = Stopping(sup)
  /\ calls' = [calls EXCEPT ![c].pc = "stopping", ![c].proc = Handle(sup.current)]
  /\ workers' = Signalled(sup.current)
  /\ UNCHANGED <<binary, lifecycle, past>>

StopReturns(c) ==
  /\ calls[c].pc = "stopping"
  /\ calls[c].proc = NoWorker \/ "stop" \in Faults
  /\ calls' = [calls EXCEPT ![c].pc = "clear", ![c].proc = NoWorker]
  /\ UNCHANGED <<sup, binary, workers, lifecycle, past>>

Stopped(s) ==
  [s EXCEPT !.state = "stopped", !.current = NoWorker, !.ingest = "idle",
            !.backoff = MinBackoff, !.restarts = 0]

\* History: a write that asks neither the state nor the generation overtakes the
\* latest start.  (Only NoOrphanProcess reads it.)
Overtake == past' = [past EXCEPT !.overtaken = @ \cup ({sup.generation} \ {0})]

\* The second critical section asks neither the state nor the generation
ClearStopped(c) ==
  /\ calls[c].pc = "clear"
  /\ sup' = Stopped(sup)
  /\ Overtake
  /\ calls' = [calls EXCEPT ![c] = IF @.op = "restart" THEN [@ EXCEPT !.pc = "resolve"]
                                                       ELSE IdleCall]
  /\ UNCHANGED <<binary, workers, lifecycle>>

CheckRunning(c) ==
  /\ calls[c].pc = "restart"
  /\ calls' = [calls EXCEPT ![c].pc = IF CanStop THEN "stop" ELSE "resolve"]
  /\ UNCHANGED <<sup, binary, workers, lifecycle, past>>

\* refreshResolution: resolve without the lock, then apply unless busy
Resolve(c) ==
  /\ calls[c].pc = "resolve"
  /\ \E found \in Resolutions(FALSE) :
       calls' = [calls EXCEPT ![c].pc = "apply", ![c].found = found]
  /\ UNCHANGED <<sup, binary, workers, lifecycle, past>>

Refreshed(s, found) == IF s.state \in Busy THEN s ELSE Applied(s, found)

ApplyResolution(c) ==
  /\ calls[c].pc = "apply"
  /\ sup' = Refreshed(sup, calls[c].found)
  /\ calls' = [calls EXCEPT ![c].pc = "start"]
  /\ UNCHANGED <<binary, workers, lifecycle, past>>

-----------------------------------------------------------------------------
(* RequestInstall and Shutdown *)

CanInstall == ~sup.installing /\ sup.state \notin {"starting", "ready", "stopping"}

InstallRefused(c) ==
  /\ calls[c].pc = "install" /\ ~CanInstall
  /\ Return(c)
  /\ UNCHANGED <<sup, binary, workers, lifecycle, past>>

InstallAccepted(c) ==
  /\ calls[c].pc = "install" /\ CanInstall
  /\ sup' = [sup EXCEPT !.installing = TRUE, !.state = "installing"]
  /\ \E w \in Workers :
       Allocatable(w) /\ workers' = [workers EXCEPT ![w] = [Done EXCEPT !.pc = "install"]]
  /\ Return(c)
  /\ UNCHANGED <<binary, lifecycle, past>>

ShutDown(c) ==
  /\ calls[c].pc = "shutdown"
  /\ sup' = [sup EXCEPT !.state = "stopped", !.stopRequested = TRUE, !.current = NoWorker,
                        !.generation = @ + 1]
  /\ calls' = [calls EXCEPT ![c].pc = "cancel", ![c].proc = Handle(sup.current)]
  /\ lifecycle' = "closing"
  /\ UNCHANGED <<binary, workers, past>>

\* s.cancel(), then the signal
Cancel(c) ==
  /\ calls[c].pc = "cancel"
  /\ lifecycle' = "cancelled"
  /\ workers' = Signalled(calls[c].proc)
  /\ calls' = [calls EXCEPT ![c].pc = "reap"]
  /\ UNCHANGED <<sup, binary, past>>

\* The process is reaped, and the wait group waited for or the context runs out
Drain(c) ==
  /\ calls[c].pc = "reap"
  /\ \/ "stop" \in Faults
     \/ calls[c].proc = NoWorker /\ \A w \in Workers : ~Awaited(w)
  /\ lifecycle' = "down"
  /\ Return(c)
  /\ UNCHANGED <<sup, binary, workers, past>>

-----------------------------------------------------------------------------
(* launch *)

\* Mutant of Failed: the failure is recorded, the state is left
FailedKeepingState(s) == [s EXCEPT !.current = NoWorker, !.ingest = "idle"]

\* failStart
Failed(s) == [s EXCEPT !.state = "error", !.current = NoWorker, !.ingest = "idle"]
FailStart(w) == sup' = IF Current(w) THEN Failed(sup) ELSE sup

\* It holds the ports: the Control API answers
Listening(w) == workers[w].proc = "running" /\ workers[w].pc \in {"answered", "watch"}

LaunchFails(w) ==
  /\ \/ /\ workers[w].pc = "ports"
        /\ "ports" \in Faults \/ \E v \in Workers : Alive(v)
     \/ workers[w].pc = "spawn" /\ "spawn" \in Faults
  /\ FailStart(w)
  /\ Finish(w)
  /\ UNCHANGED <<binary, calls, lifecycle, past>>

CheckPorts(w) ==
  /\ workers[w].pc = "ports"
  /\ \A v \in Workers : ~Listening(v)
  /\ Move(w, "spawn")
  /\ UNCHANGED <<sup, binary, calls, lifecycle, past>>

Spawn(w) ==
  /\ workers[w].pc = "spawn"
  /\ workers' = [workers EXCEPT ![w].pc = "attach", ![w].proc = "running"]
  /\ UNCHANGED <<sup, binary, calls, lifecycle, past>>

\* Mutant of Superseded: the launch gives up, its process runs on
SupersededKeepingProcess(w) == /\ ~Current(w)
                               /\ workers' = [workers EXCEPT ![w].pc = "discard"]
                               /\ UNCHANGED sup

\* "A stop arrived while the process was spawning": signal it, then wait
Superseded(w) == /\ ~Current(w)
                 /\ workers' = [Signalled(w) EXCEPT ![w].pc = "discard"]
                 /\ UNCHANGED sup

Attach(w) ==
  /\ workers[w].pc = "attach"
  /\ \/ /\ Current(w)
        /\ sup' = [sup EXCEPT !.current = w]
        /\ Move(w, "await")
     \/ Superseded(w)
  /\ UNCHANGED <<binary, calls, lifecycle, past>>

\* awaitReady: Ping is answered by whatever listens on the API address
Answered(w) ==
  /\ workers[w].pc = "await"
  /\ ~Cancelled
  /\ \E v \in Workers : Alive(v)
  /\ Move(w, "answered")
  /\ UNCHANGED <<sup, binary, calls, lifecycle, past>>

NotAnswered(w) ==
  /\ workers[w].pc = "await"
  /\ \/ (~Alive(w) \/ Cancelled) /\ UNCHANGED past
     \/ /\ "ready" \in Faults /\ past.crashes < MaxCrashes
        /\ past' = [past EXCEPT !.crashes = @ + 1]
  /\ workers' = [Signalled(w) EXCEPT ![w].pc = "abort"]
  /\ UNCHANGED <<sup, binary, calls, lifecycle>>

BecomeReady(w) ==
  /\ workers[w].pc = "answered"
  /\ \/ /\ Current(w)
        /\ sup' = [sup EXCEPT !.state = "ready"]
        /\ workers' = [workers EXCEPT ![w].pc = "watch", ![w].polling = TRUE]
     \/ Superseded(w)
  /\ UNCHANGED <<binary, calls, lifecycle, past>>

\* proc.stop has returned
Reaped(w) == ~Alive(w) \/ "stop" \in Faults

Discard(w) ==
  /\ workers[w].pc = "discard" /\ Reaped(w)
  /\ Finish(w)
  /\ UNCHANGED <<sup, binary, calls, lifecycle, past>>

Abort(w) ==
  /\ workers[w].pc = "abort" /\ Reaped(w)
  /\ FailStart(w)
  /\ Move(w, "aborted")
  /\ UNCHANGED <<binary, calls, lifecycle, past>>

-----------------------------------------------------------------------------
(* watchExit, pollIngest and the process *)

Crashed(s) ==
  [s EXCEPT !.state = IF s.stopRequested THEN "stopped" ELSE "error",
            !.current = NoWorker, !.ingest = "idle"]

WatchExit(w) ==
  /\ workers[w].pc = "watch"
  /\ \/ /\ ~Alive(w) /\ Current(w)
        /\ sup' = Crashed(sup)
        /\ IF sup.stopRequested THEN Finish(w) ELSE Move(w, "crashed")
     \/ /\ Cancelled \/ (~Alive(w) /\ ~Current(w))
        /\ Finish(w)
        /\ UNCHANGED sup
  /\ UNCHANGED <<binary, calls, lifecycle, past>>

\* Mutant of MayUpdate: the poller of a superseded process, or of one that is
\* not ready, publishes what it read
MayUpdateAlways(w) == Active(w)

MayUpdate(w) == Current(w) /\ sup.state = "ready"

\* updateIngest asks the Control API without the lock, ...
PollIngest(w) ==
  /\ workers[w].polling /\ workers[w].answer = "none"
  /\ \E read \in {"idle"} \cup {IF \E v \in Workers : Alive(v) THEN "receiving" ELSE "idle"} :
       workers' = [workers EXCEPT ![w].answer = read]
  /\ UNCHANGED <<sup, binary, calls, lifecycle, past>>

\* ... and uses the answer whenever it comes
UpdateIngest(w) ==
  /\ workers[w].answer # "none"
  /\ sup' = [sup EXCEPT !.ingest = IF MayUpdate(w) THEN workers[w].answer ELSE @]
  /\ workers' = [workers EXCEPT ![w].answer = "none"]
  /\ UNCHANGED <<binary, calls, lifecycle, past>>

StableRun(w) ==
  /\ workers[w].polling /\ workers[w].answer = "none" /\ Current(w)
  /\ sup' = [sup EXCEPT !.backoff = MinBackoff, !.restarts = 0]
  /\ UNCHANGED <<binary, workers, calls, lifecycle, past>>

PollEnds(w) ==
  /\ workers[w].polling /\ workers[w].answer = "none"
  /\ ~Alive(w) \/ Cancelled
  /\ workers' = [workers EXCEPT ![w] =
       IF @.pc = "done" THEN Ended([@ EXCEPT !.polling = FALSE]) ELSE [@ EXCEPT !.polling = FALSE]]
  /\ UNCHANGED <<sup, binary, calls, lifecycle, past>>

\* proc.exited is closed: every handle becomes inert
Exit(w) ==
  /\ workers' = [workers EXCEPT ![w].proc = "none"]
  /\ calls' = [c \in Clients |-> IF calls[c].proc = w THEN [calls[c] EXCEPT !.proc = NoWorker]
                                                     ELSE calls[c]]

TerminatedExit(w) ==
  /\ workers[w].proc = "signalled"
  /\ Exit(w)
  /\ UNCHANGED <<sup, binary, lifecycle, past>>

SpontaneousExit(w) ==
  /\ workers[w].proc = "running" /\ past.crashes < MaxCrashes
  /\ Exit(w)
  /\ past' = [past EXCEPT !.crashes = @ + 1]
  /\ UNCHANGED <<sup, binary, lifecycle>>

-----------------------------------------------------------------------------
(* scheduleRestart and the goroutines that end in RequestStart *)

RestartAbandoned(w) ==
  /\ \/ /\ workers[w].pc \in {"crashed", "aborted"}
        /\ ~AutoRestart \/ sup.stopRequested \/ ~Current(w)
     \/ workers[w].pc = "backoff" /\ Cancelled
  /\ Finish(w)
  /\ UNCHANGED <<sup, binary, calls, lifecycle, past>>

\* Mutant of Doubled: the delay is not capped
DoubledWithoutLimit(delay) == 2 * delay

Doubled(delay) == IF 2 * delay > MaxBackoff THEN MaxBackoff ELSE 2 * delay

\* Of the restarts counted, those younger than the window are kept
ScheduleRestart(w) ==
  /\ workers[w].pc \in {"crashed", "aborted"}
  /\ AutoRestart /\ ~sup.stopRequested /\ Current(w)
  /\ \E kept \in 0 .. sup.restarts :
       IF kept >= MaxRestarts
         THEN /\ sup' = [sup EXCEPT !.state = "error", !.restarts = kept]
              /\ Finish(w)
         ELSE /\ sup' = [sup EXCEPT !.restarts = kept + 1, !.backoff = Doubled(@)]
              /\ Move(w, "backoff")
  /\ UNCHANGED <<binary, calls, lifecycle, past>>

BackoffElapses(w) ==
  /\ workers[w].pc = "backoff" /\ ~Cancelled
  /\ Move(w, "refresh")
  /\ UNCHANGED <<sup, binary, calls, lifecycle, past>>

ResolveAgain(w) ==
  /\ workers[w].pc \in {"refresh", "installed"}
  /\ \E found \in Resolutions(Cancelled) :
       workers' = [workers EXCEPT
         ![w].pc = IF @ = "refresh" THEN "apply" ELSE "finish", ![w].found = found]
  /\ UNCHANGED <<sup, binary, calls, lifecycle, past>>

ApplyAgain(w) ==
  /\ workers[w].pc = "apply"
  /\ sup' = Refreshed(sup, workers[w].found)
  /\ workers' = [workers EXCEPT ![w].pc = "restart", ![w].found = "missing"]
  /\ UNCHANGED <<binary, calls, lifecycle, past>>

\* RequestStart by the restart policy, or after an installation (AutoStart).
\* The chain goes on in launch; it keeps its name unless its last
\* process or poller is still there.
StartAgain(w) ==
  /\ workers[w].pc \in {"restart", "autostart"}
  /\ \/ /\ CanStart
        /\ sup' = Started(sup)
        /\ IF Alive(w) \/ workers[w].polling
             THEN \E v \in Workers :
                    /\ Allocatable(v)
                    /\ workers' = [workers EXCEPT ![w] = Ended(@),
                                                  ![v] = Launch(sup'.generation)]
             ELSE workers' = [workers EXCEPT ![w] = Launch(sup'.generation)]
     \/ ~CanStart /\ Finish(w) /\ UNCHANGED sup
  /\ UNCHANGED <<binary, calls, lifecycle, past>>

-----------------------------------------------------------------------------
(* runInstall *)

\* Before publish nothing is touched; publish puts the previous installation back
InstallFails(w) ==
  /\ \/ workers[w].pc = "install" /\ (Cancelled \/ "install" \in Faults) /\ UNCHANGED binary
     \/ /\ workers[w].pc = "publish" /\ "install" \in Faults
        /\ binary' = workers[w].found
  /\ sup' = [sup EXCEPT !.installing = FALSE, !.state = "error"]
  /\ Overtake
  /\ Finish(w)
  /\ UNCHANGED <<calls, lifecycle>>

\* publish moves the previous installation aside, then renames the staged one
MoveAside(w) ==
  /\ workers[w].pc = "install"
  /\ workers' = [workers EXCEPT ![w].pc = "publish", ![w].found = binary]
  /\ binary' = "missing"
  /\ UNCHANGED <<sup, calls, lifecycle, past>>

Publish(w) ==
  /\ workers[w].pc = "publish"
  /\ binary' = "supported"
  /\ workers' = [workers EXCEPT ![w].pc = "installed", ![w].found = "missing"]
  /\ UNCHANGED <<sup, calls, lifecycle, past>>

\* The resolution is applied whatever the state has become
FinishInstall(w) ==
  /\ workers[w].pc = "finish"
  /\ sup' = [Applied(sup, workers[w].found) EXCEPT !.installing = FALSE]
  /\ Overtake
  /\ IF AutoStart /\ sup'.state = "stopped"
       THEN workers' = [workers EXCEPT ![w].pc = "autostart", ![w].found = "missing"]
       ELSE Finish(w)
  /\ UNCHANGED <<binary, calls, lifecycle>>

-----------------------------------------------------------------------------
CallStep(c) == \/ StartAccepted(c) \/ StartRefused(c)
               \/ StopRefused(c) \/ StopAccepted(c) \/ StopReturns(c) \/ ClearStopped(c)
               \/ CheckRunning(c) \/ Resolve(c) \/ ApplyResolution(c)
               \/ InstallRefused(c) \/ InstallAccepted(c)
               \/ ShutDown(c) \/ Cancel(c) \/ Drain(c)

WorkerStep(w) == \/ LaunchFails(w) \/ CheckPorts(w) \/ Spawn(w) \/ Attach(w)
                 \/ Answered(w) \/ NotAnswered(w) \/ BecomeReady(w) \/ Discard(w) \/ Abort(w)
                 \/ WatchExit(w) \/ UpdateIngest(w) \/ PollEnds(w)
                 \/ RestartAbandoned(w) \/ ScheduleRestart(w) \/ BackoffElapses(w)
                 \/ ResolveAgain(w) \/ ApplyAgain(w) \/ StartAgain(w)
                 \/ InstallFails(w) \/ MoveAside(w) \/ Publish(w) \/ FinishInstall(w)

Environment(w) == PollIngest(w) \/ StableRun(w) \/ SpontaneousExit(w)

Next == \/ \E c \in Clients : BeginCall(c) \/ CallStep(c)
        \/ \E w \in Workers : WorkerStep(w) \/ TerminatedExit(w) \/ Environment(w)

Spec == Init /\ [][Next]_vars

\* Every goroutine keeps running and a signalled process exits (stop escalates to
\* a kill).  Clients, a running MediaMTX and the publisher promise nothing.
Fairness == /\ \A c \in Clients : WF_vars(CallStep(c))
            /\ \A w \in Workers : WF_vars(WorkerStep(w)) /\ WF_vars(TerminatedExit(w))

FairSpec == Spec /\ Fairness

-----------------------------------------------------------------------------
(* Type invariant *)

SupType == [state : Busy \cup {"missing", "incompatible", "stopped", "error"},
            current : Workers \cup {NoWorker}, stopRequested : BOOLEAN,
            installing : BOOLEAN, generation : Nat, backoff : MinBackoff .. MaxBackoff,
            restarts : 0 .. MaxRestarts, ingest : {"idle", "receiving"}, known : Binary]
WorkerType == [pc : Launching \cup Retrying \cup Installing
                      \cup {"done", "discard", "watch", "autostart"},
               generation : Nat, proc : {"none", "running", "signalled"},
               polling : BOOLEAN, answer : {"none", "idle", "receiving"}, found : Binary]
CallType == [op : Operation \cup {"none"},
             pc : {"idle", "start", "stop", "stopping", "clear", "restart", "resolve",
                   "apply", "install", "shutdown", "cancel", "reap"},
             proc : Workers \cup {NoWorker}, found : Binary]

\* The shape of the state, the delay within the policy's bounds and never more
\* restarts in the window than the policy allows.
TypeOK == /\ sup \in SupType
          /\ binary \in Binary
          /\ workers \in [Workers -> WorkerType]
          /\ calls \in [Clients -> CallType]
          /\ lifecycle \in {"open", "closing", "cancelled", "down"}
          /\ past \in [calls : Nat, crashes : Nat, overtaken : SUBSET Nat]

-----------------------------------------------------------------------------
(* Safety *)

\* What the generation counter is for: of all the launches, watchers and pending
\* restarts, at most one may still act on the record.  (Installations have no
\* generation; theirs is 0, as the counter's before the first start.)
GenerationIsExclusive ==
  sup.generation # 0 =>
    \A v, w \in Workers : Current(v) /\ Current(w) => v = w

\* No MediaMTX runs that nobody can stop: until a shutdown cancels the goroutines, a
\* running process is the supervisor's current one, or is about to be attached or
\* discarded by its launch, or is in the hands of a call.  The one way to lose a
\* process is the write of a stop or of an installation that began before its start
\* and ends after it, which forgets it (see Overtake).
NoOrphanProcess ==
  ~Cancelled =>
    \A w \in Workers : workers[w].proc = "running" =>
      \/ sup.current = w
      \/ workers[w].pc = "attach"
      \/ \E c \in Clients : calls[c].proc = w
      \/ workers[w].generation \in past.overtaken

\* What the readers of a snapshot see of the ingest
Snapshot == IF sup.ingest # "receiving" THEN "absent"
            ELSE IF sup.state = "ready" THEN "receiving" ELSE "stopping"

Ingest == INSTANCE IngestSource WITH ingest <- Snapshot

\* The supervisor implements the ingest source that drives the branch manager: a
\* stopped server never becomes one that "stops" with a publisher still reported,
\* so a poll that comes back after a stop or an exit publishes nothing.
ImplementsIngestSource == Ingest!Spec

-----------------------------------------------------------------------------
(* Liveness *)

\* A state that means something is in progress ends: a readiness timeout, a kill
\* or the end of an installation is always reached.
ProgressStatesEnd ==
  \A s \in {"starting", "stopping", "installing"} : sup.state = s ~> sup.state # s
=============================================================================
