---------------------- MODULE MediaMTXSupervisorProofs ----------------------
(***************************************************************************)
(* Proofs about MediaMTXSupervisor, for every number of workers and        *)
(* clients, every restart policy and every set of faults.                  *)
(***************************************************************************)
EXTENDS MediaMTXSupervisor, TLAPS

-----------------------------------------------------------------------------
(* The record, the workers and the calls *)

LEMMA SupUpdates ==
  ASSUME NEW s \in SupType
  PROVE  /\ Started(s) \in SupType /\ Stopping(s) \in SupType /\ Stopped(s) \in SupType
         /\ Failed(s) \in SupType /\ Crashed(s) \in SupType
         /\ \A found \in Binary : Applied(s, found) \in SupType /\ Refreshed(s, found) \in SupType
<1> USE SupervisorAssumption
<1>1. Started(s) \in SupType /\ Stopping(s) \in SupType
  <2>1. s.generation + 1 \in Nat
    BY DEF SupType
  <2>2. Started(s) \in SupType
    BY <2>1 DEF SupType, Started, Busy
  <2>3. Stopping(s) \in SupType
    BY <2>1 DEF SupType, Stopping, Busy
  <2> QED BY <2>2, <2>3
<1>2. Stopped(s) \in SupType
  <2>1. MinBackoff \in MinBackoff .. MaxBackoff /\ 0 \in 0 .. MaxRestarts
    OBVIOUS
  <2> QED BY <2>1 DEF SupType, Stopped
<1>3. Failed(s) \in SupType /\ Crashed(s) \in SupType
  BY DEF SupType, Failed, Crashed
<1>4. \A found \in Binary : Applied(s, found) \in SupType
  BY DEF SupType, Applied, Binary
<1>5. \A found \in Binary : Refreshed(s, found) \in SupType
  BY <1>4 DEF Refreshed
<1> QED BY <1>1, <1>2, <1>3, <1>4, <1>5

LEMMA FreshType == Fresh \in SupType
<1> DEFINE blank == [state |-> "missing", current |-> NoWorker, stopRequested |-> FALSE,
                     installing |-> FALSE, generation |-> 0, backoff |-> MinBackoff,
                     restarts |-> 0, ingest |-> "idle", known |-> "missing"]
<1>1. blank \in SupType
  BY SupervisorAssumption DEF SupType, Binary
<1>2. InitialBinary \in Binary
  BY SupervisorAssumption
<1> QED BY <1>1, <1>2, SupUpdates DEF Fresh

LEMMA DoneType ==
  /\ Done \in WorkerType /\ [Done EXCEPT !.pc = "install"] \in WorkerType
  /\ \A g \in Nat : Launch(g) \in WorkerType
  BY DEF Done, Launch, WorkerType, Launching, Installing, Binary

PCs == Launching \cup Retrying \cup Installing \cup {"done", "discard", "watch", "autostart"}

LEMMA WorkerUpdates ==
  ASSUME NEW r \in WorkerType
  PROVE  /\ Ended(r) \in WorkerType
         /\ \A pc \in PCs : [r EXCEPT !.pc = pc] \in WorkerType
         /\ \A proc \in {"none", "running", "signalled"} : [r EXCEPT !.proc = proc] \in WorkerType
         /\ \A polling \in BOOLEAN : [r EXCEPT !.polling = polling] \in WorkerType
         /\ \A found \in Binary : [r EXCEPT !.found = found] \in WorkerType
         /\ \A answer \in {"none", "idle", "receiving"} :
              [r EXCEPT !.answer = answer] \in WorkerType
  BY DEF WorkerType, Ended, Done, PCs, Binary

\* Signalling one process, and every change of one worker
LEMMA WorkersType ==
  ASSUME workers \in [Workers -> WorkerType]
  PROVE  /\ \A x : Signalled(x) \in [Workers -> WorkerType]
         /\ \A w \in Workers, pc \in PCs : [workers EXCEPT ![w].pc = pc] \in [Workers -> WorkerType]
         /\ \A w \in Workers, pc \in PCs :
              [Signalled(w) EXCEPT ![w].pc = pc] \in [Workers -> WorkerType]
         /\ \A w \in Workers : [workers EXCEPT ![w] = Ended(@)] \in [Workers -> WorkerType]
         /\ \A w \in Workers, r \in WorkerType :
              [workers EXCEPT ![w] = r] \in [Workers -> WorkerType]
<1>1. \A x : Signalled(x) \in [Workers -> WorkerType]
  BY WorkerUpdates DEF Signalled
<1>2. \A f \in [Workers -> WorkerType], w \in Workers, pc \in PCs :
        [f EXCEPT ![w].pc = pc] \in [Workers -> WorkerType]
  BY WorkerUpdates
<1>3. \A w \in Workers : [workers EXCEPT ![w] = Ended(@)] \in [Workers -> WorkerType]
  BY WorkerUpdates
<1> QED BY <1>1, <1>2, <1>3

\* A worker that moves on once what it resolved has been read
LEMMA WorkersMove ==
  ASSUME workers \in [Workers -> WorkerType], NEW w \in Workers, NEW pc \in PCs
  PROVE  /\ [workers EXCEPT ![w].pc = pc, ![w].found = "missing"] \in [Workers -> WorkerType]
         /\ [workers EXCEPT ![w].pc = pc, ![w].polling = TRUE] \in [Workers -> WorkerType]
<1>1. "missing" \in Binary
  BY DEF Binary
<1>2. workers[w] \in WorkerType
  OBVIOUS
<1>3. [workers[w] EXCEPT !.pc = pc] \in WorkerType
  BY <1>2, WorkerUpdates
<1> DEFINE moved == [[workers[w] EXCEPT !.pc = pc] EXCEPT !.found = "missing"]
           polled == [[workers[w] EXCEPT !.pc = pc] EXCEPT !.polling = TRUE]
<1>4. moved \in WorkerType /\ polled \in WorkerType
  BY <1>1, <1>3, WorkerUpdates
<1>5. [workers EXCEPT ![w].pc = pc, ![w].found = "missing"] = [workers EXCEPT ![w] = moved]
  OBVIOUS
<1>6. [workers EXCEPT ![w].pc = pc, ![w].polling = TRUE] = [workers EXCEPT ![w] = polled]
  OBVIOUS
<1> HIDE DEF moved, polled
<1> QED BY <1>4, <1>5, <1>6

LEMMA HandleType ==
  ASSUME NEW w \in Workers \cup {NoWorker} PROVE Handle(w) \in Workers \cup {NoWorker}
  BY DEF Handle

LEMMA ResolvedType ==
  ASSUME binary \in Binary, NEW cancelled \in BOOLEAN PROVE Resolutions(cancelled) \subseteq Binary
  BY DEF Resolutions, Binary

LEMMA OvertakeType ==
  ASSUME TypeOK, Overtake PROVE past' \in [calls : Nat, crashes : Nat, overtaken : SUBSET Nat]
<1>1. sup.generation \in Nat
  BY DEF TypeOK, SupType
<1> QED BY <1>1 DEF TypeOK, Overtake

CallPCs == {"idle", "start", "stop", "stopping", "clear", "restart", "resolve",
            "apply", "install", "shutdown", "cancel", "reap"}

LEMMA CallUpdates ==
  ASSUME calls \in [Clients -> CallType], NEW c \in Clients
  PROVE  /\ IdleCall \in CallType
         /\ [calls EXCEPT ![c] = IdleCall] \in [Clients -> CallType]
         /\ \A pc \in CallPCs : [calls EXCEPT ![c].pc = pc] \in [Clients -> CallType]
         /\ \A pc \in CallPCs, w \in Workers \cup {NoWorker} :
              [calls EXCEPT ![c].pc = pc, ![c].proc = w] \in [Clients -> CallType]
         /\ \A pc \in CallPCs, found \in Binary :
              [calls EXCEPT ![c].pc = pc, ![c].found = found] \in [Clients -> CallType]
         /\ \A op \in Operation, pc \in CallPCs :
              [IdleCall EXCEPT !.op = op, !.pc = pc] \in CallType
<1>1. IdleCall \in CallType
  BY DEF IdleCall, CallType, Binary
<1>2. \A op \in Operation, pc \in CallPCs : [IdleCall EXCEPT !.op = op, !.pc = pc] \in CallType
  BY DEF IdleCall, CallType, Binary, CallPCs
<1>3. \A r \in CallType, pc \in CallPCs, w \in Workers \cup {NoWorker}, found \in Binary :
        /\ [r EXCEPT !.pc = pc] \in CallType
        /\ [r EXCEPT !.pc = pc, !.proc = w] \in CallType
        /\ [r EXCEPT !.pc = pc, !.found = found] \in CallType
  <2> SUFFICES ASSUME NEW r \in CallType, NEW pc \in CallPCs,
                      NEW w \in Workers \cup {NoWorker}, NEW found \in Binary
               PROVE  /\ [r EXCEPT !.pc = pc] \in CallType
                      /\ [r EXCEPT !.pc = pc, !.proc = w] \in CallType
                      /\ [r EXCEPT !.pc = pc, !.found = found] \in CallType
    OBVIOUS
  <2>1. [r EXCEPT !.pc = pc] \in CallType
    BY DEF CallType, CallPCs
  <2>2. [r EXCEPT !.pc = pc, !.proc = w] \in CallType
    BY DEF CallType, CallPCs
  <2>3. [r EXCEPT !.pc = pc, !.found = found] \in CallType
    BY DEF CallType, CallPCs
  <2> QED BY <2>1, <2>2, <2>3
<1>4. calls[c] \in CallType
  OBVIOUS
<1>5. \A r \in CallType : [calls EXCEPT ![c] = r] \in [Clients -> CallType]
  OBVIOUS
<1>6. /\ \A pc \in CallPCs : [calls EXCEPT ![c].pc = pc] \in [Clients -> CallType]
      /\ \A pc \in CallPCs, w \in Workers \cup {NoWorker} :
           [calls EXCEPT ![c].pc = pc, ![c].proc = w] \in [Clients -> CallType]
      /\ \A pc \in CallPCs, found \in Binary :
           [calls EXCEPT ![c].pc = pc, ![c].found = found] \in [Clients -> CallType]
  <2> HIDE DEF CallPCs
  <2>1. \A pc \in CallPCs : [calls EXCEPT ![c].pc = pc] \in [Clients -> CallType]
    <3>1. \A pc : [calls EXCEPT ![c].pc = pc] = [calls EXCEPT ![c] = [calls[c] EXCEPT !.pc = pc]]
      OBVIOUS
    <3>2. "missing" \in Binary
      BY DEF Binary
    <3> QED BY <1>3, <1>4, <1>5, <3>1, <3>2
  <2>2. ASSUME NEW pc \in CallPCs, NEW w \in Workers \cup {NoWorker}
        PROVE [calls EXCEPT ![c].pc = pc, ![c].proc = w] \in [Clients -> CallType]
    <3>1. [calls EXCEPT ![c].pc = pc, ![c].proc = w]
            = [calls EXCEPT ![c] = [calls[c] EXCEPT !.pc = pc, !.proc = w]]
      OBVIOUS
    <3>2. "missing" \in Binary
      BY DEF Binary
    <3> QED BY <1>3, <1>4, <1>5, <3>1, <3>2
  <2>3. ASSUME NEW pc \in CallPCs, NEW found \in Binary
        PROVE [calls EXCEPT ![c].pc = pc, ![c].found = found] \in [Clients -> CallType]
    <3>1. [calls EXCEPT ![c].pc = pc, ![c].found = found]
            = [calls EXCEPT ![c] = [calls[c] EXCEPT !.pc = pc, !.found = found]]
      OBVIOUS
    <3> QED BY <1>3, <1>4, <1>5, <3>1
  <2> QED BY <2>1, <2>2, <2>3
<1> QED BY <1>1, <1>2, <1>5, <1>6

-----------------------------------------------------------------------------
(* Types *)

LEMMA TypeInit == Init => TypeOK
<1> SUFFICES ASSUME Init PROVE TypeOK
  OBVIOUS
<1>1. sup \in SupType
  BY FreshType, SupUpdates DEF Init
<1>2. workers \in [Workers -> WorkerType]
  <2>1. sup.generation \in Nat
    BY <1>1 DEF SupType
  <2> QED BY <2>1, DoneType DEF Init
<1>3. calls \in [Clients -> CallType]
  BY DEF Init, IdleCall, CallType, Binary
<1> QED BY <1>1, <1>2, <1>3, SupervisorAssumption DEF Init, TypeOK

LEMMA TypeCall ==
  ASSUME TypeOK, NEW c \in Clients, BeginCall(c) \/ CallStep(c) PROVE TypeOK'
<1> USE DEF TypeOK
<1>0. sup.generation \in Nat /\ sup.current \in Workers \cup {NoWorker}
      /\ calls[c].proc \in Workers \cup {NoWorker} /\ calls[c].found \in Binary
  BY DEF SupType, CallType
<1>1. CASE BeginCall(c)
  <2>1. ASSUME NEW op \in Operation, NEW pc \in CallPCs, Begin(c, op, pc) PROVE TypeOK'
    <3>1. [IdleCall EXCEPT !.op = op, !.pc = pc] \in CallType
      BY CallUpdates
    <3>2. calls' \in [Clients -> CallType]
      BY <2>1, <3>1 DEF Begin
    <3>3. past' \in [calls : Nat, crashes : Nat, overtaken : SUBSET Nat]
      BY <2>1 DEF Begin
    <3> QED BY <2>1, <3>2, <3>3 DEF Begin
  <2>2. \A op \in {"start", "stop", "restart", "install"} : op \in Operation /\ op \in CallPCs
    BY DEF Operation, CallPCs
  <2>3. "shutdown" \in Operation /\ "shutdown" \in CallPCs
    BY DEF Operation, CallPCs
  <2> QED BY <1>1, <2>1, <2>2, <2>3 DEF BeginCall
<1>2. CASE StartAccepted(c)
  <2>1. sup' \in SupType /\ sup'.generation \in Nat
    BY <1>2, SupUpdates DEF StartAccepted, SupType
  <2>2. workers' \in [Workers -> WorkerType]
    BY <1>2, <2>1, DoneType DEF StartAccepted
  <2>3. calls' \in [Clients -> CallType]
    BY <1>2, CallUpdates DEF StartAccepted, Return
  <2> QED BY <1>2, <2>1, <2>2, <2>3 DEF StartAccepted
<1>3. CASE StartRefused(c) \/ StopRefused(c) \/ InstallRefused(c)
  BY <1>3, CallUpdates DEF StartRefused, StopRefused, InstallRefused, Return
<1>4. CASE StopAccepted(c)
  <2>1. "stopping" \in CallPCs /\ Handle(sup.current) \in Workers \cup {NoWorker}
    BY <1>0, HandleType DEF CallPCs
  <2>2. calls' \in [Clients -> CallType]
    BY <1>4, <2>1, CallUpdates DEF StopAccepted
  <2>3. sup' \in SupType
    BY <1>4, SupUpdates DEF StopAccepted
  <2>4. workers' \in [Workers -> WorkerType]
    BY <1>4, WorkersType DEF StopAccepted
  <2> QED BY <1>4, <2>2, <2>3, <2>4 DEF StopAccepted
<1>5. CASE StopReturns(c)
  <2>1. "clear" \in CallPCs /\ NoWorker \in Workers \cup {NoWorker}
    BY DEF CallPCs
  <2>2. calls' \in [Clients -> CallType]
    BY <1>5, <2>1, CallUpdates DEF StopReturns
  <2> QED BY <1>5, <2>2 DEF StopReturns
<1>6. CASE ClearStopped(c)
  <2>1. calls' = [calls EXCEPT ![c].pc = "resolve"] \/ calls' = [calls EXCEPT ![c] = IdleCall]
    BY <1>6 DEF ClearStopped
  <2> QED BY <1>6, <2>1, SupUpdates, CallUpdates, OvertakeType DEF ClearStopped, CallPCs
<1>7. CASE CheckRunning(c)
  BY <1>7, CallUpdates DEF CheckRunning, CallPCs
<1>8. CASE Resolve(c)
  <2>1. PICK found \in Resolutions(FALSE) :
          calls' = [calls EXCEPT ![c].pc = "apply", ![c].found = found]
    BY <1>8 DEF Resolve
  <2>2. found \in Binary
    <3>1. Resolutions(FALSE) \subseteq Binary
      BY ResolvedType
    <3> QED BY <3>1
  <2>3. "apply" \in CallPCs
    BY DEF CallPCs
  <2>4. calls' \in [Clients -> CallType]
    BY <2>1, <2>2, <2>3, CallUpdates
  <2> QED BY <1>8, <2>4 DEF Resolve
<1>9. CASE ApplyResolution(c)
  <2>1. sup' \in SupType
    BY <1>0, <1>9, SupUpdates DEF ApplyResolution
  <2>2. "start" \in CallPCs
    BY DEF CallPCs
  <2>3. calls' \in [Clients -> CallType]
    BY <1>9, <2>2, CallUpdates DEF ApplyResolution
  <2> QED BY <1>9, <2>1, <2>3 DEF ApplyResolution
<1>10. CASE InstallAccepted(c)
  <2>1. sup' \in SupType
    BY <1>10 DEF InstallAccepted, SupType, Busy
  <2>2. workers' \in [Workers -> WorkerType]
    BY <1>10, DoneType DEF InstallAccepted
  <2>3. calls' \in [Clients -> CallType]
    BY <1>10, CallUpdates DEF InstallAccepted, Return
  <2> QED BY <1>10, <2>1, <2>2, <2>3 DEF InstallAccepted
<1>11. CASE ShutDown(c)
  <2>1. sup' \in SupType
    <3>1. sup.generation + 1 \in Nat
      BY <1>0
    <3> QED BY <1>11, <3>1 DEF ShutDown, SupType
  <2>2. "cancel" \in CallPCs /\ Handle(sup.current) \in Workers \cup {NoWorker}
    BY <1>0, HandleType DEF CallPCs
  <2>3. calls' \in [Clients -> CallType]
    BY <1>11, <2>2, CallUpdates DEF ShutDown
  <2> QED BY <1>11, <2>1, <2>3 DEF ShutDown
<1>12. CASE Cancel(c)
  BY <1>12, WorkersType, CallUpdates DEF Cancel, CallPCs
<1>13. CASE Drain(c)
  BY <1>13, CallUpdates DEF Drain, Return
<1> QED
  BY <1>1, <1>2, <1>3, <1>4, <1>5, <1>6, <1>7, <1>8, <1>9, <1>10, <1>11, <1>12, <1>13
  DEF CallStep

LEMMA TypeLaunch ==
  ASSUME TypeOK, NEW w \in Workers,
         \/ LaunchFails(w) \/ CheckPorts(w) \/ Spawn(w) \/ Attach(w) \/ Answered(w)
         \/ NotAnswered(w) \/ BecomeReady(w) \/ Discard(w) \/ Abort(w)
  PROVE  TypeOK'
<1> USE DEF TypeOK
<1>0. \A pc \in {"spawn", "attach", "await", "discard", "answered", "abort", "watch", "aborted"} :
        pc \in PCs
  BY DEF PCs, Launching, Retrying
<1>1. CASE LaunchFails(w)
  BY <1>1, SupUpdates, WorkersType DEF LaunchFails, FailStart, Finish
<1>2. CASE CheckPorts(w) \/ Answered(w)
  BY <1>0, <1>2, WorkersType DEF CheckPorts, Answered, Move
<1>3. CASE Spawn(w)
  <2>1. [workers[w] EXCEPT !.pc = "attach", !.proc = "running"] \in WorkerType
    BY DEF WorkerType, Launching
  <2> QED BY <1>3, <2>1 DEF Spawn
<1>4. CASE Attach(w)
  <2>1. [sup EXCEPT !.current = w] \in SupType
    BY DEF SupType
  <2> QED BY <1>0, <1>4, <2>1, WorkersType DEF Attach, Move, Superseded
<1>5. CASE NotAnswered(w)
  <2>1. past' \in [calls : Nat, crashes : Nat, overtaken : SUBSET Nat]
    BY <1>5 DEF NotAnswered
  <2>2. workers' \in [Workers -> WorkerType]
    BY <1>0, <1>5, WorkersType DEF NotAnswered
  <2> QED BY <1>5, <2>1, <2>2 DEF NotAnswered
<1>6. CASE BecomeReady(w)
  <2>1. [sup EXCEPT !.state = "ready"] \in SupType
    BY DEF SupType, Busy
  <2>2. [workers EXCEPT ![w].pc = "watch", ![w].polling = TRUE] \in [Workers -> WorkerType]
    BY <1>0, WorkersMove
  <2>3. workers' \in [Workers -> WorkerType]
    BY <1>0, <1>6, <2>2, WorkersType DEF BecomeReady, Superseded
  <2>4. sup' \in SupType
    BY <1>6, <2>1 DEF BecomeReady, Superseded
  <2> QED BY <1>6, <2>3, <2>4 DEF BecomeReady
<1>7. CASE Discard(w)
  BY <1>7, WorkersType DEF Discard, Finish
<1>8. CASE Abort(w)
  BY <1>0, <1>8, SupUpdates, WorkersType DEF Abort, FailStart, Move
<1> QED BY <1>1, <1>2, <1>3, <1>4, <1>5, <1>6, <1>7, <1>8

LEMMA TypeWatch ==
  ASSUME TypeOK, NEW w \in Workers,
         \/ WatchExit(w) \/ PollIngest(w) \/ UpdateIngest(w) \/ StableRun(w) \/ PollEnds(w)
         \/ TerminatedExit(w) \/ SpontaneousExit(w)
  PROVE  TypeOK'
<1> USE DEF TypeOK
<1>1. CASE WatchExit(w)
  <2>1. sup' \in SupType
    BY <1>1, SupUpdates DEF WatchExit
  <2>2. "crashed" \in PCs
    BY DEF PCs, Retrying
  <2>3. workers' \in [Workers -> WorkerType]
    BY <1>1, <2>2, WorkersType DEF WatchExit, Finish, Move
  <2> QED BY <1>1, <2>1, <2>3 DEF WatchExit
<1>2. CASE PollIngest(w)
  <2>1. PICK read \in {"none", "idle", "receiving"} :
          workers' = [workers EXCEPT ![w].answer = read]
    BY <1>2 DEF PollIngest
  <2>2. [workers[w] EXCEPT !.answer = read] \in WorkerType
    BY WorkerUpdates
  <2>3. workers' \in [Workers -> WorkerType]
    BY <2>1, <2>2
  <2> QED BY <1>2, <2>3 DEF PollIngest
<1>3. CASE UpdateIngest(w)
  <2>1. workers[w].answer \in {"idle", "receiving"}
    BY <1>3 DEF UpdateIngest, WorkerType
  <2>2. sup' \in SupType
    BY <1>3, <2>1 DEF UpdateIngest, SupType
  <2> QED BY <1>3, <2>2, WorkerUpdates DEF UpdateIngest
<1>4. CASE StableRun(w)
  <2>1. sup' \in SupType
    <3>1. MinBackoff \in MinBackoff .. MaxBackoff /\ 0 \in 0 .. MaxRestarts
      BY SupervisorAssumption
    <3> QED BY <1>4, <3>1 DEF StableRun, SupType
  <2> QED BY <1>4, <2>1 DEF StableRun
<1>5. CASE PollEnds(w)
  BY <1>5, WorkerUpdates DEF PollEnds
<1>6. CASE /\ Exit(w) /\ UNCHANGED <<sup, binary, lifecycle>>
           /\ past' \in [calls : Nat, crashes : Nat, overtaken : SUBSET Nat]
  <2>1. workers' \in [Workers -> WorkerType]
    BY <1>6, WorkerUpdates DEF Exit
  <2>2. calls' \in [Clients -> CallType]
    BY <1>6 DEF Exit, CallType
  <2> QED BY <1>6, <2>1, <2>2
<1> QED BY <1>1, <1>2, <1>3, <1>4, <1>5, <1>6 DEF TerminatedExit, SpontaneousExit

LEMMA TypeRetry ==
  ASSUME TypeOK, NEW w \in Workers,
         \/ RestartAbandoned(w) \/ ScheduleRestart(w) \/ BackoffElapses(w) \/ ResolveAgain(w)
         \/ ApplyAgain(w) \/ StartAgain(w)
  PROVE  TypeOK'
<1> USE DEF TypeOK
<1>0. \A pc \in {"backoff", "refresh", "apply", "finish", "restart"} : pc \in PCs
  BY DEF PCs, Retrying, Installing
<1>1. CASE RestartAbandoned(w)
  BY <1>1, WorkersType DEF RestartAbandoned, Finish
<1>2. CASE ScheduleRestart(w)
  <2>1. PICK kept \in 0 .. sup.restarts :
          IF kept >= MaxRestarts
          THEN sup' = [sup EXCEPT !.state = "error", !.restarts = kept] /\ Finish(w)
          ELSE /\ sup' = [sup EXCEPT !.restarts = kept + 1, !.backoff = Doubled(@)]
               /\ Move(w, "backoff")
    BY <1>2 DEF ScheduleRestart
  <2>2. sup.restarts \in 0 .. MaxRestarts /\ sup.backoff \in MinBackoff .. MaxBackoff
    BY DEF SupType
  <2>3. Doubled(sup.backoff) \in MinBackoff .. MaxBackoff
    BY <2>2, SupervisorAssumption DEF Doubled
  <2>4. sup' \in SupType
    <3>1. CASE kept >= MaxRestarts
      <4>1. kept \in 0 .. MaxRestarts
        BY <2>2, SupervisorAssumption
      <4> QED BY <2>1, <3>1, <4>1 DEF SupType
    <3>2. CASE ~(kept >= MaxRestarts)
      <4>1. kept + 1 \in 0 .. MaxRestarts
        BY <2>2, <3>2, SupervisorAssumption
      <4> QED BY <2>1, <2>3, <3>2, <4>1 DEF SupType
    <3> QED BY <3>1, <3>2
  <2>5. workers' \in [Workers -> WorkerType]
    BY <1>0, <2>1, WorkersType DEF Finish, Move
  <2> QED BY <1>2, <2>4, <2>5 DEF ScheduleRestart
<1>3. CASE BackoffElapses(w)
  BY <1>0, <1>3, WorkersType DEF BackoffElapses, Move
<1>4. CASE ResolveAgain(w)
  <2>1. PICK found \in Resolutions(Cancelled) :
          workers' = [workers EXCEPT
            ![w].pc = IF @ = "refresh" THEN "apply" ELSE "finish", ![w].found = found]
    BY <1>4 DEF ResolveAgain
  <2>2. found \in Binary
    <3>1. Cancelled \in BOOLEAN
      BY DEF Cancelled
    <3>2. Resolutions(Cancelled) \subseteq Binary
      BY <3>1, ResolvedType
    <3> QED BY <3>2
  <2>3. \A pc \in PCs : [[workers[w] EXCEPT !.pc = pc] EXCEPT !.found = found] \in WorkerType
    BY <2>2, WorkerUpdates
  <2>4. PICK pc \in PCs : workers' = [workers EXCEPT ![w] = [[workers[w] EXCEPT !.pc = pc]
                                                                EXCEPT !.found = found]]
    BY <1>0, <2>1
  <2>5. workers' \in [Workers -> WorkerType]
    BY <2>3, <2>4
  <2> QED BY <1>4, <2>5 DEF ResolveAgain
<1>5. CASE ApplyAgain(w)
  <2>1. workers[w].found \in Binary
    BY DEF WorkerType
  <2>2. [workers EXCEPT ![w].pc = "restart", ![w].found = "missing"] \in [Workers -> WorkerType]
    BY WorkersMove DEF PCs, Retrying
  <2> QED BY <1>5, <2>1, <2>2, SupUpdates DEF ApplyAgain
<1>6. CASE StartAgain(w)
  <2>1. sup' \in SupType
    BY <1>6, SupUpdates DEF StartAgain
  <2>2. sup'.generation \in Nat
    BY <2>1 DEF SupType
  <2>3. workers' \in [Workers -> WorkerType]
    <3>1. Launch(sup'.generation) \in WorkerType
      BY <2>2, DoneType
    <3>2. [workers EXCEPT ![w] = Ended(@)] \in [Workers -> WorkerType]
      BY WorkersType
    <3>3. ASSUME NEW v \in Workers
          PROVE  /\ [workers EXCEPT ![w] = Ended(@), ![v] = Launch(sup'.generation)]
                       \in [Workers -> WorkerType]
                 /\ [workers EXCEPT ![v] = Launch(sup'.generation)] \in [Workers -> WorkerType]
      BY <3>1, <3>2
    <3>4. \/ \E v \in Workers :
               workers' = [workers EXCEPT ![w] = Ended(@), ![v] = Launch(sup'.generation)]
          \/ workers' = [workers EXCEPT ![w] = Launch(sup'.generation)]
          \/ workers' = [workers EXCEPT ![w] = Ended(@)]
      BY <1>6 DEF StartAgain, Finish
    <3> QED BY <3>2, <3>3, <3>4
  <2> QED BY <1>6, <2>1, <2>3 DEF StartAgain
<1> QED BY <1>1, <1>2, <1>3, <1>4, <1>5, <1>6

LEMMA TypeInstall ==
  ASSUME TypeOK, NEW w \in Workers,
         InstallFails(w) \/ MoveAside(w) \/ Publish(w) \/ FinishInstall(w)
  PROVE  TypeOK'
<1> USE DEF TypeOK
<1>0. workers[w].found \in Binary
  BY DEF WorkerType
<1>1. CASE InstallFails(w)
  <2>1. sup' \in SupType
    BY <1>1 DEF InstallFails, SupType
  <2> QED BY <1>0, <1>1, <2>1, WorkersType, OvertakeType DEF InstallFails, Finish
<1>2. CASE MoveAside(w)
  <2>1. workers' \in [Workers -> WorkerType]
    <3>1. [[workers[w] EXCEPT !.pc = "publish"] EXCEPT !.found = binary] \in WorkerType
      BY WorkerUpdates DEF PCs, Installing
    <3>2. workers' = [workers EXCEPT ![w] = [[workers[w] EXCEPT !.pc = "publish"]
                                               EXCEPT !.found = binary]]
      BY <1>2 DEF MoveAside
    <3> QED BY <3>1, <3>2
  <2> QED BY <1>2, <2>1 DEF MoveAside, Binary
<1>3. CASE Publish(w)
  <2>1. workers' \in [Workers -> WorkerType]
    <3>1. [[workers[w] EXCEPT !.pc = "installed"] EXCEPT !.found = "missing"] \in WorkerType
      BY WorkerUpdates DEF PCs, Installing, Binary
    <3>2. workers' = [workers EXCEPT ![w] = [[workers[w] EXCEPT !.pc = "installed"]
                                               EXCEPT !.found = "missing"]]
      BY <1>3 DEF Publish
    <3> QED BY <3>1, <3>2
  <2> QED BY <1>3, <2>1 DEF Publish, Binary
<1>4. CASE FinishInstall(w)
  <2>1. Applied(sup, workers[w].found) \in SupType
    BY <1>0, SupUpdates
  <2>2. sup' \in SupType
    BY <1>4, <2>1 DEF FinishInstall, SupType
  <2>3. [workers EXCEPT ![w].pc = "autostart", ![w].found = "missing"] \in [Workers -> WorkerType]
    BY WorkersMove DEF PCs, Installing
  <2>4. workers' \in [Workers -> WorkerType]
    <3>1. [workers EXCEPT ![w] = Ended(@)] \in [Workers -> WorkerType]
      BY WorkersType
    <3> QED BY <1>4, <2>3, <3>1 DEF FinishInstall, Finish
  <2> QED BY <1>4, <2>2, <2>4, OvertakeType DEF FinishInstall
<1> QED BY <1>1, <1>2, <1>3, <1>4

LEMMA TypeStep == TypeOK /\ [Next]_vars => TypeOK'
<1> SUFFICES ASSUME TypeOK, [Next]_vars PROVE TypeOK'
  OBVIOUS
<1>1. CASE UNCHANGED vars
  BY <1>1 DEF vars, TypeOK
<1>2. CASE \E c \in Clients : BeginCall(c) \/ CallStep(c)
  BY <1>2, TypeCall
<1>3. CASE \E w \in Workers : WorkerStep(w) \/ TerminatedExit(w) \/ Environment(w)
  BY <1>3, TypeLaunch, TypeWatch, TypeRetry, TypeInstall DEF WorkerStep, Environment
<1> QED BY <1>1, <1>2, <1>3 DEF Next

\* The record keeps its shape, and the restart policy its bounds
THEOREM TypeCorrect == Spec => []TypeOK
  BY TypeInit, TypeStep, PTL DEF Spec

-----------------------------------------------------------------------------
(* One generation at a time *)

\* Whether the goroutines a record stands for still run
Runs(r) == r.pc # "done" \/ r.polling

\* A step that changes old to new starts nothing
Keeps(new, old) == Runs(new) => Runs(old) /\ new.generation = old.generation

\* The inductive invariant: nothing that runs is newer than the record
GenerationInv ==
  /\ TypeOK
  /\ \A w \in Workers : Runs(workers[w]) => workers[w].generation <= sup.generation
  /\ GenerationIsExclusive

\* A step starts nothing and may retire all that runs, ...
Retires == /\ sup'.generation \in {sup.generation, sup.generation + 1}
           /\ \A w \in Workers : Keeps(workers'[w], workers[w])

\* ... or starts one chain: a launch for a generation of its own, ...
Launches == /\ sup'.generation = sup.generation + 1
            /\ \E v \in Workers :
                 /\ workers'[v].generation = sup'.generation
                 /\ \A w \in Workers \ {v} : Keeps(workers'[w], workers[w])

\* ... or an installation, which has none
Installs == /\ sup'.generation = sup.generation
            /\ \E v \in Workers :
                 /\ workers'[v].generation = 0
                 /\ \A w \in Workers \ {v} : Keeps(workers'[w], workers[w])

LEMMA ExclusionKept ==
  ASSUME GenerationInv, TypeOK', Retires \/ Launches \/ Installs
  PROVE  GenerationInv'
<1>0. /\ sup.generation \in Nat /\ sup'.generation \in Nat
      /\ \A w \in Workers : workers[w].generation \in Nat /\ workers'[w].generation \in Nat
  BY DEF GenerationInv, TypeOK, SupType, WorkerType
<1>1. \A w \in Workers : Runs(workers[w]) => workers[w].generation <= sup.generation
  BY DEF GenerationInv
<1>2. sup.generation # 0 =>
        \A v, w \in Workers : /\ Runs(workers[v]) /\ workers[v].generation = sup.generation
                              /\ Runs(workers[w]) /\ workers[w].generation = sup.generation
                              => v = w
  BY DEF GenerationInv, GenerationIsExclusive, Current, Active, Runs
<1>3. SUFFICES
        /\ \A w \in Workers : Runs(workers'[w]) => workers'[w].generation <= sup'.generation
        /\ sup'.generation # 0 =>
             \A v, w \in Workers : /\ Runs(workers'[v]) /\ workers'[v].generation = sup'.generation
                                   /\ Runs(workers'[w]) /\ workers'[w].generation = sup'.generation
                                   => v = w
  BY DEF GenerationInv, GenerationIsExclusive, Current, Active, Runs
<1>4. CASE Retires
  BY <1>0, <1>1, <1>2, <1>4 DEF Retires, Keeps
<1>5. CASE Launches
  BY <1>0, <1>1, <1>5 DEF Launches, Keeps
<1>6. CASE Installs
  BY <1>0, <1>1, <1>2, <1>6 DEF Installs, Keeps
<1> QED BY <1>4, <1>5, <1>6

\* The ways in which a step changes a worker without starting anything
LEMMA WorkerKept ==
  ASSUME NEW r \in WorkerType
  PROVE  /\ Keeps(r, r) /\ Keeps(Ended(r), r)
         /\ \A proc : Keeps([r EXCEPT !.proc = proc], r)
         /\ \A answer : Keeps([r EXCEPT !.answer = answer], r)
         /\ \A pc : r.pc # "done" =>
              /\ Keeps([r EXCEPT !.pc = pc], r)
              /\ \A proc : Keeps([r EXCEPT !.pc = pc, !.proc = proc], r)
              /\ \A found : Keeps([r EXCEPT !.pc = pc, !.found = found], r)
              /\ Keeps([r EXCEPT !.pc = pc, !.polling = TRUE], r)
         /\ Keeps([r EXCEPT !.polling = FALSE], r)
         /\ Keeps(Ended([r EXCEPT !.polling = FALSE]), r)
  BY DEF WorkerType, Keeps, Runs, Ended, Done

LEMMA GenerationOf ==
  ASSUME NEW s \in SupType
  PROVE  /\ Started(s).generation = s.generation + 1
         /\ Stopping(s).generation = s.generation + 1
         /\ Stopped(s).generation = s.generation
         /\ Failed(s).generation = s.generation /\ Crashed(s).generation = s.generation
         /\ \A found : /\ Applied(s, found).generation = s.generation
                       /\ Refreshed(s, found).generation = s.generation
  BY DEF SupType, Started, Stopping, Stopped, Failed, Crashed, Applied, Refreshed

\* Changing one worker, or signalling one process
LEMMA OthersKept ==
  ASSUME workers \in [Workers -> WorkerType]
  PROVE  /\ \A w \in Workers : Keeps(workers[w], workers[w])
         /\ \A x, w \in Workers : Keeps(Signalled(x)[w], workers[w])
  BY WorkerKept DEF Signalled

LEMMA CallGeneration ==
  ASSUME TypeOK, NEW c \in Clients, BeginCall(c) \/ CallStep(c)
  PROVE  Retires \/ Launches \/ Installs
<1>0. /\ sup \in SupType /\ workers \in [Workers -> WorkerType] /\ sup.generation \in Nat
      /\ \A w \in Workers : workers[w] \in WorkerType /\ Keeps(workers[w], workers[w])
  BY OthersKept DEF TypeOK, SupType
<1>1. \A x : \A w \in Workers : Keeps(Signalled(x)[w], workers[w])
  BY <1>0, WorkerKept DEF Signalled
<1>2. CASE StartAccepted(c)
  <2>1. sup'.generation = sup.generation + 1
    BY <1>0, <1>2, GenerationOf DEF StartAccepted
  <2>2. PICK v \in Workers : workers' = [workers EXCEPT ![v] = Launch(sup'.generation)]
    BY <1>2 DEF StartAccepted
  <2>3. workers'[v].generation = sup'.generation
    BY <1>0, <2>2 DEF Launch, Done
  <2>4. \A w \in Workers \ {v} : Keeps(workers'[w], workers[w])
    BY <1>0, <2>2
  <2> QED BY <2>1, <2>3, <2>4 DEF Launches
<1>3. CASE InstallAccepted(c)
  <2>1. sup'.generation = sup.generation
    BY <1>0, <1>3 DEF InstallAccepted, SupType
  <2>2. PICK v \in Workers : workers' = [workers EXCEPT ![v] = [Done EXCEPT !.pc = "install"]]
    BY <1>3 DEF InstallAccepted
  <2>3. workers'[v].generation = 0
    BY <1>0, <2>2 DEF Done
  <2>4. \A w \in Workers \ {v} : Keeps(workers'[w], workers[w])
    BY <1>0, <2>2
  <2> QED BY <2>1, <2>3, <2>4 DEF Installs
<1>4. CASE StopAccepted(c)
  <2>1. sup'.generation = sup.generation + 1
    BY <1>0, <1>4, GenerationOf DEF StopAccepted
  <2>2. \A w \in Workers : Keeps(workers'[w], workers[w])
    BY <1>1, <1>4 DEF StopAccepted
  <2> QED BY <2>1, <2>2 DEF Retires
<1>5. CASE Cancel(c)
  BY <1>1, <1>5 DEF Cancel, Retires
<1>6. CASE ShutDown(c)
  <2>1. sup'.generation = sup.generation + 1
    BY <1>0, <1>6 DEF ShutDown, SupType
  <2> QED BY <1>0, <1>6, <2>1 DEF ShutDown, Retires
<1>7. CASE ClearStopped(c) \/ ApplyResolution(c)
  <2>1. sup'.generation = sup.generation
    BY <1>0, <1>7, GenerationOf DEF ClearStopped, ApplyResolution
  <2>2. workers' = workers
    BY <1>7 DEF ClearStopped, ApplyResolution
  <2> QED BY <1>0, <2>1, <2>2 DEF Retires
<1>8. CASE UNCHANGED <<sup, workers>>
  BY <1>0, <1>8 DEF Retires
<1>9. \/ BeginCall(c) \/ StartRefused(c) \/ StopRefused(c) \/ StopReturns(c) \/ CheckRunning(c)
      \/ Resolve(c) \/ InstallRefused(c) \/ Drain(c)
      => UNCHANGED <<sup, workers>>
  BY DEF BeginCall, Begin, StartRefused, StopRefused, StopReturns, CheckRunning, Resolve,
         InstallRefused, Drain
<1> QED BY <1>2, <1>3, <1>4, <1>5, <1>6, <1>7, <1>8, <1>9 DEF CallStep

LEMMA WorkerGeneration ==
  ASSUME TypeOK, NEW w \in Workers, WorkerStep(w) \/ TerminatedExit(w) \/ Environment(w)
  PROVE  Retires \/ Launches
<1>0. /\ sup \in SupType /\ workers \in [Workers -> WorkerType] /\ sup.generation \in Nat
      /\ \A v \in Workers : workers[v] \in WorkerType /\ Keeps(workers[v], workers[v])
  BY OthersKept DEF TypeOK, SupType
<1>1. ASSUME NEW r, Keeps(r, workers[w]), workers' = [workers EXCEPT ![w] = r],
             sup'.generation = sup.generation
      PROVE  Retires
  BY <1>0, <1>1 DEF Retires
<1>2. \A pc : workers[w].pc # "done" =>
        \A v \in Workers : Keeps([Signalled(w) EXCEPT ![w].pc = pc][v], workers[v])
  <2>1. \A v \in Workers : Signalled(w)[v] \in WorkerType
    BY <1>0, WorkersType
  <2>2. Signalled(w)[w].pc = workers[w].pc
    BY <1>0 DEF Signalled, WorkerType
  <2> QED BY <1>0, <2>1, <2>2, WorkerKept, OthersKept
       DEF Keeps, Runs, Signalled, WorkerType
<1>3. CASE Finish(w) /\ sup'.generation = sup.generation
  BY <1>0, <1>1, <1>3, WorkerKept DEF Finish
<1>4. ASSUME NEW pc, Move(w, pc), workers[w].pc # "done", sup'.generation = sup.generation
      PROVE  Retires
  BY <1>0, <1>1, <1>4, WorkerKept DEF Move
<1>5. sup' = sup => sup'.generation = sup.generation
  OBVIOUS
<1>6. FailStart(w) => sup'.generation = sup.generation
  BY <1>0, GenerationOf DEF FailStart
<1>7. CASE LaunchFails(w) \/ CheckPorts(w) \/ Answered(w) \/ Discard(w) \/ Abort(w)
  BY <1>3, <1>4, <1>5, <1>6, <1>7 DEF LaunchFails, CheckPorts, Answered, Discard, Abort
<1>8. CASE Spawn(w)
  <2>1. workers' = [workers EXCEPT ![w] = [workers[w] EXCEPT !.pc = "attach", !.proc = "running"]]
    BY <1>0, <1>8 DEF Spawn
  <2>2. Keeps([workers[w] EXCEPT !.pc = "attach", !.proc = "running"], workers[w])
    BY <1>0, <1>8, WorkerKept DEF Spawn
  <2> QED BY <1>1, <1>8, <2>1, <2>2 DEF Spawn
<1>9. ASSUME NEW pc, workers[w].pc # "done", workers' = [Signalled(w) EXCEPT ![w].pc = pc],
             sup'.generation = sup.generation
      PROVE  Retires
  BY <1>2, <1>9 DEF Retires
<1>10. CASE NotAnswered(w)
  BY <1>5, <1>9, <1>10 DEF NotAnswered
<1>11. CASE Attach(w)
  <2>1. [sup EXCEPT !.current = w].generation = sup.generation
    BY <1>0 DEF SupType
  <2> QED BY <1>4, <1>5, <1>9, <1>11, <2>1 DEF Attach, Superseded
<1>12. CASE BecomeReady(w)
  <2>1. [sup EXCEPT !.state = "ready"].generation = sup.generation
    BY <1>0 DEF SupType
  <2>2. CASE Superseded(w)
    BY <1>5, <1>9, <1>12, <2>2 DEF BecomeReady, Superseded
  <2>3. CASE sup' = [sup EXCEPT !.state = "ready"]
             /\ workers' = [workers EXCEPT ![w].pc = "watch", ![w].polling = TRUE]
    <3>1. workers' = [workers EXCEPT ![w] = [workers[w] EXCEPT !.pc = "watch", !.polling = TRUE]]
      BY <1>0, <2>3
    <3>2. Keeps([workers[w] EXCEPT !.pc = "watch", !.polling = TRUE], workers[w])
      BY <1>0, <1>12, WorkerKept DEF BecomeReady
    <3> QED BY <1>1, <2>1, <2>3, <3>1, <3>2
  <2> QED BY <1>12, <2>2, <2>3 DEF BecomeReady
<1>13. CASE WatchExit(w)
  <2>1. sup'.generation = sup.generation
    BY <1>0, <1>13, GenerationOf DEF WatchExit
  <2>2. Finish(w) \/ Move(w, "crashed")
    BY <1>13 DEF WatchExit
  <2> QED BY <1>3, <1>4, <1>13, <2>1, <2>2 DEF WatchExit
<1>14. CASE PollIngest(w) \/ UpdateIngest(w)
  <2>1. sup'.generation = sup.generation
    BY <1>0, <1>14 DEF PollIngest, UpdateIngest, SupType
  <2>2. PICK answer : workers' = [workers EXCEPT ![w].answer = answer]
    BY <1>14 DEF PollIngest, UpdateIngest
  <2>3. workers' = [workers EXCEPT ![w] = [workers[w] EXCEPT !.answer = answer]]
    BY <1>0, <2>2
  <2>4. Keeps([workers[w] EXCEPT !.answer = answer], workers[w])
    BY <1>0, WorkerKept
  <2> QED BY <1>1, <2>1, <2>3, <2>4
<1>15. CASE StableRun(w)
  <2>1. sup'.generation = sup.generation /\ workers' = workers
    BY <1>0, <1>15 DEF StableRun, SupType
  <2> QED BY <1>0, <2>1 DEF Retires
<1>16. CASE PollEnds(w)
  <2>1. PICK r : Keeps(r, workers[w]) /\ workers' = [workers EXCEPT ![w] = r]
    BY <1>0, <1>16, WorkerKept DEF PollEnds
  <2> QED BY <1>1, <1>16, <2>1 DEF PollEnds
<1>17. CASE Exit(w) /\ UNCHANGED sup
  <2>1. workers' = [workers EXCEPT ![w] = [workers[w] EXCEPT !.proc = "none"]]
    BY <1>0, <1>17 DEF Exit
  <2>2. Keeps([workers[w] EXCEPT !.proc = "none"], workers[w])
    BY <1>0, WorkerKept
  <2> QED BY <1>1, <1>17, <2>1, <2>2
<1>18. CASE RestartAbandoned(w) \/ BackoffElapses(w)
  BY <1>3, <1>4, <1>5, <1>18 DEF RestartAbandoned, BackoffElapses
<1>19. CASE ScheduleRestart(w)
  <2>1. sup'.generation = sup.generation
    BY <1>0, <1>19 DEF ScheduleRestart, SupType
  <2>2. Finish(w) \/ Move(w, "backoff")
    BY <1>19 DEF ScheduleRestart
  <2> QED BY <1>3, <1>4, <1>19, <2>1, <2>2 DEF ScheduleRestart
<1>20. ASSUME NEW pc, NEW found, workers[w].pc # "done", sup'.generation = sup.generation,
              workers' = [workers EXCEPT ![w].pc = pc, ![w].found = found]
       PROVE  Retires
  <2>1. workers' = [workers EXCEPT ![w] = [workers[w] EXCEPT !.pc = pc, !.found = found]]
    BY <1>0, <1>20
  <2>2. Keeps([workers[w] EXCEPT !.pc = pc, !.found = found], workers[w])
    BY <1>0, <1>20, WorkerKept
  <2> QED BY <1>1, <1>20, <2>1, <2>2
<1>21. CASE ResolveAgain(w)
  <2>1. PICK found \in Resolutions(Cancelled) :
          workers' = [workers EXCEPT
            ![w].pc = IF @ = "refresh" THEN "apply" ELSE "finish", ![w].found = found]
    BY <1>21 DEF ResolveAgain
  <2> QED BY <1>5, <1>20, <1>21, <2>1 DEF ResolveAgain
<1>22. CASE MoveAside(w) \/ Publish(w)
  BY <1>5, <1>20, <1>22 DEF MoveAside, Publish
<1>23. CASE ApplyAgain(w)
  <2>1. sup'.generation = sup.generation
    BY <1>0, <1>23, GenerationOf DEF ApplyAgain
  <2> QED BY <1>20, <1>23, <2>1 DEF ApplyAgain
<1>24. CASE InstallFails(w)
  <2>1. sup'.generation = sup.generation
    BY <1>0, <1>24 DEF InstallFails, SupType
  <2> QED BY <1>3, <1>24, <2>1 DEF InstallFails
<1>25. CASE FinishInstall(w)
  <2>1. sup'.generation = sup.generation
    <3>1. workers[w].found \in Binary
      BY <1>0 DEF WorkerType
    <3>2. /\ Applied(sup, workers[w].found) \in SupType
          /\ Applied(sup, workers[w].found).generation = sup.generation
      BY <1>0, <3>1, SupUpdates, GenerationOf
    <3>3. \A s \in SupType : [s EXCEPT !.installing = FALSE].generation = s.generation
      BY DEF SupType
    <3> QED BY <1>25, <3>2, <3>3 DEF FinishInstall
  <2> QED BY <1>3, <1>20, <1>25, <2>1 DEF FinishInstall
<1>26. CASE StartAgain(w)
  <2>1. CASE ~CanStart /\ Finish(w) /\ UNCHANGED sup
    BY <1>3, <1>5, <2>1
  <2>2. CASE /\ sup' = Started(sup)
             /\ IF Alive(w) \/ workers[w].polling
                  THEN \E v \in Workers :
                         /\ Allocatable(v)
                         /\ workers' = [workers EXCEPT ![w] = Ended(@),
                                                       ![v] = Launch(sup'.generation)]
                  ELSE workers' = [workers EXCEPT ![w] = Launch(sup'.generation)]
    <3>1. sup'.generation = sup.generation + 1
      BY <1>0, <2>2, GenerationOf
    <3>2. Launch(sup'.generation).generation = sup'.generation
      BY DEF Launch, Done
    <3>3. PICK v \in Workers :
            \/ workers' = [workers EXCEPT ![w] = Ended(@), ![v] = Launch(sup'.generation)]
            \/ v = w /\ workers' = [workers EXCEPT ![w] = Launch(sup'.generation)]
      BY <2>2
    <3>4. workers'[v].generation = sup'.generation
      BY <1>0, <3>2, <3>3
    <3>5. \A u \in Workers \ {v} : Keeps(workers'[u], workers[u])
      BY <1>0, <3>3, WorkerKept
    <3> QED BY <3>1, <3>4, <3>5 DEF Launches
  <2> QED BY <1>26, <2>1, <2>2 DEF StartAgain
<1> QED
  BY <1>7, <1>8, <1>10, <1>11, <1>12, <1>13, <1>14, <1>15, <1>16, <1>17, <1>18, <1>19, <1>21,
     <1>22, <1>23, <1>24, <1>25, <1>26
  DEF WorkerStep, Environment, TerminatedExit, SpontaneousExit

LEMMA GenerationInit == Init => GenerationInv
<1> SUFFICES ASSUME Init PROVE GenerationInv
  OBVIOUS
<1>1. TypeOK
  BY TypeInit
<1>2. Fresh.generation = 0 /\ Started(Fresh).generation = 1
  BY DEF Fresh, Applied, Started
<1>3. ~Runs(Done)
  BY DEF Runs, Done
<1>4. CASE sup = Fresh /\ workers = [w \in Workers |-> Done]
  BY <1>1, <1>2, <1>3, <1>4 DEF GenerationInv, GenerationIsExclusive
<1>5. CASE /\ sup = Started(Fresh)
           /\ \E starter \in Workers :
                workers = [w \in Workers |-> IF w = starter THEN Launch(sup.generation) ELSE Done]
  <2>1. PICK starter \in Workers :
          workers = [w \in Workers |-> IF w = starter THEN Launch(sup.generation) ELSE Done]
    BY <1>5
  <2>2. \A w \in Workers : Runs(workers[w]) => w = starter
    BY <1>3, <2>1
  <2>3. workers[starter].generation = 1 /\ sup.generation = 1
    BY <1>2, <1>5, <2>1 DEF Launch, Done
  <2> QED BY <1>1, <2>2, <2>3 DEF GenerationInv, GenerationIsExclusive, Current, Active, Runs
<1> QED BY <1>4, <1>5 DEF Init

LEMMA GenerationStep == GenerationInv /\ [Next]_vars => GenerationInv'
<1> SUFFICES ASSUME GenerationInv, [Next]_vars PROVE GenerationInv'
  OBVIOUS
<1>1. TypeOK /\ TypeOK'
  BY TypeStep DEF GenerationInv
<1>2. CASE UNCHANGED vars
  BY <1>2 DEF vars, GenerationInv, TypeOK, GenerationIsExclusive, Current, Active
<1>3. CASE Next
  <2>1. Retires \/ Launches \/ Installs
    BY <1>1, <1>3, CallGeneration, WorkerGeneration DEF Next
  <2> QED BY <1>1, <2>1, ExclusionKept
<1> QED BY <1>2, <1>3

\* Of the launches, watchers, pollers and pending restarts alive, at most one has
\* the record's generation, however calls, crashes and timers interleave
THEOREM GenerationExclusion == Spec => []GenerationIsExclusive
<1>1. GenerationInv => GenerationIsExclusive
  BY DEF GenerationInv
<1> QED BY <1>1, GenerationInit, GenerationStep, PTL DEF Spec

-----------------------------------------------------------------------------
(* The supervisor implements the ingest source *)

\* A step that reports a publisher does it while MediaMTX is ready
IngestReported ==
  sup'.ingest = "receiving" =>
    sup.ingest = "receiving" \/ (sup'.state = "ready" /\ sup.state = "ready")

LEMMA IngestOf ==
  ASSUME NEW s \in SupType
  PROVE  /\ Started(s).ingest = s.ingest /\ Stopping(s).ingest = s.ingest
         /\ Stopped(s).ingest = "idle" /\ Failed(s).ingest = "idle" /\ Crashed(s).ingest = "idle"
         /\ \A found : /\ Applied(s, found).ingest = s.ingest
                       /\ Refreshed(s, found).ingest = s.ingest
  BY DEF SupType, Started, Stopping, Stopped, Failed, Crashed, Applied, Refreshed

LEMMA ReportedInReady == ASSUME TypeOK, [Next]_vars PROVE IngestReported
<1>0. sup \in SupType
  BY DEF TypeOK
<1>1. CASE UNCHANGED sup
  BY <1>1 DEF IngestReported
<1>2. ASSUME NEW c \in Clients, BeginCall(c) \/ CallStep(c) PROVE IngestReported
  <2>1. CASE StartAccepted(c) \/ StopAccepted(c) \/ ClearStopped(c) \/ ApplyResolution(c)
    BY <1>0, <2>1, IngestOf
    DEF StartAccepted, StopAccepted, ClearStopped, ApplyResolution, IngestReported
  <2>2. CASE InstallAccepted(c) \/ ShutDown(c)
    BY <1>0, <2>2 DEF InstallAccepted, ShutDown, IngestReported, SupType
  <2>3. \/ BeginCall(c) \/ StartRefused(c) \/ StopRefused(c) \/ StopReturns(c) \/ CheckRunning(c)
        \/ Resolve(c) \/ InstallRefused(c) \/ Cancel(c) \/ Drain(c)
        => UNCHANGED sup
    BY DEF BeginCall, Begin, StartRefused, StopRefused, StopReturns, CheckRunning, Resolve,
           InstallRefused, Cancel, Drain
  <2> QED BY <1>1, <1>2, <2>1, <2>2, <2>3 DEF CallStep
<1>3. ASSUME NEW w \in Workers, WorkerStep(w) \/ TerminatedExit(w) \/ Environment(w)
      PROVE  IngestReported
  <2>1. CASE LaunchFails(w) \/ Abort(w)
    BY <1>0, <2>1, IngestOf DEF LaunchFails, Abort, FailStart, IngestReported
  <2>2. CASE Attach(w) \/ BecomeReady(w)
    BY <1>0, <2>2 DEF Attach, BecomeReady, Superseded, IngestReported, SupType
  <2>3. CASE WatchExit(w) \/ ApplyAgain(w) \/ StartAgain(w)
    BY <1>0, <2>3, IngestOf DEF WatchExit, ApplyAgain, StartAgain, IngestReported
  <2>4. CASE UpdateIngest(w)
    <3>1. CASE MayUpdate(w)
      BY <1>0, <2>4, <3>1 DEF UpdateIngest, MayUpdate, IngestReported, SupType
    <3>2. CASE ~MayUpdate(w)
      BY <1>0, <2>4, <3>2 DEF UpdateIngest, IngestReported, SupType
    <3> QED BY <3>1, <3>2
  <2>5. CASE StableRun(w) \/ ScheduleRestart(w) \/ InstallFails(w)
    BY <1>0, <2>5 DEF StableRun, ScheduleRestart, InstallFails, IngestReported, SupType
  <2>6. CASE FinishInstall(w)
    <3>1. workers[w].found \in Binary
      BY DEF TypeOK, WorkerType
    <3>2. /\ Applied(sup, workers[w].found) \in SupType
          /\ Applied(sup, workers[w].found).ingest = sup.ingest
      BY <1>0, <3>1, SupUpdates, IngestOf
    <3>3. \A s \in SupType : [s EXCEPT !.installing = FALSE].ingest = s.ingest
      BY DEF SupType
    <3> QED BY <2>6, <3>2, <3>3 DEF FinishInstall, IngestReported
  <2>7. \/ CheckPorts(w) \/ Spawn(w) \/ Answered(w) \/ NotAnswered(w) \/ Discard(w) \/ PollEnds(w)
        \/ RestartAbandoned(w) \/ BackoffElapses(w) \/ ResolveAgain(w) \/ MoveAside(w) \/ Publish(w)
        \/ TerminatedExit(w) \/ PollIngest(w) \/ SpontaneousExit(w)
        => UNCHANGED sup
    BY DEF CheckPorts, Spawn, Answered, NotAnswered, Discard, PollEnds, RestartAbandoned,
           BackoffElapses, ResolveAgain, MoveAside, Publish, TerminatedExit, PollIngest,
           SpontaneousExit
  <2> QED BY <1>1, <1>3, <2>1, <2>2, <2>3, <2>4, <2>5, <2>6, <2>7 DEF WorkerStep, Environment
<1> QED BY <1>1, <1>2, <1>3 DEF Next, vars

LEMMA IngestInit == Init => Ingest!Init
<1> SUFFICES ASSUME Init PROVE Ingest!Init
  OBVIOUS
<1>1. Fresh.ingest = "idle"
  BY DEF Fresh, Applied
<1>2. Started(Fresh).ingest = "idle"
  BY FreshType, IngestOf, <1>1
<1> QED BY <1>1, <1>2 DEF Init, Ingest!Init, Snapshot

LEMMA IngestStep == TypeOK /\ [Next]_vars => [Ingest!Next]_Snapshot
<1> SUFFICES ASSUME TypeOK, [Next]_vars PROVE [Ingest!Next]_Snapshot
  OBVIOUS
<1>1. IngestReported
  BY ReportedInReady
<1>2. sup.ingest \in {"idle", "receiving"}
  BY DEF TypeOK, SupType
<1>3. ~(Snapshot = "absent" /\ Snapshot' = "stopping")
  BY <1>1 DEF Snapshot, IngestReported
<1>4. /\ Snapshot \in {"absent", "receiving", "stopping"}
      /\ Snapshot' \in {"absent", "receiving", "stopping"}
  BY DEF Snapshot
<1> QED BY <1>3, <1>4 DEF Ingest!Next, Ingest!Lost, Ingest!Cleared, Ingest!Received

\* What the snapshots show of the ingest is what IngestSource allows: the branch
\* manager, checked against that source, is driven by nothing else
THEOREM SuppliesIngest == Spec => ImplementsIngestSource
<1>1. Init => Ingest!Init
  BY IngestInit
<1>2. TypeOK /\ [Next]_vars => [Ingest!Next]_Snapshot
  BY IngestStep
<1> QED BY <1>1, <1>2, TypeInit, TypeStep, PTL DEF Spec, ImplementsIngestSource, Ingest!Spec

-----------------------------------------------------------------------------
(* No process without a supervisor, unless a start was overtaken.  The       *)
(* invariant says what the record tells about the goroutines until a         *)
(* shutdown cancels them.                                                    *)

\* The latest start is at work and no write has overtaken it
Leads(w) == Current(w) /\ workers[w].generation \notin past.overtaken

\* Only an installation, and what follows it, has no generation
Unnumbered == Installing \cup {"done", "autostart"}
Numbered == \A w \in Workers : workers[w].pc \notin Unnumbered => workers[w].generation # 0

\* The stages in which the process may run
RunsInStage ==
  \A w \in Workers :
    workers[w].proc = "running" => workers[w].pc \in {"attach", "await", "answered", "watch"}

\* While the latest start is launched or watched, the state says so
StateTells ==
  \A w \in Workers : Leads(w) =>
    /\ workers[w].pc \in Launching => sup.state = "starting"
    /\ workers[w].pc = "watch" => sup.state = "ready"

\* A running process has been spawned a moment ago, or is the current one of a worker
\* of this generation, or is in the hands of the shutdown, or was overtaken
HeldBy(w) == \/ Current(w) /\ sup.current = w
             \/ \E c \in Clients : calls[c].pc = "cancel" /\ calls[c].proc = w
Held ==
  \A w \in Workers : workers[w].proc = "running" =>
    workers[w].pc = "attach" \/ HeldBy(w) \/ workers[w].generation \in past.overtaken

\* There is one shutdown
ShutdownPCs == {"shutdown", "cancel", "reap"}
OneShutdown ==
  /\ \A c, d \in Clients : calls[c].pc \in ShutdownPCs /\ calls[d].pc \in ShutdownPCs => c = d
  /\ \A c \in Clients : calls[c].pc = "shutdown" => lifecycle = "open"

Tells     == Numbered /\ RunsInStage /\ StateTells /\ Held
OrphanInv == OneShutdown /\ (~Cancelled => Tells)

\* What a step of worker w leaves alone
OthersAlone(w) ==
  /\ sup'.generation = sup.generation /\ lifecycle' = lifecycle
  /\ past.overtaken \subseteq past'.overtaken
  /\ \A v \in Workers \ {w} : workers'[v] = workers[v]
  /\ workers[w].pc \in Unnumbered => workers'[w].pc \in Unnumbered
  /\ \A c \in Clients : /\ calls'[c].pc = calls[c].pc
                        /\ calls'[c].proc # calls[c].proc =>
                              calls[c].proc = w /\ workers'[w].proc # "running"

\* The ways in which the step of a worker shows: in its own place and nowhere else, ...
Quiet(w) ==
  /\ sup.state \in {"starting", "ready"} => sup'.state = sup.state
  /\ sup'.current = sup.current
  /\ \/ workers'[w].pc = workers[w].pc
     \/ workers'[w].pc \in Launching /\ workers[w].pc \in Launching
     \/ workers'[w].pc \notin Launching \cup {"watch"}
  /\ workers'[w].proc = "running" =>
       \/ workers'[w].pc = "attach"
       \/ /\ workers[w].proc = "running"
          /\ \/ workers'[w].pc = workers[w].pc
             \/ workers[w].pc = "await" /\ workers'[w].pc = "answered"

\* ... or it publishes that its process is gone, ...
Drops(w) ==
  /\ Current(w) /\ workers[w].pc \in Launching \cup {"watch", "crashed", "aborted"}
  /\ workers'[w].pc \in {"done", "crashed", "aborted", "backoff"} /\ workers'[w].proc # "running"

\* ... that its process is the current one, ...
Attaches(w) ==
  /\ Current(w) /\ workers[w].pc = "attach" /\ workers'[w].pc = "await"
  /\ sup'.current = w /\ sup'.state = sup.state

\* ... that it is ready, ...
BecomesReady(w) ==
  /\ Current(w) /\ workers[w].pc = "answered" /\ workers'[w].pc = "watch"
  /\ workers'[w].proc = workers[w].proc
  /\ sup'.current = sup.current /\ sup'.state = "ready"

\* ... the end of an installation, which overtakes the latest start, ...
EndsInstall(w) ==
  /\ workers[w].pc \in Installing /\ workers'[w].pc \in {"done", "autostart"}
  /\ workers'[w].proc # "running" /\ sup'.current = sup.current
  /\ sup.generation # 0 => sup.generation \in past'.overtaken

WorkerEffects(w) == Quiet(w) \/ Drops(w) \/ Attaches(w) \/ BecomesReady(w) \/ EndsInstall(w)

\* ... or a start, which gives worker v a launch and may end worker w
Starts(w, v) ==
  /\ sup'.generation = sup.generation + 1 /\ sup'.state = "starting"
  /\ sup.state \notin {"starting", "ready"} /\ sup'.current = sup.current
  /\ lifecycle' = lifecycle /\ past' = past
  /\ workers'[v] = Launch(sup'.generation)
  /\ workers[w].proc # "running"
  /\ \A u \in Workers \ {v} : /\ Keeps(workers'[u], workers[u])
                              /\ workers'[u].proc = workers[u].proc
                              /\ u # w => workers'[u] = workers[u]
                              /\ u = w => workers'[u].pc = "done"
  /\ \A c \in Clients : calls[c].pc = "cancel" => calls'[c] = calls[c]

\* One worker changed: its stage, its stage and its process, or all of it at its end.
LEMMA OneWorker ==
  ASSUME workers \in [Workers -> WorkerType], NEW w \in Workers
  PROVE  /\ \A r : LET f == [workers EXCEPT ![w] = r]
                   IN f[w] = r /\ \A v \in Workers \ {w} : f[v] = workers[v]
         /\ \A pc : LET f == [workers EXCEPT ![w].pc = pc]
                    IN /\ f[w].pc = pc /\ f[w].proc = workers[w].proc
                       /\ \A v \in Workers \ {w} : f[v] = workers[v]
         /\ LET f == [workers EXCEPT ![w] = Ended(@)]
            IN /\ f[w].pc = "done" /\ f[w].proc = workers[w].proc
               /\ \A v \in Workers \ {w} : f[v] = workers[v]
<1>1. \A r : LET f == [workers EXCEPT ![w] = r]
             IN f[w] = r /\ \A v \in Workers \ {w} : f[v] = workers[v]
  OBVIOUS
<1>2. \A pc : /\ [workers[w] EXCEPT !.pc = pc].pc = pc
              /\ [workers[w] EXCEPT !.pc = pc].proc = workers[w].proc
  BY DEF WorkerType
<1>3. ASSUME NEW pc
      PROVE  LET f == [workers EXCEPT ![w].pc = pc]
             IN /\ f[w].pc = pc /\ f[w].proc = workers[w].proc
                /\ \A v \in Workers \ {w} : f[v] = workers[v]
  BY <1>2
<1>4. Ended(workers[w]).pc = "done" /\ Ended(workers[w]).proc = workers[w].proc
  BY DEF WorkerType, Ended, Done
<1>5. LET f == [workers EXCEPT ![w] = Ended(@)]
      IN /\ f[w].pc = "done" /\ f[w].proc = workers[w].proc
         /\ \A v \in Workers \ {w} : f[v] = workers[v]
  BY <1>4
<1> QED BY <1>1, <1>3, <1>5

\* What the updates of the record leave of it
LEMMA RecordOf ==
  ASSUME NEW s \in SupType
  PROVE  /\ Started(s).state = "starting" /\ Started(s).current = s.current
         /\ \A found \in Binary :
              /\ s.state \in Busy => Refreshed(s, found) = s
              /\ s.state \notin Busy => Refreshed(s, found).current = s.current
              /\ LET t == [Applied(s, found) EXCEPT !.installing = FALSE]
                 IN t.current = s.current /\ t.generation = s.generation
  BY DEF SupType, Started, Refreshed, Applied, Binary

\* Every step of a worker that starts nothing has one of these effects
LEMMA WorkerEffect ==
  ASSUME TypeOK, TypeOK', ~Cancelled, Tells, NEW w \in Workers,
         WorkerStep(w) \/ TerminatedExit(w) \/ Environment(w)
  PROVE  (OthersAlone(w) /\ WorkerEffects(w)) \/ \E v \in Workers : Starts(w, v)
<1> DEFINE Shown == OthersAlone(w) /\ WorkerEffects(w)
<1>0. /\ sup \in SupType /\ workers \in [Workers -> WorkerType] /\ calls \in [Clients -> CallType]
      /\ workers[w] \in WorkerType /\ workers[w].found \in Binary
      /\ past \in [calls : Nat, crashes : Nat, overtaken : SUBSET Nat]
  BY DEF TypeOK, WorkerType
<1>1. /\ \A pc \in Launching \cup Retrying \cup {"discard", "watch"} : pc \notin Unnumbered
      /\ \A pc \in Installing \cup {"done", "autostart"} : pc \in Unnumbered
  BY DEF Unnumbered, Launching, Retrying, Installing
<1>2. /\ workers[w].proc = "running" => workers[w].pc \in {"attach", "await", "answered", "watch"}
      /\ ~Cancelled
  BY DEF Tells, RunsInStage
<1>3. ASSUME sup'.generation = sup.generation, lifecycle' = lifecycle, calls' = calls,
             past.overtaken \subseteq past'.overtaken,
             \A v \in Workers \ {w} : workers'[v] = workers[v],
             workers[w].pc \notin Unnumbered \/ workers'[w].pc \in Unnumbered
      PROVE  OthersAlone(w)
  BY <1>3 DEF OthersAlone
<1>4. ASSUME NEW pc, Move(w, pc)
      PROVE  /\ workers'[w].pc = pc /\ workers'[w].proc = workers[w].proc
             /\ \A v \in Workers \ {w} : workers'[v] = workers[v]
  BY <1>0, <1>4, OneWorker DEF Move
<1>5. ASSUME NEW pc, workers' = [Signalled(w) EXCEPT ![w].pc = pc]
      PROVE  /\ workers'[w].pc = pc /\ workers'[w].proc # "running"
             /\ \A v \in Workers \ {w} : workers'[v] = workers[v]
  <2> DEFINE s == Signalled(w)
  <2>1. s \in [Workers -> WorkerType]
    BY <1>0, WorkersType
  <2>2. s[w].proc # "running" /\ \A v \in Workers \ {w} : s[v] = workers[v]
    BY <1>0 DEF Signalled, WorkerType
  <2>3. [s[w] EXCEPT !.pc = pc].pc = pc /\ [s[w] EXCEPT !.pc = pc].proc = s[w].proc
    BY <2>1 DEF WorkerType
  <2>4. workers' = [s EXCEPT ![w].pc = pc]
    BY <1>5
  <2> HIDE DEF s
  <2> QED BY <2>1, <2>2, <2>3, <2>4
<1>6. ASSUME Finish(w)
      PROVE  /\ workers'[w].pc = "done" /\ workers'[w].proc = workers[w].proc
             /\ \A v \in Workers \ {w} : workers'[v] = workers[v]
             /\ workers'[w].pc \in Unnumbered
  BY <1>0, <1>1, <1>6, OneWorker DEF Finish
<1>7. /\ Failed(sup).generation = sup.generation /\ Crashed(sup).generation = sup.generation
      /\ past' = past => past.overtaken \subseteq past'.overtaken
      /\ sup' = sup => sup'.generation = sup.generation
  BY <1>0, GenerationOf
\* A goroutine that ends and watches no process
<1>7a. ASSUME workers[w].pc \notin {"attach", "await", "answered", "watch"}, Finish(w), sup' = sup,
              lifecycle' = lifecycle, calls' = calls, past' = past
       PROVE  Shown
  <2>1. workers[w].proc # "running"
    BY <1>2, <1>7a
  <2> QED BY <1>3, <1>6, <1>7, <1>7a, <2>1 DEF Quiet, WorkerEffects, Launching
\* A launch that finds itself superseded
<1>7b. ASSUME Superseded(w), workers[w].pc \notin Unnumbered,
              lifecycle' = lifecycle, calls' = calls, past' = past
       PROVE  Shown
  <2>1. sup' = sup /\ workers' = [Signalled(w) EXCEPT ![w].pc = "discard"]
    BY <1>7b DEF Superseded
  <2>2. OthersAlone(w)
    BY <1>3, <1>5, <1>7, <1>7b, <2>1
  <2>3. Quiet(w)
    BY <1>5, <2>1 DEF Quiet, Launching
  <2> QED BY <2>2, <2>3 DEF WorkerEffects
<1>8. ASSUME LaunchFails(w) PROVE Shown
  <2>1. OthersAlone(w)
    BY <1>3, <1>6, <1>7, <1>8 DEF LaunchFails, FailStart
  <2>2. workers[w].pc \in Launching /\ workers'[w].pc = "done" /\ workers'[w].proc # "running"
    BY <1>2, <1>6, <1>8 DEF LaunchFails, Launching
  <2>3. Current(w) => Drops(w)
    BY <1>8, <2>2 DEF Drops
  <2>4. ~Current(w) => Quiet(w)
    BY <1>8, <2>2 DEF LaunchFails, FailStart, Quiet, Launching
  <2> QED BY <2>1, <2>3, <2>4 DEF WorkerEffects
<1>9. ASSUME CheckPorts(w) PROVE Shown
  <2>1. /\ workers[w].pc = "ports" /\ workers'[w].pc = "spawn"
        /\ workers'[w].proc # "running" /\ workers[w].pc \in Launching
    BY <1>2, <1>4, <1>9 DEF CheckPorts, Launching
  <2>2. OthersAlone(w)
    BY <1>1, <1>3, <1>4, <1>7, <1>9, <2>1 DEF CheckPorts
  <2> QED BY <1>9, <2>1, <2>2 DEF CheckPorts, Quiet, WorkerEffects, Launching
<1>10. ASSUME Spawn(w) PROVE Shown
  <2> DEFINE r == [workers[w] EXCEPT !.pc = "attach", !.proc = "running"]
  <2>1. r.pc = "attach"
    BY <1>0 DEF WorkerType
  <2>2. workers' = [workers EXCEPT ![w] = r]
    BY <1>10 DEF Spawn
  <2> HIDE DEF r
  <2>3. workers'[w].pc = "attach" /\ \A v \in Workers \ {w} : workers'[v] = workers[v]
    BY <1>0, <2>1, <2>2
  <2>4. workers[w].pc \notin Unnumbered
    BY <1>1, <1>10 DEF Spawn, Launching
  <2> QED BY <1>3, <1>7, <1>10, <2>3, <2>4 DEF Spawn, Quiet, WorkerEffects, Launching
<1>11. ASSUME Attach(w) PROVE Shown
  <2>0. workers[w].pc \notin Unnumbered
    BY <1>1, <1>11 DEF Attach, Launching
  <2>1. CASE Superseded(w)
    BY <1>7b, <1>11, <2>0, <2>1 DEF Attach
  <2>2. CASE Current(w) /\ sup' = [sup EXCEPT !.current = w] /\ Move(w, "await")
    <3>1. sup'.current = w /\ sup'.state = sup.state /\ sup'.generation = sup.generation
      BY <1>0, <2>2 DEF SupType
    <3> QED BY <1>3, <1>4, <1>7, <1>11, <2>0, <2>2, <3>1 DEF Attach, Attaches, WorkerEffects
  <2> QED BY <1>11, <2>1, <2>2 DEF Attach
<1>12. ASSUME Answered(w) PROVE Shown
  <2>1. workers[w].pc = "await" /\ workers[w].pc \notin Unnumbered
    BY <1>1, <1>12 DEF Answered, Launching
  <2>2. OthersAlone(w)
    BY <1>3, <1>4, <1>7, <1>12, <2>1 DEF Answered
  <2> QED BY <1>4, <1>12, <2>1, <2>2 DEF Answered, Quiet, WorkerEffects, Launching
<1>13. ASSUME NotAnswered(w) PROVE Shown
  <2>1. workers[w].pc = "await" /\ workers[w].pc \notin Unnumbered
    BY <1>1, <1>13 DEF NotAnswered, Launching
  <2>2. past.overtaken \subseteq past'.overtaken
    BY <1>0, <1>13 DEF NotAnswered
  <2>3. OthersAlone(w)
    BY <1>3, <1>5, <1>7, <1>13, <2>1, <2>2 DEF NotAnswered
  <2> QED BY <1>5, <1>13, <2>1, <2>3 DEF NotAnswered, Quiet, WorkerEffects, Launching
<1>14. ASSUME BecomeReady(w) PROVE Shown
  <2>0. workers[w].pc \notin Unnumbered
    BY <1>1, <1>14 DEF BecomeReady, Launching
  <2>1. CASE Superseded(w)
    BY <1>7b, <1>14, <2>0, <2>1 DEF BecomeReady
  <2>2. CASE /\ Current(w) /\ sup' = [sup EXCEPT !.state = "ready"]
             /\ workers' = [workers EXCEPT ![w].pc = "watch", ![w].polling = TRUE]
    <3>1. sup'.current = sup.current /\ sup'.state = "ready" /\ sup'.generation = sup.generation
      BY <1>0, <2>2 DEF SupType
    <3> DEFINE r == [workers[w] EXCEPT !.pc = "watch", !.polling = TRUE]
    <3>2. r.pc = "watch" /\ r.proc = workers[w].proc
      BY <1>0 DEF WorkerType
    <3>3. workers' = [workers EXCEPT ![w] = r]
      BY <2>2
    <3> HIDE DEF r
    <3>4. /\ workers'[w].pc = "watch" /\ workers'[w].proc = workers[w].proc
          /\ \A v \in Workers \ {w} : workers'[v] = workers[v]
      BY <1>0, <3>2, <3>3
    <3> QED BY <1>3, <1>7, <1>14, <2>0, <2>2, <3>1, <3>4
         DEF BecomeReady, BecomesReady, WorkerEffects
  <2> QED BY <1>14, <2>1, <2>2 DEF BecomeReady
<1>15. ASSUME Discard(w) PROVE Shown
  <2>1. /\ workers[w].pc = "discard" /\ workers[w].proc # "running" /\ Finish(w)
        /\ sup' = sup /\ lifecycle' = lifecycle /\ calls' = calls /\ past' = past
    BY <1>2, <1>15 DEF Discard
  <2> QED BY <1>7a, <2>1
<1>16. ASSUME Abort(w) PROVE Shown
  <2>1. /\ workers[w].pc = "abort" /\ workers'[w].pc = "aborted" /\ workers'[w].proc # "running"
        /\ workers[w].pc \in Launching
    BY <1>2, <1>4, <1>16 DEF Abort, Launching
  <2>2. OthersAlone(w)
    BY <1>1, <1>3, <1>4, <1>7, <1>16, <2>1 DEF Abort, FailStart
  <2>3. Current(w) => Drops(w)
    BY <2>1 DEF Drops
  <2>4. ~Current(w) => Quiet(w)
    BY <1>16, <2>1 DEF Abort, FailStart, Quiet, Launching
  <2> QED BY <2>2, <2>3, <2>4 DEF WorkerEffects
<1>17. ASSUME WatchExit(w) PROVE Shown
  <2>0. workers[w].pc \notin Unnumbered
    BY <1>1, <1>17 DEF WatchExit
  <2>1. ASSUME ~Alive(w), Current(w), sup' = Crashed(sup), Finish(w) \/ Move(w, "crashed")
        PROVE  Shown
    <3>1. OthersAlone(w)
      BY <1>3, <1>4, <1>6, <1>7, <1>17, <2>0, <2>1 DEF WatchExit
    <3>2. /\ workers[w].pc = "watch" /\ workers'[w].pc \in {"done", "crashed"}
          /\ workers'[w].proc # "running"
      BY <1>4, <1>6, <1>17, <2>1 DEF WatchExit, Alive
    <3> QED BY <2>1, <3>1, <3>2 DEF Drops, WorkerEffects
  <2>2. ASSUME ~Alive(w), Finish(w), UNCHANGED sup PROVE Shown
    BY <1>3, <1>6, <1>7, <1>17, <2>2 DEF WatchExit, Quiet, WorkerEffects, Launching, Alive
  <2> QED BY <1>2, <1>17, <2>1, <2>2 DEF WatchExit
<1>18. ASSUME NEW r, workers' = [workers EXCEPT ![w] = r], r.pc = workers[w].pc,
              r.proc = workers[w].proc \/ r.proc = "none", lifecycle' = lifecycle, calls' = calls,
              past' = past, sup'.generation = sup.generation, sup'.state = sup.state,
              sup'.current = sup.current
       PROVE  Shown
  <2>1. workers'[w] = r /\ \A v \in Workers \ {w} : workers'[v] = workers[v]
    BY <1>0, <1>18
  <2>2. OthersAlone(w)
    BY <1>3, <1>7, <1>18, <2>1
  <2>3. Quiet(w)
    BY <1>18, <2>1 DEF Quiet
  <2> QED BY <2>2, <2>3 DEF WorkerEffects
<1>19. ASSUME UpdateIngest(w) PROVE Shown
  <2>1. /\ sup'.generation = sup.generation /\ sup'.state = sup.state
        /\ sup'.current = sup.current
    BY <1>0, <1>19 DEF UpdateIngest, SupType
  <2>2. /\ [workers[w] EXCEPT !.answer = "none"].pc = workers[w].pc
        /\ [workers[w] EXCEPT !.answer = "none"].proc = workers[w].proc
    BY <1>0 DEF WorkerType
  <2> QED BY <1>18, <1>19, <2>1, <2>2 DEF UpdateIngest
<1>20. ASSUME PollIngest(w) PROVE Shown
  <2>1. PICK read : workers' = [workers EXCEPT ![w].answer = read]
    BY <1>20 DEF PollIngest
  <2>2. /\ [workers[w] EXCEPT !.answer = read].pc = workers[w].pc
        /\ [workers[w] EXCEPT !.answer = read].proc = workers[w].proc
    BY <1>0 DEF WorkerType
  <2> QED BY <1>18, <1>20, <2>1, <2>2 DEF PollIngest
<1>21. ASSUME PollEnds(w) PROVE Shown
  <2> DEFINE q == [workers[w] EXCEPT !.polling = FALSE]
             r == IF workers[w].pc = "done" THEN Ended(q) ELSE q
  <2>1. r.pc = workers[w].pc /\ r.proc = workers[w].proc
    BY <1>0 DEF WorkerType, Ended, Done
  <2>2. workers' = [workers EXCEPT ![w] = r]
    BY <1>21 DEF PollEnds
  <2> HIDE DEF r
  <2> QED BY <1>18, <1>21, <2>1, <2>2 DEF PollEnds
<1>22. ASSUME StableRun(w) PROVE Shown
  <2>1. /\ sup'.generation = sup.generation /\ sup'.state = sup.state
        /\ sup'.current = sup.current
    BY <1>0, <1>22 DEF StableRun, SupType
  <2>2. workers' = [workers EXCEPT ![w] = workers[w]]
    BY <1>0, <1>22 DEF StableRun
  <2> QED BY <1>18, <1>22, <2>1, <2>2 DEF StableRun
<1>23. ASSUME TerminatedExit(w) \/ SpontaneousExit(w) PROVE Shown
  <2>1. Exit(w) /\ sup' = sup /\ lifecycle' = lifecycle
    BY <1>23 DEF TerminatedExit, SpontaneousExit
  <2>2. past.overtaken \subseteq past'.overtaken
    BY <1>0, <1>23 DEF TerminatedExit, SpontaneousExit
  <2>3. /\ [workers[w] EXCEPT !.proc = "none"].pc = workers[w].pc
        /\ [workers[w] EXCEPT !.proc = "none"].proc = "none"
    BY <1>0 DEF WorkerType
  <2>4. /\ workers'[w].pc = workers[w].pc /\ workers'[w].proc = "none"
        /\ \A v \in Workers \ {w} : workers'[v] = workers[v]
    BY <1>0, <2>1, <2>3 DEF Exit
  <2>5. \A c \in Clients : /\ calls'[c].pc = calls[c].pc
                           /\ calls'[c].proc # calls[c].proc => calls[c].proc = w
    <3>1. \A c \in Clients : [calls[c] EXCEPT !.proc = NoWorker].pc = calls[c].pc
      BY <1>0 DEF CallType
    <3> QED BY <1>0, <2>1, <3>1 DEF Exit
  <2> QED BY <1>7, <2>1, <2>2, <2>4, <2>5 DEF OthersAlone, Quiet, WorkerEffects
<1>25. ASSUME RestartAbandoned(w) PROVE Shown
  BY <1>7a, <1>25 DEF RestartAbandoned
<1>26. ASSUME ScheduleRestart(w) PROVE Shown
  <2>1. /\ workers[w].pc \in {"crashed", "aborted"} /\ Current(w)
        /\ workers[w].proc # "running" /\ workers[w].pc \notin Unnumbered
    BY <1>1, <1>2, <1>26 DEF ScheduleRestart, Retrying
  <2>2. Finish(w) \/ Move(w, "backoff")
    BY <1>26 DEF ScheduleRestart
  <2>3. sup'.generation = sup.generation
    BY <1>0, <1>26 DEF ScheduleRestart, SupType
  <2>4. OthersAlone(w)
    BY <1>3, <1>4, <1>6, <1>7, <1>26, <2>1, <2>2, <2>3 DEF ScheduleRestart
  <2>5. Drops(w)
    BY <1>4, <1>6, <2>1, <2>2 DEF Drops
  <2> QED BY <2>4, <2>5 DEF WorkerEffects
<1>27. ASSUME NEW pc, NEW found, workers[w].pc \notin {"attach", "await", "answered", "watch"},
              pc \notin Launching \cup {"watch"},
              workers[w].pc \notin Unnumbered \/ pc \in Unnumbered,
              workers' = [workers EXCEPT ![w].pc = pc, ![w].found = found],
              sup'.generation = sup.generation, sup'.current = sup.current,
              sup.state \in {"starting", "ready"} => sup'.state = sup.state,
              lifecycle' = lifecycle, calls' = calls, past' = past
       PROVE  Shown
  <2> DEFINE r == [workers[w] EXCEPT !.pc = pc, !.found = found]
  <2>1. r.pc = pc /\ r.proc = workers[w].proc
    BY <1>0 DEF WorkerType
  <2>2. workers' = [workers EXCEPT ![w] = r]
    BY <1>27
  <2> HIDE DEF r
  <2>3. /\ workers'[w].pc = pc /\ workers'[w].proc = workers[w].proc
        /\ \A v \in Workers \ {w} : workers'[v] = workers[v]
    BY <1>0, <2>1, <2>2
  <2>4. workers[w].proc # "running"
    BY <1>2, <1>27
  <2>5. OthersAlone(w)
    BY <1>3, <1>7, <1>27, <2>3
  <2> QED BY <1>27, <2>3, <2>4, <2>5 DEF Quiet, WorkerEffects
<1>28. ASSUME BackoffElapses(w) PROVE Shown
  <2>1. /\ workers[w].pc = "backoff" /\ workers[w].pc \notin Unnumbered
        /\ "refresh" \notin Launching \cup {"watch"}
    BY <1>1, <1>28 DEF BackoffElapses, Retrying, Launching
  <2>2. OthersAlone(w)
    BY <1>3, <1>4, <1>7, <1>28, <2>1 DEF BackoffElapses
  <2> QED BY <1>2, <1>4, <1>28, <2>1, <2>2 DEF BackoffElapses, Quiet, WorkerEffects
<1>29. ASSUME ResolveAgain(w) PROVE Shown
  <2>1. PICK pc, found :
          /\ workers' = [workers EXCEPT ![w].pc = pc, ![w].found = found]
          /\ <<workers[w].pc, pc>> \in {<<"refresh", "apply">>, <<"installed", "finish">>}
    <3>1. PICK found :
            workers' = [workers EXCEPT ![w].pc = IF @ = "refresh" THEN "apply" ELSE "finish",
                                       ![w].found = found]
      BY <1>29 DEF ResolveAgain
    <3>2. CASE workers[w].pc = "refresh"
      <4>1. workers' = [workers EXCEPT ![w].pc = "apply", ![w].found = found]
        BY <3>1, <3>2
      <4> QED BY <3>2, <4>1
    <3>3. CASE workers[w].pc = "installed"
      <4>1. workers' = [workers EXCEPT ![w].pc = "finish", ![w].found = found]
        BY <3>1, <3>3
      <4> QED BY <3>3, <4>1
    <3> QED BY <1>29, <3>2, <3>3 DEF ResolveAgain
  <2>2. /\ pc \notin Launching \cup {"watch"}
        /\ workers[w].pc \notin Unnumbered \/ pc \in Unnumbered
        /\ workers[w].pc \notin {"attach", "await", "answered", "watch"}
    BY <1>1, <2>1 DEF Launching, Retrying, Installing
  <2>3. sup' = sup /\ lifecycle' = lifecycle /\ calls' = calls /\ past' = past
    BY <1>29 DEF ResolveAgain
  <2> QED BY <1>27, <2>1, <2>2, <2>3
<1>30. ASSUME MoveAside(w) PROVE Shown
  <2>1. /\ workers[w].pc = "install"
        /\ workers' = [workers EXCEPT ![w].pc = "publish", ![w].found = binary]
    BY <1>30 DEF MoveAside
  <2>2. "publish" \notin Launching \cup {"watch"} /\ "publish" \in Unnumbered
    BY DEF Launching, Unnumbered, Installing
  <2>3. sup' = sup /\ lifecycle' = lifecycle /\ calls' = calls /\ past' = past
    BY <1>30 DEF MoveAside
  <2> QED BY <1>27, <2>1, <2>2, <2>3
<1>31. ASSUME Publish(w) PROVE Shown
  <2>1. /\ workers[w].pc = "publish"
        /\ workers' = [workers EXCEPT ![w].pc = "installed", ![w].found = "missing"]
    BY <1>31 DEF Publish
  <2>2. "installed" \notin Launching \cup {"watch"} /\ "installed" \in Unnumbered
    BY DEF Launching, Unnumbered, Installing
  <2>3. sup' = sup /\ lifecycle' = lifecycle /\ calls' = calls /\ past' = past
    BY <1>31 DEF Publish
  <2> QED BY <1>27, <2>1, <2>2, <2>3
<1>32. ASSUME ApplyAgain(w) PROVE Shown
  <2>1. /\ workers[w].pc = "apply"
        /\ workers' = [workers EXCEPT ![w].pc = "restart", ![w].found = "missing"]
        /\ sup' = Refreshed(sup, workers[w].found)
    BY <1>32 DEF ApplyAgain
  <2>2. /\ sup'.generation = sup.generation /\ sup'.current = sup.current
        /\ sup.state \in {"starting", "ready"} => sup'.state = sup.state
    BY <1>0, <2>1, RecordOf, GenerationOf DEF Busy
  <2>3. workers[w].pc \notin Unnumbered /\ "restart" \notin Launching \cup {"watch"}
    BY <1>1, <2>1 DEF Retrying, Launching
  <2>4. lifecycle' = lifecycle /\ calls' = calls /\ past' = past
    BY <1>32 DEF ApplyAgain
  <2> QED BY <1>27, <2>1, <2>2, <2>3, <2>4
\* The end of an installation
<1>33. Overtake => /\ past.overtaken \subseteq past'.overtaken
                   /\ sup.generation # 0 => sup.generation \in past'.overtaken
  BY <1>0 DEF Overtake
<1>34. ASSUME InstallFails(w) PROVE Shown
  <2>1. sup'.current = sup.current /\ sup'.generation = sup.generation
    BY <1>0, <1>34 DEF InstallFails, SupType
  <2>2. workers[w].proc # "running" /\ workers[w].pc \in Installing
    BY <1>2, <1>34 DEF InstallFails, Installing
  <2> QED BY <1>3, <1>6, <1>33, <1>34, <2>1, <2>2 DEF InstallFails, EndsInstall, WorkerEffects
<1>35. ASSUME FinishInstall(w) PROVE Shown
  <2>1. sup'.current = sup.current /\ sup'.generation = sup.generation
    BY <1>0, <1>35, RecordOf DEF FinishInstall
  <2>2. workers[w].proc # "running" /\ workers[w].pc \in Installing
    BY <1>2, <1>35 DEF FinishInstall, Installing
  <2>3. CASE Finish(w)
    BY <1>3, <1>6, <1>33, <1>35, <2>1, <2>2, <2>3 DEF FinishInstall, EndsInstall, WorkerEffects
  <2>4. CASE workers' = [workers EXCEPT ![w].pc = "autostart", ![w].found = "missing"]
    <3> DEFINE r == [workers[w] EXCEPT !.pc = "autostart", !.found = "missing"]
    <3>1. r.pc = "autostart" /\ r.proc = workers[w].proc
      BY <1>0 DEF WorkerType
    <3>2. workers' = [workers EXCEPT ![w] = r]
      BY <2>4
    <3> HIDE DEF r
    <3>3. /\ workers'[w].pc = "autostart" /\ workers'[w].proc = workers[w].proc
          /\ \A v \in Workers \ {w} : workers'[v] = workers[v]
      BY <1>0, <3>1, <3>2
    <3> QED BY <1>1, <1>3, <1>33, <1>35, <2>1, <2>2, <3>3
         DEF FinishInstall, EndsInstall, WorkerEffects
  <2> QED BY <1>35, <2>3, <2>4 DEF FinishInstall
<1>36. ASSUME StartAgain(w) PROVE Shown \/ \E v \in Workers : Starts(w, v)
  <2>0. /\ workers[w].pc \in {"restart", "autostart"} /\ workers[w].proc # "running"
        /\ workers[w].pc \notin {"attach", "await", "answered", "watch"}
        /\ lifecycle' = lifecycle /\ calls' = calls /\ past' = past
    BY <1>2, <1>36 DEF StartAgain
  <2>1. CASE ~CanStart /\ Finish(w) /\ UNCHANGED sup
    BY <1>7a, <2>0, <2>1
  <2>2. CASE /\ CanStart /\ sup' = Started(sup)
             /\ IF Alive(w) \/ workers[w].polling
                  THEN \E v \in Workers :
                         /\ Allocatable(v)
                         /\ workers' = [workers EXCEPT ![w] = Ended(@),
                                                       ![v] = Launch(sup'.generation)]
                  ELSE workers' = [workers EXCEPT ![w] = Launch(sup'.generation)]
    <3>1. /\ sup'.generation = sup.generation + 1 /\ sup'.state = "starting"
          /\ sup'.current = sup.current /\ sup.state \notin {"starting", "ready"}
      BY <1>0, <2>2, GenerationOf, RecordOf DEF CanStart
    <3>2. PICK v \in Workers :
            \/ workers' = [workers EXCEPT ![w] = Ended(@), ![v] = Launch(sup'.generation)]
            \/ v = w /\ workers' = [workers EXCEPT ![w] = Launch(sup'.generation)]
      BY <2>2
    <3>3. workers'[v] = Launch(sup'.generation)
      BY <1>0, <3>2
    <3>4. \A u \in Workers \ {v} : /\ u # w => workers'[u] = workers[u]
                                   /\ u = w => workers'[u] = Ended(workers[w])
      BY <1>0, <3>2
    <3>5. /\ Keeps(Ended(workers[w]), workers[w]) /\ Ended(workers[w]).pc = "done"
          /\ Ended(workers[w]).proc = workers[w].proc
      <4>1. Ended(workers[w]).pc = "done" /\ Ended(workers[w]).proc = workers[w].proc
        BY <1>0 DEF WorkerType, Ended, Done
      <4> QED BY <1>0, <4>1, WorkerKept
    <3>6. \A u \in Workers : Keeps(workers[u], workers[u])
      BY <1>0, OthersKept
    <3>7. \A u \in Workers \ {v} : /\ Keeps(workers'[u], workers[u])
                                   /\ workers'[u].proc = workers[u].proc
                                   /\ u = w => workers'[u].pc = "done"
      BY <3>4, <3>5, <3>6
    <3>8. Starts(w, v)
      BY <2>0, <3>1, <3>3, <3>4, <3>7 DEF Starts
    <3> QED BY <3>8
  <2> QED BY <1>36, <2>1, <2>2 DEF StartAgain
<1> HIDE DEF Shown
<1> QED
  BY <1>8, <1>9, <1>10, <1>11, <1>12, <1>13, <1>14, <1>15, <1>16, <1>17, <1>19, <1>20, <1>21,
     <1>22, <1>23, <1>25, <1>26, <1>28, <1>29, <1>30, <1>31, <1>32, <1>34, <1>35, <1>36
  DEF WorkerStep, Environment, Shown

\* Such a step keeps the invariant
LEMMA WorkersHeld ==
  ASSUME GenerationInv, ~Cancelled, Tells, NEW w \in Workers, OthersAlone(w), WorkerEffects(w),
         \A v \in Workers : Keeps(workers'[v], workers[v])
  PROVE  Tells'
<1>1. sup'.generation = sup.generation /\ ~Cancelled'
  BY DEF OthersAlone, Cancelled
<1>2. \A v \in Workers : /\ Current(v)' => Current(v)
                         /\ workers'[v].pc # "done" => workers'[v].generation = workers[v].generation
                         /\ workers'[v].pc # "done" /\ Current(v) => Current(v)'
                         /\ Leads(v)' => Leads(v) \/ workers'[v].pc = "done"
  BY <1>1 DEF Keeps, Runs, Leads, Current, Active, OthersAlone
<1>3. \A v \in Workers \ {w} : workers'[v] = workers[v]
  BY DEF OthersAlone
<1>4. Numbered /\ RunsInStage /\ StateTells /\ Held
  BY DEF Tells
<1>5. "done" \in Unnumbered /\ Unnumbered \cap (Launching \cup {"watch", "crashed", "aborted"}) = {}
  BY DEF Unnumbered, Installing, Launching
\* If it is the current worker that moved, no other one is
<1>6. workers[w].pc \notin Unnumbered /\ Current(w) => \A v \in Workers \ {w} : ~Current(v)
  BY <1>4 DEF Numbered, GenerationInv, GenerationIsExclusive, Current
<1>7. Numbered'
  <2>1. workers'[w].pc \notin Unnumbered => workers[w].pc \notin Unnumbered
    BY DEF OthersAlone
  <2> QED BY <1>2, <1>3, <1>4, <1>5, <2>1 DEF Numbered
<1>8. RunsInStage'
  <2>1. workers'[w].proc = "running" =>
          workers'[w].pc \in {"attach", "await", "answered", "watch"}
    BY <1>4 DEF RunsInStage, WorkerEffects, Quiet, Drops, Attaches, BecomesReady, EndsInstall
  <2> QED BY <1>3, <1>4, <2>1 DEF RunsInStage
\* An installation that ends overtakes the latest start
<1>9. EndsInstall(w) => \A v \in Workers : workers'[v].pc \notin Unnumbered => ~Leads(v)'
  BY <1>1, <1>7 DEF EndsInstall, Numbered, Leads, Current, Active
<1>10. StateTells'
  <2>1. ASSUME NEW v \in Workers, Leads(v)', workers'[v].pc \in Launching \cup {"watch"}
        PROVE  /\ workers'[v].pc \in Launching => sup'.state = "starting"
               /\ workers'[v].pc = "watch" => sup'.state = "ready"
    <3>1. /\ Leads(v) /\ Current(v) /\ ~EndsInstall(w) /\ workers'[v].pc \notin Unnumbered
          /\ Launching \cap {"watch", "done", "crashed", "aborted", "backoff"} = {}
      BY <1>2, <1>5, <1>9, <2>1 DEF Leads, Launching
    <3>2. /\ workers[v].pc \in Launching => sup.state = "starting"
          /\ workers[v].pc = "watch" => sup.state = "ready"
      BY <1>4, <3>1 DEF StateTells
    <3>3. CASE v # w
      <4>1. workers'[v] = workers[v]
        BY <1>3, <3>3
      <4>2. ~Drops(w) /\ ~Attaches(w) /\ ~BecomesReady(w)
        BY <1>5, <1>6, <3>1, <3>3 DEF Drops, Attaches, BecomesReady, Launching
      <4> QED BY <2>1, <3>1, <3>2, <4>1, <4>2 DEF WorkerEffects, Quiet
    <3>4. CASE v = w
      <4>1. "attach" \in Launching /\ "await" \in Launching /\ "answered" \in Launching
        BY DEF Launching
      <4>2. CASE Quiet(w)
        BY <2>1, <3>1, <3>2, <3>4, <4>2 DEF Quiet
      <4>3. CASE Drops(w) \/ Attaches(w) \/ BecomesReady(w)
        BY <2>1, <3>1, <3>2, <3>4, <4>1, <4>3 DEF Drops, Attaches, BecomesReady
      <4> QED BY <3>1, <4>2, <4>3 DEF WorkerEffects
    <3> QED BY <3>3, <3>4
  <2> QED BY <2>1 DEF StateTells
<1>11. Held'
  <2>1. ASSUME NEW v \in Workers, workers'[v].proc = "running",
               \E c \in Clients : calls[c].pc = "cancel" /\ calls[c].proc = v
        PROVE  HeldBy(v)'
    <3>1. PICK c \in Clients : calls[c].pc = "cancel" /\ calls[c].proc = v
      BY <2>1
    <3>2. calls'[c].pc = "cancel" /\ calls'[c].proc = v
      BY <2>1, <3>1 DEF OthersAlone
    <3> QED BY <3>2 DEF HeldBy
  <2>2. ASSUME NEW v \in Workers, workers[v].proc = "running", workers'[v].proc = "running",
               workers'[v].pc # "attach", workers[v].pc # "attach",
               Current(v) /\ sup.current = v => sup'.current = v
        PROVE  HeldBy(v)' \/ workers'[v].generation \in past'.overtaken
    <3>1. HeldBy(v) \/ workers[v].generation \in past.overtaken
      BY <1>4, <2>2 DEF Held
    <3>2. workers'[v].pc # "done" /\ past.overtaken \subseteq past'.overtaken
      BY <1>8, <2>2 DEF RunsInStage, OthersAlone
    <3>3. workers'[v].generation = workers[v].generation /\ (Current(v) => Current(v)')
      BY <1>2, <3>2
    <3> QED BY <2>1, <2>2, <3>1, <3>2, <3>3 DEF HeldBy
  <2>3. ASSUME NEW v \in Workers \ {w}, workers'[v].proc = "running", workers'[v].pc # "attach"
        PROVE  HeldBy(v)' \/ workers'[v].generation \in past'.overtaken
    <3>1. workers'[v] = workers[v] /\ workers[v].pc \notin Unnumbered
      BY <1>3, <1>4, <1>5, <2>3 DEF RunsInStage, Launching
    <3>2. ASSUME Current(v), sup.current = v PROVE sup'.current = v
      <4>1. ~Drops(w) /\ ~Attaches(w)
        BY <1>5, <1>6, <3>2 DEF Drops, Attaches, Launching
      <4> QED BY <3>2, <4>1 DEF WorkerEffects, Quiet, BecomesReady, EndsInstall
    <3> QED BY <2>2, <2>3, <3>1, <3>2
  <2>4. ASSUME workers'[w].proc = "running", workers'[w].pc # "attach"
        PROVE  HeldBy(w)' \/ workers'[w].generation \in past'.overtaken
    <3>1. CASE Quiet(w)
      <4>1. /\ workers[w].proc = "running" /\ workers[w].pc # "attach"
            /\ sup'.current = sup.current
        BY <2>4, <3>1 DEF Quiet
      <4> QED BY <2>2, <2>4, <4>1
    <3>2. CASE Attaches(w)
      BY <1>2, <3>2 DEF Attaches, HeldBy
    <3>3. CASE BecomesReady(w)
      <4>1. /\ workers[w].proc = "running" /\ workers[w].pc # "attach"
            /\ sup'.current = sup.current
        BY <2>4, <3>3 DEF BecomesReady
      <4> QED BY <2>2, <2>4, <4>1
    <3>4. CASE Drops(w) \/ EndsInstall(w)
      BY <2>4, <3>4 DEF Drops, EndsInstall
    <3> QED BY <3>1, <3>2, <3>3, <3>4 DEF WorkerEffects
  <2> QED BY <2>3, <2>4 DEF Held
<1> QED BY <1>7, <1>8, <1>10, <1>11 DEF Tells

\* A start happens while the latest one neither is launched nor watches
LEMMA StartsHeld ==
  ASSUME GenerationInv, ~Cancelled, Tells, NEW w \in Workers, NEW v \in Workers, Starts(w, v)
  PROVE  Tells'
<1>1. /\ sup.generation \in Nat /\ sup'.generation = sup.generation + 1
      /\ \A u \in Workers : workers[u].generation \in Nat
      /\ \A u \in Workers : Runs(workers[u]) => workers[u].generation <= sup.generation
  BY DEF Starts, GenerationInv, TypeOK, SupType, WorkerType
<1>2. Numbered /\ RunsInStage /\ StateTells /\ Held
  BY DEF Tells
<1>3. /\ workers'[v].pc = "ports" /\ workers'[v].proc = "none"
      /\ workers'[v].generation = sup'.generation
  BY DEF Starts, Launch, Done
<1>4. \A u \in Workers \ {v} :
        /\ Keeps(workers'[u], workers[u]) /\ workers'[u].proc = workers[u].proc
        /\ u # w => workers'[u] = workers[u]
        /\ u = w => workers'[u].pc = "done"
  BY DEF Starts
<1>5. Numbered'
  BY <1>1, <1>2, <1>3, <1>4 DEF Numbered, Unnumbered
\* What runs is not the worker that goes on in the launch
<1>6. \A u \in Workers : workers'[u].proc = "running" =>
        u # v /\ workers'[u] = workers[u] /\ workers[u].proc = "running"
  BY <1>3, <1>4 DEF Starts
<1>7. RunsInStage'
  BY <1>2, <1>6 DEF RunsInStage
<1>8. \A u \in Workers \ {v} : ~Current(u)'
  BY <1>1, <1>4 DEF Keeps, Runs, Current, Active
<1>9. StateTells'
  BY <1>3, <1>8 DEF StateTells, Leads, Starts
<1>10. Held'
  <2>1. ASSUME NEW u \in Workers, workers'[u].proc = "running", workers'[u].pc # "attach",
               workers'[u].generation \notin past'.overtaken
        PROVE  HeldBy(u)'
    <3>1. /\ workers'[u] = workers[u] /\ past' = past
          /\ workers[u].pc \in {"await", "answered", "watch"} /\ HeldBy(u)
      BY <1>2, <1>6, <2>1 DEF RunsInStage, Held, Starts
    <3>2. ~Current(u)
      BY <1>2, <2>1, <3>1 DEF StateTells, Leads, Starts, Launching
    <3>3. PICK c \in Clients : calls[c].pc = "cancel" /\ calls[c].proc = u
      BY <3>1, <3>2 DEF HeldBy
    <3> QED BY <3>3 DEF HeldBy, Starts
  <2> QED BY <2>1 DEF Held
<1> QED BY <1>5, <1>7, <1>9, <1>10 DEF Tells

\* A call changes the record, its own entry, and at most the worker it starts
LEMMA CallsHeld ==
  ASSUME GenerationInv, TypeOK', ~Cancelled, ~Cancelled', Tells, NEW c \in Clients,
         BeginCall(c) \/ CallStep(c)
  PROVE  Tells'
<1>0. /\ sup \in SupType /\ workers \in [Workers -> WorkerType] /\ calls \in [Clients -> CallType]
      /\ sup.generation \in Nat /\ calls[c].found \in Binary
      /\ sup.current \in Workers \cup {NoWorker} /\ NoWorker \notin Workers
      /\ \A v \in Workers : workers[v] \in WorkerType /\ workers[v].generation \in Nat
      /\ past \in [calls : Nat, crashes : Nat, overtaken : SUBSET Nat]
  BY SupervisorAssumption DEF GenerationInv, TypeOK, SupType, CallType, WorkerType
<1>1. Numbered /\ RunsInStage /\ StateTells /\ Held
  BY DEF Tells
<1>2. \A d \in Clients \ {c} : calls'[d] = calls[d]
  BY <1>0 DEF BeginCall, Begin, CallStep, Return, StartAccepted, StartRefused, StopRefused,
              StopAccepted, StopReturns, ClearStopped, CheckRunning, Resolve, ApplyResolution,
              InstallRefused, InstallAccepted, ShutDown, Cancel, Drain
<1>3. calls[c].pc # "cancel" =>
        \A d \in Clients : calls[d].pc = "cancel" => calls'[d] = calls[d]
  BY <1>2
\* Nothing is started or ended, and the state of a launch or a watcher is left
<1>4. ASSUME workers' = workers, calls[c].pc # "cancel", past'.overtaken = past.overtaken,
             sup'.generation = sup.generation, sup'.current = sup.current,
             sup.state \in {"starting", "ready"} => sup'.state = sup.state
      PROVE  Tells'
  <2>1. \A v \in Workers : (Current(v)' <=> Current(v)) /\ (Leads(v)' <=> Leads(v))
    BY <1>4 DEF Current, Active, Leads
  <2>2. Numbered' /\ RunsInStage'
    BY <1>1, <1>4 DEF Numbered, RunsInStage
  <2>3. StateTells'
    BY <1>1, <1>4, <2>1 DEF StateTells
  <2>4. \A v \in Workers : HeldBy(v) => HeldBy(v)'
    BY <1>3, <1>4, <2>1 DEF HeldBy
  <2>5. Held'
    BY <1>1, <1>4, <2>4 DEF Held
  <2> QED BY <2>2, <2>3, <2>5 DEF Tells
<1>5. CASE \/ BeginCall(c) \/ StartRefused(c) \/ StopRefused(c) \/ StopReturns(c) \/ CheckRunning(c)
           \/ Resolve(c) \/ InstallRefused(c)
  <2>1. sup' = sup /\ workers' = workers /\ calls[c].pc # "cancel"
    BY <1>5 DEF BeginCall, Begin, StartRefused, StopRefused, StopReturns, CheckRunning, Resolve,
                InstallRefused
  <2>2. past'.overtaken = past.overtaken
    BY <1>0, <1>5 DEF BeginCall, Begin, StartRefused, StopRefused, StopReturns, CheckRunning, Resolve,
                      InstallRefused
  <2> QED BY <1>4, <2>1, <2>2
<1>6. CASE ApplyResolution(c)
  <2>1. /\ sup'.generation = sup.generation /\ sup'.current = sup.current
        /\ sup.state \in {"starting", "ready"} => sup'.state = sup.state
    BY <1>0, <1>6, RecordOf, GenerationOf DEF ApplyResolution, Busy
  <2> QED BY <1>4, <1>6, <2>1 DEF ApplyResolution
<1>7. CASE StartAccepted(c)
  <2>1. PICK v \in Workers :
          Allocatable(v) /\ workers' = [workers EXCEPT ![v] = Launch(sup'.generation)]
    BY <1>7 DEF StartAccepted
  <2>2. /\ sup'.generation = sup.generation + 1 /\ sup'.state = "starting"
        /\ sup'.current = sup.current /\ sup.state \notin {"starting", "ready"}
    BY <1>0, <1>7, RecordOf, GenerationOf DEF StartAccepted, CanStart
  <2>3. /\ lifecycle' = lifecycle /\ past' = past /\ calls[c].pc # "cancel"
    BY <1>7 DEF StartAccepted
  <2>4. workers[v].proc # "running"
    BY <2>1 DEF Allocatable, Alive
  <2>5. /\ workers'[v] = Launch(sup'.generation)
        /\ \A u \in Workers \ {v} : workers'[u] = workers[u] /\ Keeps(workers[u], workers[u])
    BY <1>0, <2>1, OthersKept
  <2>6. Starts(v, v)
    BY <1>3, <2>2, <2>3, <2>4, <2>5 DEF Starts
  <2> QED BY <2>6, StartsHeld
<1>8. CASE InstallAccepted(c)
  <2> DEFINE r == [Done EXCEPT !.pc = "install"]
  <2>1. PICK v \in Workers : Allocatable(v) /\ workers' = [workers EXCEPT ![v] = r]
    BY <1>8 DEF InstallAccepted
  <2>2. r.pc = "install" /\ r.proc = "none"
    BY DEF Done
  <2> HIDE DEF r
  <2>3. /\ workers'[v].pc = "install" /\ workers'[v].proc = "none"
        /\ \A u \in Workers \ {v} : workers'[u] = workers[u]
    BY <1>0, <2>1, <2>2
  <2>4. /\ sup'.generation = sup.generation /\ sup'.current = sup.current
        /\ sup.state \notin {"starting", "ready"} /\ past' = past /\ calls[c].pc # "cancel"
    BY <1>0, <1>8 DEF InstallAccepted, CanInstall, SupType
  <2>5. \A u \in Workers \ {v} : (Current(u)' <=> Current(u)) /\ (Leads(u)' <=> Leads(u))
    BY <2>3, <2>4 DEF Current, Active, Leads
  <2>6. Numbered' /\ RunsInStage'
    BY <1>1, <2>3 DEF Numbered, RunsInStage, Unnumbered, Installing
  <2>7. StateTells'
    BY <1>1, <2>3, <2>4, <2>5 DEF StateTells, Launching
  <2>8. \A u \in Workers \ {v} : HeldBy(u) => HeldBy(u)'
    BY <1>3, <2>4, <2>5 DEF HeldBy
  <2>9. Held'
    BY <1>1, <2>3, <2>4, <2>8 DEF Held
  <2> QED BY <2>6, <2>7, <2>9 DEF Tells
\* What a stop writes at its end overtakes the latest start
<1>9. CASE ClearStopped(c)
  <2>1. /\ sup'.generation = sup.generation /\ workers' = workers /\ calls[c].pc # "cancel"
        /\ past.overtaken \subseteq past'.overtaken
        /\ sup.generation # 0 => sup.generation \in past'.overtaken
    BY <1>0, <1>9, GenerationOf DEF ClearStopped, Overtake
  <2>2. \A v \in Workers : workers[v].pc \notin Unnumbered => (Current(v) => ~Leads(v)')
    BY <1>1, <2>1 DEF Numbered, Leads, Current, Active
  <2>3. Numbered' /\ RunsInStage'
    BY <1>1, <2>1 DEF Numbered, RunsInStage
  <2>4. StateTells'
    BY <2>1, <2>2 DEF StateTells, Leads, Current, Active, Unnumbered, Launching, Installing
  <2>5. Held'
    <3>1. ASSUME NEW v \in Workers, workers[v].proc = "running", workers[v].pc # "attach",
                 workers[v].generation \notin past'.overtaken
          PROVE  HeldBy(v)'
      <4>1. workers[v].pc \in {"await", "answered", "watch"} /\ HeldBy(v)
        BY <1>1, <2>1, <3>1 DEF RunsInStage, Held
      <4>2. ~Current(v)
        BY <1>1, <2>1, <3>1, <4>1 DEF Numbered, Unnumbered, Installing, Current
      <4>3. PICK d \in Clients : calls[d].pc = "cancel" /\ calls[d].proc = v
        BY <4>1, <4>2 DEF HeldBy
      <4> QED BY <1>3, <2>1, <4>3 DEF HeldBy
    <3> QED BY <2>1, <3>1 DEF Held
  <2> QED BY <2>3, <2>4, <2>5 DEF Tells
\* A new generation retires every chain there is
<1>10. ASSUME NEW x, workers' = Signalled(x)
       PROVE  \A v \in Workers :
                /\ workers'[v].pc = workers[v].pc /\ workers'[v].generation = workers[v].generation
                /\ Keeps(workers'[v], workers[v])
                /\ workers'[v].proc = "running" => workers[v].proc = "running" /\ v # x
  BY <1>0, <1>10 DEF Signalled, WorkerType, Keeps, Runs
<1>11. ASSUME sup'.generation = sup.generation + 1,
              \A v \in Workers : Keeps(workers'[v], workers[v])
       PROVE  StateTells'
  <2>1. \A v \in Workers : ~Current(v)'
    BY <1>0, <1>11 DEF GenerationInv, Keeps, Runs, Current, Active
  <2> QED BY <2>1 DEF StateTells, Leads
<1>12. CASE StopAccepted(c)
  <2>1. workers' = Signalled(sup.current)
    BY <1>12 DEF StopAccepted
  <2>2. \A v \in Workers :
          /\ workers'[v].pc = workers[v].pc /\ workers'[v].generation = workers[v].generation
          /\ Keeps(workers'[v], workers[v])
          /\ workers'[v].proc = "running" => workers[v].proc = "running" /\ v # sup.current
    BY <1>10, <2>1
  <2>3. /\ sup'.generation = sup.generation + 1 /\ past' = past /\ calls[c].pc # "cancel"
    BY <1>0, <1>12, GenerationOf DEF StopAccepted
  <2>4. Numbered' /\ RunsInStage'
    BY <1>1, <2>2 DEF Numbered, RunsInStage
  <2>5. StateTells'
    BY <1>11, <2>2, <2>3
  <2>6. Held'
    <3>1. ASSUME NEW v \in Workers, HeldBy(v), v # sup.current PROVE HeldBy(v)'
      BY <1>3, <2>3, <3>1 DEF HeldBy
    <3> QED BY <1>1, <2>2, <2>3, <3>1 DEF Held
  <2> QED BY <2>4, <2>5, <2>6 DEF Tells
<1>13. CASE ShutDown(c)
  <2>1. /\ sup'.generation = sup.generation + 1 /\ workers' = workers /\ past' = past
        /\ calls[c].pc # "cancel"
    BY <1>0, <1>13 DEF ShutDown, SupType
  <2>2. calls'[c].pc = "cancel" /\ calls'[c].proc = Handle(sup.current)
    BY <1>0, <1>13 DEF ShutDown, CallType
  <2>3. Numbered' /\ RunsInStage'
    BY <1>1, <2>1 DEF Numbered, RunsInStage
  <2>4. StateTells'
    <3>1. \A v \in Workers : Keeps(workers'[v], workers[v])
      BY <1>0, <2>1, OthersKept
    <3> QED BY <1>11, <2>1, <3>1
  <2>5. ASSUME NEW v \in Workers, workers[v].proc = "running", HeldBy(v) PROVE HeldBy(v)'
    <3>1. sup.current = v => calls'[c].proc = v
      BY <1>0, <2>2, <2>5 DEF Handle, Alive
    <3> QED BY <1>3, <2>1, <2>2, <2>5, <3>1 DEF HeldBy
  <2>6. Held'
    BY <1>1, <2>1, <2>5 DEF Held
  <2> QED BY <2>3, <2>4, <2>6 DEF Tells
<1>14. CASE Cancel(c) \/ Drain(c)
  BY <1>14 DEF Cancel, Drain, Cancelled
<1> QED BY <1>5, <1>6, <1>7, <1>8, <1>9, <1>12, <1>13, <1>14 DEF CallStep

LEMMA OrphanInit == Init => OrphanInv
<1> SUFFICES ASSUME Init PROVE OrphanInv
  OBVIOUS
<1>1. \A w \in Workers : workers[w] = Done \/ workers[w] = Launch(1)
  <2>1. Started(Fresh).generation = 1
    BY DEF Fresh, Applied, Started
  <2> QED BY <2>1 DEF Init
<1>2. /\ Done.pc = "done" /\ Done.proc = "none" /\ ~Done.polling
      /\ Launch(1).pc = "ports" /\ Launch(1).proc = "none" /\ Launch(1).generation = 1
  BY DEF Done, Launch
<1>3. Numbered /\ RunsInStage /\ Held
  BY <1>1, <1>2 DEF Numbered, RunsInStage, Held, Unnumbered
<1>4. StateTells
  <2>1. CASE sup = Fresh /\ workers = [w \in Workers |-> Done]
    BY <1>2, <2>1 DEF StateTells, Leads, Current, Active
  <2>2. CASE sup = Started(Fresh)
    <3>1. sup.state = "starting"
      BY <2>2, FreshType, RecordOf
    <3> QED BY <1>1, <1>2, <3>1 DEF StateTells, Launching
  <2> QED BY <2>1, <2>2 DEF Init
<1>5. OneShutdown
  BY DEF Init, OneShutdown, ShutdownPCs, IdleCall
<1> QED BY <1>3, <1>4, <1>5 DEF OrphanInv, Tells

\* A shutdown begins alone, and what it has cancelled stays cancelled
LEMMA ShutdownStep ==
  ASSUME TypeOK, OneShutdown, [Next]_vars PROVE OneShutdown' /\ (Cancelled => Cancelled')
<1>0. calls \in [Clients -> CallType] /\ \A c \in Clients : calls[c] \in CallType
  BY DEF TypeOK
<1>1. ASSUME lifecycle' = lifecycle, \A c \in Clients : calls'[c].pc = calls[c].pc
      PROVE  OneShutdown' /\ (Cancelled => Cancelled')
  BY <1>1 DEF OneShutdown, Cancelled
<1>2. ASSUME NEW w \in Workers, WorkerStep(w) \/ TerminatedExit(w) \/ Environment(w)
      PROVE  lifecycle' = lifecycle /\ \A c \in Clients : calls'[c].pc = calls[c].pc
  <2>1. CASE TerminatedExit(w) \/ SpontaneousExit(w)
    <3>1. \A c \in Clients : [calls[c] EXCEPT !.proc = NoWorker].pc = calls[c].pc
      BY <1>0 DEF CallType
    <3> QED BY <1>0, <2>1, <3>1 DEF TerminatedExit, SpontaneousExit, Exit
  <2>2. ASSUME ~TerminatedExit(w), ~SpontaneousExit(w) PROVE UNCHANGED <<lifecycle, calls>>
    BY <1>2, <2>2
    DEF WorkerStep, Environment, LaunchFails, CheckPorts, Spawn, Attach, Answered, NotAnswered,
        BecomeReady, Discard, Abort, WatchExit, UpdateIngest, PollEnds, RestartAbandoned,
        ScheduleRestart, BackoffElapses, ResolveAgain, ApplyAgain, StartAgain, InstallFails,
        MoveAside, Publish, FinishInstall, PollIngest, StableRun
  <2> QED BY <2>1, <2>2
<1>3. ASSUME NEW c \in Clients, BeginCall(c) \/ CallStep(c)
      PROVE  OneShutdown' /\ (Cancelled => Cancelled')
  <2>1. \A d \in Clients \ {c} : calls'[d] = calls[d]
    BY <1>0, <1>3 DEF BeginCall, Begin, CallStep, Return, StartAccepted, StartRefused, StopRefused,
                      StopAccepted, StopReturns, ClearStopped, CheckRunning, Resolve,
                      ApplyResolution, InstallRefused, InstallAccepted, ShutDown, Cancel, Drain
  <2>2. ASSUME calls'[c].pc \notin ShutdownPCs, lifecycle' = lifecycle
        PROVE  OneShutdown' /\ (Cancelled => Cancelled')
    BY <2>1, <2>2 DEF OneShutdown, ShutdownPCs, Cancelled
  <2>3. ASSUME calls'[c].pc \in {"cancel", "reap"}, calls[c].pc \in ShutdownPCs
        PROVE  OneShutdown'
    BY <2>1, <2>3 DEF OneShutdown, ShutdownPCs
  <2>4. IdleCall.pc = "idle" /\ \A pc : [calls EXCEPT ![c].pc = pc][c].pc = pc
    BY <1>0 DEF IdleCall, CallType
  <2>5. CASE BeginCall(c)
    <3>1. ASSUME NEW op, NEW pc, Begin(c, op, pc) PROVE calls'[c].pc = pc /\ lifecycle' = lifecycle
      BY <1>0, <3>1 DEF Begin, IdleCall
    <3>2. CASE \E op \in {"start", "stop", "restart", "install"} : Begin(c, op, op)
      BY <2>2, <3>1, <3>2 DEF ShutdownPCs
    <3>3. CASE Begin(c, "shutdown", "shutdown") /\ \A other \in Clients : calls[other].pc = "idle"
      <4>1. /\ calls'[c].pc = "shutdown" /\ lifecycle = "open" /\ lifecycle' = lifecycle
            /\ \A d \in Clients \ {c} : calls'[d].pc = "idle"
        BY <2>1, <3>1, <3>3 DEF Begin
      <4> QED BY <4>1 DEF OneShutdown, ShutdownPCs, Cancelled
    <3> QED BY <2>5, <3>2, <3>3 DEF BeginCall
  <2>6. CASE \/ StartAccepted(c) \/ StartRefused(c) \/ StopRefused(c) \/ InstallRefused(c)
             \/ InstallAccepted(c)
    <3>1. calls' = [calls EXCEPT ![c] = IdleCall] /\ lifecycle' = lifecycle
      BY <2>6 DEF StartAccepted, StartRefused, StopRefused, InstallRefused, InstallAccepted, Return
    <3>2. calls'[c].pc = "idle"
      BY <1>0, <2>4, <3>1
    <3> QED BY <2>2, <3>1, <3>2 DEF ShutdownPCs
  <2>7. CASE ClearStopped(c)
    <3>1. calls' = [calls EXCEPT ![c].pc = "resolve"] \/ calls' = [calls EXCEPT ![c] = IdleCall]
      BY <2>7 DEF ClearStopped
    <3> QED BY <1>0, <2>2, <2>4, <2>7, <3>1 DEF ClearStopped, ShutdownPCs
  <2>8. CASE CheckRunning(c) \/ ApplyResolution(c)
    <3>1. PICK pc \in {"stop", "resolve", "start"} : calls' = [calls EXCEPT ![c].pc = pc]
      BY <2>8 DEF CheckRunning, ApplyResolution
    <3>2. lifecycle' = lifecycle
      BY <2>8 DEF CheckRunning, ApplyResolution
    <3> QED BY <2>2, <2>4, <3>1, <3>2 DEF ShutdownPCs
  <2>9. ASSUME NEW pc, NEW x PROVE /\ [calls EXCEPT ![c].pc = pc, ![c].found = x][c].pc = pc
                                   /\ [calls EXCEPT ![c].pc = pc, ![c].proc = x][c].pc = pc
    BY <1>0 DEF CallType
  <2>10. CASE Resolve(c)
    BY <2>2, <2>9, <2>10 DEF Resolve, ShutdownPCs
  <2>11. CASE StopAccepted(c) \/ StopReturns(c)
    <3>1. PICK pc, x : /\ pc \in {"stopping", "clear"}
                       /\ calls' = [calls EXCEPT ![c].pc = pc, ![c].proc = x]
      BY <2>11 DEF StopAccepted, StopReturns
    <3>2. lifecycle' = lifecycle
      BY <2>11 DEF StopAccepted, StopReturns
    <3> QED BY <2>2, <2>9, <3>1, <3>2 DEF ShutdownPCs
  <2>12. CASE ShutDown(c)
    <3>1. calls'[c].pc = "cancel" /\ calls[c].pc = "shutdown" /\ lifecycle = "open"
      BY <2>9, <2>12 DEF ShutDown, OneShutdown
    <3> QED BY <2>3, <3>1 DEF ShutdownPCs, Cancelled
  <2>13. CASE Cancel(c)
    <3>1. calls'[c].pc = "reap" /\ calls[c].pc = "cancel" /\ Cancelled'
      BY <2>4, <2>13 DEF Cancel, Cancelled
    <3> QED BY <2>3, <3>1 DEF ShutdownPCs
  <2>14. CASE Drain(c)
    <3>1. calls'[c].pc = "idle" /\ calls[c].pc = "reap" /\ Cancelled'
      BY <1>0, <2>4, <2>14 DEF Drain, Return, Cancelled
    <3> QED BY <2>1, <3>1 DEF OneShutdown, ShutdownPCs
  <2> QED
    BY <1>3, <2>5, <2>6, <2>7, <2>8, <2>10, <2>11, <2>12, <2>13, <2>14 DEF CallStep
<1>4. CASE UNCHANGED vars
  BY <1>1, <1>4 DEF vars
<1> QED BY <1>1, <1>2, <1>3, <1>4 DEF Next

LEMMA OrphanStep == GenerationInv /\ OrphanInv /\ [Next]_vars => OrphanInv'
<1> SUFFICES ASSUME GenerationInv, OrphanInv, [Next]_vars PROVE OrphanInv'
  OBVIOUS
<1>1. TypeOK /\ TypeOK'
  BY TypeStep DEF GenerationInv
<1>2. OneShutdown' /\ (Cancelled => Cancelled')
  BY <1>1, ShutdownStep DEF OrphanInv
<1>3. SUFFICES ASSUME ~Cancelled, ~Cancelled', Tells PROVE Tells'
  BY <1>2 DEF OrphanInv
<1>4. CASE UNCHANGED vars
  BY <1>3, <1>4 DEF vars, Tells, Numbered, RunsInStage, StateTells, Held, HeldBy, Leads, Current,
                    Active
<1>5. ASSUME NEW c \in Clients, BeginCall(c) \/ CallStep(c) PROVE Tells'
  BY <1>1, <1>3, <1>5, CallsHeld
<1>6. ASSUME NEW w \in Workers, WorkerStep(w) \/ TerminatedExit(w) \/ Environment(w) PROVE Tells'
  <2>1. CASE \E v \in Workers : Starts(w, v)
    BY <1>3, <2>1, StartsHeld
  <2>2. CASE OthersAlone(w) /\ WorkerEffects(w)
    <3>1. sup'.generation = sup.generation /\ sup.generation \in Nat
      BY <1>1, <2>2 DEF OthersAlone, TypeOK, SupType
    <3>2. \A v \in Workers : Keeps(workers'[v], workers[v])
      BY <1>1, <1>6, <3>1, WorkerGeneration DEF Retires, Launches
    <3> QED BY <1>3, <2>2, <3>2, WorkersHeld
  <2> QED BY <1>1, <1>3, <1>6, <2>1, <2>2, WorkerEffect
<1> QED BY <1>4, <1>5, <1>6 DEF Next

\* However calls, crashes, timers and failures interleave, until a shutdown cancels the
\* goroutines no MediaMTX process runs that nobody can stop: a running process is the
\* supervisor's current one, is about to be attached or discarded by its launch, or is in
\* the hands of a call, unless a stop or an installation that ended in the meantime has
\* overwritten the record of its start.
THEOREM NoOrphan == Spec => []NoOrphanProcess
<1>1. Init => GenerationInv /\ OrphanInv
  BY GenerationInit, OrphanInit
<1>2. GenerationInv /\ OrphanInv /\ [Next]_vars => (GenerationInv /\ OrphanInv)'
  BY GenerationStep, OrphanStep
<1>3. OrphanInv => NoOrphanProcess
  BY DEF OrphanInv, Tells, Held, HeldBy, NoOrphanProcess
<1> QED BY <1>1, <1>2, <1>3, PTL DEF Spec
=============================================================================
