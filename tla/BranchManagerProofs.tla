------------------------ MODULE BranchManagerProofs ------------------------
(***************************************************************************)
(* Proofs about BranchManager, for every number of platforms, clients and  *)
(* workers and every restart policy.  What a theorem assumes of the        *)
(* operations, the faults or the clients besides, it says.                 *)
(***************************************************************************)
EXTENDS BranchManager, TLAPS

LEMMA FreshType == Fresh \in BranchType /\ Untracked \in BranchType
<1>1. MinBackoff \in MinBackoff .. MaxBackoff /\ 0 \in 0 .. MaxRestarts
  BY PolicyAssumption
<1>2. Fresh \in BranchType
  BY <1>1 DEF Fresh, BranchType, State
<1>3. \A b \in BranchType : [b EXCEPT !.state = "untracked"] \in BranchType
  BY DEF BranchType, State
<1> QED
  BY <1>2, <1>3 DEF Untracked

LEMMA DoneType ==
  /\ Done \in WorkerType
  /\ \A p \in Platforms, g \in Nat : Launch(p, g) \in WorkerType
  BY DEF Done, Launch, WorkerType, Launching, Blockers

LEMMA IdleType == IdleCall \in CallType /\ IdleReconciler \in ReconcilerType
  BY DEF IdleCall, IdleReconciler, CallType, ReconcilerType, Blockers

LEMMA TypeInit == Init => TypeOK
  BY FreshType, DoneType, IdleType DEF Init, Ingest!Init, TypeOK

-----------------------------------------------------------------------------
(* Calls *)

LEMMA TypeBegin ==
  ASSUME TypeOK, NEW c \in Clients, BeginCall(c) PROVE TypeOK'
<1>1. ASSUME NEW op, NEW call \in CallType, Begin(c, op, call),
             UNCHANGED <<branches, workers, reconciler, ingest, exists>>,
             lifecycle' \in {"open", "closing"}
      PROVE  TypeOK'
  BY <1>1 DEF Begin, TypeOK
<1>2. ASSUME NEW p \in Platforms, BeginStart(c, p) PROVE TypeOK'
  <2>1. [IdleCall EXCEPT !.op = "start", !.pc = "get", !.platform = p] \in CallType
    BY DEF IdleCall, CallType, Operation, Blockers
  <2> QED BY <1>1, <1>2, <2>1 DEF BeginStart, Begin
<1>3. ASSUME NEW p \in Platforms, BeginStop(c, p) PROVE TypeOK'
  <2>1. [IdleCall EXCEPT !.op = "stop", !.pc = "stop", !.platform = p] \in CallType
    BY DEF IdleCall, CallType, Operation, Blockers
  <2> QED BY <1>1, <1>3, <2>1 DEF BeginStop, Begin
<1>4. ASSUME NEW p \in Platforms, BeginRestart(c, p) PROVE TypeOK'
  <2> DEFINE pc == IF branches[p].proc # NoWorker THEN "stop" ELSE "get"
  <2>1. [IdleCall EXCEPT !.op = "restart", !.platform = p, !.pc = pc] \in CallType
    BY DEF IdleCall, CallType, Operation, Blockers
  <2> QED BY <1>1, <1>4, <2>1 DEF BeginRestart, Begin
<1>5. ASSUME NEW p \in Platforms, BeginForget(c, p) PROVE TypeOK'
  <2>1. [IdleCall EXCEPT !.op = "forget", !.pc = "stop", !.platform = p] \in CallType
    BY DEF IdleCall, CallType, Operation, Blockers
  <2> QED BY <1>1, <1>5, <2>1 DEF BeginForget, Begin
<1>6. ASSUME NEW op \in Operation, NEW todo \in SUBSET Platforms
      PROVE  [IdleCall EXCEPT !.op = op, !.pc = "next", !.todo = todo] \in CallType
  BY DEF IdleCall, CallType, Blockers
<1>7. CASE BeginStartEnabled(c)
  <2>1. PICK enabled \in SUBSET Platforms :
          Begin(c, "startEnabled",
                [IdleCall EXCEPT !.op = "startEnabled", !.pc = "next", !.todo = enabled])
    BY <1>7 DEF BeginStartEnabled
  <2> QED BY <1>1, <1>6, <1>7, <2>1 DEF BeginStartEnabled, Begin, Operation
<1>8. CASE BeginStopAll(c)
  BY <1>1, <1>6, <1>8 DEF BeginStopAll, Begin, Operation
<1>9. CASE BeginShutdown(c)
  BY <1>1, <1>6, <1>9 DEF BeginShutdown, Begin, Operation
<1> QED
  BY <1>2, <1>3, <1>4, <1>5, <1>7, <1>8, <1>9 DEF BeginCall

LEMMA LoopType ==
  ASSUME NEW op \in Operation, NEW todo \in SUBSET Platforms
  PROVE  [IdleCall EXCEPT !.op = op, !.pc = "next", !.todo = todo] \in CallType
  BY DEF IdleCall, CallType, Blockers

LEMMA AfterType ==
  ASSUME TypeOK, NEW c \in Clients
  PROVE  /\ AfterStart(c) \in CallType
         /\ calls[c].pc \in {"stop", "stopping"} => AfterStop(c) \in CallType
<1>1. calls[c] \in CallType
  BY DEF TypeOK
<1>2. calls[c].todo \in SUBSET Platforms
  BY <1>1 DEF CallType
<1>3. ASSUME NEW r \in CallType, r.pc \in {"stop", "stopping"}
      PROVE  /\ [r EXCEPT !.pc = "get", !.proc = NoWorker] \in CallType
             /\ [r EXCEPT !.pc = "untrack", !.proc = NoWorker] \in CallType
             /\ [r EXCEPT !.pc = "next", !.platform = NoPlatform, !.proc = NoWorker] \in CallType
  BY <1>3 DEF CallType
<1>4. AfterStart(c) \in CallType
  BY <1>2, LoopType, IdleType DEF AfterStart, Operation
<1>5. ASSUME calls[c].pc \in {"stop", "stopping"} PROVE AfterStop(c) \in CallType
  BY <1>1, <1>3, <1>5, IdleType DEF AfterStop
<1> QED
  BY <1>4, <1>5

\* A branch record after any of its updates.
LEMMA BranchUpdates ==
  ASSUME NEW b \in BranchType
  PROVE  /\ \A st \in State, d \in BOOLEAN :
              /\ [b EXCEPT !.state = st] \in BranchType
              /\ [b EXCEPT !.state = st, !.desired = d] \in BranchType
              /\ [b EXCEPT !.state = st, !.desired = d, !.stopRequested = TRUE] \in BranchType
              /\ [b EXCEPT !.state = st, !.live = d] \in BranchType
              /\ [b EXCEPT !.state = st, !.live = d, !.generation = b.generation + 1] \in BranchType
         /\ \A w \in Workers : [b EXCEPT !.proc = w] \in BranchType
         /\ Started(b) \in BranchType /\ Started(b).generation \in Nat
         /\ Exited(b) \in BranchType
         /\ \A blockers \in Blockers : Rechecked(b, blockers) \in BranchType
<1>a. b.generation + 1 \in Nat
  BY DEF BranchType
<1>1. MinBackoff \in MinBackoff .. MaxBackoff /\ 0 \in 0 .. MaxRestarts
  BY PolicyAssumption
<1>2. \A st \in State, d \in BOOLEAN :
        /\ [b EXCEPT !.state = st] \in BranchType
        /\ [b EXCEPT !.state = st, !.desired = d] \in BranchType
        /\ [b EXCEPT !.state = st, !.desired = d, !.stopRequested = TRUE] \in BranchType
  BY DEF BranchType
<1>3. \A st \in State, d \in BOOLEAN :
        /\ [b EXCEPT !.state = st, !.live = d] \in BranchType
        /\ \A g \in Nat : [b EXCEPT !.state = st, !.live = d, !.generation = g] \in BranchType
  BY DEF BranchType
<1>4. \A w \in Workers : [b EXCEPT !.proc = w] \in BranchType
  BY DEF BranchType
<1>5. Started(b) \in BranchType
  <2>1. \A g \in Nat :
          [b EXCEPT !.state = "starting", !.desired = TRUE, !.stopRequested = FALSE,
                    !.generation = g, !.backoff = MinBackoff, !.restarts = 0,
                    !.live = FALSE] \in BranchType
    BY <1>1 DEF BranchType, State, Running
  <2> QED BY <1>a, <2>1 DEF Started
<1>6. Exited(b) \in BranchType
  BY DEF BranchType, Exited, State
<1>7. \A blockers \in Blockers : Rechecked(b, blockers) \in BranchType
  BY <1>2, <1>3 DEF Rechecked, State, Running, Blockers
<1>8. Started(b).generation \in Nat
  BY <1>5 DEF BranchType
<1> QED
  BY <1>a, <1>2, <1>3, <1>4, <1>5, <1>6, <1>7, <1>8

LEMMA HandleType ==
  ASSUME TypeOK, NEW p \in Platforms
  PROVE  /\ Handle(p) \in Workers \cup {NoWorker}
         /\ branches[p] \in BranchType /\ GetOrCreate(p) \in BranchType
<1>1. branches[p] \in BranchType
  BY DEF TypeOK
<1> QED
  BY <1>1, FreshType DEF Handle, GetOrCreate, BranchType

\* proc.stop only turns a running process into a signalled one.
LEMMA SignalledType ==
  ASSUME TypeOK, NEW w PROVE Signalled(w) \in [Workers -> WorkerType]
<1>1. \A r \in WorkerType :
        [r EXCEPT !.proc = IF @ = "running" THEN "signalled" ELSE @] \in WorkerType
  BY DEF WorkerType
<1>2. Signalled(w) = [workers EXCEPT ![w] =
        [workers[w] EXCEPT !.proc = IF @ = "running" THEN "signalled" ELSE @]]
  BY DEF Signalled
<1>3. CASE w \in Workers
  BY <1>1, <1>2, <1>3 DEF TypeOK
<1>4. CASE w \notin Workers
  BY <1>2, <1>4 DEF TypeOK
<1> QED
  BY <1>3, <1>4

LEMMA TypeCallStep ==
  ASSUME TypeOK, NEW c \in Clients, CallStep(c) PROVE TypeOK'
<1> DEFINE p == calls[c].platform
<1>a. calls[c] \in CallType
  BY DEF TypeOK
<1>b. calls[c].pc \notin {"idle", "next", "drain"} => p \in Platforms
  BY <1>a DEF CallType
<1>1. CASE NextPlatform(c)
  <2>1. PICK q \in calls[c].todo :
          calls' = [calls EXCEPT ![c].platform = q, ![c].todo = @ \ {q},
                      ![c].pc = IF calls[c].op = "startEnabled" THEN "get" ELSE "stop"]
    BY <1>1 DEF NextPlatform
  <2>2. q \in Platforms
    BY <1>a DEF CallType
  <2>3. \A r \in CallType, pc \in {"get", "stop"} :
          [r EXCEPT !.platform = q, !.todo = @ \ {q}, !.pc = pc] \in CallType
    BY <2>2 DEF CallType
  <2> QED BY <1>1, <1>a, <2>1, <2>3 DEF NextPlatform, TypeOK
<1>2. CASE FinishLoop(c)
  BY <1>2, IdleType DEF FinishLoop, TypeOK
<1>3. CASE CancelLifecycle(c)
  <2>1. \A r \in CallType : [r EXCEPT !.pc = "drain"] \in CallType
    BY DEF CallType
  <2> QED BY <1>3, <2>1 DEF CancelLifecycle, TypeOK
<1>4. CASE Drain(c)
  BY <1>4, IdleType DEF Drain, TypeOK
<1> DEFINE Update(pc) == [calls[c] EXCEPT !.pc = pc]
<1>c. ASSUME p \in Platforms PROVE /\ Update("check") \in CallType
                                   /\ Update("compute") \in CallType
                                   /\ Update("remove") \in CallType
  BY <1>a, <1>c DEF CallType
<1>5. CASE GetPlatform(c)
  BY <1>5, <1>b, <1>c, AfterType DEF GetPlatform, TypeOK
<1>6. CASE CheckConflict(c)
  <2>1. p \in Platforms
    BY <1>6, <1>b DEF CheckConflict
  <2>2. branches' \in [Platforms -> BranchType]
    BY <1>6, <2>1, HandleType DEF CheckConflict, TypeOK
  <2>3. calls' \in [Clients -> CallType]
    BY <1>6, <2>1, <1>c, AfterType DEF CheckConflict, TypeOK
  <2> QED BY <1>6, <2>2, <2>3 DEF CheckConflict, TypeOK
<1>7. CASE ComputeBlockers(c)
  <2>1. p \in Platforms
    BY <1>7, <1>b DEF ComputeBlockers
  <2>2. Evaluations(p) \subseteq Blockers
    BY DEF Evaluations, Blockers
  <2>3. \A blockers \in Blockers :
          [calls[c] EXCEPT !.pc = "commit", !.blockers = blockers] \in CallType
    BY <1>a, <2>1 DEF CallType
  <2>4. ASSUME NEW blockers \in Evaluations(p),
               calls' = [calls EXCEPT ![c].pc = "commit", ![c].blockers = blockers]
        PROVE  calls' \in [Clients -> CallType]
    BY <2>2, <2>3, <2>4 DEF TypeOK
  <2>5. calls' \in [Clients -> CallType]
    BY <1>7, <2>4, AfterType DEF ComputeBlockers, TypeOK
  <2> QED BY <1>7, <2>5 DEF ComputeBlockers, TypeOK
<1>8. CASE StartRefused(c)
  <2>1. p \in Platforms
    BY <1>8, <1>b DEF StartRefused
  <2>2. [GetOrCreate(p) EXCEPT !.state = "blocked", !.desired = FALSE] \in BranchType
    BY <2>1, HandleType, BranchUpdates DEF State
  <2>3. branches' \in [Platforms -> BranchType]
    BY <1>8, <2>1, <2>2, HandleType DEF StartRefused, TypeOK
  <2> QED BY <1>8, <2>3, AfterType DEF StartRefused, TypeOK
<1>9. CASE StartAccepted(c)
  <2>1. p \in Platforms
    BY <1>9, <1>b DEF StartAccepted
  <2>2. Started(GetOrCreate(p)) \in BranchType /\ Started(GetOrCreate(p)).generation \in Nat
    BY <2>1, HandleType, BranchUpdates
  <2>3. branches' \in [Platforms -> BranchType]
    BY <1>9, <2>1, <2>2 DEF StartAccepted, TypeOK
  <2>4. PICK w \in Workers :
          /\ workers' = [workers EXCEPT ![w] = Launch(p, Started(GetOrCreate(p)).generation)]
          /\ calls' = [calls EXCEPT ![c].pc = "launching", ![c].proc = w]
    BY <1>9 DEF StartAccepted
  <2>5. workers' \in [Workers -> WorkerType]
    BY <2>1, <2>2, <2>4, DoneType DEF TypeOK
  <2>6. [calls[c] EXCEPT !.pc = "launching", !.proc = w] \in CallType
    BY <1>a, <2>1 DEF CallType
  <2>7. calls' \in [Clients -> CallType]
    BY <2>4, <2>6 DEF TypeOK
  <2> QED BY <1>9, <2>3, <2>5, <2>7 DEF StartAccepted, TypeOK
<1>10. CASE LaunchReturns(c)
  BY <1>10, AfterType DEF LaunchReturns, TypeOK
<1>11. CASE StopRefused(c)
  BY <1>11, AfterType DEF StopRefused, TypeOK
<1>12. CASE StopWithoutProcess(c)
  <2>1. p \in Platforms
    BY <1>12, <1>b DEF StopWithoutProcess
  <2>2. [branches[p] EXCEPT !.state = "idle", !.desired = FALSE] \in BranchType
    BY <2>1, HandleType, BranchUpdates DEF State
  <2>3. branches' \in [Platforms -> BranchType]
    BY <1>12, <2>2 DEF StopWithoutProcess, TypeOK
  <2> QED BY <1>12, <2>3, AfterType DEF StopWithoutProcess, TypeOK
<1>13. CASE StopProcess(c)
  <2>1. p \in Platforms
    BY <1>13, <1>b DEF StopProcess
  <2>2. [branches[p] EXCEPT !.state = "stopping", !.desired = FALSE, !.stopRequested = TRUE]
          \in BranchType
    BY <2>1, HandleType, BranchUpdates DEF State
  <2>3. branches' \in [Platforms -> BranchType]
    BY <1>13, <2>2 DEF StopProcess, TypeOK
  <2>4. [calls[c] EXCEPT !.pc = "stopping", !.proc = Handle(p)] \in CallType
    BY <1>a, <2>1, HandleType DEF CallType
  <2>5. calls' \in [Clients -> CallType]
    BY <1>13, <2>4 DEF StopProcess, TypeOK
  <2> QED BY <1>13, <2>3, <2>5, SignalledType DEF StopProcess, TypeOK
<1>14. CASE StopReturns(c)
  BY <1>14, AfterType DEF StopReturns, TypeOK
<1>15. CASE Untrack(c)
  <2>1. p \in Platforms
    BY <1>15, <1>b DEF Untrack
  <2>2. branches' \in [Platforms -> BranchType]
    BY <1>15, FreshType DEF Untrack, TypeOK
  <2>3. \A r \in WorkerType : [r EXCEPT !.detached = TRUE] \in WorkerType
    BY DEF WorkerType
  <2>4. workers' \in [Workers -> WorkerType]
    BY <1>15, <2>3 DEF Untrack, TypeOK
  <2>5. [reconciler EXCEPT !.pc = "kill", !.proc = Handle(p)] \in ReconcilerType
          \/ reconciler.pc = "idle"
    BY <2>1, HandleType DEF ReconcilerType, TypeOK
  <2>6. reconciler' \in ReconcilerType
    BY <1>15, <2>5 DEF Untrack, TypeOK
  <2>7. calls' \in [Clients -> CallType]
    BY <1>15, <2>1, <1>c DEF Untrack, TypeOK
  <2> QED BY <1>15, <2>2, <2>4, <2>6, <2>7 DEF Untrack, TypeOK
<1>16. CASE RemovePlatform(c)
  BY <1>16, IdleType DEF RemovePlatform, TypeOK
<1> QED
  BY <1>1, <1>2, <1>3, <1>4, <1>5, <1>6, <1>7, <1>8, <1>9, <1>10, <1>11, <1>12,
     <1>13, <1>14, <1>15, <1>16 DEF CallStep

-----------------------------------------------------------------------------
(* Workers, reconciler, environment *)

LEMMA MoveType ==
  ASSUME TypeOK, NEW w \in Workers
  PROVE  /\ \A pc \in Launching \cup Supervising \cup Retrying :
              Active(w) /\ Move(w, pc) => workers' \in [Workers -> WorkerType]
         /\ Finish(w) => workers' \in [Workers -> WorkerType]
         /\ Active(w) => workers[w].platform \in Platforms
         /\ workers[w] \in WorkerType
<1>1. workers[w] \in WorkerType
  BY DEF TypeOK
<1>2. Active(w) => workers[w].platform \in Platforms
  BY <1>1 DEF Active, WorkerType
<1>3. ASSUME NEW pc \in Launching \cup Supervising \cup Retrying, Active(w)
      PROVE  [workers[w] EXCEPT !.pc = pc] \in WorkerType
  BY <1>1, <1>2, <1>3 DEF WorkerType
<1> QED
  BY <1>1, <1>2, <1>3, DoneType DEF Move, Finish, TypeOK

\* The restart policy keeps the delay and the window within their bounds.
LEMMA PolicyType ==
  ASSUME NEW b \in BranchType, NEW a \in AgedBranches(b)
  PROVE  /\ a \in BranchType
         /\ a.restarts < MaxRestarts =>
              [a EXCEPT !.state = "restarting", !.restarts = @ + 1, !.backoff = Doubled(@)]
                \in BranchType
         /\ [a EXCEPT !.state = "error", !.desired = FALSE] \in BranchType
<1>1. MinBackoff \in MinBackoff .. MaxBackoff /\ 0 \in 0 .. MaxRestarts
  BY PolicyAssumption
<1>2. \A kept \in 0 .. b.restarts : kept \in 0 .. MaxRestarts
  BY PolicyAssumption DEF BranchType
<1>3. \A kept \in 0 .. MaxRestarts : [b EXCEPT !.restarts = kept] \in BranchType
  BY DEF BranchType
<1>4. [b EXCEPT !.backoff = MinBackoff, !.restarts = 0] \in BranchType
  BY <1>1 DEF BranchType
<1>5. a \in BranchType
  BY <1>2, <1>3, <1>4 DEF AgedBranches
<1>6. Doubled(a.backoff) \in MinBackoff .. MaxBackoff
  <2>1. a.backoff \in MinBackoff .. MaxBackoff
    BY <1>5 DEF BranchType
  <2> QED BY <2>1, PolicyAssumption DEF Doubled
<1>7. a.restarts < MaxRestarts => a.restarts + 1 \in 0 .. MaxRestarts
  <2>1. a.restarts \in 0 .. MaxRestarts
    BY <1>5 DEF BranchType
  <2> QED BY <2>1, PolicyAssumption
<1>8. \A delay \in MinBackoff .. MaxBackoff, n \in 0 .. MaxRestarts :
        [a EXCEPT !.state = "restarting", !.restarts = n, !.backoff = delay] \in BranchType
  BY <1>5 DEF BranchType, State, Running
<1> QED
  BY <1>5, <1>6, <1>7, <1>8, BranchUpdates DEF State

LEMMA TypeWorkerStep ==
  ASSUME TypeOK, NEW w \in Workers, WorkerStep(w) PROVE TypeOK'
<1> DEFINE p == workers[w].platform
<1>a. Active(w) => p \in Platforms
  BY MoveType
<1>b. ASSUME branches' \in [Platforms -> BranchType], workers' \in [Workers -> WorkerType],
             UNCHANGED <<calls, reconciler, ingest, exists, lifecycle, used>>
      PROVE  TypeOK'
  BY <1>b DEF TypeOK
<1>c. ASSUME NEW b \in BranchType
      PROVE  [branches EXCEPT ![p] = b] \in [Platforms -> BranchType]
  BY <1>c DEF TypeOK
<1>d. branches \in [Platforms -> BranchType] /\ workers[w] \in WorkerType
  BY DEF TypeOK
<1>1. CASE LaunchFails(w)
  <2>1. p \in Platforms
    BY <1>1, <1>a DEF LaunchFails, Active
  <2>2. [branches[p] EXCEPT !.state = "error", !.desired = FALSE] \in BranchType
    BY <2>1, HandleType, BranchUpdates DEF State
  <2>3. branches' \in [Platforms -> BranchType]
    BY <1>1, <2>2, <1>c, <1>d DEF LaunchFails
  <2> QED BY <1>1, <1>b, <2>3, MoveType DEF LaunchFails
<1>2. CASE RetrieveKey(w)
  BY <1>2, <1>b, <1>d, MoveType DEF RetrieveKey, Active, Launching
<1>3. CASE Spawn(w)
  <2>1. [workers[w] EXCEPT !.pc = "attach", !.proc = "running"] \in WorkerType
    BY <1>3, <1>a, <1>d DEF Spawn, Active, WorkerType, Launching
  <2>2. workers' \in [Workers -> WorkerType]
    BY <1>3, <2>1 DEF Spawn, TypeOK
  <2> QED BY <1>3, <1>b, <1>d, <2>2 DEF Spawn
<1>4. CASE Attach(w)
  <2>1. p \in Platforms
    BY <1>4, <1>a DEF Attach, Active
  <2>2. [branches[p] EXCEPT !.proc = w] \in BranchType
    BY <2>1, HandleType, BranchUpdates
  <2>3. branches' \in [Platforms -> BranchType]
    BY <1>4, <2>2, <1>c, <1>d DEF Attach
  <2>4. \A r \in WorkerType : r.pc # "done" => [r EXCEPT !.pc = "discard"] \in WorkerType
    BY DEF WorkerType, Launching
  <2>5. Signalled(w)[w] \in WorkerType /\ Signalled(w)[w].pc = "attach"
    BY <1>4, SignalledType DEF Attach, Signalled, TypeOK
  <2>6. [Signalled(w) EXCEPT ![w].pc = "discard"] \in [Workers -> WorkerType]
    BY SignalledType, <2>4, <2>5
  <2>7. workers' \in [Workers -> WorkerType]
    BY <1>4, <2>6, MoveType DEF Attach, Active, Supervising
  <2> QED BY <1>4, <1>b, <2>3, <2>7 DEF Attach
<1>5. CASE Discard(w)
  BY <1>5, <1>b, <1>d, MoveType DEF Discard
<1>6. CASE WatchExit(w)
  <2>1. p \in Platforms
    BY <1>6, <1>a DEF WatchExit, Active
  <2>2. branches' \in [Platforms -> BranchType]
    BY <1>6, <2>1, <1>c, <1>d, HandleType, BranchUpdates DEF WatchExit
  <2>3. workers' \in [Workers -> WorkerType]
    BY <1>6, MoveType DEF WatchExit, Active, Supervising
  <2> QED BY <1>6, <1>b, <2>2, <2>3 DEF WatchExit
<1>7. CASE Settle(w)
  BY <1>7, <1>b, <1>d, MoveType DEF Settle, Active, Supervising
<1>8. CASE Park(w)
  <2>1. p \in Platforms
    BY <1>8, <1>a DEF Park, Active
  <2>2. [branches[p] EXCEPT !.state = "waiting_for_ingest"] \in BranchType
    BY <2>1, HandleType, BranchUpdates DEF State
  <2>3. branches' \in [Platforms -> BranchType]
    BY <1>8, <2>2, <1>c, <1>d DEF Park
  <2> QED BY <1>8, <1>b, <2>3, MoveType DEF Park
<1>9. CASE ScheduleRestart(w)
  <2>1. p \in Platforms
    BY <1>9, <1>a DEF ScheduleRestart, Active
  <2>2. PICK b \in AgedBranches(branches[p]) :
          \/ /\ branches' = [branches EXCEPT ![p] = [b EXCEPT !.state = "error", !.desired = FALSE]]
             /\ Finish(w)
          \/ /\ b.restarts < MaxRestarts
             /\ branches' = [branches EXCEPT ![p] =
                  [b EXCEPT !.state = "restarting", !.restarts = @ + 1, !.backoff = Doubled(@)]]
             /\ Move(w, "backoff")
    BY <1>9 DEF ScheduleRestart
  <2>a. branches[p] \in BranchType
    BY <2>1, HandleType
  <2>b. /\ [b EXCEPT !.state = "error", !.desired = FALSE] \in BranchType
        /\ b.restarts < MaxRestarts =>
             [b EXCEPT !.state = "restarting", !.restarts = @ + 1, !.backoff = Doubled(@)]
               \in BranchType
    BY <2>a, PolicyType
  <2>3. branches' \in [Platforms -> BranchType]
    <3>1. CASE branches' = [branches EXCEPT ![p] = [b EXCEPT !.state = "error", !.desired = FALSE]]
      BY <3>1, <2>b, <1>c
    <3>2. CASE /\ b.restarts < MaxRestarts
               /\ branches' = [branches EXCEPT ![p] =
                    [b EXCEPT !.state = "restarting", !.restarts = @ + 1, !.backoff = Doubled(@)]]
      BY <3>2, <2>b, <1>c
    <3> QED BY <2>2, <3>1, <3>2
  <2>4. workers' \in [Workers -> WorkerType]
    BY <1>9, <2>2, MoveType DEF ScheduleRestart, Active, Retrying
  <2> QED BY <1>9, <1>b, <2>3, <2>4 DEF ScheduleRestart
<1>10. CASE AbandonRestart(w)
  BY <1>10, <1>b, <1>d, MoveType DEF AbandonRestart
<1>11. CASE RetryAfterBackoff(w)
  BY <1>11, <1>b, <1>d, MoveType DEF RetryAfterBackoff, Active, Retrying
<1>12. CASE EvaluateRetry(w)
  <2>1. PICK blockers \in Evaluations(p) :
          workers' = [workers EXCEPT ![w].pc = "recheck", ![w].blockers = blockers]
    BY <1>12 DEF EvaluateRetry
  <2>2. blockers \in Blockers
    BY DEF Evaluations, Blockers
  <2>3. [workers[w] EXCEPT !.pc = "recheck", !.blockers = blockers] \in WorkerType
    BY <1>12, <1>a, <1>d, <2>2 DEF EvaluateRetry, Active, WorkerType, Retrying
  <2>4. workers' \in [Workers -> WorkerType]
    BY <2>1, <2>3 DEF TypeOK
  <2> QED BY <1>12, <1>b, <1>d, <2>4 DEF EvaluateRetry
<1>13. CASE Retry(w)
  <2>1. p \in Platforms
    BY <1>13, <1>a DEF Retry, Active
  <2>2. workers[w].blockers \in Blockers
    BY <1>d DEF WorkerType
  <2>3. branches' \in [Platforms -> BranchType]
    BY <1>13, <2>1, <2>2, <1>c, HandleType, BranchUpdates DEF Retry
  <2>4. workers' \in [Workers -> WorkerType]
    BY <1>13, MoveType DEF Retry, Active, Launching
  <2> QED BY <1>13, <1>b, <2>3, <2>4 DEF Retry
<1> QED
  BY <1>1, <1>2, <1>3, <1>4, <1>5, <1>6, <1>7, <1>8, <1>9, <1>10, <1>11, <1>12, <1>13
     DEF WorkerStep

LEMMA TypeReconciler ==
  ASSUME TypeOK, ReconcilerStep \/ \E p \in Platforms : Reconcile(p) PROVE TypeOK'
<1> DEFINE p == reconciler.platform
<1>a. reconciler \in ReconcilerType /\ (reconciler.pc # "idle" => p \in Platforms)
  BY DEF TypeOK, ReconcilerType
<1>b. ASSUME reconciler' \in ReconcilerType,
             UNCHANGED <<branches, workers, calls, ingest, exists, lifecycle, used>>
      PROVE  TypeOK'
  BY <1>b DEF TypeOK
<1>1. ASSUME NEW q \in Platforms, Reconcile(q) PROVE TypeOK'
  <2>1. \A pc \in {"get", "loss"} :
          [reconciler EXCEPT !.pc = pc, !.platform = q] \in ReconcilerType
    BY <1>a DEF ReconcilerType
  <2> QED BY <1>1, <1>b, <2>1 DEF Reconcile
<1>2. CASE TakeProcess
  <2>1. [reconciler EXCEPT !.pc = "kill", !.proc = Handle(p)] \in ReconcilerType
    BY <1>2, <1>a, HandleType DEF TakeProcess, ReconcilerType
  <2> QED BY <1>2, <1>b, <2>1 DEF TakeProcess
<1>3. CASE KillProcess
  <2>1. [reconciler EXCEPT !.pc = "stopping"] \in ReconcilerType
    BY <1>3, <1>a DEF KillProcess, ReconcilerType
  <2>2. reconciler' \in ReconcilerType /\ workers' \in [Workers -> WorkerType]
    BY <1>3, <2>1, IdleType, SignalledType DEF KillProcess, TypeOK
  <2> QED BY <1>3, <2>2 DEF KillProcess, TypeOK
<1>4. CASE KillReturns
  BY <1>4, <1>b, IdleType DEF KillReturns
<1>5. CASE EvaluateResume
  <2>1. reconciler.pc = "get" => [reconciler EXCEPT !.pc = "resume"] \in ReconcilerType
    BY <1>a DEF ReconcilerType
  <2> QED BY <1>5, <1>b, <2>1, IdleType DEF EvaluateResume
<1>6. CASE ResumeRefused
  BY <1>6, <1>b, IdleType DEF ResumeRefused
<1>7. CASE Resume
  <2> DEFINE g == branches[p].generation + 1
  <2>1. p \in Platforms
    BY <1>7, <1>a DEF Resume
  <2>2. g \in Nat
    BY <2>1, HandleType DEF BranchType
  <2>3. [branches[p] EXCEPT !.state = "starting", !.live = FALSE, !.generation = g] \in BranchType
    BY <2>1, HandleType, BranchUpdates DEF State, Running
  <2>4. branches' \in [Platforms -> BranchType]
    BY <1>7, <2>3 DEF Resume, TypeOK
  <2>5. PICK w \in Workers :
          /\ workers' = [workers EXCEPT ![w] = Launch(p, g)]
          /\ reconciler' = [reconciler EXCEPT !.pc = "launching", !.proc = w]
    BY <1>7 DEF Resume
  <2>6. workers' \in [Workers -> WorkerType]
    BY <2>1, <2>2, <2>5, DoneType DEF TypeOK
  <2>7. reconciler' \in ReconcilerType
    BY <1>a, <2>1, <2>5 DEF ReconcilerType
  <2> QED BY <1>7, <2>4, <2>6, <2>7 DEF Resume, TypeOK
<1>8. CASE ResumeReturns
  BY <1>8, <1>b, IdleType DEF ResumeReturns
<1> QED
  BY <1>1, <1>2, <1>3, <1>4, <1>5, <1>6, <1>7, <1>8 DEF ReconcilerStep

LEMMA TypeExit ==
  ASSUME TypeOK, NEW w \in Workers, Exit(w)
  PROVE  /\ workers' \in [Workers -> WorkerType]
         /\ calls' \in [Clients -> CallType]
         /\ reconciler' \in ReconcilerType
<1>1. \A r \in WorkerType : [r EXCEPT !.proc = "none"] \in WorkerType
  BY DEF WorkerType
<1>2. \A r \in CallType : [r EXCEPT !.proc = NoWorker] \in CallType
  BY DEF CallType
<1>3. \A r \in ReconcilerType : [r EXCEPT !.proc = NoWorker] \in ReconcilerType
  BY DEF ReconcilerType
<1> QED
  BY <1>1, <1>2, <1>3 DEF Exit, TypeOK

LEMMA TypeEnvironment ==
  ASSUME TypeOK, Environment \/ \E w \in Workers : TerminatedExit(w) PROVE TypeOK'
<1>1. ASSUME NEW w \in Workers, TerminatedExit(w) PROVE TypeOK'
  BY <1>1, TypeExit DEF TerminatedExit, TypeOK
<1>2. ASSUME NEW w \in Workers, SpontaneousExit(w) PROVE TypeOK'
  <2>1. used' \in [calls : Nat, losses : Nat, crashes : Nat]
    BY <1>2 DEF SpontaneousExit, TypeOK
  <2> QED BY <1>2, <2>1, TypeExit DEF SpontaneousExit, TypeOK
<1>3. ASSUME NEW w \in Workers, Progress(w) PROVE TypeOK'
  <2> DEFINE p == workers[w].platform
  <2>1. p \in Platforms
    BY <1>3, MoveType DEF Progress, Current
  <2>2. [branches[p] EXCEPT !.state = "live", !.live = TRUE] \in BranchType
    BY <2>1, HandleType, BranchUpdates DEF State, Running
  <2> QED BY <1>3, <2>2 DEF Progress, TypeOK
<1>4. CASE IngestLost
  BY <1>4 DEF IngestLost, Ingest!Lost, TypeOK
<1>5. CASE IngestCleared \/ IngestReceived
  BY <1>5 DEF IngestCleared, IngestReceived, Ingest!Cleared, Ingest!Received, TypeOK
<1> QED
  BY <1>1, <1>2, <1>3, <1>4, <1>5 DEF Environment

\* The types hold in every reachable state, whatever the bounds: in particular no
\* backoff ever leaves [MinBackoff, MaxBackoff] and no window ever counts more
\* than MaxRestarts restarts.
THEOREM TypeCorrect == Spec => []TypeOK
<1>1. Init => TypeOK
  BY TypeInit
<1>2. TypeOK /\ [Next]_vars => TypeOK'
  <2> SUFFICES ASSUME TypeOK, [Next]_vars PROVE TypeOK'
    OBVIOUS
  <2>1. CASE UNCHANGED vars
    BY <2>1 DEF vars, TypeOK
  <2>2. CASE Next
    BY <2>2, TypeBegin, TypeCallStep, TypeWorkerStep, TypeReconciler, TypeEnvironment DEF Next
  <2> QED BY <2>1, <2>2
<1> QED
  BY <1>1, <1>2, PTL DEF Spec

-----------------------------------------------------------------------------
(* The state agrees with the desire *)

Agrees(b) ==
  /\ b.state \in Running => b.desired
  /\ b.state \in {"untracked", "idle", "blocked", "stopping", "error"} => ~b.desired
  /\ b.stopRequested => ~b.desired
RecordsAgree == StateAgreesWithDesire /\ StopRequestIsNotStale

LEMMA AgreesEverywhere == RecordsAgree <=> \A p \in Platforms : Agrees(branches[p])
  BY DEF RecordsAgree, StateAgreesWithDesire, StopRequestIsNotStale, Agrees

\* Each update of a record keeps the agreement, given what its guard establishes.
LEMMA AgreesUpdates ==
  /\ Agrees(Fresh) /\ Agrees(Untracked)
  /\ \A b \in BranchType :
       /\ \A st \in {"idle", "blocked", "error"} :
            Agrees([b EXCEPT !.state = st, !.desired = FALSE])
       /\ Agrees([b EXCEPT !.state = "stopping", !.desired = FALSE, !.stopRequested = TRUE])
       /\ Agrees(Started(b))
       /\ Agrees(b) => \A w : Agrees([b EXCEPT !.proc = w])
       /\ Agrees(b) => Agrees(Exited(b))
       /\ Agrees(b) => Agrees([b EXCEPT !.state = "waiting_for_ingest"])
       /\ Agrees(b) /\ b.desired => \A blockers \in Blockers : Agrees(Rechecked(b, blockers))
       /\ Agrees(b) /\ b.desired => \A g : Agrees([b EXCEPT !.state = "starting", !.live = FALSE, !.generation = g])
       /\ Agrees(b) /\ b.desired => Agrees([b EXCEPT !.state = "live", !.live = TRUE])
       /\ Agrees(b) /\ b.desired => \A a \in AgedBranches(b) : Agrees(
            [a EXCEPT !.state = "restarting", !.restarts = @ + 1, !.backoff = Doubled(@)])
<1>1. Agrees(Fresh) /\ Agrees(Untracked)
  BY DEF Agrees, Fresh, Untracked, Running
<1> SUFFICES ASSUME NEW b \in BranchType
             PROVE  /\ \A st \in {"idle", "blocked", "error"} :
                         Agrees([b EXCEPT !.state = st, !.desired = FALSE])
                    /\ Agrees([b EXCEPT !.state = "stopping", !.desired = FALSE, !.stopRequested = TRUE])
                    /\ Agrees(Started(b))
                    /\ Agrees(b) => \A w : Agrees([b EXCEPT !.proc = w])
                    /\ Agrees(b) => Agrees(Exited(b))
                    /\ Agrees(b) => Agrees([b EXCEPT !.state = "waiting_for_ingest"])
                    /\ Agrees(b) /\ b.desired => \A blockers \in Blockers : Agrees(Rechecked(b, blockers))
                    /\ Agrees(b) /\ b.desired => \A g : Agrees([b EXCEPT !.state = "starting", !.live = FALSE, !.generation = g])
                    /\ Agrees(b) /\ b.desired => Agrees([b EXCEPT !.state = "live", !.live = TRUE])
                    /\ Agrees(b) /\ b.desired => \A a \in AgedBranches(b) : Agrees(
                         [a EXCEPT !.state = "restarting", !.restarts = @ + 1, !.backoff = Doubled(@)])
  BY <1>1
<1>2. \A st \in {"idle", "blocked", "error"} :
        Agrees([b EXCEPT !.state = st, !.desired = FALSE])
  BY DEF Agrees, BranchType, Running
<1>3. /\ Agrees([b EXCEPT !.state = "stopping", !.desired = FALSE, !.stopRequested = TRUE])
      /\ Agrees(b) => Agrees([b EXCEPT !.state = "waiting_for_ingest"])
  BY DEF Agrees, BranchType, Running
<1>4. Agrees(Started(b))
  BY DEF Agrees, Started, BranchType, Running
<1>5. Agrees(b) => Agrees(Exited(b)) /\ \A w : Agrees([b EXCEPT !.proc = w])
  BY DEF Agrees, Exited, BranchType, Running
<1>6. Agrees(b) /\ b.desired => \A blockers \in Blockers : Agrees(Rechecked(b, blockers))
  BY DEF Agrees, Rechecked, BranchType, Running, Blockers
<1>7. Agrees(b) /\ b.desired =>
        /\ \A g : Agrees([b EXCEPT !.state = "starting", !.live = FALSE, !.generation = g])
        /\ Agrees([b EXCEPT !.state = "live", !.live = TRUE])
  BY DEF Agrees, BranchType, Running
<1>8. ASSUME Agrees(b), b.desired, NEW a \in AgedBranches(b)
      PROVE  Agrees([a EXCEPT !.state = "restarting", !.restarts = @ + 1, !.backoff = Doubled(@)])
  <2>1. /\ \A kept : LET r == [b EXCEPT !.restarts = kept]
                     IN r.desired /\ r.stopRequested = b.stopRequested
        /\ LET r == [b EXCEPT !.backoff = MinBackoff, !.restarts = 0]
           IN r.desired /\ r.stopRequested = b.stopRequested
    BY <1>8 DEF BranchType
  <2>2. a \in BranchType /\ a.desired /\ ~a.stopRequested
    BY <1>8, <2>1, PolicyType DEF AgedBranches, Agrees
  <2> QED BY <2>2 DEF Agrees, BranchType, Running
<1> QED
  BY <1>2, <1>3, <1>4, <1>5, <1>6, <1>7, <1>8

LEMMA AgreesStep ==
  ASSUME TypeOK, RecordsAgree, [Next]_vars PROVE RecordsAgree'
<1>a. ASSUME NEW p \in Platforms, NEW b, Agrees(b), branches' = [branches EXCEPT ![p] = b]
      PROVE  RecordsAgree'
  BY <1>a, AgreesEverywhere DEF TypeOK, RecordsAgree, StateAgreesWithDesire, StopRequestIsNotStale, Agrees
<1>b. ASSUME UNCHANGED branches PROVE RecordsAgree'
  BY <1>b DEF RecordsAgree, StateAgreesWithDesire, StopRequestIsNotStale
<1>c. \A p \in Platforms : /\ branches[p] \in BranchType /\ GetOrCreate(p) \in BranchType
                           /\ Agrees(branches[p]) /\ Agrees(GetOrCreate(p))
  BY HandleType, AgreesEverywhere, AgreesUpdates DEF GetOrCreate
<1>d. \A c \in Clients : calls[c].pc \notin {"idle", "next", "drain"}
                           => calls[c].platform \in Platforms
  BY DEF TypeOK, CallType
<1>e. \A w \in Workers : Active(w) => /\ workers[w].platform \in Platforms
                                      /\ workers[w].blockers \in Blockers
  BY MoveType DEF WorkerType
<1>1. ASSUME NEW c \in Clients, BeginCall(c) PROVE RecordsAgree'
  BY <1>1, <1>b DEF BeginCall, BeginStart, BeginStop, BeginRestart, BeginForget,
                    BeginStartEnabled, BeginStopAll, BeginShutdown
<1>2. ASSUME NEW c \in Clients, CallStep(c) PROVE RecordsAgree'
  <2> DEFINE p == calls[c].platform
  <2>1. CASE CheckConflict(c)
    BY <2>1, <1>a, <1>c, <1>d DEF CheckConflict
  <2>2. CASE StartRefused(c)
    BY <2>2, <1>a, <1>c, <1>d, AgreesUpdates DEF StartRefused
  <2>3. CASE StartAccepted(c)
    BY <2>3, <1>a, <1>c, <1>d, AgreesUpdates DEF StartAccepted
  <2>4. CASE StopWithoutProcess(c)
    <3>1. branches' = [branches EXCEPT ![p] = [branches[p] EXCEPT !.state = "idle", !.desired = FALSE]]
      BY <2>4 DEF StopWithoutProcess
    <3>2. p \in Platforms
      BY <2>4, <1>d DEF StopWithoutProcess
    <3> QED BY <3>1, <3>2, <1>a, <1>c, AgreesUpdates
  <2>5. CASE StopProcess(c)
    <3>1. branches' = [branches EXCEPT ![p] =
            [branches[p] EXCEPT !.state = "stopping", !.desired = FALSE, !.stopRequested = TRUE]]
      BY <2>5 DEF StopProcess
    <3>2. p \in Platforms
      BY <2>5, <1>d DEF StopProcess
    <3> QED BY <3>1, <3>2, <1>a, <1>c, AgreesUpdates
  <2>6. CASE Untrack(c)
    BY <2>6, <1>a, <1>d, AgreesUpdates DEF Untrack
  <2>7. CASE \/ NextPlatform(c) \/ FinishLoop(c) \/ CancelLifecycle(c) \/ Drain(c)
             \/ GetPlatform(c) \/ ComputeBlockers(c) \/ LaunchReturns(c)
             \/ StopRefused(c) \/ StopReturns(c) \/ RemovePlatform(c)
    BY <2>7, <1>b DEF NextPlatform, FinishLoop, CancelLifecycle, Drain, GetPlatform,
       ComputeBlockers, LaunchReturns, StopRefused, StopReturns, RemovePlatform
  <2> QED BY <1>2, <2>1, <2>2, <2>3, <2>4, <2>5, <2>6, <2>7 DEF CallStep
<1>3. ASSUME NEW w \in Workers, WorkerStep(w) PROVE RecordsAgree'
  <2> DEFINE p == workers[w].platform
  <2>1. CASE LaunchFails(w)
    <3>1. p \in Platforms
      BY <2>1, <1>e DEF LaunchFails, Active
    <3>2. \/ UNCHANGED branches
          \/ branches' = [branches EXCEPT ![p] = [branches[p] EXCEPT !.state = "error", !.desired = FALSE]]
      BY <2>1 DEF LaunchFails
    <3> QED BY <3>1, <3>2, <1>a, <1>b, <1>c, AgreesUpdates
  <2>2. CASE Attach(w)
    <3>1. p \in Platforms
      BY <2>2, <1>e DEF Attach, Active
    <3>2. \/ UNCHANGED branches
          \/ branches' = [branches EXCEPT ![p] = [branches[p] EXCEPT !.proc = w]]
      BY <2>2 DEF Attach
    <3> QED BY <3>1, <3>2, <1>a, <1>b, <1>c, AgreesUpdates
  <2>3. CASE WatchExit(w)
    <3>1. p \in Platforms
      BY <2>3, <1>e DEF WatchExit, Active
    <3> QED BY <2>3, <3>1, <1>a, <1>b, <1>c, AgreesUpdates DEF WatchExit
  <2>4. CASE Park(w)
    <3>1. p \in Platforms
      BY <2>4, <1>e DEF Park, Active
    <3>2. \/ UNCHANGED branches
          \/ branches' = [branches EXCEPT ![p] = [branches[p] EXCEPT !.state = "waiting_for_ingest"]]
      BY <2>4 DEF Park
    <3> QED BY <3>1, <3>2, <1>a, <1>b, <1>c, AgreesUpdates
  <2>5. CASE ScheduleRestart(w)
    <3>1. p \in Platforms /\ branches[p].desired
      BY <2>5, <1>e DEF ScheduleRestart, Active
    <3>2. PICK b \in AgedBranches(branches[p]) :
            \/ branches' = [branches EXCEPT ![p] = [b EXCEPT !.state = "error", !.desired = FALSE]]
            \/ branches' = [branches EXCEPT ![p] =
                 [b EXCEPT !.state = "restarting", !.restarts = @ + 1, !.backoff = Doubled(@)]]
      BY <2>5 DEF ScheduleRestart
    <3>3. b \in BranchType
      BY <3>1, <1>c, PolicyType
    <3>4. Agrees([b EXCEPT !.state = "error", !.desired = FALSE])
      BY <3>3, AgreesUpdates
    <3>5. Agrees([b EXCEPT !.state = "restarting", !.restarts = @ + 1, !.backoff = Doubled(@)])
      BY <3>1, <1>c, AgreesUpdates
    <3>6. CASE branches' = [branches EXCEPT ![p] = [b EXCEPT !.state = "error", !.desired = FALSE]]
      BY <3>1, <3>4, <3>6, <1>a
    <3>7. CASE branches' = [branches EXCEPT ![p] =
                 [b EXCEPT !.state = "restarting", !.restarts = @ + 1, !.backoff = Doubled(@)]]
      BY <3>1, <3>5, <3>7, <1>a
    <3> QED BY <3>2, <3>6, <3>7
  <2>6. CASE Retry(w)
    <3>1. p \in Platforms /\ branches[p].desired /\ workers[w].blockers \in Blockers
      BY <2>6, <1>e DEF Retry, Active
    <3>2. branches' = [branches EXCEPT ![p] = Rechecked(branches[p], workers[w].blockers)]
      BY <2>6 DEF Retry
    <3>3. Agrees(Rechecked(branches[p], workers[w].blockers))
      BY <3>1, <1>c, AgreesUpdates
    <3> QED BY <3>1, <3>2, <3>3, <1>a
  <2>7. CASE \/ RetrieveKey(w) \/ Spawn(w) \/ Discard(w) \/ Settle(w) \/ AbandonRestart(w)
             \/ RetryAfterBackoff(w) \/ EvaluateRetry(w)
    BY <2>7, <1>b DEF RetrieveKey, Spawn, Discard, Settle, AbandonRestart,
                      RetryAfterBackoff, EvaluateRetry
  <2> QED BY <1>3, <2>1, <2>2, <2>3, <2>4, <2>5, <2>6, <2>7 DEF WorkerStep
<1>4. CASE Resume
  <2> DEFINE p == reconciler.platform
  <2>1. p \in Platforms /\ branches[p].desired
    BY <1>4 DEF Resume, CanResume, TypeOK, ReconcilerType
  <2>2. branches' = [branches EXCEPT ![p] =
          [branches[p] EXCEPT !.state = "starting", !.live = FALSE,
                              !.generation = branches[p].generation + 1]]
    BY <1>4 DEF Resume
  <2> QED BY <2>1, <2>2, <1>a, <1>c, AgreesUpdates
<1>5. ASSUME NEW w \in Workers, Progress(w) PROVE RecordsAgree'
  <2> DEFINE p == workers[w].platform
  <2>1. p \in Platforms /\ branches[p].desired
    BY <1>5, <1>e DEF Progress, Current, RecordsAgree, StateAgreesWithDesire, Running
  <2>2. branches' = [branches EXCEPT ![p] = [branches[p] EXCEPT !.state = "live", !.live = TRUE]]
    BY <1>5 DEF Progress
  <2> QED BY <2>1, <2>2, <1>a, <1>c, AgreesUpdates
<1>6. CASE \/ \E p \in Platforms : Reconcile(p)
           \/ TakeProcess \/ KillProcess \/ KillReturns \/ EvaluateResume
           \/ ResumeRefused \/ ResumeReturns
           \/ \E w \in Workers : TerminatedExit(w) \/ SpontaneousExit(w)
           \/ IngestLost \/ IngestCleared \/ IngestReceived
           \/ UNCHANGED vars
  BY <1>6, <1>b DEF Reconcile, TakeProcess, KillProcess, KillReturns, EvaluateResume,
     ResumeRefused, ResumeReturns, TerminatedExit, SpontaneousExit, IngestLost,
     IngestCleared, IngestReceived, vars
<1> QED
  BY <1>1, <1>2, <1>3, <1>4, <1>5, <1>6 DEF Next, ReconcilerStep, Environment

LEMMA AgreesAlways == Spec => []RecordsAgree
<1>1. Init => RecordsAgree
  BY AgreesUpdates, AgreesEverywhere DEF Init
<1>2. TypeOK /\ RecordsAgree /\ [Next]_vars => RecordsAgree'
  BY AgreesStep
<1> QED
  BY <1>1, <1>2, TypeCorrect, PTL DEF Spec

\* In every reachable state, with every interleaving of starts, stops, deletions,
\* crashes and retries, the published state and desiredRunning tell the same story.
THEOREM StateAgreement == Spec => []StateAgreesWithDesire
<1>1. RecordsAgree => StateAgreesWithDesire
  BY DEF RecordsAgree
<1> QED
  BY <1>1, AgreesAlways, PTL

\* A stop that a crash overtook is never charged to a later run: no interleaving
\* leaves stopRequested set on a branch that is desired to run.
THEOREM StopRequestFreshness == Spec => []StopRequestIsNotStale
<1>1. RecordsAgree => StopRequestIsNotStale
  BY DEF RecordsAgree
<1> QED
  BY <1>1, AgreesAlways, PTL

-----------------------------------------------------------------------------
(* At most one worker holds a platform's current generation.  A Forget drops *)
(* the record and with it the counter, so this is about managers that are    *)
(* never asked to forget a platform.                                         *)

NoForgetting ==
  \A c \in Clients : calls[c].op # "forget" /\ calls[c].pc \notin {"untrack", "remove"}

\* A worker was launched by the record it works for, at that time or before.
LaunchedByRecord ==
  \A w \in Workers : Active(w) =>
    /\ Tracked(workers[w].platform)
    /\ workers[w].generation <= branches[workers[w].platform].generation

\* What a step can do to generations: nothing, except that workers may finish ...
KeepsRecords ==
  \A p \in Platforms : Tracked(p) => /\ Tracked(p)'
                                     /\ branches'[p].generation = branches[p].generation
KeepsWorkers ==
  \A w \in Workers : Active(w)' => /\ Active(w)
                                   /\ workers'[w].platform = workers[w].platform
                                   /\ workers'[w].generation = workers[w].generation

\* ... or start worker w on the next generation of p.
Launches(p, w) ==
  /\ Tracked(p)'
  /\ Tracked(p) => branches'[p].generation = branches[p].generation + 1
  /\ \A q \in Platforms \ {p} : branches'[q] = branches[q]
  /\ ~Active(w)
  /\ workers' = [workers EXCEPT ![w] = Launch(p, branches'[p].generation)]

KeepsOrLaunches == \/ KeepsRecords /\ KeepsWorkers
                   \/ \E p \in Platforms, w \in Workers : Launches(p, w)

\* Only the call that forgets takes the two steps of forgetting.
LEMMA NoForgettingStep ==
  ASSUME "forget" \notin Operations, TypeOK, NoForgetting, [Next]_vars
  PROVE  NoForgetting'
<1>a. ASSUME NEW c \in Clients, NEW r, calls' = [calls EXCEPT ![c] = r],
             r.op # "forget", r.pc \notin {"untrack", "remove"}
      PROVE  NoForgetting'
  BY <1>a DEF NoForgetting, TypeOK
<1>b. IdleCall.op # "forget" /\ IdleCall.pc \notin {"untrack", "remove"}
  BY DEF IdleCall
<1>c. ASSUME NEW c \in Clients
      PROVE  /\ AfterStart(c).op # "forget" /\ AfterStart(c).pc \notin {"untrack", "remove"}
             /\ AfterStop(c).op # "forget" /\ AfterStop(c).pc \notin {"untrack", "remove"}
  <2>1. calls[c] \in CallType /\ calls[c].op # "forget"
    BY DEF TypeOK, NoForgetting
  <2> QED BY <2>1, <1>b DEF AfterStart, AfterStop, IdleCall, CallType
<1>d. ASSUME UNCHANGED calls PROVE NoForgetting'
  BY <1>d DEF NoForgetting
<1>e. ASSUME NEW op, NEW c \in Clients, NEW call, Begin(c, op, call),
             call.op = op, call.pc \notin {"untrack", "remove"}
      PROVE  NoForgetting'
  BY <1>e, <1>a DEF Begin
<1>1. ASSUME NEW c \in Clients, BeginCall(c) PROVE NoForgetting'
  <2>1. \A p : ~BeginForget(c, p)
    BY DEF BeginForget, Begin
  <2>2. ASSUME NEW p \in Platforms, BeginStart(c, p) \/ BeginStop(c, p) PROVE NoForgetting'
    BY <2>2, <1>e DEF BeginStart, BeginStop, IdleCall
  <2>3. ASSUME NEW p \in Platforms, BeginRestart(c, p) PROVE NoForgetting'
    BY <2>3, <1>e DEF BeginRestart, IdleCall
  <2>4. ASSUME NEW op, NEW todo,
               Begin(c, op, [IdleCall EXCEPT !.op = op, !.pc = "next", !.todo = todo])
        PROVE  NoForgetting'
    BY <2>4, <1>e DEF IdleCall
  <2>5. CASE BeginStartEnabled(c)
    BY <2>4, <2>5 DEF BeginStartEnabled
  <2>6. CASE BeginStopAll(c) \/ BeginShutdown(c)
    BY <2>4, <2>6 DEF BeginStopAll, BeginShutdown
  <2> QED BY <1>1, <2>1, <2>2, <2>3, <2>5, <2>6 DEF BeginCall
<1>2. ASSUME NEW c \in Clients, CallStep(c) PROVE NoForgetting'
  <2>1. /\ calls[c].op # "forget" /\ calls[c].pc \notin {"untrack", "remove"}
        /\ calls[c] \in CallType
    BY DEF NoForgetting, TypeOK
  <2>2. CASE FinishLoop(c) \/ Drain(c) \/ GetPlatform(c) \/ CheckConflict(c) \/ StartRefused(c)
             \/ LaunchReturns(c) \/ StopRefused(c) \/ StopWithoutProcess(c) \/ StopReturns(c)
    BY <2>1, <2>2, <1>a, <1>b, <1>c DEF CallType, FinishLoop, Drain, GetPlatform, CheckConflict,
       StartRefused, LaunchReturns, StopRefused, StopWithoutProcess, StopReturns
  <2>3. ASSUME NEW pc \in {"get", "stop", "drain", "commit", "launching", "stopping"},
               NEW r, calls' = [calls EXCEPT ![c] = r], r.op = calls[c].op, r.pc = pc
        PROVE  NoForgetting'
    BY <2>1, <2>3, <1>a
  <2>4. CASE NextPlatform(c)
    <3> DEFINE pc == IF calls[c].op = "startEnabled" THEN "get" ELSE "stop"
    <3>1. PICK p \in calls[c].todo :
            calls' = [calls EXCEPT ![c] = [calls[c] EXCEPT !.platform = p, !.todo = @ \ {p},
                                                           !.pc = pc]]
      BY <2>4 DEF NextPlatform
    <3>2. \A q : LET r == [calls[c] EXCEPT !.platform = q, !.todo = @ \ {q}, !.pc = pc]
                 IN r.op = calls[c].op /\ r.pc = pc
      BY <2>1 DEF CallType
    <3> QED BY <2>3, <3>1, <3>2
  <2>5. CASE CancelLifecycle(c)
    BY <2>1, <2>3, <2>5 DEF CancelLifecycle, CallType
  <2>6. CASE ComputeBlockers(c)
    <3>1. \/ \E b : calls' = [calls EXCEPT ![c] = [calls[c] EXCEPT !.pc = "commit", !.blockers = b]]
          \/ calls' = [calls EXCEPT ![c] = AfterStart(c)]
      BY <2>6 DEF ComputeBlockers
    <3>2. \A b : LET r == [calls[c] EXCEPT !.pc = "commit", !.blockers = b]
                 IN r.op = calls[c].op /\ r.pc = "commit"
      BY <2>1 DEF CallType
    <3> QED BY <2>1, <2>3, <1>a, <1>c, <3>1, <3>2
  <2>7. CASE StartAccepted(c)
    <3>1. \E w \in Workers :
            calls' = [calls EXCEPT ![c] = [calls[c] EXCEPT !.pc = "launching", !.proc = w]]
      BY <2>7 DEF StartAccepted
    <3> QED BY <2>1, <2>3, <3>1 DEF CallType
  <2>8. CASE StopProcess(c)
    <3>1. \E w : calls' = [calls EXCEPT ![c] = [calls[c] EXCEPT !.pc = "stopping", !.proc = w]]
      BY <2>8 DEF StopProcess
    <3> QED BY <2>1, <2>3, <3>1 DEF CallType
  <2> QED BY <1>2, <2>1, <2>2, <2>4, <2>5, <2>6, <2>7, <2>8
          DEF CallStep, Untrack, RemovePlatform
<1>3. ASSUME NEW w \in Workers, TerminatedExit(w) \/ SpontaneousExit(w) PROVE NoForgetting'
  <2>1. \A c \in Clients : calls'[c].op = calls[c].op /\ calls'[c].pc = calls[c].pc
    BY <1>3 DEF TerminatedExit, SpontaneousExit, Exit, TypeOK, CallType
  <2> QED BY <2>1 DEF NoForgetting
<1>4. ASSUME NEW w \in Workers, WorkerStep(w) \/ Progress(w) PROVE NoForgetting'
  BY <1>4, <1>d DEF WorkerStep, LaunchFails, RetrieveKey, Spawn, Attach, Discard, WatchExit,
     Settle, Park, ScheduleRestart, AbandonRestart, RetryAfterBackoff, EvaluateRetry, Retry,
     Progress
<1>5. CASE \/ ReconcilerStep \/ \E p \in Platforms : Reconcile(p)
           \/ IngestLost \/ IngestCleared \/ IngestReceived \/ UNCHANGED vars
  BY <1>5, <1>d DEF ReconcilerStep, Reconcile, TakeProcess, KillProcess, KillReturns,
     EvaluateResume, ResumeRefused, Resume, ResumeReturns, IngestLost, IngestCleared,
     IngestReceived, vars
<1> QED
  BY <1>1, <1>2, <1>3, <1>4, <1>5 DEF Next, Environment

\* The ways a step keeps the records and the workers.
LEMMA KeepsRecordsUpdates ==
  ASSUME TypeOK
  PROVE  /\ UNCHANGED branches => KeepsRecords
         /\ \A p \in Platforms : \A b :
              /\ branches' = [branches EXCEPT ![p] = b]
              /\ Tracked(p) => b.state # "untracked" /\ b.generation = branches[p].generation
              => KeepsRecords
  BY DEF TypeOK, KeepsRecords, Tracked

LEMMA KeepsWorkersUpdates ==
  ASSUME TypeOK, NEW w \in Workers
  PROVE  /\ UNCHANGED workers => KeepsWorkers
         /\ Finish(w) => KeepsWorkers
         /\ workers' = Signalled(w) => KeepsWorkers
         /\ \A r : /\ workers' = [workers EXCEPT ![w] = r]
                   /\ Active(w) /\ r.platform = workers[w].platform
                   /\ r.generation = workers[w].generation
                   => KeepsWorkers
         /\ \A pc : Active(w) /\ Move(w, pc) => KeepsWorkers
<1>1. \A v \in Workers : workers[v] \in WorkerType
  BY DEF TypeOK
<1>2. UNCHANGED workers => KeepsWorkers
  BY DEF KeepsWorkers, Active
<1>3. Finish(w) => KeepsWorkers
  BY DEF KeepsWorkers, Active, Finish, Done, TypeOK
<1>4. \A r : /\ workers' = [workers EXCEPT ![w] = r]
             /\ Active(w) /\ r.platform = workers[w].platform
             /\ r.generation = workers[w].generation
             => KeepsWorkers
  BY DEF KeepsWorkers, Active, TypeOK
<1>5. ASSUME NEW pc, Active(w), Move(w, pc) PROVE KeepsWorkers
  <2>1. [workers[w] EXCEPT !.pc = pc].platform = workers[w].platform
    BY <1>1 DEF WorkerType
  <2>2. [workers[w] EXCEPT !.pc = pc].generation = workers[w].generation
    BY <1>1 DEF WorkerType
  <2> QED BY <1>4, <1>5, <2>1, <2>2 DEF Move
<1>6. ASSUME workers' = Signalled(w) PROVE KeepsWorkers
  <2> DEFINE r == [workers[w] EXCEPT !.proc = IF @ = "running" THEN "signalled" ELSE @]
  <2>1. r.pc = workers[w].pc /\ r.platform = workers[w].platform
          /\ r.generation = workers[w].generation
    BY <1>1 DEF WorkerType
  <2>2. workers' = [workers EXCEPT ![w] = r]
    BY <1>6 DEF Signalled
  <2> QED BY <2>1, <2>2 DEF KeepsWorkers, Active, TypeOK
<1> QED
  BY <1>2, <1>3, <1>4, <1>5, <1>6

\* Unless a record is forgotten, a step keeps the generations or takes the next one.
LEMMA ShapeStep ==
  ASSUME TypeOK, NoForgetting, [Next]_vars PROVE KeepsOrLaunches
<1>a. ASSUME KeepsRecords, KeepsWorkers PROVE KeepsOrLaunches
  BY <1>a DEF KeepsOrLaunches
<1>b. \A p \in Platforms : branches[p] \in BranchType
  BY HandleType
<1>c. \A c \in Clients : calls[c].pc \notin {"idle", "next", "drain"}
                           => calls[c].platform \in Platforms
  BY DEF TypeOK, CallType
<1>d. \A w \in Workers : Active(w) => workers[w].platform \in Platforms
  BY MoveType
<1>1. ASSUME NEW c \in Clients, BeginCall(c) PROVE KeepsOrLaunches
  BY <1>1, <1>a DEF BeginCall, BeginStart, BeginStop, BeginRestart, BeginForget,
     BeginStartEnabled, BeginStopAll, BeginShutdown, KeepsRecords, KeepsWorkers, Tracked, Active
<1>2. ASSUME NEW c \in Clients, CallStep(c) PROVE KeepsOrLaunches
  <2> DEFINE p == calls[c].platform
  <2>a. ASSUME UNCHANGED workers PROVE KeepsWorkers
    BY <2>a DEF KeepsWorkers, Active
  <2>1. CASE CheckConflict(c)
    <3>1. branches' = [branches EXCEPT ![p] = GetOrCreate(p)] /\ p \in Platforms
            /\ UNCHANGED workers
      BY <2>1, <1>c DEF CheckConflict
    <3> QED BY <3>1, <1>a, <2>a, KeepsRecordsUpdates DEF GetOrCreate, Tracked
  <2>2. CASE StartRefused(c)
    <3> DEFINE b == GetOrCreate(p)
    <3>1. /\ \/ branches' = [branches EXCEPT ![p] = b]
             \/ branches' = [branches EXCEPT ![p] = [b EXCEPT !.state = "blocked", !.desired = FALSE]]
          /\ p \in Platforms /\ UNCHANGED workers
      BY <2>2, <1>c DEF StartRefused
    <3>2. b \in BranchType
      BY <3>1, HandleType
    <3>3. LET r == [b EXCEPT !.state = "blocked", !.desired = FALSE]
          IN r.state # "untracked" /\ r.generation = b.generation
      BY <3>2 DEF BranchType
    <3>4. Tracked(p) => b = branches[p] /\ b.state # "untracked"
      BY DEF GetOrCreate, Tracked
    <3>5. KeepsRecords
      BY <3>1, <3>3, <3>4, KeepsRecordsUpdates
    <3> QED BY <3>1, <3>5, <1>a, <2>a
  <2>3. CASE StartAccepted(c)
    <3> DEFINE b == GetOrCreate(p)
    <3>1. p \in Platforms /\ b \in BranchType
      BY <2>3, <1>c, HandleType DEF StartAccepted
    <3>2. /\ branches' = [branches EXCEPT ![p] = Started(b)]
          /\ \E w \in Workers : /\ Allocatable(w)
                                /\ workers' = [workers EXCEPT ![w] = Launch(p, Started(b).generation)]
      BY <2>3 DEF StartAccepted
    <3>3. Started(b).generation = b.generation + 1 /\ Started(b).state # "untracked"
      BY <3>1 DEF Started, BranchType
    <3>4. PICK q \in Platforms : q = p
      BY <3>1
    <3>5. branches'[q] = Started(b) /\ \A r \in Platforms \ {q} : branches'[r] = branches[r]
      BY <3>2, <3>4 DEF TypeOK
    <3>6. Tracked(q)' /\ (Tracked(q) => branches'[q].generation = branches[q].generation + 1)
      BY <3>3, <3>4, <3>5 DEF Tracked, GetOrCreate
    <3>7. PICK w \in Workers : Allocatable(w) /\ workers' = [workers EXCEPT ![w] = Launch(q, branches'[q].generation)]
      BY <3>2, <3>4, <3>5
    <3>8. Launches(q, w)
      BY <3>5, <3>6, <3>7 DEF Launches, Allocatable
    <3> QED BY <3>8 DEF KeepsOrLaunches
  <2>4. CASE StopWithoutProcess(c)
    <3> DEFINE b == [branches[p] EXCEPT !.state = "idle", !.desired = FALSE]
    <3>1. branches' = [branches EXCEPT ![p] = b] /\ p \in Platforms /\ UNCHANGED workers
      BY <2>4, <1>c DEF StopWithoutProcess
    <3>2. b.state # "untracked" /\ b.generation = branches[p].generation
      BY <3>1, <1>b DEF BranchType
    <3> QED BY <3>1, <3>2, <1>a, <2>a, KeepsRecordsUpdates
  <2>5. CASE StopProcess(c)
    <3> DEFINE b == [branches[p] EXCEPT !.state = "stopping", !.desired = FALSE,
                                        !.stopRequested = TRUE]
    <3>1. /\ branches' = [branches EXCEPT ![p] = b] /\ p \in Platforms
          /\ workers' = Signalled(branches[p].proc) /\ branches[p].proc # NoWorker
      BY <2>5, <1>c DEF StopProcess
    <3>2. b.state # "untracked" /\ b.generation = branches[p].generation
      BY <3>1, <1>b DEF BranchType
    <3>3. branches[p].proc \in Workers
      BY <3>1, <1>b DEF BranchType
    <3>4. KeepsRecords
      BY <3>1, <3>2, KeepsRecordsUpdates
    <3> QED BY <3>1, <3>3, <3>4, <1>a, KeepsWorkersUpdates
  <2>6. CASE \/ NextPlatform(c) \/ FinishLoop(c) \/ CancelLifecycle(c) \/ Drain(c)
             \/ GetPlatform(c) \/ ComputeBlockers(c) \/ LaunchReturns(c)
             \/ StopRefused(c) \/ StopReturns(c) \/ RemovePlatform(c)
    <3>1. UNCHANGED <<branches, workers>>
      BY <2>6 DEF NextPlatform, FinishLoop, CancelLifecycle, Drain, GetPlatform,
         ComputeBlockers, LaunchReturns, StopRefused, StopReturns, RemovePlatform
    <3> QED BY <3>1, <1>a, <2>a, KeepsRecordsUpdates
  <2>7. ~Untrack(c)
    BY DEF NoForgetting, Untrack
  <2> QED BY <1>2, <2>1, <2>2, <2>3, <2>4, <2>5, <2>6, <2>7 DEF CallStep
<1>3. ASSUME NEW w \in Workers, WorkerStep(w) PROVE KeepsOrLaunches
  <2> DEFINE p == workers[w].platform
  <2>a. ASSUME NEW b, branches' = [branches EXCEPT ![p] = b], p \in Platforms,
               b.state # "untracked", b.generation = branches[p].generation
        PROVE  KeepsRecords
    BY <2>a, KeepsRecordsUpdates
  <2>b. ASSUME NEW st \in State \ {"untracked"}, NEW b \in BranchType, NEW d \in BOOLEAN
        PROVE  /\ [b EXCEPT !.state = st].state # "untracked"
               /\ [b EXCEPT !.state = st].generation = b.generation
               /\ [b EXCEPT !.state = st, !.desired = d].state # "untracked"
               /\ [b EXCEPT !.state = st, !.desired = d].generation = b.generation
    BY DEF BranchType
  <2>1. CASE LaunchFails(w)
    <3>1. p \in Platforms /\ Finish(w)
      BY <2>1, <1>d DEF LaunchFails, Active
    <3>2. \/ UNCHANGED branches
          \/ branches' = [branches EXCEPT ![p] = [branches[p] EXCEPT !.state = "error", !.desired = FALSE]]
      BY <2>1 DEF LaunchFails
    <3>3. KeepsRecords
      <4>1. CASE UNCHANGED branches
        BY <4>1, KeepsRecordsUpdates
      <4>2. CASE branches' = [branches EXCEPT ![p] =
                               [branches[p] EXCEPT !.state = "error", !.desired = FALSE]]
        <5>1. branches[p] \in BranchType
          BY <1>b, <3>1
        <5>2. "error" \in State \ {"untracked"} /\ FALSE \in BOOLEAN
          BY DEF State
        <5> QED BY <2>a, <2>b, <3>1, <4>2, <5>1, <5>2
      <4> QED BY <3>2, <4>1, <4>2
    <3> QED BY <3>1, <3>3, <1>a, KeepsWorkersUpdates
  <2>2. CASE Attach(w)
    <3>1. p \in Platforms /\ Active(w) /\ workers[w].pc = "attach"
      BY <2>2, <1>d DEF Attach, Active
    <3>2. CASE Current(w) /\ Move(w, "watch")
                /\ branches' = [branches EXCEPT ![p] = [branches[p] EXCEPT !.proc = w]]
      <4>1. [branches[p] EXCEPT !.proc = w].state = branches[p].state
              /\ [branches[p] EXCEPT !.proc = w].generation = branches[p].generation
        BY <3>1, <1>b DEF BranchType
      <4>2. KeepsRecords
        BY <3>1, <3>2, <4>1, <2>a DEF Current, Tracked
      <4> QED BY <3>1, <3>2, <4>2, <1>a, KeepsWorkersUpdates
    <3>3. CASE UNCHANGED branches /\ workers' = [Signalled(w) EXCEPT ![w].pc = "discard"]
      <4>1. \A v \in Workers : /\ workers'[v].platform = workers[v].platform
                               /\ workers'[v].generation = workers[v].generation
                               /\ v # w => workers'[v].pc = workers[v].pc
        BY <3>3 DEF Signalled, TypeOK, WorkerType
      <4>2. KeepsWorkers
        BY <3>1, <4>1 DEF KeepsWorkers, Active
      <4> QED BY <3>3, <4>2, <1>a, KeepsRecordsUpdates
    <3> QED BY <2>2, <3>2, <3>3 DEF Attach
  <2>3. CASE WatchExit(w)
    <3>1. p \in Platforms /\ Active(w)
      BY <2>3, <1>d DEF WatchExit, Active
    <3>2. branches[p].state # "untracked" =>
            Exited(branches[p]).state # "untracked"
              /\ Exited(branches[p]).generation = branches[p].generation
      BY <3>1, <1>b DEF Exited, BranchType
    <3>3. \/ UNCHANGED branches
          \/ Current(w) /\ branches' = [branches EXCEPT ![p] = Exited(branches[p])]
      BY <2>3 DEF WatchExit
    <3>4. KeepsRecords
      BY <3>1, <3>2, <3>3, <2>a, KeepsRecordsUpdates DEF Current, Tracked
    <3>5. Move(w, "settle") \/ Finish(w)
      BY <2>3 DEF WatchExit
    <3> QED BY <3>1, <3>4, <3>5, <1>a, KeepsWorkersUpdates
  <2>4. CASE Park(w)
    <3>1. p \in Platforms /\ Finish(w)
      BY <2>4, <1>d DEF Park, Active
    <3>2. \/ UNCHANGED branches
          \/ branches' = [branches EXCEPT ![p] = [branches[p] EXCEPT !.state = "waiting_for_ingest"]]
      BY <2>4 DEF Park
    <3>3. KeepsRecords
      BY <3>1, <3>2, <1>b, <2>a, <2>b, KeepsRecordsUpdates DEF State
    <3> QED BY <3>1, <3>3, <1>a, KeepsWorkersUpdates
  <2>5. CASE ScheduleRestart(w)
    <3>1. p \in Platforms /\ Active(w)
      BY <2>5, <1>d DEF ScheduleRestart, Active
    <3>2. PICK b \in AgedBranches(branches[p]) :
            \/ /\ branches' = [branches EXCEPT ![p] = [b EXCEPT !.state = "error", !.desired = FALSE]]
               /\ Finish(w)
            \/ /\ branches' = [branches EXCEPT ![p] =
                    [b EXCEPT !.state = "restarting", !.restarts = @ + 1, !.backoff = Doubled(@)]]
               /\ Move(w, "backoff")
      BY <2>5 DEF ScheduleRestart
    <3>3. b \in BranchType /\ b.generation = branches[p].generation
      <4>1. b \in BranchType
        BY <3>1, <1>b, PolicyType
      <4>2. /\ \A kept : [branches[p] EXCEPT !.restarts = kept].generation = branches[p].generation
            /\ [branches[p] EXCEPT !.backoff = MinBackoff, !.restarts = 0].generation
                  = branches[p].generation
        BY <3>1, <1>b DEF BranchType
      <4> QED BY <4>1, <4>2 DEF AgedBranches
    <3>4. LET r == [b EXCEPT !.state = "restarting", !.restarts = @ + 1, !.backoff = Doubled(@)]
          IN r.state # "untracked" /\ r.generation = b.generation
      BY <3>3 DEF BranchType
    <3>5. LET r == [b EXCEPT !.state = "error", !.desired = FALSE]
          IN r.state # "untracked" /\ r.generation = b.generation
      BY <3>3 DEF BranchType
    <3>6. KeepsRecords
      BY <3>1, <3>2, <3>3, <3>4, <3>5, <2>a
    <3> QED BY <3>1, <3>2, <3>6, <1>a, KeepsWorkersUpdates
  <2>6. CASE Retry(w)
    <3>1. p \in Platforms /\ Active(w) /\ Tracked(p) /\ workers[w].blockers \in Blockers
      BY <2>6, <1>d, MoveType DEF Retry, Active, Current, WorkerType
    <3>2. branches' = [branches EXCEPT ![p] = Rechecked(branches[p], workers[w].blockers)]
      BY <2>6 DEF Retry
    <3>3. \A b \in BranchType, blockers \in Blockers :
            Rechecked(b, blockers).state # "untracked" /\ Rechecked(b, blockers).generation = b.generation
      BY DEF Rechecked, BranchType, Blockers
    <3>4. KeepsRecords
      BY <3>1, <3>2, <3>3, <1>b, <2>a
    <3>5. Move(w, "key") \/ Finish(w)
      BY <2>6 DEF Retry
    <3> QED BY <3>1, <3>4, <3>5, <1>a, KeepsWorkersUpdates
  <2>7. CASE RetrieveKey(w) \/ Discard(w) \/ Settle(w) \/ AbandonRestart(w) \/ RetryAfterBackoff(w)
    <3>1. /\ UNCHANGED branches /\ Active(w)
          /\ Finish(w) \/ \E pc : Move(w, pc)
      BY <2>7 DEF RetrieveKey, Discard, Settle, AbandonRestart, RetryAfterBackoff, Active
    <3> QED BY <3>1, <1>a, KeepsRecordsUpdates, KeepsWorkersUpdates
  <2>8. CASE Spawn(w)
    <3>1. /\ UNCHANGED branches /\ Active(w)
          /\ workers' = [workers EXCEPT ![w] = [workers[w] EXCEPT !.pc = "attach", !.proc = "running"]]
      BY <2>8 DEF Spawn, Active
    <3>2. LET r == [workers[w] EXCEPT !.pc = "attach", !.proc = "running"]
          IN r.platform = p /\ r.generation = workers[w].generation
      BY MoveType DEF WorkerType
    <3> QED BY <3>1, <3>2, <1>a, KeepsRecordsUpdates, KeepsWorkersUpdates
  <2>9. CASE EvaluateRetry(w)
    <3>1. /\ UNCHANGED branches /\ Active(w)
          /\ \E blockers : workers' = [workers EXCEPT ![w] =
                              [workers[w] EXCEPT !.pc = "recheck", !.blockers = blockers]]
      BY <2>9 DEF EvaluateRetry, Active
    <3>2. \A blockers : LET r == [workers[w] EXCEPT !.pc = "recheck", !.blockers = blockers]
                        IN r.platform = p /\ r.generation = workers[w].generation
      BY MoveType DEF WorkerType
    <3> QED BY <3>1, <3>2, <1>a, KeepsRecordsUpdates, KeepsWorkersUpdates
  <2> QED BY <1>3, <2>1, <2>2, <2>3, <2>4, <2>5, <2>6, <2>7, <2>8, <2>9 DEF WorkerStep
<1>4. CASE Resume
  <2> DEFINE p == reconciler.platform  g == branches[p].generation + 1
             b == [branches[p] EXCEPT !.state = "starting", !.live = FALSE, !.generation = g]
  <2>1. p \in Platforms
    BY <1>4 DEF Resume, TypeOK, ReconcilerType
  <2>2. /\ branches' = [branches EXCEPT ![p] = b]
        /\ \E w \in Workers : ~Active(w) /\ workers' = [workers EXCEPT ![w] = Launch(p, g)]
    BY <1>4 DEF Resume, Allocatable
  <2>3. b.state # "untracked" /\ b.generation = g
    BY <2>1, <1>b DEF BranchType
  <2>4. PICK q \in Platforms : q = p
    BY <2>1
  <2>5. branches'[q] = b /\ \A r \in Platforms \ {q} : branches'[r] = branches[r]
    BY <2>2, <2>4 DEF TypeOK
  <2>6. PICK w \in Workers : ~Active(w) /\ workers' = [workers EXCEPT ![w] = Launch(q, branches'[q].generation)]
    BY <2>2, <2>3, <2>4, <2>5
  <2>7. Launches(q, w)
    BY <2>3, <2>4, <2>5, <2>6 DEF Launches, Tracked
  <2> QED BY <2>7 DEF KeepsOrLaunches
<1>5. ASSUME NEW w \in Workers, Progress(w) PROVE KeepsOrLaunches
  <2> DEFINE p == workers[w].platform  b == [branches[p] EXCEPT !.state = "live", !.live = TRUE]
  <2>1. p \in Platforms /\ branches' = [branches EXCEPT ![p] = b] /\ UNCHANGED workers
    BY <1>5, <1>d DEF Progress, Current
  <2>2. b.state # "untracked" /\ b.generation = branches[p].generation
    BY <2>1, <1>b DEF BranchType
  <2> QED BY <2>1, <2>2, <1>a, KeepsRecordsUpdates, KeepsWorkersUpdates
<1>6. ASSUME NEW w \in Workers, TerminatedExit(w) \/ SpontaneousExit(w) PROVE KeepsOrLaunches
  <2>1. /\ UNCHANGED branches
        /\ workers' = [workers EXCEPT ![w] = [workers[w] EXCEPT !.proc = "none"]]
    BY <1>6 DEF TerminatedExit, SpontaneousExit, Exit
  <2>2. \A v \in Workers : /\ workers'[v].pc = workers[v].pc
                           /\ workers'[v].platform = workers[v].platform
                           /\ workers'[v].generation = workers[v].generation
    BY <2>1 DEF TypeOK, WorkerType
  <2>3. KeepsWorkers
    BY <2>2 DEF KeepsWorkers, Active
  <2> QED BY <2>1, <2>3, <1>a, KeepsRecordsUpdates
<1>7. CASE KillProcess
  <2>1. /\ UNCHANGED branches
        /\ UNCHANGED workers \/ workers' = Signalled(reconciler.proc)
    BY <1>7 DEF KillProcess
  <2>2. CASE UNCHANGED workers
    BY <2>1, <2>2, <1>a, KeepsRecordsUpdates DEF KeepsWorkers, Active
  <2>3. CASE workers' = Signalled(reconciler.proc) /\ reconciler.proc \in Workers
    BY <2>1, <2>3, <1>a, KeepsRecordsUpdates, KeepsWorkersUpdates
  <2> QED BY <1>7, <2>1, <2>2, <2>3 DEF KillProcess, TypeOK, ReconcilerType
<1>8. CASE \/ \E p \in Platforms : Reconcile(p)
           \/ TakeProcess \/ KillReturns \/ EvaluateResume \/ ResumeRefused \/ ResumeReturns
           \/ IngestLost \/ IngestCleared \/ IngestReceived \/ UNCHANGED vars
  <2>1. UNCHANGED <<branches, workers>>
    BY <1>8 DEF Reconcile, TakeProcess, KillReturns, EvaluateResume, ResumeRefused,
       ResumeReturns, IngestLost, IngestCleared, IngestReceived, vars
  <2>2. KeepsWorkers
    BY <2>1 DEF KeepsWorkers, Active
  <2> QED BY <2>1, <2>2, <1>a, KeepsRecordsUpdates
<1> QED
  BY <1>1, <1>2, <1>3, <1>4, <1>5, <1>6, <1>7, <1>8 DEF Next, ReconcilerStep, Environment

\* Taking the next generation puts every earlier worker of that record out of date.
LEMMA ExclusiveStep ==
  ASSUME TypeOK, TypeOK', LaunchedByRecord, GenerationIsExclusive, KeepsOrLaunches
  PROVE  LaunchedByRecord' /\ GenerationIsExclusive'
<1>a. \A p \in Platforms : branches[p].generation \in Nat
  BY DEF TypeOK, BranchType
<1>b. \A w \in Workers : workers[w].generation \in Nat
                         /\ (Active(w) => workers[w].platform \in Platforms)
  BY MoveType DEF WorkerType
<1>1. CASE KeepsRecords /\ KeepsWorkers
  <2>1. LaunchedByRecord'
    BY <1>1, <1>b DEF KeepsRecords, KeepsWorkers, LaunchedByRecord
  <2>2. \A w \in Workers : Current(w)' => Current(w) /\ workers'[w].platform = workers[w].platform
    BY <1>1, <1>b DEF KeepsRecords, KeepsWorkers, LaunchedByRecord, Current
  <2> QED BY <2>1, <2>2 DEF GenerationIsExclusive
<1>2. ASSUME NEW p \in Platforms, NEW w \in Workers, Launches(p, w)
      PROVE  LaunchedByRecord' /\ GenerationIsExclusive'
  <2> DEFINE g == branches'[p].generation
  <2>g. g \in Nat
    BY DEF TypeOK, BranchType
  <2>1. /\ workers'[w].pc = "key" /\ workers'[w].platform = p /\ workers'[w].generation = g
        /\ \A v \in Workers \ {w} : workers'[v] = workers[v]
    BY <1>2 DEF Launches, Launch, Done, TypeOK
  <2>2. \A v \in Workers \ {w} :
          Active(v) /\ workers[v].platform = p => Tracked(p) /\ workers[v].generation < g
    BY <1>2, <1>a, <1>b DEF Launches, LaunchedByRecord
  <2>2a. \A v \in Workers \ {w} : Active(v)' <=> Active(v)
    BY <2>1 DEF Active
  <2>3. \A v \in Workers \ {w} : Active(v) /\ workers[v].platform # p =>
          /\ Current(v)' <=> Current(v)
          /\ branches'[workers[v].platform] = branches[workers[v].platform]
    BY <1>2, <1>b, <2>1, <2>2a DEF Launches, Current, Tracked
  <2>4. \A v \in Workers \ {w} : workers'[v].platform = p => ~Current(v)'
    BY <1>a, <1>b, <2>1, <2>2, <2>2a DEF Current
  <2>6. LaunchedByRecord'
    <3>1. ASSUME NEW v \in Workers \ {w}, Active(v), NEW q, q = workers[v].platform
          PROVE  Tracked(q)' /\ workers[v].generation <= branches'[q].generation
      <4>1. CASE q = p
        BY <4>1, <3>1, <1>2, <1>a, <1>b, <2>2 DEF Launches
      <4>2. CASE q # p
        BY <4>2, <3>1, <1>2, <1>b DEF Launches, LaunchedByRecord, Tracked
      <4> QED BY <4>1, <4>2
    <3>2. ASSUME NEW v \in Workers \ {w}, Active(v)'
          PROVE  /\ branches'[workers'[v].platform].state # "untracked"
                 /\ workers'[v].generation <= branches'[workers'[v].platform].generation
      BY <3>1, <3>2, <2>1, <2>2a DEF Tracked
    <3>3. /\ branches'[workers'[w].platform].state # "untracked"
          /\ workers'[w].generation <= branches'[workers'[w].platform].generation
      BY <1>2, <2>1, <2>g DEF Launches, Tracked
    <3> QED BY <3>2, <3>3 DEF LaunchedByRecord, Tracked
  <2>7. GenerationIsExclusive'
    BY <2>1, <2>2a, <2>3, <2>4 DEF GenerationIsExclusive, Current
  <2> QED BY <2>6, <2>7
<1> QED
  BY <1>1, <1>2 DEF KeepsOrLaunches

\* The generation counter does what it is for in every manager whose platforms are
\* never deleted: no two launches, watchers or pending retries act on one record.
THEOREM GenerationExclusion ==
  ASSUME "forget" \notin Operations
  PROVE  Spec => []GenerationIsExclusive
<1> DEFINE IInv == NoForgetting /\ LaunchedByRecord /\ GenerationIsExclusive
<1>1. Init => IInv
  BY DEF Init, NoForgetting, LaunchedByRecord, GenerationIsExclusive, Current, Active, Done, IdleCall
<1>2. TypeOK /\ TypeOK' /\ IInv /\ [Next]_vars => IInv'
  BY NoForgettingStep, ShapeStep, ExclusiveStep
<1>3. IInv => GenerationIsExclusive
  OBVIOUS
<1> HIDE DEF IInv
<1> QED
  BY <1>1, <1>2, <1>3, TypeCorrect, PTL DEF Spec

-----------------------------------------------------------------------------
(* A desired branch is supervised.  A worker gives up on a branch that is    *)
(* still desired only when the manager is shut down, when a repository fails *)
(* (the run's scope leaves that out) or when the platform is deleted; so the *)
(* invariant says what a shutdown has achieved so far, and that nothing is   *)
(* removed.                                                                  *)

\* Shutdown cancels the lifecycle only after it has stopped every destination:
\* while it closes, whatever is still desired is still on its list.
CallsAtShutdown ==
  /\ \A c \in Clients :
       calls[c].op = "shutdown" => calls[c].pc \in {"next", "stop", "stopping", "drain"}
  /\ lifecycle = "open" => \A c \in Clients : calls[c].op # "shutdown"
  /\ lifecycle # "open" =>
       \A c \in Clients : calls[c].pc = "idle" \/ calls[c].op = "shutdown"

ToStop(c, p) == p \in calls[c].todo \/ (calls[c].pc = "stop" /\ calls[c].platform = p)
DesireAtShutdown ==
  /\ lifecycle = "closing" =>
       \A c \in Clients : calls[c].op = "shutdown" =>
         \A p \in Platforms : branches[p].desired => ToStop(c, p)
  /\ lifecycle = "cancelled" => \A p \in Platforms : ~branches[p].desired

\* No platform is gone, and no goroutine holds a pointer to a deleted record.
NothingRemoved ==
  /\ \A p \in Platforms : exists[p]
  /\ \A w \in Workers : ~workers[w].detached

\* Only an accepted start makes a branch desired.
LEMMA DesireStep ==
  ASSUME TypeOK, [Next]_vars, NEW q \in Platforms, branches'[q].desired
  PROVE  branches[q].desired \/ \E c \in Clients : StartAccepted(c)
<1>a. ASSUME NEW p, NEW b, branches' = [branches EXCEPT ![p] = b], ~b.desired \/ branches[p].desired
      PROVE  branches[q].desired
  BY <1>a DEF TypeOK
<1>b. ASSUME NEW p \in Platforms, NEW b, branches' = [branches EXCEPT ![p] = b],
             b.desired = branches[p].desired
      PROVE  branches[q].desired
  BY <1>b DEF TypeOK
<1>c. \A p \in Platforms : branches[p] \in BranchType
  BY HandleType
<1>d. \A c \in Clients : calls[c].pc \notin {"idle", "next", "drain"}
                           => calls[c].platform \in Platforms
  BY DEF TypeOK, CallType
<1>e. \A w \in Workers : Active(w) => workers[w].platform \in Platforms
  BY MoveType
<1>f. \A b \in BranchType : \A st \in State :
        /\ [b EXCEPT !.state = st, !.desired = FALSE].desired = FALSE
        /\ [b EXCEPT !.state = st, !.desired = FALSE, !.stopRequested = TRUE].desired = FALSE
        /\ [b EXCEPT !.state = st].desired = b.desired
        /\ \A l \in BOOLEAN : [b EXCEPT !.state = st, !.live = l].desired = b.desired
        /\ \A w : [b EXCEPT !.proc = w].desired = b.desired
        /\ Exited(b).desired => b.desired
  BY DEF BranchType, Exited
<1>1. ASSUME NEW c \in Clients, CallStep(c)
      PROVE  branches[q].desired \/ \E d \in Clients : StartAccepted(d)
  <2> DEFINE p == calls[c].platform
  <2>1. CASE CheckConflict(c)
    <3>1. branches' = [branches EXCEPT ![p] = GetOrCreate(p)]
      BY <2>1 DEF CheckConflict
    <3>2. ~GetOrCreate(p).desired \/ branches[p].desired
      BY DEF GetOrCreate, Fresh
    <3> QED BY <3>1, <3>2, <1>a
  <2>2. CASE StartRefused(c)
    <3>1. p \in Platforms
      BY <2>2, <1>d DEF StartRefused
    <3>2. ~GetOrCreate(p).desired \/ branches[p].desired
      BY DEF GetOrCreate, Fresh
    <3>3. ~[GetOrCreate(p) EXCEPT !.state = "blocked", !.desired = FALSE].desired
      BY <3>1, <1>f, HandleType DEF State
    <3>4. \/ branches' = [branches EXCEPT ![p] = GetOrCreate(p)]
          \/ branches' = [branches EXCEPT ![p] =
                            [GetOrCreate(p) EXCEPT !.state = "blocked", !.desired = FALSE]]
      BY <2>2 DEF StartRefused
    <3> QED BY <3>2, <3>3, <3>4, <1>a
  <2>3. CASE StopWithoutProcess(c)
    <3>1. p \in Platforms
      BY <2>3, <1>d DEF StopWithoutProcess
    <3>2. ~[branches[p] EXCEPT !.state = "idle", !.desired = FALSE].desired
      BY <3>1, <1>c, <1>f DEF State
    <3>3. branches' = [branches EXCEPT ![p] = [branches[p] EXCEPT !.state = "idle", !.desired = FALSE]]
      BY <2>3 DEF StopWithoutProcess
    <3> QED BY <3>2, <3>3, <1>a
  <2>4. CASE StopProcess(c)
    <3> DEFINE b == [branches[p] EXCEPT !.state = "stopping", !.desired = FALSE,
                                        !.stopRequested = TRUE]
    <3>1. p \in Platforms
      BY <2>4, <1>d DEF StopProcess
    <3>2. ~b.desired
      BY <3>1, <1>c, <1>f DEF State
    <3>3. branches' = [branches EXCEPT ![p] = b]
      BY <2>4 DEF StopProcess
    <3> QED BY <3>2, <3>3, <1>a
  <2>5. CASE Untrack(c)
    BY <2>5, <1>a DEF Untrack, Untracked, Fresh
  <2>6. CASE \/ NextPlatform(c) \/ FinishLoop(c) \/ CancelLifecycle(c) \/ Drain(c)
             \/ GetPlatform(c) \/ ComputeBlockers(c) \/ LaunchReturns(c)
             \/ StopRefused(c) \/ StopReturns(c) \/ RemovePlatform(c)
    BY <2>6 DEF NextPlatform, FinishLoop, CancelLifecycle, Drain, GetPlatform,
       ComputeBlockers, LaunchReturns, StopRefused, StopReturns, RemovePlatform
  <2> QED BY <1>1, <2>1, <2>2, <2>3, <2>4, <2>5, <2>6 DEF CallStep
<1>2. ASSUME NEW w \in Workers, WorkerStep(w) PROVE branches[q].desired
  <2> DEFINE p == workers[w].platform
  <2>1. CASE LaunchFails(w)
    <3>1. p \in Platforms
      BY <2>1, <1>e DEF LaunchFails, Active
    <3>2. ~[branches[p] EXCEPT !.state = "error", !.desired = FALSE].desired
      BY <3>1, <1>c, <1>f DEF State
    <3>3. \/ UNCHANGED branches
          \/ branches' = [branches EXCEPT ![p] = [branches[p] EXCEPT !.state = "error", !.desired = FALSE]]
      BY <2>1 DEF LaunchFails
    <3> QED BY <3>2, <3>3, <1>a
  <2>2. CASE Attach(w)
    <3>1. p \in Platforms
      BY <2>2, <1>e DEF Attach, Active
    <3>2. [branches[p] EXCEPT !.proc = w].desired = branches[p].desired
      BY <3>1, <1>c, <1>f, MoveType DEF State
    <3>3. \/ UNCHANGED branches
          \/ branches' = [branches EXCEPT ![p] = [branches[p] EXCEPT !.proc = w]]
      BY <2>2 DEF Attach
    <3> QED BY <3>1, <3>2, <3>3, <1>b
  <2>3. CASE WatchExit(w)
    <3>1. p \in Platforms
      BY <2>3, <1>e DEF WatchExit, Active
    <3>2. Exited(branches[p]).desired => branches[p].desired
      BY <3>1, <1>c, <1>f DEF State
    <3>3. \/ UNCHANGED branches
          \/ branches' = [branches EXCEPT ![p] = Exited(branches[p])]
      BY <2>3 DEF WatchExit
    <3> QED BY <3>2, <3>3, <1>a
  <2>4. CASE Park(w)
    <3>1. p \in Platforms
      BY <2>4, <1>e DEF Park, Active
    <3>2. [branches[p] EXCEPT !.state = "waiting_for_ingest"].desired = branches[p].desired
      BY <3>1, <1>c, <1>f DEF State
    <3>3. \/ UNCHANGED branches
          \/ branches' = [branches EXCEPT ![p] = [branches[p] EXCEPT !.state = "waiting_for_ingest"]]
      BY <2>4 DEF Park
    <3> QED BY <3>1, <3>2, <3>3, <1>b
  <2>5. CASE ScheduleRestart(w) \/ Retry(w)
    <3>1. branches[p].desired /\ \E b : branches' = [branches EXCEPT ![p] = b]
      BY <2>5 DEF ScheduleRestart, Retry
    <3> QED BY <3>1, <1>a
  <2>6. CASE \/ RetrieveKey(w) \/ Spawn(w) \/ Discard(w) \/ Settle(w) \/ AbandonRestart(w)
             \/ RetryAfterBackoff(w) \/ EvaluateRetry(w)
    BY <2>6 DEF RetrieveKey, Spawn, Discard, Settle, AbandonRestart,
                RetryAfterBackoff, EvaluateRetry
  <2> QED BY <1>2, <2>1, <2>2, <2>3, <2>4, <2>5, <2>6 DEF WorkerStep
<1>3. CASE Resume
  <2> DEFINE p == reconciler.platform
  <2>1. branches[p].desired /\ \E b : branches' = [branches EXCEPT ![p] = b]
    BY <1>3 DEF Resume, CanResume
  <2> QED BY <2>1, <1>a
<1>4. ASSUME NEW w \in Workers, Progress(w) PROVE branches[q].desired
  <2> DEFINE p == workers[w].platform
  <2>1. p \in Platforms
    BY <1>4, <1>e DEF Progress, Current
  <2>2. [branches[p] EXCEPT !.state = "live", !.live = TRUE].desired = branches[p].desired
    BY <2>1, <1>c, <1>f DEF State, Running
  <2>3. branches' = [branches EXCEPT ![p] = [branches[p] EXCEPT !.state = "live", !.live = TRUE]]
    BY <1>4 DEF Progress
  <2> QED BY <2>1, <2>2, <2>3, <1>b
<1>5. CASE \/ \E c \in Clients : BeginCall(c)
           \/ \E p \in Platforms : Reconcile(p)
           \/ TakeProcess \/ KillProcess \/ KillReturns \/ EvaluateResume
           \/ ResumeRefused \/ ResumeReturns
           \/ \E w \in Workers : TerminatedExit(w) \/ SpontaneousExit(w)
           \/ IngestLost \/ IngestCleared \/ IngestReceived
           \/ UNCHANGED vars
  <2>1. UNCHANGED branches
    BY <1>5 DEF BeginCall, BeginStart, BeginStop, BeginRestart, BeginForget,
       BeginStartEnabled, BeginStopAll, BeginShutdown,
       Reconcile, TakeProcess, KillProcess, KillReturns, EvaluateResume,
       ResumeRefused, ResumeReturns, TerminatedExit, SpontaneousExit, IngestLost,
       IngestCleared, IngestReceived, vars
  <2> QED BY <2>1
<1> QED
  BY <1>1, <1>2, <1>3, <1>4, <1>5 DEF Next, ReconcilerStep, Environment

\* What a step does to the calls: it leaves their program alone, begins one, or
\* takes one further; only a beginning and an ending shutdown touch the lifecycle.
SameCalls ==
  /\ lifecycle' = lifecycle
  /\ \A c \in Clients : /\ calls'[c].op = calls[c].op /\ calls'[c].pc = calls[c].pc
                         /\ calls'[c].todo = calls[c].todo
                         /\ calls'[c].platform = calls[c].platform

LEMMA CallEffect ==
  ASSUME TypeOK, [Next]_vars
  PROVE  SameCalls \/ \E c \in Clients : BeginCall(c) \/ CallStep(c)
<1>1. ASSUME UNCHANGED <<calls, lifecycle>> PROVE SameCalls
  BY <1>1 DEF SameCalls
<1>2. ASSUME NEW w \in Workers, TerminatedExit(w) \/ SpontaneousExit(w) PROVE SameCalls
  BY <1>2 DEF TerminatedExit, SpontaneousExit, Exit, TypeOK, CallType, SameCalls
<1>3. ASSUME NEW w \in Workers, WorkerStep(w) \/ Progress(w) PROVE SameCalls
  BY <1>1, <1>3 DEF WorkerStep, LaunchFails, RetrieveKey, Spawn, Attach, Discard, WatchExit,
     Settle, Park, ScheduleRestart, AbandonRestart, RetryAfterBackoff, EvaluateRetry, Retry,
     Progress
<1>4. CASE \/ ReconcilerStep \/ \E p \in Platforms : Reconcile(p)
           \/ IngestLost \/ IngestCleared \/ IngestReceived \/ UNCHANGED vars
  <2>1. UNCHANGED <<calls, lifecycle>>
    BY <1>4 DEF ReconcilerStep, Reconcile, TakeProcess, KillProcess, KillReturns,
       EvaluateResume, ResumeRefused, Resume, ResumeReturns, IngestLost, IngestCleared,
       IngestReceived, vars
  <2> QED BY <2>1, <1>1
<1> QED
  BY <1>2, <1>3, <1>4 DEF Next, Environment

\* A call that begins is a shutdown only if it is the first and everything else
\* has drained; its list is every destination that could be desired.
LEMMA ShutdownBegins ==
  ASSUME TypeOK, RecordsAgree, CallsAtShutdown, NEW c \in Clients, BeginCall(c)
  PROVE  CallsAtShutdown' /\ DesireAtShutdown'
<1>a. lifecycle = "open" /\ UNCHANGED branches
  BY DEF BeginCall, BeginStart, BeginStop, BeginRestart, BeginForget, BeginStartEnabled,
         BeginStopAll, BeginShutdown, Begin
<1>b. \A d \in Clients : calls[d].op # "shutdown"
  BY <1>a DEF CallsAtShutdown
<1>1. ASSUME NEW op, NEW call, Begin(c, op, call), call.op # "shutdown", UNCHANGED lifecycle
      PROVE  CallsAtShutdown' /\ DesireAtShutdown'
  <2>1. \A d \in Clients : calls'[d].op # "shutdown"
    BY <1>1, <1>b DEF Begin, TypeOK
  <2> QED BY <2>1, <1>a, <1>1 DEF CallsAtShutdown, DesireAtShutdown
<1>2. ASSUME NEW p \in Platforms,
             \/ BeginStart(c, p) \/ BeginStop(c, p) \/ BeginRestart(c, p) \/ BeginForget(c, p)
      PROVE  CallsAtShutdown' /\ DesireAtShutdown'
  BY <1>2, <1>1 DEF BeginStart, BeginStop, BeginRestart, BeginForget, IdleCall
<1>3. CASE BeginStartEnabled(c)
  <2>1. PICK enabled : Begin(c, "startEnabled",
             [IdleCall EXCEPT !.op = "startEnabled", !.pc = "next", !.todo = enabled])
    BY <1>3 DEF BeginStartEnabled
  <2>2. [IdleCall EXCEPT !.op = "startEnabled", !.pc = "next", !.todo = enabled].op # "shutdown"
    BY DEF IdleCall
  <2> QED BY <1>1, <1>3, <2>1, <2>2 DEF BeginStartEnabled
<1>4. CASE BeginStopAll(c)
  BY <1>4, <1>1 DEF BeginStopAll, IdleCall
<1>5. CASE BeginShutdown(c)
  <2>1. /\ calls'[c].op = "shutdown" /\ calls'[c].pc = "next"
        /\ calls'[c].todo = {p \in Platforms : Tracked(p)}
    BY <1>5 DEF BeginShutdown, Begin, IdleCall, TypeOK
  <2>2. \A d \in Clients \ {c} : calls'[d] = calls[d] /\ calls[d].pc = "idle"
    BY <1>5 DEF BeginShutdown, Begin, TypeOK
  <2>3. lifecycle' = "closing"
    BY <1>5 DEF BeginShutdown
  <2>4. \A p \in Platforms : branches[p].desired => Tracked(p)
    BY DEF RecordsAgree, StateAgreesWithDesire, Tracked
  <2>5. CallsAtShutdown'
    BY <2>1, <2>2, <2>3, <1>b DEF CallsAtShutdown
  <2>6. \A p \in Platforms : branches'[p].desired => p \in calls'[c].todo
    BY <2>1, <2>4, <1>a
  <2>7. DesireAtShutdown'
    BY <2>2, <2>3, <2>6, <1>b DEF DesireAtShutdown, ToStop
  <2> QED BY <2>5, <2>7
<1> QED
  BY <1>2, <1>3, <1>4, <1>5 DEF BeginCall

\* Every other call keeps its kind, or ends.
LEMMA CallKeepsKind ==
  ASSUME TypeOK, NEW c \in Clients, CallStep(c), ~CancelLifecycle(c)
  PROVE  /\ lifecycle' = lifecycle
         /\ \A d \in Clients \ {c} : calls'[d] = calls[d]
         /\ \/ calls'[c].op = calls[c].op
            \/ calls'[c].op = "none" /\ calls'[c].pc = "idle"
            \/ calls'[c].op = "startEnabled" /\ calls[c].op = "startEnabled"
<1>a. calls[c] \in CallType
  BY DEF TypeOK
<1>b. ASSUME NEW r, calls' = [calls EXCEPT ![c] = r], lifecycle' = lifecycle,
             \/ r.op = calls[c].op
             \/ r = AfterStart(c) \/ r = AfterStop(c) \/ r = IdleCall
      PROVE  /\ lifecycle' = lifecycle
             /\ \A d \in Clients \ {c} : calls'[d] = calls[d]
             /\ \/ calls'[c].op = calls[c].op
                \/ calls'[c].op = "none" /\ calls'[c].pc = "idle"
                \/ calls'[c].op = "startEnabled" /\ calls[c].op = "startEnabled"
  <2>1. \/ r.op = calls[c].op
        \/ r.op = "none" /\ r.pc = "idle"
        \/ r.op = "startEnabled" /\ calls[c].op = "startEnabled"
    <3>1. CASE r = AfterStart(c) \/ r = IdleCall
      <4>1. IdleCall.op = "none" /\ IdleCall.pc = "idle"
        BY DEF IdleCall
      <4>2. \A todo : [IdleCall EXCEPT !.op = "startEnabled", !.pc = "next", !.todo = todo].op
                        = "startEnabled"
        BY DEF IdleCall
      <4> QED BY <3>1, <4>1, <4>2 DEF AfterStart
    <3>2. CASE r = AfterStop(c)
      <4>1. \A pc, q, w : /\ [calls[c] EXCEPT !.pc = pc, !.proc = w].op = calls[c].op
                          /\ [calls[c] EXCEPT !.pc = pc, !.platform = q, !.proc = w].op = calls[c].op
        BY <1>a DEF CallType
      <4>2. IdleCall.op = "none" /\ IdleCall.pc = "idle"
        BY DEF IdleCall
      <4> QED BY <3>2, <4>1, <4>2 DEF AfterStop
    <3> QED BY <1>b, <3>1, <3>2
  <2> QED BY <1>b, <2>1 DEF TypeOK
<1>1. CASE NextPlatform(c)
  <2> DEFINE r(q) == [calls[c] EXCEPT !.platform = q, !.todo = @ \ {q},
                        !.pc = IF calls[c].op = "startEnabled" THEN "get" ELSE "stop"]
  <2>1. PICK q : calls' = [calls EXCEPT ![c] = r(q)]
    BY <1>1 DEF NextPlatform
  <2>2. r(q).op = calls[c].op
    BY <1>a DEF CallType
  <2>3. lifecycle' = lifecycle
    BY <1>1 DEF NextPlatform
  <2> HIDE DEF r
  <2> QED BY <1>b, <2>1, <2>2, <2>3
<1>2. CASE \/ FinishLoop(c) \/ Drain(c) \/ RemovePlatform(c)
           \/ LaunchReturns(c) \/ StopRefused(c) \/ StopWithoutProcess(c) \/ StopReturns(c)
           \/ StartRefused(c)
  <2>1. /\ lifecycle' = lifecycle
        /\ \/ calls' = [calls EXCEPT ![c] = AfterStart(c)]
           \/ calls' = [calls EXCEPT ![c] = AfterStop(c)]
           \/ calls' = [calls EXCEPT ![c] = IdleCall]
    BY <1>2 DEF FinishLoop, Drain, RemovePlatform, LaunchReturns, StopRefused,
       StopWithoutProcess, StopReturns, StartRefused
  <2> QED BY <1>b, <2>1
<1>3. CASE GetPlatform(c) \/ CheckConflict(c)
  <2>1. \A pc : [calls[c] EXCEPT !.pc = pc].op = calls[c].op
    BY <1>a DEF CallType
  <2>2. /\ lifecycle' = lifecycle
        /\ \/ calls' = [calls EXCEPT ![c] = AfterStart(c)]
           \/ \E pc : calls' = [calls EXCEPT ![c] = [calls[c] EXCEPT !.pc = pc]]
    BY <1>3 DEF GetPlatform, CheckConflict
  <2> QED BY <1>b, <2>1, <2>2
<1>4. CASE ComputeBlockers(c)
  <2>1. \A b : [calls[c] EXCEPT !.pc = "commit", !.blockers = b].op = calls[c].op
    BY <1>a DEF CallType
  <2>2. /\ lifecycle' = lifecycle
        /\ \/ calls' = [calls EXCEPT ![c] = AfterStart(c)]
           \/ \E b : calls' = [calls EXCEPT ![c] =
                                [calls[c] EXCEPT !.pc = "commit", !.blockers = b]]
    BY <1>4 DEF ComputeBlockers
  <2> QED BY <1>b, <2>1, <2>2
<1>5. CASE StartAccepted(c) \/ StopProcess(c)
  <2>1. \A pc, w : [calls[c] EXCEPT !.pc = pc, !.proc = w].op = calls[c].op
    BY <1>a DEF CallType
  <2>2. /\ lifecycle' = lifecycle
        /\ \E pc, w : calls' = [calls EXCEPT ![c] = [calls[c] EXCEPT !.pc = pc, !.proc = w]]
    <3>1. \/ \E w : calls' = [calls EXCEPT ![c] = [calls[c] EXCEPT !.pc = "launching", !.proc = w]]
          \/ \E w : calls' = [calls EXCEPT ![c] = [calls[c] EXCEPT !.pc = "stopping", !.proc = w]]
      BY <1>5 DEF StartAccepted, StopProcess
    <3> QED BY <1>5, <3>1 DEF StartAccepted, StopProcess
  <2>3. PICK pc, w : calls' = [calls EXCEPT ![c] = [calls[c] EXCEPT !.pc = pc, !.proc = w]]
    BY <2>2
  <2> DEFINE r == [calls[c] EXCEPT !.pc = pc, !.proc = w]
  <2>4. calls' = [calls EXCEPT ![c] = r] /\ r.op = calls[c].op
    BY <2>1, <2>3
  <2> HIDE DEF r
  <2> QED BY <1>b, <2>2, <2>4
<1>6. CASE Untrack(c)
  <2>1. [calls[c] EXCEPT !.pc = "remove"].op = calls[c].op
    BY <1>a DEF CallType
  <2> QED BY <1>b, <1>6, <2>1 DEF Untrack
<1> QED
  BY <1>1, <1>2, <1>3, <1>4, <1>5, <1>6 DEF CallStep

\* What the loop of StopAll and of Shutdown does: it takes a destination off its list
\* only to stop it, and is done with it only when it is not desired.
Stopping(c) == /\ calls[c].op \in {"stopAll", "shutdown"}
               /\ calls[c].pc \in {"next", "stop", "stopping", "drain"}

LEMMA StoppingProceeds ==
  ASSUME TypeOK, NEW c \in Clients, CallStep(c), Stopping(c), ~CancelLifecycle(c)
  PROVE  \/ calls'[c] = IdleCall /\ (calls[c].pc = "drain" \/ \A p \in Platforms : ~ToStop(c, p))
         \/ /\ calls'[c].op = calls[c].op /\ calls'[c].pc \in {"next", "stop", "stopping"}
            /\ \A p \in Platforms :
                 ToStop(c, p) => ToStop(c, p)' \/ ~branches'[p].desired
<1>a. calls[c] \in CallType /\ calls[c].pc \in {"next", "stop", "stopping", "drain"}
  BY DEF TypeOK, Stopping
<1>b. calls[c].pc \in {"stop", "stopping"} => calls[c].platform \in Platforms
  BY <1>a DEF CallType
<1>1. CASE FinishLoop(c) \/ Drain(c)
  BY <1>1 DEF FinishLoop, Drain, TypeOK, ToStop
<1>2. CASE NextPlatform(c)
  <2>1. PICK q \in calls[c].todo :
          calls' = [calls EXCEPT ![c] = [calls[c] EXCEPT !.platform = q, !.todo = @ \ {q},
                                                         !.pc = "stop"]]
    BY <1>2 DEF NextPlatform, Stopping
  <2>2. /\ calls'[c].op = calls[c].op /\ calls'[c].pc = "stop" /\ calls'[c].platform = q
        /\ calls'[c].todo = calls[c].todo \ {q}
    BY <2>1, <1>a DEF TypeOK, CallType
  <2>3. calls[c].pc = "next"
    BY <1>2 DEF NextPlatform
  <2> QED BY <2>2, <2>3 DEF ToStop
<1> DEFINE after == [calls[c] EXCEPT !.pc = "next", !.platform = NoPlatform, !.proc = NoWorker]
<1>c. /\ AfterStop(c) = after
      /\ after.op = calls[c].op /\ after.pc = "next" /\ after.todo = calls[c].todo
  BY <1>a DEF AfterStop, CallType, Stopping
<1> HIDE DEF after
<1>3. CASE StopRefused(c) \/ StopWithoutProcess(c) \/ StopReturns(c)
  <2>1. calls'[c].op = calls[c].op /\ calls'[c].pc = "next" /\ calls'[c].todo = calls[c].todo
    BY <1>3, <1>c DEF StopRefused, StopWithoutProcess, StopReturns, TypeOK
  <2>2. calls[c].pc = "stop" => ~branches'[calls[c].platform].desired
    <3>1. ASSUME NEW p \in Platforms
          PROVE  [branches EXCEPT ![p].state = "idle", ![p].desired = FALSE][p].desired = FALSE
      BY DEF TypeOK, BranchType
    <3> QED BY <1>3, <1>b, <3>1 DEF StopRefused, StopWithoutProcess, StopReturns
  <2> QED BY <2>1, <2>2 DEF ToStop
<1>4. CASE StopProcess(c)
  <2>1. calls' = [calls EXCEPT ![c] = [calls[c] EXCEPT !.pc = "stopping",
                                                       !.proc = Handle(calls[c].platform)]]
    BY <1>4 DEF StopProcess
  <2>2. calls'[c].op = calls[c].op /\ calls'[c].pc = "stopping" /\ calls'[c].todo = calls[c].todo
    BY <2>1, <1>a DEF TypeOK, CallType
  <2>3. ~branches'[calls[c].platform].desired
    <3>1. ASSUME NEW p \in Platforms
          PROVE  [branches EXCEPT ![p].state = "stopping", ![p].desired = FALSE,
                                  ![p].stopRequested = TRUE][p].desired = FALSE
      BY DEF TypeOK, BranchType
    <3> QED BY <1>4, <1>b, <3>1 DEF StopProcess
  <2> QED BY <2>2, <2>3 DEF ToStop
<1> QED
  BY <1>a, <1>1, <1>2, <1>3, <1>4 DEF CallStep, GetPlatform, CheckConflict, ComputeBlockers,
     StartRefused, StartAccepted, LaunchReturns, Untrack, RemovePlatform

LEMMA ShutdownStep ==
  ASSUME TypeOK, RecordsAgree, CallsAtShutdown, DesireAtShutdown, [Next]_vars
  PROVE  CallsAtShutdown' /\ DesireAtShutdown'
<1>a. ASSUME lifecycle # "open", NEW p \in Platforms, branches'[p].desired PROVE branches[p].desired
  <2>1. \A c \in Clients : ~StartAccepted(c)
    BY <1>a DEF CallsAtShutdown, StartAccepted
  <2> QED BY <1>a, <2>1, DesireStep
<1>1. CASE SameCalls
  <2>1. CallsAtShutdown'
    BY <1>1 DEF SameCalls, CallsAtShutdown
  <2>2. \A c \in Clients, p \in Platforms : ToStop(c, p) => ToStop(c, p)'
    BY <1>1 DEF SameCalls, ToStop
  <2>3. DesireAtShutdown'
    BY <1>1, <1>a, <2>2 DEF SameCalls, DesireAtShutdown
  <2> QED BY <2>1, <2>3
<1>2. ASSUME NEW c \in Clients, BeginCall(c) PROVE CallsAtShutdown' /\ DesireAtShutdown'
  BY <1>2, ShutdownBegins
<1>3. ASSUME NEW c \in Clients, CancelLifecycle(c) PROVE CallsAtShutdown' /\ DesireAtShutdown'
  <2>1. /\ calls[c].op = "shutdown" /\ calls[c].pc = "next" /\ calls[c].todo = {}
        /\ UNCHANGED branches /\ lifecycle' = "cancelled"
    BY <1>3 DEF CancelLifecycle
  <2>2. \A d \in Clients : /\ calls'[d].op = calls[d].op
                           /\ calls'[d].pc = IF d = c THEN "drain" ELSE calls[d].pc
    BY <1>3 DEF CancelLifecycle, TypeOK, CallType
  <2>3. lifecycle # "open"
    BY <2>1 DEF CallsAtShutdown
  <2>4. \A p \in Platforms : ~branches[p].desired
    BY <2>1, <2>3 DEF DesireAtShutdown, ToStop, TypeOK
  <2> QED BY <2>1, <2>2, <2>3, <2>4 DEF CallsAtShutdown, DesireAtShutdown
<1>4. ASSUME NEW c \in Clients, CallStep(c), ~CancelLifecycle(c)
      PROVE  CallsAtShutdown' /\ DesireAtShutdown'
  <2>1. /\ lifecycle' = lifecycle
        /\ \A d \in Clients \ {c} : calls'[d] = calls[d]
        /\ \/ calls'[c].op = calls[c].op
           \/ calls'[c].op = "none" /\ calls'[c].pc = "idle"
           \/ calls'[c].op = "startEnabled" /\ calls[c].op = "startEnabled"
    BY <1>4, CallKeepsKind
  <2>2. CASE calls[c].op = "shutdown"
    <3>1. CASE calls'[c] = IdleCall
      BY <3>1, <2>1, <1>a DEF CallsAtShutdown, DesireAtShutdown, ToStop, IdleCall
    <3>2. CASE /\ calls'[c].op = "shutdown" /\ calls'[c].pc \in {"next", "stop", "stopping"}
               /\ \A p \in Platforms : ToStop(c, p) => ToStop(c, p)' \/ ~branches'[p].desired
      <4>1. CallsAtShutdown'
        BY <2>1, <2>2, <3>2 DEF CallsAtShutdown
      <4>2. \A d \in Clients \ {c} : \A p \in Platforms : ToStop(d, p) => ToStop(d, p)'
        BY <2>1 DEF ToStop
      <4>3. lifecycle # "open"
        BY <2>2 DEF CallsAtShutdown
      <4>4. DesireAtShutdown'
        BY <2>1, <2>2, <3>2, <4>2, <4>3, <1>a DEF DesireAtShutdown
      <4> QED BY <4>1, <4>4
    <3>3. Stopping(c)
      BY <2>2 DEF Stopping, CallsAtShutdown
    <3> QED BY <1>4, <2>2, <3>1, <3>2, <3>3, StoppingProceeds
  <2>3. CASE calls[c].op # "shutdown"
    <3>1. calls'[c].op # "shutdown"
      BY <2>1, <2>3
    <3>2. lifecycle # "open" => calls[c].pc = "idle"
      BY <2>3 DEF CallsAtShutdown
    <3>3. calls[c].pc # "idle"
      BY <1>4 DEF CallStep, NextPlatform, FinishLoop, CancelLifecycle, Drain, GetPlatform,
         CheckConflict, ComputeBlockers, StartRefused, StartAccepted, LaunchReturns,
         StopRefused, StopWithoutProcess, StopProcess, StopReturns, Untrack, RemovePlatform
    <3> QED BY <2>1, <3>1, <3>2, <3>3 DEF CallsAtShutdown, DesireAtShutdown
  <2> QED BY <2>2, <2>3
<1> QED
  BY <1>1, <1>2, <1>3, <1>4, CallEffect

\* StopAll: while it runs, whatever is desired is still on its list, if nothing else
\* is asked meanwhile.
OneClient == \A c, d \in Clients : c = d

StopAllInv ==
  \A c \in Clients : calls[c].op = "stopAll" =>
    /\ calls[c].pc \in {"next", "stop", "stopping"}
    /\ \A p \in Platforms : branches[p].desired => ToStop(c, p)

LEMMA StopAllStep ==
  ASSUME OneClient, TypeOK, StopAllInv, [Next]_vars
  PROVE  /\ StopAllInv'
         /\ \A c \in Clients : calls[c].op = "stopAll" /\ calls'[c].op # "stopAll" =>
              \A p \in Platforms : ~branches[p].desired
<1>a. ASSUME NEW c \in Clients, calls[c].op = "stopAll", NEW p \in Platforms, branches'[p].desired
      PROVE  branches[p].desired
  <2>1. \A d \in Clients : ~StartAccepted(d)
    <3>1. \A d \in Clients : d = c
      BY DEF OneClient
    <3> QED BY <1>a, <3>1 DEF StopAllInv, StartAccepted
  <2> QED BY <1>a, <2>1, DesireStep
<1>1. CASE SameCalls
  <2>1. \A c \in Clients, p \in Platforms : ToStop(c, p) => ToStop(c, p)'
    BY <1>1 DEF SameCalls, ToStop
  <2> QED BY <1>1, <1>a, <2>1 DEF SameCalls, StopAllInv
<1>2. ASSUME NEW c \in Clients, BeginCall(c)
      PROVE  /\ StopAllInv'
             /\ \A d \in Clients : calls[d].op # "stopAll"
  <2>1. \A d \in Clients : d = c
    BY DEF OneClient
  <2>2. UNCHANGED branches /\ calls[c].pc = "idle"
    BY <1>2 DEF BeginCall, BeginStart, BeginStop, BeginRestart, BeginForget, BeginStartEnabled,
       BeginStopAll, BeginShutdown, Begin
  <2>3. \A d \in Clients : calls[d].op # "stopAll"
    BY <2>1, <2>2 DEF StopAllInv
  <2>4. ASSUME NEW op, NEW call, Begin(c, op, call), call.op # "stopAll" PROVE StopAllInv'
    <3>1. calls'[c] = call
      BY <2>4 DEF Begin, TypeOK
    <3> QED BY <2>1, <2>4, <3>1 DEF StopAllInv
  <2>5. ASSUME BeginStopAll(c) PROVE StopAllInv'
    <3>1. /\ calls'[c].pc = "next" /\ calls'[c].todo = {p \in Platforms : Stoppable(p)}
      BY <2>5 DEF BeginStopAll, Begin, IdleCall, TypeOK
    <3>2. \A p \in Platforms : branches'[p].desired => ToStop(c, p)'
      BY <2>2, <3>1 DEF Stoppable, ToStop
    <3> QED BY <2>1, <3>1, <3>2 DEF StopAllInv
  <2>6. ASSUME BeginStartEnabled(c) PROVE StopAllInv'
    <3>1. PICK enabled : Begin(c, "startEnabled",
               [IdleCall EXCEPT !.op = "startEnabled", !.pc = "next", !.todo = enabled])
      BY <2>6 DEF BeginStartEnabled
    <3>2. [IdleCall EXCEPT !.op = "startEnabled", !.pc = "next", !.todo = enabled].op # "stopAll"
      BY DEF IdleCall
    <3> QED BY <2>4, <3>1, <3>2
  <2>7. ASSUME BeginShutdown(c) PROVE StopAllInv'
    BY <2>4, <2>7 DEF BeginShutdown, IdleCall
  <2>8. ASSUME NEW p \in Platforms,
               \/ BeginStart(c, p) \/ BeginStop(c, p) \/ BeginRestart(c, p) \/ BeginForget(c, p)
        PROVE  StopAllInv'
    BY <2>4, <2>8 DEF BeginStart, BeginStop, BeginRestart, BeginForget, IdleCall
  <2> QED BY <1>2, <2>3, <2>5, <2>6, <2>7, <2>8 DEF BeginCall
<1>3. ASSUME NEW c \in Clients, CancelLifecycle(c)
      PROVE  /\ StopAllInv'
             /\ \A d \in Clients : calls[d].op # "stopAll"
  <2>1. calls[c].op = "shutdown" /\ calls'[c].op = "shutdown" /\ \A d \in Clients : d = c
    BY <1>3 DEF CancelLifecycle, TypeOK, CallType, OneClient
  <2> QED BY <2>1 DEF StopAllInv
<1>4. ASSUME NEW c \in Clients, CallStep(c), ~CancelLifecycle(c)
      PROVE  /\ StopAllInv'
             /\ \A d \in Clients : calls[d].op = "stopAll" /\ calls'[d].op # "stopAll" =>
                  \A p \in Platforms : ~branches[p].desired
  <2>1. \A d \in Clients : d = c
    BY DEF OneClient
  <2>2. CASE calls[c].op = "stopAll"
    <3>1. Stopping(c) /\ calls[c].pc # "drain"
      BY <2>2 DEF StopAllInv, Stopping
    <3>2. CASE calls'[c] = IdleCall /\ \A p \in Platforms : ~ToStop(c, p)
      BY <2>1, <2>2, <3>2 DEF StopAllInv, IdleCall
    <3>3. CASE /\ calls'[c].op = calls[c].op /\ calls'[c].pc \in {"next", "stop", "stopping"}
               /\ \A p \in Platforms : ToStop(c, p) => ToStop(c, p)' \/ ~branches'[p].desired
      BY <1>a, <2>1, <2>2, <3>3 DEF StopAllInv
    <3> QED BY <1>4, <3>1, <3>2, <3>3, StoppingProceeds
  <2>3. CASE calls[c].op # "stopAll"
    <3>1. calls'[c].op # "stopAll"
      BY <1>4, <2>3, CallKeepsKind
    <3> QED BY <2>1, <2>3, <3>1 DEF StopAllInv
  <2> QED BY <2>2, <2>3
<1> QED
  BY <1>1, <1>2, <1>3, <1>4, CallEffect DEF SameCalls

\* As long as no other request comes meanwhile, a StopAll that is done has left no
\* destination that is desired to run, whatever crashes, retries, resumes and repository
\* errors there were between the moment it chose its destinations and its last stop.
THEOREM StopAllIsComplete == ASSUME OneClient PROVE Spec => StopAllReachesAll
<1>1. Init => StopAllInv
  BY DEF Init, StopAllInv, IdleCall
<1>2. TypeOK /\ StopAllInv /\ [Next]_vars => StopAllInv'
  BY StopAllStep
<1>3. TypeOK /\ StopAllInv /\ [Next]_vars =>
        [\A c \in Clients : calls[c].op = "stopAll" /\ calls'[c].op # "stopAll" =>
           \A p \in Platforms : ~branches[p].desired]_vars
  BY StopAllStep
<1> QED
  BY <1>1, <1>2, <1>3, TypeCorrect, PTL DEF Spec, StopAllReachesAll

\* Without a Forget, nothing is removed and no pointer is left behind.
LEMMA NothingRemovedStep ==
  ASSUME TypeOK, NoForgetting, NothingRemoved, [Next]_vars PROVE NothingRemoved'
<1>a. \A w \in Workers : workers[w] \in WorkerType /\ ~workers[w].detached
  BY DEF TypeOK, NothingRemoved
<1>b. ASSUME NEW w, NEW r, workers' = [workers EXCEPT ![w] = r], ~r.detached, UNCHANGED exists
      PROVE  NothingRemoved'
  BY <1>b DEF TypeOK, NothingRemoved
<1>c. ASSUME UNCHANGED <<workers, exists>> PROVE NothingRemoved'
  BY <1>c DEF NothingRemoved
<1>d. ASSUME NEW w, workers' = Signalled(w), UNCHANGED exists PROVE NothingRemoved'
  <2>1. \A v \in Workers : workers'[v].detached = workers[v].detached
    BY <1>a, <1>d DEF Signalled, TypeOK, WorkerType
  <2> QED BY <1>d, <2>1 DEF NothingRemoved
<1>e. ~Done.detached /\ \A p, g : ~Launch(p, g).detached
  BY DEF Done, Launch
<1>1. ASSUME NEW c \in Clients, BeginCall(c) PROVE NothingRemoved'
  BY <1>1, <1>c DEF BeginCall, BeginStart, BeginStop, BeginRestart, BeginForget,
     BeginStartEnabled, BeginStopAll, BeginShutdown
<1>2. ASSUME NEW c \in Clients, CallStep(c) PROVE NothingRemoved'
  <2>1. ~Untrack(c) /\ ~RemovePlatform(c)
    BY DEF NoForgetting, Untrack, RemovePlatform
  <2>2. CASE StartAccepted(c)
    <3> DEFINE p == calls[c].platform  g == Started(GetOrCreate(p)).generation
    <3>1. /\ UNCHANGED exists
          /\ \E w \in Workers : workers' = [workers EXCEPT ![w] = Launch(p, g)]
      BY <2>2 DEF StartAccepted
    <3>2. ~Launch(p, g).detached
      BY <1>e
    <3> QED BY <3>1, <3>2, <1>b
  <2>3. CASE StopProcess(c)
    BY <2>3, <1>d DEF StopProcess
  <2>4. CASE \/ NextPlatform(c) \/ FinishLoop(c) \/ CancelLifecycle(c) \/ Drain(c)
             \/ GetPlatform(c) \/ CheckConflict(c) \/ ComputeBlockers(c)
             \/ StartRefused(c) \/ LaunchReturns(c)
             \/ StopRefused(c) \/ StopWithoutProcess(c) \/ StopReturns(c)
    BY <2>4, <1>c DEF NextPlatform, FinishLoop, CancelLifecycle, Drain, GetPlatform,
       CheckConflict, ComputeBlockers, StartRefused, LaunchReturns, StopRefused,
       StopWithoutProcess, StopReturns
  <2> QED BY <1>2, <2>1, <2>2, <2>3, <2>4 DEF CallStep
<1>3. ASSUME NEW w \in Workers, WorkerStep(w) PROVE NothingRemoved'
  <2>1. \A pc, k, b :
          /\ ~[workers[w] EXCEPT !.pc = pc].detached
          /\ ~[workers[w] EXCEPT !.pc = pc, !.proc = k].detached
          /\ ~[workers[w] EXCEPT !.pc = pc, !.blockers = b].detached
    BY <1>a DEF WorkerType
  <2>2. ASSUME NEW pc, Move(w, pc), UNCHANGED exists PROVE NothingRemoved'
    BY <2>1, <2>2, <1>b DEF Move
  <2>3. ASSUME Finish(w), UNCHANGED exists PROVE NothingRemoved'
    BY <2>3, <1>b, <1>e DEF Finish
  <2>4. CASE \/ LaunchFails(w) \/ RetrieveKey(w) \/ Discard(w) \/ WatchExit(w) \/ Settle(w)
             \/ Park(w) \/ ScheduleRestart(w) \/ AbandonRestart(w) \/ RetryAfterBackoff(w)
             \/ Retry(w)
    <3>1. UNCHANGED exists /\ (Finish(w) \/ \E pc : Move(w, pc))
      BY <2>4 DEF LaunchFails, RetrieveKey, Discard, WatchExit, Settle, Park, ScheduleRestart,
         AbandonRestart, RetryAfterBackoff, Retry
    <3> QED BY <3>1, <2>2, <2>3
  <2>5. CASE Spawn(w)
    <3>1. /\ UNCHANGED exists
          /\ workers' = [workers EXCEPT ![w] =
               [workers[w] EXCEPT !.pc = "attach", !.proc = "running"]]
      BY <2>5 DEF Spawn
    <3> QED BY <3>1, <2>1, <1>b
  <2>6. CASE EvaluateRetry(w)
    <3>1. UNCHANGED exists
      BY <2>6 DEF EvaluateRetry
    <3>2. PICK b : workers' = [workers EXCEPT ![w] =
                     [workers[w] EXCEPT !.pc = "recheck", !.blockers = b]]
      BY <2>6 DEF EvaluateRetry
    <3>3. ~[workers[w] EXCEPT !.pc = "recheck", !.blockers = b].detached
      BY <2>1
    <3> QED BY <3>1, <3>2, <3>3, <1>b
  <2>7. CASE Attach(w)
    <3>1. UNCHANGED exists
      BY <2>7 DEF Attach
    <3>2. CASE Move(w, "watch")
      BY <3>1, <3>2, <2>2
    <3>3. CASE workers' = [Signalled(w) EXCEPT ![w].pc = "discard"]
      <4>1. \A v \in Workers : workers'[v].detached = workers[v].detached
        BY <1>a, <3>3 DEF Signalled, TypeOK, WorkerType
      <4> QED BY <3>1, <4>1 DEF NothingRemoved
    <3> QED BY <2>7, <3>2, <3>3 DEF Attach
  <2> QED BY <1>3, <2>4, <2>5, <2>6, <2>7 DEF WorkerStep
<1>4. ASSUME NEW w \in Workers, TerminatedExit(w) \/ SpontaneousExit(w) PROVE NothingRemoved'
  <2>1. /\ UNCHANGED exists
        /\ workers' = [workers EXCEPT ![w] = [workers[w] EXCEPT !.proc = "none"]]
    BY <1>4 DEF TerminatedExit, SpontaneousExit, Exit
  <2>2. ~[workers[w] EXCEPT !.proc = "none"].detached
    BY <1>a DEF WorkerType
  <2> QED BY <2>1, <2>2, <1>b
<1>5. CASE Resume
  <2> DEFINE p == reconciler.platform  g == branches[p].generation + 1
  <2>1. /\ UNCHANGED exists
        /\ \E w \in Workers : workers' = [workers EXCEPT ![w] = Launch(p, g)]
    BY <1>5 DEF Resume
  <2>2. ~Launch(p, g).detached
    BY <1>e
  <2> QED BY <2>1, <2>2, <1>b
<1>6. CASE KillProcess
  BY <1>6, <1>c, <1>d DEF KillProcess
<1>7. CASE \/ \E p \in Platforms : Reconcile(p)
           \/ TakeProcess \/ KillReturns \/ EvaluateResume \/ ResumeRefused \/ ResumeReturns
           \/ \E w \in Workers : Progress(w)
           \/ IngestLost \/ IngestCleared \/ IngestReceived \/ UNCHANGED vars
  BY <1>7, <1>c DEF Reconcile, TakeProcess, KillReturns, EvaluateResume, ResumeRefused,
     ResumeReturns, Progress, IngestLost, IngestCleared, IngestReceived, vars
<1> QED
  BY <1>1, <1>2, <1>3, <1>4, <1>5, <1>6, <1>7 DEF Next, ReconcilerStep, Environment

-----------------------------------------------------------------------------
(* Who leads a branch *)

Attending == (Launching \ {"discard"}) \cup Supervising

Leads(w, p) ==
  /\ Current(w) /\ workers[w].platform = p
  /\ workers[w].pc \in IF branches[p].state = "restarting" THEN Retrying ELSE Attending

Supervised(p) ==
  branches[p].desired => \/ branches[p].state = "waiting_for_ingest"
                         \/ \E w \in Workers : Leads(w, p)

LEMMA SupervisedEverywhere == DesiredIsSupervised <=> \A p \in Platforms : Supervised(p)
  BY DEF DesiredIsSupervised, Supervised, Leads, Attending

\* A record stands as it stood: nothing the supervision of the branch depends on
\* has changed, except that the desire may be gone.
SameStanding(p) ==
  /\ branches'[p].desired => branches[p].desired
  /\ \A st \in {"untracked", "restarting", "waiting_for_ingest"} :
       branches'[p].state = st <=> branches[p].state = st
  /\ branches'[p].generation = branches[p].generation

\* A worker works where it worked: on the same record, and still waiting to retry
\* it or still attending to its process.
SameWork(w) ==
  /\ workers'[w].platform = workers[w].platform
  /\ workers'[w].generation = workers[w].generation
  /\ \/ workers'[w].pc = workers[w].pc
     \/ {workers'[w].pc, workers[w].pc} \subseteq Retrying
     \/ {workers'[w].pc, workers[w].pc} \subseteq Attending

LEMMA Undisturbed ==
  ASSUME NEW p \in Platforms, Supervised(p), SameStanding(p),
         \A w \in Workers : Leads(w, p) => SameWork(w)
  PROVE  Supervised(p)'
<1>1. ASSUME branches'[p].desired, NEW w \in Workers, Leads(w, p) PROVE Leads(w, p)'
  <2>1. SameWork(w)
    BY <1>1
  <2>2. Active(w)' /\ workers'[w].pc \in IF branches[p].state = "restarting" THEN Retrying ELSE Attending
    BY <1>1, <2>1 DEF Leads, SameWork, Active, Attending, Retrying, Launching, Supervising
  <2>3. Current(w)'
    BY <1>1, <2>1, <2>2 DEF Leads, SameWork, SameStanding, Current, Tracked
  <2> QED BY <1>1, <2>1, <2>2, <2>3 DEF Leads, SameWork, SameStanding
<1> QED
  BY <1>1 DEF Supervised, SameStanding

\* A step of worker w concerns the record it works for and no other.
LEMMA WorkerConcern ==
  ASSUME DesiredIsSupervised, NEW w \in Workers, NEW q, q = workers[w].platform,
         \A p \in Platforms \ {q} : branches'[p] = branches[p],
         \A v \in Workers \ {w} : workers'[v] = workers[v],
         q \in Platforms => Supervised(q)'
  PROVE  DesiredIsSupervised'
<1>1. ASSUME NEW p \in Platforms \ {q} PROVE Supervised(p)'
  <2>1. Supervised(p) /\ SameStanding(p)
    BY SupervisedEverywhere DEF SameStanding
  <2>2. \A v \in Workers : Leads(v, p) => SameWork(v)
    BY DEF Leads, SameWork
  <2> QED BY <2>1, <2>2, Undisturbed
<1>2. \A p \in Platforms : Supervised(p)'
  BY <1>1
<1> QED
  BY <1>2 DEF DesiredIsSupervised, Supervised, Leads, Attending

\* A worker whose generation is past, or that only discards its process, leads
\* nothing: whatever it does leaves every branch supervised.
LEMMA NotLeading ==
  ASSUME DesiredIsSupervised, NEW w \in Workers, NEW q, q = workers[w].platform,
         ~Leads(w, q), UNCHANGED branches,
         \A v \in Workers \ {w} : workers'[v] = workers[v]
  PROVE  DesiredIsSupervised'
<1>1. ASSUME q \in Platforms PROVE Supervised(q)'
  <2>1. Supervised(q) /\ SameStanding(q)
    BY <1>1, SupervisedEverywhere DEF SameStanding
  <2>2. \A v \in Workers : Leads(v, q) => SameWork(v)
    BY DEF SameWork
  <2> QED BY <1>1, <2>1, <2>2, Undisturbed
<1> QED
  BY <1>1, WorkerConcern

\* A worker that goes on with its work leaves its branch supervised.
LEMMA GoesOn ==
  ASSUME DesiredIsSupervised, NEW w \in Workers, NEW q \in Platforms, q = workers[w].platform,
         SameStanding(q), SameWork(w),
         \A p \in Platforms \ {q} : branches'[p] = branches[p],
         \A v \in Workers \ {w} : workers'[v] = workers[v]
  PROVE  DesiredIsSupervised'
<1>1. Supervised(q)
  BY SupervisedEverywhere
<1>2. \A v \in Workers : SameWork(v)
  BY DEF SameWork
<1> QED
  BY <1>1, <1>2, Undisturbed, WorkerConcern

\* What the branch a worker acts on looks like after the step.
LEMMA WorkerStepSupervises ==
  ASSUME TypeOK, RecordsAgree, NothingRemoved, DesireAtShutdown, DesiredIsSupervised,
         "db" \notin Faults,
         NEW w \in Workers, WorkerStep(w)
  PROVE  DesiredIsSupervised'
<1>0. PICK q \in Platforms : q = workers[w].platform
  BY MoveType DEF WorkerStep, LaunchFails, RetrieveKey, Spawn, Attach, Discard, WatchExit,
     Settle, Park, ScheduleRestart, AbandonRestart, RetryAfterBackoff, EvaluateRetry, Retry,
     Active
<1>a. workers[w] \in WorkerType /\ branches[q] \in BranchType
  BY HandleType DEF TypeOK
<1>b. ASSUME NEW b, branches' = [branches EXCEPT ![q] = b]
      PROVE  branches'[q] = b /\ \A p \in Platforms \ {q} : branches'[p] = branches[p]
  BY <1>b DEF TypeOK
<1>c. ASSUME NEW r, workers' = [workers EXCEPT ![w] = r]
      PROVE  workers'[w] = r /\ \A v \in Workers \ {w} : workers'[v] = workers[v]
  BY <1>c DEF TypeOK
<1>d. ASSUME Finish(w) PROVE \A v \in Workers \ {w} : workers'[v] = workers[v]
  BY <1>d, <1>c DEF Finish
<1>e. ASSUME NEW pc, Move(w, pc)
      PROVE  /\ workers'[w].pc = pc /\ workers'[w].platform = q
             /\ workers'[w].generation = workers[w].generation
             /\ \A v \in Workers \ {w} : workers'[v] = workers[v]
  <2> DEFINE r == [workers[w] EXCEPT !.pc = pc]
  <2>1. workers' = [workers EXCEPT ![w] = r]
    BY <1>e DEF Move
  <2>2. r.pc = pc /\ r.platform = q /\ r.generation = workers[w].generation
    BY <1>0, <1>a DEF WorkerType
  <2> HIDE DEF r
  <2> QED BY <2>1, <2>2, <1>c
\* The branch is no longer desired, or it waits for ingest.
<1>f. ASSUME \A p \in Platforms \ {q} : branches'[p] = branches[p],
             \A v \in Workers \ {w} : workers'[v] = workers[v],
             ~branches'[q].desired \/ branches'[q].state = "waiting_for_ingest"
      PROVE  DesiredIsSupervised'
  <2>1. Supervised(q)'
    BY <1>f DEF Supervised
  <2> QED BY <1>0, <1>f, <2>1, WorkerConcern
\* The worker leads it, in a state of its own making.
<1>g. ASSUME \A p \in Platforms \ {q} : branches'[p] = branches[p],
             \A v \in Workers \ {w} : workers'[v] = workers[v], Leads(w, q)'
      PROVE  DesiredIsSupervised'
  <2>1. Supervised(q)'
    BY <1>g DEF Supervised
  <2> QED BY <1>0, <1>g, <2>1, WorkerConcern
\* It is as it was, and the worker moves on in its own part of the chain.
<1>h. ASSUME SameStanding(q), \A p \in Platforms \ {q} : branches'[p] = branches[p],
             NEW pc, Move(w, pc),
             {pc, workers[w].pc} \subseteq Retrying \/ {pc, workers[w].pc} \subseteq Attending
      PROVE  DesiredIsSupervised'
  <2>1. SameWork(w)
    BY <1>0, <1>e, <1>h DEF SameWork
  <2> QED BY <1>0, <1>e, <1>h, <2>1, GoesOn
<1>i. ASSUME UNCHANGED branches PROVE SameStanding(q)
  BY <1>i DEF SameStanding
<1>j. ASSUME ~Current(w), UNCHANGED branches, \A v \in Workers \ {w} : workers'[v] = workers[v]
      PROVE  DesiredIsSupervised'
  BY <1>0, <1>j, NotLeading DEF Leads
<1>1. CASE LaunchFails(w)
  <2>1. CASE Current(w)
    <3> DEFINE b == [branches[q] EXCEPT !.state = "error", !.desired = FALSE]
    <3>1. branches' = [branches EXCEPT ![q] = b] /\ Finish(w)
      BY <1>0, <1>1, <2>1 DEF LaunchFails
    <3>2. ~b.desired
      BY <1>a DEF BranchType
    <3> QED BY <3>1, <3>2, <1>b, <1>d, <1>f
  <2>2. CASE ~Current(w)
    BY <1>1, <2>2, <1>d, <1>j DEF LaunchFails
  <2> QED BY <2>1, <2>2
<1>2. CASE RetrieveKey(w) \/ Settle(w) \/ RetryAfterBackoff(w)
  <2>1. PICK pc : /\ Move(w, pc) /\ UNCHANGED branches
                  /\ \/ {pc, workers[w].pc} \subseteq Retrying
                     \/ {pc, workers[w].pc} \subseteq Attending
    BY <1>2 DEF RetrieveKey, Settle, RetryAfterBackoff, Retrying, Attending, Launching, Supervising
  <2> QED BY <2>1, <1>h, <1>i
<1>3. CASE Spawn(w)
  <2> DEFINE r == [workers[w] EXCEPT !.pc = "attach", !.proc = "running"]
  <2>1. workers' = [workers EXCEPT ![w] = r] /\ UNCHANGED branches /\ workers[w].pc = "spawn"
    BY <1>3 DEF Spawn
  <2>2. r.pc = "attach" /\ r.platform = workers[w].platform /\ r.generation = workers[w].generation
    BY <1>a DEF WorkerType
  <2>3. SameWork(w)
    BY <2>1, <2>2, <1>c DEF SameWork, Attending, Launching
  <2> QED BY <1>0, <2>1, <2>3, <1>c, <1>i, GoesOn
<1>4. CASE EvaluateRetry(w)
  <2>1. PICK blockers : workers' = [workers EXCEPT ![w] =
                          [workers[w] EXCEPT !.pc = "recheck", !.blockers = blockers]]
    BY <1>4 DEF EvaluateRetry
  <2> DEFINE r == [workers[w] EXCEPT !.pc = "recheck", !.blockers = blockers]
  <2>2. UNCHANGED branches /\ workers[w].pc = "eval"
    BY <1>4 DEF EvaluateRetry
  <2>3. r.pc = "recheck" /\ r.platform = workers[w].platform /\ r.generation = workers[w].generation
    BY <1>a DEF WorkerType
  <2>4. SameWork(w)
    BY <2>1, <2>2, <2>3, <1>c DEF SameWork, Retrying
  <2> QED BY <1>0, <2>1, <2>2, <2>4, <1>c, <1>i, GoesOn
<1>5. CASE Attach(w)
  <2>1. CASE Current(w)
    <3> DEFINE b == [branches[q] EXCEPT !.proc = w]
    <3>1. branches' = [branches EXCEPT ![q] = b] /\ Move(w, "watch") /\ workers[w].pc = "attach"
      BY <1>0, <1>5, <2>1 DEF Attach
    <3>2. b.desired = branches[q].desired /\ b.state = branches[q].state
            /\ b.generation = branches[q].generation
      BY <1>a DEF BranchType
    <3>3. SameStanding(q)
      BY <3>1, <3>2, <1>b DEF SameStanding
    <3> QED BY <3>1, <3>3, <1>b, <1>h DEF Attending, Launching, Supervising
  <2>2. CASE ~Current(w)
    <3>1. workers' = [Signalled(w) EXCEPT ![w].pc = "discard"] /\ UNCHANGED branches
      BY <1>5, <2>2 DEF Attach
    <3>2. \A v \in Workers \ {w} : workers'[v] = workers[v]
      BY <3>1 DEF Signalled, TypeOK
    <3> QED BY <2>2, <3>1, <3>2, <1>j
  <2> QED BY <2>1, <2>2
<1>6. CASE Discard(w)
  <2>1. ~Leads(w, q)
    BY <1>6 DEF Discard, Leads, Retrying, Attending, Supervising
  <2> QED BY <1>0, <1>6, <1>d, <2>1, NotLeading DEF Discard
<1>7. CASE WatchExit(w)
  <2>1. CASE Current(w)
    <3>1. branches' = [branches EXCEPT ![q] = Exited(branches[q])] /\ workers[w].pc = "watch"
      BY <1>0, <1>7, <2>1 DEF WatchExit
    <3>2. CASE ~branches[q].stopRequested /\ branches[q].desired
      <4>1. Move(w, "settle")
        BY <1>0, <1>7, <2>1, <3>2 DEF WatchExit
      <4>2. /\ Exited(branches[q]).desired = branches[q].desired
            /\ Exited(branches[q]).state = branches[q].state
            /\ Exited(branches[q]).generation = branches[q].generation
        BY <3>2, <1>a DEF Exited, BranchType
      <4>3. SameStanding(q)
        BY <3>1, <4>2, <1>b DEF SameStanding
      <4> QED BY <3>1, <4>1, <4>3, <1>b, <1>h DEF Attending, Supervising
    <3>3. CASE branches[q].stopRequested \/ ~branches[q].desired
      <4>1. Finish(w)
        BY <1>0, <1>7, <2>1, <3>3 DEF WatchExit
      <4>2. ~Exited(branches[q]).desired
        BY <3>3, <1>a DEF Exited, BranchType
      <4> QED BY <3>1, <4>1, <4>2, <1>b, <1>d, <1>f
    <3> QED BY <3>2, <3>3
  <2>2. CASE ~Current(w)
    BY <1>7, <2>2, <1>d, <1>j DEF WatchExit
  <2> QED BY <2>1, <2>2
<1>8. CASE Park(w)
  <2>1. CASE Current(w)
    <3> DEFINE b == [branches[q] EXCEPT !.state = "waiting_for_ingest"]
    <3>1. branches' = [branches EXCEPT ![q] = b] /\ Finish(w)
      BY <1>0, <1>8, <2>1 DEF Park, NothingRemoved
    <3>2. b.state = "waiting_for_ingest"
      BY <1>a DEF BranchType
    <3> QED BY <3>1, <3>2, <1>b, <1>d, <1>f
  <2>2. CASE ~Current(w)
    BY <1>8, <2>2, <1>d, <1>j DEF Park
  <2> QED BY <2>1, <2>2
<1>9. CASE ScheduleRestart(w)
  <2>1. Current(w)
    BY <1>9 DEF ScheduleRestart
  <2>2. PICK a \in AgedBranches(branches[q]) :
          \/ /\ branches' = [branches EXCEPT ![q] = [a EXCEPT !.state = "error", !.desired = FALSE]]
             /\ Finish(w)
          \/ /\ branches' = [branches EXCEPT ![q] =
                  [a EXCEPT !.state = "restarting", !.restarts = @ + 1, !.backoff = Doubled(@)]]
             /\ Move(w, "backoff")
    BY <1>0, <1>9 DEF ScheduleRestart
  <2>3. a \in BranchType /\ a.generation = branches[q].generation
    <3>1. a \in BranchType
      BY <1>a, PolicyType
    <3>2. /\ \A kept : [branches[q] EXCEPT !.restarts = kept].generation = branches[q].generation
          /\ [branches[q] EXCEPT !.backoff = MinBackoff, !.restarts = 0].generation
                = branches[q].generation
      BY <1>a DEF BranchType
    <3> QED BY <3>1, <3>2 DEF AgedBranches
  <2>4. ASSUME branches' = [branches EXCEPT ![q] = [a EXCEPT !.state = "error", !.desired = FALSE]],
               Finish(w)
        PROVE  DesiredIsSupervised'
    <3>1. ~[a EXCEPT !.state = "error", !.desired = FALSE].desired
      BY <2>3 DEF BranchType
    <3> QED BY <2>4, <3>1, <1>b, <1>d, <1>f
  <2> DEFINE b == [a EXCEPT !.state = "restarting", !.restarts = @ + 1, !.backoff = Doubled(@)]
  <2>5. ASSUME branches' = [branches EXCEPT ![q] = b], Move(w, "backoff")
        PROVE  DesiredIsSupervised'
    <3>1. b.state = "restarting" /\ b.generation = branches[q].generation
      BY <2>3 DEF BranchType
    <3>2. branches'[q].state = "restarting" /\ branches'[q].generation = workers[w].generation
      BY <2>1, <2>5, <3>1, <1>0, <1>b DEF Current
    <3>3. Leads(w, q)'
      BY <2>5, <3>2, <1>e DEF Leads, Current, Active, Tracked, Retrying
    <3> QED BY <2>5, <3>3, <1>b, <1>e, <1>g
  <2> QED BY <2>2, <2>4, <2>5
<1>10. CASE AbandonRestart(w)
  <2>1. UNCHANGED branches /\ \A v \in Workers \ {w} : workers'[v] = workers[v]
    BY <1>10, <1>d DEF AbandonRestart
  <2>2. ~Current(w) \/ ~branches[q].desired
    <3>1. CASE Current(w) => ~branches[workers[w].platform].desired
      BY <3>1, <1>0
    <3>2. CASE lifecycle = "cancelled"
      BY <3>2 DEF DesireAtShutdown
    <3> QED BY <1>0, <1>10, <3>1, <3>2 DEF AbandonRestart, NothingRemoved
  <2> QED BY <2>1, <2>2, <1>f, <1>j
<1>11. CASE Retry(w)
  <2> DEFINE b == Rechecked(branches[q], workers[w].blockers)
  <2>1. /\ branches' = [branches EXCEPT ![q] = b] /\ Current(w)
        /\ IF workers[w].blockers = "none" THEN Move(w, "key") ELSE Finish(w)
    BY <1>0, <1>11 DEF Retry
  <2>2. workers[w].blockers \in Blockers
    BY <1>a DEF WorkerType
  <2>3. CASE workers[w].blockers = "none"
    <3>1. b.state = "starting" /\ b.generation = branches[q].generation
      BY <2>3, <1>a DEF Rechecked, BranchType
    <3>2. branches'[q].state = "starting" /\ branches'[q].generation = workers[w].generation
      BY <2>1, <3>1, <1>0, <1>b DEF Current
    <3>3. Leads(w, q)'
      BY <2>1, <2>3, <3>2, <1>e DEF Leads, Current, Active, Tracked, Attending, Launching
    <3> QED BY <2>1, <2>3, <3>3, <1>b, <1>e, <1>g
  <2>4. CASE workers[w].blockers # "none"
    <3>1. ~b.desired \/ b.state = "waiting_for_ingest"
      BY <2>2, <2>4, <1>a DEF Rechecked, BranchType, Blockers
    <3> QED BY <2>1, <2>4, <3>1, <1>b, <1>d, <1>f
  <2> QED BY <2>3, <2>4
<1> QED
  BY <1>1, <1>2, <1>3, <1>4, <1>5, <1>6, <1>7, <1>8, <1>9, <1>10, <1>11 DEF WorkerStep

\* A launch puts its worker in the lead of the branch it was decided for.
LEMMA LaunchLeads ==
  ASSUME TypeOK, DesiredIsSupervised, NEW q \in Platforms, NEW w \in Workers, Launches(q, w),
         branches'[q].state = "starting"
  PROVE  DesiredIsSupervised'
<1>1. /\ workers'[w].pc = "key" /\ workers'[w].platform = q
      /\ workers'[w].generation = branches'[q].generation
      /\ \A v \in Workers \ {w} : workers'[v] = workers[v]
  BY DEF Launches, Launch, Done, TypeOK
<1>2. Leads(w, q)'
  BY <1>1 DEF Leads, Current, Active, Tracked, Attending, Launching
<1>3. ASSUME NEW p \in Platforms \ {q} PROVE Supervised(p)'
  <2>1. Supervised(p) /\ SameStanding(p)
    BY SupervisedEverywhere DEF SameStanding, Launches
  <2>2. \A v \in Workers : Leads(v, p) => SameWork(v)
    BY <1>1 DEF Leads, Current, SameWork, Launches
  <2> QED BY <2>1, <2>2, Undisturbed
<1>4. \A p \in Platforms : Supervised(p)'
  BY <1>2, <1>3 DEF Supervised
<1> QED
  BY <1>4 DEF DesiredIsSupervised, Supervised, Leads, Attending

\* Whoever changes one record, and no worker's place, leaves every other branch
\* supervised.
LEMMA RecordConcern ==
  ASSUME DesiredIsSupervised, NEW q \in Platforms, \A w \in Workers : SameWork(w),
         \A p \in Platforms \ {q} : branches'[p] = branches[p],
         SameStanding(q) \/ ~branches'[q].desired
  PROVE  DesiredIsSupervised'
<1>1. ASSUME NEW p \in Platforms PROVE Supervised(p)'
  <2>1. CASE p = q /\ ~branches'[q].desired
    BY <2>1 DEF Supervised
  <2>2. CASE SameStanding(p)
    BY <2>2, SupervisedEverywhere, Undisturbed
  <2> QED BY <2>1, <2>2 DEF SameStanding
<1> QED
  BY <1>1 DEF DesiredIsSupervised, Supervised, Leads, Attending

LEMMA NothingConcerned ==
  ASSUME DesiredIsSupervised, \A w \in Workers : SameWork(w), UNCHANGED branches
  PROVE  DesiredIsSupervised'
<1>1. ASSUME NEW p \in Platforms PROVE Supervised(p)'
  BY SupervisedEverywhere, Undisturbed DEF SameStanding
<1> QED
  BY <1>1 DEF DesiredIsSupervised, Supervised, Leads, Attending

LEMMA SignalledWorks ==
  ASSUME TypeOK, NEW u, workers' = Signalled(u) PROVE \A w \in Workers : SameWork(w)
  BY DEF Signalled, SameWork, TypeOK, WorkerType

LEMMA SupervisedStep ==
  ASSUME TypeOK, RecordsAgree, NoForgetting, NothingRemoved, DesireAtShutdown,
         DesiredIsSupervised, "db" \notin Faults, [Next]_vars
  PROVE  DesiredIsSupervised'
<1>a. ASSUME UNCHANGED workers PROVE \A w \in Workers : SameWork(w)
  BY <1>a DEF SameWork
<1>b. ASSUME UNCHANGED <<branches, workers>> PROVE DesiredIsSupervised'
  BY <1>a, <1>b, NothingConcerned
<1>c. \A p \in Platforms : branches[p] \in BranchType
  BY HandleType
<1>d. ASSUME NEW p \in Platforms, NEW b, branches' = [branches EXCEPT ![p] = b]
      PROVE  branches'[p] = b /\ \A q \in Platforms \ {p} : branches'[q] = branches[q]
  BY <1>d DEF TypeOK
<1>e. ASSUME NEW p \in Platforms, NEW b, branches' = [branches EXCEPT ![p] = b], ~b.desired,
             \A w \in Workers : SameWork(w)
      PROVE  DesiredIsSupervised'
  BY <1>d, <1>e, RecordConcern
<1>f. ASSUME NEW p \in Platforms, branches' = [branches EXCEPT ![p] = GetOrCreate(p)],
             UNCHANGED workers
      PROVE  DesiredIsSupervised'
  <2>1. CASE Tracked(p)
    <3>1. UNCHANGED branches
      BY <1>f, <2>1 DEF GetOrCreate, TypeOK
    <3> QED BY <1>b, <1>f, <3>1
  <2>2. CASE ~Tracked(p)
    <3>1. ~GetOrCreate(p).desired
      BY <2>2 DEF GetOrCreate, Fresh
    <3>2. \A w \in Workers : SameWork(w)
      BY <1>a, <1>f
    <3> QED BY <1>e, <1>f, <3>1, <3>2
  <2> QED BY <2>1, <2>2
<1>1. ASSUME NEW c \in Clients, BeginCall(c) PROVE DesiredIsSupervised'
  BY <1>1, <1>b DEF BeginCall, BeginStart, BeginStop, BeginRestart, BeginForget,
     BeginStartEnabled, BeginStopAll, BeginShutdown
<1>2. ASSUME NEW c \in Clients, CallStep(c) PROVE DesiredIsSupervised'
  <2> DEFINE p == calls[c].platform
  <2>a. calls[c].pc \notin {"idle", "next", "drain"} => p \in Platforms
    BY DEF TypeOK, CallType
  <2>1. CASE CheckConflict(c)
    BY <2>1, <2>a, <1>f DEF CheckConflict
  <2>2. CASE StartRefused(c)
    <3> DEFINE b == [GetOrCreate(p) EXCEPT !.state = "blocked", !.desired = FALSE]
    <3>1. /\ p \in Platforms /\ UNCHANGED workers
          /\ \/ branches' = [branches EXCEPT ![p] = GetOrCreate(p)]
             \/ branches' = [branches EXCEPT ![p] = b]
      BY <2>2, <2>a DEF StartRefused
    <3>2. ~b.desired
      BY <3>1, HandleType DEF BranchType
    <3> QED BY <3>1, <3>2, <1>a, <1>e, <1>f
  <2>3. CASE StartAccepted(c)
    <3>1. PICK q \in Platforms : q = p
      BY <2>3, <2>a DEF StartAccepted
    <3>2. GetOrCreate(q) \in BranchType
      BY HandleType
    <3> DEFINE b == Started(GetOrCreate(q))
    <3>3. /\ branches' = [branches EXCEPT ![q] = b]
          /\ \E w \in Workers : Allocatable(w) /\ workers' = [workers EXCEPT ![w] = Launch(q, b.generation)]
      BY <2>3, <3>1 DEF StartAccepted
    <3>4. b.state = "starting" /\ b.generation = GetOrCreate(q).generation + 1
      BY <3>2 DEF Started, BranchType
    <3>5. branches'[q] = b /\ \A r \in Platforms \ {q} : branches'[r] = branches[r]
      BY <3>3, <1>d
    <3>6. PICK w \in Workers : Allocatable(w) /\ workers' = [workers EXCEPT ![w] = Launch(q, branches'[q].generation)]
      BY <3>3, <3>5
    <3>7. Launches(q, w)
      BY <3>4, <3>5, <3>6 DEF Launches, Allocatable, Tracked, GetOrCreate
    <3> QED BY <3>4, <3>5, <3>7, LaunchLeads
  <2>4. CASE StopWithoutProcess(c)
    <3> DEFINE b == [branches[p] EXCEPT !.state = "idle", !.desired = FALSE]
    <3>1. branches' = [branches EXCEPT ![p] = b] /\ p \in Platforms /\ UNCHANGED workers
      BY <2>4, <2>a DEF StopWithoutProcess
    <3>2. ~b.desired
      BY <3>1, <1>c DEF BranchType
    <3> QED BY <3>1, <3>2, <1>a, <1>e
  <2>5. CASE StopProcess(c)
    <3> DEFINE b == [branches[p] EXCEPT !.state = "stopping", !.desired = FALSE,
                                        !.stopRequested = TRUE]
    <3>1. /\ branches' = [branches EXCEPT ![p] = b] /\ p \in Platforms
          /\ workers' = Signalled(branches[p].proc)
      BY <2>5, <2>a DEF StopProcess
    <3>2. ~b.desired
      BY <3>1, <1>c DEF BranchType
    <3> QED BY <3>1, <3>2, <1>e, SignalledWorks
  <2>6. CASE \/ NextPlatform(c) \/ FinishLoop(c) \/ CancelLifecycle(c) \/ Drain(c)
             \/ GetPlatform(c) \/ ComputeBlockers(c) \/ LaunchReturns(c)
             \/ StopRefused(c) \/ StopReturns(c) \/ RemovePlatform(c)
    BY <2>6, <1>b DEF NextPlatform, FinishLoop, CancelLifecycle, Drain, GetPlatform,
       ComputeBlockers, LaunchReturns, StopRefused, StopReturns, RemovePlatform
  <2>7. ~Untrack(c)
    BY DEF NoForgetting, Untrack
  <2> QED BY <1>2, <2>1, <2>2, <2>3, <2>4, <2>5, <2>6, <2>7 DEF CallStep
<1>3. ASSUME NEW w \in Workers, WorkerStep(w) PROVE DesiredIsSupervised'
  BY <1>3, WorkerStepSupervises
<1>4. CASE Resume
  <2>1. PICK q \in Platforms : q = reconciler.platform
    BY <1>4 DEF Resume, TypeOK, ReconcilerType
  <2> DEFINE g == branches[q].generation + 1
             b == [branches[q] EXCEPT !.state = "starting", !.live = FALSE, !.generation = g]
  <2>2. /\ branches' = [branches EXCEPT ![q] = b]
        /\ \E w \in Workers : ~Active(w) /\ workers' = [workers EXCEPT ![w] = Launch(q, g)]
    BY <1>4, <2>1 DEF Resume, Allocatable
  <2>3. b.state = "starting" /\ b.generation = g
    BY <1>c DEF BranchType
  <2>4. branches'[q] = b /\ \A r \in Platforms \ {q} : branches'[r] = branches[r]
    BY <2>2, <1>d
  <2>5. PICK w \in Workers : ~Active(w) /\ workers' = [workers EXCEPT ![w] = Launch(q, branches'[q].generation)]
    BY <2>2, <2>3, <2>4
  <2>6. Launches(q, w)
    BY <2>3, <2>4, <2>5 DEF Launches, Tracked
  <2> QED BY <2>3, <2>4, <2>6, LaunchLeads
<1>5. ASSUME NEW w \in Workers, Progress(w) PROVE DesiredIsSupervised'
  <2>1. PICK q \in Platforms : q = workers[w].platform
    BY <1>5, MoveType DEF Progress, Current
  <2> DEFINE b == [branches[q] EXCEPT !.state = "live", !.live = TRUE]
  <2>2. branches' = [branches EXCEPT ![q] = b] /\ UNCHANGED workers /\ branches[q].state = "starting"
    BY <1>5, <2>1 DEF Progress
  <2>3. b.state = "live" /\ b.desired = branches[q].desired /\ b.generation = branches[q].generation
    BY <1>c DEF BranchType
  <2>4. SameStanding(q)
    BY <2>2, <2>3, <1>d DEF SameStanding
  <2>5. \A v \in Workers : SameWork(v)
    BY <2>2, <1>a
  <2>6. \A p \in Platforms \ {q} : branches'[p] = branches[p]
    BY <2>2, <1>d
  <2> QED BY <2>4, <2>5, <2>6, RecordConcern
<1>6. ASSUME NEW w \in Workers, TerminatedExit(w) \/ SpontaneousExit(w) PROVE DesiredIsSupervised'
  <2>1. /\ UNCHANGED branches
        /\ workers' = [workers EXCEPT ![w] = [workers[w] EXCEPT !.proc = "none"]]
    BY <1>6 DEF TerminatedExit, SpontaneousExit, Exit
  <2>2. \A v \in Workers : SameWork(v)
    BY <2>1 DEF TypeOK, WorkerType, SameWork
  <2> QED BY <2>1, <2>2, NothingConcerned
<1>7. CASE KillProcess
  <2>1. UNCHANGED branches /\ (UNCHANGED workers \/ workers' = Signalled(reconciler.proc))
    BY <1>7 DEF KillProcess
  <2> QED BY <2>1, <1>b, SignalledWorks, NothingConcerned
<1>8. CASE \/ \E p \in Platforms : Reconcile(p)
           \/ TakeProcess \/ KillReturns \/ EvaluateResume \/ ResumeRefused \/ ResumeReturns
           \/ IngestLost \/ IngestCleared \/ IngestReceived \/ UNCHANGED vars
  BY <1>8, <1>b DEF Reconcile, TakeProcess, KillReturns, EvaluateResume, ResumeRefused,
     ResumeReturns, IngestLost, IngestCleared, IngestReceived, vars
<1> QED
  BY <1>1, <1>2, <1>3, <1>4, <1>5, <1>6, <1>7, <1>8 DEF Next, ReconcilerStep, Environment

\* No branch is ever abandoned: in a manager whose platforms are never deleted and
\* whose repository does not fail, a branch that is desired to run waits for ingest
\* or has a worker of its current generation launching, watching or retrying it,
\* through every interleaving of starts, stops, crashes, retries and a shutdown.
THEOREM BranchSupervision ==
  ASSUME "forget" \notin Operations, "db" \notin Faults
  PROVE  Spec => []DesiredIsSupervised
<1> DEFINE IInv == /\ RecordsAgree /\ NoForgetting /\ NothingRemoved
                   /\ CallsAtShutdown /\ DesireAtShutdown /\ DesiredIsSupervised
<1>1. Init => IInv
  <2> SUFFICES ASSUME Init PROVE IInv
    OBVIOUS
  <2>1. \A p \in Platforms : ~branches[p].desired
    BY DEF Init, Untracked, Fresh
  <2>2. \A c \in Clients : calls[c].op = "none" /\ calls[c].pc = "idle"
    BY DEF Init, IdleCall
  <2>3. RecordsAgree
    BY AgreesUpdates, AgreesEverywhere DEF Init
  <2>4. NoForgetting /\ CallsAtShutdown
    BY <2>2 DEF NoForgetting, CallsAtShutdown
  <2>5. DesireAtShutdown /\ DesiredIsSupervised
    BY <2>1 DEF DesireAtShutdown, DesiredIsSupervised
  <2>6. NothingRemoved
    BY DEF Init, NothingRemoved, Done
  <2> QED BY <2>3, <2>4, <2>5, <2>6
<1>2. TypeOK /\ IInv /\ [Next]_vars => IInv'
  BY AgreesStep, NoForgettingStep, NothingRemovedStep, ShutdownStep, SupervisedStep
<1>3. IInv => DesiredIsSupervised
  OBVIOUS
<1> HIDE DEF IInv
<1> QED
  BY <1>1, <1>2, <1>3, TypeCorrect, PTL DEF Spec
=============================================================================
