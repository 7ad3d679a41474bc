--------------------------- MODULE BranchManager ---------------------------
(***************************************************************************)
(* The branch manager (internal/runtime/branch): one FFmpeg process per    *)
(* destination, supervised through one record per platform behind one      *)
(* mutex that is never held across a spawn, a database read or a stop.     *)
(*                                                                         *)
(* An action is one critical section of Manager.mu, or one unlocked        *)
(* operation between two of them.  Four kinds of actors take them:         *)
(*   - clients: HTTP handlers running StartBranch, StopBranch, ...         *)
(*   - workers: each "generation++" begins one chain launch -> watchExit   *)
(*     -> settle -> scheduleRestart -> retryAfterBackoff -> launch ...     *)
(*     that the code passes from goroutine to goroutine; it is one worker, *)
(*     and the at most one process it has at a time is named by it         *)
(*   - the reconciler goroutine (reconcileLoop)                            *)
(*   - the environment: FFmpeg, the ingest and the stored configuration    *)
(***************************************************************************)
EXTENDS Integers, FiniteSets

CONSTANTS
  Platforms,      \* destination ids
  Workers,        \* supervision chains that can be alive at once
  Clients,        \* concurrent API calls
  NoPlatform, NoWorker,
  MinBackoff, MaxBackoff,   \* policyMinBackoff, policyMaxBackoff
  MaxRestarts,    \* policyMaxRestartsPerWindow
  Operations,     \* the API operations clients call
  Faults,         \* what may fail: see Fault below
  MaxCalls, MaxLosses, MaxCrashes   \* bounds on the environment's inputs

Operation == {"start", "stop", "restart", "startEnabled", "stopAll",
              "forget", "shutdown"}

\* "config": a blocker other than the ingest's;   "db": a repository error;
\* "key": no stream key;   "spawn": cmd.Start fails;   "stop": stop() times out
Fault == {"config", "db", "key", "spawn", "stop"}

ASSUME IdsAssumption == NoPlatform \notin Platforms /\ NoWorker \notin Workers
ASSUME PolicyAssumption ==
  /\ MinBackoff \in Nat \ {0} /\ MaxBackoff \in Nat /\ MinBackoff <= MaxBackoff
  /\ MaxRestarts \in Nat
ASSUME ScopeAssumption ==
  /\ Operations \subseteq Operation /\ Faults \subseteq Fault
  /\ MaxCalls \in Nat /\ MaxLosses \in Nat /\ MaxCrashes \in Nat

VARIABLES
  branches,    \* Manager.branches: platform -> branchState ("untracked": no entry)
  workers,     \* the supervision chains and their processes
  calls,       \* the API calls in progress
  reconciler,  \* what the reconcileLoop goroutine is doing
  ingest,      \* the supervisor snapshot computeBlockers and watchExit read
  exists,      \* the platforms table
  lifecycle,   \* m.lifecycle: "open", "closing" (Shutdown began), "cancelled"
  used         \* the environment's inputs so far

vars == <<branches, workers, calls, reconciler, ingest, exists, lifecycle, used>>

-----------------------------------------------------------------------------
(* Records *)

Running == {"starting", "live", "restarting"}
State   == Running \cup {"untracked", "idle", "blocked", "waiting_for_ingest",
                         "stopping", "error"}

\* "ingest" stands for a list of nothing but ingest blockers (onlyIngestBlockers)
Blockers == {"none", "ingest", "config"}

Fresh == [state |-> "idle", desired |-> FALSE, stopRequested |-> FALSE,
          generation |-> 0, proc |-> NoWorker, backoff |-> MinBackoff,
          restarts |-> 0, live |-> FALSE]
Untracked == [Fresh EXCEPT !.state = "untracked"]

Tracked(p)     == branches[p].state # "untracked"
GetOrCreate(p) == IF Tracked(p) THEN branches[p] ELSE Fresh

\* Where a worker is in its chain
Launching  == {"key", "spawn", "attach", "discard"}
Supervising == {"watch", "settle", "park", "crash"}
Retrying   == {"backoff", "eval", "recheck"}

Done == [pc |-> "done", platform |-> NoPlatform, generation |-> 0,
         proc |-> "none", blockers |-> "none", detached |-> FALSE]
Launch(p, g) == [Done EXCEPT !.pc = "key", !.platform = p, !.generation = g]

IdleCall == [op |-> "none", pc |-> "idle", platform |-> NoPlatform,
             blockers |-> "none", proc |-> NoWorker, todo |-> {}]
IdleReconciler == [pc |-> "idle", platform |-> NoPlatform, proc |-> NoWorker]

Active(w)  == workers[w].pc # "done"
Alive(w)   == workers[w].proc # "none"

\* The guard every critical section of a worker begins with
\* (b == nil || b.generation != generation, negated)
Current(w) == /\ Active(w)
              /\ Tracked(workers[w].platform)
              /\ workers[w].generation = branches[workers[w].platform].generation

\* A worker id is used again only when nothing refers to its last process
Allocatable(w) == /\ ~Active(w)
                  /\ \A p \in Platforms : branches[p].proc # w
                  /\ \A c \in Clients : calls[c].proc # w
                  /\ reconciler.proc # w

\* A handle on an exited process is inert (stop returns at once), so whoever holds
\* one is given NoWorker: the worker's next process is another process
Handle(p) == IF branches[p].proc # NoWorker /\ Alive(branches[p].proc)
               THEN branches[p].proc ELSE NoWorker

Signalled(w) == [workers EXCEPT ![w].proc = IF @ = "running" THEN "signalled" ELSE @]
Move(w, pc)  == workers' = [workers EXCEPT ![w].pc = pc]
Finish(w)    == workers' = [workers EXCEPT ![w] = Done]

\* What one computeBlockers(p) call can report
Evaluations(p) ==
  (IF "config" \in Faults \/ ~exists[p] THEN {"config"} ELSE {})
    \cup (IF exists[p] THEN {IF ingest = "receiving" THEN "none" ELSE "ingest"} ELSE {})

\* The snapshots of the supervisor: see MediaMTXSupervisor, which implements this
Ingest == INSTANCE IngestSource

\* snapshot.Ingest.State: RequestStop of the supervisor leaves the last ingest
\* snapshot in place while MediaMTX is "stopping"
Receiving == ingest # "absent"

-----------------------------------------------------------------------------
Init == /\ branches = [p \in Platforms |-> Untracked]
        /\ workers = [w \in Workers |-> Done]
        /\ calls = [c \in Clients |-> IdleCall]
        /\ reconciler = IdleReconciler
        /\ Ingest!Init
        /\ exists = [p \in Platforms |-> TRUE]
        /\ lifecycle = "open"
        /\ used = [calls |-> 0, losses |-> 0, crashes |-> 0]

-----------------------------------------------------------------------------
(* API calls *)

Begin(c, op, call) ==
  /\ op \in Operations
  /\ lifecycle = "open"
  /\ calls[c].pc = "idle"
  /\ used.calls < MaxCalls
  /\ used' = [used EXCEPT !.calls = @ + 1]
  /\ calls' = [calls EXCEPT ![c] = call]

BeginStart(c, p) ==
  /\ Begin(c, "start", [IdleCall EXCEPT !.op = "start", !.pc = "get", !.platform = p])
  /\ UNCHANGED <<branches, workers, reconciler, ingest, exists, lifecycle>>

BeginStop(c, p) ==
  /\ Begin(c, "stop", [IdleCall EXCEPT !.op = "stop", !.pc = "stop", !.platform = p])
  /\ UNCHANGED <<branches, workers, reconciler, ingest, exists, lifecycle>>

\* RestartBranch: stop first only when a process is attached right now
BeginRestart(c, p) ==
  /\ Begin(c, "restart",
           [IdleCall EXCEPT !.op = "restart", !.platform = p,
                            !.pc = IF branches[p].proc # NoWorker THEN "stop" ELSE "get"])
  /\ UNCHANGED <<branches, workers, reconciler, ingest, exists, lifecycle>>

BeginStartEnabled(c) ==
  /\ \E enabled \in SUBSET {p \in Platforms : exists[p]} :
       Begin(c, "startEnabled",
             [IdleCall EXCEPT !.op = "startEnabled", !.pc = "next", !.todo = enabled])
  /\ UNCHANGED <<branches, workers, reconciler, ingest, exists, lifecycle>>

\* Mutant of Stoppable: only what has a process, or says that it has none, is stopped
StoppableProcess(p) ==
  branches[p].proc # NoWorker \/ branches[p].state \in {"blocked", "waiting_for_ingest"}

Stoppable(p) == \/ branches[p].desired
                \/ branches[p].proc # NoWorker
                \/ branches[p].state \in {"blocked", "waiting_for_ingest"}

BeginStopAll(c) ==
  /\ Begin(c, "stopAll", [IdleCall EXCEPT !.op = "stopAll", !.pc = "next",
                                         !.todo = {p \in Platforms : Stoppable(p)}])
  /\ UNCHANGED <<branches, workers, reconciler, ingest, exists, lifecycle>>

\* The delete-platform handler: Forget, then the credentials, then the row
BeginForget(c, p) ==
  /\ exists[p]
  /\ Begin(c, "forget", [IdleCall EXCEPT !.op = "forget", !.pc = "stop", !.platform = p])
  /\ UNCHANGED <<branches, workers, reconciler, ingest, exists, lifecycle>>

\* Shutdown comes after HTTP has drained
BeginShutdown(c) ==
  /\ \A other \in Clients : calls[other].pc = "idle"
  /\ Begin(c, "shutdown", [IdleCall EXCEPT !.op = "shutdown", !.pc = "next",
                                           !.todo = {p \in Platforms : Tracked(p)}])
  /\ lifecycle' = "closing"
  /\ UNCHANGED <<branches, workers, reconciler, ingest, exists>>

\* The loops of StartEnabled, StopAll and Shutdown
NextPlatform(c) ==
  /\ calls[c].pc = "next"
  /\ \E p \in calls[c].todo :
       calls' = [calls EXCEPT ![c].platform = p, ![c].todo = @ \ {p},
                   ![c].pc = IF calls[c].op = "startEnabled" THEN "get" ELSE "stop"]
  /\ UNCHANGED <<branches, workers, reconciler, ingest, exists, lifecycle, used>>

FinishLoop(c) ==
  /\ calls[c].pc = "next" /\ calls[c].todo = {} /\ calls[c].op # "shutdown"
  /\ calls' = [calls EXCEPT ![c] = IdleCall]
  /\ UNCHANGED <<branches, workers, reconciler, ingest, exists, lifecycle, used>>

CancelLifecycle(c) ==
  /\ calls[c].pc = "next" /\ calls[c].todo = {} /\ calls[c].op = "shutdown"
  /\ lifecycle' = "cancelled"
  /\ calls' = [calls EXCEPT ![c].pc = "drain"]
  /\ UNCHANGED <<branches, workers, reconciler, ingest, exists, used>>

\* m.workers.Wait(), or the shutdown context running out
Drain(c) ==
  /\ calls[c].pc = "drain"
  /\ \/ reconciler.pc = "idle" /\ \A w \in Workers : ~Active(w)
     \/ "stop" \in Faults
  /\ calls' = [calls EXCEPT ![c] = IdleCall]
  /\ UNCHANGED <<branches, workers, reconciler, ingest, exists, lifecycle, used>>

AfterStart(c) ==
  IF calls[c].op = "startEnabled"
    THEN [IdleCall EXCEPT !.op = "startEnabled", !.pc = "next", !.todo = calls[c].todo]
    ELSE IdleCall

AfterStop(c) ==
  CASE calls[c].op = "restart" -> [calls[c] EXCEPT !.pc = "get", !.proc = NoWorker]
    [] calls[c].op = "forget"  -> [calls[c] EXCEPT !.pc = "untrack", !.proc = NoWorker]
    [] calls[c].op \in {"stopAll", "shutdown"} ->
         [calls[c] EXCEPT !.pc = "next", !.platform = NoPlatform, !.proc = NoWorker]
    [] OTHER -> IdleCall

-----------------------------------------------------------------------------
(* StartBranch *)

GetPlatform(c) ==
  /\ calls[c].pc = "get"
  /\ calls' = [calls EXCEPT ![c] = IF exists[calls[c].platform]
                                     THEN [@ EXCEPT !.pc = "check"] ELSE AfterStart(c)]
  /\ UNCHANGED <<branches, workers, reconciler, ingest, exists, lifecycle, used>>

\* The first critical section: an untracked branch gets its record here
CheckConflict(c) ==
  /\ calls[c].pc = "check"
  /\ LET b == GetOrCreate(calls[c].platform)
     IN /\ branches' = [branches EXCEPT ![calls[c].platform] = b]
        /\ calls' = [calls EXCEPT ![c] = IF b.state \in Running
                                           THEN AfterStart(c) ELSE [@ EXCEPT !.pc = "compute"]]
  /\ UNCHANGED <<workers, reconciler, ingest, exists, lifecycle, used>>

ComputeBlockers(c) ==
  /\ calls[c].pc = "compute"
  /\ \/ \E blockers \in Evaluations(calls[c].platform) :
          calls' = [calls EXCEPT ![c].pc = "commit", ![c].blockers = blockers]
     \/ "db" \in Faults /\ calls' = [calls EXCEPT ![c] = AfterStart(c)]
  /\ UNCHANGED <<branches, workers, reconciler, ingest, exists, lifecycle, used>>

StartRefused(c) ==
  /\ calls[c].pc = "commit"
  /\ LET b == GetOrCreate(calls[c].platform)
     IN branches' =
          [branches EXCEPT ![calls[c].platform] =
             IF b.state \in Running
               THEN b
               ELSE [b EXCEPT !.state = "blocked", !.desired = FALSE]]
  /\ branches[calls[c].platform].state \in Running \/ calls[c].blockers # "none"
  /\ calls' = [calls EXCEPT ![c] = AfterStart(c)]
  /\ UNCHANGED <<workers, reconciler, ingest, exists, lifecycle, used>>

\* Mutants of Started: the generation, or the stop request, survives a new start
StartedInSameGeneration(b) ==
  [b EXCEPT !.state = "starting", !.desired = TRUE, !.stopRequested = FALSE,
            !.backoff = MinBackoff, !.restarts = 0, !.live = FALSE]
StartedKeepingStopRequest(b) ==
  [b EXCEPT !.state = "starting", !.desired = TRUE, !.generation = @ + 1,
            !.backoff = MinBackoff, !.restarts = 0, !.live = FALSE]

Started(b) ==
  [b EXCEPT !.state = "starting", !.desired = TRUE, !.stopRequested = FALSE,
            !.generation = @ + 1, !.backoff = MinBackoff, !.restarts = 0, !.live = FALSE]

\* The launch that follows runs on the caller's goroutine
StartAccepted(c) ==
  /\ calls[c].pc = "commit" /\ calls[c].blockers = "none"
  /\ branches[calls[c].platform].state \notin Running
  /\ LET p == calls[c].platform
         b == Started(GetOrCreate(p))
     IN /\ branches' = [branches EXCEPT ![p] = b]
        /\ \E w \in Workers :
             /\ Allocatable(w)
             /\ workers' = [workers EXCEPT ![w] = Launch(p, b.generation)]
             /\ calls' = [calls EXCEPT ![c].pc = "launching", ![c].proc = w]
  /\ UNCHANGED <<reconciler, ingest, exists, lifecycle, used>>

LaunchReturns(c) ==
  /\ calls[c].pc = "launching"
  /\ workers[calls[c].proc].pc \notin Launching
  /\ calls' = [calls EXCEPT ![c] = AfterStart(c)]
  /\ UNCHANGED <<branches, workers, reconciler, ingest, exists, lifecycle, used>>

-----------------------------------------------------------------------------
(* StopBranch and Forget *)

StopRefused(c) ==
  /\ calls[c].pc = "stop"
  /\ ~branches[calls[c].platform].desired
  /\ branches[calls[c].platform].state # "blocked"
  /\ calls' = [calls EXCEPT ![c] = AfterStop(c)]
  /\ UNCHANGED <<branches, workers, reconciler, ingest, exists, lifecycle, used>>

StopWithoutProcess(c) ==
  LET p == calls[c].platform IN
  /\ calls[c].pc = "stop"
  /\ branches[p].desired \/ branches[p].state = "blocked"
  /\ branches[p].proc = NoWorker
  /\ branches' = [branches EXCEPT ![p].state = "idle", ![p].desired = FALSE]
  /\ calls' = [calls EXCEPT ![c] = AfterStop(c)]
  /\ UNCHANGED <<workers, reconciler, ingest, exists, lifecycle, used>>

\* The signal is sent just after the unlock; it commutes with every step taken
\* in between, since each of them reaches the process by its worker
StopProcess(c) ==
  LET p == calls[c].platform IN
  /\ calls[c].pc = "stop"
  /\ branches[p].desired \/ branches[p].state = "blocked"
  /\ branches[p].proc # NoWorker
  /\ branches' = [branches EXCEPT ![p].state = "stopping", ![p].desired = FALSE,
                                  ![p].stopRequested = TRUE]
  /\ workers' = Signalled(branches[p].proc)
  /\ calls' = [calls EXCEPT ![c].pc = "stopping", ![c].proc = Handle(p)]
  /\ UNCHANGED <<reconciler, ingest, exists, lifecycle, used>>

\* proc.stop returns once the process has exited, or gives up on it
StopReturns(c) ==
  /\ calls[c].pc = "stopping"
  /\ calls[c].proc = NoWorker \/ "stop" \in Faults
  /\ calls' = [calls EXCEPT ![c] = AfterStop(c)]
  /\ UNCHANGED <<branches, workers, reconciler, ingest, exists, lifecycle, used>>

\* delete(m.branches, platformID); a goroutine past watchExit's lock keeps its
\* pointer to the deleted record, and so does a reconciler pass
Untrack(c) ==
  LET p == calls[c].platform IN
  /\ calls[c].pc = "untrack"
  /\ branches' = [branches EXCEPT ![p] = Untracked]
  /\ workers' = [w \in Workers |->
       IF workers[w].platform = p /\ workers[w].pc \in {"settle", "park"}
         THEN [workers[w] EXCEPT !.detached = TRUE] ELSE workers[w]]
  /\ reconciler' = IF reconciler.pc = "loss" /\ reconciler.platform = p
                     THEN [reconciler EXCEPT !.pc = "kill", !.proc = Handle(p)]
                     ELSE reconciler
  /\ calls' = [calls EXCEPT ![c].pc = "remove"]
  /\ UNCHANGED <<ingest, exists, lifecycle, used>>

\* The rest of the handler: a credential-store or database error keeps the row
RemovePlatform(c) ==
  /\ calls[c].pc = "remove"
  /\ \/ exists' = [exists EXCEPT ![calls[c].platform] = FALSE]
     \/ "db" \in Faults /\ exists' = exists
  /\ calls' = [calls EXCEPT ![c] = IdleCall]
  /\ UNCHANGED <<branches, workers, reconciler, ingest, lifecycle, used>>

-----------------------------------------------------------------------------
(* Workers: launch *)

\* RetrieveForProcessStart fails, or launchProcess does: failStart
LaunchFails(w) ==
  LET p == workers[w].platform IN
  /\ \/ /\ workers[w].pc = "key"
        /\ "key" \in Faults \/ ~exists[p] \/ lifecycle = "cancelled"
     \/ /\ workers[w].pc = "spawn"
        /\ "spawn" \in Faults
  /\ branches' = IF Current(w)
                   THEN [branches EXCEPT ![p].state = "error", ![p].desired = FALSE]
                   ELSE branches
  /\ Finish(w)
  /\ UNCHANGED <<calls, reconciler, ingest, exists, lifecycle, used>>

RetrieveKey(w) ==
  /\ workers[w].pc = "key" /\ exists[workers[w].platform]
  /\ Move(w, "spawn")
  /\ UNCHANGED <<branches, calls, reconciler, ingest, exists, lifecycle, used>>

Spawn(w) ==
  /\ workers[w].pc = "spawn"
  /\ workers' = [workers EXCEPT ![w].pc = "attach", ![w].proc = "running"]
  /\ UNCHANGED <<branches, calls, reconciler, ingest, exists, lifecycle, used>>

\* The generation is all that launch checks before it attaches the process
Attach(w) ==
  /\ workers[w].pc = "attach"
  /\ \/ /\ Current(w)
        /\ branches' = [branches EXCEPT ![workers[w].platform].proc = w]
        /\ Move(w, "watch")
     \/ /\ ~Current(w)
        /\ workers' = [Signalled(w) EXCEPT ![w].pc = "discard"]
        /\ UNCHANGED branches
  /\ UNCHANGED <<calls, reconciler, ingest, exists, lifecycle, used>>

Discard(w) ==
  /\ workers[w].pc = "discard" /\ ~Alive(w)
  /\ Finish(w)
  /\ UNCHANGED <<branches, calls, reconciler, ingest, exists, lifecycle, used>>

-----------------------------------------------------------------------------
(* Workers: watchExit *)

\* Mutant of Exited: b.proc is left in place
ExitedKeepingProcess(b) ==
  IF b.stopRequested THEN [b EXCEPT !.state = "idle", !.desired = FALSE, !.stopRequested = FALSE]
                     ELSE b

Exited(b) ==
  IF b.stopRequested
    THEN [b EXCEPT !.proc = NoWorker, !.state = "idle", !.desired = FALSE, !.stopRequested = FALSE]
    ELSE [b EXCEPT !.proc = NoWorker]

\* The critical section after <-proc.Exited()
WatchExit(w) ==
  LET p == workers[w].platform IN
  /\ workers[w].pc = "watch" /\ ~Alive(w)
  /\ branches' = IF Current(w) THEN [branches EXCEPT ![p] = Exited(@)] ELSE branches
  /\ IF Current(w) /\ ~branches[p].stopRequested /\ branches[p].desired
       THEN Move(w, "settle") ELSE Finish(w)
  /\ UNCHANGED <<calls, reconciler, ingest, exists, lifecycle, used>>

\* waitForSettledIngest: left as soon as the snapshot is not "receiving", or at
\* the end of the window
Settle(w) ==
  /\ workers[w].pc = "settle"
  /\ Move(w, IF Receiving THEN "crash" ELSE "park")
  /\ UNCHANGED <<branches, calls, reconciler, ingest, exists, lifecycle, used>>

\* Only the generation is checked, and through watchExit's own pointer
Park(w) ==
  /\ workers[w].pc = "park"
  /\ branches' = IF Current(w) /\ ~workers[w].detached
                   THEN [branches EXCEPT ![workers[w].platform].state = "waiting_for_ingest"]
                   ELSE branches
  /\ Finish(w)
  /\ UNCHANGED <<calls, reconciler, ingest, exists, lifecycle, used>>

-----------------------------------------------------------------------------
(* Workers: the restart policy *)

\* Mutant of Doubled: no maximum
DoubledWithoutLimit(delay) == 2 * delay

Doubled(delay) == IF 2 * delay > MaxBackoff THEN MaxBackoff ELSE 2 * delay

\* Records scheduleRestart may work on: a stable run resets the policy, and the
\* restarts older than the window are dropped
AgedBranches(b) ==
  (IF b.live THEN {[b EXCEPT !.backoff = MinBackoff, !.restarts = 0]} ELSE {})
    \cup {[b EXCEPT !.restarts = kept] : kept \in 0 .. b.restarts}

ScheduleRestart(w) ==
  LET p == workers[w].platform IN
  /\ workers[w].pc = "crash"
  /\ Current(w) /\ branches[p].desired
  /\ \E b \in AgedBranches(branches[p]) :
       \/ /\ b.restarts >= MaxRestarts
          /\ branches' = [branches EXCEPT ![p] = [b EXCEPT !.state = "error", !.desired = FALSE]]
          /\ Finish(w)
       \/ /\ b.restarts < MaxRestarts
          /\ branches' = [branches EXCEPT ![p] =
               [b EXCEPT !.state = "restarting", !.restarts = @ + 1, !.backoff = Doubled(@)]]
          /\ Move(w, "backoff")
  /\ UNCHANGED <<calls, reconciler, ingest, exists, lifecycle, used>>

\* Every other way out of the policy: superseded, no longer desired, cancelled
AbandonRestart(w) ==
  /\ \/ /\ workers[w].pc \in {"crash", "backoff", "recheck"}
        /\ Current(w) => ~branches[workers[w].platform].desired
     \/ workers[w].pc = "backoff" /\ lifecycle = "cancelled"
     \/ /\ workers[w].pc = "eval"     \* Platforms.Get or computeBlockers fails
        /\ "db" \in Faults \/ ~exists[workers[w].platform] \/ lifecycle = "cancelled"
  /\ Finish(w)
  /\ UNCHANGED <<branches, calls, reconciler, ingest, exists, lifecycle, used>>

\* The delay elapses, and the first check of retryAfterBackoff passes
RetryAfterBackoff(w) ==
  /\ workers[w].pc = "backoff"
  /\ Current(w) /\ branches[workers[w].platform].desired
  /\ Move(w, "eval")
  /\ UNCHANGED <<branches, calls, reconciler, ingest, exists, lifecycle, used>>

EvaluateRetry(w) ==
  /\ workers[w].pc = "eval" /\ exists[workers[w].platform]
  /\ \E blockers \in Evaluations(workers[w].platform) :
       workers' = [workers EXCEPT ![w].pc = "recheck", ![w].blockers = blockers]
  /\ UNCHANGED <<branches, calls, reconciler, ingest, exists, lifecycle, used>>

\* Mutants of Rechecked: "blocked" keeps the desire; an ingest blocker just returns
RecheckedKeepingDesire(b, blockers) ==
  CASE blockers = "ingest" -> [b EXCEPT !.state = "waiting_for_ingest"]
    [] blockers = "config" -> [b EXCEPT !.state = "blocked"]
    [] blockers = "none"   -> [b EXCEPT !.state = "starting", !.live = FALSE]
RecheckedIgnoringIngest(b, blockers) ==
  CASE blockers = "ingest" -> b
    [] blockers = "config" -> [b EXCEPT !.state = "blocked", !.desired = FALSE]
    [] blockers = "none"   -> [b EXCEPT !.state = "starting", !.live = FALSE]

Rechecked(b, blockers) ==
  CASE blockers = "ingest" -> [b EXCEPT !.state = "waiting_for_ingest"]
    [] blockers = "config" -> [b EXCEPT !.state = "blocked", !.desired = FALSE]
    [] blockers = "none"   -> [b EXCEPT !.state = "starting", !.live = FALSE]

\* retryAfterBackoff's second critical section
Retry(w) ==
  LET p == workers[w].platform IN
  /\ workers[w].pc = "recheck"
  /\ Current(w) /\ branches[p].desired
  /\ branches' = [branches EXCEPT ![p] = Rechecked(@, workers[w].blockers)]
  /\ IF workers[w].blockers = "none" THEN Move(w, "key") ELSE Finish(w)
  /\ UNCHANGED <<calls, reconciler, ingest, exists, lifecycle, used>>

-----------------------------------------------------------------------------
(* The reconciler *)

\* One iteration of reconcileOnce up to its first call.  It reads the record
\* without the lock; a torn read matches no case and does nothing.
Reconcile(p) ==
  /\ reconciler.pc = "idle" /\ lifecycle # "cancelled"
  /\ exists[p] /\ branches[p].desired
  /\ \/ /\ branches[p].state = "waiting_for_ingest"
        /\ reconciler' = [reconciler EXCEPT !.pc = "get", !.platform = p]
     \/ /\ branches[p].state \in {"starting", "live"} /\ ~Receiving
        /\ reconciler' = [reconciler EXCEPT !.pc = "loss", !.platform = p]
  /\ UNCHANGED <<branches, workers, calls, ingest, exists, lifecycle, used>>

\* Ingest loss was seen: take the process attached by now ...
TakeProcess ==
  /\ reconciler.pc = "loss"
  /\ reconciler' = [reconciler EXCEPT !.pc = "kill", !.proc = Handle(reconciler.platform)]
  /\ UNCHANGED <<branches, workers, calls, ingest, exists, lifecycle, used>>

\* ... and stop it
KillProcess ==
  /\ reconciler.pc = "kill"
  /\ IF reconciler.proc = NoWorker
       THEN reconciler' = IdleReconciler /\ UNCHANGED workers
       ELSE reconciler' = [reconciler EXCEPT !.pc = "stopping"] /\ workers' = Signalled(reconciler.proc)
  /\ UNCHANGED <<branches, calls, ingest, exists, lifecycle, used>>

KillReturns ==
  /\ reconciler.pc = "stopping"
  /\ reconciler.proc = NoWorker \/ "stop" \in Faults
  /\ reconciler' = IdleReconciler
  /\ UNCHANGED <<branches, workers, calls, ingest, exists, lifecycle, used>>

\* attemptResume: the unlocked evaluation
EvaluateResume ==
  /\ reconciler.pc = "get"
  /\ \/ /\ exists[reconciler.platform] /\ lifecycle # "cancelled"
        /\ "none" \in Evaluations(reconciler.platform)
        /\ reconciler' = [reconciler EXCEPT !.pc = "resume"]
     \/ /\ \/ Evaluations(reconciler.platform) # {"none"}
           \/ "db" \in Faults \/ lifecycle = "cancelled"
        /\ reconciler' = IdleReconciler
  /\ UNCHANGED <<branches, workers, calls, ingest, exists, lifecycle, used>>

\* Mutant of CanResume: the desire is not checked again under the lock
CanResumeUndesired(b) == b.proc = NoWorker

\* attemptResume does not ask whether the branch is still waiting for ingest
CanResume(b) == b.desired /\ b.proc = NoWorker

ResumeRefused ==
  /\ reconciler.pc = "resume" /\ ~CanResume(branches[reconciler.platform])
  /\ reconciler' = IdleReconciler
  /\ UNCHANGED <<branches, workers, calls, ingest, exists, lifecycle, used>>

Resume ==
  LET p == reconciler.platform
      g == branches[p].generation + 1
  IN
  /\ reconciler.pc = "resume" /\ CanResume(branches[p])
  /\ branches' = [branches EXCEPT ![p].state = "starting", ![p].live = FALSE,
                                  ![p].generation = g]
  /\ \E w \in Workers :
       /\ Allocatable(w)
       /\ workers' = [workers EXCEPT ![w] = Launch(p, g)]
       /\ reconciler' = [reconciler EXCEPT !.pc = "launching", !.proc = w]
  /\ UNCHANGED <<calls, ingest, exists, lifecycle, used>>

ResumeReturns ==
  /\ reconciler.pc = "launching"
  /\ workers[reconciler.proc].pc \notin Launching
  /\ reconciler' = IdleReconciler
  /\ UNCHANGED <<branches, workers, calls, ingest, exists, lifecycle, used>>

-----------------------------------------------------------------------------
(* FFmpeg and the ingest *)

\* onProgress with an advancing block, from launch until the pipe is drained
Progress(w) ==
  LET p == workers[w].platform IN
  /\ Alive(w)
  /\ Current(w) /\ branches[p].state = "starting"
  /\ branches' = [branches EXCEPT ![p].state = "live", ![p].live = TRUE]
  /\ UNCHANGED <<workers, calls, reconciler, ingest, exists, lifecycle, used>>

\* proc.exited is closed: every handle becomes inert
Exit(w) ==
  /\ workers' = [workers EXCEPT ![w].proc = "none"]
  /\ calls' = [c \in Clients |->
       IF calls[c].pc = "stopping" /\ calls[c].proc = w
         THEN [calls[c] EXCEPT !.proc = NoWorker] ELSE calls[c]]
  /\ reconciler' = IF reconciler.pc \in {"kill", "stopping"} /\ reconciler.proc = w
                     THEN [reconciler EXCEPT !.proc = NoWorker] ELSE reconciler

\* A signalled process exits
TerminatedExit(w) ==
  /\ workers[w].proc = "signalled"
  /\ Exit(w)
  /\ UNCHANGED <<branches, ingest, exists, lifecycle, used>>

\* FFmpeg exits by itself: its input is gone, or it fails
SpontaneousExit(w) ==
  /\ workers[w].proc = "running"
  /\ Exit(w)
  /\ \/ ingest # "receiving" /\ UNCHANGED used
     \/ used.crashes < MaxCrashes /\ used' = [used EXCEPT !.crashes = @ + 1]
  /\ UNCHANGED <<branches, ingest, exists, lifecycle>>

IngestLost ==
  /\ used.losses < MaxLosses /\ Ingest!Lost
  /\ used' = [used EXCEPT !.losses = @ + 1]
  /\ UNCHANGED <<branches, workers, calls, reconciler, exists, lifecycle>>

IngestCleared ==
  /\ Ingest!Cleared
  /\ UNCHANGED <<branches, workers, calls, reconciler, exists, lifecycle, used>>

IngestReceived ==
  /\ Ingest!Received
  /\ UNCHANGED <<branches, workers, calls, reconciler, exists, lifecycle, used>>

-----------------------------------------------------------------------------
BeginCall(c) == \/ \E p \in Platforms : \/ BeginStart(c, p) \/ BeginStop(c, p)
                                        \/ BeginRestart(c, p) \/ BeginForget(c, p)
                \/ BeginStartEnabled(c) \/ BeginStopAll(c) \/ BeginShutdown(c)

CallStep(c) == \/ NextPlatform(c) \/ FinishLoop(c) \/ CancelLifecycle(c) \/ Drain(c)
               \/ GetPlatform(c) \/ CheckConflict(c) \/ ComputeBlockers(c)
               \/ StartRefused(c) \/ StartAccepted(c) \/ LaunchReturns(c)
               \/ StopRefused(c) \/ StopWithoutProcess(c) \/ StopProcess(c)
               \/ StopReturns(c) \/ Untrack(c) \/ RemovePlatform(c)

WorkerStep(w) == \/ LaunchFails(w) \/ RetrieveKey(w) \/ Spawn(w) \/ Attach(w)
                 \/ Discard(w) \/ WatchExit(w) \/ Settle(w) \/ Park(w)
                 \/ ScheduleRestart(w) \/ AbandonRestart(w)
                 \/ RetryAfterBackoff(w) \/ EvaluateRetry(w) \/ Retry(w)

ReconcilerStep == \/ TakeProcess \/ KillProcess \/ KillReturns
                  \/ EvaluateResume \/ ResumeRefused \/ Resume \/ ResumeReturns

Environment == \/ \E w \in Workers : Progress(w) \/ SpontaneousExit(w)
               \/ IngestLost \/ IngestCleared \/ IngestReceived

Next == \/ \E c \in Clients : BeginCall(c) \/ CallStep(c)
        \/ \E w \in Workers : WorkerStep(w) \/ TerminatedExit(w)
        \/ \E p \in Platforms : Reconcile(p)
        \/ ReconcilerStep
        \/ Environment

Spec == Init /\ [][Next]_vars

\* Every goroutine keeps running, the ticker keeps ticking over every platform,
\* and a killed process exits.  Clients, FFmpeg and the ingest promise nothing.
Fairness == /\ \A c \in Clients : WF_vars(CallStep(c))
            /\ \A w \in Workers : WF_vars(WorkerStep(w)) /\ WF_vars(TerminatedExit(w))
            /\ \A p \in Platforms : SF_vars(Reconcile(p))
            /\ WF_vars(ReconcilerStep)

FairSpec == Spec /\ Fairness

-----------------------------------------------------------------------------
(* Type invariant *)

BranchType == [state : State, desired : BOOLEAN, stopRequested : BOOLEAN,
               generation : Nat, proc : Workers \cup {NoWorker},
               backoff : MinBackoff .. MaxBackoff, restarts : 0 .. MaxRestarts,
               live : BOOLEAN]
\* Whoever acts on a platform names one
WorkerType == {r \in [pc : Launching \cup Supervising \cup Retrying \cup {"done"},
                      platform : Platforms \cup {NoPlatform}, generation : Nat,
                      proc : {"none", "running", "signalled"}, blockers : Blockers,
                      detached : BOOLEAN] :
                 r.pc # "done" => r.platform \in Platforms}
CallType == {r \in [op : Operation \cup {"none"},
                    pc : {"idle", "next", "get", "check", "compute", "commit", "launching",
                          "stop", "stopping", "untrack", "remove", "drain"},
                    platform : Platforms \cup {NoPlatform}, blockers : Blockers,
                    proc : Workers \cup {NoWorker}, todo : SUBSET Platforms] :
               r.pc \notin {"idle", "next", "drain"} => r.platform \in Platforms}
ReconcilerType == {r \in [pc : {"idle", "get", "resume", "launching", "loss", "kill", "stopping"},
                          platform : Platforms \cup {NoPlatform},
                          proc : Workers \cup {NoWorker}] :
                     r.pc # "idle" => r.platform \in Platforms}

\* The shape of the state, the delays within the policy's bounds and never more
\* restarts in the window than the policy allows.
TypeOK == /\ branches \in [Platforms -> BranchType]
          /\ workers \in [Workers -> WorkerType]
          /\ calls \in [Clients -> CallType]
          /\ reconciler \in ReconcilerType
          /\ ingest \in {"absent", "receiving", "stopping"}
          /\ exists \in [Platforms -> BOOLEAN]
          /\ lifecycle \in {"open", "closing", "cancelled"}
          /\ used \in [calls : Nat, losses : Nat, crashes : Nat]

-----------------------------------------------------------------------------
(* Safety *)

\* The two halves of the record agree: a state that means FFmpeg is or will be
\* running belongs to a branch that is desired to run, and a state that means it
\* is not belongs to one that is not.  (Nothing is said of waiting_for_ingest:
\* Park sets it on a branch that was stopped during the settle window.)  Every
\* critical section sets the two separately.
StateAgreesWithDesire ==
  \A p \in Platforms :
    /\ branches[p].state \in Running => branches[p].desired
    /\ branches[p].state \in {"untracked", "idle", "blocked", "stopping", "error"}
         => ~branches[p].desired

\* What the generation counter is for: of all the launches, watchers and pending
\* retries of a platform, at most one may still act on its record.
GenerationIsExclusive ==
  \A v, w \in Workers :
    Current(v) /\ Current(w) /\ workers[v].platform = workers[w].platform => v = w

\* A desired branch is never abandoned: someone holding its current generation is
\* launching, watching or about to retry it, and the published state says which;
\* or it waits for ingest, where the reconciler finds it.
DesiredIsSupervised ==
  \A p \in Platforms : branches[p].desired =>
    \/ branches[p].state = "waiting_for_ingest"
    \/ \E w \in Workers :
         /\ Current(w) /\ workers[w].platform = p
         /\ IF branches[p].state = "restarting"
              THEN workers[w].pc \in Retrying
              ELSE workers[w].pc \in (Launching \ {"discard"}) \cup Supervising

\* A stop request that the process never got to honour is cleared before the
\* branch is desired again: watchExit would take the next crash for a stop.
StopRequestIsNotStale ==
  \A p \in Platforms : branches[p].stopRequested => ~branches[p].desired

\* StopAll leaves no destination that is desired to run: between the moment it
\* chooses its destinations and the last stop, launches, crashes, retries and
\* resumes go on for all of them.  (True when no start overlaps it.)
StopAllReachesAll ==
  [][\A c \in Clients : calls[c].op = "stopAll" /\ calls'[c].op # "stopAll" =>
       \A p \in Platforms : ~branches[p].desired]_vars

-----------------------------------------------------------------------------
(* Liveness *)

\* A branch that waits for ingest and stays desired is resumed once the ingest
\* is back for good.
WaitingIsResumed ==
  \A p \in Platforms :
    [](branches[p].state = "waiting_for_ingest" /\ branches[p].desired
         => <>(\/ branches[p].state # "waiting_for_ingest"
               \/ ~branches[p].desired
               \/ ingest # "receiving"))

\* A branch in "restarting" comes out of it: relaunched, parked, blocked or stopped.
RestartingEnds ==
  \A p \in Platforms :
    branches[p].state = "restarting" ~> branches[p].state # "restarting"

-----------------------------------------------------------------------------
(* What the documents say and the code does not do *)

\* connecting-platforms.md: "An explicit Stop always wins"; project-overview.md:
\* "an explicit Stop must both terminate the process and suppress any future
\* automatic restart".  No process of a branch that is not desired to run is left
\* running with nothing on its way to stop it.
StopTerminatesProcess ==
  \A w \in Workers :
    Current(w) /\ workers[w].pc = "watch" /\ workers[w].proc = "running"
      => branches[workers[w].platform].desired
=============================================================================
