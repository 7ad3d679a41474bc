---------------------------- MODULE StreamSession ----------------------------
(***************************************************************************)
(* The stream session history (internal/domain/streamsession): a manager   *)
(* that polls the ingest and the branches and writes what it sees to two   *)
(* tables, one write at a time.                                            *)
(*                                                                         *)
(* An action is one read or one write of tick or recoverOpenSession; only  *)
(* tick uses Manager.mu, so between two of them anything else may happen:  *)
(* the ingest and the branches change, the history is cleared, a platform  *)
(* is deleted, and the process ends.  `manager` is what the process loses  *)
(* then, `sessions` and `rows` are what it keeps.                          *)
(***************************************************************************)
EXTENDS Integers, FiniteSets

CONSTANTS
  Platforms,         \* destination ids
  Sessions, Rows,    \* ids of stored sessions and participation rows
  NoSession, NoRow, NoPlatform,
  GraceWindow,       \* Manager.graceWindow, in polls
  Retentions,        \* what the retention preference may be
  MaxTime, MaxChanges, MaxFailures, MaxCrashes, MaxClears   \* bounds

ASSUME IdsAssumption == /\ NoSession \notin Sessions /\ NoRow \notin Rows
                        /\ NoPlatform \notin Platforms
ASSUME TimeAssumption == /\ GraceWindow \in Nat \ {0} /\ Retentions \subseteq Nat
                         /\ MaxTime \in Nat /\ MaxTime > GraceWindow
ASSUME BoundsAssumption == /\ MaxChanges \in Nat /\ MaxFailures \in Nat
                           /\ MaxCrashes \in Nat /\ MaxClears \in Nat

VARIABLES
  sessions,   \* table stream_sessions
  rows,       \* table stream_session_destinations
  manager,    \* Manager.openSession, openDestinationsByPlatform
  tick,       \* the tick, or the recovery, in progress
  ingest,     \* is the ingest receiving
  branches,   \* what the branch manager's snapshot says of each platform
  exists,     \* the platforms table
  clock,
  used        \* how often the environment has interfered

vars == <<sessions, rows, manager, tick, ingest, branches, exists, clock, used>>
tables == <<sessions, rows>>
world  == <<ingest, branches, exists, clock>>

-----------------------------------------------------------------------------
(* Records *)

Null == 0    \* time begins at 1
Time == 1 .. MaxTime

\* A row that is not stored has never been, or has been deleted
NoSessionStored == [stored |-> FALSE, started |-> Null, seen |-> Null, ended |-> Null,
                    reason |-> "none"]
NoRowStored == [stored |-> FALSE, session |-> NoSession, platform |-> NoPlatform,
                started |-> Null, ended |-> Null, outcome |-> "none"]

OpenSessions == {s \in Sessions : sessions[s].stored /\ sessions[s].ended = Null}
OpenRows(s)  == {r \in Rows : rows[r].stored /\ rows[r].session = s /\ rows[r].ended = Null}

\* openSession is nil (NoSession) or a copy of a row; its dests are row ids
Closed == [session |-> NoSession, seen |-> Null, ended |-> Null, reason |-> "none",
           dests |-> [p \in Platforms |-> NoRow]]
Participating == {p \in Platforms : manager.dests[p] # NoRow}

Idle == [pc |-> "idle", now |-> Null, receiving |-> FALSE, live |-> {}, error |-> {},
         todo |-> {}]
Down == [Idle EXCEPT !.pc = "down"]

\* Ids are random and never used twice: one that nothing refers to any more will do
FreshSessions == {s \in Sessions : ~sessions[s].stored /\ manager.session # s}
FreshRows     == {r \in Rows : ~rows[r].stored /\ \A p \in Platforms : manager.dests[p] # r}

-----------------------------------------------------------------------------
Init == /\ sessions = [s \in Sessions |-> NoSessionStored]
        /\ rows = [r \in Rows |-> NoRowStored]
        /\ manager = Closed
        /\ tick = [Idle EXCEPT !.pc = "recover"]
        /\ ingest = FALSE
        /\ branches = [p \in Platforms |-> "off"]
        /\ exists = [p \in Platforms |-> TRUE]
        /\ clock = 1
        /\ used = [changes |-> 0, failures |-> 0, crashes |-> 0, clears |-> 0]

InterferedWith(what) == used' = [used EXCEPT ![what] = @ + 1]

\* A read or a write fails: the tick ends with what it has done so far; a start
\* ends the process
Fail == /\ used.failures < MaxFailures
        /\ InterferedWith("failures")
        /\ tick' = IF tick.pc \in {"recover", "recoverRows"} THEN Down ELSE Idle

\* An update of a row that is not there any more is an error as well
NotFound == tick' = Idle /\ UNCHANGED used

-----------------------------------------------------------------------------
(* tick *)

Observe ==
  /\ tick.pc = "idle"
  /\ tick' = [Idle EXCEPT !.pc = "branches", !.now = clock, !.receiving = ingest]
  /\ UNCHANGED <<tables, manager, world, used>>

\* Mutant of GraceIsOver: measured in polls since the session began
GraceIsOverSinceStart == tick.now - sessions[manager.session].started >= GraceWindow

GraceIsOver == tick.now - manager.seen >= GraceWindow

ObserveBranches ==
  /\ tick.pc = "branches"
  /\ tick' = [tick EXCEPT
       !.live = {p \in Platforms : exists[p] /\ branches[p] = "live"},
       !.error = {p \in Platforms : exists[p] /\ branches[p] = "error"},
       !.todo = Participating,
       !.pc = IF tick.receiving
                THEN IF manager.session = NoSession THEN "open" ELSE "heartbeat"
                ELSE IF manager.session # NoSession /\ GraceIsOver THEN "close" ELSE "prune"]
  /\ UNCHANGED <<tables, manager, world, used>>

OpenSession ==
  /\ tick.pc = "open" /\ FreshSessions # {}
  /\ LET s == CHOOSE fresh \in FreshSessions : TRUE
     IN /\ sessions' = [sessions EXCEPT ![s] =
                          [NoSessionStored EXCEPT !.stored = TRUE, !.started = tick.now,
                                                  !.seen = tick.now]]
        /\ manager' = [Closed EXCEPT !.session = s, !.seen = tick.now]
  /\ tick' = [tick EXCEPT !.pc = "reconcile", !.todo = {}]
  /\ UNCHANGED <<rows, world, used>>

\* UpdateSession writes the whole copy
WriteSession(s, copy) ==
  sessions' = [sessions EXCEPT ![s].seen = copy.seen, ![s].ended = copy.ended,
                               ![s].reason = copy.reason]

\* The copy has the new heartbeat whether or not it can be written
Heartbeat ==
  LET s == manager.session
      copy == [manager EXCEPT !.seen = tick.now]
  IN /\ tick.pc = "heartbeat"
     /\ manager' = copy
     /\ \/ /\ sessions[s].stored
           /\ WriteSession(s, copy)
           /\ tick' = [tick EXCEPT !.pc = "reconcile"]
           /\ UNCHANGED used
        \/ (IF sessions[s].stored THEN Fail ELSE NotFound) /\ UNCHANGED sessions
     /\ UNCHANGED <<rows, world>>

\* UpdateDestination with an end: the row keeps everything else
EndRow(r, time, outcome) == rows' = [rows EXCEPT ![r].ended = time, ![r].outcome = outcome]

\* reconcileDestinationsLocked, its first loop: whoever is not live any more
EndParticipation(p) ==
  LET r == manager.dests[p] IN
  /\ tick.pc = "reconcile" /\ p \in tick.todo \ tick.live
  /\ \/ /\ rows[r].stored
        /\ EndRow(r, tick.now, IF p \in tick.error THEN "error" ELSE "completed")
        /\ manager' = [manager EXCEPT !.dests[p] = NoRow]
        /\ tick' = [tick EXCEPT !.todo = @ \ {p}]
        /\ UNCHANGED used
     \/ (IF rows[r].stored THEN Fail ELSE NotFound) /\ UNCHANGED <<rows, manager>>
  /\ UNCHANGED <<sessions, world>>

\* Its second loop visits the live ones without a row
BeginSecondLoop ==
  /\ tick.pc = "reconcile" /\ tick.todo \subseteq tick.live
  /\ tick' = [tick EXCEPT !.pc = "participate", !.todo = tick.live \ Participating]
  /\ UNCHANGED <<tables, manager, world, used>>

\* The lookup fails, for a platform that is gone or otherwise, and the platform is
\* skipped in this tick; one that is deleted after the lookup fails the foreign key,
\* which ends the tick
SkipParticipation(p) ==
  /\ tick.pc = "participate" /\ p \in tick.todo
  /\ \/ /\ tick' = [tick EXCEPT !.todo = @ \ {p}]
        /\ IF exists[p] THEN used.failures < MaxFailures /\ InterferedWith("failures")
                        ELSE UNCHANGED used
     \/ ~exists[p] /\ NotFound
  /\ UNCHANGED <<tables, manager, world>>

BeginParticipation(p) ==
  LET r == CHOOSE fresh \in FreshRows : TRUE IN
  /\ tick.pc = "participate" /\ p \in tick.todo
  /\ exists[p] /\ FreshRows # {}
  /\ \/ /\ sessions[manager.session].stored
        /\ rows' = [rows EXCEPT ![r] = [stored |-> TRUE, session |-> manager.session,
                      platform |-> p, started |-> tick.now, ended |-> Null, outcome |-> "none"]]
        /\ manager' = [manager EXCEPT !.dests[p] = r]
        /\ tick' = [tick EXCEPT !.todo = @ \ {p}]
        /\ UNCHANGED used
     \/ /\ IF sessions[manager.session].stored THEN Fail ELSE NotFound
        /\ UNCHANGED <<rows, manager>>
  /\ UNCHANGED <<sessions, world>>

ReconcileEnds ==
  /\ tick.pc = "participate" /\ tick.todo = {}
  /\ tick' = [tick EXCEPT !.pc = "prune"]
  /\ UNCHANGED <<tables, manager, world, used>>

\* Mutant of CloseRow: the row ends now
CloseRowNow(p) ==
  LET r == manager.dests[p] IN
  /\ tick.pc = "close" /\ p \in tick.todo
  /\ rows[r].stored
  /\ EndRow(r, tick.now, "session_ended")
  /\ tick' = [tick EXCEPT !.todo = @ \ {p}]
  /\ UNCHANGED <<sessions, manager, world, used>>

\* closeSessionLocked: the rows first, and then the session; the map of open
\* destinations is only given up with the session
CloseRow(p) ==
  LET r == manager.dests[p] IN
  /\ tick.pc = "close" /\ p \in tick.todo
  /\ \/ /\ rows[r].stored
        /\ EndRow(r, manager.seen, "session_ended")
        /\ tick' = [tick EXCEPT !.todo = @ \ {p}]
        /\ UNCHANGED used
     \/ (IF rows[r].stored THEN Fail ELSE NotFound) /\ UNCHANGED rows
  /\ UNCHANGED <<sessions, manager, world>>

\* Mutant of CloseSession: openSession is not reset
CloseSessionKeepingCopy ==
  LET s == manager.session
      copy == [manager EXCEPT !.ended = manager.seen, !.reason = "ingest_stopped"]
  IN /\ tick.pc = "close" /\ tick.todo = {}
     /\ WriteSession(s, copy)
     /\ manager' = copy
     /\ tick' = [tick EXCEPT !.pc = "prune"]
     /\ UNCHANGED <<rows, world, used>>

\* The end is in the copy whether or not it can be written
CloseSession ==
  LET s == manager.session
      copy == [manager EXCEPT !.ended = manager.seen, !.reason = "ingest_stopped"]
  IN /\ tick.pc = "close" /\ tick.todo = {}
     /\ \/ /\ sessions[s].stored
           /\ WriteSession(s, copy)
           /\ manager' = Closed
           /\ tick' = [tick EXCEPT !.pc = "prune"]
           /\ UNCHANGED used
        \/ /\ IF sessions[s].stored THEN Fail ELSE NotFound
           /\ manager' = copy
           /\ UNCHANGED sessions
     /\ UNCHANGED <<rows, world>>

\* Mutant of Delete: no ON DELETE CASCADE
DeleteSessionsOnly(gone) ==
  /\ sessions' = [s \in Sessions |-> IF s \in gone THEN NoSessionStored ELSE sessions[s]]
  /\ UNCHANGED rows

\* A deletion of sessions takes their rows with it (ON DELETE CASCADE)
Delete(gone) ==
  /\ sessions' = [s \in Sessions |-> IF s \in gone THEN NoSessionStored ELSE sessions[s]]
  /\ rows' = [r \in Rows |-> IF rows[r].session \in gone THEN NoRowStored ELSE rows[r]]

\* Mutant of Prunable: by its beginning, whether or not it has ended
PrunableByAge(s, days) == sessions[s].stored /\ sessions[s].started < tick.now - days

Prunable(s, days) == /\ sessions[s].stored /\ sessions[s].ended # Null
                     /\ sessions[s].ended < tick.now - days

\* The sweep is due, or it is not; the preference may be changed at any time
Prune ==
  /\ tick.pc = "prune"
  /\ tick' = Idle
  /\ \/ \E days \in Retentions : Delete({s \in Sessions : Prunable(s, days)})
     \/ UNCHANGED tables
  /\ UNCHANGED <<manager, world, used>>

ReadFails ==
  /\ tick.pc \in {"branches", "open", "prune", "recover"}
  /\ Fail
  /\ UNCHANGED <<tables, manager, world>>

-----------------------------------------------------------------------------
(* recoverOpenSession, when the process starts *)

\* OpenDestinations: here todo holds the ids of the rows to close
\* Mutant of Recover: the loop starts from what is stored
RecoverNothing ==
  /\ tick.pc = "recover"
  /\ tick' = Idle
  /\ UNCHANGED <<tables, manager, world, used>>

Recover ==
  /\ tick.pc = "recover"
  /\ IF OpenSessions = {}
       THEN tick' = Idle /\ UNCHANGED manager
       ELSE \E s \in OpenSessions :
              /\ manager' = [Closed EXCEPT !.session = s, !.seen = sessions[s].seen]
              /\ tick' = [tick EXCEPT !.pc = "recoverRows", !.todo = OpenRows(s)]
  /\ UNCHANGED <<tables, world, used>>

RecoverRow(r) ==
  /\ tick.pc = "recoverRows" /\ r \in tick.todo
  /\ \/ /\ rows[r].stored
        /\ EndRow(r, manager.seen, "session_ended")
        /\ tick' = [tick EXCEPT !.todo = @ \ {r}]
        /\ UNCHANGED <<manager, used>>
     \/ Fail /\ manager' = Closed /\ UNCHANGED rows
  /\ UNCHANGED <<sessions, world>>

RecoverSession ==
  /\ tick.pc = "recoverRows" /\ tick.todo = {}
  /\ \/ /\ WriteSession(manager.session,
                        [manager EXCEPT !.ended = manager.seen, !.reason = "unclean_shutdown"])
        /\ tick' = Idle
        /\ UNCHANGED used
     \/ Fail /\ UNCHANGED sessions
  /\ manager' = Closed
  /\ UNCHANGED <<rows, world>>

-----------------------------------------------------------------------------
(* The rest of the program *)

\* The manager only looks at the ingest when it polls.  The last GraceWindow of the
\* clock is kept for the end of the session.
IngestChanges ==
  /\ tick.pc # "down" /\ used.changes < MaxChanges
  /\ ingest \/ clock <= MaxTime - GraceWindow
  /\ ingest' = ~ingest
  /\ InterferedWith("changes")
  /\ UNCHANGED <<tables, manager, tick, branches, exists, clock>>

BranchChanges(p, state) ==
  /\ tick.pc # "down" /\ used.changes < MaxChanges
  /\ exists[p] /\ branches[p] # state
  /\ branches' = [branches EXCEPT ![p] = state]
  /\ InterferedWith("changes")
  /\ UNCHANGED <<tables, manager, tick, ingest, exists, clock>>

\* ON DELETE SET NULL: the participation stays, without its platform
DeletePlatform(p) ==
  /\ tick.pc # "down" /\ used.changes < MaxChanges
  /\ exists[p]
  /\ exists' = [exists EXCEPT ![p] = FALSE]
  /\ rows' = [r \in Rows |-> IF rows[r].platform = p
                               THEN [rows[r] EXCEPT !.platform = NoPlatform] ELSE rows[r]]
  /\ InterferedWith("changes")
  /\ UNCHANGED <<sessions, manager, tick, ingest, branches, clock>>

\* The HTTP handler; HTTP is served once the manager has started
ClearHistory ==
  /\ tick.pc \notin {"down", "recover", "recoverRows"} /\ used.clears < MaxClears
  /\ Delete({s \in Sessions : sessions[s].stored})
  /\ InterferedWith("clears")
  /\ UNCHANGED <<manager, tick, world>>

\* The process ends, by a crash or by Shutdown, which writes nothing either.
\* MediaMTX and the branches end with it.
Crash ==
  /\ tick.pc # "down" /\ used.crashes < MaxCrashes
  /\ tick' = Down
  /\ manager' = Closed
  /\ ingest' = FALSE
  /\ branches' = [p \in Platforms |-> "off"]
  /\ InterferedWith("crashes")
  /\ UNCHANGED <<tables, exists, clock>>

Restart ==
  /\ tick.pc = "down"
  /\ tick' = [Idle EXCEPT !.pc = "recover"]
  /\ UNCHANGED <<tables, manager, world, used>>

Elapse ==
  /\ clock < IF ingest THEN MaxTime - GraceWindow ELSE MaxTime
  /\ clock' = clock + 1
  /\ UNCHANGED <<tables, manager, tick, ingest, branches, exists, used>>

TickStep == \/ Observe \/ ObserveBranches \/ OpenSession \/ Heartbeat
            \/ BeginSecondLoop \/ ReconcileEnds \/ CloseSession \/ Prune \/ ReadFails
            \/ \E p \in Platforms : \/ EndParticipation(p) \/ SkipParticipation(p)
                                    \/ BeginParticipation(p) \/ CloseRow(p)
RecoveryStep == Recover \/ RecoverSession \/ \E r \in Rows : RecoverRow(r)
Environment == \/ IngestChanges \/ ClearHistory \/ Crash \/ Restart \/ Elapse
               \/ \E p \in Platforms :
                    \/ DeletePlatform(p)
                    \/ \E state \in {"off", "live", "error"} : BranchChanges(p, state)

Next == TickStep \/ RecoveryStep \/ Environment
Spec == Init /\ [][Next]_vars

\* The loop goes on and the clock with it; nothing is assumed of the rest
Fairness == WF_vars(TickStep) /\ WF_vars(RecoveryStep) /\ WF_vars(Elapse)
FairSpec == Spec /\ Fairness

-----------------------------------------------------------------------------
(* Properties *)

\* The shape of the tables, of the copies in memory and of the tick; a row's session is
\* stored (the foreign key of stream_session_destinations).
TypeOK ==
  /\ sessions \in [Sessions -> [stored : BOOLEAN, started : Time \cup {Null},
       seen : Time \cup {Null}, ended : Time \cup {Null},
       reason : {"none", "ingest_stopped", "unclean_shutdown"}]]
  /\ rows \in [Rows -> [stored : BOOLEAN, session : Sessions \cup {NoSession},
       platform : Platforms \cup {NoPlatform}, started : Time \cup {Null},
       ended : Time \cup {Null}, outcome : {"none", "completed", "error", "session_ended"}]]
  /\ \A r \in Rows : rows[r].stored => sessions[rows[r].session].stored
  /\ manager \in [session : Sessions \cup {NoSession}, seen : Time \cup {Null},
       ended : Time \cup {Null}, reason : {"none", "ingest_stopped"},
       dests : [Platforms -> Rows \cup {NoRow}]]
  /\ tick.pc \in {"down", "idle", "branches", "open", "heartbeat", "reconcile", "participate",
                  "close", "prune", "recover", "recoverRows"}
  /\ tick.now \in Time \cup {Null} /\ tick.receiving \in BOOLEAN
  /\ tick.live \subseteq Platforms /\ tick.error \subseteq Platforms
  /\ tick.todo \subseteq IF tick.pc = "recoverRows" THEN Rows ELSE Platforms
  /\ ingest \in BOOLEAN /\ clock \in Time
  /\ branches \in [Platforms -> {"off", "live", "error"}]
  /\ exists \in [Platforms -> BOOLEAN]
  /\ used \in [changes : 0 .. MaxChanges, failures : 0 .. MaxFailures,
               crashes : 0 .. MaxCrashes, clears : 0 .. MaxClears]

Stored == {s \in Sessions : sessions[s].stored}
WrittenToTheEnd == used.failures = 0

\* Row r of a platform is over before row q begins
RowPrecedes(r, q) == rows[r].ended # Null /\ rows[r].ended <= rows[q].started

\* At most one session is open, and of two sessions one is over before the other
\* begins; a platform has one row at a time in a session, also when the end of one
\* failed and is retried (manager.go:180-216, 253-256, 356-404).
HistoryIsSequential ==
  /\ Cardinality(OpenSessions) <= 1
  /\ \A s, t \in Stored : s # t => \/ sessions[s].seen <= sessions[t].started
                                   \/ sessions[t].seen <= sessions[s].started
  /\ \A q, r \in {k \in Rows : rows[k].stored /\ rows[k].platform # NoPlatform} :
       q # r /\ rows[q].session = rows[r].session /\ rows[q].platform = rows[r].platform
       => RowPrecedes(q, r) \/ RowPrecedes(r, q)

\* An ended session ended when the ingest was last seen, all of its rows have ended,
\* and none of them reaches beyond it, whichever of the writes of a close or of a
\* recovery the process did not live to do (manager.go:184-209, 319-337).
EndedIsComplete ==
  WrittenToTheEnd =>
    \A s \in Stored \ OpenSessions :
      /\ sessions[s].ended = sessions[s].seen
      /\ \A r \in Rows : rows[r].session = s =>
           /\ rows[r].ended \in sessions[s].started .. sessions[s].ended
           /\ rows[r].started <= rows[r].ended

\* What the manager has in memory is what is stored: its session, still open and
\* never pruned, with the same heartbeat and, but for the moment of closing it, the
\* same open rows.
MemoryMatchesStorage ==
  LET s == manager.session
  IN WrittenToTheEnd /\ used.clears = 0 /\ s # NoSession /\ tick.pc # "recoverRows" =>
       /\ s \in OpenSessions /\ sessions[s].seen = manager.seen
       /\ tick.pc # "close" => OpenRows(s) = {manager.dests[p] : p \in Participating}

\* A reconnection within the grace window does not split a session: after one that
\* ended because the ingest stopped, the next one begins a grace window later
\* (manager.go:267).
SplitOnlyAfterGrace ==
  WrittenToTheEnd =>
    \A s, t \in Stored :
      s # t /\ sessions[s].reason = "ingest_stopped"
      => \/ sessions[t].seen <= sessions[s].started
         \/ sessions[t].started >= sessions[s].seen + GraceWindow

Up == tick.pc # "down"

\* Once the ingest has stopped for good, no session stays open, also one that a
\* process left behind: the loop closes it, or the next start does.
SessionEnds == <>[](~ingest /\ Up) => <>[](OpenSessions = {})

\* While the ingest is receiving, a session is open.
ReceivingIsRecorded == <>[](ingest /\ Up) => []<>(OpenSessions # {})

\* The history follows the ingest: what stays idle ends its session, whatever fails;
\* what stays receiving has one, as far as the code keeps it, which is not after a
\* failed write and not after the history was cleared (manager.go:258-270).
HistoryFollowsIngest ==
  /\ SessionEnds
  /\ [](WrittenToTheEnd /\ used.clears = 0) => ReceivingIsRecorded

=============================================================================
