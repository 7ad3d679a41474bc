------------------------- MODULE StreamSessionProofs -------------------------
(***************************************************************************)
(* What holds of StreamSession for all platforms, retentions and bounds:   *)
(* the type invariant and the four invariants of the history.              *)
(*                                                                         *)
(* The inductive invariant is a conjunction of layers, each of which is    *)
(* preserved by every step as long as the layers above it hold before and  *)
(* after: the types, the phase of the tick, the times, the sequence of the *)
(* sessions, the rows of the session in progress, and, while no write has  *)
(* failed, what is complete, what memory knows and what is split.          *)
(***************************************************************************)
EXTENDS StreamSession, FiniteSetTheorems, TLAPS

-----------------------------------------------------------------------------
(* The layers *)

PCs == {"down", "idle", "branches", "open", "heartbeat", "reconcile", "participate",
        "close", "prune", "recover", "recoverRows"}
InTick == {"branches", "open", "heartbeat", "reconcile", "participate", "close", "prune"}
Ticking == tick.pc \in InTick

SessionType == [stored : BOOLEAN, started : Time \cup {Null}, seen : Time \cup {Null},
                ended : Time \cup {Null}, reason : {"none", "ingest_stopped", "unclean_shutdown"}]
RowType == [stored : BOOLEAN, session : Sessions \cup {NoSession},
            platform : Platforms \cup {NoPlatform}, started : Time \cup {Null},
            ended : Time \cup {Null}, outcome : {"none", "completed", "error", "session_ended"}]
ManagerType == [session : Sessions \cup {NoSession}, seen : Time \cup {Null},
                ended : Time \cup {Null}, reason : {"none", "ingest_stopped"},
                dests : [Platforms -> Rows \cup {NoRow}]]
TickType == [pc : PCs, now : Time \cup {Null}, receiving : BOOLEAN, live : SUBSET Platforms,
             error : SUBSET Platforms, todo : SUBSET (Platforms \cup Rows)]
UsedType == [changes : 0 .. MaxChanges, failures : 0 .. MaxFailures,
             crashes : 0 .. MaxCrashes, clears : 0 .. MaxClears]

Types ==
  /\ sessions \in [Sessions -> SessionType]
  /\ rows \in [Rows -> RowType]
  /\ manager \in ManagerType
  /\ tick \in TickType
  /\ tick.todo \subseteq IF tick.pc = "recoverRows" THEN Rows ELSE Platforms
  /\ ingest \in BOOLEAN /\ clock \in Time
  /\ branches \in [Platforms -> {"off", "live", "error"}]
  /\ exists \in [Platforms -> BOOLEAN]
  /\ used \in UsedType

\* What the phase of the tick, or of the recovery, says of the session in memory
Phases ==
  /\ tick.pc \in {"heartbeat", "reconcile", "participate", "close", "recoverRows"}
       => manager.session # NoSession
  /\ tick.pc \in {"open", "recover", "down"} => manager.session = NoSession
  /\ manager.session = NoSession => Participating = {}
  /\ tick.pc \in {"heartbeat", "reconcile", "close"} => tick.todo \subseteq Participating
  /\ tick.pc = "participate" => tick.todo \cap Participating = {}
  /\ tick.pc \in {"reconcile", "participate"} => manager.seen = tick.now
  /\ tick.pc = "close" => tick.now - manager.seen >= GraceWindow

\* A tick is about the time it began
OnTime == tick.now <= clock /\ (Ticking => tick.now # Null)
Bound  == IF Ticking THEN tick.now ELSE clock

Shape == Types /\ Phases /\ OnTime

-----------------------------------------------------------------------------
(* Types *)

LEMMA Constants ==
  /\ GraceWindow \in Nat \ {0} /\ MaxTime \in Nat /\ MaxTime > GraceWindow
  /\ NoSession \notin Sessions /\ NoRow \notin Rows /\ NoPlatform \notin Platforms
  /\ MaxChanges \in Nat /\ MaxFailures \in Nat /\ MaxCrashes \in Nat /\ MaxClears \in Nat
  BY IdsAssumption, TimeAssumption, BoundsAssumption

\* The records the program starts from
LEMMA FreshTypes ==
  /\ NoSessionStored \in SessionType /\ NoRowStored \in RowType /\ Closed \in ManagerType
  /\ Idle \in TickType /\ Down \in TickType /\ [Idle EXCEPT !.pc = "recover"] \in TickType
  /\ Idle.pc = "idle" /\ Down.pc = "down" /\ Idle.todo = {} /\ Down.todo = {}
  /\ Idle.now = Null /\ Down.now = Null
  /\ Closed.session = NoSession /\ Closed.dests = [p \in Platforms |-> NoRow]
<1>1. NoSessionStored \in SessionType /\ NoRowStored \in RowType
  BY DEF NoSessionStored, NoRowStored, SessionType, RowType
<1>2. /\ Closed \in ManagerType /\ Closed.session = NoSession
      /\ Closed.dests = [p \in Platforms |-> NoRow]
  BY DEF Closed, ManagerType
<1>3. Idle \in TickType /\ Idle.pc = "idle" /\ Idle.todo = {} /\ Idle.now = Null
  BY DEF Idle, TickType, PCs
<1>4. Down \in TickType /\ Down.pc = "down" /\ Down.todo = {} /\ Down.now = Null
  BY DEF Down, Idle, TickType, PCs
<1>5. [Idle EXCEPT !.pc = "recover"] \in TickType
  BY DEF Idle, TickType, PCs
<1> QED BY <1>1, <1>2, <1>3, <1>4, <1>5

\* What ends a tick, or the process, when a write fails
LEMMA Fails ==
  ASSUME used \in UsedType, Fail \/ NotFound
  PROVE  /\ used' \in UsedType /\ tick' \in TickType /\ tick'.todo = {} /\ tick'.now = Null
         /\ tick'.pc = IF Fail /\ tick.pc \in {"recover", "recoverRows"} THEN "down" ELSE "idle"
         /\ used.failures <= used'.failures /\ used'.clears = used.clears
         /\ Fail => used'.failures # 0
         /\ ~Fail => used' = used
<1>1. CASE Fail
  <2>1. /\ used' = [used EXCEPT !.failures = @ + 1] /\ used.failures < MaxFailures
        /\ tick' = IF tick.pc \in {"recover", "recoverRows"} THEN Down ELSE Idle
    BY <1>1 DEF Fail, InterferedWith
  <2>2. /\ used' \in UsedType /\ used'.failures # 0 /\ used.failures <= used'.failures
        /\ used'.clears = used.clears
    BY <2>1, Constants DEF UsedType
  <2> QED BY <1>1, <2>1, <2>2, FreshTypes
<1>2. CASE ~Fail
  <2>1. used' = used /\ tick' = Idle
    BY <1>2 DEF NotFound
  <2> QED BY <1>2, <2>1, FreshTypes, Constants DEF UsedType
<1> QED BY <1>1, <1>2

\* A session is written, a row is ended, sessions are deleted with their rows
LEMMA Written ==
  ASSUME sessions \in [Sessions -> SessionType], NEW s \in Sessions, NEW copy,
         copy.seen \in Time \cup {Null}, copy.ended \in Time \cup {Null},
         copy.reason \in {"none", "ingest_stopped", "unclean_shutdown"},
         WriteSession(s, copy)
  PROVE  /\ sessions' \in [Sessions -> SessionType]
         /\ sessions'[s].stored = sessions[s].stored /\ sessions'[s].started = sessions[s].started
         /\ sessions'[s].seen = copy.seen /\ sessions'[s].ended = copy.ended
         /\ sessions'[s].reason = copy.reason
         /\ \A t \in Sessions : t # s => sessions'[t] = sessions[t]
<1> DEFINE new == [[[sessions[s] EXCEPT !.seen = copy.seen] EXCEPT !.ended = copy.ended]
                      EXCEPT !.reason = copy.reason]
<1>1. new \in SessionType
  BY DEF SessionType
<1>2. /\ new.stored = sessions[s].stored /\ new.started = sessions[s].started
      /\ new.seen = copy.seen /\ new.ended = copy.ended /\ new.reason = copy.reason
  BY DEF SessionType
<1>3. sessions' = [sessions EXCEPT ![s] = new]
  BY DEF WriteSession
<1> HIDE DEF new
<1> QED BY <1>1, <1>2, <1>3

LEMMA Ended ==
  ASSUME rows \in [Rows -> RowType], NEW r \in Rows, NEW time \in Time \cup {Null},
         NEW outcome \in {"completed", "error", "session_ended"}, EndRow(r, time, outcome)
  PROVE  /\ rows' \in [Rows -> RowType]
         /\ rows'[r].stored = rows[r].stored /\ rows'[r].session = rows[r].session
         /\ rows'[r].platform = rows[r].platform /\ rows'[r].started = rows[r].started
         /\ rows'[r].ended = time
         /\ \A q \in Rows : q # r => rows'[q] = rows[q]
<1> DEFINE new == [[rows[r] EXCEPT !.ended = time] EXCEPT !.outcome = outcome]
<1>1. new \in RowType
  BY DEF RowType
<1>2. /\ new.stored = rows[r].stored /\ new.session = rows[r].session
      /\ new.platform = rows[r].platform /\ new.started = rows[r].started /\ new.ended = time
  BY DEF RowType
<1>3. rows' = [rows EXCEPT ![r] = new]
  BY DEF EndRow
<1> HIDE DEF new
<1> QED BY <1>1, <1>2, <1>3

LEMMA Deleted ==
  ASSUME sessions \in [Sessions -> SessionType], rows \in [Rows -> RowType],
         NEW gone \in SUBSET Sessions, Delete(gone)
  PROVE  /\ sessions' \in [Sessions -> SessionType] /\ rows' \in [Rows -> RowType]
         /\ \A s \in Sessions : sessions'[s] = IF s \in gone THEN NoSessionStored ELSE sessions[s]
         /\ \A r \in Rows : rows'[r] = IF rows[r].session \in gone THEN NoRowStored ELSE rows[r]
  BY FreshTypes DEF Delete

\* A platform is deleted
LEMMA Unlinked ==
  ASSUME rows \in [Rows -> RowType], NEW p \in Platforms, DeletePlatform(p)
  PROVE  /\ rows' \in [Rows -> RowType]
         /\ \A r \in Rows :
              /\ rows'[r].stored = rows[r].stored /\ rows'[r].session = rows[r].session
              /\ rows'[r].started = rows[r].started /\ rows'[r].ended = rows[r].ended
              /\ rows'[r].platform = IF rows[r].platform = p THEN NoPlatform ELSE rows[r].platform
<1> DEFINE unlinked(r) == IF rows[r].platform = p THEN [rows[r] EXCEPT !.platform = NoPlatform]
                                                  ELSE rows[r]
<1>1. rows' = [r \in Rows |-> unlinked(r)]
  BY DEF DeletePlatform
<1>2. \A r \in RowType :
        LET new == [r EXCEPT !.platform = NoPlatform]
        IN /\ new \in RowType
           /\ new.stored = r.stored /\ new.session = r.session /\ new.started = r.started
           /\ new.ended = r.ended /\ new.platform = NoPlatform
  BY DEF RowType
<1>3. \A r \in Rows : rows[r] \in RowType
  OBVIOUS
<1>4. \A r \in Rows :
        /\ unlinked(r) \in RowType
        /\ unlinked(r).stored = rows[r].stored /\ unlinked(r).session = rows[r].session
        /\ unlinked(r).started = rows[r].started /\ unlinked(r).ended = rows[r].ended
        /\ unlinked(r).platform = IF rows[r].platform = p THEN NoPlatform ELSE rows[r].platform
  BY <1>2, <1>3
<1> HIDE DEF unlinked
<1> QED BY <1>1, <1>4

\* The phase and the list of a tick change, its time does not
LEMMA Ticks ==
  ASSUME tick \in TickType, NEW pc \in PCs, NEW todo \in SUBSET (Platforms \cup Rows)
  PROVE  /\ LET new == [tick EXCEPT !.pc = pc]
            IN new \in TickType /\ new.pc = pc /\ new.now = tick.now /\ new.todo = tick.todo
         /\ LET new == [tick EXCEPT !.todo = todo]
            IN new \in TickType /\ new.pc = tick.pc /\ new.now = tick.now /\ new.todo = todo
         /\ LET new == [tick EXCEPT !.pc = pc, !.todo = todo]
            IN new \in TickType /\ new.pc = pc /\ new.now = tick.now /\ new.todo = todo
  BY DEF TickType

LEMMA Counts ==
  ASSUME used \in UsedType
  PROVE  /\ used.changes < MaxChanges /\ InterferedWith("changes")
              => used' \in UsedType /\ used'.failures = used.failures /\ used'.clears = used.clears
         /\ used.failures < MaxFailures /\ InterferedWith("failures")
              => used' \in UsedType /\ used.failures <= used'.failures /\ used'.failures # 0
                 /\ used'.clears = used.clears
         /\ used.crashes < MaxCrashes /\ InterferedWith("crashes")
              => used' \in UsedType /\ used'.failures = used.failures /\ used'.clears = used.clears
         /\ used.clears < MaxClears /\ InterferedWith("clears")
              => used' \in UsedType /\ used'.failures = used.failures /\ used.clears <= used'.clears
                 /\ used'.clears # 0
         /\ used.failures \in Nat /\ used.clears \in Nat
  BY Constants DEF UsedType, InterferedWith

\* The copy in memory changes
LEMMA Remembers ==
  ASSUME manager \in ManagerType, NEW time \in Time \cup {Null}, NEW p \in Platforms,
         NEW r \in Rows \cup {NoRow}, NEW s \in Sessions
  PROVE  /\ LET new == [manager EXCEPT !.seen = time]
            IN /\ new \in ManagerType /\ new.session = manager.session /\ new.seen = time
               /\ new.ended = manager.ended /\ new.reason = manager.reason
               /\ new.dests = manager.dests
         /\ LET new == [manager EXCEPT !.dests[p] = r]
            IN /\ new \in ManagerType /\ new.session = manager.session
               /\ new.seen = manager.seen /\ new.ended = manager.ended
               /\ new.reason = manager.reason /\ new.dests[p] = r
               /\ \A q \in Platforms : q # p => new.dests[q] = manager.dests[q]
         /\ LET new == [manager EXCEPT !.ended = time, !.reason = "ingest_stopped"]
            IN /\ new \in ManagerType /\ new.session = manager.session
               /\ new.seen = manager.seen /\ new.ended = time
               /\ new.reason = "ingest_stopped" /\ new.dests = manager.dests
         /\ LET new == [Closed EXCEPT !.session = s, !.seen = time]
            IN /\ new \in ManagerType /\ new.session = s /\ new.seen = time
               /\ new.ended = Null /\ new.reason = "none"
               /\ new.dests = [q \in Platforms |-> NoRow]
  BY DEF ManagerType, Closed

-----------------------------------------------------------------------------
(* What the steps do, row by row *)

Failed == used'.failures # 0
Missing == \E p \in Participating : ~rows[manager.dests[p]].stored
Grows == used.failures <= used'.failures /\ used.clears <= used'.clears /\ Bound <= Bound'

OnlySession(s) == \A t \in Sessions : t # s => sessions'[t] = sessions[t]
OnlyRow(r) == \A q \in Rows : q # r => rows'[q] = rows[q]

SessionKept(s) == sessions'[s].stored = sessions[s].stored /\ sessions'[s].started = sessions[s].started
RowKept(r) == /\ rows'[r].stored = rows[r].stored /\ rows'[r].session = rows[r].session
              /\ rows'[r].started = rows[r].started
Remembered(s, seen, ended, reason) ==
  /\ manager'.session = s /\ manager'.seen = seen
  /\ manager'.ended = ended /\ manager'.reason = reason
NoDests == manager'.dests = [p \in Platforms |-> NoRow]

\* Nothing but the tick and the world changes
Looks ==
  /\ UNCHANGED <<sessions, rows, manager>>
  /\ tick.pc = "recoverRows" \/ tick'.pc = "recoverRows" => tick' = tick
  /\ tick'.pc \notin {"down", "recover"} => tick.pc \notin {"down", "recover"} \/ OpenSessions = {}
  /\ tick'.pc = "close" => \/ tick'.todo = Participating
                           \/ tick.pc = "close" /\ tick'.todo = tick.todo
  /\ tick.pc = "close" /\ tick'.pc # "close" => Failed \/ Missing

Forgets == UNCHANGED <<sessions, rows>> /\ manager' = Closed /\ tick'.pc = "down"

Opens(s) ==
  /\ tick.pc = "open" /\ tick'.pc = "reconcile" /\ tick'.now = tick.now
  /\ s \in Sessions /\ ~sessions[s].stored
  /\ sessions'[s].stored /\ sessions'[s].started = tick.now /\ sessions'[s].seen = tick.now
  /\ sessions'[s].ended = Null /\ sessions'[s].reason = "none" /\ OnlySession(s)
  /\ Remembered(s, tick.now, Null, "none") /\ NoDests
  /\ rows' = rows

Beats ==
  LET s == manager.session
  IN /\ tick.pc = "heartbeat" /\ s \in Sessions
     /\ Remembered(s, tick.now, manager.ended, manager.reason) /\ manager'.dests = manager.dests
     /\ \/ /\ tick'.pc = "reconcile" /\ tick'.now = tick.now
           /\ sessions[s].stored /\ SessionKept(s) /\ OnlySession(s)
           /\ sessions'[s].seen = tick.now /\ sessions'[s].ended = manager.ended
           /\ sessions'[s].reason = manager.reason
        \/ /\ tick'.pc = "idle" /\ (Failed \/ ~sessions[s].stored)
           /\ sessions' = sessions
     /\ rows' = rows

RowEnds(r, time) == /\ rows[r].stored /\ RowKept(r) /\ rows'[r].platform = rows[r].platform
                    /\ rows'[r].ended = time /\ OnlyRow(r)

Leaves(p) ==
  /\ tick.pc = "reconcile" /\ tick'.pc = "reconcile" /\ tick'.now = tick.now
  /\ p \in Participating /\ RowEnds(manager.dests[p], tick.now)
  /\ Remembered(manager.session, manager.seen, manager.ended, manager.reason)
  /\ manager'.dests[p] = NoRow
  /\ \A q \in Platforms : q # p => manager'.dests[q] = manager.dests[q]
  /\ sessions' = sessions

Joins(p, r) ==
  /\ tick.pc = "participate" /\ tick'.pc = "participate" /\ tick'.now = tick.now
  /\ p \in Platforms \ Participating
  /\ r \in Rows /\ ~rows[r].stored /\ \A q \in Platforms : manager.dests[q] # r
  /\ manager.session \in Sessions /\ sessions[manager.session].stored
  /\ rows'[r].stored /\ rows'[r].session = manager.session /\ rows'[r].platform = p
  /\ rows'[r].started = tick.now /\ rows'[r].ended = Null /\ OnlyRow(r)
  /\ Remembered(manager.session, manager.seen, manager.ended, manager.reason)
  /\ manager'.dests[p] = r
  /\ \A q \in Platforms : q # p => manager'.dests[q] = manager.dests[q]
  /\ sessions' = sessions

Closes(p) ==
  /\ tick.pc = "close" /\ tick'.pc = "close" /\ p \in tick.todo /\ tick'.todo = tick.todo \ {p}
  /\ tick'.now = tick.now
  /\ p \in Participating /\ RowEnds(manager.dests[p], manager.seen)
  /\ UNCHANGED <<sessions, manager>>

Finishes ==
  LET s == manager.session
  IN /\ tick.pc = "close" /\ tick.todo = {} /\ s \in Sessions
     /\ \/ /\ tick'.pc = "prune" /\ tick'.now = tick.now /\ manager' = Closed
           /\ sessions[s].stored /\ SessionKept(s) /\ OnlySession(s)
           /\ sessions'[s].seen = manager.seen /\ sessions'[s].ended = manager.seen
           /\ sessions'[s].reason = "ingest_stopped"
        \/ /\ tick'.pc = "idle" /\ (Failed \/ ~sessions[s].stored)
           /\ Remembered(s, manager.seen, manager.seen, "ingest_stopped")
           /\ manager'.dests = manager.dests
           /\ sessions' = sessions
     /\ rows' = rows

Deletes(gone) ==
  /\ gone \subseteq Sessions /\ manager' = manager
  /\ \A s \in Sessions : sessions'[s] = IF s \in gone THEN NoSessionStored ELSE sessions[s]
  /\ \A r \in Rows : rows'[r] = IF rows[r].session \in gone THEN NoRowStored ELSE rows[r]
  /\ \/ tick' = tick /\ tick.pc \notin {"down", "recover", "recoverRows"} /\ used'.clears # 0
     \/ /\ tick.pc = "prune" /\ tick'.pc = "idle"
        /\ \A s \in gone : sessions[s].stored /\ sessions[s].ended # Null

Recovers(s) ==
  /\ tick.pc = "recover" /\ tick'.pc = "recoverRows" /\ tick'.todo = OpenRows(s)
  /\ s \in OpenSessions
  /\ Remembered(s, sessions[s].seen, Null, "none") /\ NoDests
  /\ UNCHANGED <<sessions, rows>>

RecoversRow(r) ==
  /\ tick.pc = "recoverRows" /\ tick'.pc = "recoverRows"
  /\ r \in tick.todo /\ r \in Rows /\ tick'.todo = tick.todo \ {r}
  /\ RowEnds(r, manager.seen)
  /\ UNCHANGED <<sessions, manager>>

RecoversSession ==
  LET s == manager.session
  IN /\ tick.pc = "recoverRows" /\ tick.todo = {} /\ tick'.pc = "idle" /\ s \in Sessions
     /\ SessionKept(s) /\ OnlySession(s)
     /\ sessions'[s].seen = manager.seen /\ sessions'[s].ended = manager.seen
     /\ sessions'[s].reason = "unclean_shutdown"
     /\ manager' = Closed /\ rows' = rows

Unlinks(p) ==
  /\ p \in Platforms
  /\ \A r \in Rows : /\ RowKept(r) /\ rows'[r].ended = rows[r].ended
                     /\ rows'[r].platform = IF rows[r].platform = p THEN NoPlatform
                                            ELSE rows[r].platform
  /\ UNCHANGED <<sessions, manager, tick>>

Effect == \/ Looks \/ Forgets \/ Beats \/ Finishes \/ RecoversSession
          \/ \E s \in Sessions : Opens(s) \/ Recovers(s)
          \/ \E p \in Platforms : \/ Leaves(p) \/ Closes(p) \/ Unlinks(p)
                                  \/ \E r \in Rows : Joins(p, r)
          \/ \E r \in Rows : RecoversRow(r)
          \/ \E gone \in SUBSET Sessions : Deletes(gone)

LEMMA Parts ==
  ASSUME Shape
  PROVE  /\ sessions \in [Sessions -> SessionType] /\ rows \in [Rows -> RowType]
         /\ manager \in ManagerType /\ tick \in TickType /\ used \in UsedType
         /\ manager.session \in Sessions \cup {NoSession} /\ manager.seen \in Time \cup {Null}
         /\ manager.dests \in [Platforms -> Rows \cup {NoRow}]
         /\ Participating \subseteq Platforms
         /\ tick.pc \in PCs /\ tick.now \in Time \cup {Null} /\ clock \in Time
         /\ tick.now \in Int /\ clock \in Int /\ Null \in Int /\ Bound \in Int
         /\ Ticking => tick.now \in Time
<1>1. tick.now \in Time \cup {Null} /\ clock \in Time /\ (Ticking => tick.now # Null)
  BY DEF Shape, Types, TickType, OnTime
<1>2. /\ manager.session \in Sessions \cup {NoSession} /\ manager.seen \in Time \cup {Null}
      /\ manager.dests \in [Platforms -> Rows \cup {NoRow}] /\ tick.pc \in PCs
  BY DEF Shape, Types, TickType, ManagerType
<1>3. Participating \subseteq Platforms
  BY DEF Participating
<1>4. tick.now \in Int /\ clock \in Int /\ Null \in Int
  BY <1>1, Constants DEF Time, Null
<1> QED BY <1>1, <1>2, <1>3, <1>4 DEF Shape, Types, Bound

\* When the clock is not set, what begins is later and what ends is not earlier
LEMMA Later ==
  ASSUME Shape, tick' \in TickType, clock' = clock,
         \/ tick'.pc \in InTick /\ tick.pc \in InTick /\ tick'.now = tick.now
         \/ tick'.pc = "branches" /\ tick'.now = clock
         \/ tick'.pc \notin InTick /\ tick'.now = Null
         \/ tick'.pc = tick.pc /\ tick'.now = tick.now
  PROVE  OnTime' /\ Bound <= Bound'
<1> USE Parts, Constants DEF Time, Null, Ticking
<1>1. OnTime /\ tick.now \in Int /\ clock \in Int /\ clock >= 1
  BY DEF Shape
<1>2. OnTime'
  BY <1>1 DEF OnTime, InTick
<1>3. Bound <= Bound'
  BY <1>1 DEF OnTime, Bound, InTick
<1> QED BY <1>2, <1>3

LEMMA ObserveEffect == ASSUME Shape, Observe PROVE Shape' /\ Grows /\ Looks
<1>1. /\ tick' \in TickType /\ tick'.pc = "branches" /\ tick'.now = clock /\ tick'.todo = {}
      /\ tick.pc = "idle" /\ UNCHANGED <<sessions, rows, manager, ingest, branches, exists, clock, used>>
  <2>1. /\ tick' = [Idle EXCEPT !.pc = "branches", !.now = clock, !.receiving = ingest]
        /\ tick.pc = "idle" /\ UNCHANGED <<sessions, rows, manager, ingest, branches, exists, clock, used>>
    BY DEF Observe, tables, world
  <2>2. ingest \in BOOLEAN /\ clock \in Time
    BY DEF Shape, Types
  <2> QED BY <2>1, <2>2 DEF Idle, TickType, PCs
<1>2. OnTime' /\ Bound <= Bound'
  BY <1>1, Later
<1>3. Types'
  BY <1>1 DEF Shape, Types
<1>4. Phases'
  BY <1>1 DEF Shape, Phases, Participating
<1>5. used.failures \in Nat /\ used.clears \in Nat
  BY Parts, Counts
<1> QED BY <1>1, <1>2, <1>3, <1>4, <1>5 DEF Shape, Grows, Looks

LEMMA ObserveBranchesEffect == ASSUME Shape, ObserveBranches PROVE Shape' /\ Grows /\ Looks
<1>0. /\ tick.pc = "branches" /\ tick \in TickType
      /\ UNCHANGED <<sessions, rows, manager, ingest, branches, exists, clock, used>>
  BY Parts DEF ObserveBranches, tables, world
<1> DEFINE pc == IF tick.receiving
                   THEN IF manager.session = NoSession THEN "open" ELSE "heartbeat"
                   ELSE IF manager.session # NoSession /\ GraceIsOver THEN "close" ELSE "prune"
           live == {p \in Platforms : exists[p] /\ branches[p] = "live"}
           error == {p \in Platforms : exists[p] /\ branches[p] = "error"}
<1>1. /\ tick' = [tick EXCEPT !.live = live, !.error = error, !.todo = Participating, !.pc = pc]
      /\ live \in SUBSET Platforms /\ error \in SUBSET Platforms
      /\ pc \in {"open", "heartbeat", "close", "prune"}
      /\ pc = "open" => manager.session = NoSession
      /\ pc \in {"heartbeat", "close"} => manager.session # NoSession
      /\ pc = "close" => tick.now - manager.seen >= GraceWindow
  BY DEF ObserveBranches, GraceIsOver
<1> HIDE DEF pc, live, error
<1>2. /\ tick' \in TickType /\ tick'.pc = pc /\ tick'.now = tick.now /\ tick'.todo = Participating
  <2>1. Participating \in SUBSET (Platforms \cup Rows)
    BY DEF Participating
  <2> QED BY <1>0, <1>1, <2>1 DEF TickType, PCs
<1>3. OnTime' /\ Bound <= Bound'
  BY <1>0, <1>1, <1>2, Later DEF InTick
<1>4. Types'
  BY <1>0, <1>1, <1>2 DEF Shape, Types, Participating
<1>5. Phases'
  BY <1>0, <1>1, <1>2 DEF Shape, Phases, Participating
<1>6. used.failures \in Nat /\ used.clears \in Nat
  BY Parts, Counts
<1> QED BY <1>0, <1>1, <1>2, <1>3, <1>4, <1>5, <1>6 DEF Shape, Grows, Looks

\* What ends a tick and leaves the tables and the memory alone
LEMMA FailEffect ==
  ASSUME Shape, UNCHANGED <<tables, manager, world>>, tick.pc \notin {"down", "recoverRows"},
         Fail \/ (NotFound /\ tick.pc # "recover" /\ (tick.pc = "close" => Missing))
  PROVE  Shape' /\ Grows /\ Looks
<1>0. UNCHANGED <<sessions, rows, manager, ingest, branches, exists, clock>> /\ used \in UsedType
  BY Parts DEF tables, world
<1>1. /\ used' \in UsedType /\ tick' \in TickType /\ tick'.todo = {} /\ tick'.now = Null
      /\ tick'.pc = IF Fail /\ tick.pc = "recover" THEN "down" ELSE "idle"
      /\ used.failures <= used'.failures /\ used'.clears = used.clears
      /\ Fail => used'.failures # 0
  BY <1>0, Fails
<1>2. OnTime' /\ Bound <= Bound'
  BY <1>0, <1>1, Later DEF InTick
<1>3. Types'
  BY <1>0, <1>1 DEF Shape, Types
<1>4. Phases'
  BY <1>0, <1>1 DEF Shape, Phases, Participating
<1>5. used.clears \in Nat
  BY Parts, Counts
<1>6. Grows
  BY <1>0, <1>1, <1>2, <1>5 DEF Grows
<1>7. Fail \/ (tick.pc # "recover" /\ (tick.pc = "close" => Missing))
  OBVIOUS
<1>8. Looks
  <2>1. tick'.pc \in {"down", "idle"} /\ (tick.pc = "recover" => tick'.pc = "down")
    BY <1>1, <1>7
  <2>2. tick.pc = "close" => Failed \/ Missing
    BY <1>1, <1>7 DEF Failed
  <2> QED BY <1>0, <2>1, <2>2 DEF Looks
<1> QED BY <1>2, <1>3, <1>4, <1>6, <1>8 DEF Shape

LEMMA BeginSecondLoopEffect == ASSUME Shape, BeginSecondLoop PROVE Shape' /\ Grows /\ Looks
<1>0. /\ tick.pc = "reconcile" /\ tick \in TickType
      /\ UNCHANGED <<sessions, rows, manager, ingest, branches, exists, clock, used>>
      /\ tick' = [tick EXCEPT !.pc = "participate", !.todo = tick.live \ Participating]
  BY Parts DEF BeginSecondLoop, tables, world
<1>1. tick.live \ Participating \in SUBSET Platforms
  BY <1>0 DEF TickType
<1>2. /\ tick' \in TickType /\ tick'.pc = "participate" /\ tick'.now = tick.now
      /\ tick'.todo = tick.live \ Participating
  <2>1. "participate" \in PCs /\ tick.live \ Participating \in SUBSET (Platforms \cup Rows)
    BY <1>1 DEF PCs
  <2> QED BY <1>0, <2>1, Ticks
<1>3. OnTime' /\ Bound <= Bound'
  BY <1>0, <1>2, Later DEF InTick
<1>4. Types'
  BY <1>0, <1>1, <1>2 DEF Shape, Types
<1>5. Phases'
  BY <1>0, <1>2 DEF Shape, Phases, Participating
<1>6. used.failures \in Nat /\ used.clears \in Nat
  BY Parts, Counts
<1> QED BY <1>0, <1>2, <1>3, <1>4, <1>5, <1>6 DEF Shape, Grows, Looks

LEMMA ReconcileEndsEffect == ASSUME Shape, ReconcileEnds PROVE Shape' /\ Grows /\ Looks
<1>0. /\ tick.pc = "participate" /\ tick.todo = {} /\ tick \in TickType
      /\ UNCHANGED <<sessions, rows, manager, ingest, branches, exists, clock, used>>
      /\ tick' = [tick EXCEPT !.pc = "prune"]
  BY Parts DEF ReconcileEnds, tables, world
<1>1. "prune" \in PCs /\ {} \in SUBSET (Platforms \cup Rows)
  BY DEF PCs
<1>2. tick' \in TickType /\ tick'.pc = "prune" /\ tick'.now = tick.now /\ tick'.todo = {}
  BY <1>0, <1>1, Ticks
<1>3. OnTime' /\ Bound <= Bound'
  BY <1>0, <1>2, Later DEF InTick
<1>4. Types'
  BY <1>0, <1>2 DEF Shape, Types
<1>5. Phases'
  BY <1>0, <1>2 DEF Shape, Phases, Participating
<1>6. used.failures \in Nat /\ used.clears \in Nat
  BY Parts, Counts
<1> QED BY <1>0, <1>2, <1>3, <1>4, <1>5, <1>6 DEF Shape, Grows, Looks

LEMMA SkipEffect ==
  ASSUME Shape, NEW p \in Platforms, SkipParticipation(p) PROVE Shape' /\ Grows /\ Looks
<1>0. /\ tick.pc = "participate" /\ p \in tick.todo /\ tick \in TickType /\ used \in UsedType
      /\ UNCHANGED <<tables, manager, world>>
      /\ UNCHANGED <<sessions, rows, manager, ingest, branches, exists, clock>>
  BY Parts DEF SkipParticipation, tables, world
<1>1. CASE ~exists[p] /\ NotFound
  BY <1>0, <1>1, FailEffect
<1>2. CASE ~(~exists[p] /\ NotFound)
  <2>1. /\ tick' = [tick EXCEPT !.todo = tick.todo \ {p}]
        /\ IF exists[p] THEN used.failures < MaxFailures /\ InterferedWith("failures")
                        ELSE UNCHANGED used
    BY <1>2 DEF SkipParticipation
  <2>2. /\ used' \in UsedType /\ used.failures <= used'.failures /\ used.clears <= used'.clears
    BY <1>0, <2>1, Counts
  <2>3. tick.todo \ {p} \in SUBSET (Platforms \cup Rows) /\ tick.todo \subseteq Platforms
    BY <1>0 DEF Shape, Types, TickType
  <2>4. /\ tick' \in TickType /\ tick'.pc = tick.pc /\ tick'.now = tick.now
        /\ tick'.todo = tick.todo \ {p}
    BY <1>0, <2>1, <2>3, Ticks, Parts
  <2>5. OnTime' /\ Bound <= Bound'
    BY <1>0, <2>4, Later
  <2>6. Types'
    BY <1>0, <2>2, <2>3, <2>4 DEF Shape, Types
  <2>7. Phases'
    BY <1>0, <2>4 DEF Shape, Phases, Participating
  <2> QED BY <1>0, <2>2, <2>4, <2>5, <2>6, <2>7 DEF Shape, Grows, Looks
<1> QED BY <1>1, <1>2 DEF SkipParticipation

LEMMA ReadFailsEffect == ASSUME Shape, ReadFails PROVE Shape' /\ Grows /\ Looks
  BY FailEffect DEF ReadFails, NotFound, Fail, Idle, Down

\* The steps of the rest of the program that change neither table
LEMMA WorldEffect ==
  ASSUME Shape,
         \/ IngestChanges \/ Restart \/ Elapse
         \/ \E p \in Platforms, state \in {"off", "live", "error"} : BranchChanges(p, state)
  PROVE  Shape' /\ Grows /\ Looks
<1>0. /\ tick \in TickType /\ used \in UsedType /\ used.failures \in Nat /\ used.clears \in Nat
      /\ branches \in [Platforms -> {"off", "live", "error"}] /\ ingest \in BOOLEAN
      /\ exists \in [Platforms -> BOOLEAN] /\ clock \in Time /\ clock \in Int /\ tick.now \in Int
  BY Parts, Counts DEF Shape, Types
<1>1. CASE Restart
  <2>1. /\ tick.pc = "down" /\ tick' = [Idle EXCEPT !.pc = "recover"]
        /\ UNCHANGED <<sessions, rows, manager, ingest, branches, exists, clock, used>>
    BY <1>1 DEF Restart, tables, world
  <2>2. /\ tick' \in TickType /\ tick'.pc = "recover" /\ tick'.todo = {} /\ tick'.now = Null
    BY <2>1, FreshTypes DEF Idle
  <2>3. OnTime' /\ Bound <= Bound'
    BY <2>1, <2>2, Later DEF InTick
  <2>4. Types'
    BY <2>1, <2>2 DEF Shape, Types
  <2>5. Phases'
    BY <2>1, <2>2 DEF Shape, Phases, Participating
  <2> QED BY <1>0, <2>1, <2>2, <2>3, <2>4, <2>5 DEF Shape, Grows, Looks
<1>2. CASE Elapse
  <2>1. /\ clock' = clock + 1 /\ clock < MaxTime
        /\ UNCHANGED <<sessions, rows, manager, tick, ingest, branches, exists, used>>
    BY <1>0, <1>2, Constants DEF Elapse, tables
  <2>2. clock' \in Time
    BY <1>0, <2>1, Constants DEF Time
  <2>3. OnTime' /\ Bound <= Bound'
    BY <1>0, <2>1 DEF Shape, OnTime, Bound, Ticking
  <2>4. Types'
    BY <2>1, <2>2 DEF Shape, Types
  <2>5. Phases'
    BY <2>1 DEF Shape, Phases, Participating
  <2> QED BY <1>0, <2>1, <2>3, <2>4, <2>5 DEF Shape, Grows, Looks
<1>3. CASE \/ IngestChanges
           \/ \E p \in Platforms, state \in {"off", "live", "error"} : BranchChanges(p, state)
  <2>1. /\ used.changes < MaxChanges /\ InterferedWith("changes")
        /\ UNCHANGED <<sessions, rows, manager, tick, exists, clock>>
        /\ ingest' \in BOOLEAN /\ branches' \in [Platforms -> {"off", "live", "error"}]
    BY <1>0, <1>3 DEF IngestChanges, BranchChanges, tables
  <2>2. used' \in UsedType /\ used'.failures = used.failures /\ used'.clears = used.clears
    BY <1>0, <2>1, Counts
  <2>3. OnTime' /\ Bound <= Bound'
    BY <1>0, <2>1, Later
  <2>4. Types'
    BY <2>1, <2>2 DEF Shape, Types
  <2>5. Phases'
    BY <2>1 DEF Shape, Phases, Participating
  <2> QED BY <1>0, <2>1, <2>2, <2>3, <2>4, <2>5 DEF Shape, Grows, Looks
<1> QED BY <1>1, <1>2, <1>3

LEMMA OpenEffect == ASSUME Shape, OpenSession PROVE Shape' /\ Grows /\ \E s \in Sessions : Opens(s)
<1>0. /\ tick.pc = "open" /\ FreshSessions # {} /\ tick \in TickType
      /\ UNCHANGED <<rows, ingest, branches, exists, clock, used>>
      /\ tick' = [tick EXCEPT !.pc = "reconcile", !.todo = {}]
      /\ sessions \in [Sessions -> SessionType]
  BY Parts DEF OpenSession, world
<1> DEFINE s == CHOOSE fresh \in FreshSessions : TRUE
           new == [NoSessionStored EXCEPT !.stored = TRUE, !.started = tick.now, !.seen = tick.now]
<1>1. s \in Sessions /\ ~sessions[s].stored
  BY <1>0 DEF FreshSessions
<1>2. sessions' = [sessions EXCEPT ![s] = new] /\ manager' = [Closed EXCEPT !.session = s, !.seen = tick.now]
  BY DEF OpenSession
<1> HIDE DEF s
<1>3. tick.now \in Time /\ tick.now \in Time \cup {Null}
  BY <1>0, Parts DEF Ticking, InTick
<1>4. /\ new \in SessionType /\ new.stored /\ new.started = tick.now /\ new.seen = tick.now
      /\ new.ended = Null /\ new.reason = "none"
  BY <1>3 DEF NoSessionStored, SessionType
<1> HIDE DEF new
<1>5. /\ sessions' \in [Sessions -> SessionType] /\ sessions'[s] = new /\ OnlySession(s)
  BY <1>0, <1>1, <1>2, <1>4 DEF OnlySession
<1>6. manager' \in ManagerType /\ Remembered(s, tick.now, Null, "none") /\ NoDests
  BY <1>1, <1>2, <1>3 DEF Closed, ManagerType, Remembered, NoDests
<1>7. /\ tick' \in TickType /\ tick'.pc = "reconcile" /\ tick'.now = tick.now /\ tick'.todo = {}
  <2>1. "reconcile" \in PCs /\ {} \in SUBSET (Platforms \cup Rows)
    BY DEF PCs
  <2> QED BY <1>0, <2>1 DEF TickType
<1>8. OnTime' /\ Bound <= Bound'
  BY <1>0, <1>7, Later DEF InTick
<1>9. Types'
  BY <1>0, <1>5, <1>6, <1>7 DEF Shape, Types
<1>10. Phases'
  BY <1>0, <1>1, <1>6, <1>7, Constants DEF Phases, Participating, Remembered, NoDests
<1>11. used.failures \in Nat /\ used.clears \in Nat
  BY Parts, Counts
<1>12. Opens(s)
  BY <1>0, <1>1, <1>4, <1>5, <1>6, <1>7 DEF Opens
<1> QED BY <1>0, <1>1, <1>8, <1>9, <1>10, <1>11, <1>12 DEF Shape, Grows

LEMMA HeartbeatEffect == ASSUME Shape, Heartbeat PROVE Shape' /\ Grows /\ Beats
<1> DEFINE s == manager.session  copy == [manager EXCEPT !.seen = tick.now]
<1>0. /\ tick.pc = "heartbeat" /\ tick \in TickType /\ used \in UsedType
      /\ UNCHANGED <<rows, ingest, branches, exists, clock>>
      /\ sessions \in [Sessions -> SessionType] /\ manager \in ManagerType
      /\ manager' = copy /\ s \in Sessions
  BY Parts DEF Heartbeat, world, Shape, Phases
<1>1. tick.now \in Time
  BY <1>0, Parts DEF Ticking, InTick
<1>2. /\ copy \in ManagerType /\ copy.session = s /\ copy.seen = tick.now
      /\ copy.ended = manager.ended /\ copy.reason = manager.reason /\ copy.dests = manager.dests
  BY <1>0, <1>1 DEF ManagerType
<1>3. /\ manager' \in ManagerType /\ manager'.dests = manager.dests
      /\ Remembered(s, tick.now, manager.ended, manager.reason)
      /\ Participating' = Participating
  BY <1>0, <1>2 DEF Remembered, Participating
<1>4. \/ sessions[s].stored /\ WriteSession(s, copy) /\ tick' = [tick EXCEPT !.pc = "reconcile"] /\ used' = used
      \/ /\ IF sessions[s].stored THEN Fail ELSE NotFound
         /\ sessions' = sessions
  BY DEF Heartbeat
<1>5. used.failures \in Nat /\ used.clears \in Nat /\ tick.todo \subseteq Platforms
  BY <1>0, Parts, Counts DEF Shape, Types
<1> HIDE DEF copy
<1>6. CASE sessions[s].stored /\ WriteSession(s, copy) /\ tick' = [tick EXCEPT !.pc = "reconcile"] /\ used' = used
  <2>1. copy.seen \in Time \cup {Null} /\ copy.ended \in Time \cup {Null}
        /\ copy.reason \in {"none", "ingest_stopped", "unclean_shutdown"}
    BY <1>0, <1>1, <1>2 DEF ManagerType
  <2>2. /\ sessions' \in [Sessions -> SessionType] /\ SessionKept(s) /\ OnlySession(s)
        /\ sessions'[s].seen = tick.now /\ sessions'[s].ended = manager.ended
        /\ sessions'[s].reason = manager.reason
    BY <1>0, <1>2, <1>6, <2>1, Written DEF SessionKept, OnlySession
  <2>3. tick' \in TickType /\ tick'.pc = "reconcile" /\ tick'.now = tick.now /\ tick'.todo = tick.todo
    <3>1. "reconcile" \in PCs /\ tick.todo \in SUBSET (Platforms \cup Rows)
      BY <1>5 DEF PCs
    <3> QED BY <1>0, <1>6, <3>1, Ticks
  <2>4. OnTime' /\ Bound <= Bound'
    BY <1>0, <2>3, Later DEF InTick
  <2>5. Types'
    BY <1>0, <1>3, <1>5, <1>6, <2>2, <2>3 DEF Shape, Types
  <2>6. Phases'
    BY <1>0, <1>3, <2>3, Constants DEF Shape, Phases, Remembered
  <2>7. Beats
    BY <1>0, <1>3, <1>6, <2>2, <2>3 DEF Beats
  <2> QED BY <1>5, <1>6, <2>4, <2>5, <2>6, <2>7 DEF Shape, Grows
<1>7. CASE (IF sessions[s].stored THEN Fail ELSE NotFound) /\ sessions' = sessions
  <2>1. /\ used' \in UsedType /\ tick' \in TickType /\ tick'.todo = {} /\ tick'.now = Null
        /\ tick'.pc = "idle"
        /\ used.failures <= used'.failures /\ used'.clears = used.clears
        /\ Fail => used'.failures # 0
    <3>1. Fail \/ NotFound
      BY <1>7
    <3> QED BY <1>0, <3>1, Fails
  <2>2. Failed \/ ~sessions[s].stored
    BY <1>7, <2>1 DEF Failed
  <2>3. OnTime' /\ Bound <= Bound'
    BY <1>0, <2>1, Later DEF InTick
  <2>4. Types'
    BY <1>0, <1>3, <1>7, <2>1 DEF Shape, Types
  <2>5. Phases'
    BY <1>0, <1>3, <2>1, Constants DEF Shape, Phases, Remembered
  <2>6. Beats
    BY <1>0, <1>3, <1>7, <2>1, <2>2 DEF Beats
  <2> QED BY <1>5, <2>1, <2>3, <2>4, <2>5, <2>6 DEF Shape, Grows
<1> QED BY <1>4, <1>6, <1>7

LEMMA EndEffect ==
  ASSUME Shape, NEW p \in Platforms, EndParticipation(p)
  PROVE  Shape' /\ Grows /\ (Looks \/ Leaves(p))
<1> DEFINE r == manager.dests[p]
<1>0. /\ tick.pc = "reconcile" /\ p \in tick.todo /\ tick \in TickType /\ used \in UsedType
      /\ UNCHANGED <<sessions, ingest, branches, exists, clock>>
      /\ rows \in [Rows -> RowType] /\ manager \in ManagerType
      /\ used.failures \in Nat /\ used.clears \in Nat /\ tick.todo \subseteq Platforms
      /\ p \in Participating /\ r \in Rows /\ Participating \subseteq Platforms
      /\ tick.todo \subseteq Participating /\ manager.session # NoSession
      /\ manager.dests \in [Platforms -> Rows \cup {NoRow}]
  BY Parts, Counts DEF EndParticipation, world, Shape, Phases, Types, Participating
<1>1. tick.now \in Time
  BY <1>0, Parts DEF Ticking, InTick
<1>2. CASE ~(rows[r].stored /\ ~Fail) /\ (Fail \/ NotFound) /\ UNCHANGED <<rows, manager>>
  <2>1. UNCHANGED <<tables, manager, world>>
    BY <1>0, <1>2 DEF tables, world
  <2> QED BY <1>0, <1>2, <2>1, FailEffect
<1>3. CASE /\ rows[r].stored /\ manager' = [manager EXCEPT !.dests[p] = NoRow]
           /\ EndRow(r, tick.now, IF p \in tick.error THEN "error" ELSE "completed")
           /\ tick' = [tick EXCEPT !.todo = @ \ {p}] /\ used' = used
  <2>1. PICK outcome \in {"completed", "error", "session_ended"} : EndRow(r, tick.now, outcome)
    BY <1>3
  <2>2. rows' \in [Rows -> RowType] /\ RowEnds(r, tick.now)
    <3>1. tick.now \in Time \cup {Null}
      BY <1>1
    <3> QED BY <1>0, <1>3, <2>1, <3>1, Ended DEF RowEnds, RowKept, OnlyRow
  <2>3. /\ manager' \in ManagerType /\ manager'.dests[p] = NoRow
        /\ Remembered(manager.session, manager.seen, manager.ended, manager.reason)
        /\ \A q \in Platforms : q # p => manager'.dests[q] = manager.dests[q]
    BY <1>0, <1>3 DEF ManagerType, Remembered
  <2>4. Participating' = Participating \ {p}
    BY <2>3 DEF Participating
  <2>5. /\ tick' \in TickType /\ tick'.pc = tick.pc /\ tick'.now = tick.now
        /\ tick'.todo = tick.todo \ {p}
    <3>1. tick.todo \ {p} \in SUBSET (Platforms \cup Rows) /\ tick.pc \in PCs
      BY <1>0, Parts
    <3> QED BY <1>0, <1>3, <3>1, Ticks
  <2>6. OnTime' /\ Bound <= Bound'
    BY <1>0, <2>5, Later
  <2>7. Types'
    BY <1>0, <1>3, <2>2, <2>3, <2>5 DEF Shape, Types
  <2>8. Phases'
    BY <1>0, <2>3, <2>4, <2>5 DEF Shape, Phases, Remembered
  <2>9. Leaves(p)
    BY <1>0, <2>2, <2>3, <2>5 DEF Leaves
  <2> QED BY <1>0, <1>3, <2>6, <2>7, <2>8, <2>9 DEF Shape, Grows
<1> QED BY <1>2, <1>3 DEF EndParticipation

LEMMA BeginEffect ==
  ASSUME Shape, NEW p \in Platforms, BeginParticipation(p)
  PROVE  Shape' /\ Grows /\ (Looks \/ \E r \in Rows : Joins(p, r))
<1> DEFINE r == CHOOSE fresh \in FreshRows : TRUE
           new == [stored |-> TRUE, session |-> manager.session, platform |-> p,
                   started |-> tick.now, ended |-> Null, outcome |-> "none"]
<1>0. /\ tick.pc = "participate" /\ p \in tick.todo /\ tick \in TickType /\ used \in UsedType
      /\ UNCHANGED <<sessions, ingest, branches, exists, clock>> /\ FreshRows # {}
      /\ rows \in [Rows -> RowType] /\ manager \in ManagerType
      /\ used.failures \in Nat /\ used.clears \in Nat /\ tick.todo \subseteq Platforms
      /\ p \notin Participating /\ Participating \subseteq Platforms
      /\ tick.todo \cap Participating = {} /\ manager.session \in Sessions
      /\ manager.dests \in [Platforms -> Rows \cup {NoRow}]
  BY Parts, Counts DEF BeginParticipation, world, Shape, Phases, Types
<1>1. tick.now \in Time
  BY <1>0, Parts DEF Ticking, InTick
<1>2. CASE (Fail \/ NotFound) /\ UNCHANGED <<rows, manager>>
  <2>1. UNCHANGED <<tables, manager, world>>
    BY <1>0, <1>2 DEF tables, world
  <2> QED BY <1>0, <1>2, <2>1, FailEffect
<1>3. CASE /\ sessions[manager.session].stored /\ rows' = [rows EXCEPT ![r] = new]
           /\ manager' = [manager EXCEPT !.dests[p] = r]
           /\ tick' = [tick EXCEPT !.todo = @ \ {p}] /\ used' = used
  <2>1. r \in Rows /\ ~rows[r].stored /\ \A q \in Platforms : manager.dests[q] # r
    BY <1>0 DEF FreshRows
  <2> HIDE DEF r
  <2>2. /\ new \in RowType /\ new.stored /\ new.session = manager.session /\ new.platform = p
        /\ new.started = tick.now /\ new.ended = Null
    BY <1>0, <1>1 DEF RowType
  <2> HIDE DEF new
  <2>3. rows' \in [Rows -> RowType] /\ rows'[r] = new /\ OnlyRow(r)
    BY <1>0, <1>3, <2>1, <2>2 DEF OnlyRow
  <2>4. /\ manager' \in ManagerType /\ manager'.dests[p] = r
        /\ Remembered(manager.session, manager.seen, manager.ended, manager.reason)
        /\ \A q \in Platforms : q # p => manager'.dests[q] = manager.dests[q]
    BY <1>0, <1>3, <2>1 DEF ManagerType, Remembered
  <2>5. Participating' = Participating \cup {p}
    BY <2>1, <2>4, Constants DEF Participating
  <2>6. /\ tick' \in TickType /\ tick'.pc = tick.pc /\ tick'.now = tick.now
        /\ tick'.todo = tick.todo \ {p}
    <3>1. tick.todo \ {p} \in SUBSET (Platforms \cup Rows) /\ tick.pc \in PCs
      BY <1>0, Parts
    <3> QED BY <1>0, <1>3, <3>1, Ticks
  <2>7. OnTime' /\ Bound <= Bound'
    BY <1>0, <2>6, Later
  <2>8. Types'
    BY <1>0, <1>3, <2>3, <2>4, <2>6 DEF Shape, Types
  <2>9. Phases'
    BY <1>0, <2>4, <2>5, <2>6, Constants DEF Shape, Phases, Remembered
  <2>10. Joins(p, r)
    BY <1>0, <1>3, <2>1, <2>2, <2>3, <2>4, <2>6 DEF Joins
  <2> QED BY <1>0, <1>3, <2>1, <2>7, <2>8, <2>9, <2>10 DEF Shape, Grows
<1> QED BY <1>2, <1>3 DEF BeginParticipation

LEMMA CloseRowEffect ==
  ASSUME Shape, NEW p \in Platforms, CloseRow(p)
  PROVE  Shape' /\ Grows /\ (Looks \/ Closes(p))
<1> DEFINE r == manager.dests[p]
<1>0. /\ tick.pc = "close" /\ p \in tick.todo /\ tick \in TickType /\ used \in UsedType
      /\ UNCHANGED <<sessions, manager, ingest, branches, exists, clock>>
      /\ rows \in [Rows -> RowType]
      /\ used.failures \in Nat /\ used.clears \in Nat /\ tick.todo \subseteq Platforms
      /\ p \in Participating /\ r \in Rows
  BY Parts, Counts DEF CloseRow, world, Shape, Phases, Types, Participating
<1>1. manager.seen \in Time \cup {Null}
  BY Parts
<1>2. CASE (IF rows[r].stored THEN Fail ELSE NotFound) /\ UNCHANGED rows
  <2>1. UNCHANGED <<tables, manager, world>>
    BY <1>0, <1>2 DEF tables, world
  <2>2. Fail \/ (NotFound /\ Missing)
    BY <1>0, <1>2 DEF Missing
  <2> QED BY <1>0, <2>1, <2>2, FailEffect
<1>3. CASE /\ rows[r].stored /\ EndRow(r, manager.seen, "session_ended")
           /\ tick' = [tick EXCEPT !.todo = @ \ {p}] /\ used' = used
  <2>2. rows' \in [Rows -> RowType] /\ RowEnds(r, manager.seen)
    BY <1>0, <1>1, <1>3, Ended DEF RowEnds, RowKept, OnlyRow
  <2>5. /\ tick' \in TickType /\ tick'.pc = tick.pc /\ tick'.now = tick.now
        /\ tick'.todo = tick.todo \ {p}
    <3>1. tick.todo \ {p} \in SUBSET (Platforms \cup Rows) /\ tick.pc \in PCs
      BY <1>0, Parts
    <3> QED BY <1>0, <1>3, <3>1, Ticks
  <2>6. OnTime' /\ Bound <= Bound'
    BY <1>0, <2>5, Later
  <2>7. Types'
    BY <1>0, <1>3, <2>2, <2>5 DEF Shape, Types
  <2>8. Phases'
    BY <1>0, <2>5 DEF Shape, Phases, Participating
  <2>9. Closes(p)
    BY <1>0, <2>2, <2>5 DEF Closes
  <2> QED BY <1>0, <1>3, <2>6, <2>7, <2>8, <2>9 DEF Shape, Grows
<1> QED BY <1>2, <1>3 DEF CloseRow

LEMMA CloseSessionEffect == ASSUME Shape, CloseSession PROVE Shape' /\ Grows /\ Finishes
<1> DEFINE s == manager.session
           copy == [manager EXCEPT !.ended = manager.seen, !.reason = "ingest_stopped"]
<1>0. /\ tick.pc = "close" /\ tick.todo = {} /\ tick \in TickType /\ used \in UsedType
      /\ UNCHANGED <<rows, ingest, branches, exists, clock>>
      /\ sessions \in [Sessions -> SessionType] /\ manager \in ManagerType
      /\ s \in Sessions /\ manager.seen \in Time \cup {Null}
      /\ used.failures \in Nat /\ used.clears \in Nat
  BY Parts, Counts DEF CloseSession, world, Shape, Phases
<1>2. /\ copy \in ManagerType /\ copy.session = s /\ copy.seen = manager.seen
      /\ copy.ended = manager.seen /\ copy.reason = "ingest_stopped"
      /\ copy.dests = manager.dests
  BY <1>0 DEF ManagerType
<1>4. \/ /\ sessions[s].stored /\ WriteSession(s, copy) /\ tick' = [tick EXCEPT !.pc = "prune"]
         /\ manager' = Closed /\ used' = used
      \/ /\ IF sessions[s].stored THEN Fail ELSE NotFound
         /\ sessions' = sessions /\ manager' = copy
  BY DEF CloseSession
<1> HIDE DEF copy
<1>6. CASE /\ sessions[s].stored /\ WriteSession(s, copy) /\ tick' = [tick EXCEPT !.pc = "prune"]
           /\ manager' = Closed /\ used' = used
  <2>2. /\ sessions' \in [Sessions -> SessionType] /\ SessionKept(s) /\ OnlySession(s)
        /\ sessions'[s].seen = manager.seen /\ sessions'[s].ended = manager.seen
        /\ sessions'[s].reason = "ingest_stopped"
    <3>1. copy.seen \in Time \cup {Null} /\ copy.ended \in Time \cup {Null}
          /\ copy.reason \in {"none", "ingest_stopped", "unclean_shutdown"}
      BY <1>0, <1>2
    <3> QED BY <1>0, <1>2, <1>6, <3>1, Written DEF SessionKept, OnlySession
  <2>3. tick' \in TickType /\ tick'.pc = "prune" /\ tick'.now = tick.now /\ tick'.todo = {}
    BY <1>0, <1>6 DEF TickType, PCs
  <2>4. OnTime' /\ Bound <= Bound'
    BY <1>0, <2>3, Later DEF InTick
  <2>5. manager' \in ManagerType /\ Participating' = {}
    BY <1>6, FreshTypes DEF Participating
  <2>6. Types'
    BY <1>0, <1>6, <2>2, <2>3, <2>5 DEF Shape, Types
  <2>7. Phases'
    BY <2>3, <2>5 DEF Phases
  <2>8. Finishes
    BY <1>0, <1>6, <2>2, <2>3 DEF Finishes
  <2> QED BY <1>0, <1>6, <2>4, <2>6, <2>7, <2>8 DEF Shape, Grows
<1>7. CASE /\ IF sessions[s].stored THEN Fail ELSE NotFound
           /\ sessions' = sessions /\ manager' = copy
  <2>1. /\ used' \in UsedType /\ tick' \in TickType /\ tick'.todo = {} /\ tick'.now = Null
        /\ tick'.pc = "idle"
        /\ used.failures <= used'.failures /\ used'.clears = used.clears
        /\ Fail => used'.failures # 0
    <3>1. Fail \/ NotFound
      BY <1>7
    <3> QED BY <1>0, <3>1, Fails
  <2>2. Failed \/ ~sessions[s].stored
    BY <1>7, <2>1 DEF Failed
  <2>3. OnTime' /\ Bound <= Bound'
    BY <1>0, <2>1, Later DEF InTick
  <2>4. /\ manager' \in ManagerType /\ manager'.dests = manager.dests
        /\ Remembered(s, manager.seen, manager.seen, "ingest_stopped")
        /\ Participating' = Participating
    BY <1>2, <1>7 DEF Remembered, Participating
  <2>5. Types'
    BY <1>0, <1>7, <2>1, <2>4 DEF Shape, Types
  <2>6. Phases'
    BY <1>0, <2>1, <2>4, Constants DEF Shape, Phases, Remembered
  <2>7. Finishes
    BY <1>0, <1>7, <2>1, <2>2, <2>4 DEF Finishes
  <2> QED BY <1>0, <2>1, <2>3, <2>5, <2>6, <2>7 DEF Shape, Grows
<1> QED BY <1>4, <1>6, <1>7

LEMMA DeleteEffect ==
  ASSUME Shape, Prune \/ ClearHistory
  PROVE  Shape' /\ Grows /\ (Looks \/ \E gone \in SUBSET Sessions : Deletes(gone))
<1>0. /\ tick \in TickType /\ used \in UsedType
      /\ UNCHANGED <<manager, ingest, branches, exists, clock>> /\ Participating' = Participating
      /\ sessions \in [Sessions -> SessionType] /\ rows \in [Rows -> RowType]
      /\ used.failures \in Nat /\ used.clears \in Nat
  BY Parts, Counts DEF Prune, ClearHistory, world, Participating
<1>1. CASE Prune
  <2>1. tick.pc = "prune" /\ tick' = Idle /\ used' = used
    BY <1>1 DEF Prune
  <2>2. /\ tick' \in TickType /\ tick'.pc = "idle" /\ tick'.now = Null /\ tick'.todo = {}
    BY <2>1, FreshTypes
  <2>3. OnTime' /\ Bound <= Bound'
    BY <1>0, <2>2, Later DEF InTick
  <2>4. Phases'
    BY <1>0, <2>1, <2>2 DEF Shape, Phases
  <2>5. CASE UNCHANGED tables
    <3>1. sessions' = sessions /\ rows' = rows
      BY <2>5 DEF tables
    <3>2. Types'
      BY <1>0, <2>1, <2>2, <3>1 DEF Shape, Types
    <3>3. Looks
      BY <1>0, <2>1, <2>2, <3>1 DEF Looks
    <3> QED BY <1>0, <2>1, <2>3, <2>4, <3>2, <3>3 DEF Shape, Grows
  <2>6. ASSUME NEW days \in Retentions, Delete({s \in Sessions : Prunable(s, days)})
        PROVE  Shape' /\ Grows /\ (Looks \/ \E gone \in SUBSET Sessions : Deletes(gone))
    <3> DEFINE gone == {s \in Sessions : Prunable(s, days)}
    <3>1. gone \in SUBSET Sessions /\ \A s \in gone : sessions[s].stored /\ sessions[s].ended # Null
      BY DEF Prunable
    <3> HIDE DEF gone
    <3>2. Delete(gone)
      BY <2>6 DEF gone
    <3>3. /\ sessions' \in [Sessions -> SessionType] /\ rows' \in [Rows -> RowType]
          /\ \A s \in Sessions : sessions'[s] = IF s \in gone THEN NoSessionStored ELSE sessions[s]
          /\ \A r \in Rows : rows'[r] = IF rows[r].session \in gone THEN NoRowStored ELSE rows[r]
      BY <1>0, <3>1, <3>2, Deleted
    <3>4. Types'
      BY <1>0, <2>1, <2>2, <3>3 DEF Shape, Types
    <3>5. Deletes(gone)
      BY <1>0, <2>1, <2>2, <3>1, <3>3 DEF Deletes
    <3> QED BY <1>0, <2>1, <2>3, <2>4, <3>1, <3>4, <3>5 DEF Shape, Grows
  <2> QED BY <1>1, <2>5, <2>6 DEF Prune
<1>2. CASE ClearHistory
  <2> DEFINE gone == {s \in Sessions : sessions[s].stored}
  <2>1. /\ tick.pc \notin {"down", "recover", "recoverRows"} /\ tick' = tick
        /\ used.clears < MaxClears /\ InterferedWith("clears") /\ Delete(gone)
    BY <1>2 DEF ClearHistory
  <2>2. gone \in SUBSET Sessions
    OBVIOUS
  <2> HIDE DEF gone
  <2>3. /\ sessions' \in [Sessions -> SessionType] /\ rows' \in [Rows -> RowType]
        /\ \A s \in Sessions : sessions'[s] = IF s \in gone THEN NoSessionStored ELSE sessions[s]
        /\ \A r \in Rows : rows'[r] = IF rows[r].session \in gone THEN NoRowStored ELSE rows[r]
    BY <1>0, <2>1, <2>2, Deleted
  <2>4. /\ used' \in UsedType /\ used'.failures = used.failures /\ used.clears <= used'.clears
        /\ used'.clears # 0
    BY <1>0, <2>1, Counts
  <2>5. OnTime' /\ Bound <= Bound'
    BY <1>0, <2>1, Later
  <2>6. Types'
    BY <1>0, <2>1, <2>3, <2>4 DEF Shape, Types
  <2>7. Phases'
    BY <1>0, <2>1 DEF Shape, Phases
  <2>8. Deletes(gone)
    BY <1>0, <2>1, <2>2, <2>3, <2>4 DEF Deletes
  <2> QED BY <1>0, <2>2, <2>4, <2>5, <2>6, <2>7, <2>8 DEF Shape, Grows
<1> QED BY <1>1, <1>2

LEMMA RecoverEffect ==
  ASSUME Shape, Recover PROVE Shape' /\ Grows /\ (Looks \/ \E s \in Sessions : Recovers(s))
<1>0. /\ tick.pc = "recover" /\ tick \in TickType
      /\ UNCHANGED <<sessions, rows, ingest, branches, exists, clock, used>>
      /\ sessions \in [Sessions -> SessionType]
      /\ used.failures \in Nat /\ used.clears \in Nat
  BY Parts, Counts DEF Recover, tables, world
<1>1. CASE OpenSessions = {}
  <2>1. tick' = Idle /\ manager' = manager
    BY <1>1 DEF Recover
  <2>2. tick' \in TickType /\ tick'.pc = "idle" /\ tick'.now = Null /\ tick'.todo = {}
    BY <2>1, FreshTypes
  <2>3. OnTime' /\ Bound <= Bound'
    BY <1>0, <2>2, Later DEF InTick
  <2>4. Types'
    BY <1>0, <2>1, <2>2 DEF Shape, Types
  <2>5. Phases'
    BY <1>0, <2>1, <2>2 DEF Shape, Phases, Participating
  <2>6. Looks
    BY <1>0, <1>1, <2>1, <2>2 DEF Looks
  <2> QED BY <1>0, <2>3, <2>4, <2>5, <2>6 DEF Shape, Grows
<1>2. CASE OpenSessions # {}
  <2>1. PICK s \in OpenSessions :
          /\ manager' = [Closed EXCEPT !.session = s, !.seen = sessions[s].seen]
          /\ tick' = [tick EXCEPT !.pc = "recoverRows", !.todo = OpenRows(s)]
    BY <1>2 DEF Recover
  <2>2. s \in Sessions /\ sessions[s].seen \in Time \cup {Null}
    BY <1>0 DEF OpenSessions, SessionType
  <2>3. /\ manager' \in ManagerType /\ Remembered(s, sessions[s].seen, Null, "none") /\ NoDests
    BY <2>1, <2>2 DEF Closed, ManagerType, Remembered, NoDests
  <2>4. /\ tick' \in TickType /\ tick'.pc = "recoverRows" /\ tick'.now = tick.now
        /\ tick'.todo = OpenRows(s) /\ OpenRows(s) \subseteq Rows
    <3>1. OpenRows(s) \in SUBSET (Platforms \cup Rows) /\ OpenRows(s) \subseteq Rows
          /\ "recoverRows" \in PCs
      BY DEF OpenRows, PCs
    <3> QED BY <1>0, <2>1, <3>1, Ticks
  <2>5. OnTime' /\ Bound <= Bound'
    <3>1. ~Ticking /\ ~Ticking'
      BY <1>0, <2>4 DEF Ticking, InTick
    <3>2. Bound <= Bound'
      BY <1>0, <3>1, Parts DEF Bound
    <3> QED BY <1>0, <2>4, <3>1, <3>2 DEF Shape, OnTime
  <2>6. Types'
    BY <1>0, <2>3, <2>4 DEF Shape, Types
  <2>7. Phases'
    BY <2>2, <2>3, <2>4, Constants DEF Phases, Participating, Remembered, NoDests
  <2>8. Recovers(s)
    BY <1>0, <2>1, <2>3, <2>4 DEF Recovers
  <2> QED BY <1>0, <2>2, <2>5, <2>6, <2>7, <2>8 DEF Shape, Grows
<1> QED BY <1>1, <1>2

\* The process ends
LEMMA ForgetEffect ==
  ASSUME Shape, UNCHANGED <<sessions, rows, exists, clock>>, manager' = Closed, tick' = Down,
         used' \in UsedType, used.failures <= used'.failures, used'.clears = used.clears,
         ingest' \in BOOLEAN, branches' \in [Platforms -> {"off", "live", "error"}]
  PROVE  Shape' /\ Grows /\ Forgets
<1>1. /\ manager' \in ManagerType /\ tick' \in TickType /\ tick'.pc = "down"
      /\ tick'.now = Null /\ tick'.todo = {} /\ Participating' = {}
      /\ manager'.session = NoSession
  BY FreshTypes DEF Participating
<1>2. OnTime' /\ Bound <= Bound'
  BY <1>1, Later DEF InTick
<1>3. Types'
  BY <1>1 DEF Shape, Types
<1>4. Phases'
  BY <1>1 DEF Phases
<1>5. used.clears \in Nat
  BY Parts, Counts
<1> QED BY <1>1, <1>2, <1>3, <1>4, <1>5 DEF Shape, Grows, Forgets

LEMMA RecoverRowEffect ==
  ASSUME Shape, NEW r \in Rows, RecoverRow(r)
  PROVE  Shape' /\ Grows /\ (Forgets \/ RecoversRow(r))
<1>0. /\ tick.pc = "recoverRows" /\ r \in tick.todo /\ tick \in TickType /\ used \in UsedType
      /\ UNCHANGED <<sessions, ingest, branches, exists, clock>>
      /\ rows \in [Rows -> RowType] /\ manager.seen \in Time \cup {Null}
      /\ used.failures \in Nat /\ used.clears \in Nat /\ tick.todo \subseteq Rows
      /\ ingest \in BOOLEAN /\ branches \in [Platforms -> {"off", "live", "error"}]
  BY Parts, Counts DEF RecoverRow, world, Shape, Types
<1>1. CASE Fail /\ manager' = Closed /\ UNCHANGED rows
  <2>1. tick' = Down
    BY <1>0, <1>1 DEF Fail
  <2>2. used' \in UsedType /\ used.failures <= used'.failures /\ used'.clears = used.clears
    BY <1>0, <1>1, Fails
  <2> QED BY <1>0, <1>1, <2>1, <2>2, ForgetEffect
<1>2. CASE /\ rows[r].stored /\ EndRow(r, manager.seen, "session_ended")
           /\ tick' = [tick EXCEPT !.todo = @ \ {r}] /\ UNCHANGED <<manager, used>>
  <2>1. rows' \in [Rows -> RowType] /\ RowEnds(r, manager.seen)
    BY <1>0, <1>2, Ended DEF RowEnds, RowKept, OnlyRow
  <2>2. /\ tick' \in TickType /\ tick'.pc = tick.pc /\ tick'.now = tick.now
        /\ tick'.todo = tick.todo \ {r}
    <3>1. tick.todo \ {r} \in SUBSET (Platforms \cup Rows) /\ tick.pc \in PCs
      BY <1>0, Parts
    <3> QED BY <1>0, <1>2, <3>1, Ticks
  <2>3. OnTime' /\ Bound <= Bound'
    BY <1>0, <2>2, Later
  <2>4. Types'
    BY <1>0, <1>2, <2>1, <2>2 DEF Shape, Types
  <2>5. Phases'
    BY <1>0, <1>2, <2>2 DEF Shape, Phases, Participating
  <2>6. RecoversRow(r)
    BY <1>0, <1>2, <2>1, <2>2 DEF RecoversRow
  <2> QED BY <1>0, <1>2, <2>3, <2>4, <2>5, <2>6 DEF Shape, Grows
<1> QED BY <1>1, <1>2 DEF RecoverRow

LEMMA RecoverSessionEffect ==
  ASSUME Shape, RecoverSession PROVE Shape' /\ Grows /\ (Forgets \/ RecoversSession)
<1> DEFINE copy == [manager EXCEPT !.ended = manager.seen, !.reason = "unclean_shutdown"]
<1>0. /\ tick.pc = "recoverRows" /\ tick.todo = {} /\ tick \in TickType /\ used \in UsedType
      /\ UNCHANGED <<rows, ingest, branches, exists, clock>> /\ manager' = Closed
      /\ sessions \in [Sessions -> SessionType] /\ manager.seen \in Time \cup {Null}
      /\ manager \in ManagerType /\ manager.session \in Sessions
      /\ used.failures \in Nat /\ used.clears \in Nat
      /\ ingest \in BOOLEAN /\ branches \in [Platforms -> {"off", "live", "error"}]
  BY Parts, Counts DEF RecoverSession, world, Shape, Types, Phases
<1>1. CASE Fail /\ UNCHANGED sessions
  <2>1. tick' = Down
    BY <1>0, <1>1 DEF Fail
  <2>2. used' \in UsedType /\ used.failures <= used'.failures /\ used'.clears = used.clears
    BY <1>0, <1>1, Fails
  <2> QED BY <1>0, <1>1, <2>1, <2>2, ForgetEffect
<1>2. CASE WriteSession(manager.session, copy) /\ tick' = Idle /\ used' = used
  <2>1. copy.seen = manager.seen /\ copy.ended = manager.seen /\ copy.reason = "unclean_shutdown"
    BY <1>0 DEF ManagerType
  <2> HIDE DEF copy
  <2>2. /\ sessions' \in [Sessions -> SessionType]
        /\ SessionKept(manager.session) /\ OnlySession(manager.session)
        /\ sessions'[manager.session].seen = manager.seen
        /\ sessions'[manager.session].ended = manager.seen
        /\ sessions'[manager.session].reason = "unclean_shutdown"
    <3>1. copy.seen \in Time \cup {Null} /\ copy.ended \in Time \cup {Null}
          /\ copy.reason \in {"none", "ingest_stopped", "unclean_shutdown"}
      BY <1>0, <2>1
    <3> QED BY <1>0, <1>2, <2>1, <3>1, Written DEF SessionKept, OnlySession
  <2>3. /\ tick' \in TickType /\ tick'.pc = "idle" /\ tick'.now = Null /\ tick'.todo = {}
        /\ manager' \in ManagerType /\ Participating' = {}
    BY <1>0, <1>2, FreshTypes DEF Participating
  <2>4. OnTime' /\ Bound <= Bound'
    BY <1>0, <2>3, Later DEF InTick
  <2>5. Types'
    BY <1>0, <1>2, <2>2, <2>3 DEF Shape, Types
  <2>6. Phases'
    BY <2>3 DEF Phases
  <2>7. RecoversSession
    BY <1>0, <2>2, <2>3 DEF RecoversSession
  <2> QED BY <1>0, <1>2, <2>4, <2>5, <2>6, <2>7 DEF Shape, Grows
<1> QED BY <1>1, <1>2 DEF RecoverSession

LEMMA CrashEffect == ASSUME Shape, Crash PROVE Shape' /\ Grows /\ Forgets
<1>1. /\ tick' = Down /\ manager' = Closed /\ UNCHANGED <<sessions, rows, exists, clock>>
      /\ ingest' \in BOOLEAN /\ branches' \in [Platforms -> {"off", "live", "error"}]
      /\ used.crashes < MaxCrashes /\ InterferedWith("crashes")
  BY DEF Crash, tables
<1>2. used \in UsedType /\ used.failures \in Nat
  BY Parts, Counts
<1>3. used' \in UsedType /\ used'.failures = used.failures /\ used'.clears = used.clears
  BY <1>1, <1>2, Counts
<1> QED BY <1>1, <1>2, <1>3, ForgetEffect

LEMMA UnlinkEffect ==
  ASSUME Shape, NEW p \in Platforms, DeletePlatform(p) PROVE Shape' /\ Grows /\ Unlinks(p)
<1>0. /\ UNCHANGED <<sessions, manager, tick, ingest, branches, clock>>
      /\ used.changes < MaxChanges /\ InterferedWith("changes") /\ exists' = [exists EXCEPT ![p] = FALSE]
      /\ rows \in [Rows -> RowType] /\ used \in UsedType /\ exists \in [Platforms -> BOOLEAN]
      /\ used.failures \in Nat /\ used.clears \in Nat /\ tick \in TickType
  BY Parts, Counts DEF DeletePlatform, Shape, Types
<1>1. /\ rows' \in [Rows -> RowType] /\ Unlinks(p)
  BY <1>0, Unlinked DEF Unlinks, RowKept
<1>2. used' \in UsedType /\ used'.failures = used.failures /\ used'.clears = used.clears
  BY <1>0, Counts
<1>3. OnTime' /\ Bound <= Bound'
  BY <1>0, Later
<1>4. Types'
  BY <1>0, <1>1, <1>2 DEF Shape, Types
<1>5. Phases'
  BY <1>0 DEF Shape, Phases, Participating
<1> QED BY <1>0, <1>1, <1>2, <1>3, <1>4, <1>5 DEF Shape, Grows

\* Every step of the program has one of the effects
LEMMA StepEffect == ASSUME Shape, [Next]_vars PROVE Shape' /\ Grows /\ Effect
<1>1. CASE \/ Observe \/ ObserveBranches \/ BeginSecondLoop \/ ReconcileEnds \/ ReadFails
           \/ IngestChanges \/ Restart \/ Elapse
           \/ \E p \in Platforms : \/ SkipParticipation(p)
                                   \/ \E state \in {"off", "live", "error"} : BranchChanges(p, state)
  <2>1. Shape' /\ Grows /\ Looks
    BY <1>1, ObserveEffect, ObserveBranchesEffect, BeginSecondLoopEffect, ReconcileEndsEffect,
       ReadFailsEffect, SkipEffect, WorldEffect
  <2> QED BY <2>1 DEF Effect
<1>2. CASE OpenSession \/ Heartbeat \/ CloseSession
  BY <1>2, OpenEffect, HeartbeatEffect, CloseSessionEffect DEF Effect
<1>3. CASE Prune \/ ClearHistory
  BY <1>3, DeleteEffect DEF Effect
<1>4. CASE Recover \/ RecoverSession \/ Crash
  BY <1>4, RecoverEffect, RecoverSessionEffect, CrashEffect DEF Effect
<1>5. ASSUME NEW p \in Platforms,
             EndParticipation(p) \/ BeginParticipation(p) \/ CloseRow(p) \/ DeletePlatform(p)
      PROVE  Shape' /\ Grows /\ Effect
  BY <1>5, EndEffect, BeginEffect, CloseRowEffect, UnlinkEffect DEF Effect
<1>6. ASSUME NEW r \in Rows, RecoverRow(r) PROVE Shape' /\ Grows /\ Effect
  BY <1>6, RecoverRowEffect DEF Effect
<1>7. CASE UNCHANGED vars
  <2>1. UNCHANGED <<sessions, rows, manager, tick, ingest, branches, exists, clock, used>>
    BY <1>7 DEF vars
  <2>2. Shape'
    BY <2>1 DEF Shape, Types, Phases, OnTime, Participating, Ticking
  <2>3. Bound' = Bound
    BY <2>1 DEF Bound, Ticking
  <2>4. Grows
    BY <2>1, <2>3, Parts, Counts DEF Grows
  <2>5. Looks
    BY <2>1 DEF Looks
  <2> QED BY <2>2, <2>4, <2>5 DEF Effect
<1> QED BY <1>1, <1>2, <1>3, <1>4, <1>5, <1>6, <1>7 DEF Next, TickStep, RecoveryStep, Environment

-----------------------------------------------------------------------------
(* The tables are consistent, and their times are in the past *)

\* A row that is stored belongs to a session that is; one that is not belongs to none
ForeignKey == \A r \in Rows :
  /\ rows[r].stored => rows[r].session \in Sessions /\ sessions[rows[r].session].stored
  /\ ~rows[r].stored => rows[r].session = NoSession

Numbers ==
  /\ \A s \in Sessions : /\ sessions[s].started \in Nat /\ sessions[s].seen \in Nat
                         /\ sessions[s].ended \in Nat /\ sessions[s].stored \in BOOLEAN
  /\ \A r \in Rows : /\ rows[r].started \in Nat /\ rows[r].ended \in Nat
                     /\ rows[r].stored \in BOOLEAN
                     /\ rows[r].session \in Sessions \cup {NoSession}
                     /\ rows[r].platform \in Platforms \cup {NoPlatform}
  /\ manager.seen \in Nat /\ manager.ended \in Nat
  /\ manager.session \in Sessions \cup {NoSession}
  /\ manager.dests \in [Platforms -> Rows \cup {NoRow}]
  /\ tick.now \in Nat /\ clock \in Nat /\ clock >= 1 /\ Bound \in Nat
  /\ Null = 0 /\ GraceWindow \in Nat \ {0} /\ NoSession \notin Sessions

LEMMA AllNumbers == (Shape => Numbers) /\ (Shape' => Numbers')
<1>1. Time \cup {Null} \subseteq Nat /\ Null = 0 /\ \A n \in Time : n >= 1
  BY Constants DEF Time, Null
<1>2. Shape => Numbers
  <2> SUFFICES ASSUME Shape PROVE Numbers
    OBVIOUS
  <2>1. /\ \A s \in Sessions : sessions[s] \in SessionType
        /\ \A r \in Rows : rows[r] \in RowType
        /\ manager \in ManagerType /\ tick.now \in Time \cup {Null} /\ clock \in Time
    BY Parts
  <2> QED BY <1>1, <2>1, Constants DEF Numbers, SessionType, RowType, ManagerType, Bound
<1>3. Shape' => Numbers'
  <2> SUFFICES ASSUME Shape' PROVE Numbers'
    OBVIOUS
  <2>1. /\ \A s \in Sessions : sessions'[s] \in SessionType
        /\ \A r \in Rows : rows'[r] \in RowType
        /\ manager' \in ManagerType /\ tick'.now \in Time \cup {Null} /\ clock' \in Time
    BY DEF Shape, Types, TickType
  <2> QED BY <1>1, <2>1, Constants DEF Numbers, SessionType, RowType, ManagerType, Bound
<1> QED BY <1>2, <1>3

LEMMA ForeignKeyStep == ASSUME Shape, Shape', ForeignKey, Effect PROVE ForeignKey'
<1> USE DEF ForeignKey
<1>0. Numbers /\ NoRowStored.session = NoSession /\ ~NoRowStored.stored /\ ~NoSessionStored.stored
  BY AllNumbers DEF NoRowStored, NoSessionStored
<1>1. CASE Looks \/ Forgets
  BY <1>1 DEF Looks, Forgets
<1>2. CASE Beats \/ Finishes \/ RecoversSession
  BY <1>2 DEF Beats, Finishes, RecoversSession, SessionKept, OnlySession
<1>3. ASSUME NEW s \in Sessions, Opens(s) \/ Recovers(s) PROVE ForeignKey'
  BY <1>3 DEF Opens, Recovers, OnlySession
<1>4. ASSUME NEW p \in Platforms, Leaves(p) \/ Closes(p) \/ Unlinks(p) PROVE ForeignKey'
  BY <1>4 DEF Leaves, Closes, Unlinks, RowEnds, RowKept, OnlyRow
<1>5. ASSUME NEW p \in Platforms, NEW r \in Rows, Joins(p, r) PROVE ForeignKey'
  BY <1>5 DEF Joins, OnlyRow
<1>6. ASSUME NEW r \in Rows, RecoversRow(r) PROVE ForeignKey'
  BY <1>6 DEF RecoversRow, RowEnds, RowKept, OnlyRow
<1>7. ASSUME NEW gone \in SUBSET Sessions, Deletes(gone) PROVE ForeignKey'
  <2> SUFFICES ASSUME NEW r \in Rows
               PROVE  /\ rows'[r].stored => rows'[r].session \in Sessions /\ sessions'[rows'[r].session].stored
                      /\ ~rows'[r].stored => rows'[r].session = NoSession
    OBVIOUS
  <2> QED BY <1>0, <1>7 DEF Deletes
<1> QED BY <1>1, <1>2, <1>3, <1>4, <1>5, <1>6, <1>7 DEF Effect

Times ==
  /\ manager.session # NoSession => 1 <= manager.seen /\ manager.seen <= Bound
  /\ \A s \in Stored : /\ 1 <= sessions[s].started /\ sessions[s].started <= sessions[s].seen
                       /\ sessions[s].seen <= Bound
  /\ manager.session \in Stored => sessions[manager.session].seen <= manager.seen
  /\ \A r \in Rows : rows[r].stored => /\ 1 <= rows[r].started /\ rows[r].started <= Bound
                                       /\ rows[r].ended <= Bound

LEMMA TimesStep == ASSUME Shape, Shape', Grows, Times, Effect PROVE Times'
<1> USE DEF Times, Stored
<1>0. /\ Numbers /\ Numbers' /\ Bound <= Bound'
      /\ ~NoRowStored.stored /\ ~NoSessionStored.stored /\ Closed.session = NoSession
  BY AllNumbers DEF NoRowStored, NoSessionStored, Closed, Grows
<1>a. tick.pc \in InTick => Bound = tick.now /\ 1 <= tick.now
  BY <1>0 DEF Bound, Ticking, Shape, OnTime, Numbers
<1> USE <1>0 DEF Numbers
<1>1. CASE Looks \/ Forgets
  BY <1>1 DEF Looks, Forgets
<1>2. CASE Beats
  BY <1>2, <1>a DEF Beats, SessionKept, OnlySession, Remembered, InTick
<1>3. CASE Finishes
  BY <1>3 DEF Finishes, SessionKept, OnlySession, Remembered
<1>4. CASE RecoversSession
  BY <1>4 DEF RecoversSession, SessionKept, OnlySession
<1>5. ASSUME NEW s \in Sessions, Opens(s) \/ Recovers(s) PROVE Times'
  BY <1>5, <1>a DEF Opens, Recovers, OnlySession, Remembered, OpenSessions, InTick
<1>6. ASSUME NEW p \in Platforms, Leaves(p) \/ Closes(p) \/ Unlinks(p) PROVE Times'
  BY <1>6, <1>a DEF Leaves, Closes, Unlinks, RowEnds, RowKept, OnlyRow, Remembered, InTick,
                    Shape, Phases
<1>7. ASSUME NEW p \in Platforms, NEW r \in Rows, Joins(p, r) PROVE Times'
  BY <1>7, <1>a DEF Joins, OnlyRow, Remembered, InTick
<1>8. ASSUME NEW r \in Rows, RecoversRow(r) PROVE Times'
  BY <1>8 DEF RecoversRow, RowEnds, RowKept, OnlyRow, Shape, Phases
<1>9. ASSUME NEW gone \in SUBSET Sessions, Deletes(gone) PROVE Times'
  BY <1>9 DEF Deletes
<1> QED BY <1>1, <1>2, <1>3, <1>4, <1>5, <1>6, <1>7, <1>8, <1>9 DEF Effect

\* What a recovery is about: the rows that are left are those still to be closed
Recovery ==
  tick.pc = "recoverRows" =>
    /\ tick.todo = OpenRows(manager.session) /\ Participating = {}
    /\ manager.session \in OpenSessions
    /\ manager.seen = sessions[manager.session].seen /\ manager.ended = Null

LEMMA RecoveryKept == ASSUME Shape, Shape', Times, Recovery, Effect PROVE Recovery'
<1> USE DEF Recovery
<1>0. Numbers /\ Numbers'
  BY AllNumbers
<1>1. CASE Looks
  <2>1. CASE tick.pc = "recoverRows" /\ tick'.pc = "recoverRows"
    <3>1. UNCHANGED <<sessions, rows, manager, tick>>
      BY <1>1, <2>1 DEF Looks
    <3> QED BY <2>1, <3>1 DEF OpenRows, OpenSessions, Participating
  <2> QED BY <1>1, <2>1 DEF Looks
<1>2. CASE Forgets \/ Beats \/ Finishes \/ RecoversSession
  BY <1>2 DEF Forgets, Beats, Finishes, RecoversSession
<1>3. ASSUME NEW s \in Sessions, Recovers(s) PROVE Recovery'
  BY <1>3 DEF Recovers, Remembered, NoDests, OpenRows, OpenSessions, Participating
<1>4. ASSUME NEW p \in Platforms, Unlinks(p) PROVE Recovery'
  <2>1. UNCHANGED <<sessions, manager, tick>> /\ Participating' = Participating
    BY <1>4 DEF Unlinks, Participating
  <2>2. \A s : OpenRows(s)' = OpenRows(s)
    BY <1>4 DEF Unlinks, OpenRows, RowKept
  <2> QED BY <2>1, <2>2 DEF OpenSessions
<1>5. ASSUME NEW r \in Rows, RecoversRow(r) PROVE Recovery'
  <2> DEFINE s == manager.session
  <2>1. tick.pc = "recoverRows" /\ UNCHANGED <<sessions, manager>> /\ tick'.todo = tick.todo \ {r}
    BY <1>5 DEF RecoversRow
  <2>2. manager.seen # Null
    BY <1>0, <2>1 DEF Times, Shape, Phases, Numbers
  <2>3. OpenRows(s)' = OpenRows(s) \ {r}
    BY <1>5, <2>1, <2>2 DEF RecoversRow, RowEnds, RowKept, OnlyRow, OpenRows
  <2> QED BY <2>1, <2>3 DEF OpenSessions, Participating
<1>6. ASSUME NEW gone \in SUBSET Sessions, Deletes(gone) PROVE Recovery'
  BY <1>6 DEF Deletes
<1>7. ASSUME NEW s \in Sessions, Opens(s) PROVE Recovery'
  BY <1>7 DEF Opens
<1>8. ASSUME NEW p \in Platforms, \/ Leaves(p) \/ Closes(p)
                                  \/ \E r \in Rows : Joins(p, r)
      PROVE  Recovery'
  BY <1>8 DEF Leaves, Closes, Joins
<1> QED BY <1>1, <1>2, <1>3, <1>4, <1>5, <1>6, <1>7, <1>8 DEF Effect

-----------------------------------------------------------------------------
(* One session after the other *)

\* A session that nothing stored can have begun after
Latest(s) == s \in Stored /\ (s = manager.session \/ sessions[s].ended = Null)

Sequence ==
  /\ \A s, t \in OpenSessions : s = t
  /\ tick.pc \notin {"down", "recover"} => OpenSessions \subseteq {manager.session}
  /\ \A s, t \in Stored : Latest(s) /\ t # s => sessions[t].seen <= sessions[s].started
  /\ \A s, t \in Stored : s # t => \/ sessions[s].seen <= sessions[t].started
                                   \/ sessions[t].seen <= sessions[s].started

LEMMA SequenceStep ==
  ASSUME Shape, Shape', Grows, Times, Recovery, Sequence, Effect PROVE Sequence'
<1> USE DEF Sequence, Stored, OpenSessions, Latest
<1>0. /\ Numbers /\ Numbers' /\ Bound <= Bound'
      /\ ~NoRowStored.stored /\ ~NoSessionStored.stored /\ Closed.session = NoSession
  BY AllNumbers DEF NoRowStored, NoSessionStored, Closed, Grows
<1>a. tick.pc \in InTick => Bound = tick.now /\ 1 <= tick.now
  BY <1>0 DEF Bound, Ticking, Shape, OnTime, Numbers
<1> USE <1>0 DEF Numbers
<1>1. CASE Looks
  BY <1>1 DEF Looks
<1>2. CASE Forgets
  BY <1>2 DEF Forgets
<1>3. CASE Beats
  BY <1>3, <1>a DEF Beats, SessionKept, OnlySession, Remembered, InTick, Times
<1>4. CASE Finishes
  BY <1>4 DEF Finishes, SessionKept, OnlySession, Remembered, Shape, Phases, Times
<1>5. CASE RecoversSession
  BY <1>5 DEF RecoversSession, SessionKept, OnlySession, Recovery, Times
<1>6. ASSUME NEW s \in Sessions, Opens(s) PROVE Sequence'
  BY <1>6, <1>a DEF Opens, OnlySession, Remembered, InTick, Times, Shape, Phases
<1>7. ASSUME NEW s \in Sessions, Recovers(s) PROVE Sequence'
  BY <1>7 DEF Recovers, Remembered
<1>8. ASSUME NEW p \in Platforms, \/ Leaves(p) \/ Closes(p) \/ Unlinks(p)
                                  \/ \E r \in Rows : Joins(p, r)
      PROVE  Sequence'
  BY <1>8 DEF Leaves, Closes, Unlinks, Joins, Remembered
<1>9. ASSUME NEW r \in Rows, RecoversRow(r) PROVE Sequence'
  BY <1>9 DEF RecoversRow
<1>10. ASSUME NEW gone \in SUBSET Sessions, Deletes(gone) PROVE Sequence'
  BY <1>10 DEF Deletes
<1> QED BY <1>1, <1>2, <1>3, <1>4, <1>5, <1>6, <1>7, <1>8, <1>9, <1>10 DEF Effect

-----------------------------------------------------------------------------
(* A platform has one row at a time *)

RowOf(p) == manager.dests[p]

Participation ==
  /\ \A p, q \in Participating : RowOf(p) = RowOf(q) => p = q
  /\ tick.pc # "recoverRows" =>
       \A r \in Rows : rows[r].stored /\ rows[r].session = manager.session /\ rows[r].ended = Null
                       => \E p \in Participating : r = RowOf(p)
  /\ \A p \in Participating : rows[RowOf(p)].stored =>
       /\ rows[RowOf(p)].session = manager.session
       /\ rows[RowOf(p)].platform \in {p, NoPlatform}
       /\ \A q \in Rows : /\ rows[q].stored /\ rows[q].session = manager.session
                          /\ rows[q].platform = p /\ q # RowOf(p)
                          => RowPrecedes(q, RowOf(p))
  /\ \A q, r \in Rows :
       /\ rows[q].stored /\ rows[q].platform # NoPlatform /\ rows[r].stored /\ q # r
       /\ rows[q].session = rows[r].session /\ rows[q].platform = rows[r].platform
       => RowPrecedes(q, r) \/ RowPrecedes(r, q)

LEMMA ParticipationStep ==
  ASSUME Shape, Shape', Grows, ForeignKey, ForeignKey', Times, Recovery, Participation, Effect
  PROVE  Participation'
<1> USE DEF Participation, RowOf, RowPrecedes
<1>0. /\ Numbers /\ Numbers' /\ Bound <= Bound' /\ NoRow \notin Rows /\ NoPlatform \notin Platforms
      /\ ~NoRowStored.stored /\ ~NoSessionStored.stored /\ Closed.session = NoSession
      /\ Participating \subseteq Platforms /\ \A p \in Participating : RowOf(p) \in Rows
  BY AllNumbers, Constants DEF NoRowStored, NoSessionStored, Closed, Grows, Participating, Numbers
<1>a. tick.pc \in InTick => Bound = tick.now /\ 1 <= tick.now
  BY <1>0 DEF Bound, Ticking, Shape, OnTime, Numbers
<1> USE <1>0 DEF Numbers
<1>1. CASE Looks
  BY <1>1 DEF Looks, Participating
<1>2. CASE Forgets \/ RecoversSession
  <2>1. manager'.session = NoSession /\ Participating' = {} /\ rows' = rows
    BY <1>2, FreshTypes DEF Forgets, RecoversSession, Participating
  <2> QED BY <2>1 DEF ForeignKey
<1>3. CASE Beats
  BY <1>3 DEF Beats, Remembered, Participating
<1>4. CASE Finishes
  <2>1. CASE manager' = Closed
    <3>1. manager'.session = NoSession /\ Participating' = {} /\ rows' = rows
      BY <1>4, <2>1, FreshTypes DEF Finishes, Participating
    <3> QED BY <3>1 DEF ForeignKey
  <2>2. CASE manager' # Closed
    BY <1>4, <2>2 DEF Finishes, Remembered, Participating
  <2> QED BY <2>1, <2>2
<1>5. ASSUME NEW s \in Sessions, Opens(s) PROVE Participation'
  <2>1. manager'.session = s /\ Participating' = {} /\ rows' = rows /\ ~sessions[s].stored
    BY <1>5 DEF Opens, Remembered, NoDests, Participating
  <2> QED BY <2>1 DEF ForeignKey
<1>6. ASSUME NEW s \in Sessions, Recovers(s) PROVE Participation'
  <2>1. tick'.pc = "recoverRows" /\ Participating' = {} /\ rows' = rows
    BY <1>6 DEF Recovers, NoDests, Participating
  <2> QED BY <2>1
<1>7. ASSUME NEW p \in Platforms, Leaves(p) PROVE Participation'
  <2>1. /\ Participating' = Participating \ {p} /\ p \in Participating
        /\ \A q \in Participating' : manager'.dests[q] = manager.dests[q] /\ q \in Participating
        /\ manager'.session = manager.session /\ tick.pc # "recoverRows"
        /\ RowEnds(RowOf(p), tick.now) /\ tick.now # Null
    BY <1>7, <1>a DEF Leaves, Participating, Remembered, InTick
  <2> QED BY <2>1 DEF RowEnds, RowKept, OnlyRow
<1>8. ASSUME NEW p \in Platforms, Closes(p) PROVE Participation'
  <2>1. /\ Participating' = Participating /\ p \in Participating /\ manager' = manager
        /\ tick.pc # "recoverRows" /\ RowEnds(RowOf(p), manager.seen)
    BY <1>8 DEF Closes, Participating
  <2>2. manager.seen # Null
    BY <1>8 DEF Closes, Times, Shape, Phases
  <2> QED BY <2>1, <2>2 DEF RowEnds, RowKept, OnlyRow
<1>9. ASSUME NEW p \in Platforms, Unlinks(p) PROVE Participation'
  <2>1. Participating' = Participating /\ manager' = manager /\ tick' = tick
    BY <1>9 DEF Unlinks, Participating
  <2> QED BY <1>9, <2>1 DEF Unlinks, RowKept
<1>10. ASSUME NEW p \in Platforms, NEW r \in Rows, Joins(p, r) PROVE Participation'
  <2>1. /\ Participating' = Participating \cup {p} /\ p \notin Participating
        /\ \A q \in Participating : manager'.dests[q] = manager.dests[q] /\ manager.dests[q] # r
        /\ manager'.dests[p] = r /\ manager'.session = manager.session
        /\ tick.pc # "recoverRows" /\ ~rows[r].stored /\ OnlyRow(r)
    BY <1>10 DEF Joins, Participating, Remembered
  <2>2. /\ rows'[r].stored /\ rows'[r].session = manager.session /\ rows'[r].platform = p
        /\ rows'[r].started = tick.now /\ rows'[r].ended = Null
    BY <1>10 DEF Joins
  <2>3. \A q \in Rows : rows[q].stored /\ rows[q].session = manager.session /\ rows[q].platform = p
                        => q # r /\ rows[q].ended # Null /\ rows[q].ended <= tick.now
    BY <1>10, <1>a, <2>1 DEF Joins, InTick, Times
  <2> QED BY <2>1, <2>2, <2>3 DEF OnlyRow
<1>11. ASSUME NEW r \in Rows, RecoversRow(r) PROVE Participation'
  <2>1. /\ manager' = manager /\ Participating' = {} /\ tick'.pc = "recoverRows"
        /\ RowEnds(r, manager.seen) /\ rows[r].ended = Null
    BY <1>11 DEF RecoversRow, Recovery, Participating, OpenRows
  <2> QED BY <2>1 DEF RowEnds, RowKept, OnlyRow
<1>12. ASSUME NEW gone \in SUBSET Sessions, Deletes(gone) PROVE Participation'
  <2>1. /\ manager' = manager /\ Participating' = Participating
        /\ tick.pc # "recoverRows"
        /\ \A r \in Rows : rows'[r].stored => rows'[r] = rows[r]
    BY <1>12 DEF Deletes, Participating
  <2> QED BY <2>1
<1> QED BY <1>1, <1>2, <1>3, <1>4, <1>5, <1>6, <1>7, <1>8, <1>9, <1>10, <1>11, <1>12 DEF Effect

-----------------------------------------------------------------------------
(* While no write has failed *)

\* The copy of a session that is still stored is the session, and every row is
\* within its session, which it does not outlive
Kept ==
  WrittenToTheEnd =>
    /\ manager.session \in Stored =>
         /\ sessions[manager.session].ended = Null
         /\ sessions[manager.session].seen = manager.seen
         /\ manager.ended = Null /\ manager.reason = "none"
    /\ \A r \in Rows : rows[r].stored =>
         /\ sessions[rows[r].session].started <= rows[r].started
         /\ rows[r].started <= sessions[rows[r].session].seen
         /\ rows[r].ended # Null => /\ rows[r].started <= rows[r].ended
                                    /\ rows[r].ended <= sessions[rows[r].session].seen
    /\ tick.pc = "close" => \A p \in Participating \ tick.todo :
                              rows[RowOf(p)].stored => rows[RowOf(p)].ended # Null
    /\ \A s \in Stored : sessions[s].ended # Null =>
         /\ sessions[s].ended = sessions[s].seen
         /\ \A r \in Rows : rows[r].stored /\ rows[r].session = s => rows[r].ended # Null

LEMMA KeptStep ==
  ASSUME Shape, Shape', Grows, ForeignKey, ForeignKey', Times, Times', Recovery, Sequence,
         Participation, Kept, Effect
  PROVE  Kept'
<1> SUFFICES ASSUME WrittenToTheEnd' PROVE Kept'
  BY DEF Kept
<1> USE DEF Kept, RowOf, Stored
<1>0. /\ Numbers /\ Numbers' /\ Bound <= Bound' /\ NoRow \notin Rows /\ NoPlatform \notin Platforms
      /\ ~NoRowStored.stored /\ ~NoSessionStored.stored /\ Closed.session = NoSession
      /\ Participating \subseteq Platforms /\ \A p \in Participating : RowOf(p) \in Rows
      /\ WrittenToTheEnd /\ ~Failed
  <2>1. WrittenToTheEnd /\ ~Failed
    <3>1. used.failures \in Nat /\ used.failures <= used'.failures /\ used'.failures = 0
      BY Parts, Counts DEF Grows, WrittenToTheEnd
    <3> QED BY <3>1 DEF WrittenToTheEnd, Failed
  <2> QED BY <2>1, AllNumbers, Constants
          DEF NoRowStored, NoSessionStored, Closed, Grows, Participating, Numbers
<1>a. tick.pc \in InTick => Bound = tick.now /\ 1 <= tick.now
  BY <1>0 DEF Bound, Ticking, Shape, OnTime, Numbers
<1> USE <1>0 DEF Numbers
<1>1. CASE Looks
  BY <1>1 DEF Looks, Participating
<1>2. CASE Forgets
  BY <1>2 DEF Forgets
<1>3. CASE Beats
  <2> DEFINE s == manager.session
  <2>1. /\ s \in Sessions /\ Remembered(s, tick.now, manager.ended, manager.reason)
        /\ rows' = rows /\ tick'.pc # "close" /\ manager'.session = s
    BY <1>3 DEF Beats, Remembered
  <2>2. CASE ~sessions[s].stored
    <3>1. sessions' = sessions
      BY <1>3, <2>2 DEF Beats
    <3> QED BY <2>1, <2>2, <3>1
  <2>3. CASE sessions[s].stored
    <3>1. /\ sessions'[s].stored /\ sessions'[s].started = sessions[s].started
          /\ sessions'[s].seen = tick.now /\ sessions'[s].ended = manager.ended /\ OnlySession(s)
      BY <1>3, <2>3 DEF Beats, SessionKept
    <3>2. manager.ended = Null /\ manager.reason = "none" /\ sessions[s].seen <= tick.now
      BY <1>3, <1>a, <2>1, <2>3 DEF Beats, InTick, Times
    <3> QED BY <2>1, <2>3, <3>1, <3>2 DEF OnlySession, ForeignKey, Remembered
  <2> QED BY <2>2, <2>3
<1>4. CASE Finishes
  <2> DEFINE s == manager.session
  <2>1. CASE ~sessions[s].stored
    <3>1. /\ manager'.session = s /\ sessions' = sessions /\ rows' = rows /\ tick'.pc # "close"
      BY <1>4, <2>1 DEF Finishes, Remembered
    <3> QED BY <2>1, <3>1
  <2>2. CASE sessions[s].stored
    <3>1. /\ sessions' \in [Sessions -> SessionType] /\ s \in Sessions
          /\ sessions'[s].stored /\ sessions'[s].started = sessions[s].started
          /\ sessions'[s].seen = sessions[s].seen /\ sessions'[s].ended = sessions[s].seen
          /\ OnlySession(s) /\ rows' = rows /\ tick'.pc # "close" /\ manager'.session = NoSession
      BY <1>4, <2>2 DEF Finishes, SessionKept, Shape, Types
    <3>2. \A r \in Rows : rows[r].stored /\ rows[r].session = s => rows[r].ended # Null
      <4>1. tick.pc = "close" /\ tick.todo = {}
        BY <1>4 DEF Finishes
      <4>2. \A p \in Participating : rows[RowOf(p)].stored => rows[RowOf(p)].ended # Null
        BY <4>1
      <4> QED BY <4>1, <4>2 DEF Participation
    <3> QED BY <2>2, <3>1, <3>2 DEF OnlySession, ForeignKey
  <2> QED BY <2>1, <2>2
<1>5. CASE RecoversSession
  <2> DEFINE s == manager.session
  <2>1. /\ s \in Sessions /\ sessions[s].stored /\ manager.seen = sessions[s].seen
        /\ \A r \in Rows : rows[r].stored /\ rows[r].session = s => rows[r].ended # Null
    BY <1>5 DEF RecoversSession, Recovery, OpenSessions, OpenRows
  <2>2. /\ sessions'[s].stored /\ sessions'[s].started = sessions[s].started
        /\ sessions'[s].seen = sessions[s].seen /\ sessions'[s].ended = sessions[s].seen
        /\ OnlySession(s) /\ rows' = rows /\ tick'.pc # "close" /\ manager'.session = NoSession
    BY <1>5, <2>1 DEF RecoversSession, SessionKept
  <2> QED BY <2>1, <2>2 DEF OnlySession, ForeignKey
<1>6. ASSUME NEW s \in Sessions, Opens(s) PROVE Kept'
  <2>1. /\ ~sessions[s].stored /\ OnlySession(s) /\ sessions'[s].stored
        /\ sessions'[s].ended = Null /\ sessions'[s].seen = tick.now
        /\ Remembered(s, tick.now, Null, "none") /\ rows' = rows /\ tick'.pc # "close"
    BY <1>6 DEF Opens
  <2>2. \A r \in Rows : rows[r].stored => rows[r].session \in Sessions /\ rows[r].session # s
    BY <2>1 DEF ForeignKey
  <2> QED BY <2>1, <2>2 DEF Remembered, OnlySession
<1>7. ASSUME NEW s \in Sessions, Recovers(s) PROVE Kept'
  BY <1>7 DEF Recovers, Remembered, OpenSessions
<1>8. ASSUME NEW p \in Platforms, Leaves(p) PROVE Kept'
  <2>1. /\ tick'.pc # "close" /\ RowEnds(RowOf(p), tick.now) /\ sessions' = sessions
        /\ tick.now = manager.seen /\ RowOf(p) \in Rows /\ tick.now # Null
        /\ p \in Participating /\ rows[RowOf(p)].session = manager.session
        /\ Remembered(manager.session, manager.seen, manager.ended, manager.reason)
    BY <1>8, <1>a DEF Leaves, Shape, Phases, InTick, RowEnds, Participation
  <2> QED BY <2>1 DEF RowEnds, RowKept, OnlyRow, Remembered, ForeignKey
<1>9. ASSUME NEW p \in Platforms, Closes(p) PROVE Kept'
  <2>1. /\ RowEnds(RowOf(p), manager.seen) /\ sessions' = sessions /\ manager' = manager
        /\ manager.seen # Null /\ RowOf(p) \in Rows /\ tick'.todo = tick.todo \ {p}
        /\ tick.pc = "close" /\ Participating' = Participating
        /\ p \in Participating /\ rows[RowOf(p)].session = manager.session
    BY <1>9 DEF Closes, Times, Shape, Phases, RowEnds, Participation, Participating
  <2> QED BY <2>1 DEF RowEnds, RowKept, OnlyRow, ForeignKey, Participation
<1>10. ASSUME NEW p \in Platforms, Unlinks(p) PROVE Kept'
  BY <1>10 DEF Unlinks, RowKept, Participating
<1>11. ASSUME NEW p \in Platforms, NEW r \in Rows, Joins(p, r) PROVE Kept'
  <2>1. /\ tick'.pc # "close" /\ OnlyRow(r) /\ sessions' = sessions
        /\ Remembered(manager.session, manager.seen, manager.ended, manager.reason)
        /\ manager.session \in Stored /\ manager.seen = tick.now
        /\ rows'[r].stored /\ rows'[r].session = manager.session
        /\ rows'[r].started = tick.now /\ rows'[r].ended = Null
    BY <1>11 DEF Joins, Shape, Phases
  <2> QED BY <2>1 DEF OnlyRow, Remembered, Times
<1>12. ASSUME NEW r \in Rows, RecoversRow(r) PROVE Kept'
  <2>1. /\ RowEnds(r, manager.seen) /\ sessions' = sessions /\ manager' = manager
        /\ manager.seen # Null /\ tick'.pc # "close" /\ rows[r].session = manager.session
    BY <1>12 DEF RecoversRow, Times, Shape, Phases, Recovery, OpenRows
  <2> QED BY <2>1 DEF RowEnds, RowKept, OnlyRow, ForeignKey, Recovery, OpenSessions
<1>13. ASSUME NEW gone \in SUBSET Sessions, Deletes(gone) PROVE Kept'
  <2>1. /\ manager' = manager /\ Participating' = Participating
        /\ tick'.pc = "close" => tick' = tick
        /\ \A r \in Rows : rows'[r].stored => rows'[r] = rows[r]
                                              /\ sessions'[rows[r].session] = sessions[rows[r].session]
        /\ \A s \in Sessions : sessions'[s].stored => sessions'[s] = sessions[s]
    BY <1>13 DEF Deletes, Participating, ForeignKey
  <2> QED BY <2>1
<1> QED BY <1>1, <1>2, <1>3, <1>4, <1>5, <1>6, <1>7, <1>8, <1>9, <1>10, <1>11, <1>12, <1>13
        DEF Effect

\* What is in memory is stored, and the rows in memory are the open ones
Copied ==
  WrittenToTheEnd /\ used.clears = 0 /\ manager.session # NoSession /\ tick.pc # "recoverRows" =>
    /\ manager.session \in Stored
    /\ \A p \in Participating : /\ rows[RowOf(p)].stored
                                /\ tick.pc # "close" => rows[RowOf(p)].ended = Null

LEMMA CopiedStep ==
  ASSUME Shape, Shape', Grows, ForeignKey, ForeignKey', Times, Recovery,
         Participation, Kept, Copied, Effect
  PROVE  Copied'
<1> SUFFICES ASSUME WrittenToTheEnd', used'.clears = 0, manager'.session # NoSession,
                    tick'.pc # "recoverRows"
             PROVE  Copied'
  BY DEF Copied
<1> USE DEF Copied, RowOf, Stored
<1>0. /\ Numbers /\ Numbers' /\ NoRow \notin Rows
      /\ Closed.session = NoSession
      /\ Participating \subseteq Platforms /\ \A p \in Participating : RowOf(p) \in Rows
      /\ WrittenToTheEnd /\ ~Failed /\ used.clears = 0 /\ used'.clears = 0
  <2>1. WrittenToTheEnd /\ ~Failed /\ used.clears = 0
    <3>1. /\ used.failures \in Nat /\ used.failures <= used'.failures /\ used'.failures = 0
          /\ used.clears \in Nat /\ used.clears <= used'.clears
      BY Parts, Counts DEF Grows, WrittenToTheEnd
    <3> QED BY <3>1 DEF WrittenToTheEnd, Failed
  <2> QED BY <2>1, AllNumbers, Constants
          DEF NoRowStored, NoSessionStored, Closed, Grows, Participating, Numbers
<1> USE <1>0 DEF Numbers
<1>1. CASE Looks
  BY <1>1 DEF Looks, Participating, Missing
<1>2. CASE Forgets \/ RecoversSession
  BY <1>2 DEF Forgets, RecoversSession
<1>3. CASE Beats
  BY <1>3 DEF Beats, Remembered, Participating, SessionKept
<1>4. CASE Finishes
  BY <1>4 DEF Finishes, Remembered, Participating
<1>5. ASSUME NEW s \in Sessions, Opens(s) PROVE Copied'
  BY <1>5 DEF Opens, Remembered, NoDests, Participating
<1>6. ASSUME NEW p \in Platforms, Leaves(p) PROVE Copied'
  BY <1>6 DEF Leaves, Remembered, Participating, RowEnds, OnlyRow, Participation
<1>7. ASSUME NEW p \in Platforms, Closes(p) PROVE Copied'
  BY <1>7 DEF Closes, Participating, RowEnds, RowKept, OnlyRow
<1>8. ASSUME NEW p \in Platforms, Unlinks(p) PROVE Copied'
  BY <1>8 DEF Unlinks, RowKept, Participating
<1>9. ASSUME NEW p \in Platforms, NEW r \in Rows, Joins(p, r) PROVE Copied'
  BY <1>9 DEF Joins, Remembered, Participating, OnlyRow
<1>10. ASSUME NEW gone \in SUBSET Sessions, Deletes(gone) PROVE Copied'
  <2>1. /\ tick.pc = "prune" /\ tick'.pc = "idle" /\ manager' = manager
        /\ manager.session \notin gone /\ Participating' = Participating
    BY <1>10 DEF Deletes, Kept, Participating
  <2>2. \A p \in Participating : rows[RowOf(p)].session = manager.session
    BY <2>1 DEF Participation
  <2> QED BY <1>10, <2>1, <2>2 DEF Deletes
<1>11. CASE \/ \E s \in Sessions : Recovers(s)
            \/ \E r \in Rows : RecoversRow(r)
  BY <1>11 DEF Recovers, RecoversRow
<1> QED BY <1>1, <1>2, <1>3, <1>4, <1>5, <1>6, <1>7, <1>8, <1>9, <1>10, <1>11 DEF Effect

\* A session that ended because the ingest stopped has been over for a grace window
Split ==
  WrittenToTheEnd => \A s \in Stored : sessions[s].reason = "ingest_stopped" =>
    /\ sessions[s].seen + GraceWindow <= Bound
    /\ \A t \in Stored : t # s =>
         /\ Latest(t) => sessions[t].started >= sessions[s].seen + GraceWindow
         /\ \/ sessions[t].seen <= sessions[s].started
            \/ sessions[t].started >= sessions[s].seen + GraceWindow

LEMMA SplitStep ==
  ASSUME Shape, Shape', Grows, ForeignKey, Times, Recovery, Sequence, Kept, Split, Effect
  PROVE  Split'
<1> SUFFICES ASSUME WrittenToTheEnd' PROVE Split'
  BY DEF Split
<1> USE DEF Split, Stored, Latest
<1>0. /\ Numbers /\ Numbers' /\ Bound <= Bound'
      /\ ~NoSessionStored.stored /\ Closed.session = NoSession
      /\ WrittenToTheEnd /\ ~Failed
  <2>1. WrittenToTheEnd /\ ~Failed
    <3>1. used.failures \in Nat /\ used.failures <= used'.failures /\ used'.failures = 0
      BY Parts, Counts DEF Grows, WrittenToTheEnd
    <3> QED BY <3>1 DEF WrittenToTheEnd, Failed
  <2> QED BY <2>1, AllNumbers DEF NoSessionStored, Closed, Grows
<1>a. tick.pc \in InTick => Bound = tick.now /\ 1 <= tick.now
  BY <1>0 DEF Bound, Ticking, Shape, OnTime, Numbers
<1> USE <1>0 DEF Numbers
<1>1. CASE Looks
  BY <1>1 DEF Looks
<1>2. CASE Forgets
  BY <1>2 DEF Forgets
<1>3. CASE Beats
  <2> DEFINE s == manager.session
  <2>1. s \in Sessions /\ manager'.session = s
    BY <1>3 DEF Beats, Remembered
  <2>2. CASE ~sessions[s].stored
    <3>1. sessions' = sessions
      BY <1>3, <2>2 DEF Beats
    <3> QED BY <2>1, <2>2, <3>1
  <2>3. CASE sessions[s].stored
    <3>1. /\ sessions'[s].stored /\ sessions'[s].started = sessions[s].started
          /\ sessions'[s].seen = tick.now /\ sessions'[s].reason = "none" /\ OnlySession(s)
      BY <1>3, <2>3 DEF Beats, SessionKept, Kept
    <3> QED BY <2>1, <2>3, <3>1 DEF OnlySession
  <2> QED BY <2>2, <2>3
<1>4. CASE Finishes
  <2> DEFINE s == manager.session
  <2>1. CASE ~sessions[s].stored
    <3>1. manager'.session = s /\ sessions' = sessions
      BY <1>4, <2>1 DEF Finishes, Remembered
    <3> QED BY <2>1, <3>1
  <2>2. CASE sessions[s].stored
    <3>1. /\ s \in Sessions /\ sessions'[s].stored /\ sessions'[s].started = sessions[s].started
          /\ sessions'[s].seen = sessions[s].seen /\ sessions'[s].ended # Null
          /\ OnlySession(s) /\ manager'.session = NoSession
      <4>1. s \in Sessions /\ manager.seen # Null /\ manager.seen = sessions[s].seen
        BY <1>4, <2>2 DEF Finishes, Times, Kept
      <4> QED BY <1>4, <2>2, <4>1 DEF Finishes, SessionKept
    <3>2. sessions[s].seen + GraceWindow <= Bound
      BY <1>4, <1>a, <2>2 DEF Finishes, Kept, Shape, Phases, InTick
    <3>3. \A t \in Stored : t # s => sessions[t].seen <= sessions[s].started
                                     /\ sessions[t].ended # Null
      BY <2>2, <3>1 DEF Sequence, Kept, OpenSessions
    <3> QED BY <2>2, <3>1, <3>2, <3>3 DEF OnlySession
  <2> QED BY <2>1, <2>2
<1>5. CASE RecoversSession
  <2> DEFINE s == manager.session
  <2>1. s \in Sessions /\ sessions[s].stored /\ manager.seen = sessions[s].seen
    BY <1>5 DEF RecoversSession, Recovery, OpenSessions
  <2>2. /\ sessions'[s].stored /\ sessions'[s].started = sessions[s].started
        /\ sessions'[s].seen = sessions[s].seen /\ sessions'[s].reason = "unclean_shutdown"
        /\ OnlySession(s) /\ manager'.session = NoSession
    BY <1>5, <2>1 DEF RecoversSession, SessionKept
  <2>3. sessions'[s].ended # Null
    BY <1>5, <2>1 DEF RecoversSession, Times
  <2> QED BY <2>1, <2>2, <2>3 DEF OnlySession
<1>6. ASSUME NEW s \in Sessions, Opens(s) PROVE Split'
  BY <1>6, <1>a DEF Opens, Remembered, OnlySession, InTick, Times, Sequence, OpenSessions,
                    Shape, Phases
<1>7. ASSUME NEW s \in Sessions, Recovers(s) PROVE Split'
  BY <1>7 DEF Recovers, Remembered, OpenSessions
<1>8. ASSUME NEW p \in Platforms, \/ Leaves(p) \/ Closes(p) \/ Unlinks(p)
                                  \/ \E r \in Rows : Joins(p, r)
      PROVE  Split'
  BY <1>8 DEF Leaves, Closes, Unlinks, Joins, Remembered
<1>9. ASSUME NEW r \in Rows, RecoversRow(r) PROVE Split'
  BY <1>9 DEF RecoversRow
<1>10. ASSUME NEW gone \in SUBSET Sessions, Deletes(gone) PROVE Split'
  BY <1>10 DEF Deletes
<1> QED BY <1>1, <1>2, <1>3, <1>4, <1>5, <1>6, <1>7, <1>8, <1>9, <1>10 DEF Effect

-----------------------------------------------------------------------------
(* The theorems *)

Inv == /\ Shape /\ ForeignKey /\ Times /\ Recovery /\ Sequence /\ Participation
       /\ Kept /\ Copied /\ Split

LEMMA InitInv == Init => Inv
<1> SUFFICES ASSUME Init PROVE Inv
  OBVIOUS
<1>1. /\ sessions = [s \in Sessions |-> NoSessionStored] /\ rows = [r \in Rows |-> NoRowStored]
      /\ manager = Closed /\ tick = [Idle EXCEPT !.pc = "recover"] /\ ingest = FALSE
      /\ branches = [p \in Platforms |-> "off"] /\ exists = [p \in Platforms |-> TRUE]
      /\ clock = 1 /\ used = [changes |-> 0, failures |-> 0, crashes |-> 0, clears |-> 0]
  BY DEF Init
<1>2. /\ tick \in TickType /\ tick.pc = "recover" /\ tick.now = Null /\ tick.todo = {}
      /\ manager.session = NoSession /\ Participating = {} /\ manager \in ManagerType
  <2>1. tick.pc = "recover" /\ tick.now = Null /\ tick.todo = {}
    BY <1>1 DEF Idle
  <2> QED BY <1>1, <2>1, FreshTypes DEF Participating
<1>3. \A s \in Sessions : ~sessions[s].stored
  BY <1>1 DEF NoSessionStored
<1>4. \A r \in Rows : ~rows[r].stored /\ rows[r].session = NoSession
  BY <1>1 DEF NoRowStored
<1>5. Shape
  <2>1. used \in UsedType /\ clock \in Time
    BY <1>1, Constants DEF UsedType, Time
  <2>2. sessions \in [Sessions -> SessionType] /\ rows \in [Rows -> RowType]
    BY <1>1, FreshTypes
  <2>3. Types
    BY <1>1, <1>2, <2>1, <2>2 DEF Types
  <2>4. Phases
    BY <1>2 DEF Phases
  <2>5. OnTime
    BY <1>1, <1>2 DEF OnTime, Ticking, InTick, Null
  <2> QED BY <2>3, <2>4, <2>5 DEF Shape
<1>6. ForeignKey /\ Times /\ Recovery /\ Sequence
  BY <1>2, <1>3, <1>4 DEF ForeignKey, Times, Recovery, Sequence, Stored, OpenSessions
<1>7. Participation
  BY <1>2, <1>4 DEF Participation
<1>8. Kept /\ Copied /\ Split
  <2>1. manager.session \notin Stored
    BY <1>3 DEF Stored
  <2> QED BY <1>2, <1>3, <1>4, <2>1 DEF Kept, Copied, Split, Stored
<1> QED BY <1>5, <1>6, <1>7, <1>8 DEF Inv

LEMMA InvStep == Inv /\ [Next]_vars => Inv'
<1> SUFFICES ASSUME Inv, [Next]_vars PROVE Inv'
  OBVIOUS
<1> USE DEF Inv
<1>1. Shape' /\ Grows /\ Effect
  BY StepEffect
<1>2. ForeignKey' /\ Times' /\ Recovery'
  BY <1>1, ForeignKeyStep, TimesStep, RecoveryKept
<1>3. Sequence' /\ Participation'
  BY <1>1, <1>2, SequenceStep, ParticipationStep
<1>4. Kept' /\ Copied' /\ Split'
  BY <1>1, <1>2, KeptStep, CopiedStep, SplitStep
<1> QED BY <1>1, <1>2, <1>3, <1>4

LEMMA Invariance == Spec => []Inv
  BY InitInv, InvStep, PTL DEF Spec

\* The tables, the copies in memory, the tick and the counters keep their shape, and a
\* participation row that is stored belongs to a session that is: an end or a start is
\* written as a time of the clock, and a deletion of sessions takes their rows along.
THEOREM TypeCorrect == Spec => []TypeOK
<1>1. Inv => TypeOK
  <2> SUFFICES ASSUME Inv PROVE TypeOK
    OBVIOUS
  <2>1. Types /\ ForeignKey
    BY DEF Inv, Shape
  <2>2. /\ tick.pc \in PCs /\ tick.now \in Time \cup {Null} /\ tick.receiving \in BOOLEAN
        /\ tick.live \subseteq Platforms /\ tick.error \subseteq Platforms
    BY <2>1 DEF Types, TickType
  <2>3. \A r \in Rows : rows[r].stored => sessions[rows[r].session].stored
    BY <2>1 DEF ForeignKey
  <2> QED BY <2>1, <2>2, <2>3 DEF TypeOK, Types, SessionType, RowType, ManagerType, UsedType, PCs
<1> QED BY <1>1, Invariance, PTL

\* Of all the sessions stored, at most one is open, and of any two one was over before
\* the other began; of the rows of one platform in one session likewise.  So the writes
\* of a tick, a recovery, the history being cleared, pruned or left by a crash never
\* leave two histories of the same moment, whatever fails.
THEOREM SequentialHistory == Spec => []HistoryIsSequential
<1>1. Inv => HistoryIsSequential
  <2> SUFFICES ASSUME Inv PROVE HistoryIsSequential
    OBVIOUS
  <2>1. Cardinality(OpenSessions) <= 1
    <3>1. CASE OpenSessions = {}
      <4>1. Cardinality({}) = 0
        BY FS_EmptySet
      <4> QED BY <3>1, <4>1
    <3>2. CASE OpenSessions # {}
      <4>1. PICK s \in OpenSessions : TRUE
        BY <3>2
      <4>2. OpenSessions = {s}
        BY <4>1 DEF Inv, Sequence
      <4>3. Cardinality({s}) = 1
        BY FS_Singleton
      <4> QED BY <4>2, <4>3
    <3> QED BY <3>1, <3>2
  <2>2. \A s, t \in Stored : s # t => \/ sessions[s].seen <= sessions[t].started
                                      \/ sessions[t].seen <= sessions[s].started
    BY DEF Inv, Sequence
  <2>3. \A q, r \in {k \in Rows : rows[k].stored /\ rows[k].platform # NoPlatform} :
          q # r /\ rows[q].session = rows[r].session /\ rows[q].platform = rows[r].platform
          => RowPrecedes(q, r) \/ RowPrecedes(r, q)
    BY DEF Inv, Participation
  <2> QED BY <2>1, <2>2, <2>3 DEF HistoryIsSequential
<1> QED BY <1>1, Invariance, PTL

\* As long as no write has failed, a session that has ended did so when the ingest was
\* last seen, with all of its rows, none of which reaches beyond it: also when the
\* process did not live to do all of the writes of a close or of a recovery.
THEOREM CompleteEnds == Spec => []EndedIsComplete
<1>1. Inv => EndedIsComplete
  <2> SUFFICES ASSUME Inv, WrittenToTheEnd, NEW s \in Stored \ OpenSessions
               PROVE  /\ sessions[s].ended = sessions[s].seen
                      /\ \A r \in Rows : rows[r].session = s =>
                           /\ rows[r].ended \in sessions[s].started .. sessions[s].ended
                           /\ rows[r].started <= rows[r].ended
    BY DEF EndedIsComplete
  <2>1. s \in Sessions /\ s \in Stored /\ sessions[s].ended # Null /\ Numbers
    BY AllNumbers DEF Stored, OpenSessions, Inv
  <2>2. /\ sessions[s].ended = sessions[s].seen
        /\ \A r \in Rows : rows[r].stored /\ rows[r].session = s => rows[r].ended # Null
    BY <2>1 DEF Inv, Kept
  <2>3. \A r \in Rows : rows[r].session = s => rows[r].stored
    BY <2>1 DEF Inv, ForeignKey, Numbers
  <2>4. \A r \in Rows : rows[r].session = s =>
          /\ sessions[s].started <= rows[r].started /\ rows[r].started <= rows[r].ended
          /\ rows[r].ended <= sessions[s].seen
    BY <2>2, <2>3 DEF Inv, Kept
  <2> QED BY <2>1, <2>2, <2>4 DEF Numbers
<1> QED BY <1>1, Invariance, PTL

\* As long as no write has failed and the history was not cleared, the session in memory
\* is the one that is open in the table, with the same heartbeat, and the rows in memory
\* are the open ones, but for the moment of closing it: no prune takes them, and a
\* deleted platform only loses its name.
THEOREM MemoryIsStorage == Spec => []MemoryMatchesStorage
<1>1. Inv => MemoryMatchesStorage
  <2> SUFFICES ASSUME Inv, WrittenToTheEnd, used.clears = 0, manager.session # NoSession,
                      tick.pc # "recoverRows"
               PROVE  /\ manager.session \in OpenSessions
                      /\ sessions[manager.session].seen = manager.seen
                      /\ tick.pc # "close" => OpenRows(manager.session)
                                              = {manager.dests[p] : p \in Participating}
    BY DEF MemoryMatchesStorage
  <2>1. /\ manager.session \in Stored
        /\ \A p \in Participating : /\ rows[RowOf(p)].stored
                                    /\ tick.pc # "close" => rows[RowOf(p)].ended = Null
    BY DEF Inv, Copied
  <2>2. manager.session \in OpenSessions /\ sessions[manager.session].seen = manager.seen
    BY <2>1 DEF Inv, Kept, OpenSessions, Stored
  <2>3. \A p \in Participating : RowOf(p) \in Rows
    BY AllNumbers DEF Inv, Numbers, RowOf, Participating
  <2>4. ASSUME tick.pc # "close"
        PROVE  OpenRows(manager.session) = {manager.dests[p] : p \in Participating}
    <3>1. \A p \in Participating : RowOf(p) \in OpenRows(manager.session)
      BY <2>1, <2>3, <2>4 DEF Inv, Participation, OpenRows
    <3>2. \A r \in OpenRows(manager.session) : \E p \in Participating : r = RowOf(p)
      BY DEF Inv, Participation, OpenRows
    <3> QED BY <3>1, <3>2 DEF RowOf
  <2> QED BY <2>2, <2>4
<1> QED BY <1>1, Invariance, PTL

\* As long as no write has failed, a reconnection within the grace window does not split
\* a session: after one that ended because the ingest stopped, any other that is later
\* began a grace window after it was last seen.
THEOREM NoEarlySplit == Spec => []SplitOnlyAfterGrace
<1>1. Inv => SplitOnlyAfterGrace
  BY DEF Inv, Split, SplitOnlyAfterGrace
<1> QED BY <1>1, Invariance, PTL
=============================================================================
