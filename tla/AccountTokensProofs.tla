------------------------ MODULE AccountTokensProofs ------------------------
(***************************************************************************)
(* Proofs about AccountTokens, for every number of accounts, callers,      *)
(* tokens, failures and crashes.                                           *)
(***************************************************************************)
EXTENDS AccountTokens, SequenceTheorems, TLAPS

-----------------------------------------------------------------------------
(* Types *)

Ops   == {"none", "call", "validate", "connect", "reconnect", "disconnect"}
Calls == [op : Ops, pc : PCs, id : Ids \cup {NoId}, token : Nat]

ProcType == /\ proc \in [Procs -> Calls]
            /\ \A p \in Procs : proc[p].op # "none" => proc[p].id \in Ids

FlightType == flight \in [Ids -> [state : {"none", "open", "done"}, answer : Nat]]

StoreType == /\ row \in Ids \cup {NoId} /\ bundle \in [Ids -> Nat] /\ parent \in Seq(Nat)
             /\ stored \subseteq Nat /\ replayed \subseteq Nat

TypeInv == ProcType /\ FlightType /\ StoreType

\* Call p becomes what is said, and no other call changes
Moved(p, op, pc, id, token) ==
  /\ proc' \in [Procs -> Calls]
  /\ \A q \in Procs : q # p => proc'[q] = proc[q]
  /\ proc'[p].op = op /\ proc'[p].pc = pc /\ proc'[p].id = id /\ proc'[p].token = token

LEMMA Moves ==
  ASSUME ProcType, NEW p \in Procs
  PROVE  /\ \A pc \in PCs : Goto(p, pc) => Moved(p, proc[p].op, pc, proc[p].id, proc[p].token)
         /\ \A pc \in PCs, n \in Nat :
              GotoWith(p, pc, n) => Moved(p, proc[p].op, pc, proc[p].id, n)
         /\ End(p) => Moved(p, "none", "idle", NoId, 0)
         /\ \A op \in Ops, pc \in PCs, id \in Ids, n \in Nat :
              Enter(p, op, pc, id, n) => Moved(p, op, pc, id, n)
<1>0. proc \in [Procs -> Calls] /\ proc[p] \in Calls
  BY DEF ProcType
<1>1. ASSUME NEW r \in Calls, proc' = [proc EXCEPT ![p] = r]
      PROVE  Moved(p, r.op, r.pc, r.id, r.token)
  BY <1>0, <1>1 DEF Moved
<1>2. ASSUME NEW pc \in PCs, Goto(p, pc)
      PROVE  Moved(p, proc[p].op, pc, proc[p].id, proc[p].token)
  <2> DEFINE r == [proc[p] EXCEPT !.pc = pc]
  <2>1. r \in Calls /\ r.op = proc[p].op /\ r.pc = pc /\ r.id = proc[p].id /\ r.token = proc[p].token
    BY <1>0 DEF Calls
  <2>2. proc' = [proc EXCEPT ![p] = r]
    BY <1>2 DEF Goto
  <2> HIDE DEF r
  <2>3. Moved(p, r.op, r.pc, r.id, r.token)
    BY <1>1, <2>1, <2>2
  <2> QED BY <2>1, <2>3
<1>3. ASSUME NEW pc \in PCs, NEW n \in Nat, GotoWith(p, pc, n)
      PROVE  Moved(p, proc[p].op, pc, proc[p].id, n)
  <2> DEFINE r == [proc[p] EXCEPT !.pc = pc, !.token = n]
  <2>1. r \in Calls /\ r.op = proc[p].op /\ r.pc = pc /\ r.id = proc[p].id /\ r.token = n
    BY <1>0 DEF Calls
  <2>2. proc' = [proc EXCEPT ![p] = r]
    BY <1>0, <1>3 DEF GotoWith
  <2> HIDE DEF r
  <2>3. Moved(p, r.op, r.pc, r.id, r.token)
    BY <1>1, <2>1, <2>2
  <2> QED BY <2>1, <2>3
<1>4. End(p) => Moved(p, "none", "idle", NoId, 0)
  <2>1. Idle \in Calls
    BY DEF Idle, Calls, Ops, PCs
  <2>2. Idle.op = "none" /\ Idle.pc = "idle" /\ Idle.id = NoId /\ Idle.token = 0
    BY DEF Idle
  <2>3. End(p) => Moved(p, Idle.op, Idle.pc, Idle.id, Idle.token)
    BY <1>1, <2>1 DEF End
  <2> QED BY <2>2, <2>3
<1>5. ASSUME NEW op \in Ops, NEW pc \in PCs, NEW id \in Ids, NEW n \in Nat, Enter(p, op, pc, id, n)
      PROVE  Moved(p, op, pc, id, n)
  <2> DEFINE r == [op |-> op, pc |-> pc, id |-> id, token |-> n]
  <2>1. r \in Calls /\ r.op = op /\ r.pc = pc /\ r.id = id /\ r.token = n
    BY DEF Calls
  <2>2. proc' = [proc EXCEPT ![p] = r]
    BY <1>5 DEF Enter
  <2> HIDE DEF r
  <2>3. Moved(p, r.op, r.pc, r.id, r.token)
    BY <1>1, <2>1, <2>2
  <2> QED BY <2>1, <2>3
<1> QED BY <1>2, <1>3, <1>4, <1>5

\* Where a call goes on
After(answer) == IF answer = Failed THEN "reconnect" ELSE "use again"

LEMMA AnsweredCall ==
  ASSUME NEW r \in Calls, NEW answer \in Nat
  PROVE  /\ Answered(r, answer) \in Calls
         /\ Answered(r, answer).op = r.op /\ Answered(r, answer).id = r.id
         /\ Answered(r, answer).pc = After(answer) /\ Answered(r, answer).token = answer
<1>1. "reconnect" \in PCs /\ "use again" \in PCs
  BY DEF PCs
<1> QED BY <1>1 DEF Calls, Answered, After, Failed

LEMMA AnswerMoves ==
  ASSUME ProcType, NEW p \in Procs, NEW answer \in Nat,
         proc' = [proc EXCEPT ![p] = Answered(@, answer)]
  PROVE  Moved(p, proc[p].op, After(answer), proc[p].id, answer)
<1> DEFINE r == Answered(proc[p], answer)
<1>0. proc \in [Procs -> Calls] /\ proc[p] \in Calls
  BY DEF ProcType
<1>1. /\ r \in Calls /\ r.op = proc[p].op /\ r.id = proc[p].id
      /\ r.pc = After(answer) /\ r.token = answer
  BY <1>0, AnsweredCall
<1>2. proc' = [proc EXCEPT ![p] = r]
  OBVIOUS
<1> HIDE DEF r
<1> QED BY <1>0, <1>1, <1>2 DEF Moved

\* A call is of an account
LEMMA OfAccount ==
  ASSUME ProcType, NEW p \in Procs, NEW ops, NEW pc, At(p, ops, pc), "none" \notin ops
  PROVE  proc[p].id \in Ids /\ proc[p].op # "none" /\ proc[p].op \in Ops
  BY DEF ProcType, At, Calls

LEMMA MovedType ==
  ASSUME ProcType, NEW p \in Procs, NEW op, NEW pc, NEW id, NEW token,
         Moved(p, op, pc, id, token), op # "none" => id \in Ids
  PROVE  ProcType'
  BY DEF ProcType, Moved

LEMMA PublishMoves ==
  ASSUME TypeInv, NEW p \in Procs, Publish(p)
  PROVE  /\ ProcType'
         /\ \A q \in Procs : proc'[q].op = proc[q].op /\ proc'[q].id = proc[q].id
         /\ \A q \in Procs : q # p => proc'[q] = proc[q] \/ proc'[q].pc \in {"reconnect", "use again"}
         /\ proc'[p].pc = "leave" /\ proc'[p].token = proc[p].token
<1> DEFINE id == proc[p].id  answer == proc[p].token  left == [proc[p] EXCEPT !.pc = "leave"]
<1>0. /\ proc \in [Procs -> Calls] /\ \A q \in Procs : proc[q] \in Calls
      /\ \A q \in Procs : proc[q].op # "none" => proc[q].id \in Ids
  BY DEF TypeInv, ProcType
<1>1. answer \in Nat
  BY <1>0 DEF Calls
<1>2. /\ left \in Calls /\ left.op = proc[p].op /\ left.pc = "leave"
      /\ left.id = proc[p].id /\ left.token = proc[p].token
  BY <1>0 DEF Calls, PCs
<1>3. \A q \in Procs :
        /\ Answered(proc[q], answer) \in Calls
        /\ Answered(proc[q], answer).op = proc[q].op /\ Answered(proc[q], answer).id = proc[q].id
        /\ Answered(proc[q], answer).pc \in {"reconnect", "use again"}
  BY <1>0, <1>1, AnsweredCall DEF After
<1>4. p \notin Woken(id, answer)
  BY DEF Publish, At, Woken
<1>5. proc' = [q \in Procs |-> IF q \in Woken(id, answer) THEN Answered(proc[q], answer)
                               ELSE IF q = p THEN left ELSE proc[q]]
  BY DEF Publish
<1> HIDE DEF left, answer, id
<1>6. proc' \in [Procs -> Calls]
  BY <1>0, <1>2, <1>3, <1>5
<1>7. \A q \in Procs : proc'[q].op = proc[q].op /\ proc'[q].id = proc[q].id
  BY <1>2, <1>3, <1>5
<1>8. \A q \in Procs : q # p => proc'[q] = proc[q] \/ proc'[q].pc \in {"reconnect", "use again"}
  BY <1>3, <1>5
<1>9. proc'[p] = left
  BY <1>4, <1>5
<1> QED BY <1>0, <1>2, <1>6, <1>7, <1>8, <1>9 DEF ProcType

-----------------------------------------------------------------------------
(* Every step keeps the types *)

LEMMA UseType ==
  ASSUME TypeInv, NEW p \in Procs,
         \/ BeginCall(p) \/ BeginValidate(p) \/ Load(p) \/ Use(p) \/ UseAgain(p) \/ Mark(p)
  PROVE  ProcType'
<1> USE DEF TypeInv
<1>0. /\ proc \in [Procs -> Calls] /\ proc[p] \in Calls /\ 0 \in Nat
      /\ row # NoId => row \in Ids
      /\ \A id \in Ids : bundle[id] \in Nat
      /\ {"load", "use", "use again", "connected", "reconnect", "refresh"} \subseteq PCs
      /\ {"call", "validate"} \subseteq Ops
  BY DEF ProcType, StoreType, PCs, Ops
<1>1. CASE BeginCall(p) \/ BeginValidate(p)
  <2>1. PICK op \in Ops : Enter(p, op, "load", row, 0) /\ row \in Ids
    BY <1>0, <1>1 DEF BeginCall, BeginValidate
  <2>2. Moved(p, op, "load", row, 0)
    BY <1>0, <2>1, Moves
  <2> QED BY <2>1, <2>2, MovedType
<1>2. CASE Load(p) \/ Use(p) \/ UseAgain(p) \/ Mark(p)
  <2>1. proc[p].id \in Ids /\ proc[p].op # "none"
    BY <1>2, OfAccount DEF Load, Use, UseAgain, Mark, At, Users
  <2>2. End(p) \/ \E pc \in PCs, n \in Nat : GotoWith(p, pc, n)
    BY <1>0, <1>2, <2>1 DEF Load, Use, UseAgain, Mark
  <2>3. Moved(p, "none", "idle", NoId, 0) \/ \E pc \in PCs, n \in Nat : Moved(p, proc[p].op, pc, proc[p].id, n)
    BY <2>2, Moves
  <2> QED BY <2>1, <2>3, MovedType
<1> QED BY <1>1, <1>2

LEMMA RefreshProcType ==
  ASSUME TypeInv, NEW p \in Procs,
         \/ Refresh(p) \/ Reload(p) \/ Present(p) \/ StoreFresh(p) \/ Publish(p) \/ Leave(p)
  PROVE  ProcType'
<1> USE DEF TypeInv
<1>0. /\ proc \in [Procs -> Calls] /\ proc[p] \in Calls /\ proc[p].token \in Nat
      /\ Failed \in Nat /\ Issued + 1 \in Nat
      /\ \A id \in Ids : bundle[id] \in Nat
      /\ {"wait", "reload", "present", "publish", "store"} \subseteq PCs
  <2>1. proc \in [Procs -> Calls] /\ proc[p] \in Calls /\ proc[p].token \in Nat
    BY DEF ProcType, Calls
  <2>2. Failed \in Nat /\ Issued + 1 \in Nat /\ \A id \in Ids : bundle[id] \in Nat
    BY DEF StoreType, Failed, Issued
  <2>3. {"wait", "reload", "present", "publish", "store"} \subseteq PCs
    BY DEF PCs
  <2> QED BY <2>1, <2>2, <2>3
<1>1. CASE Publish(p)
  BY <1>1, PublishMoves
<1>2. CASE Refresh(p) \/ Reload(p) \/ Present(p) \/ StoreFresh(p) \/ Leave(p)
  <2>1. proc[p].id \in Ids /\ proc[p].op # "none"
    BY <1>2, OfAccount DEF Refresh, Reload, Present, StoreFresh, Leave, Users
  <2>2. flight[proc[p].id].answer \in Nat
    BY <2>1 DEF FlightType
  <2>3. \/ \E pc \in PCs : Goto(p, pc)
        \/ \E pc \in PCs, n \in Nat : GotoWith(p, pc, n)
        \/ \E answer \in Nat : proc' = [proc EXCEPT ![p] = Answered(@, answer)]
    <3>1. CASE Refresh(p)
      BY <1>0, <2>2, <3>1 DEF Refresh
    <3>2. CASE Reload(p) \/ Present(p)
      BY <1>0, <2>1, <3>2 DEF Reload, Present
    <3>3. CASE StoreFresh(p)
      BY <1>0, <3>3 DEF StoreFresh
    <3>4. CASE Leave(p)
      <4>1. proc' = [proc EXCEPT ![p] = Answered(@, proc[p].token)]
        BY <1>0, <3>4 DEF Leave
      <4> QED BY <1>0, <4>1
    <3> QED BY <1>2, <3>1, <3>2, <3>3, <3>4
  <2>4. \E pc, n : Moved(p, proc[p].op, pc, proc[p].id, n)
    BY <2>3, Moves, AnswerMoves
  <2> QED BY <2>1, <2>4, MovedType
<1> QED BY <1>1, <1>2

LEMMA ConnectProcType ==
  ASSUME TypeInv, NEW p \in Procs,
         \/ BeginConnect(p) \/ StoreConnected(p) \/ WriteRow(p) \/ Undo(p)
         \/ BeginDisconnect(p) \/ LoadOld(p) \/ Revoke(p) \/ DeleteBundle(p) \/ DropRow(p)
  PROVE  ProcType'
<1> USE DEF TypeInv
<1>0. /\ proc \in [Procs -> Calls] /\ proc[p] \in Calls /\ proc[p].token \in Nat
      /\ Issued + 1 \in Nat /\ 0 \in Nat
      /\ row # NoId => row \in Ids
      /\ \A id \in Ids : bundle[id] \in Nat
      /\ {"store", "row", "undo", "load", "revoke", "delete", "drop"} \subseteq PCs
      /\ {"connect", "reconnect", "disconnect"} \subseteq Ops
  <2>1. proc \in [Procs -> Calls] /\ proc[p] \in Calls /\ proc[p].token \in Nat
    BY DEF ProcType, Calls
  <2>2. Issued + 1 \in Nat /\ (row # NoId => row \in Ids) /\ \A id \in Ids : bundle[id] \in Nat
    BY DEF StoreType, Issued
  <2>3. /\ {"store", "row", "undo", "load", "revoke", "delete", "drop"} \subseteq PCs
        /\ {"connect", "reconnect", "disconnect"} \subseteq Ops
    BY DEF PCs, Ops
  <2> QED BY <2>1, <2>2, <2>3
<1>1. CASE BeginConnect(p) \/ BeginDisconnect(p)
  <2>1. Ids \ used # {} => NewId \in Ids
    BY DEF NewId
  <2>2. PICK op \in Ops, pc \in PCs, id \in Ids, n \in Nat : Enter(p, op, pc, id, n)
    BY <1>0, <1>1, <2>1 DEF BeginConnect, BeginDisconnect
  <2>3. Moved(p, op, pc, id, n)
    BY <2>2, Moves
  <2> QED BY <2>3, MovedType
<1>2. CASE \/ StoreConnected(p) \/ WriteRow(p) \/ Undo(p)
           \/ LoadOld(p) \/ Revoke(p) \/ DeleteBundle(p) \/ DropRow(p)
  <2>1. proc[p].id \in Ids /\ proc[p].op # "none"
    BY <1>2, OfAccount DEF StoreConnected, WriteRow, Undo, LoadOld, Revoke, DeleteBundle, DropRow, At
  <2>2. \/ End(p) \/ \E pc \in PCs : Goto(p, pc)
        \/ \E pc \in PCs, n \in Nat : GotoWith(p, pc, n)
    BY <1>0, <1>2, <2>1
       DEF StoreConnected, Refused, WriteRow, Undo, LoadOld, Revoke, DeleteBundle, DropRow
  <2>3. \/ Moved(p, "none", "idle", NoId, 0)
        \/ \E pc, n : Moved(p, proc[p].op, pc, proc[p].id, n)
    BY <2>2, Moves
  <2> QED BY <2>1, <2>3, MovedType
<1> QED BY <1>1, <1>2

LEMMA FlightTypeStep ==
  ASSUME TypeInv, Next PROVE FlightType'
<1> USE DEF TypeInv
<1>0. NoCall \in [state : {"none", "open", "done"}, answer : Nat]
  BY DEF NoCall
<1>1. CASE UNCHANGED flight
  BY <1>1 DEF FlightType
<1>2. ASSUME NEW p \in Procs, Refresh(p) \/ Publish(p) \/ Leave(p) PROVE FlightType'
  <2>1. proc[p].token \in Nat
    BY DEF ProcType, Calls
  <2> QED BY <1>0, <1>2, <2>1 DEF FlightType, Refresh, Publish, Leave, Removed
<1>3. CASE Crash
  BY <1>0, <1>3 DEF Crash, FlightType
<1> QED
  BY <1>1, <1>2, <1>3
     DEF Next, Begin, GoesOn, BeginCall, BeginValidate, BeginConnect, BeginDisconnect, Load, Use,
         UseAgain, Mark, Reload, Present, StoreFresh, StoreConnected, WriteRow, Undo, LoadOld,
         Revoke, DeleteBundle, DropRow

LEMMA StoreTypeStep ==
  ASSUME TypeInv, Next PROVE StoreType'
<1> USE DEF TypeInv
<1>1. CASE UNCHANGED <<row, bundle, parent, stored, replayed>>
  BY <1>1 DEF StoreType
<1>2. ASSUME NEW p \in Procs, Present(p) PROVE StoreType'
  <2>1. proc[p].token \in Nat
    BY DEF ProcType, Calls
  <2>2. /\ parent' = parent \/ parent' = Append(parent, proc[p].token)
        /\ replayed' \subseteq replayed \cup {proc[p].token}
        /\ UNCHANGED <<row, bundle, stored>>
    BY <1>2 DEF Present, Issue, durable
  <2>3. parent \in Seq(Nat) => Append(parent, proc[p].token) \in Seq(Nat)
    BY <2>1
  <2> QED BY <2>1, <2>2, <2>3 DEF StoreType
<1>3. ASSUME NEW p \in Procs, StoreFresh(p) \/ StoreConnected(p) PROVE StoreType'
  <2>1. proc[p].token \in Nat
    BY DEF ProcType, Calls
  <2> QED BY <1>3, <2>1 DEF StoreType, StoreFresh, StoreConnected, Store, provider
<1>4. ASSUME NEW p \in Procs, BeginConnect(p) PROVE StoreType'
  BY <1>4 DEF StoreType, BeginConnect, Issue, history
<1>5. ASSUME NEW p \in Procs, WriteRow(p) PROVE StoreType'
  <2>1. proc[p].id \in Ids \cup {NoId}
    BY DEF ProcType, Calls
  <2> QED BY <1>5, <2>1 DEF StoreType, WriteRow, provider, history
<1>6. ASSUME NEW p \in Procs, Undo(p) \/ DeleteBundle(p) PROVE StoreType'
  <2>1. /\ bundle' = bundle \/ bundle' = [bundle EXCEPT ![proc[p].id] = 0]
        /\ UNCHANGED <<row, parent, stored, replayed>>
    BY <1>6 DEF Undo, DeleteBundle, provider, history
  <2> QED BY <2>1 DEF StoreType
<1>7. ASSUME NEW p \in Procs, DropRow(p) PROVE StoreType'
  BY <1>7 DEF StoreType, DropRow, provider, history
<1> QED
  BY <1>1, <1>2, <1>3, <1>4, <1>5, <1>6, <1>7
     DEF Next, Begin, GoesOn, BeginCall, BeginValidate, BeginDisconnect, Load, Use, UseAgain, Mark,
         Refresh, Reload, Publish, Leave, LoadOld, Revoke, Crash, durable, provider, history

LEMMA TypeStep ==
  ASSUME TypeInv, [Next]_vars PROVE TypeInv'
<1>1. CASE UNCHANGED vars
  BY <1>1 DEF vars, durable, provider, history, TypeInv, ProcType, FlightType, StoreType
<1>2. CASE Next
  <2>1. CASE Crash
    <3>1. Idle \in Calls /\ Idle.op = "none"
      BY DEF Idle, Calls, Ops, PCs
    <3>2. ProcType'
      BY <2>1, <3>1 DEF Crash, ProcType
    <3> QED BY <1>2, <3>2, FlightTypeStep, StoreTypeStep DEF TypeInv
  <2>2. CASE \E p \in Procs : Begin(p) \/ GoesOn(p)
    <3>1. ProcType'
      BY <2>2, UseType, RefreshProcType, ConnectProcType DEF Begin, GoesOn
    <3> QED BY <1>2, <3>1, FlightTypeStep, StoreTypeStep DEF TypeInv
  <2> QED BY <1>2, <2>1, <2>2 DEF Next
<1> QED BY <1>1, <1>2

-----------------------------------------------------------------------------
(* A refresh token is spent once: what is known of the bundles *)

LeaderPCs == {"reload", "present", "store", "publish", "leave"}

\* Call p makes the refresh that others may wait for
Leads(p) == proc[p].op \in Users /\ proc[p].pc \in LeaderPCs

\* Call p is about to present the refresh token of its bundle, or to store its bundle
Presents(p) == proc[p].pc = "present"
Holds(p)    == proc[p].pc = "store"

\* One refresh of an account at a time
OneLeader ==
  \A p \in Procs :
    /\ Leads(p) => flight[proc[p].id].state # "none"
    /\ Presents(p) => Leads(p)
    /\ \A q \in Procs : Leads(p) /\ Leads(q) /\ proc[p].id = proc[q].id => p = q

\* A bundle in use has been stored, and one about to be stored has not
Known ==
  /\ stored \subseteq 1 .. Issued /\ Spent \subseteq stored
  /\ \A id \in Ids : bundle[id] # 0 => bundle[id] \in stored
  /\ \A p \in Procs :
       /\ Presents(p) => proc[p].token \in stored
       /\ Holds(p) => proc[p].token \in 1 .. Issued /\ proc[p].token \notin stored
       /\ \A q \in Procs : Holds(p) /\ Holds(q) /\ proc[p].token = proc[q].token => p = q

\* A bundle is of one account
OneAccount ==
  /\ \A id, other \in Ids : bundle[id] # 0 /\ bundle[id] = bundle[other] => id = other
  /\ \A p \in Procs : Presents(p) =>
       /\ \A id \in Ids : bundle[id] = proc[p].token => id = proc[p].id
       /\ \A q \in Procs : Presents(q) /\ proc[q].token = proc[p].token => proc[q].id = proc[p].id

\* Once the successor of a bundle is stored, the bundle is gone
Rotated ==
  \A m \in stored : parent[m] # 0 =>
    /\ \A id \in Ids : bundle[id] # parent[m]
    /\ \A p \in Procs : Presents(p) => proc[p].token # parent[m]

\* Until then only the account of the refresh has it, and nobody else presents it
Rotating ==
  \A q \in Procs : Holds(q) /\ parent[proc[q].token] # 0 =>
    /\ Leads(q)
    /\ \A id \in Ids : bundle[id] = parent[proc[q].token] => id = proc[q].id
    /\ \A p \in Procs : Presents(p) => proc[p].token # parent[proc[q].token]

\* What was presented twice has no successor, and will have none
Lost ==
  \A n \in replayed :
    /\ n \in Spent
    /\ \A m \in stored : parent[m] # n
    /\ \A q \in Procs : Holds(q) => parent[proc[q].token] # n

RotationInv == Known /\ OneAccount /\ Rotated /\ Rotating /\ Lost

LEMMA SpentFacts ==
  ASSUME parent \in Seq(Nat)
  PROVE  /\ Issued \in Nat
         /\ \A m \in 1 .. Issued : parent[m] \in Nat /\ (parent[m] # 0 => parent[m] \in Spent)
         /\ 0 \notin Spent
  BY DEF Issued, Spent, Range

LEMMA IssueFacts ==
  ASSUME parent \in Seq(Nat), NEW old \in Nat, parent' = Append(parent, old)
  PROVE  /\ Issued' = Issued + 1 /\ parent'[Issued + 1] = old
         /\ \A m \in 1 .. Issued : parent'[m] = parent[m]
         /\ Spent' = Spent \cup ({old} \ {0})
<1>1. /\ Issued \in Nat /\ Issued' = Issued + 1 /\ parent'[Issued + 1] = old
      /\ \A m \in 1 .. Issued : parent'[m] = parent[m]
  BY DEF Issued
<1>2. DOMAIN parent = 1 .. Issued /\ DOMAIN parent' = 1 .. Issued + 1
  BY <1>1 DEF Issued
<1>3. 1 .. Issued + 1 = 1 .. Issued \cup {Issued + 1}
  BY <1>1
<1>4. Range(parent)' = Range(parent) \cup {old}
  BY <1>1, <1>2, <1>3 DEF Range
<1> QED BY <1>1, <1>4 DEF Spent

\* No successor is held that was not, and none is stored
LEMMA CalmKeeps ==
  ASSUME TypeInv, RotationInv, UNCHANGED stored,
         Issued' \in Nat, Issued <= Issued', \A m \in 1 .. Issued : parent'[m] = parent[m],
         Spent \subseteq Spent', Spent' \subseteq stored,
         \A id \in Ids : bundle'[id] = bundle[id] \/ bundle'[id] = 0,
         \A p \in Procs : Presents(p)' \/ Holds(p)' => proc'[p] = proc[p],
         \A n \in replayed' :
           n \in replayed \/ (n \in Spent /\ \E p \in Procs : Presents(p) /\ proc[p].token = n)
  PROVE  RotationInv'
<1>0. /\ Issued \in Nat /\ 0 \notin Spent /\ stored \subseteq 1 .. Issued
      /\ \A m \in 1 .. Issued : parent[m] # 0 => parent[m] \in Spent
  BY SpentFacts DEF TypeInv, StoreType, RotationInv, Known
<1>1. \A p \in Procs : /\ Presents(p)' => Presents(p) /\ proc'[p] = proc[p]
                       /\ Holds(p)' => Holds(p) /\ proc'[p] = proc[p] /\ (Leads(p) => Leads(p)')
  BY DEF Presents, Holds, Leads
<1>2. \A p \in Procs : Holds(p)' => proc[p].token \in 1 .. Issued
  BY <1>1 DEF RotationInv, Known
<1>3. Known'
  BY <1>0, <1>1 DEF RotationInv, Known
<1>4. OneAccount'
  <2>1. \A p \in Procs : Presents(p) => proc[p].token # 0
    BY <1>0 DEF RotationInv, Known
  <2> QED BY <1>1, <2>1 DEF RotationInv, OneAccount
<1>5. Rotated'
  BY <1>0, <1>1 DEF RotationInv, Rotated
<1>6. Rotating'
  <2>1. \A q \in Procs : Holds(q)' => parent'[proc'[q].token] = parent[proc[q].token]
    BY <1>1, <1>2
  <2> QED BY <1>1, <2>1 DEF RotationInv, Rotating
<1>7. Lost'
  <2>1. \A q \in Procs : Holds(q)' => Holds(q) /\ parent'[proc'[q].token] = parent[proc[q].token]
    BY <1>1, <1>2
  <2>2. ASSUME NEW n \in replayed' PROVE n \in Spent'
    BY <2>2 DEF RotationInv, Lost
  <2>3. ASSUME NEW n \in replayed', NEW m \in stored' PROVE parent'[m] # n
    BY <1>0, <2>3 DEF RotationInv, Lost, Rotated
  <2>4. ASSUME NEW n \in replayed', NEW q \in Procs, Holds(q)' PROVE parent[proc[q].token] # n
    BY <1>0, <2>1, <2>4 DEF RotationInv, Lost, Rotating
  <2> QED BY <2>1, <2>2, <2>3, <2>4 DEF Lost
<1> QED BY <1>3, <1>4, <1>5, <1>6, <1>7 DEF RotationInv

\* Call p gets a new bundle, of a new authorisation or for a bundle it presented
LEMMA IssueKeeps ==
  ASSUME TypeInv, RotationInv, OneLeader, NEW p \in Procs, NEW old \in Nat,
         parent' = Append(parent, old), UNCHANGED <<stored, bundle, replayed>>,
         \A q \in Procs : q # p => proc'[q] = proc[q],
         Holds(p)', proc'[p].token = Issued + 1,
         old # 0 => /\ Presents(p) /\ proc[p].token = old /\ old \notin Spent
                    /\ Leads(p)' /\ proc'[p].id = proc[p].id
  PROVE  RotationInv'
<1>0. /\ Issued \in Nat /\ 0 \notin Spent /\ stored \subseteq 1 .. Issued /\ Spent \subseteq stored
      /\ \A m \in 1 .. Issued : parent[m] # 0 => parent[m] \in Spent
  BY SpentFacts DEF TypeInv, StoreType, RotationInv, Known
<1>1. /\ Issued' = Issued + 1 /\ parent'[Issued + 1] = old /\ Spent' = Spent \cup ({old} \ {0})
      /\ \A m \in 1 .. Issued : parent'[m] = parent[m]
  BY IssueFacts DEF TypeInv, StoreType
<1>2. ~Presents(p)' /\ proc'[p].token \notin stored
  BY <1>0 DEF Presents, Holds
<1>3. \A q \in Procs : /\ Presents(q)' => q # p /\ Presents(q) /\ proc'[q] = proc[q]
                       /\ Holds(q)' /\ q # p => Holds(q) /\ proc'[q] = proc[q] /\ (Leads(q) => Leads(q)')
  BY <1>2 DEF Presents, Holds, Leads
<1>4. \A q \in Procs : Holds(q)' /\ q # p =>
        proc[q].token \in 1 .. Issued /\ parent'[proc'[q].token] = parent[proc[q].token]
  BY <1>1, <1>3 DEF RotationInv, Known
<1>5. Known'
  <2>1. stored' \subseteq 1 .. Issued' /\ Spent' \subseteq stored'
    BY <1>0, <1>1 DEF RotationInv, Known
  <2>2. \A q \in Procs : Holds(q)' =>
          proc'[q].token \in 1 .. Issued' /\ proc'[q].token \notin stored'
    BY <1>0, <1>1, <1>3, <1>4 DEF RotationInv, Known
  <2>3. \A q, r \in Procs : Holds(q)' /\ Holds(r)' /\ proc'[q].token = proc'[r].token => q = r
    BY <1>0, <1>3, <1>4 DEF RotationInv, Known
  <2>4. \A q \in Procs : Presents(q)' => proc'[q].token \in stored'
    BY <1>3 DEF RotationInv, Known
  <2> QED BY <2>1, <2>2, <2>3, <2>4 DEF RotationInv, Known
<1>6. OneAccount'
  BY <1>3 DEF RotationInv, OneAccount
<1>7. Rotated'
  <2>1. \A m \in stored : parent'[m] = parent[m]
    BY <1>0, <1>1
  <2>2. Rotated /\ stored' = stored /\ bundle' = bundle
    BY DEF RotationInv
  <2>3. \A q \in Procs : Presents(q)' => Presents(q) /\ proc'[q].token = proc[q].token
    BY <1>3
  <2>4. ASSUME NEW m \in stored', parent'[m] # 0
        PROVE  /\ \A id \in Ids : bundle'[id] # parent'[m]
               /\ \A q \in Procs : Presents(q)' => proc'[q].token # parent'[m]
    <3>1. m \in stored /\ parent[m] # 0 /\ parent'[m] = parent[m]
      BY <2>1, <2>2, <2>4
    <3>2. /\ \A id \in Ids : bundle[id] # parent[m]
          /\ \A q \in Procs : Presents(q) => proc[q].token # parent[m]
      BY <2>2, <3>1 DEF Rotated
    <3> QED BY <2>2, <2>3, <3>1, <3>2
  <2> QED BY <2>4 DEF Rotated
<1>8. Rotating'
  <2>1. ASSUME old # 0 PROVE \A q \in Procs : Presents(q)' => proc'[q].token # old
    BY <1>3, <2>1 DEF RotationInv, OneAccount, OneLeader
  <2>2. ASSUME old # 0 PROVE \A id \in Ids : bundle'[id] = old => id = proc'[p].id
    BY <2>2 DEF RotationInv, OneAccount
  <2>3. parent'[proc'[p].token] = old
    BY <1>1
  <2>4. ASSUME NEW q \in Procs, q # p, Holds(q)', parent'[proc'[q].token] # 0
        PROVE  /\ Leads(q)'
               /\ \A id \in Ids : bundle'[id] = parent'[proc'[q].token] => id = proc'[q].id
               /\ \A r \in Procs : Presents(r)' => proc'[r].token # parent'[proc'[q].token]
    <3> DEFINE k == parent[proc[q].token]
    <3>1. Holds(q) /\ proc'[q] = proc[q] /\ (Leads(q) => Leads(q)') /\ parent'[proc'[q].token] = k
      BY <1>3, <1>4, <2>4
    <3>2. /\ Leads(q)
          /\ \A id \in Ids : bundle[id] = k => id = proc[q].id
          /\ \A r \in Procs : Presents(r) => proc[r].token # k
      BY <2>4, <3>1 DEF RotationInv, Rotating
    <3> HIDE DEF k
    <3> QED BY <1>3, <3>1, <3>2
  <2>5. ASSUME NEW q \in Procs, Holds(q)', parent'[proc'[q].token] # 0
        PROVE  /\ Leads(q)'
               /\ \A id \in Ids : bundle'[id] = parent'[proc'[q].token] => id = proc'[q].id
               /\ \A r \in Procs : Presents(r)' => proc'[r].token # parent'[proc'[q].token]
    <3>1. CASE q = p
      <4>1. old # 0
        BY <2>3, <2>5, <3>1
      <4>2. Leads(q)'
        BY <3>1, <4>1
      <4> QED BY <2>1, <2>2, <2>3, <3>1, <4>1, <4>2
    <3>2. CASE q # p
      BY <2>4, <2>5, <3>2
    <3> QED BY <3>1, <3>2
  <2> QED BY <2>5 DEF Rotating
<1>9. Lost'
  <2>1. ASSUME NEW n \in replayed PROVE n \in Spent' /\ n # old
    BY <1>0, <1>1, <2>1 DEF RotationInv, Lost
  <2>2. ASSUME NEW n \in replayed, NEW m \in stored PROVE parent'[m] # n
    BY <1>0, <1>1, <2>2 DEF RotationInv, Lost
  <2>3. ASSUME NEW n \in replayed, NEW q \in Procs, Holds(q)' PROVE parent'[proc'[q].token] # n
    <3>1. CASE q = p
      BY <1>1, <2>1, <3>1
    <3>2. CASE q # p
      <4>1. Holds(q) /\ parent'[proc'[q].token] = parent[proc[q].token]
        BY <1>3, <1>4, <2>3, <3>2
      <4> QED BY <4>1 DEF RotationInv, Lost
    <3> QED BY <3>1, <3>2
  <2> QED BY <2>1, <2>2, <2>3 DEF Lost
<1> QED BY <1>5, <1>6, <1>7, <1>8, <1>9 DEF RotationInv

\* Call p stores its bundle
LEMMA StoreKeeps ==
  ASSUME TypeInv, RotationInv, OneLeader, NEW p \in Procs, Holds(p), proc[p].id \in Ids,
         bundle' = [bundle EXCEPT ![proc[p].id] = proc[p].token],
         stored' = stored \cup {proc[p].token}, UNCHANGED <<parent, replayed>>,
         \A q \in Procs : q # p => proc'[q] = proc[q],
         ~Holds(p)', ~Presents(p)'
  PROVE  RotationInv'
<1> DEFINE new == proc[p].token
<1>0. /\ Issued \in Nat /\ 0 \notin Spent /\ stored \subseteq 1 .. Issued /\ Spent \subseteq stored
      /\ \A m \in 1 .. Issued : parent[m] # 0 => parent[m] \in Spent
      /\ UNCHANGED <<Issued, Spent>>
  BY SpentFacts DEF TypeInv, StoreType, RotationInv, Known, Issued, Spent
<1>1. /\ new \in 1 .. Issued /\ new \notin stored
      /\ bundle'[proc[p].id] = new /\ \A id \in Ids : id # proc[p].id => bundle'[id] = bundle[id]
  BY DEF RotationInv, Known, TypeInv, StoreType
<1>2. \A q \in Procs : /\ Presents(q)' => Presents(q) /\ proc'[q] = proc[q] /\ proc[q].token \in stored
                       /\ Holds(q)' => q # p /\ Holds(q) /\ proc'[q] = proc[q] /\ (Leads(q) => Leads(q)')
  BY DEF Presents, Holds, Leads, RotationInv, Known
<1>3. \A q \in Procs : Holds(q)' => proc[q].token \in 1 .. Issued /\ proc[q].token # new
  BY <1>2 DEF RotationInv, Known
<1> HIDE DEF new
<1>4. Known'
  <2>1. stored' \subseteq 1 .. Issued' /\ Spent' \subseteq stored'
    BY <1>0, <1>1 DEF new
  <2>2. \A id \in Ids : bundle'[id] # 0 => bundle'[id] \in stored'
    BY <1>1 DEF RotationInv, Known, new
  <2>3. \A q \in Procs : /\ Presents(q)' => proc'[q].token \in stored'
                         /\ Holds(q)' => proc'[q].token \in 1 .. Issued' /\ proc'[q].token \notin stored'
    BY <1>0, <1>2, <1>3 DEF RotationInv, Known, new
  <2>4. \A q, r \in Procs : Holds(q)' /\ Holds(r)' /\ proc'[q].token = proc'[r].token => q = r
    BY <1>2 DEF RotationInv, Known
  <2> QED BY <2>1, <2>2, <2>3, <2>4 DEF Known
<1>5. OneAccount'
  <2>1. \A id, other \in Ids : bundle'[id] # 0 /\ bundle'[id] = bundle'[other] => id = other
    BY <1>1 DEF RotationInv, Known, OneAccount
  <2>2. \A q \in Procs : Presents(q)' =>
          \A id \in Ids : bundle'[id] = proc'[q].token => id = proc'[q].id
    BY <1>1, <1>2 DEF RotationInv, OneAccount
  <2>3. \A q, r \in Procs : Presents(q)' /\ Presents(r)' /\ proc'[r].token = proc'[q].token =>
          proc'[r].id = proc'[q].id
    BY <1>2 DEF RotationInv, OneAccount
  <2> QED BY <2>1, <2>2, <2>3 DEF OneAccount
<1>6. Rotated'
  <2>1. ASSUME NEW m \in stored, parent[m] # 0
        PROVE  /\ \A id \in Ids : bundle'[id] # parent[m]
               /\ \A q \in Procs : Presents(q)' => proc'[q].token # parent[m]
    BY <1>0, <1>1, <1>2, <2>1 DEF RotationInv, Rotated
  <2>2. ASSUME parent[new] # 0
        PROVE  /\ \A id \in Ids : bundle'[id] # parent[new]
               /\ \A q \in Procs : Presents(q)' => proc'[q].token # parent[new]
    BY <1>0, <1>1, <1>2, <2>2 DEF RotationInv, Rotating, new
  <2> QED BY <2>1, <2>2 DEF Rotated, new
<1>7. Rotating'
  <2>1. ASSUME NEW q \in Procs, Holds(q)', parent[proc[q].token] # 0
        PROVE  /\ Leads(q)'
               /\ \A id \in Ids : bundle'[id] = parent[proc[q].token] => id = proc[q].id
               /\ \A r \in Procs : Presents(r)' => proc'[r].token # parent[proc[q].token]
    <3>1. parent[proc[q].token] # new
      BY <1>0, <1>1, <1>3, <2>1
    <3> QED BY <1>1, <1>2, <2>1, <3>1 DEF RotationInv, Rotating
  <2> QED BY <1>2, <2>1 DEF Rotating
<1>8. Lost'
  <2>1. ASSUME NEW n \in replayed PROVE n \in Spent' /\ \A m \in stored' : parent[m] # n
    BY <1>0, <2>1 DEF RotationInv, Lost
  <2> QED BY <1>2, <2>1 DEF RotationInv, Lost
<1> QED BY <1>4, <1>5, <1>6, <1>7, <1>8 DEF RotationInv

\* Call p is about to present the refresh token of the bundle of its account
LEMMA ReloadKeeps ==
  ASSUME TypeInv, RotationInv, OneLeader, NEW p \in Procs, Leads(p), ~Holds(p), proc[p].id \in Ids,
         bundle[proc[p].id] # 0, UNCHANGED <<bundle, stored, parent, replayed>>,
         \A q \in Procs : q # p => proc'[q] = proc[q],
         ~Holds(p)', proc'[p].token = bundle[proc[p].id], proc'[p].id = proc[p].id
  PROVE  RotationInv'
<1> DEFINE n == bundle[proc[p].id]
<1>0. UNCHANGED <<Issued, Spent>> /\ n \in stored
  BY DEF Issued, Spent, RotationInv, Known
<1>1. \A q \in Procs : /\ Presents(q)' /\ q # p => Presents(q) /\ proc'[q] = proc[q]
                       /\ Holds(q)' => q # p /\ Holds(q) /\ proc'[q] = proc[q] /\ (Leads(q) => Leads(q)')
  BY DEF Presents, Holds, Leads
<1> HIDE DEF n
<1>2. Known'
  BY <1>0, <1>1 DEF RotationInv, Known, n
<1>3. OneAccount'
  <2>1. \A id \in Ids : bundle[id] = n => id = proc[p].id
    BY DEF RotationInv, OneAccount, n
  <2>2. \A q \in Procs : Presents(q) /\ proc[q].token = n => proc[q].id = proc[p].id
    BY DEF RotationInv, OneAccount, n
  <2>3. proc'[p].token = n /\ proc'[p].id = proc[p].id
    BY DEF n
  <2> QED BY <1>1, <2>1, <2>2, <2>3 DEF RotationInv, OneAccount
<1>4. Rotated'
  BY <1>1 DEF RotationInv, Rotated
<1>5. Rotating'
  <2>1. ASSUME NEW q \in Procs, Holds(q)', parent[proc[q].token] # 0
        PROVE  /\ Leads(q)'
               /\ \A id \in Ids : bundle'[id] = parent[proc[q].token] => id = proc[q].id
               /\ \A r \in Procs : Presents(r)' => proc'[r].token # parent[proc[q].token]
    <3>1. Leads(q) /\ proc[q].id # proc[p].id
      BY <1>1, <2>1 DEF RotationInv, Rotating, OneLeader
    <3>2. n # parent[proc[q].token]
      BY <1>1, <2>1, <3>1 DEF RotationInv, Rotating, n
    <3> QED BY <1>1, <2>1, <3>1, <3>2 DEF RotationInv, Rotating, n
  <2> QED BY <1>1, <2>1 DEF Rotating
<1>6. Lost'
  BY <1>0, <1>1 DEF RotationInv, Lost
<1> QED BY <1>2, <1>3, <1>4, <1>5, <1>6 DEF RotationInv

-----------------------------------------------------------------------------
(* The steps *)

Asides == PCs \ LeaderPCs

\* A step of call p that has nothing to do with a refresh, or with storing a bundle
Apart(p) ==
  /\ \E op, pc, id, token : Moved(p, op, pc, id, token) /\ pc \in Asides
  /\ UNCHANGED <<flight, parent, stored, replayed>>
  /\ \A id \in Ids : bundle'[id] = bundle[id] \/ bundle'[id] = 0

LEMMA UseApart ==
  ASSUME TypeInv, NEW p \in Procs,
         \/ BeginCall(p) \/ BeginValidate(p) \/ Load(p) \/ Use(p) \/ UseAgain(p) \/ Mark(p)
  PROVE  Apart(p)
<1>0. /\ ProcType /\ (row # NoId => row \in Ids)
      /\ \A id \in Ids : bundle[id] \in Nat
      /\ {"idle", "load", "use", "use again", "connected", "reconnect", "refresh"} \subseteq Asides
      /\ {"call", "validate"} \subseteq Ops /\ Asides \subseteq PCs /\ 0 \in Nat
  BY DEF TypeInv, StoreType, Asides, LeaderPCs, PCs, Ops
<1>1. UNCHANGED <<flight, parent, stored, replayed, bundle>>
  BY DEF BeginCall, BeginValidate, Load, Use, UseAgain, Mark, durable, provider, history
<1>2. CASE BeginCall(p) \/ BeginValidate(p)
  <2>1. PICK op \in Ops : Enter(p, op, "load", row, 0) /\ row \in Ids
    BY <1>0, <1>2 DEF BeginCall, BeginValidate
  <2>2. Moved(p, op, "load", row, 0)
    BY <1>0, <2>1, Moves
  <2> QED BY <1>0, <1>1, <2>2 DEF Apart
<1>3. CASE Load(p) \/ Use(p) \/ UseAgain(p) \/ Mark(p)
  <2>1. proc[p].id \in Ids
    BY <1>0, <1>3, OfAccount DEF Load, Use, UseAgain, Mark, At, Users
  <2>2. End(p) \/ \E pc \in Asides, n \in Nat : GotoWith(p, pc, n)
    BY <1>0, <1>3, <2>1 DEF Load, Use, UseAgain, Mark
  <2>3. \/ Moved(p, "none", "idle", NoId, 0)
        \/ \E pc \in Asides : \E n : Moved(p, proc[p].op, pc, proc[p].id, n)
    BY <1>0, <2>2, Moves
  <2> QED BY <1>0, <1>1, <2>3 DEF Apart
<1> QED BY <1>2, <1>3

LEMMA ConnectApart ==
  ASSUME TypeInv, NEW p \in Procs,
         \/ WriteRow(p) \/ Undo(p)
         \/ BeginDisconnect(p) \/ LoadOld(p) \/ Revoke(p) \/ DeleteBundle(p) \/ DropRow(p)
  PROVE  Apart(p)
<1>0. /\ ProcType /\ (row # NoId => row \in Ids) /\ bundle \in [Ids -> Nat]
      /\ {"idle", "load", "undo", "revoke", "delete", "drop"} \subseteq Asides
      /\ "disconnect" \in Ops /\ Asides \subseteq PCs /\ 0 \in Nat
  BY DEF TypeInv, StoreType, Asides, LeaderPCs, PCs, Ops
<1>1. /\ UNCHANGED <<flight, parent, stored, replayed>>
      /\ bundle' = bundle \/ bundle' = [bundle EXCEPT ![proc[p].id] = 0]
  BY DEF WriteRow, Undo, BeginDisconnect, LoadOld, Revoke, DeleteBundle, DropRow,
         durable, provider, history
<1>2. \A id \in Ids : bundle'[id] = bundle[id] \/ bundle'[id] = 0
  BY <1>0, <1>1
<1>3. CASE BeginDisconnect(p)
  <2>1. Moved(p, "disconnect", "load", row, 0)
    BY <1>0, <1>3, Moves DEF BeginDisconnect
  <2> QED BY <1>0, <1>1, <1>2, <2>1 DEF Apart
<1>4. CASE WriteRow(p) \/ Undo(p) \/ LoadOld(p) \/ Revoke(p) \/ DeleteBundle(p) \/ DropRow(p)
  <2>1. proc[p].id \in Ids
    BY <1>0, <1>4, OfAccount DEF WriteRow, Undo, LoadOld, Revoke, DeleteBundle, DropRow, At
  <2>2. \/ End(p) \/ \E pc \in Asides : Goto(p, pc)
        \/ \E pc \in Asides, n \in Nat : GotoWith(p, pc, n)
    BY <1>0, <1>4, <2>1 DEF WriteRow, Undo, LoadOld, Revoke, DeleteBundle, DropRow
  <2>3. \/ Moved(p, "none", "idle", NoId, 0)
        \/ \E pc \in Asides : \E n : Moved(p, proc[p].op, pc, proc[p].id, n)
    BY <1>0, <2>2, Moves
  <2> QED BY <1>0, <1>1, <1>2, <2>3 DEF Apart
<1> QED BY <1>3, <1>4

\* Who leads a refresh led it before, and the table still has it
LEMMA FollowsKeeps ==
  ASSUME OneLeader,
         \A p \in Procs : Leads(p)' => /\ Leads(p) /\ proc'[p].id = proc[p].id
                                       /\ flight'[proc[p].id].state # "none",
         \A p \in Procs : Presents(p)' => Leads(p)'
  PROVE  OneLeader'
  BY DEF OneLeader

LEMMA AsideKeeps ==
  ASSUME OneLeader, NEW p \in Procs, NEW op, NEW pc, NEW id, NEW token,
         Moved(p, op, pc, id, token), UNCHANGED flight,
         pc \in Asides \/ (op \notin Users /\ pc = "store")
  PROVE  OneLeader'
<1>1. \A q \in Procs : q # p => proc'[q] = proc[q]
  BY DEF Moved
<1>2. ~Leads(p)' /\ ~Presents(p)'
  BY DEF Moved, Leads, Presents, Asides, LeaderPCs
<1>3. \A q \in Procs : q # p => /\ Leads(q)' => Leads(q) /\ proc'[q].id = proc[q].id
                                /\ Presents(q)' => Presents(q) /\ (Leads(q) => Leads(q)')
  BY <1>1 DEF Leads, Presents
<1> QED BY <1>2, <1>3, FollowsKeeps DEF OneLeader

LEMMA LeaderStep ==
  ASSUME TypeInv, OneLeader, NEW p \in Procs, Leads(p), UNCHANGED flight,
         NEW pc, NEW n, Moved(p, proc[p].op, pc, proc[p].id, n)
  PROVE  OneLeader'
<1>1. \A q \in Procs : q # p => proc'[q] = proc[q]
  BY DEF Moved
<1>2. proc'[p].id = proc[p].id /\ (Presents(p)' => Leads(p)')
  BY DEF Moved, Leads, Presents, LeaderPCs
<1>3. \A q \in Procs : q # p => /\ Leads(q)' => Leads(q) /\ proc'[q].id = proc[q].id
                                /\ Presents(q)' => Presents(q) /\ (Leads(q) => Leads(q)')
  BY <1>1 DEF Leads, Presents
<1> QED BY <1>2, <1>3, FollowsKeeps DEF OneLeader

LEMMA RefreshKeepsLeader ==
  ASSUME TypeInv, OneLeader, NEW p \in Procs, Refresh(p)
  PROVE  OneLeader'
<1> DEFINE id == proc[p].id
<1>0. /\ ProcType /\ FlightType /\ id \in Ids /\ proc[p].op \in Users
      /\ {"wait", "reconnect", "use again"} \subseteq Asides
      /\ {"wait", "reload"} \subseteq PCs
  <2>1. ProcType /\ FlightType /\ {"wait", "reconnect", "use again"} \subseteq Asides
        /\ {"wait", "reload"} \subseteq PCs
    BY DEF TypeInv, Asides, PCs, LeaderPCs
  <2>2. At(p, Users, "refresh") /\ "none" \notin Users
    BY DEF Refresh, Users
  <2> QED BY <2>1, <2>2, OfAccount DEF At
<1>1. CASE Goto(p, "wait") /\ UNCHANGED flight
  <2>1. Moved(p, proc[p].op, "wait", id, proc[p].token)
    BY <1>0, <1>1, Moves
  <2> QED BY <1>0, <1>1, <2>1, AsideKeeps
<1>2. CASE proc' = [proc EXCEPT ![p] = Answered(@, flight[id].answer)] /\ UNCHANGED flight
  <2>1. flight[id].answer \in Nat
    BY <1>0 DEF FlightType
  <2>2. Moved(p, proc[p].op, After(flight[id].answer), id, flight[id].answer)
    BY <1>0, <1>2, <2>1, AnswerMoves
  <2>3. After(flight[id].answer) \in Asides
    BY <1>0 DEF After
  <2> QED BY <1>2, <2>2, <2>3, AsideKeeps
<1>3. CASE /\ ~Joins(id) /\ Goto(p, "reload")
           /\ flight' = [flight EXCEPT ![id] = [state |-> "open", answer |-> 0]]
  <2>1. Moved(p, proc[p].op, "reload", id, proc[p].token)
    BY <1>0, <1>3, Moves
  <2>2. /\ flight'[id].state = "open"
        /\ \A other \in Ids : other # id => flight'[other] = flight[other]
    BY <1>0, <1>3 DEF FlightType
  <2>3. \A q \in Procs : Leads(q) => proc[q].id # id
    BY <1>3 DEF OneLeader, Joins
  <2>4. \A q \in Procs : Leads(q) => proc[q].id \in Ids
    BY <1>0 DEF Leads, ProcType, Users
  <2>5. proc'[p].id = id /\ ~Presents(p)'
    BY <2>1 DEF Moved, Presents
  <2>6. \A q \in Procs : q # p => /\ Leads(q)' => Leads(q) /\ proc'[q].id = proc[q].id
                                  /\ Presents(q)' => Presents(q) /\ (Leads(q) => Leads(q)')
    BY <2>1 DEF Moved, Leads, Presents
  <2>7. \A q \in Procs : q # p /\ Leads(q)' => /\ proc'[q].id # id
                                              /\ flight'[proc'[q].id].state # "none"
    BY <2>2, <2>3, <2>4, <2>6 DEF OneLeader
  <2> HIDE DEF id
  <2> QED BY <2>2, <2>5, <2>6, <2>7 DEF OneLeader
<1> QED BY <1>1, <1>2, <1>3 DEF Refresh

LEMMA PublishKeepsLeader ==
  ASSUME TypeInv, OneLeader, NEW p \in Procs, Publish(p)
  PROVE  OneLeader' /\ \A q \in Procs : Presents(q)' \/ Holds(q)' => proc'[q] = proc[q]
<1>0. /\ ProcType /\ FlightType /\ Leads(p)
      /\ \A q \in Procs : proc'[q].op = proc[q].op /\ proc'[q].id = proc[q].id
      /\ \A q \in Procs : q # p => proc'[q] = proc[q] \/ proc'[q].pc \in {"reconnect", "use again"}
      /\ proc'[p].pc = "leave"
  BY PublishMoves DEF TypeInv, Publish, At, Leads, LeaderPCs
<1>1. \A q \in Procs : /\ Leads(q)' => Leads(q)
                       /\ Presents(q)' \/ Holds(q)' => proc'[q] = proc[q]
  BY <1>0 DEF Leads, Presents, Holds, LeaderPCs
<1>2. \A q \in Procs : Leads(q) => proc[q].id \in Ids
  BY <1>0 DEF Leads, ProcType, Users
<1>3. \A id \in Ids : flight[id].state # "none" => flight'[id].state # "none"
  BY <1>0, <1>2 DEF Publish, FlightType
<1>4. \A q \in Procs : Leads(q)' => /\ Leads(q) /\ proc'[q].id = proc[q].id
                                    /\ flight'[proc[q].id].state # "none"
  BY <1>0, <1>1, <1>2, <1>3 DEF OneLeader
<1>5. \A q \in Procs : Presents(q)' => Leads(q)'
  BY <1>1 DEF OneLeader, Presents, Leads
<1> QED BY <1>1, <1>4, <1>5, FollowsKeeps

LEMMA LeaveKeepsLeader ==
  ASSUME TypeInv, OneLeader, NEW p \in Procs, Leave(p)
  PROVE  OneLeader' /\ \A q \in Procs : Presents(q)' \/ Holds(q)' => proc'[q] = proc[q]
<1>0. /\ ProcType /\ FlightType /\ Leads(p) /\ proc[p].token \in Nat
      /\ {"reconnect", "use again"} \subseteq Asides
  BY DEF TypeInv, ProcType, Calls, Leave, At, Leads, LeaderPCs, Asides, PCs
<1>1. Moved(p, proc[p].op, After(proc[p].token), proc[p].id, proc[p].token)
  <2>1. proc' = [proc EXCEPT ![p] = Answered(@, proc[p].token)]
    BY <1>0 DEF Leave, ProcType
  <2> QED BY <1>0, <2>1, AnswerMoves
<1>2. proc'[p].pc \in Asides
  BY <1>0, <1>1 DEF Moved, After
<1>3. \A q \in Procs : /\ Leads(q)' => q # p /\ Leads(q) /\ proc'[q].id = proc[q].id
                       /\ Presents(q)' => q # p /\ Presents(q) /\ (Leads(q) => Leads(q)')
                       /\ Presents(q)' \/ Holds(q)' => proc'[q] = proc[q]
  BY <1>1, <1>2 DEF Moved, Leads, Presents, Holds, LeaderPCs, Asides
<1>4. \A q \in Procs : Leads(q) => proc[q].id \in Ids
  BY <1>0 DEF Leads, ProcType, Users
<1>5. \A id \in Ids : id # proc[p].id => flight'[id] = flight[id]
  BY <1>0, <1>4 DEF Leave, Removed, FlightType
<1>6. \A q \in Procs : Leads(q)' => /\ Leads(q) /\ proc'[q].id = proc[q].id
                                    /\ flight'[proc[q].id].state # "none"
  BY <1>0, <1>3, <1>4, <1>5 DEF OneLeader
<1> QED BY <1>3, <1>6, FollowsKeeps DEF OneLeader

\* Nothing is issued, and nothing stored
LEMMA UnchangedKeeps ==
  ASSUME TypeInv, RotationInv, UNCHANGED <<parent, stored>>,
         \A id \in Ids : bundle'[id] = bundle[id] \/ bundle'[id] = 0,
         \A p \in Procs : Presents(p)' \/ Holds(p)' => proc'[p] = proc[p],
         \A n \in replayed' :
           n \in replayed \/ (n \in Spent /\ \E p \in Procs : Presents(p) /\ proc[p].token = n)
  PROVE  RotationInv'
<1>1. UNCHANGED <<Issued, Spent>> /\ Issued \in Nat /\ Spent \subseteq stored
  BY SpentFacts DEF Issued, Spent, TypeInv, StoreType, RotationInv, Known
<1> QED BY <1>1, CalmKeeps

LEMMA MovedAside ==
  ASSUME NEW p \in Procs, NEW op, NEW pc, NEW id, NEW token, Moved(p, op, pc, id, token),
         pc # "present" /\ pc # "store"
  PROVE  \A q \in Procs : Presents(q)' \/ Holds(q)' => proc'[q] = proc[q]
  BY DEF Moved, Presents, Holds

LEMMA ApartKeeps ==
  ASSUME TypeInv, OneLeader, RotationInv, NEW p \in Procs, Apart(p)
  PROVE  OneLeader' /\ RotationInv'
<1>1. PICK op, pc, id, token : Moved(p, op, pc, id, token) /\ pc \in Asides
  BY DEF Apart
<1>2. OneLeader'
  BY <1>1, AsideKeeps DEF Apart
<1>3. pc # "present" /\ pc # "store"
  BY <1>1 DEF Asides, LeaderPCs
<1>4. RotationInv'
  BY <1>1, <1>3, MovedAside, UnchangedKeeps DEF Apart
<1> QED BY <1>2, <1>4

\* Joining, publishing and leaving a refresh
LEMMA TableKeeps ==
  ASSUME TypeInv, OneLeader, RotationInv, NEW p \in Procs, Refresh(p) \/ Publish(p) \/ Leave(p)
  PROVE  OneLeader' /\ RotationInv'
<1>1. UNCHANGED <<parent, stored, replayed, bundle>>
  BY DEF Refresh, Publish, Leave, durable, provider, history
<1>2. OneLeader' /\ \A q \in Procs : Presents(q)' \/ Holds(q)' => proc'[q] = proc[q]
  <2>1. CASE Publish(p) \/ Leave(p)
    BY <2>1, PublishKeepsLeader, LeaveKeepsLeader
  <2>2. CASE Refresh(p)
    <3>1. PICK pc \in {"wait", "reload", "reconnect", "use again"}, n \in Nat :
            Moved(p, proc[p].op, pc, proc[p].id, n)
      <4>1. ProcType /\ FlightType /\ {"wait", "reload"} \subseteq PCs /\ proc[p].token \in Nat
        BY DEF TypeInv, ProcType, Calls, PCs
      <4>2. proc[p].id \in Ids
        BY <2>2, <4>1, OfAccount DEF Refresh, Users
      <4>3. flight[proc[p].id].answer \in Nat
        BY <4>1, <4>2 DEF FlightType
      <4> QED BY <2>2, <4>1, <4>3, Moves, AnswerMoves DEF Refresh, After
    <3> QED BY <2>2, <3>1, MovedAside, RefreshKeepsLeader
  <2> QED BY <2>1, <2>2
<1> QED BY <1>1, <1>2, UnchangedKeeps

LEMMA ReloadStep ==
  ASSUME TypeInv, OneLeader, RotationInv, NEW p \in Procs, Reload(p)
  PROVE  OneLeader' /\ RotationInv'
<1>0. /\ ProcType /\ proc[p].id \in Ids /\ Leads(p) /\ ~Holds(p) /\ Failed \in Nat
      /\ bundle[proc[p].id] \in Nat /\ {"present", "publish"} \subseteq PCs
  <2>1. At(p, Users, "reload") /\ "none" \notin Users /\ ProcType
    BY DEF Reload, Users, TypeInv
  <2>2. proc[p].id \in Ids
    BY <2>1, OfAccount
  <2> QED BY <2>1, <2>2 DEF TypeInv, StoreType, Failed, PCs, At, Leads, LeaderPCs, Holds
<1>1. UNCHANGED <<parent, stored, replayed, bundle, flight>>
  BY DEF Reload, durable, provider, history
<1>2. CASE GotoWith(p, "publish", Failed)
  <2>1. Moved(p, proc[p].op, "publish", proc[p].id, Failed)
    BY <1>0, <1>2, Moves
  <2> QED BY <1>0, <1>1, <2>1, LeaderStep, MovedAside, UnchangedKeeps
<1>3. CASE bundle[proc[p].id] # 0 /\ GotoWith(p, "present", bundle[proc[p].id])
  <2>1. Moved(p, proc[p].op, "present", proc[p].id, bundle[proc[p].id])
    BY <1>0, <1>3, Moves
  <2>2. OneLeader'
    BY <1>0, <1>1, <2>1, LeaderStep
  <2>3. RotationInv'
    BY <1>0, <1>1, <1>3, <2>1, ReloadKeeps DEF Moved, Holds
  <2> QED BY <2>2, <2>3
<1> QED BY <1>2, <1>3 DEF Reload

LEMMA PresentStep ==
  ASSUME TypeInv, OneLeader, RotationInv, NEW p \in Procs, Present(p)
  PROVE  OneLeader' /\ RotationInv'
<1> DEFINE n == proc[p].token
<1>0. /\ ProcType /\ parent \in Seq(Nat) /\ proc[p].op \in Users
      /\ Presents(p) /\ Leads(p) /\ n \in Nat /\ Failed \in Nat
      /\ Issued \in Nat /\ Issued + 1 \in Nat /\ {"store", "publish"} \subseteq PCs
  <2>1. ProcType /\ parent \in Seq(Nat) /\ n \in Nat
    BY DEF TypeInv, ProcType, StoreType, Calls
  <2>2. Presents(p) /\ Leads(p) /\ proc[p].op \in Users
    BY DEF Present, At, Presents, Leads, LeaderPCs
  <2> QED BY <2>1, <2>2, SpentFacts DEF Failed, PCs
<1>1. /\ UNCHANGED <<stored, bundle, flight>>
      /\ replayed' = replayed \cup ({n} \cap Spent)
  BY DEF Present, durable
<1>2. n \in stored /\ Spent \subseteq stored
  BY <1>0 DEF RotationInv, Known
<1>3. CASE GotoWith(p, "publish", Failed) /\ (UNCHANGED parent \/ Issue(n))
  <2>1. Moved(p, proc[p].op, "publish", proc[p].id, Failed)
    BY <1>0, <1>3, Moves
  <2>2. OneLeader'
    BY <1>0, <1>1, <2>1, LeaderStep
  <2>3. \A q \in Procs : Presents(q)' \/ Holds(q)' => proc'[q] = proc[q]
    BY <2>1, MovedAside
  <2>4. CASE UNCHANGED parent
    BY <1>0, <1>1, <2>2, <2>3, <2>4, UnchangedKeeps
  <2>5. CASE Issue(n)
    <3>1. /\ Issued' = Issued + 1 /\ Spent' = Spent \cup ({n} \ {0})
          /\ \A m \in 1 .. Issued : parent'[m] = parent[m]
      BY <1>0, <2>5, IssueFacts DEF Issue
    <3> HIDE DEF n
    <3>2. /\ Issued' \in Nat /\ Issued <= Issued'
          /\ Spent \subseteq Spent' /\ Spent' \subseteq stored
      BY <1>0, <1>2, <3>1
    <3>3. \A m \in replayed' :
            m \in replayed \/ (m \in Spent /\ \E q \in Procs : Presents(q) /\ proc[q].token = m)
      BY <1>0, <1>1 DEF n
    <3>4. \A id \in Ids : bundle'[id] = bundle[id]
      BY <1>1
    <3>5. RotationInv'
      BY <1>1, <2>3, <3>1, <3>2, <3>3, <3>4, CalmKeeps
    <3> QED BY <2>2, <3>5
  <2> QED BY <1>3, <2>4, <2>5
<1>4. CASE Refreshable(n) /\ Issue(n) /\ GotoWith(p, "store", Issued + 1)
  <2>1. Moved(p, proc[p].op, "store", proc[p].id, Issued + 1)
    BY <1>0, <1>4, Moves
  <2>2. OneLeader'
    BY <1>0, <1>1, <2>1, LeaderStep
  <2>3. n \notin Spent
    BY <1>4 DEF Refreshable
  <2>4. /\ Holds(p)' /\ Leads(p)' /\ proc'[p].token = Issued + 1 /\ proc'[p].id = proc[p].id
        /\ \A q \in Procs : q # p => proc'[q] = proc[q]
    BY <1>0, <2>1 DEF Moved, Holds, Leads, LeaderPCs
  <2>5. parent' = Append(parent, n) /\ replayed' = replayed
    BY <1>1, <1>4, <2>3 DEF Issue
  <2>6. RotationInv'
    BY <1>0, <1>1, <2>3, <2>4, <2>5, IssueKeeps
  <2> QED BY <2>2, <2>6
<1> QED BY <1>3, <1>4 DEF Present

LEMMA StoreStep ==
  ASSUME TypeInv, OneLeader, RotationInv, NEW p \in Procs, StoreFresh(p) \/ StoreConnected(p)
  PROVE  OneLeader' /\ RotationInv'
<1>0. /\ ProcType /\ proc[p].id \in Ids /\ proc[p].token \in Nat /\ Holds(p) /\ Failed \in Nat
      /\ {"publish", "row", "idle"} \subseteq PCs /\ {"row", "idle"} \subseteq Asides
  <2>1. ProcType /\ proc[p].token \in Nat /\ Holds(p) /\ Failed \in Nat
    BY DEF TypeInv, ProcType, Calls, StoreFresh, StoreConnected, At, Holds, Failed
  <2>2. proc[p].id \in Ids
    BY <2>1, OfAccount DEF StoreFresh, StoreConnected, At, Users
  <2>3. {"publish", "row", "idle"} \subseteq PCs /\ {"row", "idle"} \subseteq Asides
    BY DEF PCs, Asides, LeaderPCs
  <2> QED BY <2>1, <2>2, <2>3
<1>1. UNCHANGED <<parent, replayed, flight>>
  BY DEF StoreFresh, StoreConnected, provider
<1>2. PICK op, pc, id, token :
        /\ Moved(p, op, pc, id, token)
        /\ \/ pc \in Asides
           \/ Leads(p) /\ op = proc[p].op /\ pc = "publish" /\ id = proc[p].id
        /\ \/ Store(proc[p].id, proc[p].token)
           \/ UNCHANGED <<bundle, stored>>
  <2>1. CASE StoreFresh(p)
    <3>1. Leads(p)
      BY <2>1 DEF StoreFresh, At, Leads, LeaderPCs
    <3>2. \E n : Moved(p, proc[p].op, "publish", proc[p].id, n)
      BY <1>0, <2>1, Moves DEF StoreFresh
    <3> QED BY <2>1, <3>1, <3>2 DEF StoreFresh
  <2>2. CASE StoreConnected(p)
    <3>1. \/ Moved(p, proc[p].op, "row", proc[p].id, 0)
          \/ Moved(p, "none", "idle", NoId, 0)
      BY <1>0, <2>2, Moves DEF StoreConnected, Refused
    <3> QED BY <1>0, <2>2, <3>1 DEF StoreConnected
  <2> QED BY <2>1, <2>2
<1>3. OneLeader'
  BY <1>1, <1>2, AsideKeeps, LeaderStep
<1>4. /\ ~Holds(p)' /\ ~Presents(p)'
      /\ \A q \in Procs : q # p => proc'[q] = proc[q]
  BY <1>2 DEF Moved, Holds, Presents, Asides, LeaderPCs
<1>5. CASE Store(proc[p].id, proc[p].token)
  BY <1>0, <1>1, <1>3, <1>4, <1>5, StoreKeeps DEF Store
<1>6. CASE UNCHANGED <<bundle, stored>>
  <2>1. \A q \in Procs : Presents(q)' \/ Holds(q)' => proc'[q] = proc[q]
    BY <1>4
  <2> QED BY <1>1, <1>3, <1>6, <2>1, UnchangedKeeps
<1> QED BY <1>2, <1>5, <1>6

LEMMA BeginConnectStep ==
  ASSUME TypeInv, OneLeader, RotationInv, NEW p \in Procs, BeginConnect(p)
  PROVE  OneLeader' /\ RotationInv'
<1>0. /\ ProcType /\ parent \in Seq(Nat) /\ (row # NoId => row \in Ids) /\ Issued + 1 \in Nat
      /\ {"connect", "reconnect"} \subseteq Ops /\ "store" \in PCs
  <2>1. ProcType /\ parent \in Seq(Nat) /\ (row # NoId => row \in Ids)
    BY DEF TypeInv, StoreType
  <2> QED BY <2>1, SpentFacts DEF Ops, PCs
<1>1. /\ UNCHANGED <<stored, bundle, flight, replayed>>
      /\ parent' = Append(parent, 0)
  BY DEF BeginConnect, Issue, history
<1>2. Ids \ used # {} => NewId \in Ids
  BY DEF NewId
<1>3. PICK op \in {"connect", "reconnect"}, id \in Ids : Enter(p, op, "store", id, Issued + 1)
  BY <1>0, <1>2 DEF BeginConnect
<1>4. Moved(p, op, "store", id, Issued + 1)
  BY <1>0, <1>3, Moves
<1>5. OneLeader'
  BY <1>1, <1>4, AsideKeeps DEF Users
<1>6. RotationInv'
  BY <1>1, <1>4, IssueKeeps DEF Moved, Holds
<1> QED BY <1>5, <1>6

LEMMA RotationStep ==
  ASSUME TypeInv, OneLeader, RotationInv, [Next]_vars
  PROVE  OneLeader' /\ RotationInv'
<1>1. CASE UNCHANGED vars
  <2>1. UNCHANGED <<parent, stored, replayed, bundle, flight, proc>>
    BY <1>1 DEF vars, durable, provider, history
  <2>2. OneLeader'
    BY <2>1 DEF OneLeader, Leads, Presents
  <2> QED BY <2>1, <2>2, UnchangedKeeps
<1>2. CASE Crash
  <2>1. \A p \in Procs : ~Leads(p)' /\ ~Presents(p)' /\ ~Holds(p)'
    BY <1>2 DEF Crash, Leads, Presents, Holds, Idle, Users
  <2>2. OneLeader'
    BY <2>1 DEF OneLeader
  <2>3. UNCHANGED <<parent, stored, replayed, bundle>>
    BY <1>2 DEF Crash, durable, provider, history
  <2> QED BY <2>1, <2>2, <2>3, UnchangedKeeps
<1>3. CASE \E p \in Procs : Begin(p) \/ GoesOn(p)
  <2>1. PICK p \in Procs : Begin(p) \/ GoesOn(p)
    BY <1>3
  <2>2. \/ Apart(p) \/ BeginConnect(p) \/ Refresh(p) \/ Publish(p) \/ Leave(p)
        \/ Reload(p) \/ Present(p) \/ StoreFresh(p) \/ StoreConnected(p)
    BY <2>1, UseApart, ConnectApart DEF Begin, GoesOn
  <2> QED
    BY <2>2, ApartKeeps, BeginConnectStep, TableKeeps, ReloadStep, PresentStep, StoreStep
<1> QED BY <1>1, <1>2, <1>3 DEF Next

LEMMA RotationInit == Init => TypeInv /\ OneLeader /\ RotationInv
<1> SUFFICES ASSUME Init PROVE TypeInv /\ OneLeader /\ RotationInv
  OBVIOUS
<1>1. TypeInv
  <2>1. Idle \in Calls /\ Idle.op = "none"
    BY DEF Idle, Calls, Ops, PCs
  <2>2. NoCall \in [state : {"none", "open", "done"}, answer : Nat]
    BY DEF NoCall
  <2> QED BY <2>1, <2>2 DEF Init, TypeInv, ProcType, FlightType, StoreType
<1>2. \A p \in Procs : ~Leads(p) /\ ~Presents(p) /\ ~Holds(p)
  BY DEF Init, Leads, Presents, Holds, Idle, Users
<1>3. Spent = {} /\ Issued = 0
  BY DEF Init, Spent, Range, Issued
<1>4. RotationInv
  BY <1>2, <1>3 DEF Init, RotationInv, Known, OneAccount, Rotated, Rotating, Lost
<1> QED BY <1>1, <1>2, <1>4 DEF OneLeader

\* A refresh token is presented a second time only if the bundle it was spent for was lost
\* before it was stored: no interleaving of requests, the validation, reconnections, Disconnect
\* and crashes spends the token of a bundle that has been rotated
THEOREM SpentOnce == Spec => []RefreshTokenSpentOnce
<1> DEFINE Inv == TypeInv /\ OneLeader /\ RotationInv
<1>1. Init => Inv
  BY RotationInit
<1>2. Inv /\ [Next]_vars => Inv'
  BY TypeStep, RotationStep
<1>3. Inv => RefreshTokenSpentOnce
  BY DEF RotationInv, Lost, RefreshTokenSpentOnce
<1> QED BY <1>1, <1>2, <1>3, PTL DEF Spec

-----------------------------------------------------------------------------
(* Types, with their bounds: what a number stands for has been issued *)

\* The provider has issued no more than MaxTokens bundles
BundleBounds ==
  /\ Issued <= MaxTokens /\ \A m \in 1 .. Issued : parent[m] <= MaxTokens
  /\ live \subseteq 1 .. Issued /\ revoked \subseteq 1 .. Issued

CountBounds ==
  /\ requests \in 0 .. MaxRequests /\ failures \in Nat /\ crashes \in Nat
  /\ failures + crashes <= MaxFaults

AccountRow == status \in {"connected", "reconnect_required"} /\ used \subseteq Ids

Counted == BundleBounds /\ CountBounds /\ AccountRow

\* The bundles of the calls and of the answers.  What is revoked is a bundle
Carried ==
  /\ \A p \in Procs : proc[p].token <= Issued /\ (proc[p].pc = "revoke" => proc[p].token # 0)
  /\ \A id \in Ids : flight[id].answer <= Issued

\* A refresh in the table is made by a call
Led == \A id \in Ids : flight[id].state # "none" => \E p \in Procs : Leads(p) /\ proc[p].id = id

\* Call p becomes one that does not connect a new account, with a bundle that has been issued
Ordinary(p) ==
  \E op, pc, id, n :
    /\ Moved(p, op, pc, id, n) /\ op # "connect"
    /\ n <= Issued' /\ (pc = "revoke" => n # 0)

\* What is in the store, in the table and in the calls is a number
LEMMA Numbers ==
  ASSUME TypeInv, Known, Carried
  PROVE  /\ Issued \in Nat
         /\ \A id \in Ids : bundle[id] \in Nat /\ bundle[id] <= Issued
         /\ \A id \in Ids : flight[id].answer \in Nat /\ flight[id].answer <= Issued
         /\ \A p \in Procs : proc[p].token \in Nat /\ proc[p].token <= Issued
<1>1. Issued \in Nat
  BY SpentFacts DEF TypeInv, StoreType
<1>2. ASSUME NEW id \in Ids PROVE bundle[id] \in Nat /\ bundle[id] <= Issued
  <2>1. bundle[id] \in Nat /\ (bundle[id] # 0 => bundle[id] \in 1 .. Issued)
    BY DEF TypeInv, StoreType, Known
  <2> QED BY <1>1, <2>1
<1>3. \A id \in Ids : flight[id].answer \in Nat /\ flight[id].answer <= Issued
  BY DEF TypeInv, FlightType, Carried
<1>4. \A p \in Procs : proc[p].token \in Nat /\ proc[p].token <= Issued
  BY DEF TypeInv, ProcType, Calls, Carried
<1> QED BY <1>1, <1>2, <1>3, <1>4

LEMMA MovedOrdinary ==
  ASSUME NEW p \in Procs, NEW op, NEW pc, NEW id, NEW n, Moved(p, op, pc, id, n), op # "connect",
         n <= Issued', pc = "revoke" => n # 0
  PROVE  Ordinary(p)
  BY DEF Ordinary

LEMMA UseOrdinary ==
  ASSUME TypeInv, Known, Carried, NEW p \in Procs,
         \/ BeginCall(p) \/ BeginValidate(p) \/ Load(p) \/ Use(p) \/ UseAgain(p) \/ Mark(p)
  PROVE  Ordinary(p)
<1>0. /\ ProcType /\ (row # NoId => row \in Ids) /\ Issued \in Nat /\ 0 \in Nat
      /\ \A id \in Ids : bundle[id] \in Nat /\ bundle[id] <= Issued
      /\ {"load", "use", "use again", "connected", "reconnect", "refresh"} \subseteq PCs
      /\ {"call", "validate"} \subseteq Ops
  BY Numbers DEF TypeInv, StoreType, PCs, Ops
<1>1. Issued' = Issued /\ 0 <= Issued
  <2>1. Issued' = Issued
    BY DEF BeginCall, BeginValidate, Load, Use, UseAgain, Mark, provider, Issued
  <2>2. Issued \in Nat
    BY <1>0
  <2> QED BY <2>1, <2>2
<1>2. CASE BeginCall(p) \/ BeginValidate(p)
  <2>1. PICK op \in {"call", "validate"} : Enter(p, op, "load", row, 0) /\ row \in Ids
    BY <1>0, <1>2 DEF BeginCall, BeginValidate
  <2>2. Moved(p, op, "load", row, 0)
    BY <1>0, <2>1, Moves
  <2> QED BY <1>1, <2>1, <2>2, MovedOrdinary
<1>3. CASE Load(p) \/ Use(p) \/ UseAgain(p) \/ Mark(p)
  <2>1. proc[p].id \in Ids /\ proc[p].op # "connect"
    BY <1>0, <1>3, OfAccount DEF Load, Use, UseAgain, Mark, At, Users
  <2>2. \/ End(p)
        \/ \E pc \in PCs \ {"revoke"}, n \in {0, bundle[proc[p].id]} : GotoWith(p, pc, n)
    BY <1>0, <1>3 DEF Load, Use, UseAgain, Mark
  <2>3. CASE End(p)
    BY <1>0, <1>1, <2>3, Moves, MovedOrdinary
  <2>4. CASE \E pc \in PCs \ {"revoke"}, n \in {0, bundle[proc[p].id]} : GotoWith(p, pc, n)
    <3>1. PICK pc \in PCs \ {"revoke"}, n \in {0, bundle[proc[p].id]} : GotoWith(p, pc, n)
      BY <2>4
    <3>2. n \in Nat /\ n <= Issued
      <4>1. bundle[proc[p].id] \in Nat /\ bundle[proc[p].id] <= Issued
        BY <1>0, <2>1
      <4> QED BY <1>1, <3>1, <4>1
    <3>3. Moved(p, proc[p].op, pc, proc[p].id, n)
      BY <1>0, <3>1, <3>2, Moves
    <3> QED BY <1>1, <2>1, <3>2, <3>3, MovedOrdinary
  <2> QED BY <2>2, <2>3, <2>4
<1> QED BY <1>2, <1>3

LEMMA RefreshOrdinary ==
  ASSUME TypeInv, Known, Carried, NEW p \in Procs,
         Refresh(p) \/ Reload(p) \/ Present(p) \/ StoreFresh(p) \/ Leave(p)
  PROVE  /\ Ordinary(p)
         /\ Reload(p) \/ Present(p) \/ StoreFresh(p) => Leads(p) /\ Leads(p)' /\ proc'[p].id = proc[p].id
<1>0. /\ ProcType /\ parent \in Seq(Nat) /\ Issued \in Nat /\ Failed \in Nat /\ Failed = 0
      /\ \A id \in Ids : bundle[id] \in Nat /\ bundle[id] <= Issued
      /\ \A id \in Ids : flight[id].answer \in Nat /\ flight[id].answer <= Issued
      /\ proc[p].token \in Nat /\ proc[p].token <= Issued
      /\ {"wait", "reload", "present", "publish", "store"} \subseteq PCs
  BY Numbers DEF TypeInv, StoreType, PCs, Failed
<1>1. proc[p].id \in Ids /\ proc[p].op \in Users
  BY <1>0, OfAccount DEF Refresh, Reload, Present, StoreFresh, Leave, Users, At
<1>2. CASE Refresh(p)
  <2>1. Issued' = Issued
    BY <1>2 DEF Refresh, provider, Issued
  <2>2. \E pc \in {"wait", "reload", "reconnect", "use again"}, n \in Nat :
          n <= Issued /\ Moved(p, proc[p].op, pc, proc[p].id, n)
    <3>1. CASE Goto(p, "wait") \/ Goto(p, "reload")
      <4>1. \/ Moved(p, proc[p].op, "wait", proc[p].id, proc[p].token)
            \/ Moved(p, proc[p].op, "reload", proc[p].id, proc[p].token)
        BY <1>0, <3>1, Moves
      <4> QED BY <1>0, <4>1
    <3>2. CASE proc' = [proc EXCEPT ![p] = Answered(proc[p], flight[proc[p].id].answer)]
      <4> DEFINE answer == flight[proc[p].id].answer
      <4>1. answer \in Nat /\ answer <= Issued
        BY <1>0, <1>1
      <4>2. Moved(p, proc[p].op, After(answer), proc[p].id, answer)
        BY <1>0, <3>2, <4>1, AnswerMoves
      <4>3. After(answer) \in {"wait", "reload", "reconnect", "use again"}
        BY DEF After
      <4> QED BY <4>1, <4>2, <4>3
    <3> QED BY <1>2, <3>1, <3>2 DEF Refresh
  <2>3. ~Reload(p) /\ ~Present(p) /\ ~StoreFresh(p)
    BY <1>2 DEF Refresh, Reload, Present, StoreFresh, At
  <2> QED BY <1>1, <2>1, <2>2, <2>3 DEF Ordinary, Users
<1>3. CASE Leave(p)
  <2>1. Issued' = Issued
    BY <1>3 DEF Leave, provider, Issued
  <2>2. proc' = [proc EXCEPT ![p] = Answered(@, proc[p].token)]
    BY <1>0, <1>3 DEF Leave, ProcType
  <2>3. Moved(p, proc[p].op, After(proc[p].token), proc[p].id, proc[p].token)
    BY <1>0, <2>2, AnswerMoves
  <2>4. ~Reload(p) /\ ~Present(p) /\ ~StoreFresh(p) /\ After(proc[p].token) # "revoke"
    BY <1>3 DEF Leave, Reload, Present, StoreFresh, At, After
  <2> QED BY <1>0, <1>1, <2>1, <2>3, <2>4 DEF Ordinary, Users
<1>4. CASE Reload(p) \/ Present(p) \/ StoreFresh(p)
  <2>1. Leads(p)
    BY <1>4 DEF Reload, Present, StoreFresh, At, Leads, LeaderPCs
  <2>2. \E pc \in {"present", "publish", "store"}, n \in Nat :
          n <= Issued' /\ Moved(p, proc[p].op, pc, proc[p].id, n)
    <3>1. CASE Reload(p)
      <4>1. Issued' = Issued
        BY <3>1 DEF Reload, provider, Issued
      <4> QED BY <1>0, <1>1, <3>1, <4>1, Moves DEF Reload
    <3>2. CASE Present(p)
      <4>1. Issued' = Issued \/ (Issued' = Issued + 1 /\ Issue(proc[p].token))
        <5>1. UNCHANGED parent \/ Issue(proc[p].token)
          BY <3>2 DEF Present
        <5>2. UNCHANGED parent => Issued' = Issued
          BY DEF Issued
        <5>3. Issue(proc[p].token) => Issued' = Issued + 1
          BY <1>0, IssueFacts DEF Issue
        <5> QED BY <5>1, <5>2, <5>3
      <4>2. \/ GotoWith(p, "publish", Failed)
            \/ GotoWith(p, "store", Issued + 1) /\ Issue(proc[p].token)
        BY <3>2 DEF Present
      <4>3. Issue(proc[p].token) => Issued' = Issued + 1
        BY <1>0, IssueFacts DEF Issue
      <4>4. GotoWith(p, "publish", Failed) => Moved(p, proc[p].op, "publish", proc[p].id, 0)
        BY <1>0, Moves
      <4>5. Issued + 1 \in Nat
        BY <1>0
      <4>6. GotoWith(p, "store", Issued + 1) => Moved(p, proc[p].op, "store", proc[p].id, Issued + 1)
        BY <1>0, <4>5, Moves
      <4> QED BY <1>0, <4>1, <4>2, <4>3, <4>4, <4>5, <4>6
    <3>3. CASE StoreFresh(p)
      <4>1. Issued' = Issued
        BY <3>3 DEF StoreFresh, provider, Issued
      <4> QED BY <1>0, <3>3, <4>1, Moves DEF StoreFresh
    <3> QED BY <1>4, <3>1, <3>2, <3>3
  <2>3. Ordinary(p)
    BY <1>1, <2>2 DEF Ordinary, Users
  <2>4. Leads(p)' /\ proc'[p].id = proc[p].id
    BY <1>1, <2>2 DEF Moved, Leads, LeaderPCs
  <2> QED BY <2>1, <2>3, <2>4
<1> QED BY <1>2, <1>3, <1>4

LEMMA DisconnectOrdinary ==
  ASSUME TypeInv, Known, Carried, NEW p \in Procs,
         BeginDisconnect(p) \/ LoadOld(p) \/ Revoke(p) \/ DeleteBundle(p) \/ DropRow(p)
  PROVE  Ordinary(p)
<1>0. /\ ProcType /\ (row # NoId => row \in Ids) /\ Issued \in Nat /\ 0 \in Nat
      /\ \A id \in Ids : bundle[id] \in Nat /\ bundle[id] <= Issued
      /\ proc[p].token \in Nat /\ proc[p].token <= Issued
      /\ {"load", "revoke", "delete", "drop"} \subseteq PCs /\ "disconnect" \in Ops
  BY Numbers DEF TypeInv, StoreType, PCs, Ops
<1>1. Issued' = Issued
  BY DEF BeginDisconnect, LoadOld, Revoke, DeleteBundle, DropRow, provider, Issued
<1>2. CASE BeginDisconnect(p)
  <2>1. Moved(p, "disconnect", "load", row, 0)
    BY <1>0, <1>2, Moves DEF BeginDisconnect
  <2> QED BY <1>0, <1>1, <2>1 DEF Ordinary
<1>3. CASE LoadOld(p) \/ Revoke(p) \/ DeleteBundle(p) \/ DropRow(p)
  <2>1. proc[p].id \in Ids /\ proc[p].op # "connect"
    BY <1>0, <1>3, OfAccount DEF LoadOld, Revoke, DeleteBundle, DropRow, At
  <2>2. \/ End(p) \/ \E pc \in PCs \ {"revoke"} : Goto(p, pc)
        \/ \E pc \in PCs, n \in Nat : GotoWith(p, pc, n) /\ n <= Issued /\ (pc = "revoke" => n # 0)
    BY <1>0, <1>3, <2>1 DEF LoadOld, Revoke, DeleteBundle, DropRow
  <2>3. \/ Moved(p, "none", "idle", NoId, 0)
        \/ \E pc \in PCs \ {"revoke"} : Moved(p, proc[p].op, pc, proc[p].id, proc[p].token)
        \/ \E pc \in PCs, n \in Nat :
             Moved(p, proc[p].op, pc, proc[p].id, n) /\ n <= Issued /\ (pc = "revoke" => n # 0)
    BY <1>0, <2>2, Moves
  <2> QED BY <1>0, <1>1, <2>1, <2>3 DEF Ordinary
<1> QED BY <1>2, <1>3

\* The connection of an account.  A new account takes an ID that was not used before
ConnectMoves(p) ==
  \/ /\ BeginConnect(p) /\ row # NoId
     /\ Moved(p, "reconnect", "store", row, Issued + 1) /\ UNCHANGED used
  \/ /\ BeginConnect(p) /\ row = NoId /\ NewId \in Ids \ used
     /\ Moved(p, "connect", "store", NewId, Issued + 1) /\ used' = used \cup {NewId}
  \/ StoreConnected(p) /\ Moved(p, proc[p].op, "row", proc[p].id, 0) /\ Store(proc[p].id, proc[p].token)
  \/ WriteRow(p) /\ proc[p].op = "connect" /\ Moved(p, "connect", "undo", proc[p].id, proc[p].token) /\ UNCHANGED row
  \/ /\ StoreConnected(p) \/ WriteRow(p) \/ Undo(p)
     /\ Moved(p, "none", "idle", NoId, 0)

LEMMA ConnectMoved ==
  ASSUME TypeInv, NEW p \in Procs,
         BeginConnect(p) \/ StoreConnected(p) \/ WriteRow(p) \/ Undo(p)
  PROVE  ConnectMoves(p)
<1>0. /\ ProcType /\ (row # NoId => row \in Ids) /\ Issued + 1 \in Nat /\ 0 \in Nat
      /\ {"connect", "reconnect"} \subseteq Ops /\ {"store", "row", "undo"} \subseteq PCs
  <2>1. ProcType /\ (row # NoId => row \in Ids) /\ Issued + 1 \in Nat
    BY SpentFacts DEF TypeInv, StoreType
  <2> QED BY <2>1 DEF Ops, PCs
<1>1. CASE BeginConnect(p)
  <2>1. Ids \ used # {} => NewId \in Ids \ used
    BY DEF NewId
  <2>2. \/ row # NoId /\ Enter(p, "reconnect", "store", row, Issued + 1) /\ UNCHANGED used
        \/ /\ row = NoId /\ Ids \ used # {} /\ used' = used \cup {NewId}
           /\ Enter(p, "connect", "store", NewId, Issued + 1)
    BY <1>1 DEF BeginConnect
  <2> QED BY <1>0, <1>1, <2>1, <2>2, Moves DEF ConnectMoves
<1>2. CASE StoreConnected(p)
  BY <1>0, <1>2, Moves DEF StoreConnected, Refused, ConnectMoves
<1>3. CASE WriteRow(p)
  <2>1. End(p) \/ (proc[p].op = "connect" /\ Goto(p, "undo") /\ UNCHANGED row)
    BY <1>3 DEF WriteRow, At
  <2> QED BY <1>0, <1>3, <2>1, Moves DEF ConnectMoves
<1>4. CASE Undo(p)
  BY <1>0, <1>4, Moves DEF Undo, ConnectMoves
<1> QED BY <1>1, <1>2, <1>3, <1>4

\* Issuing a bundle leaves everything that is known within its bounds
LEMMA IssueBounds ==
  ASSUME parent \in Seq(Nat), NEW old \in Nat, Issue(old)
  PROVE  /\ Issued \in Nat /\ Issued' = Issued + 1 /\ live' = live \cup {Issued + 1}
         /\ parent' = Append(parent, old) /\ parent'[Issued + 1] = old
         /\ \A m \in 1 .. Issued : parent'[m] = parent[m]
  BY SpentFacts, IssueFacts DEF Issue

LEMMA FaultBounds ==
  ASSUME requests \in 0 .. MaxRequests, failures \in Nat, crashes \in Nat, failures + crashes <= MaxFaults,
         Fails \/ UNCHANGED counts
  PROVE  requests' \in 0 .. MaxRequests /\ failures' \in Nat /\ crashes' \in Nat
         /\ failures' + crashes' <= MaxFaults
  BY AccountAssumption DEF Fails, counts

LEMMA RequestBounds ==
  ASSUME requests \in 0 .. MaxRequests, NEW p, NEW op, NEW pc, NEW id, NEW n, Enter(p, op, pc, id, n)
  PROVE  requests' \in 0 .. MaxRequests
  BY AccountAssumption DEF Enter

LEMMA CountStep ==
  ASSUME CountBounds, Next PROVE CountBounds'
<1>1. CASE Fails \/ UNCHANGED counts
  BY <1>1, FaultBounds DEF CountBounds
<1>2. CASE UNCHANGED <<failures, crashes>> /\ \E p, op, pc, id, n : Enter(p, op, pc, id, n)
  BY <1>2, RequestBounds DEF CountBounds
<1>3. CASE Crash
  BY <1>3, AccountAssumption DEF Crash, CountBounds
<1>4. ASSUME NEW p \in Procs, Begin(p)
      PROVE UNCHANGED <<failures, crashes>> /\ \E q, op, pc, id, n : Enter(q, op, pc, id, n)
  <2>1. UNCHANGED <<failures, crashes>>
    BY <1>4 DEF Begin, BeginCall, BeginValidate, BeginConnect, BeginDisconnect
  <2>2. \E op, pc, id, n : Enter(p, op, pc, id, n)
    BY <1>4 DEF Begin, BeginCall, BeginValidate, BeginConnect, BeginDisconnect
  <2> QED BY <2>1, <2>2
<1>5. ASSUME NEW p \in Procs, GoesOn(p) PROVE Fails \/ UNCHANGED counts
  BY <1>5
     DEF GoesOn, Load, Use, UseAgain, Mark, Refresh, Reload, Present, StoreFresh, Publish, Leave,
         StoreConnected, Refused, WriteRow, Undo, LoadOld, Revoke, DeleteBundle, DropRow
<1> QED BY <1>1, <1>2, <1>3, <1>4, <1>5 DEF Next

LEMMA AccountRowStep ==
  ASSUME AccountRow, Next PROVE AccountRow'
<1>1. CASE UNCHANGED <<status, used>>
  BY <1>1 DEF AccountRow
<1>2. ASSUME NEW p \in Procs, BeginConnect(p) PROVE AccountRow'
  <2>1. Ids \ used # {} => NewId \in Ids
    BY DEF NewId
  <2> QED BY <1>2, <2>1 DEF AccountRow, BeginConnect
<1>3. ASSUME NEW p \in Procs, Mark(p) \/ WriteRow(p) \/ DropRow(p) PROVE AccountRow'
  BY <1>3 DEF AccountRow, Mark, WriteRow, DropRow, Update
<1> QED
  BY <1>1, <1>2, <1>3
     DEF Next, Begin, GoesOn, BeginCall, BeginValidate, BeginDisconnect, Load, Use, UseAgain, Refresh,
         Reload, Present, StoreFresh, Publish, Leave, StoreConnected, Undo, LoadOld, Revoke,
         DeleteBundle, Crash, durable

LEMMA BundlesIssued ==
  ASSUME TypeInv, BundleBounds, Issued < MaxTokens, NEW old \in Nat, old <= MaxTokens,
         Issue(old), UNCHANGED revoked
  PROVE  BundleBounds'
<1>1. /\ Issued \in Nat /\ Issued' = Issued + 1 /\ live' = live \cup {Issued + 1}
      /\ parent'[Issued + 1] = old /\ \A m \in 1 .. Issued : parent'[m] = parent[m]
  BY IssueBounds DEF TypeInv, StoreType
<1>2. 1 .. Issued' = (1 .. Issued) \cup {Issued + 1} /\ Issued' <= MaxTokens
  BY <1>1, AccountAssumption
<1> QED BY <1>1, <1>2 DEF BundleBounds

LEMMA BundlesFewer ==
  ASSUME BundleBounds, UNCHANGED parent, live' \subseteq live,
         revoked' = revoked \/ \E n \in 1 .. Issued : revoked' = revoked \cup {n}
  PROVE  BundleBounds'
<1>1. UNCHANGED Issued
  BY DEF Issued
<1> QED BY <1>1 DEF BundleBounds

LEMMA BundleStep ==
  ASSUME TypeInv, Known, Carried, BundleBounds, Next PROVE BundleBounds'
<1>1. CASE UNCHANGED provider
  BY <1>1, BundlesFewer DEF provider
<1>2. ASSUME NEW p \in Procs, Use(p) \/ UseAgain(p) PROVE BundleBounds'
  <2>1. UNCHANGED <<parent, revoked>> /\ live' \subseteq live
    BY <1>2 DEF Use, UseAgain, Expires
  <2> QED BY <2>1, BundlesFewer
<1>3. ASSUME NEW p \in Procs, Present(p) PROVE BundleBounds'
  <2> DEFINE n == proc[p].token
  <2>1. UNCHANGED revoked /\ (UNCHANGED <<parent, live>> \/ (Refreshable(n) /\ Issue(n)))
    BY <1>3 DEF Present
  <2>2. CASE UNCHANGED <<parent, live>>
    BY <2>1, <2>2, BundlesFewer
  <2>3. CASE Refreshable(n) /\ Issue(n)
    <3>1. n \in Nat /\ n <= Issued /\ Issued \in Nat
      BY Numbers
    <3>2. Issued < MaxTokens
      BY <2>3 DEF Refreshable
    <3> HIDE DEF n
    <3>3. n <= MaxTokens
      BY <3>1, <3>2, AccountAssumption
    <3> QED BY <2>1, <2>3, <3>1, <3>2, <3>3, BundlesIssued
  <2> QED BY <2>1, <2>2, <2>3
<1>4. ASSUME NEW p \in Procs, BeginConnect(p) PROVE BundleBounds'
  <2>1. Issued < MaxTokens /\ Issue(0) /\ UNCHANGED revoked
    BY <1>4 DEF BeginConnect
  <2> QED BY <2>1, BundlesIssued, AccountAssumption
<1>5. ASSUME NEW p \in Procs, Revoke(p) PROVE BundleBounds'
  <2>1. proc[p].token \in Nat /\ proc[p].token <= Issued /\ proc[p].token # 0 /\ Issued \in Nat
    BY <1>5, Numbers DEF Revoke, At, Carried
  <2>2. proc[p].token \in 1 .. Issued
    BY <2>1
  <2>3. /\ UNCHANGED parent /\ live' \subseteq live
        /\ revoked' = revoked \/ revoked' = revoked \cup {proc[p].token}
    BY <1>5 DEF Revoke, Revoked
  <2> QED BY <2>2, <2>3, BundlesFewer
<1> QED
  BY <1>1, <1>2, <1>3, <1>4, <1>5
     DEF Next, Begin, GoesOn, BeginCall, BeginValidate, BeginDisconnect, Load, Mark, Refresh,
         Reload, StoreFresh, Publish, Leave, StoreConnected, WriteRow, Undo, LoadOld,
         DeleteBundle, DropRow, Crash

\* The bundles are never fewer
LEMMA NoFewer ==
  ASSUME TypeInv, Next PROVE Issued \in Nat /\ Issued' \in Nat /\ Issued <= Issued'
<1>0. parent \in Seq(Nat) /\ Issued \in Nat
  BY SpentFacts DEF TypeInv, StoreType
<1>1. UNCHANGED parent \/ \E old \in Nat : Issue(old)
  <2>1. ASSUME NEW p \in Procs, Present(p) PROVE UNCHANGED parent \/ \E old \in Nat : Issue(old)
    <3>1. proc[p].token \in Nat
      BY DEF TypeInv, ProcType, Calls
    <3> QED BY <2>1, <3>1 DEF Present
  <2>2. ASSUME NEW p \in Procs, BeginConnect(p) PROVE Issue(0)
    BY <2>2 DEF BeginConnect
  <2> QED
    BY <2>1, <2>2
       DEF Next, Begin, GoesOn, BeginCall, BeginValidate, BeginDisconnect, Load, Use, UseAgain, Mark,
           Refresh, Reload, StoreFresh, Publish, Leave, StoreConnected, WriteRow, Undo, LoadOld,
           Revoke, DeleteBundle, DropRow, Crash, provider
<1>2. CASE UNCHANGED parent
  BY <1>0, <1>2 DEF Issued
<1>3. CASE \E old \in Nat : Issue(old)
  <2>1. Issued' = Issued + 1
    BY <1>0, <1>3, IssueBounds
  <2> QED BY <1>0, <2>1
<1> QED BY <1>1, <1>2, <1>3

\* Those that a Publish wakes have the bundle of the refresh
LEMMA PublishTokens ==
  ASSUME TypeInv, NEW p \in Procs, Publish(p)
  PROVE  \A q \in Procs : proc'[q].token = proc[q].token \/ proc'[q].token = proc[p].token
<1> DEFINE answer == proc[p].token
<1>0. /\ \A q \in Procs : proc[q] \in Calls
      /\ answer \in Nat
  BY DEF TypeInv, ProcType, Calls
<1>1. \A q \in Procs : Answered(proc[q], answer).token = answer
  BY <1>0, AnsweredCall
<1>2. [proc[p] EXCEPT !.pc = "leave"].token = answer
  BY <1>0 DEF Calls
<1>3. proc' = [q \in Procs |-> IF q \in Woken(proc[p].id, answer) THEN Answered(proc[q], answer)
                               ELSE IF q = p THEN [proc[p] EXCEPT !.pc = "leave"] ELSE proc[q]]
  BY DEF Publish
<1> HIDE DEF answer
<1>4. ASSUME NEW q \in Procs PROVE proc'[q].token = proc[q].token \/ proc'[q].token = answer
  <2>1. CASE q \in Woken(proc[p].id, answer)
    BY <1>1, <1>3, <2>1
  <2>2. CASE q \notin Woken(proc[p].id, answer)
    BY <1>2, <1>3, <2>2
  <2> QED BY <2>1, <2>2
<1> QED BY <1>4 DEF answer

LEMMA FlightCarried ==
  ASSUME TypeInv, Known, Carried, Next
  PROVE  \A id \in Ids : flight'[id].answer <= Issued'
<1>0. /\ Issued \in Nat /\ Issued' \in Nat /\ Issued <= Issued'
      /\ \A id \in Ids : flight[id].answer \in Nat /\ flight[id].answer <= Issued
  BY Numbers, NoFewer
<1>1. ASSUME NEW id \in Ids, flight'[id].answer \in {flight[id].answer, 0} PROVE flight'[id].answer <= Issued'
  BY <1>0, <1>1
<1>2. CASE UNCHANGED flight
  BY <1>1, <1>2
<1>3. ASSUME NEW p \in Procs, Refresh(p) \/ Leave(p) PROVE \A id \in Ids : flight'[id].answer <= Issued'
  BY <1>1, <1>3 DEF TypeInv, FlightType, Refresh, Leave, Removed, NoCall
<1>4. CASE Crash
  BY <1>1, <1>4 DEF Crash, NoCall
<1>5. ASSUME NEW p \in Procs, Publish(p) PROVE \A id \in Ids : flight'[id].answer <= Issued'
  <2>1. proc[p].token \in Nat /\ proc[p].token <= Issued
    BY Numbers
  <2>2. ASSUME NEW id \in Ids PROVE flight'[id].answer \in {flight[id].answer, proc[p].token}
    BY <1>5 DEF TypeInv, FlightType, Publish
  <2> QED BY <1>0, <2>1, <2>2
<1> QED
  BY <1>2, <1>3, <1>4, <1>5
     DEF Next, Begin, GoesOn, BeginCall, BeginValidate, BeginConnect, BeginDisconnect, Load, Use,
         UseAgain, Mark, Reload, Present, StoreFresh, StoreConnected, WriteRow, Undo, LoadOld,
         Revoke, DeleteBundle, DropRow

LEMMA MovedCarried ==
  ASSUME TypeInv, Carried, Next, NEW p \in Procs, NEW op, NEW pc, NEW id, NEW n,
         Moved(p, op, pc, id, n), n <= Issued', pc = "revoke" => n # 0
  PROVE  \A q \in Procs : proc'[q].token <= Issued' /\ (proc'[q].pc = "revoke" => proc'[q].token # 0)
<1>1. Issued \in Nat /\ Issued' \in Nat /\ Issued <= Issued'
  BY NoFewer
<1>2. ASSUME NEW q \in Procs, q # p
      PROVE  proc'[q].token <= Issued' /\ (proc'[q].pc = "revoke" => proc'[q].token # 0)
  <2>1. /\ proc'[q] = proc[q] /\ proc[q].token <= Issued /\ proc[q].token \in Nat
        /\ proc[q].pc = "revoke" => proc[q].token # 0
    BY <1>2 DEF Moved, Carried, TypeInv, ProcType, Calls
  <2> QED BY <1>1, <2>1
<1>3. proc'[p].token <= Issued' /\ (proc'[p].pc = "revoke" => proc'[p].token # 0)
  BY DEF Moved
<1> QED BY <1>2, <1>3

LEMMA CarriedStep ==
  ASSUME TypeInv, Known, Carried, Next PROVE Carried'
<1>0. Issued \in Nat /\ Issued' \in Nat /\ Issued <= Issued'
  BY NoFewer
<1>1. ASSUME NEW p \in Procs, Ordinary(p)
      PROVE \A q \in Procs : proc'[q].token <= Issued' /\ (proc'[q].pc = "revoke" => proc'[q].token # 0)
  BY <1>1, MovedCarried DEF Ordinary
<1>2. ASSUME NEW p \in Procs, ConnectMoves(p)
      PROVE \A q \in Procs : proc'[q].token <= Issued' /\ (proc'[q].pc = "revoke" => proc'[q].token # 0)
  <2>1. proc[p].token \in Nat /\ proc[p].token <= Issued
    BY Numbers
  <2>2. PICK op, pc, id, n : /\ Moved(p, op, pc, id, n) /\ pc # "revoke"
                             /\ n \in {0, proc[p].token} \/ (n = Issued + 1 /\ BeginConnect(p))
    <3>1. CASE Moved(p, proc[p].op, "row", proc[p].id, 0)
      BY <3>1
    <3>2. CASE Moved(p, "connect", "undo", proc[p].id, proc[p].token)
      BY <3>2
    <3>3. CASE Moved(p, "none", "idle", NoId, 0)
      BY <3>3
    <3>4. CASE BeginConnect(p) /\ Moved(p, "reconnect", "store", row, Issued + 1)
      BY <3>4
    <3>5. CASE BeginConnect(p) /\ Moved(p, "connect", "store", NewId, Issued + 1)
      BY <3>5
    <3> QED BY <1>2, <3>1, <3>2, <3>3, <3>4, <3>5 DEF ConnectMoves
  <2>3. BeginConnect(p) => Issued' = Issued + 1
    BY IssueBounds DEF BeginConnect, TypeInv, StoreType
  <2>4. n <= Issued'
    BY <1>0, <2>1, <2>2, <2>3
  <2> QED BY <2>2, <2>4, MovedCarried
<1>3. ASSUME NEW p \in Procs, Publish(p)
      PROVE \A q \in Procs : proc'[q].token <= Issued' /\ (proc'[q].pc = "revoke" => proc'[q].token # 0)
  <2>1. \A q \in Procs : proc[q].token \in Nat /\ proc[q].token <= Issued
    BY Numbers
  <2>2. \A q \in Procs : proc'[q].token = proc[q].token \/ proc'[q].token = proc[p].token
    BY <1>3, PublishTokens
  <2>3. \A q \in Procs : proc'[q].pc = "revoke" => proc'[q] = proc[q]
    BY <1>3, PublishMoves
  <2>4. ASSUME NEW q \in Procs PROVE proc'[q].token <= Issued'
    BY <1>0, <2>1, <2>2
  <2> QED BY <2>3, <2>4 DEF Carried
<1>4. ASSUME Crash
      PROVE \A q \in Procs : proc'[q].token <= Issued' /\ (proc'[q].pc = "revoke" => proc'[q].token # 0)
  BY <1>0, <1>4 DEF Crash, Idle
<1>5. \A q \in Procs : proc'[q].token <= Issued' /\ (proc'[q].pc = "revoke" => proc'[q].token # 0)
  <2>1. ASSUME NEW p \in Procs, Begin(p) \/ GoesOn(p) PROVE Ordinary(p) \/ ConnectMoves(p) \/ Publish(p)
    BY <2>1, UseOrdinary, RefreshOrdinary, DisconnectOrdinary, ConnectMoved DEF Begin, GoesOn
  <2> QED BY <1>1, <1>2, <1>3, <1>4, <2>1 DEF Next
<1> QED BY <1>5, FlightCarried DEF Carried

-----------------------------------------------------------------------------
(* A refresh in the table is made by a call *)

LEMMA LedKeeps ==
  ASSUME Led, \A id \in Ids : flight'[id].state # "none" => flight[id].state # "none",
         \A p \in Procs : Leads(p) => Leads(p)' /\ proc'[p].id = proc[p].id
  PROVE  Led'
  BY DEF Led

LEMMA BystanderKeeps ==
  ASSUME Led, UNCHANGED flight, NEW p \in Procs, ~Leads(p), NEW op, NEW pc, NEW id, NEW n,
         Moved(p, op, pc, id, n)
  PROVE  Led'
<1>1. \A q \in Procs : Leads(q) => Leads(q)' /\ proc'[q].id = proc[q].id
  BY DEF Moved, Leads
<1> QED BY <1>1, LedKeeps

LEMMA LedStep ==
  ASSUME TypeInv, Known, Carried, Led, Next PROVE Led'
<1>1. ASSUME NEW p \in Procs,
             \/ BeginCall(p) \/ BeginValidate(p) \/ Load(p) \/ Use(p) \/ UseAgain(p) \/ Mark(p)
             \/ BeginDisconnect(p) \/ LoadOld(p) \/ Revoke(p) \/ DeleteBundle(p) \/ DropRow(p)
             \/ WriteRow(p) \/ Undo(p)
      PROVE Led'
  <2>1. Apart(p)
    BY <1>1, UseApart, ConnectApart
  <2>2. ~Leads(p)
    <3>1. CASE proc[p] = Idle
      BY <3>1 DEF Idle, Leads, Users
    <3>2. CASE proc[p] # Idle
      <4>1. /\ ~BeginCall(p) /\ ~BeginValidate(p) /\ ~BeginDisconnect(p)
        BY <3>2 DEF BeginCall, BeginValidate, BeginDisconnect, Enter
      <4> QED
        BY <1>1, <4>1
           DEF Load, Use, UseAgain, Mark, LoadOld, Revoke, DeleteBundle, DropRow, WriteRow, Undo,
               At, Leads, LeaderPCs, Users
    <3> QED BY <3>1, <3>2
  <2> QED BY <2>1, <2>2, BystanderKeeps DEF Apart
<1>2. ASSUME NEW p \in Procs, BeginConnect(p) \/ StoreConnected(p) PROVE Led'
  <2>1. UNCHANGED flight /\ ~Leads(p)
    BY <1>2 DEF BeginConnect, StoreConnected, Enter, Idle, At, Leads, Users
  <2>2. \E op, pc, id, n : Moved(p, op, pc, id, n)
    BY <1>2, ConnectMoved DEF ConnectMoves
  <2> QED BY <2>1, <2>2, BystanderKeeps
<1>3. ASSUME NEW p \in Procs, Reload(p) \/ Present(p) \/ StoreFresh(p) PROVE Led'
  <2>1. Leads(p)' /\ proc'[p].id = proc[p].id /\ Ordinary(p)
    BY <1>3, RefreshOrdinary
  <2>2. UNCHANGED flight
    BY <1>3 DEF Reload, Present, StoreFresh
  <2>3. \A q \in Procs : Leads(q) => Leads(q)' /\ proc'[q].id = proc[q].id
    BY <2>1 DEF Ordinary, Moved, Leads
  <2> QED BY <2>2, <2>3, LedKeeps
<1>4. ASSUME NEW p \in Procs, Refresh(p) PROVE Led'
  <2>1. ProcType /\ At(p, Users, "refresh") /\ ~Leads(p)
    BY <1>4 DEF Refresh, TypeInv, At, Leads, LeaderPCs
  <2>2. proc[p].id \in Ids /\ {"reload"} \subseteq PCs
    BY <2>1, OfAccount DEF Users, PCs
  <2>3. Ordinary(p)
    BY <1>4, RefreshOrdinary
  <2>4. CASE UNCHANGED flight
    BY <2>1, <2>3, <2>4, BystanderKeeps DEF Ordinary
  <2>5. CASE /\ Goto(p, "reload")
             /\ flight' = [flight EXCEPT ![proc[p].id] = [state |-> "open", answer |-> 0]]
    <3>1. Moved(p, proc[p].op, "reload", proc[p].id, proc[p].token)
      BY <2>1, <2>2, <2>5, Moves
    <3>2. Leads(p)' /\ proc'[p].id = proc[p].id
      BY <2>1, <3>1 DEF Moved, Leads, LeaderPCs, At
    <3>3. \A q \in Procs : Leads(q) => Leads(q)' /\ proc'[q].id = proc[q].id
      BY <3>1, <3>2 DEF Moved, Leads
    <3>4. \A id \in Ids : id # proc[p].id => flight'[id] = flight[id]
      BY <2>5 DEF TypeInv, FlightType
    <3> QED BY <3>2, <3>3, <3>4 DEF Led
  <2> QED BY <1>4, <2>4, <2>5 DEF Refresh
<1>5. ASSUME NEW p \in Procs, Publish(p) PROVE Led'
  <2>1. /\ \A q \in Procs : proc'[q].op = proc[q].op /\ proc'[q].id = proc[q].id
        /\ proc'[p].pc = "leave" /\ ProcType /\ FlightType
    BY <1>5, PublishMoves DEF TypeInv
  <2>2. Leads(p) /\ Leads(p)'
    BY <1>5, <2>1 DEF Publish, At, Leads, LeaderPCs
  <2>3. ASSUME NEW q \in Procs, q # p, Leads(q) PROVE proc'[q] = proc[q]
    <3>1. q \notin Woken(proc[p].id, proc[p].token)
      BY <2>3 DEF Leads, Woken, LeaderPCs
    <3> QED BY <1>5, <2>3, <3>1 DEF Publish
  <2>4. \A q \in Procs : Leads(q) => Leads(q)' /\ proc'[q].id = proc[q].id
    BY <2>1, <2>2, <2>3 DEF Leads
  <2>5. proc[p].id \in Ids /\ \A id \in Ids : id # proc[p].id => flight'[id] = flight[id]
    BY <1>5, <2>1, <2>2 DEF Publish, FlightType, ProcType, Leads, Users
  <2> QED BY <2>1, <2>2, <2>4, <2>5 DEF Led
<1>6. ASSUME NEW p \in Procs, Leave(p) PROVE Led'
  <2>1. Ordinary(p)
    BY <1>6, RefreshOrdinary
  <2>2. \A q \in Procs : q # p /\ Leads(q) => Leads(q)' /\ proc'[q].id = proc[q].id
    BY <2>1 DEF Ordinary, Moved, Leads
  <2>3. \A id \in Ids : /\ id # proc[p].id => flight'[id] = flight[id]
                        /\ id = proc[p].id => flight'[id].state = "none"
    BY <1>6 DEF Leave, Removed, NoCall, TypeInv, FlightType
  <2> QED BY <2>2, <2>3 DEF Led
<1>7. CASE Crash
  BY <1>7 DEF Crash, NoCall, Led
<1> QED BY <1>1, <1>2, <1>3, <1>4, <1>5, <1>6, <1>7 DEF Next, Begin, GoesOn

-----------------------------------------------------------------------------
(* The type invariant *)

BoundInv == Counted /\ Carried /\ Led

LEMMA BoundInit == Init => BoundInv
<1> SUFFICES ASSUME Init PROVE BoundInv
  OBVIOUS
<1>1. Issued = 0
  BY DEF Init, Issued
<1>2. CountBounds
  BY AccountAssumption DEF Init, CountBounds
<1>3. AccountRow
  BY DEF Init, AccountRow
<1>4. BundleBounds
  BY <1>1, AccountAssumption DEF Init, BundleBounds
<1>5. Carried
  BY <1>1 DEF Init, Carried, Idle, NoCall
<1>6. Led
  BY DEF Init, Led, NoCall
<1> QED BY <1>2, <1>3, <1>4, <1>5, <1>6 DEF BoundInv, Counted

LEMMA BoundStep ==
  ASSUME TypeInv, RotationInv, BoundInv, [Next]_vars PROVE BoundInv'
<1>1. CASE Next
  BY <1>1, CountStep, AccountRowStep, BundleStep, CarriedStep, LedStep DEF BoundInv, Counted, RotationInv
<1>2. CASE UNCHANGED vars
  <2>1. CountBounds'
    BY <1>2 DEF BoundInv, Counted, CountBounds, vars, counts
  <2>2. AccountRow' /\ BundleBounds'
    BY <1>2 DEF BoundInv, Counted, AccountRow, BundleBounds, Issued, vars, durable, provider
  <2>3. Carried' /\ Led'
    BY <1>2 DEF BoundInv, Carried, Led, Leads, Issued, vars, provider
  <2> QED BY <2>1, <2>2, <2>3 DEF BoundInv, Counted
<1> QED BY <1>1, <1>2

LEMMA BoundsAreTypes ==
  ASSUME TypeInv, RotationInv, BoundInv PROVE TypeOK
<1>0. Known /\ Counted /\ Carried /\ Led /\ Issued \in Nat
  BY SpentFacts DEF RotationInv, BoundInv, TypeInv, StoreType
<1>1. row \in Ids \cup {NoId} /\ status \in {"connected", "reconnect_required"} /\ used \subseteq Ids
  BY <1>0 DEF TypeInv, StoreType, Counted, AccountRow
<1>2. bundle \in [Ids -> 0 .. Issued]
  <2>1. bundle \in [Ids -> Nat] /\ \A id \in Ids : bundle[id] \in 0 .. Issued
    BY <1>0, Numbers DEF TypeInv, StoreType
  <2> QED BY <2>1
<1>3. parent \in Seq(0 .. MaxTokens)
  <2>1. parent \in Seq(Nat) /\ Len(parent) = Issued /\ \A m \in 1 .. Issued : parent[m] <= MaxTokens
    BY <1>0 DEF TypeInv, StoreType, Counted, BundleBounds, Issued
  <2>2. \A m \in 1 .. Len(parent) : parent[m] \in 0 .. MaxTokens
    BY <2>1, AccountAssumption
  <2>3. parent \in [1 .. Len(parent) -> 0 .. MaxTokens] /\ Len(parent) \in Nat
    BY <2>1, <2>2
  <2> QED BY <2>3, SeqDef
<1>4. flight \in [Ids -> [state : {"none", "open", "done"}, answer : 0 .. Issued]]
  <2>1. \A id \in Ids : flight[id] \in [state : {"none", "open", "done"}, answer : Nat]
    BY DEF TypeInv, FlightType
  <2>2. \A id \in Ids : flight[id].answer \in 0 .. Issued
    BY <1>0, Numbers
  <2>3. \A id \in Ids : flight[id] \in [state : {"none", "open", "done"}, answer : 0 .. Issued]
    BY <2>1, <2>2
  <2> QED BY <2>3 DEF TypeInv, FlightType
<1>5. proc \in [Procs -> [op : {"none", "call", "validate", "connect", "reconnect", "disconnect"},
                          pc : PCs, id : Ids \cup {NoId}, token : 0 .. Issued]]
  <2>1. \A p \in Procs : proc[p] \in Calls
    BY DEF TypeInv, ProcType
  <2>2. \A p \in Procs : proc[p].token \in 0 .. Issued
    BY <1>0, Numbers
  <2>3. \A p \in Procs :
          proc[p] \in [op : {"none", "call", "validate", "connect", "reconnect", "disconnect"},
                       pc : PCs, id : Ids \cup {NoId}, token : 0 .. Issued]
    BY <2>1, <2>2 DEF Calls, Ops
  <2> QED BY <2>3 DEF TypeInv, ProcType
<1>6. /\ Issued <= MaxTokens /\ live \subseteq 1 .. Issued /\ revoked \subseteq 1 .. Issued
      /\ requests \in 0 .. MaxRequests
  BY <1>0 DEF Counted, BundleBounds, CountBounds
<1>7. failures \in 0 .. MaxFaults /\ crashes \in 0 .. MaxFaults
  BY <1>0, AccountAssumption DEF Counted, CountBounds
<1>8. \A id \in Ids : flight[id].state # "none" =>
        \E p \in Procs : proc[p].id = id /\ proc[p].pc \in {"reload", "present", "store", "publish", "leave"}
  BY <1>0 DEF Led, Leads, LeaderPCs
<1> QED BY <1>1, <1>2, <1>3, <1>4, <1>5, <1>6, <1>7, <1>8 DEF TypeOK

\* Every variable has its type, whatever the number of calls, bundles and failures: a bundle in
\* use has been issued, and no refresh is in the table that no call makes, so that no call waits
\* for an answer nobody will give
THEOREM AccountTypeCorrect == Spec => []TypeOK
<1> DEFINE Inv == TypeInv /\ OneLeader /\ RotationInv /\ BoundInv
<1>1. Init => Inv
  BY RotationInit, BoundInit
<1>2. Inv /\ [Next]_vars => Inv'
  BY TypeStep, RotationStep, BoundStep
<1>3. Inv => TypeOK
  BY BoundsAreTypes
<1> QED BY <1>1, <1>2, <1>3, PTL DEF Spec

-----------------------------------------------------------------------------
(* No account is there without its bundle *)

\* The bundle of the account is there, or a Disconnect has deleted it
Covered(id) == bundle[id] # 0 \/ id \in dropped

Connecting(p) == proc[p].op = "connect"

\* A call that connects a new account is the only one with its ID, and no row has that ID.  When
\* it writes the row, the bundle has been stored
RowInv ==
  /\ row # NoId => row \in used /\ Covered(row)
  /\ \A p \in Procs : Connecting(p) =>
       /\ proc[p].id \in used /\ proc[p].id # row
       /\ \A q \in Procs : Connecting(q) /\ proc[q].id = proc[p].id => p = q
       /\ proc[p].pc = "row" => Covered(proc[p].id)

\* Call q goes on connecting an account, if it does
StillConnects(q) ==
  Connecting(q)' => /\ Connecting(q) /\ proc'[q].id = proc[q].id
                    /\ proc'[q].pc = "row" => proc[q].pc = "row" \/ Covered(proc[q].id)'

\* The bundle of an account stays, or is deleted by a Disconnect, or the call that connects it gives up
StaysCovered(id) ==
  Covered(id) => \/ Covered(id)'
                 \/ id # row /\ \A q \in Procs : Connecting(q)' => proc'[q].id # id

\* No row is made
LEMMA RowKeeps ==
  ASSUME TypeInv, RowInv, UNCHANGED used, row' \in {row, NoId},
         \A q \in Procs : StillConnects(q), \A id \in Ids : StaysCovered(id)
  PROVE  RowInv'
<1>1. row' # NoId => row' \in used' /\ Covered(row)'
  <2>1. ASSUME row' # NoId PROVE row' = row /\ row \in Ids /\ Covered(row) /\ row \in used
    BY <2>1 DEF RowInv, TypeInv, StoreType
  <2> QED BY <2>1 DEF StaysCovered, Covered
<1>2. ASSUME NEW p \in Procs, Connecting(p)'
      PROVE  /\ proc'[p].id \in used' /\ proc'[p].id # row'
             /\ \A q \in Procs : Connecting(q)' /\ proc'[q].id = proc'[p].id => p = q
             /\ proc'[p].pc = "row" => Covered(proc[p].id)'
  <2>1. Connecting(p) /\ proc'[p].id = proc[p].id
    BY <1>2 DEF StillConnects
  <2>2. proc[p].id \in used /\ proc[p].id # row /\ proc[p].id # NoId /\ proc[p].id \in Ids
    BY <2>1, AccountAssumption DEF RowInv, TypeInv, ProcType, Connecting
  <2>3. \A q \in Procs : Connecting(q)' => Connecting(q) /\ proc'[q].id = proc[q].id
    BY DEF StillConnects
  <2>4. \A q \in Procs : Connecting(q)' /\ proc'[q].id = proc'[p].id => p = q
    BY <2>1, <2>3 DEF RowInv
  <2>5. ASSUME proc'[p].pc = "row" PROVE Covered(proc[p].id)'
    <3>1. CASE proc[p].pc = "row"
      <4>1. Covered(proc[p].id)
        BY <2>1, <3>1 DEF RowInv
      <4>2. ~(\A q \in Procs : Connecting(q)' => proc'[q].id # proc[p].id)
        BY <1>2, <2>1
      <4>3. bundle'[proc[p].id] # 0 \/ proc[p].id \in dropped'
        BY <2>2, <4>1, <4>2 DEF StaysCovered, Covered
      <4> QED BY <2>1, <4>3 DEF Covered
    <3>2. CASE proc[p].pc # "row"
      BY <1>2, <2>5, <3>2 DEF StillConnects
    <3> QED BY <3>1, <3>2
  <2> QED BY <2>1, <2>2, <2>4, <2>5
<1> QED BY <1>1, <1>2 DEF RowInv

LEMMA MovedConnects ==
  ASSUME NEW p \in Procs, NEW op, NEW pc, NEW id, NEW n, Moved(p, op, pc, id, n), op # "connect"
  PROVE  (\A q \in Procs : StillConnects(q)) /\ ~Connecting(p)'
  BY DEF Moved, StillConnects, Connecting

\* Steps that have nothing to do with the connection of a new account
LEMMA OrdinaryKeeps ==
  ASSUME TypeInv, RotationInv, RowInv, NEW p \in Procs, Ordinary(p),
         \/ BeginCall(p) \/ BeginValidate(p) \/ Load(p) \/ Use(p) \/ UseAgain(p) \/ Mark(p)
         \/ Refresh(p) \/ Reload(p) \/ Present(p) \/ StoreFresh(p) \/ Leave(p)
         \/ BeginDisconnect(p) \/ LoadOld(p) \/ Revoke(p) \/ DeleteBundle(p) \/ DropRow(p)
  PROVE  RowInv'
<1>1. \A q \in Procs : StillConnects(q)
  BY MovedConnects DEF Ordinary
<1>2. CASE UNCHANGED <<row, bundle, used, dropped>>
  BY <1>1, <1>2, RowKeeps DEF StaysCovered, Covered
<1>3. CASE StoreFresh(p)
  <2>1. UNCHANGED <<row, used, dropped>>
    BY <1>3 DEF StoreFresh
  <2>2. Holds(p) => proc[p].token \in 1 .. Issued
    BY DEF RotationInv, Known
  <2>3. Issued \in Nat /\ bundle \in [Ids -> Nat]
    BY SpentFacts DEF TypeInv, StoreType
  <2>4. proc[p].token # 0
    BY <1>3, <2>2, <2>3 DEF StoreFresh, At, Holds
  <2>5. bundle' = bundle \/ bundle' = [bundle EXCEPT ![proc[p].id] = proc[p].token]
    BY <1>3 DEF StoreFresh, Store
  <2>6. \A id \in Ids : Covered(id) => Covered(id)'
    BY <2>1, <2>3, <2>4, <2>5 DEF Covered
  <2> QED BY <1>1, <2>1, <2>6, RowKeeps DEF StaysCovered
<1>4. CASE DeleteBundle(p)
  <2>1. UNCHANGED <<row, used>>
    BY <1>4 DEF DeleteBundle
  <2>2. \/ UNCHANGED <<bundle, dropped>>
        \/ bundle' = [bundle EXCEPT ![proc[p].id] = 0] /\ dropped' = dropped \cup {proc[p].id}
    BY <1>4 DEF DeleteBundle
  <2>3. \A id \in Ids : Covered(id) => Covered(id)'
    BY <2>2 DEF Covered, TypeInv, StoreType
  <2> QED BY <1>1, <2>1, <2>3, RowKeeps DEF StaysCovered
<1>5. CASE DropRow(p)
  <2>1. row' \in {row, NoId} /\ UNCHANGED <<bundle, used, dropped>>
    BY <1>5 DEF DropRow, history
  <2> QED BY <1>1, <2>1, RowKeeps DEF StaysCovered, Covered
<1> QED
  BY <1>2, <1>3, <1>4, <1>5
     DEF BeginCall, BeginValidate, Load, Use, UseAgain, Mark, Refresh, Reload, Present, Leave,
         BeginDisconnect, LoadOld, Revoke, durable, history

LEMMA ConnectKeeps ==
  ASSUME TypeInv, RotationInv, RowInv, NEW p \in Procs,
         BeginConnect(p) \/ StoreConnected(p) \/ WriteRow(p) \/ Undo(p), ConnectMoves(p)
  PROVE  RowInv'
<1>0. /\ bundle \in [Ids -> Nat] /\ Issued \in Nat
      /\ row # NoId => row \in Ids
      /\ \A q \in Procs : Connecting(q) => proc[q].id \in Ids /\ proc[q].id # NoId
  BY SpentFacts, AccountAssumption DEF TypeInv, StoreType, ProcType, Connecting
<1>1. CASE BeginConnect(p)
  <2>0. UNCHANGED <<row, bundle, dropped>>
    BY <1>1 DEF BeginConnect, history
  <2>1. ~StoreConnected(p) /\ ~WriteRow(p) /\ ~Undo(p) /\ ~Connecting(p)
    BY <1>1 DEF BeginConnect, Enter, Idle, StoreConnected, WriteRow, Undo, At, Connecting
  <2>2. CASE Moved(p, "reconnect", "store", row, Issued + 1) /\ UNCHANGED used
    BY <2>0, <2>2, MovedConnects, RowKeeps DEF StaysCovered, Covered
  <2>3. CASE /\ row = NoId /\ NewId \in Ids \ used
             /\ Moved(p, "connect", "store", NewId, Issued + 1) /\ used' = used \cup {NewId}
    <3>1. \A q \in Procs : q # p => proc'[q] = proc[q]
      BY <2>3 DEF Moved
    <3>2. Connecting(p)' /\ proc'[p].id = NewId /\ proc'[p].pc = "store"
      BY <2>3 DEF Moved, Connecting
    <3>3. \A q \in Procs : Connecting(q) => proc[q].id # NewId
      BY <2>3 DEF RowInv
    <3>4. \A q \in Procs : q # p /\ Connecting(q)' => Connecting(q)
      BY <3>1 DEF Connecting
    <3>5. NewId # row'
      BY <2>0, <2>3, AccountAssumption
    <3>6. ASSUME NEW q \in Procs, Connecting(q)'
          PROVE  /\ proc'[q].id \in used' /\ proc'[q].id # row'
                 /\ \A r \in Procs : Connecting(r)' /\ proc'[r].id = proc'[q].id => q = r
                 /\ proc'[q].pc = "row" => Covered(proc[q].id)'
      <4>1. CASE q = p
        BY <2>3, <3>1, <3>2, <3>3, <3>4, <3>5, <4>1
      <4>2. CASE q # p
        <5>1. Connecting(q) /\ proc'[q] = proc[q]
          BY <3>1, <3>4, <3>6, <4>2
        <5>2. /\ proc'[q].id \in used' /\ proc'[q].id # row'
              /\ proc'[q].pc = "row" => Covered(proc[q].id)'
          BY <2>0, <2>3, <5>1 DEF RowInv, Covered
        <5>3. \A r \in Procs : Connecting(r)' /\ proc'[r].id = proc'[q].id => q = r
          BY <3>1, <3>2, <3>3, <3>4, <5>1 DEF RowInv
        <5> QED BY <5>2, <5>3
      <4> QED BY <4>1, <4>2
    <3>7. row' = NoId
      BY <2>0, <2>3
    <3> QED BY <3>6, <3>7 DEF RowInv
  <2> QED BY <2>1, <2>2, <2>3 DEF ConnectMoves
<1>2. CASE StoreConnected(p)
  <2>0. UNCHANGED <<row, used, dropped>>
    BY <1>2 DEF StoreConnected
  <2>1. ~BeginConnect(p) /\ ~WriteRow(p) /\ ~Undo(p) /\ Holds(p) /\ proc[p].id \in Ids
    <3>1. ProcType /\ At(p, {"connect", "reconnect"}, "store")
      BY <1>2 DEF StoreConnected, TypeInv
    <3>2. proc[p].id \in Ids
      BY <3>1, OfAccount
    <3> QED BY <3>1, <3>2 DEF BeginConnect, Enter, Idle, WriteRow, Undo, At, Holds
  <2>2. proc[p].token # 0
    <3>1. proc[p].token \in 1 .. Issued
      BY <2>1 DEF RotationInv, Known
    <3> QED BY <1>0, <3>1
  <2>3. CASE Store(proc[p].id, proc[p].token) /\ Moved(p, proc[p].op, "row", proc[p].id, 0)
    <3>1. bundle'[proc[p].id] # 0 /\ \A id \in Ids : Covered(id) => Covered(id)'
      BY <1>0, <2>0, <2>1, <2>2, <2>3 DEF Store, Covered
    <3>2. \A q \in Procs : StillConnects(q)
      BY <2>3, <3>1 DEF Moved, StillConnects, Connecting, Covered
    <3> QED BY <2>0, <3>1, <3>2, RowKeeps DEF StaysCovered
  <2>4. CASE Refused(p) /\ UNCHANGED <<bundle, stored>>
    <3>1. Moved(p, "none", "idle", NoId, 0)
      BY <2>4, Moves DEF Refused, TypeInv
    <3> QED BY <2>0, <2>4, <3>1, MovedConnects, RowKeeps DEF StaysCovered, Covered
  <2>5. Store(proc[p].id, proc[p].token) => Moved(p, proc[p].op, "row", proc[p].id, 0) \/ Refused(p)
    BY <1>2, Moves DEF StoreConnected, TypeInv, PCs
  <2>6. CASE Store(proc[p].id, proc[p].token) /\ GotoWith(p, "row", 0)
    BY <2>3, <2>6, Moves DEF TypeInv, PCs
  <2> QED BY <1>2, <2>4, <2>6 DEF StoreConnected
<1>3. CASE WriteRow(p)
  <2>0. UNCHANGED <<bundle, used, dropped>> /\ \A id \in Ids : StaysCovered(id)
    BY <1>3 DEF WriteRow, history, StaysCovered, Covered
  <2>1. ProcType /\ "undo" \in PCs
    BY DEF TypeInv, PCs
  <2>2. CASE UNCHANGED row /\ End(p)
    <3>1. Moved(p, "none", "idle", NoId, 0)
      BY <2>1, <2>2, Moves
    <3> QED BY <2>0, <2>2, <3>1, MovedConnects, RowKeeps
  <2>3. CASE UNCHANGED row /\ Goto(p, "undo")
    <3>1. Moved(p, proc[p].op, "undo", proc[p].id, proc[p].token)
      BY <2>1, <2>3, Moves
    <3>2. \A q \in Procs : StillConnects(q)
      BY <3>1 DEF Moved, StillConnects, Connecting
    <3> QED BY <2>0, <2>3, <3>2, RowKeeps
  <2>4. CASE At(p, {"connect"}, "row") /\ row = NoId /\ row' = proc[p].id /\ End(p)
    <3>1. Moved(p, "none", "idle", NoId, 0)
      BY <2>1, <2>4, Moves
    <3>2. Connecting(p) /\ proc[p].pc = "row"
      BY <2>4 DEF At, Connecting
    <3>3. row' \in used' /\ Covered(row)'
      BY <2>0, <2>4, <3>2 DEF RowInv, Covered
    <3>4. \A q \in Procs : Connecting(q)' => q # p /\ Connecting(q) /\ proc'[q] = proc[q]
      BY <3>1 DEF Moved, Connecting
    <3>5. \A q \in Procs : Connecting(q)' => proc'[q].id # row'
      BY <2>4, <3>2, <3>4 DEF RowInv
    <3>6. \A q \in Procs : Connecting(q)' =>
            proc'[q].id \in used' /\ (proc'[q].pc = "row" => Covered(proc[q].id)')
      BY <2>0, <3>4 DEF RowInv, Covered
    <3>7. \A q, r \in Procs : Connecting(q)' /\ Connecting(r)' /\ proc'[r].id = proc'[q].id => q = r
      BY <3>4 DEF RowInv
    <3> QED BY <3>3, <3>5, <3>6, <3>7 DEF RowInv
  <2> QED BY <1>3, <2>2, <2>3, <2>4 DEF WriteRow
<1>4. CASE Undo(p)
  <2>0. UNCHANGED <<row, used, dropped>> /\ Connecting(p) /\ ProcType
    BY <1>4 DEF Undo, At, Connecting, TypeInv, history
  <2>1. bundle' = bundle \/ bundle' = [bundle EXCEPT ![proc[p].id] = 0]
    BY <1>4 DEF Undo
  <2>2. Moved(p, "none", "idle", NoId, 0)
    BY <1>4, <2>0, Moves DEF Undo
  <2>3. \A q \in Procs : Connecting(q)' => q # p /\ Connecting(q) /\ proc'[q].id = proc[q].id
    BY <2>2 DEF Moved, Connecting
  <2>4. ASSUME NEW id \in Ids PROVE StaysCovered(id)
    <3>1. CASE id = proc[p].id
      BY <2>0, <2>3, <3>1 DEF RowInv, StaysCovered
    <3>2. CASE id # proc[p].id
      BY <1>0, <2>0, <2>1, <3>2 DEF StaysCovered, Covered
    <3> QED BY <3>1, <3>2
  <2> QED BY <2>0, <2>2, <2>4, MovedConnects, RowKeeps
<1> QED BY <1>1, <1>2, <1>3, <1>4

LEMMA RowStep ==
  ASSUME TypeInv, RotationInv, BoundInv, RowInv, [Next]_vars PROVE RowInv'
<1>0. Known /\ Carried
  BY DEF RotationInv, BoundInv
<1>1. CASE UNCHANGED vars
  <2>1. UNCHANGED <<row, used, bundle, dropped, proc>>
    BY <1>1 DEF vars, durable, history
  <2> QED BY <2>1 DEF RowInv, Connecting, Covered
<1>2. CASE Crash
  <2>1. UNCHANGED <<row, used, bundle, dropped>> /\ \A q \in Procs : ~Connecting(q)'
    BY <1>2 DEF Crash, durable, history, Connecting, Idle
  <2> QED BY <2>1 DEF RowInv, Covered
<1>3. ASSUME NEW p \in Procs, Publish(p) PROVE RowInv'
  <2>1. \A q \in Procs : /\ proc'[q].op = proc[q].op /\ proc'[q].id = proc[q].id
                         /\ q # p => proc'[q] = proc[q] \/ proc'[q].pc \in {"reconnect", "use again"}
                         /\ proc'[p].pc = "leave"
    BY <1>3, PublishMoves
  <2>2. \A q \in Procs : StillConnects(q)
    BY <2>1 DEF StillConnects, Connecting
  <2>3. UNCHANGED <<row, used, bundle, dropped>>
    BY <1>3 DEF Publish, durable, history
  <2> QED BY <2>2, <2>3, RowKeeps DEF StaysCovered, Covered
<1>4. ASSUME NEW p \in Procs, Begin(p) \/ GoesOn(p), ~Publish(p) PROVE RowInv'
  <2>1. CASE BeginConnect(p) \/ StoreConnected(p) \/ WriteRow(p) \/ Undo(p)
    BY <2>1, ConnectMoved, ConnectKeeps
  <2>2. CASE ~(BeginConnect(p) \/ StoreConnected(p) \/ WriteRow(p) \/ Undo(p))
    <3>1. \/ BeginCall(p) \/ BeginValidate(p) \/ Load(p) \/ Use(p) \/ UseAgain(p) \/ Mark(p)
          \/ Refresh(p) \/ Reload(p) \/ Present(p) \/ StoreFresh(p) \/ Leave(p)
          \/ BeginDisconnect(p) \/ LoadOld(p) \/ Revoke(p) \/ DeleteBundle(p) \/ DropRow(p)
      BY <1>4, <2>2 DEF Begin, GoesOn
    <3> QED BY <1>0, <3>1, UseOrdinary, RefreshOrdinary, DisconnectOrdinary, OrdinaryKeeps
  <2> QED BY <2>1, <2>2
<1> QED BY <1>1, <1>2, <1>3, <1>4 DEF Next

\* No account is in the database without its bundle in the credential store, unless a Disconnect
\* has deleted the bundle: neither calls that connect the same account together, nor a write or
\* a compensation that fails, nor a crash between the two leaves such a row
THEOREM RowsHaveBundles == Spec => []RowHasBundle
<1> DEFINE Inv == TypeInv /\ OneLeader /\ RotationInv /\ BoundInv /\ RowInv
<1>1. Init => Inv
  <2>1. Init => RowInv
    BY DEF Init, RowInv, Connecting, Idle
  <2> QED BY <2>1, RotationInit, BoundInit
<1>2. Inv /\ [Next]_vars => Inv'
  BY TypeStep, RotationStep, BoundStep, RowStep
<1>3. Inv => RowHasBundle
  BY DEF RowInv, Covered, RowHasBundle
<1> QED BY <1>1, <1>2, <1>3, PTL DEF Spec

=============================================================================
