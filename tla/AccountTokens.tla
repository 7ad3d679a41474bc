---------------------------- MODULE AccountTokens ----------------------------
(***************************************************************************)
(* Connected accounts and their OAuth tokens (internal/domain/account):    *)
(* the row of an account is in the database, its token bundle in the       *)
(* credential store, and the refresh token of a bundle can be used once.   *)
(* Requests and the hourly validation call the service concurrently; only  *)
(* refreshing is serialised, one call for each account.                    *)
(*                                                                         *)
(* A call makes one step for each access to the database, to the           *)
(* credential store, to the provider or to the table of refreshes.  Each   *)
(* access may fail, a cancelled context included, and the process may die  *)
(* between any two.  The accounts are those of one user of one provider,   *)
(* which the database keeps unique.  Profiles, scopes, client IDs and the  *)
(* links of the destinations are left out.                                 *)
(*                                                                         *)
(* A bundle is a number: the n-th the provider has issued.                 *)
(***************************************************************************)
EXTENDS Integers, Sequences, Functions

CONSTANTS
  Ids,          \* account IDs
  NoId,
  Callers,      \* requests and connectors
  Worker,       \* the validation worker
  MaxRequests,  \* bound on the calls of Callers
  MaxTokens,    \* bound on the bundles issued; then the provider lets every refresh token expire
  MaxFaults     \* bound on the accesses that fail and the deaths of the process, together

ASSUME AccountAssumption ==
  /\ NoId \notin Ids /\ Worker \notin Callers
  /\ MaxRequests \in Nat /\ MaxTokens \in Nat /\ MaxFaults \in Nat

VARIABLES
  row,       \* the account in the database, NoId if there is none
  status,    \* its status, "connected" while there is none
  bundle,    \* bundle[id]: the bundle in the credential store, 0 if there is none
  used,      \* the account IDs that have been generated
  parent,    \* provider: parent[n] is the bundle whose refresh token was spent for bundle n, or 0
  live,      \* provider: the access tokens it accepts
  revoked,   \* provider: the bundles that were revoked
  flight,    \* Service.refreshInFlight
  proc,      \* proc[p]: what call p is doing
  requests, failures, crashes,
  stored,    \* history: the bundles that have been in the credential store
  replayed,  \* history: the bundles whose refresh token was presented when it was spent
  dropped    \* history: the accounts whose bundle a Disconnect has deleted

durable  == <<row, status, bundle, used>>
provider == <<parent, live, revoked>>
counts   == <<requests, failures, crashes>>
history  == <<stored, replayed, dropped>>
vars     == <<durable, provider, flight, proc, counts, history>>

Procs  == Callers \cup {Worker}
Idle   == [op |-> "none", pc |-> "idle", id |-> NoId, token |-> 0]
NoCall == [state |-> "none", answer |-> 0]
Failed == 0                       \* the answer of a refresh that failed

Issued  == Len(parent)
Spent   == Range(parent) \ {0}

\* Can the provider still be asked for a new bundle with the refresh token of bundle n?
Refreshable(n) == n \in 1..Issued /\ n \notin Spent \cup revoked /\ Issued < MaxTokens

Init ==
  /\ row = NoId /\ status = "connected" /\ bundle = [id \in Ids |-> 0] /\ used = {}
  /\ parent = <<>> /\ live = {} /\ revoked = {}
  /\ flight = [id \in Ids |-> NoCall]
  /\ proc = [p \in Procs |-> Idle]
  /\ requests = 0 /\ failures = 0 /\ crashes = 0
  /\ stored = {} /\ replayed = {} /\ dropped = {}

-----------------------------------------------------------------------------
(* Steps of a call *)

Users == {"call", "validate"}     \* the calls that use a token

At(p, ops, pc) == proc[p].op \in ops /\ proc[p].pc = pc

Goto(p, pc)            == proc' = [proc EXCEPT ![p].pc = pc]
GotoWith(p, pc, token) == proc' = [proc EXCEPT ![p].pc = pc, ![p].token = token]
End(p)                 == proc' = [proc EXCEPT ![p] = Idle]
Enter(p, op, pc, id, token) ==
  /\ proc[p] = Idle
  /\ IF p = Worker THEN UNCHANGED requests
     ELSE requests < MaxRequests /\ requests' = requests + 1
  /\ proc' = [proc EXCEPT ![p] = [op |-> op, pc |-> pc, id |-> id, token |-> token]]

\* An access that fails
Fails == failures + crashes < MaxFaults /\ failures' = failures + 1 /\ UNCHANGED <<requests, crashes>>

Issue(old) == parent' = Append(parent, old) /\ live' = live \cup {Issued + 1}

Revoked(n)  == revoked' = revoked \cup {n} /\ live' = live \ {n}

\* UpdateAccount with status s: no row is made of one that has been deleted
Update(p, s) == status' = IF row = proc[p].id THEN s ELSE status

\* StoreTokenBundle
Store(id, n) == bundle' = [bundle EXCEPT ![id] = n] /\ stored' = stored \cup {n}

-----------------------------------------------------------------------------
(* WithFreshToken ("call") and validateAccount ("validate") *)

\* GetAccount, or the list of the worker
BeginCall(p) ==
  /\ p \in Callers
  /\ row # NoId /\ status = "connected"
  /\ Enter(p, "call", "load", row, 0)
  /\ UNCHANGED <<durable, provider, flight, failures, crashes, history>>

BeginValidate(p) ==
  /\ row # NoId
  /\ Enter(p, "validate", "load", row, 0)
  /\ UNCHANGED <<durable, provider, flight, failures, crashes, history>>

Load(p) ==
  /\ At(p, Users, "load")
  /\ \/ /\ bundle[proc[p].id] # 0 /\ UNCHANGED counts
        /\ GotoWith(p, "use", bundle[proc[p].id])
     \/ bundle[proc[p].id] = 0 /\ End(p) /\ UNCHANGED counts
     \/ Fails /\ End(p)
  /\ UNCHANGED <<durable, provider, flight, history>>

\* The provider refuses the access token: it was revoked, or it has expired
Expires(p) == live' = live \ {proc[p].token}

\* fn, or ValidateToken, with the bundle that was loaded: a validation that cannot be made
\* is taken as refused
Use(p) ==
  /\ At(p, Users, "use")
  /\ \/ /\ proc[p].token \in live /\ UNCHANGED <<live, counts>>
        /\ IF proc[p].op = "call" THEN End(p) ELSE GotoWith(p, "connected", 0)
     \/ Expires(p) /\ GotoWith(p, "refresh", 0) /\ UNCHANGED counts
     \/ Fails /\ (IF proc[p].op = "call" THEN End(p) ELSE GotoWith(p, "refresh", 0)) /\ UNCHANGED live
  /\ UNCHANGED <<durable, parent, revoked, flight, history>>

\* ... and with the bundle of the refresh
UseAgain(p) ==
  /\ At(p, Users, "use again")
  /\ \/ /\ proc[p].token \in live /\ UNCHANGED <<live, counts>>
        /\ IF proc[p].op = "call" THEN End(p) ELSE GotoWith(p, "connected", 0)
     \/ Expires(p) /\ GotoWith(p, "reconnect", 0) /\ UNCHANGED counts
     \/ Fails /\ (IF proc[p].op = "call" THEN End(p) ELSE GotoWith(p, "reconnect", 0)) /\ UNCHANGED live
  /\ UNCHANGED <<durable, parent, revoked, flight, history>>

\* markConnected or markReconnectRequired
Mark(p) ==
  /\ \/ At(p, {"validate"}, "connected") /\ Update(p, "connected") /\ UNCHANGED counts
     \/ At(p, Users, "reconnect") /\ Update(p, "reconnect_required") /\ UNCHANGED counts
     \/ At(p, {"validate"}, "connected") /\ Fails /\ UNCHANGED status
     \/ At(p, Users, "reconnect") /\ Fails /\ UNCHANGED status
  /\ End(p)
  /\ UNCHANGED <<row, bundle, used, provider, flight, history>>

-----------------------------------------------------------------------------
(* singleFlightRefresh and doRefresh *)

\* Where a call goes on with the answer of a refresh
Answered(r, answer) ==
  IF answer = Failed THEN [r EXCEPT !.pc = "reconnect", !.token = 0]
  ELSE [r EXCEPT !.pc = "use again", !.token = answer]

\* Mutant of Joins: every call makes a refresh of its own
JoinsNever(id) == FALSE

\* Is there a refresh of the account that a call waits for?
Joins(id) == flight[id].state # "none"

\* A call that comes between the close of "done" and the removal finds the answer there
Refresh(p) ==
  LET id == proc[p].id IN
  /\ At(p, Users, "refresh")
  /\ \/ Joins(id) /\ flight[id].state = "open" /\ Goto(p, "wait") /\ UNCHANGED flight
     \/ /\ Joins(id) /\ flight[id].state = "done" /\ UNCHANGED flight
        /\ proc' = [proc EXCEPT ![p] = Answered(@, flight[id].answer)]
     \/ /\ ~Joins(id) /\ Goto(p, "reload")
        /\ flight' = [flight EXCEPT ![id] = [state |-> "open", answer |-> 0]]
  /\ UNCHANGED <<durable, provider, counts, history>>

Reload(p) ==
  /\ At(p, Users, "reload")
  /\ \/ /\ bundle[proc[p].id] # 0 /\ UNCHANGED counts
        /\ GotoWith(p, "present", bundle[proc[p].id])
     \/ bundle[proc[p].id] = 0 /\ GotoWith(p, "publish", Failed) /\ UNCHANGED counts
     \/ Fails /\ GotoWith(p, "publish", Failed)
  /\ UNCHANGED <<durable, provider, flight, history>>

\* RefreshToken: a request that fails may have reached the provider
Present(p) ==
  LET n == proc[p].token IN
  /\ At(p, Users, "present")
  /\ replayed' = replayed \cup ({n} \cap Spent)
  /\ \/ Refreshable(n) /\ Issue(n) /\ GotoWith(p, "store", Issued + 1) /\ UNCHANGED counts
     \/ ~Refreshable(n) /\ GotoWith(p, "publish", Failed) /\ UNCHANGED <<parent, live, counts>>
     \/ Refreshable(n) /\ Fails /\ Issue(n) /\ GotoWith(p, "publish", Failed)
     \/ Fails /\ GotoWith(p, "publish", Failed) /\ UNCHANGED <<parent, live>>
  /\ UNCHANGED <<durable, revoked, flight, stored, dropped>>

\* The rotation must be durable before any caller may use the new bundle
StoreFresh(p) ==
  /\ At(p, Users, "store")
  /\ \/ Store(proc[p].id, proc[p].token) /\ Goto(p, "publish") /\ UNCHANGED counts
     \/ Fails /\ GotoWith(p, "publish", Failed) /\ UNCHANGED <<bundle, stored>>
  /\ UNCHANGED <<row, status, used, provider, flight, replayed, dropped>>

\* Mutant of Woken: those that wait are not told of a failure
WokenBySuccess(id, answer) ==
  {q \in Procs : proc[q].id = id /\ proc[q].pc = "wait" /\ answer # Failed}

\* Those that wait for the refresh of an account
Woken(id, answer) == {q \in Procs : proc[q].id = id /\ proc[q].pc = "wait"}

\* The answer is there, and "done" is closed: every call that waits goes on
Publish(p) ==
  LET id == proc[p].id  answer == proc[p].token IN
  /\ At(p, Users, "publish")
  /\ flight' = [flight EXCEPT ![id] = [state |-> "done", answer |-> answer]]
  /\ proc' = [q \in Procs |->
       IF q \in Woken(id, answer) THEN Answered(proc[q], answer)
       ELSE IF q = p THEN [proc[p] EXCEPT !.pc = "leave"] ELSE proc[q]]
  /\ UNCHANGED <<durable, provider, counts, history>>

\* Mutant of Removed: the refresh stays in the table
RemovedNever(id) == UNCHANGED flight

Removed(id) == flight' = [flight EXCEPT ![id] = NoCall]

Leave(p) ==
  /\ At(p, Users, "leave")
  /\ Removed(proc[p].id)
  /\ proc' = [proc EXCEPT ![p] = Answered(@, @.token)]
  /\ UNCHANGED <<durable, provider, counts, history>>

-----------------------------------------------------------------------------
(* FinalizeConnection, with the bundle of a new authorisation *)

NewId == CHOOSE id \in Ids : id \notin used

\* FindByProviderIdentity: the account is known ("reconnect"), or gets a new ID ("connect")
BeginConnect(p) ==
  /\ p \in Callers
  /\ Issued < MaxTokens /\ Issue(0)
  /\ \/ row # NoId /\ Enter(p, "reconnect", "store", row, Issued + 1) /\ UNCHANGED used
     \/ /\ row = NoId /\ Ids \ used # {} /\ used' = used \cup {NewId}
        /\ Enter(p, "connect", "store", NewId, Issued + 1)
  /\ UNCHANGED <<row, status, bundle, revoked, flight, failures, crashes, history>>

\* Mutant of Refused: the row is written although the bundle could not be stored
RefusedNever(p) == Fails /\ GotoWith(p, "row", 0)

Refused(p) == Fails /\ End(p)

StoreConnected(p) ==
  /\ At(p, {"connect", "reconnect"}, "store")
  /\ \/ Store(proc[p].id, proc[p].token) /\ GotoWith(p, "row", 0) /\ UNCHANGED counts
     \/ Refused(p) /\ UNCHANGED <<bundle, stored>>
  /\ UNCHANGED <<row, status, used, provider, flight, replayed, dropped>>

\* UpdateAccount, or CreateAccount: another row of the same user is a conflict
WriteRow(p) ==
  /\ \/ At(p, {"reconnect"}, "row") /\ Update(p, "connected") /\ End(p) /\ UNCHANGED <<row, counts>>
     \/ At(p, {"reconnect"}, "row") /\ Fails /\ End(p) /\ UNCHANGED <<row, status>>
     \/ /\ At(p, {"connect"}, "row") /\ row = NoId
        /\ row' = proc[p].id /\ status' = "connected" /\ End(p) /\ UNCHANGED counts
     \/ At(p, {"connect"}, "row") /\ row # NoId /\ Goto(p, "undo") /\ UNCHANGED <<row, status, counts>>
     \/ At(p, {"connect"}, "row") /\ Fails /\ Goto(p, "undo") /\ UNCHANGED <<row, status>>
  /\ UNCHANGED <<bundle, used, provider, flight, history>>

\* The compensation: a failure of it is logged
Undo(p) ==
  /\ At(p, {"connect"}, "undo") /\ End(p)
  /\ \/ bundle' = [bundle EXCEPT ![proc[p].id] = 0] /\ UNCHANGED counts
     \/ Fails /\ UNCHANGED bundle
  /\ UNCHANGED <<row, status, used, provider, flight, history>>

-----------------------------------------------------------------------------
(* Disconnect *)

BeginDisconnect(p) ==
  /\ p \in Callers /\ row # NoId
  /\ Enter(p, "disconnect", "load", row, 0)
  /\ UNCHANGED <<durable, provider, flight, failures, crashes, history>>

\* The revocation is skipped where there is no bundle, and where the client ID cannot be read
LoadOld(p) ==
  /\ At(p, {"disconnect"}, "load")
  /\ \/ /\ bundle[proc[p].id] # 0 /\ UNCHANGED counts
        /\ GotoWith(p, "revoke", bundle[proc[p].id])
     \/ Goto(p, "delete") /\ UNCHANGED counts
     \/ Fails /\ End(p)
  /\ UNCHANGED <<durable, provider, flight, history>>

\* RevokeToken: a request that fails may have reached the provider
Revoke(p) ==
  /\ At(p, {"disconnect"}, "revoke")
  /\ \/ GotoWith(p, "delete", 0) /\ Revoked(proc[p].token) /\ UNCHANGED counts
     \/ Fails /\ End(p) /\ Revoked(proc[p].token)
     \/ Fails /\ End(p) /\ UNCHANGED <<live, revoked>>
  /\ UNCHANGED <<durable, parent, flight, history>>

DeleteBundle(p) ==
  /\ At(p, {"disconnect"}, "delete")
  /\ \/ /\ bundle' = [bundle EXCEPT ![proc[p].id] = 0] /\ Goto(p, "drop") /\ UNCHANGED counts
        /\ dropped' = dropped \cup {proc[p].id}
     \/ Fails /\ End(p) /\ UNCHANGED <<bundle, dropped>>
  /\ UNCHANGED <<row, status, used, provider, flight, stored, replayed>>

\* DeleteAccount: the status goes with the row
DropRow(p) ==
  /\ At(p, {"disconnect"}, "drop") /\ End(p)
  /\ \/ row = proc[p].id /\ row' = NoId /\ status' = "connected" /\ UNCHANGED counts
     \/ row # proc[p].id /\ UNCHANGED <<row, status, counts>>
     \/ Fails /\ UNCHANGED <<row, status>>
  /\ UNCHANGED <<bundle, used, provider, flight, history>>

-----------------------------------------------------------------------------
(* The death of the process *)

\* The process dies and is started again: what is durable is left
Crash ==
  /\ failures + crashes < MaxFaults /\ crashes' = crashes + 1
  /\ \E p \in Procs : proc[p] # Idle
  /\ proc' = [p \in Procs |-> Idle]
  /\ flight' = [id \in Ids |-> NoCall]
  /\ UNCHANGED <<durable, provider, requests, failures, history>>

-----------------------------------------------------------------------------
Begin(p) == BeginCall(p) \/ BeginValidate(p) \/ BeginConnect(p) \/ BeginDisconnect(p)

GoesOn(p) ==
  \/ Load(p) \/ Use(p) \/ UseAgain(p) \/ Mark(p)
  \/ Refresh(p) \/ Reload(p) \/ Present(p) \/ StoreFresh(p) \/ Publish(p) \/ Leave(p)
  \/ StoreConnected(p) \/ WriteRow(p) \/ Undo(p)
  \/ LoadOld(p) \/ Revoke(p) \/ DeleteBundle(p) \/ DropRow(p)

Next == \/ \E p \in Procs : Begin(p) \/ GoesOn(p)
        \/ Crash

(***************************************************************************)
(* Fairness: a call that has begun goes on, and the worker comes again to  *)
(* every account.  Nobody has to make a request.                           *)
(***************************************************************************)
Fairness == /\ \A p \in Procs : WF_vars(GoesOn(p))
            /\ WF_vars(BeginValidate(Worker))

Spec == Init /\ [][Next]_vars /\ Fairness

-----------------------------------------------------------------------------
(* Properties *)

PCs == {"idle", "load", "use", "use again", "connected", "reconnect", "refresh", "wait", "reload",
        "present", "store", "publish", "leave", "row", "undo", "revoke", "delete", "drop"}

\* Every variable has its type, and a refresh in the table is one that a call makes
TypeOK ==
  /\ row \in Ids \cup {NoId} /\ status \in {"connected", "reconnect_required"}
  /\ bundle \in [Ids -> 0..Issued] /\ used \subseteq Ids
  /\ parent \in Seq(0..MaxTokens) /\ Issued <= MaxTokens
  /\ live \subseteq 1..Issued /\ revoked \subseteq 1..Issued
  /\ flight \in [Ids -> [state : {"none", "open", "done"}, answer : 0..Issued]]
  /\ proc \in [Procs -> [op : {"none", "call", "validate", "connect", "reconnect", "disconnect"},
                         pc : PCs, id : Ids \cup {NoId}, token : 0..Issued]]
  /\ requests \in 0..MaxRequests /\ failures \in 0..MaxFaults /\ crashes \in 0..MaxFaults
  /\ \A id \in Ids : flight[id].state # "none" =>
       \E p \in Procs : proc[p].id = id /\ proc[p].pc \in {"reload", "present", "store", "publish", "leave"}

\* docs/provider-integrations/twitch.md, token lifecycle: a refresh token can be used once.  It is
\* presented a second time only if the bundle it was spent for never reached the credential store
RefreshTokenSpentOnce ==
  \A n \in replayed : \A m \in stored : parent[m] # n

\* service.go:417: no account is there without its bundle, unless a Disconnect has deleted it
RowHasBundle == row # NoId => bundle[row] # 0 \/ row \in dropped

Usable(n) == n \in live \/ Refreshable(n)

\* The status settles on the truth: whatever failed, whatever was cancelled or written late, the
\* validation comes again to say "connected" if, and only if, the bundle can be used
StatusSettles ==
  []<>(row # NoId /\ bundle[row] # 0 => (status = "connected" <=> Usable(bundle[row])))

=============================================================================
