--------------------------- MODULE SessionRotation ---------------------------
(***************************************************************************)
(* A signed-in installation and the api: SessionIdentityService, the 401   *)
(* interceptor and logout on one side, SessionService.Refresh and Revoke   *)
(* on the other.                                                           *)
(*                                                                         *)
(* A session is a refresh token with the access token issued beside it;    *)
(* rotating it revokes the refresh token and mints another session.  The   *)
(* app is one isolate: code between two awaits is one step.  The three     *)
(* secure-storage cells are one: the next start needs all of them.         *)
(***************************************************************************)
EXTENDS Integers, FiniteSets

CONSTANTS
    Sessions,       \* refresh_tokens rows, each with its access token
    Rotations,      \* calls of _rotate
    Requests,       \* calls of the api client that need a session
    None,
    MaxFaults,      \* bound on failures, timeouts, crashes and storage errors
    MaxLogouts      \* bound on logouts

ASSUME NoneAssumption == None \notin Sessions \cup Rotations
ASSUME FaultAssumption == MaxFaults \in Nat

VARIABLES
    token,          \* session |-> its refresh_tokens row and the age of its access token
    rowLock,        \* session |-> rotation whose transaction has revoked it
    rot,            \* rotation |-> its two ends
    req,            \* request |-> where it is and the session it carries
    logout,         \* the logout in progress
    running,        \* the app's process lives
    cached,         \* _cached
    stored,         \* the session in secure storage
    refreshFuture,  \* _refreshFuture
    saving,         \* session a sign-in has persisted and not yet cached
    faults,         \* number of faults so far
    loggedOut       \* history: sessions a logout has presented

server == <<token, rowLock>>
app == <<running, cached, stored, refreshFuture, saving>>
vars == <<server, rot, req, logout, app, faults, loggedOut>>

\* age 0: fresh; 1: inside the client's 30 s leeway; 2: refused by the server.
Token == [state: {"unborn", "active", "revoked"}, parent: Sessions \cup {None}, age: 0..2]
Rotation == [kind: {"none", "refresh", "restore"}, session: Sessions \cup {None},
             srv: {"none", "sent", "checked", "revoking", "minted", "refused", "failed"},
             new: Sessions \cup {None}, got: Sessions \cup {None},
             cli: {"none", "waiting", "persist", "clear", "then", "done"}]
Request == [pc: {"new", "sent", "waiting", "ok", "error"}, carried: Sessions \cup {None},
            stale: Sessions \cup {None}, retried: BOOLEAN, on: Rotations \cup {None}]
Logout == [pc: {"none", "clear", "post", "checked"}, session: Sessions \cup {None}]

NoToken == [state |-> "unborn", parent |-> None, age |-> 0]
NoRotation == [kind |-> "none", session |-> None, srv |-> "none", new |-> None,
               got |-> None, cli |-> "none"]
NoRequest == [pc |-> "new", carried |-> None, stale |-> None, retried |-> FALSE, on |-> None]
NoLogout == [pc |-> "none", session |-> None]

TypeOK == /\ token \in [Sessions -> Token]
          /\ rowLock \in [Sessions -> Rotations \cup {None}]
          /\ rot \in [Rotations -> Rotation]
          /\ req \in [Requests -> Request]
          /\ logout \in Logout
          /\ running \in BOOLEAN
          /\ cached \in Sessions \cup {None}
          /\ stored \in Sessions \cup {None}
          /\ refreshFuture \in Rotations \cup {None}
          /\ saving \in Sessions \cup {None}
          /\ faults \in Nat
          /\ loggedOut \subseteq Sessions

----------------------------------------------------------------------------
Unborn == {s \in Sessions : token[s].state = "unborn"}
InFlight == {i \in Rotations : rot[i].srv \in {"sent", "checked", "revoking"}}

\* _isAccessTokenExpired
IsAccessTokenExpired(s) == token[s].age >= 1

Fault == faults < MaxFaults /\ faults' = faults + 1

\* An app that was signed in once and is not running.
Init == /\ \E s \in Sessions :
              /\ token = [t \in Sessions |-> IF t = s THEN [NoToken EXCEPT !.state = "active"] ELSE NoToken]
              /\ stored = s
        /\ rowLock = [s \in Sessions |-> None]
        /\ rot = [i \in Rotations |-> NoRotation]
        /\ req = [r \in Requests |-> NoRequest]
        /\ logout = NoLogout
        /\ running = FALSE
        /\ cached = None
        /\ refreshFuture = None
        /\ saving = None
        /\ faults = 0
        /\ loggedOut = {}

\* Access tokens age as long as a replacement can still be minted (a bound).
Age(s) == /\ token[s].state # "unborn" /\ token[s].age < 2
          /\ Cardinality(InFlight) < Cardinality(Unborn)
          /\ token' = [token EXCEPT ![s].age = @ + 1]
          /\ UNCHANGED <<rowLock, rot, req, logout, app, faults, loggedOut>>

----------------------------------------------------------------------------
(* SessionService *)

\* Refresh reads the row; a revoked one is refused at once.
ReadRefreshToken(i) ==
    /\ rot[i].srv = "sent"
    /\ rot' = [rot EXCEPT ![i] = [@ EXCEPT !.srv = IF token[rot[i].session].state = "active"
                                                   THEN "checked" ELSE "refused"]]
    /\ UNCHANGED <<server, req, logout, app, faults, loggedOut>>

\* Mutant: the revoke of a rotation does not look at revoked_at.
Revocable_Any(s) == TRUE

\* The where clause of RevokeRefreshTokenIfActive, on the row's newest version.
Revocable(s) == token[s].state = "active"

RevokeRefreshTokenIfActive(i) ==
    LET s == rot[i].session
    IN  /\ rot[i].srv = "checked"
        /\ rowLock[s] = None
        /\ rot' = [rot EXCEPT ![i] = [@ EXCEPT !.srv = IF Revocable(s) THEN "revoking" ELSE "refused"]]
        /\ rowLock' = [rowLock EXCEPT ![s] = IF Revocable(s) THEN i ELSE None]
        /\ UNCHANGED <<token, req, logout, app, faults, loggedOut>>

\* The replacement is stored and both writes commit.
CommitRotation(i) ==
    LET s == rot[i].session
    IN  /\ rot[i].srv = "revoking"
        /\ \E n \in Unborn :
              /\ token' = [token EXCEPT ![s] = [@ EXCEPT !.state = "revoked"],
                                        ![n] = [state |-> "active", parent |-> s, age |-> 0]]
              /\ rot' = [rot EXCEPT ![i] = [@ EXCEPT !.srv = "minted", !.new = n]]
        /\ rowLock' = [rowLock EXCEPT ![s] = None]
        /\ UNCHANGED <<req, logout, app, faults, loggedOut>>

\* Mutant: the revoke commits on its own, without the replacement.
FailRotation_KeepsRevoke(i) ==
    /\ Fault
    /\ i \in InFlight
    /\ rot' = [rot EXCEPT ![i] = [@ EXCEPT !.srv = "failed"]]
    /\ rowLock' = [s \in Sessions |-> IF rowLock[s] = i THEN None ELSE rowLock[s]]
    /\ token' = [s \in Sessions |-> IF rowLock[s] = i THEN [token[s] EXCEPT !.state = "revoked"]
                                    ELSE token[s]]
    /\ UNCHANGED <<req, logout, app, loggedOut>>

\* The request never arrives, or the server fails it: WithinTx rolls back.
FailRotation(i) ==
    /\ Fault
    /\ i \in InFlight
    /\ rot' = [rot EXCEPT ![i] = [@ EXCEPT !.srv = "failed"]]
    /\ rowLock' = [s \in Sessions |-> IF rowLock[s] = i THEN None ELSE rowLock[s]]
    /\ UNCHANGED <<token, req, logout, app, loggedOut>>

----------------------------------------------------------------------------
(* SessionIdentityService *)

\* _rotate posts the refresh token.
Posted(i, kind, s) ==
    rot' = [rot EXCEPT ![i] = [NoRotation EXCEPT !.kind = kind, !.session = s,
                                                 !.srv = "sent", !.cli = "waiting"]]

\* SessionNotifier.build: restore rotates the stored session, if there is one.
Restore ==
    /\ ~running
    /\ running' = TRUE
    /\ IF stored = None THEN UNCHANGED rot
       ELSE \E i \in Rotations : rot[i].kind = "none" /\ Posted(i, "restore", stored)
    /\ UNCHANGED <<server, req, logout, cached, stored, refreshFuture, saving, faults, loggedOut>>

\* Mutant: every caller starts a rotation of its own.
SharedRotation_None == None

\* _refreshFuture ??=
SharedRotation == refreshFuture

\* What refreshIfExpired does for a caller; i is the rotation it will wait for.
RefreshIfExpired(i) ==
    IF SharedRotation # None
    THEN i = SharedRotation /\ UNCHANGED <<rot, refreshFuture>>
    ELSE /\ rot[i].kind = "none"
         /\ Posted(i, "refresh", cached)
         /\ refreshFuture' = i

\* SessionNotifier.refreshIfNeeded, when the app comes to the foreground.
RefreshIfNeeded(i) ==
    /\ running
    /\ cached # None /\ IsAccessTokenExpired(cached)
    /\ RefreshIfExpired(i)
    /\ UNCHANGED <<server, req, logout, running, cached, stored, saving, faults, loggedOut>>

\* The answer reaches the client: a pair to persist, or a DioException.
RotationAnswered(i) ==
    /\ rot[i].cli = "waiting"
    /\ rot[i].srv \in {"minted", "refused", "failed"}
    /\ rot' = [rot EXCEPT ![i] = [@ EXCEPT !.got = rot[i].new,
                                           !.cli = IF rot[i].srv = "minted" THEN "persist" ELSE "clear"]]
    /\ UNCHANGED <<server, req, logout, app, faults, loggedOut>>

\* The timeout is a DioException too, whatever the server does.
RotationTimeout(i) ==
    /\ Fault
    /\ rot[i].cli = "waiting"
    /\ rot' = [rot EXCEPT ![i] = [@ EXCEPT !.cli = "clear"]]
    /\ UNCHANGED <<server, req, logout, app, loggedOut>>

\* _persist or _clear
StoreRotation(i) ==
    /\ rot[i].cli \in {"persist", "clear"}
    /\ stored' = rot[i].got
    /\ rot' = [rot EXCEPT ![i] = [@ EXCEPT !.cli = "then"]]
    /\ UNCHANGED <<server, req, logout, running, cached, refreshFuture, saving, faults, loggedOut>>

Waiters(i) == {r \in Requests : req[r].pc = "waiting" /\ req[r].on = i}

\* Mutant: a failed refresh returns without handing the error on.
Resumed_Silent(i, refreshed, now) ==
    [r \in Requests |->
        IF r \notin Waiters(i) THEN req[r]
        ELSE IF refreshed \in {None, req[r].stale} THEN [req[r] EXCEPT !.on = None]
        ELSE [req[r] EXCEPT !.pc = "sent", !.on = None, !.carried = IF now = None THEN @ ELSE now]]

\* The interceptor goes on with what refreshIfExpired returned: the error, or the
\* request once more with the header BearerInterceptor sets from cached.
Resumed(i, refreshed, now) ==
    [r \in Requests |->
        IF r \notin Waiters(i) THEN req[r]
        ELSE IF refreshed \in {None, req[r].stale} THEN [req[r] EXCEPT !.pc = "error", !.on = None]
        ELSE [req[r] EXCEPT !.pc = "sent", !.on = None, !.carried = IF now = None THEN @ ELSE now]]

\* The then of the future, and every awaiting request with it.
FinishRotation(i) ==
    /\ rot[i].cli = "then"
    /\ cached' = rot[i].got
    /\ refreshFuture' = IF rot[i].kind = "refresh" THEN None ELSE refreshFuture
    /\ req' = Resumed(i, rot[i].got, rot[i].got)
    /\ rot' = [rot EXCEPT ![i] = [@ EXCEPT !.cli = "done"]]
    /\ UNCHANGED <<server, logout, running, stored, saving, faults, loggedOut>>

\* onError: the storage write throws, the cached session stays as it is.
StorageError(i) ==
    /\ Fault
    /\ rot[i].cli \in {"persist", "clear"}
    /\ refreshFuture' = IF rot[i].kind = "refresh" THEN None ELSE refreshFuture
    /\ req' = Resumed(i, rot[i].session, cached)
    /\ rot' = [rot EXCEPT ![i] = [@ EXCEPT !.cli = "done"]]
    /\ UNCHANGED <<server, logout, running, cached, stored, saving, loggedOut>>

\* A guest signs in (SignIn): save persists the session ...
Save(n) ==
    /\ running /\ cached = None /\ saving = None /\ logout.pc = "none"
    /\ n \in Unborn /\ Cardinality(InFlight) + 1 < Cardinality(Unborn)
    /\ token' = [token EXCEPT ![n] = [NoToken EXCEPT !.state = "active"]]
    /\ stored' = n
    /\ saving' = n
    /\ UNCHANGED <<rowLock, rot, req, logout, running, cached, refreshFuture, faults, loggedOut>>

\* ... and caches it.
SaveCached ==
    /\ saving # None
    /\ cached' = saving
    /\ saving' = None
    /\ UNCHANGED <<server, rot, req, logout, running, stored, refreshFuture, faults, loggedOut>>

\* The refresh token a logout presents: the cached one, or else the stored one.
LogoutPresents == IF cached # None THEN cached ELSE stored

\* Mutant: a logout with nothing to present goes on to revoke it.
StartLogout_Nothing ==
    /\ running /\ logout.pc = "none" /\ Cardinality(loggedOut) < MaxLogouts
    /\ logout' = [pc |-> "clear", session |-> LogoutPresents]
    /\ cached' = None
    /\ loggedOut' = loggedOut \cup {LogoutPresents}
    /\ UNCHANGED <<server, rot, req, running, stored, refreshFuture, saving, faults>>

\* logout drops the cached session, then the stored one, then revokes.
StartLogout ==
    /\ running /\ logout.pc = "none" /\ Cardinality(loggedOut) < MaxLogouts
    /\ LogoutPresents # None
    /\ logout' = [pc |-> "clear", session |-> LogoutPresents]
    /\ cached' = None
    /\ loggedOut' = loggedOut \cup {LogoutPresents}
    /\ UNCHANGED <<server, rot, req, running, stored, refreshFuture, saving, faults>>

ClearStored ==
    /\ logout.pc = "clear"
    /\ stored' = None
    /\ logout' = [logout EXCEPT !.pc = "post"]
    /\ UNCHANGED <<server, rot, req, running, cached, refreshFuture, saving, faults, loggedOut>>

\* Revoke reads the row, behind RequireBearer: an expired access token is a 401
\* that the app swallows, and so is any other failure.
LogoutArrives ==
    /\ logout.pc = "post"
    /\ logout' = IF token[logout.session].age < 2 /\ token[logout.session].state = "active"
                 THEN [logout EXCEPT !.pc = "checked"] ELSE NoLogout
    /\ UNCHANGED <<server, rot, req, app, faults, loggedOut>>

\* RevokeRefreshToken, unconditional, after a rotation that holds the row.
RevokeRefreshToken ==
    /\ logout.pc = "checked"
    /\ rowLock[logout.session] = None
    /\ token' = [token EXCEPT ![logout.session] = [@ EXCEPT !.state = "revoked"]]
    /\ logout' = NoLogout
    /\ UNCHANGED <<rowLock, rot, req, app, faults, loggedOut>>

LogoutFails ==
    /\ Fault
    /\ logout.pc \in {"post", "checked"}
    /\ logout' = NoLogout
    /\ UNCHANGED <<server, rot, req, app, loggedOut>>

\* The process dies; what it had sent goes on at the server.
Crash ==
    /\ Fault
    /\ running
    /\ running' = FALSE
    /\ cached' = None
    /\ refreshFuture' = None
    /\ saving' = None
    /\ rot' = [i \in Rotations |-> IF rot[i].cli = "none" THEN rot[i] ELSE [rot[i] EXCEPT !.cli = "done"]]
    /\ req' = [r \in Requests |-> IF req[r].pc = "new" THEN req[r] ELSE [req[r] EXCEPT !.pc = "error", !.on = None]]
    /\ logout' = IF logout.pc = "checked" THEN logout ELSE NoLogout
    /\ UNCHANGED <<server, stored, loggedOut>>

----------------------------------------------------------------------------
(* The api client *)

Send(r) ==
    /\ running /\ cached # None
    /\ req[r].pc = "new"
    /\ req' = [req EXCEPT ![r] = [@ EXCEPT !.pc = "sent", !.carried = cached]]
    /\ UNCHANGED <<server, rot, logout, app, faults, loggedOut>>

\* RequireBearer lets the request through.
RequestOk(r) ==
    /\ req[r].pc = "sent"
    /\ token[req[r].carried].age < 2
    /\ req' = [req EXCEPT ![r] = [@ EXCEPT !.pc = "ok"]]
    /\ UNCHANGED <<server, rot, logout, app, faults, loggedOut>>

Surfaced(r) == [req EXCEPT ![r] = [@ EXCEPT !.pc = "error"]]

\* SessionRefreshInterceptor.onError refreshes for a first 401 of a signed-in
\* app, and refreshIfExpired is more than a no-op.
Refreshes(r) == ~req[r].retried /\ cached # None /\ IsAccessTokenExpired(cached)

Surface401(r) ==
    /\ req[r].pc = "sent"
    /\ token[req[r].carried].age = 2
    /\ ~Refreshes(r)
    /\ req' = Surfaced(r)
    /\ UNCHANGED <<server, rot, logout, app, faults, loggedOut>>

AwaitRefresh(r, i) ==
    /\ req[r].pc = "sent"
    /\ token[req[r].carried].age = 2
    /\ Refreshes(r)
    /\ RefreshIfExpired(i)
    /\ req' = [req EXCEPT ![r] = [@ EXCEPT !.pc = "waiting", !.stale = cached, !.retried = TRUE,
                                           !.on = i]]
    /\ UNCHANGED <<server, logout, running, cached, stored, saving, faults, loggedOut>>

ServerStep(i) == ReadRefreshToken(i) \/ RevokeRefreshTokenIfActive(i) \/ CommitRotation(i)
ClientStep(i) == RotationAnswered(i) \/ StoreRotation(i) \/ FinishRotation(i)
RequestStep(r) == RequestOk(r) \/ Surface401(r) \/ \E i \in Rotations : AwaitRefresh(r, i)
LogoutStep == ClearStored \/ LogoutArrives \/ RevokeRefreshToken

Next ==
    \/ \E s \in Sessions : Age(s) \/ Save(s)
    \/ \E i \in Rotations :
          \/ ServerStep(i) \/ FailRotation(i)
          \/ ClientStep(i) \/ RotationTimeout(i) \/ StorageError(i)
          \/ RefreshIfNeeded(i)
    \/ \E r \in Requests : Send(r) \/ RequestStep(r)
    \/ Restore \/ SaveCached \/ StartLogout \/ LogoutStep \/ LogoutFails \/ Crash

Spec == Init /\ [][Next]_vars

\* The server answers and the event loop runs; nothing is assumed of the user.
FairSpec == /\ Spec
            /\ \A i \in Rotations : WF_vars(ServerStep(i)) /\ WF_vars(ClientStep(i))
            /\ \A r \in Requests : WF_vars(RequestStep(r))
            /\ WF_vars(LogoutStep)

----------------------------------------------------------------------------
(* Properties *)

\* One refresh token gives at most one replacement, however many rotations present
\* it at once, after a crash or a storage error (RevokeRefreshTokenIfActive).
OneReplacementPerToken ==
    \A s \in Sessions : \A m, n \in Sessions : token[m].parent = s /\ token[n].parent = s => m = n

\* A refresh token is dead only if its replacement exists or a logout presented
\* it: a rotation that fails half-way leaves the client a valid token.
RevokedHasSuccessor ==
    \A s \in Sessions : token[s].state = "revoked"
                           => s \in loggedOut \/ \E n \in Sessions : token[n].parent = s

\* Without a fault and without a logout nobody is signed out, whatever the overlap
\* of restore, resume and the 401s of several requests: the stored session is
\* valid, or its own rotation is under way.
NoSpuriousSignOut ==
    faults = 0 /\ loggedOut = {}
        => /\ stored # None
           /\ \/ token[stored].state = "active"
              \/ \E i \in Rotations : rot[i].session = stored /\ rot[i].cli \notin {"none", "done"}

\* Every request that was sent ends, although it may wait for a rotation that
\* others started.
EveryRequestEnds == \A r \in Requests : req[r].pc = "sent" ~> req[r].pc \in {"ok", "error"}

\* "clears local session state immediately": after a logout the app is a guest
\* until somebody signs in again.
LoggedOutStaysGuest ==
    [][cached = None /\ loggedOut # {} /\ running /\ saving = None => cached' = None]_vars

=============================================================================
