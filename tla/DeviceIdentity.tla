--------------------------- MODULE DeviceIdentity ---------------------------
(***************************************************************************)
(* The anonymous device credential of one installation: the cached         *)
(* identity, the shared initialization and the two storage cells of        *)
(* DeviceIdentityService, POST /v1/devices and the device check behind it, *)
(* and the sign-in that drops a refused credential and tries once more.    *)
(*                                                                         *)
(* The app is one isolate: code between two awaits is one step.  Calls of  *)
(* secure storage take effect in the order in which they are made, and     *)
(* answer later.                                                           *)
(***************************************************************************)
EXTENDS Integers, FiniteSets

CONSTANTS
    Rows,           \* devices rows whose credential somebody still holds
    Calls,          \* runs of _loadOrRegister under way at one time
    Flows,          \* verifyCode calls of the login screen in one process
    None,
    MaxFaults       \* bound on failed calls, storage errors and ended processes

ASSUME NoneAssumption == None \notin Rows \cup Calls
ASSUME RowsAssumption == Rows # {}
ASSUME FaultAssumption == MaxFaults \in Nat

VARIABLES
    known,          \* devices rows the server accepts the credential of
    idCell,         \* device_id in secure storage
    tokenCell,      \* device_token in secure storage
    cached,         \* _cached
    initFuture,     \* _initFuture
    call,           \* a run of _loadOrRegister
    flow,           \* a run of verifyCode
    faults,         \* number of faults so far
    dropped,        \* history: a credential was invalidated in this process
    crossed         \* history: a registration began beside another one or an invalidate

memory == <<cached, initFuture>>
storage == <<idCell, tokenCell>>
history == <<dropped, crossed>>
vars == <<known, storage, memory, call, flow, faults, history>>

Call == [pc: {"free", "readId", "readToken", "posted", "answered", "writeId", "writeToken"},
         id: Rows \cup {None}, token: Rows \cup {None}]
Flow == [pc: {"idle", "init", "verify", "deleteId", "deleteToken", "ended", "stale"},
         on: Calls \cup {None}, header: Rows \cup {None}, retry: BOOLEAN, disturbed: BOOLEAN]

NoCall == [pc |-> "free", id |-> None, token |-> None]
NoFlow == [pc |-> "idle", on |-> None, header |-> None, retry |-> TRUE, disturbed |-> FALSE]
Ended == [NoFlow EXCEPT !.pc = "ended"]

TypeOK == /\ known \subseteq Rows
          /\ idCell \in Rows \cup {None}
          /\ tokenCell \in Rows \cup {None}
          /\ cached \in Rows \cup {None}
          /\ initFuture \in Calls \cup {None}
          /\ call \in [Calls -> Call]
          /\ flow \in [Flows -> Flow]
          /\ faults \in Nat
          /\ dropped \in BOOLEAN
          /\ crossed \in BOOLEAN

----------------------------------------------------------------------------
AnyOf(S) == CHOOSE x \in S : TRUE
Running == {c \in Calls : call[c].pc # "free"}
Invalidating == {f \in Flows : flow[f].pc \in {"deleteId", "deleteToken"}}
Held == {idCell, tokenCell, cached} \cup {call[c].id : c \in Calls} \cup {call[c].token : c \in Calls}
           \cup {flow[f].header : f \in Flows}
InProgress(f) == flow[f].pc \in {"init", "verify", "deleteId", "deleteToken"}
Fault == faults < MaxFaults /\ faults' = faults + 1

\* An installation that has run before, perhaps with a backend that no longer
\* has its row, or never.
Init == /\ idCell \in {AnyOf(Rows), None}
        /\ known \in {{}, {idCell} \ {None}}
        /\ tokenCell = idCell
        /\ cached = None /\ initFuture = None
        /\ call = [c \in Calls |-> NoCall]
        /\ flow = [f \in Flows |-> NoFlow]
        /\ faults = 0
        /\ dropped = FALSE /\ crossed = FALSE

----------------------------------------------------------------------------
(* init *)

\* Mutant: _initFuture = instead of ??=.
SharedInit_None == None

\* _initFuture ??=
SharedInit == initFuture

\* A run of _loadOrRegister starts with the read of the id.
Begin(c, by) == /\ Running # Calls
                /\ c = AnyOf(Calls \ Running)
                /\ call' = [call EXCEPT ![c] = [NoCall EXCEPT !.pc = "readId", !.id = idCell]]
                /\ initFuture' = c
                /\ crossed' = (crossed \/ Running # {} \/ Invalidating \ by # {})

\* init for a flow: the cached identity, the run under way, or a new run.  With an
\* identity at hand the flow goes on to its request, which carries what is cached.
AwaitInit(f, g) ==
    IF cached # None
    THEN /\ flow' = [flow EXCEPT ![f] = [g EXCEPT !.pc = "verify", !.header = cached, !.on = None]]
         /\ UNCHANGED <<call, initFuture, crossed>>
    ELSE IF SharedInit # None
    THEN /\ flow' = [flow EXCEPT ![f] = [g EXCEPT !.pc = "init", !.on = SharedInit]]
         /\ UNCHANGED <<call, initFuture, crossed>>
    ELSE \E c \in Calls : /\ Begin(c, {f})
                          /\ flow' = [flow EXCEPT ![f] = [g EXCEPT !.pc = "init", !.on = c]]

\* init from the start of the app or from the composer, for nobody's answer.
InitElsewhere ==
    /\ cached = None /\ SharedInit = None
    /\ \E c \in Calls : Begin(c, {})
    /\ UNCHANGED <<known, storage, cached, flow, faults, dropped>>

ReadToken(c) ==
    /\ call[c].pc = "readId"
    /\ call' = [call EXCEPT ![c] = [@ EXCEPT !.pc = "readToken", !.token = tokenCell]]
    /\ UNCHANGED <<known, storage, memory, flow, faults, history>>

\* The flows that await the run go on with its result; without one they end.
Resumed(c, result) ==
    [f \in Flows |-> IF flow[f].pc = "init" /\ flow[f].on = c
                     THEN IF result = None THEN Ended
                          ELSE [flow[f] EXCEPT !.pc = "verify", !.on = None, !.header = cached']
                     ELSE flow[f]]

\* Both cells present: the stored credential is the identity.
Loaded(c) ==
    /\ call[c].pc = "readToken"
    /\ call[c].id # None /\ call[c].token # None
    /\ cached' = call[c].token
    /\ call' = [call EXCEPT ![c] = NoCall]
    /\ flow' = Resumed(c, call[c].token)
    /\ UNCHANGED <<known, storage, initFuture, faults, history>>

Post(c) ==
    /\ call[c].pc = "readToken"
    /\ call[c].id = None \/ call[c].token = None
    /\ call' = [call EXCEPT ![c] = [NoCall EXCEPT !.pc = "posted"]]
    /\ UNCHANGED <<known, storage, memory, flow, faults, history>>

\* DevicesService.Register: a row nobody holds the credential of any more is as
\* good as a new one.
Register(c) ==
    /\ call[c].pc = "posted"
    /\ Rows \ Held # {}
    /\ LET r == AnyOf(Rows \ Held)
       IN  /\ known' = (known \cap Held) \cup {r}
           /\ call' = [call EXCEPT ![c] = [pc |-> "answered", id |-> r, token |-> r]]
    /\ UNCHANGED <<storage, memory, flow, faults, history>>

WriteId(c) ==
    /\ call[c].pc = "answered"
    /\ idCell' = call[c].id
    /\ call' = [call EXCEPT ![c].pc = "writeId"]
    /\ UNCHANGED <<known, tokenCell, memory, flow, faults, history>>

\* Mutant: the two writes are of the id.
WriteToken_Id(c) ==
    /\ call[c].pc = "writeId"
    /\ idCell' = call[c].token
    /\ call' = [call EXCEPT ![c].pc = "writeToken"]
    /\ UNCHANGED <<known, tokenCell, memory, flow, faults, history>>

WriteToken(c) ==
    /\ call[c].pc = "writeId"
    /\ tokenCell' = call[c].token
    /\ call' = [call EXCEPT ![c].pc = "writeToken"]
    /\ UNCHANGED <<known, idCell, memory, flow, faults, history>>

\* The then of init: the identity is cached, whatever happened meanwhile.
Registered(c) ==
    /\ call[c].pc = "writeToken"
    /\ cached' = call[c].token
    /\ call' = [call EXCEPT ![c] = NoCall]
    /\ flow' = Resumed(c, call[c].token)
    /\ UNCHANGED <<known, storage, initFuture, faults, history>>

\* Mutant: a failed run answers nobody.
Failed_Silent(c) == flow

\* The waiters of a run that failed.
Failed(c) == Resumed(c, None)

\* onError: the post, or a call of the storage, fails.  An answer without a
\* credential is cached for what it is.  The next init tries again.
InitFails(c) ==
    /\ c \in Running
    /\ Fault
    /\ \/ UNCHANGED cached
       \/ call[c].pc = "posted" /\ cached' = None
    /\ initFuture' = None
    /\ call' = [call EXCEPT ![c] = NoCall]
    /\ flow' = Failed(c)
    /\ UNCHANGED <<known, storage, history>>

----------------------------------------------------------------------------
(* The server forgets the row: revoked, or a database without it. *)

Forget(r) ==
    /\ r \in known /\ r \in Held
    /\ Fault
    /\ known' = known \ {r}
    /\ flow' = [f \in Flows |-> IF InProgress(f) /\ (f \in Invalidating \/ ~flow[f].retry)
                                THEN [flow[f] EXCEPT !.disturbed = TRUE] ELSE flow[f]]
    /\ UNCHANGED <<storage, memory, call, history>>

----------------------------------------------------------------------------
(* verifyCode *)

VerifyCode(f) ==
    /\ flow[f].pc = "idle"
    /\ AwaitInit(f, NoFlow)
    /\ UNCHANGED <<known, storage, cached, faults, dropped>>

\* RequireDeviceToken: a header, and a row that is there and not revoked.
Accepted(r) == r \in known

\* The device check passes: signed in, or refused for the code.
VerifyAccepted(f) ==
    /\ flow[f].pc = "verify" /\ Accepted(flow[f].header)
    /\ flow' = [flow EXCEPT ![f] = Ended]
    /\ UNCHANGED <<known, storage, memory, call, faults, history>>

VerifyLost(f) ==
    /\ flow[f].pc = "verify"
    /\ Fault
    /\ flow' = [flow EXCEPT ![f] = Ended]
    /\ UNCHANGED <<known, storage, memory, call, history>>

\* Mutant: only the memory is cleared.
Deleted_Kept(cell) == cell

\* What invalidate leaves in a cell of the storage.
Deleted(cell) == None

\* 401 for the device token: invalidate drops the identity; flow f goes on as g.
Drop(f, g) ==
    /\ flow[f].pc = "verify" /\ ~Accepted(flow[f].header)
    /\ cached' = None /\ initFuture' = None
    /\ flow' = [h \in Flows |-> IF h = f THEN g
                                ELSE IF InProgress(h) THEN [flow[h] EXCEPT !.disturbed = TRUE]
                                ELSE flow[h]]
    /\ dropped' = TRUE
    /\ crossed' = (crossed \/ Running # {})
    /\ UNCHANGED <<known, tokenCell, call>>

\* Its first deletion is of the id ...
Invalidate(f) ==
    /\ Drop(f, [flow[f] EXCEPT !.pc = "deleteId", !.header = None])
    /\ idCell' = Deleted(idCell)
    /\ UNCHANGED faults

\* ... and may throw with both cells in place.
InvalidateFails(f) ==
    /\ Drop(f, [flow[f] EXCEPT !.pc = "stale", !.header = None, !.disturbed = TRUE])
    /\ Fault
    /\ UNCHANGED idCell

DeleteToken(f) ==
    /\ flow[f].pc = "deleteId"
    /\ tokenCell' = Deleted(tokenCell)
    /\ flow' = [flow EXCEPT ![f].pc = "deleteToken"]
    /\ UNCHANGED <<known, idCell, memory, call, faults, history>>

\* The one retry, with the same code.
Retry(f) ==
    /\ flow[f].pc = "deleteToken" /\ flow[f].retry
    /\ AwaitInit(f, [flow[f] EXCEPT !.retry = FALSE])
    /\ UNCHANGED <<known, storage, cached, faults, dropped>>

GiveUp(f) ==
    /\ flow[f].pc = "deleteToken" /\ ~flow[f].retry
    /\ flow' = [flow EXCEPT ![f].pc = "stale"]
    /\ UNCHANGED <<known, storage, memory, call, faults, history>>

\* Mutant: a deletion that throws leaves the screen submitting.
DeleteFails_Stuck(f) ==
    /\ flow[f].pc \in {"deleteId", "deleteToken"}
    /\ Fault
    /\ flow' = [flow EXCEPT ![f].pc = "submitting"]
    /\ UNCHANGED <<known, storage, memory, call, history>>

\* A deletion that throws ends the flow with the retryable error.
DeleteFails(f) ==
    /\ flow[f].pc \in {"deleteId", "deleteToken"}
    /\ Fault
    /\ flow' = [flow EXCEPT ![f] = [@ EXCEPT !.pc = "stale", !.disturbed = TRUE]]
    /\ UNCHANGED <<known, storage, memory, call, history>>

----------------------------------------------------------------------------
\* The process ends; the storage keeps what was written.
Crash ==
    /\ Fault
    /\ cached' = None /\ initFuture' = None
    /\ call' = [c \in Calls |-> NoCall]
    /\ flow' = [f \in Flows |-> NoFlow]
    /\ dropped' = FALSE
    /\ UNCHANGED <<known, storage, crossed>>

CallStep(c) == ReadToken(c) \/ Loaded(c) \/ Post(c) \/ Register(c) \/ WriteId(c) \/ WriteToken(c) \/ Registered(c)
FlowStep(f) == VerifyAccepted(f) \/ Invalidate(f) \/ DeleteToken(f) \/ Retry(f) \/ GiveUp(f)

Next == \/ InitElsewhere \/ Crash
        \/ \E c \in Calls : CallStep(c) \/ InitFails(c)
        \/ \E f \in Flows : FlowStep(f) \/ VerifyCode(f) \/ VerifyLost(f) \/ InvalidateFails(f) \/ DeleteFails(f)
        \/ \E r \in Rows : Forget(r)

Spec == Init /\ [][Next]_vars

\* The event loop and the server go on; nobody has to sign in, and nothing has to fail.
Fairness == /\ \A c \in Calls : WF_vars(CallStep(c))
            /\ \A f \in Flows : WF_vars(FlowStep(f))
FairSpec == Spec /\ Fairness

----------------------------------------------------------------------------
(* Properties *)

\* Concurrent first uses in one process share one registration: two runs of
\* _loadOrRegister are under way only after an invalidate.
OneRegistration == Cardinality(Running) > 1 => dropped

\* Nothing under way, the credential in memory is the one the next start will load,
\* unless a registration ran beside another one or beside an invalidate: else the
\* account stays linked to a device row the installation has lost.  (The id beside it
\* may be another row's: a process that dies between the deletions, and a second one
\* between the writes, leave the old token with the new id, and both cells present.)
RestartKeepsDevice ==
    cached # None /\ Running = {} /\ Invalidating = {} /\ ~crossed => idCell # None /\ tokenCell = cached

\* A sign-in whose credential was refused recovers by itself: it ends in the stale
\* error only if another sign-in invalidated beside it, the server forgot a row
\* during its retry, a deletion failed, or registrations have crossed.
StaleOnlyIfDisturbed == \A f \in Flows : flow[f].pc = "stale" => flow[f].disturbed \/ crossed

\* A sign-in never stays submitting, whoever registers, invalidates or fails beside it
\* (_verifyCode resets isSubmitting on every path).
EveryFlowEnds == \A f \in Flows : InProgress(f) ~> ~InProgress(f)

=============================================================================
