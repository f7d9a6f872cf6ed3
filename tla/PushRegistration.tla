-------------------------- MODULE PushRegistration --------------------------
(***************************************************************************)
(* How a push finds an installation: PushNotificationsService's token      *)
(* registration, the web target's messaging service worker, PUT            *)
(* /v1/devices/me with the query behind it, and the retirement of a token  *)
(* FCM refuses.                                                            *)
(*                                                                         *)
(* The app is one isolate: code between two awaits is one step.  Of the    *)
(* device credential only DeviceIdentityService.cached is seen here, a     *)
(* devices row or None; DeviceIdentity has the rest.  FCM, the browser and *)
(* the operating system are external.                                      *)
(***************************************************************************)
EXTENDS Integers, FiniteSets

CONSTANTS
    Rows,           \* devices rows this installation may come to own
    Tokens,         \* registration tokens FCM may give this installation
    Pushes,         \* sends of the dispatcher under way at one time
    Puts,           \* calls of PUT /v1/devices/me under way at one time
    None,
    MaxFaults       \* bound on failed calls, lost credentials and revoked rows

ASSUME NoneAssumption == None \notin Rows \cup Tokens
ASSUME FaultAssumption == MaxFaults \in Nat

VARIABLES
    platform,       \* kIsWeb
    worker,         \* the service worker the browser holds for the web target
    permission,     \* the notification permission
    fcm,            \* the installation's current registration token
    minted,         \* tokens FCM has given out
    row,            \* devices row |-> its state and push_token
    cached,         \* DeviceIdentityService.cached
    stored,         \* the credential in secure storage
    start,          \* progress of PushNotificationsService.start, off without a process
    optIn,          \* progress of requestPermissionAndRegister
    put,            \* call |-> PUT /v1/devices/me
    push,           \* send |-> the message and what became of it
    faults,         \* number of faults so far
    excused,        \* history: the last registration may have missed the row
    overlapped      \* history: tokens two statements have registered at the same time

client == <<cached, stored, start, optIn>>
external == <<platform, worker, permission, fcm, minted>>
history == <<excused, overlapped>>
vars == <<client, external, row, put, push, faults, history>>

Row == [state: {"unborn", "active", "revoked"}, push: Tokens \cup {None}]
Put == [pc: {"free", "sent", "running", "refused"}, token: Tokens \cup {None}, row: Rows \cup {None},
        others: SUBSET Rows, retried: BOOLEAN]
Push == [pc: {"none", "sending", "queued", "unheard"}, token: Tokens \cup {None}, row: Rows \cup {None}]

NoPut == [pc |-> "free", token |-> None, row |-> None, others |-> {}, retried |-> FALSE]
NoPush == [pc |-> "none", token |-> None, row |-> None]

TypeOK == /\ platform \in {"web", "native"}
          /\ worker \in {"none", "deaf", "ready"}
          /\ permission \in {"notRequested", "granted", "denied"}
          /\ fcm \in Tokens \cup {None}
          /\ minted \subseteq Tokens
          /\ row \in [Rows -> Row]
          /\ cached \in Rows \cup {None}
          /\ stored \in Rows \cup {None}
          /\ start \in {"off", "permission", "token", "done"}
          /\ optIn \in {"none", "token", "done"}
          /\ put \in [Puts -> Put]
          /\ push \in [Pushes -> Push]
          /\ faults \in Nat
          /\ excused \in BOOLEAN
          /\ overlapped \subseteq Tokens

----------------------------------------------------------------------------
Unfinished == {p \in Puts : put[p].pc # "free"}
Fault == faults < MaxFaults /\ faults' = faults + 1 /\ excused' = TRUE

\* A freshly installed app that has never run.
Init == /\ platform \in {"web", "native"}
        /\ worker = "none"
        /\ permission = "notRequested"
        /\ fcm = None /\ minted = {}
        /\ row = [r \in Rows |-> [state |-> "unborn", push |-> None]]
        /\ cached = None /\ stored = None
        /\ start = "off" /\ optIn = "none"
        /\ put = [p \in Puts |-> NoPut]
        /\ push = [m \in Pushes |-> NoPush]
        /\ faults = 0
        /\ excused = FALSE /\ overlapped = {}

----------------------------------------------------------------------------
(* The process and its device credential *)

\* main: start() hooks the streams before any credential is loaded.
Launch == /\ start = "off"
          /\ start' = "permission"
          /\ excused' = (Unfinished # {})
          /\ UNCHANGED <<cached, stored, optIn, external, row, put, push, faults, overlapped>>

\* The process ends: what it held in memory goes, what it has sent does not.
Close == /\ start # "off"
         /\ start' = "off" /\ optIn' = "none"
         /\ cached' = None
         /\ UNCHANGED <<stored, external, row, put, push, faults, history>>

\* init: the stored credential, or a row registered for this installation.
LoadIdentity ==
    /\ start # "off" /\ cached = None
    /\ \/ /\ stored # None
          /\ cached' = stored
          /\ UNCHANGED <<stored, row>>
       \/ /\ stored = None
          /\ \E r \in Rows : /\ row[r].state = "unborn"
                             /\ row' = [row EXCEPT ![r] = [state |-> "active", push |-> None]]
                             /\ cached' = r /\ stored' = r
    /\ UNCHANGED <<start, optIn, external, put, push, faults, history>>

\* The deletion of the account, from any device, revokes its devices.
DetachAccountDevices(r) ==
    /\ row[r].state = "active"
    /\ row' = [row EXCEPT ![r].state = "revoked"]
    /\ Fault
    /\ UNCHANGED <<client, external, put, push, overlapped>>

\* invalidate, once a sign-in has been refused with this credential.
Invalidate ==
    /\ cached # None
    /\ row[cached].state = "revoked"
    /\ cached' = None /\ stored' = None
    /\ excused' = TRUE
    /\ UNCHANGED <<start, optIn, external, row, put, push, faults, overlapped>>

\* Secure storage loses the credential while the app is not running.
LoseCredential ==
    /\ start = "off" /\ stored # None
    /\ stored' = None
    /\ Fault
    /\ UNCHANGED <<cached, start, optIn, external, row, put, push, overlapped>>

----------------------------------------------------------------------------
(* Token registration *)

\* _registerToken: the interceptor attaches the credential cached by then.
RegisterToken(t) ==
    \E p \in Puts \ Unfinished :
        /\ put' = [put EXCEPT ![p] = [NoPut EXCEPT !.pc = "sent", !.token = t, !.row = cached]]
        /\ excused' = (cached = None \/ Unfinished # {})

\* Mutant: the script goes on after the first import has failed.
EvaluateWorker_Half(importsLoad) == IF importsLoad THEN "ready" ELSE "half"

\* Mutant: the script catches a failed import, so the browser keeps the worker.
EvaluateWorker_Caught(importsLoad) == IF importsLoad THEN "ready" ELSE "deaf"

\* firebase-messaging-sw.js: a failed import throws out of the script and the
\* browser drops the worker; otherwise its messaging instance listens.
EvaluateWorker(importsLoad) == IF importsLoad THEN "ready" ELSE "none"

\* No token for this run: getToken answers null or throws, on any platform.
NoToken == Fault /\ UNCHANGED <<worker, fcm, minted, put>>

\* getToken, on the web behind the registration of the worker.
GetToken(pc) ==
    /\ pc = "token"
    /\ \/ NoToken
       \/ /\ IF platform = "web" /\ worker = "none"
             THEN \E importsLoad \in BOOLEAN :
                      /\ worker' = EvaluateWorker(importsLoad)
                      /\ ~importsLoad => faults < MaxFaults
                      /\ faults' = faults + (IF importsLoad THEN 0 ELSE 1)
             ELSE UNCHANGED <<worker, faults>>
          /\ IF platform = "web" /\ worker' = "none"
             THEN excused' = TRUE /\ UNCHANGED <<put, fcm, minted>>
             ELSE \E t \in Tokens :
                      /\ IF fcm = None THEN t \notin minted ELSE t = fcm
                      /\ fcm' = t /\ minted' = minted \cup {t}
                      /\ RegisterToken(t)

\* start, once the initial message is taken: the permission, and with it the token.
CurrentPermission ==
    /\ start = "permission"
    /\ start' = IF permission = "granted" THEN "token" ELSE "done"
    /\ UNCHANGED <<cached, stored, optIn, external, row, put, push, faults, history>>

StartRegisters ==
    /\ GetToken(start)
    /\ start' = "done"
    /\ UNCHANGED <<cached, stored, optIn, platform, permission, row, push, overlapped>>

\* The sheet is shown once per process; a permission once answered stays.
RequestPermission ==
    /\ start # "off" /\ optIn = "none"
    /\ permission' \in IF permission = "notRequested" THEN {"granted", "denied"} ELSE {permission}
    /\ optIn' = IF permission' = "granted" THEN "token" ELSE "done"
    /\ UNCHANGED <<cached, stored, start, platform, worker, fcm, minted, row, put, push, faults, history>>

OptInRegisters ==
    /\ GetToken(optIn)
    /\ optIn' = "done"
    /\ UNCHANGED <<cached, stored, start, platform, permission, row, push, overlapped>>

\* FCM replaces the token; a running app hears of it on onTokenRefresh.
TokenRefresh ==
    /\ fcm # None
    /\ \E t \in Tokens \ minted :
          /\ fcm' = t /\ minted' = minted \cup {t}
          /\ IF start # "off" THEN RegisterToken(t) ELSE UNCHANGED <<put, excused>>
    /\ UNCHANGED <<client, platform, worker, permission, row, push, faults, overlapped>>

----------------------------------------------------------------------------
(* PUT /v1/devices/me *)

\* RequireDeviceToken, and the snapshot of the statement it lets through.
PutArrives(p) ==
    LET q == put[p]
        known == q.row # None /\ row[q.row].state = "active"
        others == {r \in Rows \ {q.row} : row[r].push = q.token}
        meets == \E o \in Puts : put[o].pc = "running" /\ put[o].token = q.token
    IN  /\ q.pc = "sent"
        /\ put' = [put EXCEPT ![p] = IF known THEN [q EXCEPT !.pc = "running", !.others = others]
                                              ELSE [q EXCEPT !.pc = "refused"]]
        /\ overlapped' = IF known /\ meets THEN overlapped \cup {q.token} ELSE overlapped
        /\ UNCHANGED <<client, external, row, push, faults, excused>>

\* Mutant: the token is set without being cleared elsewhere.
Cleared_None(p) == {}

\* The other rows the statement clears: in its snapshot, and still with the token.
Cleared(p) == {r \in put[p].others : row[r].push = put[p].token}

SetDevicePushToken(p) ==
    /\ put[p].pc = "running"
    /\ row' = [r \in Rows |-> IF r = put[p].row THEN [row[r] EXCEPT !.push = put[p].token]
                              ELSE IF r \in Cleared(p) THEN [row[r] EXCEPT !.push = None]
                              ELSE row[r]]
    /\ put' = [put EXCEPT ![p] = NoPut]
    /\ UNCHANGED <<client, external, push, faults, history>>

\* A 401 is swallowed, or repeated once when it could refresh the session.
PutRefused(p) ==
    /\ put[p].pc = "refused"
    /\ \/ put' = [put EXCEPT ![p] = NoPut]
       \/ /\ start # "off" /\ ~put[p].retried
          /\ put' = [put EXCEPT ![p] = [@ EXCEPT !.pc = "sent", !.row = cached, !.retried = TRUE]]
    /\ UNCHANGED <<client, external, row, push, faults, history>>

PutLost(p) ==
    /\ put[p].pc = "sent"
    /\ put' = [put EXCEPT ![p] = NoPut]
    /\ Fault
    /\ UNCHANGED <<client, external, row, push, overlapped>>

----------------------------------------------------------------------------
(* A push *)

\* The dispatcher reads a row's token and posts to FCM.
Send(m, r) ==
    /\ push[m].pc = "none"
    /\ row[r].state = "active" /\ row[r].push # None
    /\ push' = [push EXCEPT ![m] = [pc |-> "sending", token |-> row[r].push, row |-> r]]
    /\ UNCHANGED <<client, external, row, put, faults, history>>

FcmAccepts(m) ==
    /\ push[m].pc = "sending" /\ push[m].token = fcm
    /\ push' = [push EXCEPT ![m] = [NoPush EXCEPT !.pc = "queued"]]
    /\ UNCHANGED <<client, external, row, put, faults, history>>

\* Mutant: the row's token is retired whatever it is by now.
Retires_Any(m) == TRUE

\* The where clause of ClearDevicePushToken.
Retires(m) == row[push[m].row].push = push[m].token

\* FCM no longer knows the token: ErrPushTokenInvalid, and it is retired.
FcmRejects(m) ==
    /\ push[m].pc = "sending" /\ push[m].token # fcm
    /\ push' = [push EXCEPT ![m] = NoPush]
    /\ row' = IF Retires(m) THEN [row EXCEPT ![push[m].row].push = None] ELSE row
    /\ UNCHANGED <<client, external, put, faults, history>>

\* The browser wakes the worker, whose messaging instance shows the payload or
\* hands it to a visible page; elsewhere the system does.
Deliver(m) ==
    /\ push[m].pc = "queued"
    /\ push' = [push EXCEPT ![m] = IF platform = "web" /\ worker # "ready"
                                   THEN [NoPush EXCEPT !.pc = "unheard"] ELSE NoPush]
    /\ UNCHANGED <<client, external, row, put, faults, history>>

----------------------------------------------------------------------------
Next == \/ Launch \/ Close \/ LoadIdentity \/ Invalidate \/ LoseCredential
        \/ CurrentPermission \/ StartRegisters \/ RequestPermission \/ OptInRegisters \/ TokenRefresh
        \/ \E r \in Rows : DetachAccountDevices(r)
        \/ \E p \in Puts : PutArrives(p) \/ SetDevicePushToken(p) \/ PutRefused(p) \/ PutLost(p)
        \/ \E m \in Pushes : \/ \E r \in Rows : Send(m, r)
                             \/ FcmAccepts(m) \/ FcmRejects(m) \/ Deliver(m)

Spec == Init /\ [][Next]_vars

----------------------------------------------------------------------------
(* Properties *)

\* A push FCM has accepted never meets a browser with nothing to show it: on
\* the web a token exists only where the worker's script ran to its end.
NoPushUnheard == \A m \in Pushes : push[m].pc # "unheard"

\* Two rows carry one registration token, and one phone is pushed twice, only
\* if two statements of SetDevicePushToken for it ran at the same time.
SharedTokenNeedsOverlap ==
    \A r, s \in Rows : /\ r # s
                       /\ row[r].push # None
                       /\ row[r].push = row[s].push
                       => row[r].push \in overlapped

\* With permission and nothing under way, the row of the app's credential holds
\* the current token, unless the last PUT left before the credential was loaded
\* or beside another PUT, the credential was replaced since, or a call failed.
RegisteredOrExcused ==
    /\ start = "done" /\ optIn # "token" /\ Unfinished = {}
    /\ permission = "granted" /\ cached # None /\ ~excused
    => fcm # None /\ (row[cached].state = "active" => row[cached].push = fcm)

=============================================================================
