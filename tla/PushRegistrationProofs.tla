----------------------- MODULE PushRegistrationProofs -----------------------
(***************************************************************************)
(* Proofs about PushRegistration, for every set of rows, tokens, sends and *)
(* calls.                                                                  *)
(***************************************************************************)
EXTENDS PushRegistration, TLAPS

----------------------------------------------------------------------------
(* Type correctness *)

\* A PUT under way carries a token.
Carried == \A p \in Puts : put[p].pc # "free" => put[p].token # None

\* The initial state is well typed.
LEMMA InitTypes == Init => TypeOK
<1> SUFFICES ASSUME Init PROVE TypeOK
  OBVIOUS
<1>1. row \in [Rows -> Row]
  BY DEF Init, Row
<1>2. put \in [Puts -> Put]
  BY DEF Init, Put, NoPut
<1>3. push \in [Pushes -> Push]
  BY DEF Init, Push, NoPush
<1>4. excused \in BOOLEAN
  BY Zenon DEF Init
<1> QED BY <1>1, <1>2, <1>3, <1>4 DEF Init, TypeOK

\* A PUT that leaves is well typed (RegisterToken).
LEMMA RegisterTypes ==
    ASSUME TypeOK, NEW t \in Tokens, RegisterToken(t)
    PROVE  put' \in [Puts -> Put] /\ excused' \in BOOLEAN
<1>1. PICK p \in Puts : put' = [put EXCEPT ![p] = [NoPut EXCEPT !.pc = "sent", !.token = t, !.row = cached]]
  BY DEF RegisterToken
<1>2. [NoPut EXCEPT !.pc = "sent", !.token = t, !.row = cached] \in Put
  BY DEF TypeOK, Put, NoPut
<1>3. put' \in [Puts -> Put]
  BY <1>1, <1>2 DEF TypeOK
<1>4. excused' \in BOOLEAN
  BY Zenon DEF RegisterToken
<1> QED BY <1>3, <1>4

\* What GetToken leaves behind is well typed, for the start and for the opt-in.
LEMMA GetTokenTypes ==
    ASSUME TypeOK, NEW pc, GetToken(pc)
    PROVE  /\ worker' \in {"none", "deaf", "ready"} /\ faults' \in Nat
           /\ fcm' \in Tokens \cup {None} /\ minted' \subseteq Tokens
           /\ put' \in [Puts -> Put] /\ excused' \in BOOLEAN
<1>0. CASE NoToken
  BY <1>0 DEF NoToken, Fault, TypeOK
<1>1. CASE ~NoToken
  <2>1. worker' \in {"none", "deaf", "ready"} /\ faults' \in Nat
    BY <1>1 DEF GetToken, TypeOK, EvaluateWorker
  <2>2. CASE platform = "web" /\ worker' = "none"
    BY <1>1, <2>1, <2>2 DEF GetToken, TypeOK
  <2>3. CASE ~(platform = "web" /\ worker' = "none")
    <3>1. PICK t \in Tokens : fcm' = t /\ minted' = minted \cup {t} /\ RegisterToken(t)
      BY <1>1, <2>3 DEF GetToken
    <3> QED BY <2>1, <3>1, RegisterTypes DEF TypeOK
  <2> QED BY <2>2, <2>3
<1> QED BY <1>0, <1>1

\* A PUT is only made with a token (_registerToken).
LEMMA RegisterCarried ==
    ASSUME TypeOK, Carried, NEW t \in Tokens, RegisterToken(t)
    PROVE  Carried'
BY NoneAssumption DEF TypeOK, Carried, RegisterToken, NoPut

\* A refused PUT is dropped, or sent once more with the same token (SessionRefreshInterceptor.onError).
LEMMA RefusedPut ==
    ASSUME TypeOK, NEW p \in Puts, PutRefused(p)
    PROVE  /\ \A o \in Puts \ {p} : put'[o] = put[o]
           /\ \/ put'[p].pc = "free"
              \/ put'[p].pc = "sent" /\ put'[p].token = put[p].token /\ put[p].pc # "free"
<1>1. put[p] \in Put /\ put[p].pc = "refused"
  BY DEF TypeOK, PutRefused
<1>2. CASE put' = [put EXCEPT ![p] = NoPut]
  BY <1>2 DEF TypeOK, NoPut
<1>3. CASE put' = [put EXCEPT ![p] = [put[p] EXCEPT !.pc = "sent", !.row = cached, !.retried = TRUE]]
  <2>1. put'[p] = [put[p] EXCEPT !.pc = "sent", !.row = cached, !.retried = TRUE]
    BY <1>3 DEF TypeOK
  <2>2. put'[p].pc = "sent" /\ put'[p].token = put[p].token
    BY <1>1, <2>1 DEF Put
  <2> QED BY <1>1, <1>3, <2>2 DEF TypeOK
<1> QED BY <1>2, <1>3 DEF PutRefused

\* Every step keeps a token in every PUT under way.
LEMMA NextCarried == TypeOK /\ Carried /\ [Next]_vars => Carried'
<1> SUFFICES ASSUME TypeOK, Carried, [Next]_vars PROVE Carried'
  OBVIOUS
<1>1. ASSUME UNCHANGED put PROVE Carried'
  BY <1>1 DEF Carried
<1>2. ASSUME NEW pc, GetToken(pc) PROVE Carried'
  BY <1>1, <1>2, RegisterCarried DEF GetToken, NoToken
<1>3. CASE StartRegisters \/ OptInRegisters
  BY <1>2, <1>3 DEF StartRegisters, OptInRegisters
<1>4. CASE TokenRefresh
  BY <1>1, <1>4, RegisterCarried DEF TokenRefresh
<1>5. ASSUME NEW p \in Puts, PutArrives(p) \/ SetDevicePushToken(p) \/ PutRefused(p) \/ PutLost(p)
      PROVE  Carried'
  <2>1. put[p] \in Put
    BY DEF TypeOK
  <2>2. CASE PutArrives(p)
    BY <2>1, <2>2 DEF TypeOK, Carried, PutArrives, Put
  <2>3. CASE PutRefused(p)
    BY <2>3, RefusedPut DEF Carried
  <2>4. CASE SetDevicePushToken(p) \/ PutLost(p)
    BY <2>4 DEF TypeOK, Carried, SetDevicePushToken, PutLost, NoPut
  <2> QED BY <1>5, <2>2, <2>3, <2>4
<1>6. CASE Launch \/ Close \/ LoadIdentity \/ Invalidate \/ LoseCredential \/ CurrentPermission
              \/ RequestPermission \/ UNCHANGED vars
  BY <1>1, <1>6 DEF Launch, Close, LoadIdentity, Invalidate, LoseCredential, CurrentPermission,
                    RequestPermission, vars
<1>7. ASSUME NEW r \in Rows, DetachAccountDevices(r) PROVE Carried'
  BY <1>1, <1>7 DEF DetachAccountDevices
<1>8. ASSUME NEW m \in Pushes, (\E r \in Rows : Send(m, r)) \/ FcmAccepts(m) \/ FcmRejects(m) \/ Deliver(m)
      PROVE  Carried'
  BY <1>1, <1>8 DEF Send, FcmAccepts, FcmRejects, Deliver
<1> QED BY <1>3, <1>4, <1>5, <1>6, <1>7, <1>8 DEF Next

\* Every step keeps the types.
LEMMA NextTypes == TypeOK /\ Carried /\ [Next]_vars => TypeOK'
<1> SUFFICES ASSUME TypeOK, Carried, [Next]_vars PROVE TypeOK'
  OBVIOUS
<1> USE DEF client, external, history
<1>1. CASE Launch
  BY <1>1 DEF TypeOK, Launch
<1>2. CASE Close
  BY <1>2 DEF TypeOK, Close
<1>3. CASE LoadIdentity
  BY <1>3 DEF TypeOK, LoadIdentity, Row
<1>4. CASE Invalidate
  BY <1>4 DEF TypeOK, Invalidate
<1>5. CASE LoseCredential
  BY <1>5, FaultAssumption DEF TypeOK, LoseCredential, Fault
<1>6. CASE CurrentPermission
  BY <1>6 DEF TypeOK, CurrentPermission
<1>7. CASE StartRegisters
  BY <1>7, GetTokenTypes DEF TypeOK, StartRegisters
<1>8. CASE RequestPermission
  BY <1>8 DEF TypeOK, RequestPermission
<1>9. CASE OptInRegisters
  BY <1>9, GetTokenTypes DEF TypeOK, OptInRegisters
<1>10. CASE TokenRefresh
  <2>1. PICK t \in Tokens : /\ fcm' = t /\ minted' = minted \cup {t}
                            /\ IF start # "off" THEN RegisterToken(t) ELSE UNCHANGED <<put, excused>>
    BY <1>10 DEF TokenRefresh
  <2>2. put' \in [Puts -> Put] /\ excused' \in BOOLEAN
    BY <2>1, RegisterTypes DEF TypeOK
  <2> QED BY <1>10, <2>1, <2>2 DEF TypeOK, TokenRefresh
<1>11. ASSUME NEW r \in Rows, DetachAccountDevices(r) PROVE TypeOK'
  BY <1>11, FaultAssumption DEF TypeOK, DetachAccountDevices, Fault, Row
<1>12. ASSUME NEW p \in Puts, PutArrives(p) PROVE TypeOK'
  <2> DEFINE others == {r \in Rows \ {put[p].row} : row[r].push = put[p].token}
  <2>1. put[p] \in Put /\ others \in SUBSET Rows
    BY DEF TypeOK
  <2>2. [put[p] EXCEPT !.pc = "running", !.others = others] \in Put /\ [put[p] EXCEPT !.pc = "refused"] \in Put
    BY <2>1 DEF Put
  <2>3. put' \in [Puts -> Put]
    BY <1>12, <2>2 DEF TypeOK, PutArrives
  <2>4. overlapped' \subseteq Tokens
    BY <1>12, <2>1 DEF TypeOK, Carried, PutArrives, Put
  <2> QED BY <1>12, <2>3, <2>4 DEF TypeOK, PutArrives
<1>13. ASSUME NEW p \in Puts, SetDevicePushToken(p) PROVE TypeOK'
  BY <1>13 DEF TypeOK, SetDevicePushToken, Put, NoPut, Row
<1>14. ASSUME NEW p \in Puts, PutRefused(p) PROVE TypeOK'
  <2>1. NoPut \in Put /\ put[p] \in Put
    BY DEF TypeOK, Put, NoPut
  <2>2. [put[p] EXCEPT !.pc = "sent", !.row = cached, !.retried = TRUE] \in Put
    BY <2>1 DEF TypeOK, Put
  <2>3. put' \in [Puts -> Put]
    BY <1>14, <2>1, <2>2 DEF TypeOK, PutRefused
  <2> QED BY <1>14, <2>3 DEF TypeOK, PutRefused
<1>15. ASSUME NEW p \in Puts, PutLost(p) PROVE TypeOK'
  BY <1>15, FaultAssumption DEF TypeOK, PutLost, Fault, Put, NoPut
<1>16. ASSUME NEW m \in Pushes, NEW r \in Rows, Send(m, r) PROVE TypeOK'
  BY <1>16 DEF TypeOK, Send, Push, Row
<1>17. ASSUME NEW m \in Pushes, FcmAccepts(m) PROVE TypeOK'
  BY <1>17 DEF TypeOK, FcmAccepts, Push, NoPush
<1>18. ASSUME NEW m \in Pushes, FcmRejects(m) PROVE TypeOK'
  <2>1. push' \in [Pushes -> Push]
    BY <1>18 DEF TypeOK, FcmRejects, Push, NoPush
  <2>2. row' \in [Rows -> Row]
    BY <1>18 DEF TypeOK, FcmRejects, Row
  <2> QED BY <1>18, <2>1, <2>2 DEF TypeOK, FcmRejects
<1>19. ASSUME NEW m \in Pushes, Deliver(m) PROVE TypeOK'
  BY <1>19 DEF TypeOK, Deliver, Push, NoPush
<1>20. CASE UNCHANGED vars
  BY <1>20 DEF TypeOK, vars
<1> QED
  BY <1>1, <1>2, <1>3, <1>4, <1>5, <1>6, <1>7, <1>8, <1>9, <1>10, <1>11, <1>12, <1>13, <1>14,
     <1>15, <1>16, <1>17, <1>18, <1>19, <1>20 DEF Next

\* The type invariant holds of every registration of every installation (PushNotificationsService,
\* SetDevicePushToken, the messaging worker).
THEOREM PushTypes == Spec => []TypeOK
<1>1. Init => Carried
  BY DEF Init, Carried, NoPut
<1> QED BY <1>1, InitTypes, NextTypes, NextCarried, PTL DEF Spec

----------------------------------------------------------------------------
(* A push always finds a listening worker *)

\* On the web a token and an accepted push exist only where the worker listens; a push being
\* sent carries a token.
HearInv ==
    /\ worker # "deaf"
    /\ platform = "web" /\ worker # "ready" => fcm = None /\ \A m \in Pushes : push[m].pc # "queued"
    /\ \A m \in Pushes : push[m].pc = "sending" => push[m].token # None
    /\ NoPushUnheard

\* GetToken keeps what the browser holds and the token in step.
LEMMA GetTokenHears ==
    ASSUME TypeOK, HearInv, NEW pc, GetToken(pc), UNCHANGED <<platform, push>>
    PROVE  HearInv'
<1>1. worker' # "deaf" /\ (worker = "ready" => worker' = "ready")
  BY DEF GetToken, NoToken, HearInv, TypeOK, EvaluateWorker
<1>2. platform = "web" /\ worker' # "ready" => fcm' = None /\ worker # "ready"
  BY <1>1 DEF GetToken, NoToken, HearInv, TypeOK, EvaluateWorker
<1> QED BY <1>1, <1>2 DEF HearInv, NoPushUnheard

\* Every step keeps HearInv.
LEMMA NextHears == TypeOK /\ HearInv /\ [Next]_vars => HearInv'
<1> SUFFICES ASSUME TypeOK, HearInv, [Next]_vars PROVE HearInv'
  OBVIOUS
<1> USE DEF client, external, history, HearInv, NoPushUnheard
<1>1. ASSUME UNCHANGED <<platform, worker, fcm, push>> PROVE HearInv'
  BY <1>1
<1>2. CASE StartRegisters
  BY <1>2, GetTokenHears DEF StartRegisters
<1>3. CASE OptInRegisters
  BY <1>3, GetTokenHears DEF OptInRegisters
<1>4. CASE TokenRefresh
  BY <1>4 DEF TokenRefresh
<1>5. ASSUME NEW m \in Pushes, NEW r \in Rows, Send(m, r) PROVE HearInv'
  BY <1>5 DEF Send, TypeOK
<1>6. ASSUME NEW m \in Pushes, FcmAccepts(m) PROVE HearInv'
  BY <1>6 DEF FcmAccepts, TypeOK, NoPush
<1>7. ASSUME NEW m \in Pushes, FcmRejects(m) PROVE HearInv'
  BY <1>7 DEF FcmRejects, TypeOK, NoPush
<1>8. ASSUME NEW m \in Pushes, Deliver(m) PROVE HearInv'
  BY <1>8 DEF Deliver, TypeOK, NoPush
<1>9. CASE Launch \/ Close \/ LoadIdentity \/ Invalidate \/ LoseCredential \/ CurrentPermission
              \/ RequestPermission \/ UNCHANGED vars
  BY <1>1, <1>9 DEF Launch, Close, LoadIdentity, Invalidate, LoseCredential, CurrentPermission,
                    RequestPermission, vars
<1>10. ASSUME NEW r \in Rows, DetachAccountDevices(r) PROVE HearInv'
  BY <1>1, <1>10 DEF DetachAccountDevices
<1>11. ASSUME NEW p \in Puts, PutArrives(p) \/ SetDevicePushToken(p) \/ PutRefused(p) \/ PutLost(p)
       PROVE  HearInv'
  BY <1>1, <1>11 DEF PutArrives, SetDevicePushToken, PutRefused, PutLost
<1> QED
  BY <1>2, <1>3, <1>4, <1>5, <1>6, <1>7, <1>8, <1>9, <1>10, <1>11 DEF Next

\* No push that FCM has accepted meets a browser without a worker to show it
\* (firebase-messaging-sw.js, _registerCurrentToken).
THEOREM PushIsHeard == Spec => []NoPushUnheard
<1>1. Init => HearInv
  BY DEF Init, HearInv, NoPushUnheard, NoPush
<1>2. HearInv => NoPushUnheard
  BY DEF HearInv
<1> QED BY <1>1, <1>2, PushTypes, NextHears, PTL DEF Spec

----------------------------------------------------------------------------
(* One token on two rows *)

\* Statements that run at the same time have marked their token; a statement that runs alone
\* still has every other row with its token in its snapshot.
RunInv ==
    /\ \A o, p \in Puts : /\ o # p /\ put[o].pc = "running" /\ put[p].pc = "running"
                          /\ put[o].token = put[p].token
                          => put[p].token \in overlapped
    /\ \A p \in Puts : put[p].pc = "running" =>
          \A s \in Rows \ {put[p].row} : row[s].push = put[p].token
                                         => s \in put[p].others \/ put[p].token \in overlapped
    /\ SharedTokenNeedsOverlap

\* Steps in which no statement begins or ends and no row gets a token keep RunInv.
LEMMA RunFrame ==
    ASSUME TypeOK, Carried, RunInv, UNCHANGED overlapped,
           \A p \in Puts : put'[p].pc = "running" => put'[p] = put[p],
           \A r \in Rows : row'[r].push \in {row[r].push, None}
    PROVE  RunInv'
<1>1. \A p \in Puts : put'[p].pc = "running" => put[p].pc = "running" /\ put'[p] = put[p] /\ put[p].token # None
  BY DEF Carried
<1>2. \A o, p \in Puts : /\ o # p /\ put'[o].pc = "running" /\ put'[p].pc = "running"
                         /\ put'[o].token = put'[p].token
                         => put'[p].token \in overlapped'
  BY <1>1 DEF RunInv
<1>3. \A p \in Puts : put'[p].pc = "running" =>
         \A s \in Rows \ {put'[p].row} : row'[s].push = put'[p].token
                                         => s \in put'[p].others \/ put'[p].token \in overlapped'
  BY <1>1 DEF RunInv
<1>4. SharedTokenNeedsOverlap'
  BY DEF RunInv, SharedTokenNeedsOverlap
<1> QED BY <1>2, <1>3, <1>4 DEF RunInv

\* A PUT that leaves is not running yet (_registerToken).
LEMMA RegisterRuns ==
    ASSUME TypeOK, NEW t \in Tokens, RegisterToken(t)
    PROVE  \A p \in Puts : put'[p].pc = "running" => put'[p] = put[p]
BY DEF TypeOK, RegisterToken, NoPut

\* The statement's snapshot has every other row with the token, and a statement that meets
\* another one marks the token (SetDevicePushToken).
LEMMA ArrivesRuns ==
    ASSUME TypeOK, Carried, RunInv, NEW p \in Puts, PutArrives(p)
    PROVE  RunInv'
<1> DEFINE q == put[p]
           known == q.row # None /\ row[q.row].state = "active"
           others == {r \in Rows \ {q.row} : row[r].push = q.token}
           meets == \E o \in Puts : put[o].pc = "running" /\ put[o].token = q.token
<1>1. q.pc = "sent" /\ q \in Put /\ UNCHANGED row
  BY DEF PutArrives, TypeOK, external, client
<1>2. CASE ~known
  <2>1. put' = [put EXCEPT ![p] = [q EXCEPT !.pc = "refused"]] /\ overlapped' = overlapped
    BY <1>2 DEF PutArrives
  <2>2. \A o \in Puts : put'[o].pc = "running" => put'[o] = put[o]
    BY <1>1, <2>1 DEF TypeOK, Put
  <2> QED BY <1>1, <2>1, <2>2, RunFrame
<1>3. CASE known
  <2>1. put' = [put EXCEPT ![p] = [q EXCEPT !.pc = "running", !.others = others]]
    BY <1>3 DEF PutArrives
  <2>2. overlapped' = IF meets THEN overlapped \cup {q.token} ELSE overlapped
    BY <1>3 DEF PutArrives
  <2>3. /\ put'[p].pc = "running" /\ put'[p].token = q.token /\ put'[p].row = q.row /\ put'[p].others = others
        /\ \A o \in Puts \ {p} : put'[o] = put[o]
    BY <1>1, <2>1 DEF TypeOK, Put
  <2>4. overlapped \subseteq overlapped'
    BY <2>2
  <2>5. ASSUME NEW o \in Puts, NEW i \in Puts, o # i, put'[o].pc = "running", put'[i].pc = "running",
               put'[o].token = put'[i].token
        PROVE  put'[i].token \in overlapped'
    <3>1. CASE o # p /\ i # p
      BY <2>3, <2>4, <2>5, <3>1 DEF RunInv
    <3>2. CASE o = p
      BY <2>2, <2>3, <2>5, <3>2
    <3>3. CASE i = p
      BY <2>2, <2>3, <2>5, <3>3
    <3> QED BY <3>1, <3>2, <3>3
  <2>6. ASSUME NEW o \in Puts, put'[o].pc = "running", NEW s \in Rows \ {put'[o].row}, row'[s].push = put'[o].token
        PROVE  s \in put'[o].others \/ put'[o].token \in overlapped'
    <3>1. CASE o = p
      BY <1>1, <2>3, <2>6, <3>1
    <3>2. CASE o # p
      BY <1>1, <2>3, <2>4, <2>6, <3>2 DEF RunInv
    <3> QED BY <3>1, <3>2
  <2>7. SharedTokenNeedsOverlap'
    BY <1>1, <2>4 DEF RunInv, SharedTokenNeedsOverlap
  <2> QED BY <2>5, <2>6, <2>7 DEF RunInv
<1> QED BY <1>2, <1>3

\* A statement that ran alone leaves its token on its own row only (SetDevicePushToken).
LEMMA StatementRuns ==
    ASSUME TypeOK, Carried, RunInv, NEW p \in Puts, SetDevicePushToken(p)
    PROVE  RunInv'
<1> DEFINE t == put[p].token
           mine == put[p].row
<1>1. /\ put[p].pc = "running" /\ t # None /\ overlapped' = overlapped
      /\ put'[p].pc = "free"
      /\ \A o \in Puts \ {p} : put'[o] = put[o]
  BY DEF SetDevicePushToken, Carried, TypeOK, history, NoPut
<1>2. \A s \in Rows : row'[s].push = IF s = mine THEN t ELSE IF s \in Cleared(p) THEN None ELSE row[s].push
  BY DEF SetDevicePushToken, TypeOK, Row
<1>3. \A s \in Rows \ {mine} : row'[s].push = t => row[s].push = t /\ t \in overlapped
  BY <1>1, <1>2 DEF Cleared, RunInv
<1>4. \A o, i \in Puts : /\ o # i /\ put'[o].pc = "running" /\ put'[i].pc = "running"
                         /\ put'[o].token = put'[i].token
                         => put'[i].token \in overlapped'
  BY <1>1 DEF RunInv
<1>5. ASSUME NEW o \in Puts, put'[o].pc = "running", NEW s \in Rows \ {put'[o].row}, row'[s].push = put'[o].token
      PROVE  s \in put'[o].others \/ put'[o].token \in overlapped'
  <2>1. o # p /\ put[o].pc = "running" /\ put'[o] = put[o] /\ put[o].token # None
    BY <1>1, <1>5 DEF Carried
  <2>2. CASE s = mine
    BY <1>1, <1>2, <1>5, <2>1, <2>2 DEF RunInv
  <2>3. CASE s # mine
    BY <1>1, <1>2, <1>5, <2>1, <2>3 DEF RunInv
  <2> QED BY <2>2, <2>3
<1>6. ASSUME NEW r \in Rows, NEW s \in Rows, r # s, row'[r].push # None, row'[r].push = row'[s].push
      PROVE  row'[r].push \in overlapped'
  <2>1. CASE r = mine
    BY <1>1, <1>2, <1>3, <1>6, <2>1
  <2>2. CASE s = mine
    BY <1>1, <1>2, <1>3, <1>6, <2>2
  <2>3. CASE r # mine /\ s # mine
    BY <1>1, <1>2, <1>6, <2>3 DEF RunInv, SharedTokenNeedsOverlap
  <2> QED BY <2>1, <2>2, <2>3
<1>7. SharedTokenNeedsOverlap'
  BY <1>6 DEF SharedTokenNeedsOverlap
<1> QED BY <1>4, <1>5, <1>7 DEF RunInv

\* Every step keeps RunInv.
LEMMA NextRuns == TypeOK /\ Carried /\ RunInv /\ [Next]_vars => RunInv'
<1> SUFFICES ASSUME TypeOK, Carried, RunInv, [Next]_vars PROVE RunInv'
  OBVIOUS
<1> USE DEF client, external, history
<1>1. ASSUME UNCHANGED <<put, row, overlapped>> PROVE RunInv'
  BY <1>1, RunFrame
<1>2. ASSUME NEW pc, GetToken(pc), UNCHANGED <<row, overlapped>> PROVE RunInv'
  <2>1. \A p \in Puts : put'[p].pc = "running" => put'[p] = put[p]
    BY <1>2, RegisterRuns DEF GetToken, NoToken
  <2> QED BY <1>2, <2>1, RunFrame
<1>3. CASE StartRegisters \/ OptInRegisters
  BY <1>2, <1>3 DEF StartRegisters, OptInRegisters
<1>4. CASE TokenRefresh
  <2>1. \A p \in Puts : put'[p].pc = "running" => put'[p] = put[p]
    BY <1>4, RegisterRuns DEF TokenRefresh
  <2> QED BY <1>4, <2>1, RunFrame DEF TokenRefresh
<1>5. CASE LoadIdentity
  <2>1. \A r \in Rows : row'[r].push \in {row[r].push, None}
    BY <1>5 DEF LoadIdentity, TypeOK, Row
  <2> QED BY <1>5, <2>1, RunFrame DEF LoadIdentity
<1>6. ASSUME NEW r \in Rows, DetachAccountDevices(r) PROVE RunInv'
  <2>1. \A s \in Rows : row'[s].push \in {row[s].push, None}
    BY <1>6 DEF DetachAccountDevices, TypeOK, Row
  <2> QED BY <1>6, <2>1, RunFrame DEF DetachAccountDevices
<1>7. ASSUME NEW p \in Puts, PutRefused(p) \/ PutLost(p) PROVE RunInv'
  <2>1. \A o \in Puts : put'[o].pc = "running" => put'[o] = put[o]
    <3>1. CASE PutRefused(p)
      BY <3>1, RefusedPut
    <3>2. CASE PutLost(p)
      BY <3>2 DEF PutLost, TypeOK, NoPut
    <3> QED BY <1>7, <3>1, <3>2
  <2> QED BY <1>7, <2>1, RunFrame DEF PutRefused, PutLost
<1>8. ASSUME NEW p \in Puts, PutArrives(p) \/ SetDevicePushToken(p) PROVE RunInv'
  BY <1>8, ArrivesRuns, StatementRuns
<1>9. ASSUME NEW m \in Pushes, FcmRejects(m) PROVE RunInv'
  <2>1. \A s \in Rows : row'[s].push \in {row[s].push, None}
    BY <1>9 DEF FcmRejects, TypeOK, Row
  <2> QED BY <1>9, <2>1, RunFrame DEF FcmRejects
<1>10. ASSUME NEW m \in Pushes, (\E r \in Rows : Send(m, r)) \/ FcmAccepts(m) \/ Deliver(m) PROVE RunInv'
  BY <1>1, <1>10 DEF Send, FcmAccepts, Deliver
<1>11. CASE Launch \/ Close \/ Invalidate \/ LoseCredential \/ CurrentPermission \/ RequestPermission
              \/ UNCHANGED vars
  BY <1>1, <1>11 DEF Launch, Close, Invalidate, LoseCredential, CurrentPermission, RequestPermission, vars
<1> QED
  BY <1>3, <1>4, <1>5, <1>6, <1>7, <1>8, <1>9, <1>10, <1>11 DEF Next

\* One registration token sits on two rows only if two statements for it ran at the same time
\* (SetDevicePushToken, ClearDevicePushToken).
THEOREM SharedTokens == Spec => []SharedTokenNeedsOverlap
<1>1. Init => Carried /\ RunInv
  BY DEF Init, Carried, RunInv, SharedTokenNeedsOverlap, NoPut
<1>2. RunInv => SharedTokenNeedsOverlap
  BY DEF RunInv
<1> QED BY <1>1, <1>2, PushTypes, NextCarried, NextRuns, PTL DEF Spec

----------------------------------------------------------------------------
(* The registration of the running app *)

\* Nothing has been sent yet and the app still has a reason to wait for.
Waiting == /\ Unfinished = {}
           /\ start \in {"permission", "token"} \/ optIn = "token" \/ permission # "granted"

\* One PUT is under way, with the current token for the row of the credential; it
\* is refused only where that row is no longer active.
Pending == /\ cached # None /\ fcm # None
           /\ \E p \in Puts : /\ Unfinished = {p}
                              /\ put[p].token = fcm /\ put[p].row = cached
                              /\ put[p].pc = "refused" => row[cached].state # "active"

\* The last PUT has ended and the row holds the current token.
Registered == /\ cached # None /\ fcm # None /\ Unfinished = {}
              /\ row[cached].state = "active" => row[cached].push = fcm

RegistrationInv == /\ start = "off" => cached = None /\ optIn = "none"
                   /\ start # "off" /\ ~excused => Waiting \/ Pending \/ Registered

\* A PUT that leaves alone and with a credential is the pending registration
\* (_registerToken).
LEMMA RegisterPends ==
    ASSUME TypeOK, NEW t \in Tokens, RegisterToken(t), fcm' = t, UNCHANGED <<cached, row>>, ~excused'
    PROVE  Pending'
<1>1. PICK p \in Puts \ Unfinished :
         /\ put' = [put EXCEPT ![p] = [NoPut EXCEPT !.pc = "sent", !.token = t, !.row = cached]]
         /\ excused' = (cached = None \/ Unfinished # {})
  BY DEF RegisterToken
<1>2. cached # None /\ Unfinished = {}
  BY <1>1
<1>3. /\ put'[p].pc = "sent" /\ put'[p].token = t /\ put'[p].row = cached
      /\ \A q \in Puts : q # p => put'[q] = put[q]
  BY <1>1 DEF TypeOK, NoPut
<1>4. Unfinished' = {p}
  BY <1>2, <1>3 DEF Unfinished
<1> QED BY <1>2, <1>3, <1>4, NoneAssumption DEF Pending

\* A token taken from FCM ends in a pending registration or excuses the app
\* (_registerCurrentToken).
LEMMA GetTokenPends ==
    ASSUME TypeOK, NEW pc, GetToken(pc), UNCHANGED <<cached, row>>, ~excused'
    PROVE  Pending'
<1>1. ~(platform = "web" /\ worker' = "none") /\ ~NoToken
  BY DEF GetToken, NoToken, Fault
<1>2. PICK t \in Tokens : fcm' = t /\ RegisterToken(t)
  BY <1>1 DEF GetToken
<1> QED BY <1>2, RegisterPends

\* Every step keeps RegistrationInv.
LEMMA NextRegisters == TypeOK /\ RegistrationInv /\ [Next]_vars => RegistrationInv'
<1> SUFFICES ASSUME TypeOK, RegistrationInv, [Next]_vars PROVE RegistrationInv'
  OBVIOUS
<1> USE DEF client, external, history, RegistrationInv
<1>1. ASSUME Fault, UNCHANGED <<cached, start, optIn>> PROVE RegistrationInv'
  BY <1>1 DEF Fault
<1>2. ASSUME UNCHANGED <<put, row, cached, fcm, start, optIn, permission, excused>> PROVE RegistrationInv'
  BY <1>2 DEF Waiting, Pending, Registered, Unfinished
<1>3. CASE Launch
  <2>1. /\ start' = "permission" /\ excused' = (Unfinished # {}) /\ UNCHANGED <<cached, optIn, put>>
    BY <1>3 DEF Launch
  <2> QED BY <2>1 DEF Waiting, Unfinished
<1>4. CASE Close
  BY <1>4 DEF Close
<1>5. CASE LoadIdentity
  <2>1. /\ start # "off" /\ cached = None
        /\ UNCHANGED <<start, optIn, permission, put, excused>>
    BY <1>5 DEF LoadIdentity
  <2>2. ~excused => Waiting
    BY <2>1 DEF Pending, Registered
  <2>3. Waiting => Waiting'
    BY <2>1 DEF Waiting, Unfinished
  <2> QED BY <2>1, <2>2, <2>3
<1>6. CASE Invalidate
  BY <1>6 DEF Invalidate
<1>7. CASE LoseCredential
  BY <1>1, <1>7 DEF LoseCredential
<1>8. ASSUME NEW r \in Rows, DetachAccountDevices(r) PROVE RegistrationInv'
  BY <1>1, <1>8 DEF DetachAccountDevices
<1>9. CASE CurrentPermission
  <2>1. /\ start = "permission" /\ start' = IF permission = "granted" THEN "token" ELSE "done"
        /\ UNCHANGED <<cached, optIn, permission, fcm, row, put, excused>>
    BY <1>9 DEF CurrentPermission
  <2>2. UNCHANGED Unfinished
    BY <2>1 DEF Unfinished
  <2>3. (Pending => Pending') /\ (Registered => Registered') /\ (Waiting => Waiting')
    BY <2>1, <2>2 DEF Pending, Registered, Waiting
  <2> QED BY <2>1, <2>3
<1>10. CASE RequestPermission
  <2>1. /\ start # "off" /\ optIn = "none"
        /\ permission' \in IF permission = "notRequested" THEN {"granted", "denied"} ELSE {permission}
        /\ optIn' = IF permission' = "granted" THEN "token" ELSE "done"
        /\ UNCHANGED <<cached, start, fcm, row, put, excused>>
    BY <1>10 DEF RequestPermission
  <2>2. UNCHANGED Unfinished
    BY <2>1 DEF Unfinished
  <2>3. (Pending => Pending') /\ (Registered => Registered') /\ (Waiting => Waiting')
    BY <2>1, <2>2 DEF Pending, Registered, Waiting
  <2> QED BY <2>1, <2>3
<1>11. CASE StartRegisters
  <2>1. GetToken(start) /\ start' = "done" /\ UNCHANGED <<cached, row>>
    BY <1>11 DEF StartRegisters
  <2> QED BY <2>1, GetTokenPends
<1>12. CASE OptInRegisters
  <2>1. GetToken(optIn) /\ UNCHANGED <<start, cached, row>> /\ optIn = "token"
    BY <1>12 DEF OptInRegisters, GetToken
  <2> QED BY <2>1, GetTokenPends
<1>13. CASE TokenRefresh
  <2>1. PICK t \in Tokens : /\ fcm' = t
                            /\ IF start # "off" THEN RegisterToken(t) ELSE UNCHANGED <<put, excused>>
    BY <1>13 DEF TokenRefresh
  <2>2. UNCHANGED <<cached, row, start, optIn>>
    BY <1>13 DEF TokenRefresh
  <2> QED BY <2>1, <2>2, RegisterPends
<1>p. ASSUME NEW p \in Puts, put[p].pc # "free", start # "off", ~excused
      PROVE  /\ cached # None /\ fcm # None /\ Unfinished = {p}
             /\ put[p].token = fcm /\ put[p].row = cached
             /\ put[p].pc = "refused" => row[cached].state # "active"
  <2>1. p \in Unfinished
    BY <1>p DEF Unfinished
  <2> QED BY <1>p, <2>1 DEF Waiting, Registered, Pending
<1>14. ASSUME NEW p \in Puts, PutArrives(p) PROVE RegistrationInv'
  <2>1. /\ put[p].pc = "sent" /\ put[p] \in Put
        /\ UNCHANGED <<cached, start, optIn, fcm, row, permission, excused>>
    BY <1>14 DEF PutArrives, TypeOK
  <2>2. /\ put'[p].token = put[p].token /\ put'[p].row = put[p].row
        /\ put'[p].pc \in {"running", "refused"}
        /\ put'[p].pc = "refused" => put[p].row = None \/ row[put[p].row].state # "active"
        /\ \A q \in Puts : q # p => put'[q] = put[q]
    BY <1>14, <2>1 DEF PutArrives, TypeOK, Put
  <2>3. UNCHANGED Unfinished
    BY <2>1, <2>2 DEF Unfinished
  <2> QED BY <2>1, <2>2, <2>3, <1>p DEF Pending
<1>15. ASSUME NEW p \in Puts, SetDevicePushToken(p) PROVE RegistrationInv'
  <2>1. /\ put[p].pc = "running" /\ put'[p].pc = "free"
        /\ \A q \in Puts : q # p => put'[q] = put[q]
        /\ UNCHANGED <<cached, start, optIn, fcm, permission, excused>>
    BY <1>15 DEF SetDevicePushToken, TypeOK, NoPut
  <2>2. put[p].row \in Rows => row'[put[p].row].push = put[p].token
    BY <1>15 DEF SetDevicePushToken, TypeOK, Row
  <2>3. ASSUME start' # "off", ~excused' PROVE Registered'
    <3>1. cached \in Rows /\ fcm # None /\ Unfinished = {p} /\ put[p].token = fcm /\ put[p].row = cached
      BY <2>1, <2>3, <1>p DEF TypeOK
    <3>2. Unfinished' = {}
      BY <3>1, <2>1 DEF Unfinished
    <3> QED BY <3>1, <3>2, <2>1, <2>2, NoneAssumption DEF Registered
  <2> QED BY <2>1, <2>3
<1>16. ASSUME NEW p \in Puts, PutRefused(p) PROVE RegistrationInv'
  <2>1. /\ put[p].pc = "refused" /\ put[p] \in Put
        /\ UNCHANGED <<cached, start, optIn, fcm, row, permission, excused>>
    BY <1>16 DEF PutRefused, TypeOK
  <2>2. CASE put' = [put EXCEPT ![p] = NoPut]
    <3>1. put'[p].pc = "free" /\ \A q \in Puts : q # p => put'[q] = put[q]
      BY <2>2 DEF TypeOK, NoPut
    <3>2. Unfinished = {p} => Unfinished' = {}
      BY <3>1 DEF Unfinished
    <3> QED BY <2>1, <3>2, <1>p DEF Registered
  <2>3. CASE put' = [put EXCEPT ![p] = [put[p] EXCEPT !.pc = "sent", !.row = cached, !.retried = TRUE]]
    <3>1. /\ put'[p].pc = "sent" /\ put'[p].token = put[p].token /\ put'[p].row = cached
          /\ \A q \in Puts : q # p => put'[q] = put[q]
      BY <2>1, <2>3 DEF TypeOK, Put
    <3>2. UNCHANGED Unfinished
      BY <2>1, <3>1 DEF Unfinished
    <3> QED BY <2>1, <3>1, <3>2, <1>p DEF Pending
  <2> QED BY <1>16, <2>2, <2>3 DEF PutRefused
<1>17. ASSUME NEW p \in Puts, PutLost(p) PROVE RegistrationInv'
  BY <1>1, <1>17 DEF PutLost
<1>18. ASSUME NEW m \in Pushes, FcmRejects(m) PROVE RegistrationInv'
  <2>1. /\ push[m].token # fcm
        /\ row' = IF Retires(m) THEN [row EXCEPT ![push[m].row].push = None] ELSE row
        /\ UNCHANGED <<put, cached, fcm, start, optIn, permission, excused>>
    BY <1>18 DEF FcmRejects
  <2>2. \A r \in Rows : /\ row'[r].state = row[r].state
                        /\ row[r].push = fcm => row'[r].push = fcm
    BY <2>1 DEF Retires, TypeOK, Row
  <2>3. UNCHANGED Unfinished
    BY <2>1 DEF Unfinished
  <2>4. cached # None => cached \in Rows
    BY DEF TypeOK
  <2>5. (Pending => Pending') /\ (Registered => Registered') /\ (Waiting => Waiting')
    BY <2>1, <2>2, <2>3, <2>4 DEF Pending, Registered, Waiting
  <2> QED BY <2>1, <2>5
<1>19. ASSUME NEW m \in Pushes, (\E r \in Rows : Send(m, r)) \/ FcmAccepts(m) \/ Deliver(m)
       PROVE  RegistrationInv'
  BY <1>2, <1>19 DEF Send, FcmAccepts, Deliver
<1>20. CASE UNCHANGED vars
  BY <1>2, <1>20 DEF vars
<1> HIDE DEF RegistrationInv
<1> QED
  BY <1>3, <1>4, <1>5, <1>6, <1>7, <1>8, <1>9, <1>10, <1>11, <1>12, <1>13, <1>14, <1>15, <1>16, <1>17,
     <1>18, <1>19, <1>20 DEF Next

\* A running app that may be pushed, with nothing under way and no excuse, has its
\* current token on the row of its credential: a late FCM rejection of an older
\* token never takes it away (_registerToken, SetDevicePushToken,
\* ClearDevicePushToken).
THEOREM AppStaysRegistered == Spec => []RegisteredOrExcused
<1>1. Init => RegistrationInv
  BY DEF Init, RegistrationInv
<1>2. TypeOK /\ RegistrationInv => RegisteredOrExcused
  BY DEF TypeOK, RegistrationInv, RegisteredOrExcused, Waiting, Pending, Registered
<1> QED BY <1>1, <1>2, PushTypes, NextRegisters, PTL DEF Spec

=============================================================================
