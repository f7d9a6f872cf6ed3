----------------------- MODULE SessionRotationProofs ------------------------
(***************************************************************************)
(* Proofs about SessionRotation for every set of sessions, rotations and   *)
(* requests and every number of faults: a refresh token is replaced at     *)
(* most once, and dies only with a replacement or by a logout; as long as  *)
(* nothing fails and nobody logs out, nobody is signed out.                *)
(***************************************************************************)
EXTENDS SessionRotation, TLAPS

\* A refresh presents a session; a transaction that has revoked it holds its row,
\* and nobody else has changed the row since.
LockInv == \A i \in Rotations :
    /\ rot[i].srv # "none" => rot[i].session \in Sessions
    /\ rot[i].cli # "none" => rot[i].srv # "none"
    /\ rot[i].srv = "revoking" => /\ rowLock[rot[i].session] = i
                                  /\ token[rot[i].session].state = "active"

\* A replacement exists only of a token that is dead.
FamilyInv == \A n \in Sessions :
    token[n].parent # None => /\ token[n].state # "unborn"
                              /\ token[token[n].parent].state = "revoked"

LogoutInv == logout.pc # "none" => logout.session \in loggedOut

TokenInv == LockInv /\ FamilyInv /\ LogoutInv /\ OneReplacementPerToken /\ RevokedHasSuccessor

----------------------------------------------------------------------------
LEMMA Records == /\ NoToken \in Token /\ NoRotation \in Rotation
                 /\ NoRequest \in Request /\ NoLogout \in Logout
BY DEF NoToken, Token, NoRotation, Rotation, NoRequest, Request, NoLogout, Logout

\* The request to /v1/auth/refresh is a rotation.
LEMMA PostedTypes ==
    ASSUME TypeOK, NEW i \in Rotations, NEW k \in {"refresh", "restore"},
           NEW s \in Sessions \cup {None}, Posted(i, k, s)
    PROVE  /\ rot' \in [Rotations -> Rotation]
           /\ rot'[i].srv = "sent" /\ rot'[i].session = s
           /\ \A j \in Rotations : j # i => rot'[j] = rot[j]
BY DEF Posted, TypeOK, NoRotation, Rotation

LEMMA RefreshTypes ==
    ASSUME TypeOK, NEW i \in Rotations, RefreshIfExpired(i)
    PROVE  /\ rot' \in [Rotations -> Rotation]
           /\ refreshFuture' \in Rotations \cup {None}
           /\ \A j \in Rotations : rot'[j] = rot[j] \/ (rot'[j].srv = "sent" /\ rot'[j].session = cached)
<1>1. CASE SharedRotation # None
    BY <1>1 DEF RefreshIfExpired, TypeOK
<1>2. CASE SharedRotation = None
  <2>1. Posted(i, "refresh", cached) /\ refreshFuture' = i
      BY <1>2 DEF RefreshIfExpired
  <2>2. cached \in Sessions \cup {None}
      BY DEF TypeOK
  <2> QED BY <2>1, <2>2, PostedTypes
<1> QED BY <1>1, <1>2

LEMMA ResumedTypes ==
    ASSUME TypeOK, NEW i \in Rotations, NEW s \in Sessions \cup {None}, NEW n \in Sessions \cup {None}
    PROVE  Resumed(i, s, n) \in [Requests -> Request]
<1> SUFFICES ASSUME NEW r \in Requests
             PROVE  Resumed(i, s, n)[r] \in Request
    BY DEF Resumed
<1>1. req[r] \in Request
    BY DEF TypeOK
<1> QED BY <1>1 DEF Resumed, Request

LEMMA TypeStep == TypeOK /\ [Next]_vars => TypeOK'
<1> SUFFICES ASSUME TypeOK, [Next]_vars PROVE TypeOK'
    OBVIOUS
<1>i. ASSUME NEW i \in Rotations PROVE rot[i] \in Rotation
    BY DEF TypeOK
<1>s. ASSUME NEW s \in Sessions PROVE token[s] \in Token
    BY DEF TypeOK
<1>r. ASSUME NEW r \in Requests PROVE req[r] \in Request
    BY DEF TypeOK
<1>1. ASSUME NEW s \in Sessions, Age(s) PROVE TypeOK'
  <2>1. [token[s] EXCEPT !.age = @ + 1] \in Token
      BY <1>1, <1>s DEF Age, Token
  <2> QED BY <1>1, <2>1 DEF Age, TypeOK, app
<1>2. ASSUME NEW n \in Sessions, Save(n) PROVE TypeOK'
  <2>1. [NoToken EXCEPT !.state = "active"] \in Token
      BY Records DEF Token
  <2> QED BY <1>2, <2>1 DEF Save, TypeOK
<1>3. ASSUME NEW i \in Rotations, ReadRefreshToken(i) PROVE TypeOK'
    BY <1>3, <1>i DEF ReadRefreshToken, TypeOK, server, app, Rotation
<1>4. ASSUME NEW i \in Rotations, RevokeRefreshTokenIfActive(i) PROVE TypeOK'
  <2>1. rot' \in [Rotations -> Rotation]
      BY <1>4, <1>i DEF RevokeRefreshTokenIfActive, TypeOK, Rotation
  <2>2. rowLock' \in [Sessions -> Rotations \cup {None}]
      BY <1>4 DEF RevokeRefreshTokenIfActive, TypeOK
  <2> QED BY <1>4, <2>1, <2>2 DEF RevokeRefreshTokenIfActive, TypeOK, app
<1>5. ASSUME NEW i \in Rotations, CommitRotation(i) PROVE TypeOK'
  <2> DEFINE s == rot[i].session
  <2>1. PICK n \in Unborn :
           /\ token' = [token EXCEPT ![s] = [@ EXCEPT !.state = "revoked"],
                                     ![n] = [state |-> "active", parent |-> s, age |-> 0]]
           /\ rot' = [rot EXCEPT ![i] = [@ EXCEPT !.srv = "minted", !.new = n]]
      BY <1>5 DEF CommitRotation
  <2>2. s \in Sessions \cup {None} /\ n \in Sessions
      BY <1>i DEF Rotation, Unborn
  <2>3. [state |-> "active", parent |-> s, age |-> 0] \in Token
      BY <2>2 DEF Token
  <2>4. token' \in [Sessions -> Token]
      BY <2>1, <2>2, <2>3, <1>s DEF TypeOK, Token
  <2>5. rot' \in [Rotations -> Rotation]
      BY <2>1, <2>2, <1>i, ZenonT(60) DEF TypeOK, Rotation
  <2>6. rowLock' \in [Sessions -> Rotations \cup {None}]
      BY <1>5 DEF CommitRotation, TypeOK
  <2> QED BY <1>5, <2>4, <2>5, <2>6 DEF CommitRotation, TypeOK, app
<1>6. ASSUME NEW i \in Rotations, FailRotation(i) PROVE TypeOK'
    BY <1>6, <1>i, SMTT(30) DEF FailRotation, Fault, TypeOK, app, Rotation
<1>7. ASSUME NEW i \in Rotations, RotationAnswered(i) PROVE TypeOK'
  <2> DEFINE q == [rot[i] EXCEPT !.got = rot[i].new,
                                 !.cli = IF rot[i].srv = "minted" THEN "persist" ELSE "clear"]
  <2>1. q \in Rotation
      BY <1>i DEF Rotation
  <2>2. rot' = [rot EXCEPT ![i] = q]
      BY <1>7 DEF RotationAnswered
  <2> HIDE DEF q
  <2>3. rot' \in [Rotations -> Rotation]
      BY <2>1, <2>2 DEF TypeOK
  <2> QED BY <1>7, <2>3 DEF RotationAnswered, TypeOK, server, app
<1>8. ASSUME NEW i \in Rotations, RotationTimeout(i) PROVE TypeOK'
    BY <1>8, <1>i DEF RotationTimeout, Fault, TypeOK, server, app, Rotation
<1>9. ASSUME NEW i \in Rotations, StoreRotation(i) PROVE TypeOK'
    BY <1>9, <1>i DEF StoreRotation, TypeOK, server, Rotation
<1>10. ASSUME NEW i \in Rotations, FinishRotation(i) PROVE TypeOK'
  <2>1. rot[i].got \in Sessions \cup {None}
      BY <1>i DEF Rotation
  <2>2. req' \in [Requests -> Request]
      BY <1>10, <2>1, ResumedTypes DEF FinishRotation
  <2> QED BY <1>10, <1>i, <2>1, <2>2, SMTT(30) DEF FinishRotation, TypeOK, server, Rotation
<1>11. ASSUME NEW i \in Rotations, StorageError(i) PROVE TypeOK'
  <2>1. rot[i].session \in Sessions \cup {None} /\ cached \in Sessions \cup {None}
      BY <1>i DEF Rotation, TypeOK
  <2>2. req' \in [Requests -> Request]
      BY <1>11, <2>1, ResumedTypes DEF StorageError
  <2> QED BY <1>11, <1>i, <2>2 DEF StorageError, Fault, TypeOK, server, Rotation
<1>12. ASSUME NEW i \in Rotations, RefreshIfNeeded(i) PROVE TypeOK'
    BY <1>12, RefreshTypes DEF RefreshIfNeeded, TypeOK, server
<1>13. ASSUME NEW r \in Requests, Send(r) PROVE TypeOK'
    BY <1>13, <1>r, ZenonT(60) DEF Send, TypeOK, server, app, Request
<1>14. ASSUME NEW r \in Requests, RequestOk(r) \/ Surface401(r) PROVE TypeOK'
    BY <1>14, <1>r DEF RequestOk, Surface401, Surfaced, TypeOK, server, app, Request
<1>15. ASSUME NEW r \in Requests, NEW i \in Rotations, AwaitRefresh(r, i) PROVE TypeOK'
  <2> DEFINE waiting == [req[r] EXCEPT !.pc = "waiting", !.stale = cached,
                                       !.retried = TRUE, !.on = i]
  <2>a. req' = [req EXCEPT ![r] = waiting] /\ req \in [Requests -> Request]
      BY <1>15 DEF AwaitRefresh, TypeOK
  <2>b. req[r] \in Request /\ cached \in Sessions \cup {None}
      BY <1>r DEF TypeOK
  <2>c. waiting \in Request
      BY <2>b DEF Request
  <2> HIDE DEF waiting
  <2>1. req' \in [Requests -> Request]
      BY <2>a, <2>c
  <2> QED BY <1>15, <2>1, RefreshTypes DEF AwaitRefresh, TypeOK, server
<1>16. CASE Restore
  <2>1. rot' \in [Rotations -> Rotation]
      BY <1>16, PostedTypes DEF Restore, TypeOK
  <2> QED BY <1>16, <2>1 DEF Restore, TypeOK, server
<1>17. CASE SaveCached \/ StartLogout
    BY <1>17 DEF SaveCached, StartLogout, LogoutPresents, TypeOK, Logout, server
<1>18. CASE ClearStored \/ LogoutArrives \/ LogoutFails
    BY <1>18, Records DEF ClearStored, LogoutArrives, LogoutFails, Fault, TypeOK, Logout, server, app
<1>19. CASE RevokeRefreshToken
    BY <1>19, <1>s, Records DEF RevokeRefreshToken, TypeOK, Token, app
<1>20. CASE Crash
  <2>1. rot' \in [Rotations -> Rotation]
      BY <1>20, <1>i, ZenonT(60) DEF Crash, Rotation
  <2>2. req' \in [Requests -> Request]
      BY <1>20, <1>r DEF Crash, Request
  <2>3. logout' \in Logout
      BY <1>20, Records DEF Crash, TypeOK
  <2>4. running' \in BOOLEAN /\ cached' = None /\ refreshFuture' = None /\ saving' = None
      BY <1>20 DEF Crash
  <2>a. Fault
      BY <1>20 DEF Crash
  <2>5. faults' \in Nat
      BY <2>a DEF Fault, TypeOK
  <2>6. UNCHANGED <<token, rowLock, stored, loggedOut>>
      BY <1>20 DEF Crash, server
  <2> QED BY <2>1, <2>2, <2>3, <2>4, <2>5, <2>6 DEF TypeOK
<1>21. CASE UNCHANGED vars
    BY <1>21 DEF vars, server, app, TypeOK
<1> QED BY <1>1, <1>2, <1>3, <1>4, <1>5, <1>6, <1>7, <1>8, <1>9, <1>10, <1>11, <1>12, <1>13, <1>14,
           <1>15, <1>16, <1>17, <1>18, <1>19, <1>20, <1>21
        DEF Next, ServerStep, ClientStep, RequestStep, LogoutStep

\* Type correctness of both ends: every rotation, request and logout refers to
\* sessions and rotations that exist, whatever crashes in between.
THEOREM SessionTypes == Spec => []TypeOK
<1>1. Init => TypeOK
  <2> SUFFICES ASSUME Init PROVE TypeOK
      OBVIOUS
  <2>1. PICK s \in Sessions :
           /\ token = [t \in Sessions |-> IF t = s THEN [NoToken EXCEPT !.state = "active"] ELSE NoToken]
           /\ stored = s
      BY DEF Init
  <2>2. token \in [Sessions -> Token]
      BY <2>1, Records DEF Token
  <2> QED BY <2>1, <2>2, Records DEF Init, TypeOK
<1> QED BY <1>1, TypeStep, PTL DEF Spec

----------------------------------------------------------------------------
\* A step that leaves the rows alone, starts no revoke and makes no logout
\* forget which session it presents.
LEMMA ClientFrame ==
    ASSUME TypeOK, TypeOK', TokenInv, UNCHANGED server,
           \A i \in Rotations :
               \/ /\ rot'[i].session = rot[i].session /\ rot[i].srv # "none" /\ rot'[i].srv # "none"
                  /\ rot'[i].srv = "revoking" => rot[i].srv = "revoking"
               \/ rot'[i] = rot[i]
               \/ rot'[i].srv = "sent" /\ rot'[i].session \in Sessions,
           loggedOut \subseteq loggedOut',
           logout'.pc # "none" => logout'.session \in loggedOut'
    PROVE  TokenInv'
<1>1. LockInv'
    BY DEF TokenInv, LockInv, server
<1>2. FamilyInv' /\ OneReplacementPerToken' /\ RevokedHasSuccessor'
    BY DEF TokenInv, FamilyInv, OneReplacementPerToken, RevokedHasSuccessor, server
<1>3. LogoutInv'
    BY DEF LogoutInv
<1> QED BY <1>1, <1>2, <1>3 DEF TokenInv

LEMMA TokenInvInit == Init => TokenInv
<1> SUFFICES ASSUME Init PROVE TokenInv
    OBVIOUS
<1>1. PICK s \in Sessions : token = [t \in Sessions |-> IF t = s THEN [NoToken EXCEPT !.state = "active"]
                                                        ELSE NoToken]
    BY DEF Init
<1>2. \A t \in Sessions : token[t].parent = None /\ token[t].state # "revoked"
    BY <1>1 DEF NoToken
<1>3. FamilyInv /\ OneReplacementPerToken /\ RevokedHasSuccessor
    BY <1>2, NoneAssumption DEF FamilyInv, OneReplacementPerToken, RevokedHasSuccessor
<1>4. LockInv /\ LogoutInv
    BY DEF Init, LockInv, LogoutInv, NoRotation, NoLogout
<1> QED BY <1>3, <1>4 DEF TokenInv

\* The six steps that write rows, one by one; every other step is a ClientFrame.
LEMMA TokenInvStep == TypeOK /\ TypeOK' /\ TokenInv /\ [Next]_vars => TokenInv'
<1> SUFFICES ASSUME TypeOK, TypeOK', TokenInv, [Next]_vars PROVE TokenInv'
    OBVIOUS
<1>i. ASSUME NEW i \in Rotations PROVE rot[i] \in Rotation
    BY DEF TypeOK
<1>s. ASSUME NEW s \in Sessions PROVE token[s] \in Token
    BY DEF TypeOK
<1>1. ASSUME NEW s \in Sessions, Age(s) PROVE TokenInv'
  <2>1. \A t \in Sessions : token'[t].state = token[t].state /\ token'[t].parent = token[t].parent
      BY <1>1, <1>s DEF Age, TypeOK, Token
  <2>2. UNCHANGED <<rowLock, rot, logout, loggedOut>>
      BY <1>1 DEF Age
  <2>3. LockInv' /\ LogoutInv'
      BY <2>1, <2>2 DEF TokenInv, LockInv, LogoutInv
  <2>4. FamilyInv'
    <3> SUFFICES ASSUME NEW n \in Sessions, token'[n].parent # None
                 PROVE  token'[n].state # "unborn" /\ token'[token'[n].parent].state = "revoked"
        BY DEF FamilyInv
    <3>1. token[n].parent \in Sessions
        BY <2>1, <1>s DEF Token
    <3> QED BY <2>1, <3>1 DEF TokenInv, FamilyInv
  <2>5. OneReplacementPerToken' /\ RevokedHasSuccessor'
      BY <2>1, <2>2 DEF TokenInv, OneReplacementPerToken, RevokedHasSuccessor
  <2> QED BY <2>3, <2>4, <2>5 DEF TokenInv
<1>2. ASSUME NEW n \in Sessions, Save(n) PROVE TokenInv'
  <2>1. /\ token[n].state = "unborn"
        /\ token'[n].state = "active" /\ token'[n].parent = None
        /\ \A t \in Sessions : t # n => token'[t] = token[t]
      BY <1>2 DEF Save, Unborn, NoToken, TypeOK
  <2>2. token[n].parent = None
      BY <2>1 DEF TokenInv, FamilyInv
  <2>3. UNCHANGED <<rowLock, rot, logout, loggedOut>>
      BY <1>2 DEF Save
  <2>4. LockInv' /\ LogoutInv'
      BY <2>1, <2>3 DEF TokenInv, LockInv, LogoutInv
  <2>5. FamilyInv'
    <3> SUFFICES ASSUME NEW m \in Sessions, token'[m].parent # None
                 PROVE  token'[m].state # "unborn" /\ token'[token'[m].parent].state = "revoked"
        BY DEF FamilyInv
    <3>1. m # n /\ token'[m] = token[m]
        BY <2>1
    <3>2. token[m].parent \in Sessions /\ token[token[m].parent].state = "revoked" /\ token[m].state # "unborn"
        BY <3>1, <1>s DEF Token, TokenInv, FamilyInv
    <3> QED BY <2>1, <3>1, <3>2
  <2>6. OneReplacementPerToken' /\ RevokedHasSuccessor'
      BY <2>1, <2>2, <2>3, NoneAssumption DEF TokenInv, OneReplacementPerToken, RevokedHasSuccessor
  <2> QED BY <2>4, <2>5, <2>6 DEF TokenInv
<1>3. ASSUME NEW i \in Rotations, ReadRefreshToken(i) \/ RotationAnswered(i) \/ RotationTimeout(i)
                                  \/ StoreRotation(i) \/ FinishRotation(i) \/ StorageError(i)
      PROVE TokenInv'
  <2>1. UNCHANGED <<server, logout, loggedOut>>
      BY <1>3 DEF ReadRefreshToken, RotationAnswered, RotationTimeout, StoreRotation, FinishRotation, StorageError
  <2>2. \A j \in Rotations : j # i => rot'[j] = rot[j]
      BY <1>3 DEF ReadRefreshToken, RotationAnswered, RotationTimeout, StoreRotation, FinishRotation,
                  StorageError, TypeOK
  <2>3. rot'[i].session = rot[i].session /\ (rot'[i].srv = "revoking" => rot[i].srv = "revoking")
        /\ (rot[i].srv # "none" => rot'[i].srv # "none")
    <3>1. CASE ReadRefreshToken(i)
        BY <3>1, <1>i DEF ReadRefreshToken, TypeOK, Rotation
    <3>4. CASE RotationAnswered(i)
        BY <3>4, <1>i DEF RotationAnswered, TypeOK, Rotation
    <3>2. CASE RotationTimeout(i) \/ StoreRotation(i)
        BY <3>2, <1>i DEF RotationTimeout, StoreRotation, TypeOK, Rotation
    <3>3. CASE FinishRotation(i) \/ StorageError(i)
        BY <3>3, <1>i DEF FinishRotation, StorageError, TypeOK, Rotation
    <3> QED BY <1>3, <3>1, <3>2, <3>3, <3>4
  <2>4. rot[i].srv # "none"
      BY <1>3 DEF ReadRefreshToken, RotationAnswered, RotationTimeout, StoreRotation, FinishRotation,
                  StorageError, TokenInv, LockInv
  <2> QED BY <2>1, <2>2, <2>3, <2>4, ClientFrame DEF TokenInv, LogoutInv
<1>4. ASSUME NEW i \in Rotations, RevokeRefreshTokenIfActive(i) PROVE TokenInv'
  <2> DEFINE s == rot[i].session
  <2>1. /\ rot[i].srv = "checked" /\ rowLock[s] = None
        /\ rot' = [rot EXCEPT ![i] = [@ EXCEPT !.srv = IF Revocable(s) THEN "revoking" ELSE "refused"]]
        /\ rowLock' = [rowLock EXCEPT ![s] = IF Revocable(s) THEN i ELSE None]
        /\ UNCHANGED <<token, logout, loggedOut>>
      BY <1>4 DEF RevokeRefreshTokenIfActive
  <2>2. rot'[i].srv = (IF Revocable(s) THEN "revoking" ELSE "refused") /\ rot'[i].session = s
      BY <2>1, <1>i DEF TypeOK, Rotation
  <2>3. \A j \in Rotations : j # i => rot'[j] = rot[j]
      BY <2>1 DEF TypeOK
  <2>4. LockInv'
    <3>s. s \in Sessions
        BY <2>1 DEF TokenInv, LockInv
    <3>a. \A j \in Rotations : /\ rot'[j].srv # "none" => rot'[j].session \in Sessions
                               /\ rot'[j].cli # "none" => rot'[j].srv # "none"
        BY <3>s, <2>2, <2>3 DEF TokenInv, LockInv
    <3> SUFFICES ASSUME NEW j \in Rotations, rot'[j].srv = "revoking"
                 PROVE  rowLock'[rot'[j].session] = j /\ token'[rot'[j].session].state = "active"
        BY <3>a DEF LockInv
    <3>1. CASE j = i
        BY <3>1, <3>s, <2>1, <2>2 DEF Revocable, TypeOK
    <3>2. CASE j # i
      <4>1. rot[j].srv = "revoking" /\ rot'[j].session = rot[j].session
          BY <3>2, <2>3
      <4>2. rot[j].session \in Sessions /\ rowLock[rot[j].session] = j
            /\ token[rot[j].session].state = "active"
          BY <4>1 DEF TokenInv, LockInv
      <4>3. rot[j].session # s
          BY <4>2, <2>1, NoneAssumption
      <4> QED BY <4>1, <4>2, <4>3, <2>1 DEF TypeOK
    <3> QED BY <3>1, <3>2
  <2> QED BY <2>1, <2>4 DEF TokenInv, FamilyInv, LogoutInv, OneReplacementPerToken, RevokedHasSuccessor
<1>5. ASSUME NEW i \in Rotations, CommitRotation(i) PROVE TokenInv'
  <2> DEFINE s == rot[i].session
  <2>1. PICK n \in Unborn :
           /\ token' = [token EXCEPT ![s] = [@ EXCEPT !.state = "revoked"],
                                     ![n] = [state |-> "active", parent |-> s, age |-> 0]]
           /\ rot' = [rot EXCEPT ![i] = [@ EXCEPT !.srv = "minted", !.new = n]]
      BY <1>5 DEF CommitRotation
  <2>2. /\ rot[i].srv = "revoking"
        /\ rowLock' = [rowLock EXCEPT ![s] = None]
        /\ UNCHANGED <<logout, loggedOut>>
      BY <1>5 DEF CommitRotation
  <2>3. s \in Sessions /\ rowLock[s] = i /\ token[s].state = "active"
      BY <2>2 DEF TokenInv, LockInv
  <2>4. n \in Sessions /\ token[n].state = "unborn" /\ token[n].parent = None /\ n # s
      BY <2>3 DEF Unborn, TokenInv, FamilyInv
  <2>5. /\ token'[s].state = "revoked" /\ token'[s].parent = token[s].parent
        /\ token'[n].state = "active" /\ token'[n].parent = s
        /\ \A t \in Sessions \ {s, n} : token'[t] = token[t]
      BY <2>1, <2>3, <2>4, <1>s DEF TypeOK, Token
  <2>6. \A t \in Sessions : token[t].parent # s
      BY <2>3, NoneAssumption DEF TokenInv, FamilyInv
  <2>7. /\ rot'[i].srv = "minted" /\ rot'[i].session = s
        /\ \A j \in Rotations : j # i => rot'[j] = rot[j]
      BY <2>1, <1>i DEF TypeOK, Rotation
  <2>8. LockInv'
    <3> SUFFICES ASSUME NEW j \in Rotations
                 PROVE  /\ rot'[j].srv # "none" => rot'[j].session \in Sessions
                        /\ rot'[j].cli # "none" => rot'[j].srv # "none"
                        /\ rot'[j].srv = "revoking" => /\ rowLock'[rot'[j].session] = j
                                                       /\ token'[rot'[j].session].state = "active"
        BY DEF LockInv
    <3>1. CASE j = i
        BY <3>1, <2>3, <2>7
    <3>2. CASE j # i
      <4>1. rot'[j] = rot[j]
          BY <3>2, <2>7
      <4>2. ASSUME rot[j].srv = "revoking"
            PROVE  rot[j].session \in Sessions \ {s, n} /\ rowLock[rot[j].session] = j
                   /\ token[rot[j].session].state = "active"
          BY <4>2, <3>2, <2>3, <2>4 DEF TokenInv, LockInv
      <4>3. ASSUME rot[j].srv = "revoking"
            PROVE  rowLock'[rot[j].session] = j /\ token'[rot[j].session].state = "active"
          BY <4>2, <4>3, <2>2, <2>5 DEF TypeOK
      <4> QED BY <4>1, <4>3 DEF TokenInv, LockInv
    <3> QED BY <3>1, <3>2
  <2>9. FamilyInv'
    <3> SUFFICES ASSUME NEW m \in Sessions, token'[m].parent # None
                 PROVE  token'[m].state # "unborn" /\ token'[token'[m].parent].state = "revoked"
        BY DEF FamilyInv
    <3>1. CASE m = n
        BY <3>1, <2>5
    <3>2. CASE m # n
      <4>1. token'[m].parent = token[m].parent /\ token'[m].state # "unborn"
          BY <3>2, <2>5 DEF TokenInv, FamilyInv
      <4>2. token[m].parent \in Sessions /\ token[token[m].parent].state = "revoked"
          BY <4>1, <1>s DEF Token, TokenInv, FamilyInv
      <4> QED BY <4>1, <4>2, <2>3, <2>4, <2>5
    <3> QED BY <3>1, <3>2
  <2>10. OneReplacementPerToken'
    <3> SUFFICES ASSUME NEW p \in Sessions, NEW l \in Sessions, NEW m \in Sessions,
                        token'[l].parent = p, token'[m].parent = p
                 PROVE  l = m
        BY DEF OneReplacementPerToken
    <3>1. \A t \in Sessions : t # n => token'[t].parent = token[t].parent
        BY <2>5
    <3>2. CASE p = s
        BY <3>1, <3>2, <2>6
    <3>3. CASE p # s
        BY <3>1, <3>3, <2>5 DEF TokenInv, OneReplacementPerToken
    <3> QED BY <3>2, <3>3
  <2>11. RevokedHasSuccessor'
    <3> SUFFICES ASSUME NEW t \in Sessions, token'[t].state = "revoked", t \notin loggedOut'
                 PROVE  \E m \in Sessions : token'[m].parent = t
        BY DEF RevokedHasSuccessor
    <3>1. CASE t = s
        BY <3>1, <2>4, <2>5
    <3>2. CASE t # s
      <4>1. PICK m \in Sessions : token[m].parent = t
          BY <3>2, <2>2, <2>5 DEF TokenInv, RevokedHasSuccessor
      <4>2. token'[m].parent = t
          BY <4>1, <2>4, <2>5, NoneAssumption
      <4> QED BY <4>2
    <3> QED BY <3>1, <3>2
  <2>12. LogoutInv'
      BY <2>2 DEF TokenInv, LogoutInv
  <2> QED BY <2>8, <2>9, <2>10, <2>11, <2>12 DEF TokenInv
<1>6. ASSUME NEW i \in Rotations, FailRotation(i) PROVE TokenInv'
  <2>1. /\ rowLock' = [s \in Sessions |-> IF rowLock[s] = i THEN None ELSE rowLock[s]]
        /\ rot[i].srv # "none"
        /\ UNCHANGED <<token, logout, loggedOut>>
      BY <1>6 DEF FailRotation, InFlight
  <2>2. /\ rot'[i].srv = "failed" /\ rot'[i].session = rot[i].session
        /\ \A j \in Rotations : j # i => rot'[j] = rot[j]
      BY <1>6, <1>i DEF FailRotation, TypeOK, Rotation
  <2>3. LockInv'
      BY <2>1, <2>2 DEF TokenInv, LockInv
  <2> QED BY <2>1, <2>3 DEF TokenInv, FamilyInv, LogoutInv, OneReplacementPerToken, RevokedHasSuccessor
<1>7. ASSUME NEW i \in Rotations, RefreshIfExpired(i), cached # None, UNCHANGED <<server, logout, loggedOut>>
      PROVE TokenInv'
  <2>1. cached \in Sessions
      BY <1>7 DEF TypeOK
  <2>2. \A j \in Rotations : rot'[j] = rot[j] \/ (rot'[j].srv = "sent" /\ rot'[j].session \in Sessions)
      BY <1>7, <2>1, RefreshTypes
  <2> QED BY <1>7, <2>2, ClientFrame DEF TokenInv, LogoutInv
<1>8. ASSUME NEW i \in Rotations, RefreshIfNeeded(i) PROVE TokenInv'
    BY <1>7, <1>8 DEF RefreshIfNeeded
<1>9. ASSUME NEW r \in Requests, NEW i \in Rotations, AwaitRefresh(r, i) PROVE TokenInv'
    BY <1>7, <1>9 DEF AwaitRefresh, Refreshes
<1>10. ASSUME NEW r \in Requests, Send(r) \/ RequestOk(r) \/ Surface401(r) PROVE TokenInv'
    BY <1>10, ClientFrame DEF Send, RequestOk, Surface401, TokenInv, LogoutInv
<1>11. CASE Restore
  <2>1. UNCHANGED <<server, logout, loggedOut>>
      BY <1>11 DEF Restore
  <2>2. \A j \in Rotations : rot'[j] = rot[j] \/ (rot'[j].srv = "sent" /\ rot'[j].session \in Sessions)
    <3>1. CASE stored = None
        BY <1>11, <3>1 DEF Restore
    <3>2. CASE stored # None
      <4>1. PICK i \in Rotations : Posted(i, "restore", stored)
          BY <1>11, <3>2 DEF Restore
      <4>2. stored \in Sessions
          BY <3>2 DEF TypeOK
      <4> QED BY <4>1, <4>2, PostedTypes
    <3> QED BY <3>1, <3>2
  <2> QED BY <2>1, <2>2, ClientFrame DEF TokenInv, LogoutInv
<1>12. CASE SaveCached \/ StartLogout \/ ClearStored \/ LogoutArrives \/ LogoutFails
  <2>1. UNCHANGED <<server, rot>> /\ loggedOut \subseteq loggedOut'
      BY <1>12 DEF SaveCached, StartLogout, LogoutPresents, ClearStored, LogoutArrives, LogoutFails
  <2>2. logout'.pc # "none" => logout'.session \in loggedOut'
      BY <1>12 DEF SaveCached, StartLogout, LogoutPresents, ClearStored, LogoutArrives, LogoutFails, TokenInv, LogoutInv,
                   NoLogout, TypeOK, Logout
  <2> QED BY <2>1, <2>2, ClientFrame
<1>13. CASE RevokeRefreshToken
  <2> DEFINE s == logout.session
  <2>1. /\ logout.pc = "checked" /\ rowLock[s] = None
        /\ token' = [token EXCEPT ![s] = [@ EXCEPT !.state = "revoked"]]
        /\ logout' = NoLogout
        /\ UNCHANGED <<rowLock, rot, loggedOut>>
      BY <1>13 DEF RevokeRefreshToken
  <2>2. s \in loggedOut /\ s \in Sessions
      BY <2>1 DEF TokenInv, LogoutInv, TypeOK
  <2>3. /\ token'[s].state = "revoked"
        /\ \A t \in Sessions : token'[t].parent = token[t].parent
        /\ \A t \in Sessions : t # s => token'[t].state = token[t].state
      BY <2>1, <2>2, <1>s DEF TypeOK, Token
  <2>4. LockInv'
      BY <2>1, <2>2, <2>3, NoneAssumption DEF TokenInv, LockInv
  <2>5. FamilyInv'
    <3> SUFFICES ASSUME NEW m \in Sessions, token'[m].parent # None
                 PROVE  token'[m].state # "unborn" /\ token'[token'[m].parent].state = "revoked"
        BY DEF FamilyInv
    <3>1. token[m].parent \in Sessions /\ token[token[m].parent].state = "revoked" /\ token[m].state # "unborn"
        BY <2>3, <1>s DEF Token, TokenInv, FamilyInv
    <3> QED BY <2>3, <3>1
  <2>6. OneReplacementPerToken' /\ RevokedHasSuccessor'
      BY <2>1, <2>2, <2>3 DEF TokenInv, OneReplacementPerToken, RevokedHasSuccessor
  <2>7. LogoutInv'
      BY <2>1 DEF LogoutInv, NoLogout
  <2> QED BY <2>4, <2>5, <2>6, <2>7 DEF TokenInv
<1>14. CASE Crash
  <2>1. UNCHANGED <<server, loggedOut>>
      BY <1>14 DEF Crash
  <2>2. \A j \in Rotations : \/ rot'[j] = rot[j]
                             \/ rot'[j].session = rot[j].session /\ rot'[j].srv = rot[j].srv /\ rot[j].srv # "none"
      BY <1>14, <1>i, ZenonT(60) DEF Crash, Rotation, TokenInv, LockInv
  <2>3. logout'.pc # "none" => logout'.session \in loggedOut'
      BY <1>14, <2>1 DEF Crash, TokenInv, LogoutInv, NoLogout
  <2> QED BY <2>1, <2>2, <2>3, ClientFrame
<1>15. CASE UNCHANGED vars
  <2>1. UNCHANGED <<server, rot, logout, loggedOut>>
      BY <1>15 DEF vars
  <2> QED BY <2>1, ClientFrame DEF TokenInv, LogoutInv
<1> QED BY <1>1, <1>2, <1>3, <1>4, <1>5, <1>6, <1>8, <1>9, <1>10, <1>11, <1>12, <1>13, <1>14, <1>15
        DEF Next, ServerStep, ClientStep, RequestStep, LogoutStep

\* The inductive invariant holds throughout.
LEMMA Inductive == Spec => []TokenInv
<1> QED BY TokenInvInit, TokenInvStep, SessionTypes, PTL DEF Spec

\* One refresh token is replaced at most once, however many rotations present it
\* (Refresh with RevokeRefreshTokenIfActive).
THEOREM OneReplacement == Spec => []OneReplacementPerToken
<1>1. TokenInv => OneReplacementPerToken
    BY DEF TokenInv
<1> QED BY <1>1, Inductive, PTL

\* A refresh token dies only with a replacement or by a logout that presented it:
\* the revoke and the mint of a rotation commit together.
THEOREM NoOrphanedRevoke == Spec => []RevokedHasSuccessor
<1>1. TokenInv => RevokedHasSuccessor
    BY DEF TokenInv
<1> QED BY <1>1, Inductive, PTL

----------------------------------------------------------------------------
(* Nobody is signed out without a fault or a logout *)

Calm == faults = 0 /\ loggedOut = {}

\* How far a rotation is when nothing has failed: the token it presents is alive
\* until the replacement is minted, and the answer is then carried through.
Sound(i) ==
    \/ /\ rot[i].kind = "none" /\ rot[i].session = None /\ rot[i].srv = "none"
       /\ rot[i].cli = "none"
    \/ /\ rot[i].kind # "none" /\ rot[i].session \in Sessions
       /\ rot[i].srv \in {"sent", "checked", "revoking"} /\ rot[i].cli = "waiting"
       /\ token[rot[i].session].state = "active"
    \/ /\ rot[i].kind # "none" /\ rot[i].session \in Sessions
       /\ rot[i].srv = "minted" /\ rot[i].cli \in {"waiting", "persist", "then", "done"}
       /\ token[rot[i].session].state = "revoked"
       /\ rot[i].new \in Sessions /\ token[rot[i].new].state # "unborn"
       /\ rot[i].cli # "waiting" => rot[i].got = rot[i].new

Presented(s) == \E i \in Rotations : rot[i].session = s

\* A token is presented once, and two rotations have different replacements.
PresentedOnce == \A i, j \in Rotations : i # j =>
    /\ rot[i].session # None => rot[i].session # rot[j].session
    /\ rot[i].srv = "minted" /\ rot[j].srv = "minted" => rot[i].new # rot[j].new

\* Until a replacement is cached nobody else knows it.
Unknown == \A i \in Rotations : rot[i].srv = "minted" /\ rot[i].cli # "done" =>
    /\ ~Presented(rot[i].new) /\ rot[i].new \notin {cached, saving}
    /\ rot[i].cli \in {"waiting", "persist"} => rot[i].new # stored

\* The cached session is presented by the shared refresh or by nobody; the
\* session of a sign-in that is being saved by nobody.
Held == /\ cached # None => /\ token[cached].state # "unborn"
                            /\ \A i \in Rotations : rot[i].session = cached
                                  => rot[i].kind = "refresh" /\ rot[i].cli # "done"
        /\ saving # None => /\ token[saving].state # "unborn" /\ ~Presented(saving)
                            /\ saving # cached
        /\ \A i \in Rotations : rot[i].kind = "refresh" /\ rot[i].cli # "done" => refreshFuture = i
        /\ ~running => cached = None /\ saving = None /\ \A i \in Rotations : rot[i].kind = "none"

\* The stored session is replaced before its own rotation ends, and only a
\* rotation kills a token.
Kept == /\ stored # None /\ token[stored].state # "unborn"
        /\ \A i \in Rotations : rot[i].session = stored => rot[i].cli \in {"waiting", "persist"}
        /\ \A s \in Sessions : token[s].state = "revoked" => Presented(s)

CalmParts == (\A i \in Rotations : Sound(i)) /\ PresentedOnce /\ Unknown /\ Held /\ Kept

CalmInv == Calm => CalmParts

\* Ageing, sending and answering requests touch none of it.
LEMMA CalmFrame ==
    ASSUME CalmParts, UNCHANGED <<rot, cached, stored, saving, refreshFuture, running>>,
           TypeOK, \A s \in Sessions : token'[s].state = token[s].state
    PROVE  CalmParts'
<1>t. /\ cached \in Sessions \cup {None} /\ saving \in Sessions \cup {None}
      /\ stored \in Sessions \cup {None}
  BY DEF TypeOK
<1>1. ASSUME NEW i \in Rotations PROVE Sound(i)'
  BY DEF CalmParts, Sound
<1>2. PresentedOnce' /\ Unknown'
  BY DEF CalmParts, PresentedOnce, Unknown, Presented
<1>3. Held' /\ Kept'
  BY <1>t DEF CalmParts, Held, Kept, Presented
<1> QED BY <1>1, <1>2, <1>3 DEF CalmParts

\* The two reads of Refresh find the token alive, so a rotation moves on.
LEMMA CalmServer ==
    ASSUME CalmParts, TypeOK, NEW i \in Rotations,
           rot[i].srv \in {"sent", "checked"}, rot'[i].srv \in {"checked", "revoking"},
           rot'[i].kind = rot[i].kind, rot'[i].session = rot[i].session, rot'[i].cli = rot[i].cli,
           \A j \in Rotations : j # i => rot'[j] = rot[j],
           UNCHANGED <<token, cached, stored, saving, refreshFuture, running>>
    PROVE  CalmParts'
<1>1. ASSUME NEW j \in Rotations PROVE Sound(j)'
  <2>1. Sound(j)
    BY DEF CalmParts
  <2> QED BY <2>1 DEF Sound
<1>2. \A s : Presented(s)' <=> Presented(s)
  BY DEF Presented
<1>3. PresentedOnce'
  BY DEF CalmParts, PresentedOnce
<1>4. Unknown'
  BY <1>2 DEF CalmParts, Unknown
<1>5. Held' /\ Kept'
  BY <1>2 DEF CalmParts, Held, Kept
<1> QED BY <1>1, <1>3, <1>4, <1>5 DEF CalmParts

\* The commit kills the presented token and mints one that nobody knows.
LEMMA CalmCommit ==
    ASSUME CalmParts, TypeOK, NEW i \in Rotations, NEW n \in Sessions,
           rot[i].srv = "revoking", token[n].state = "unborn",
           rot'[i].srv = "minted", rot'[i].new = n,
           rot'[i].kind = rot[i].kind, rot'[i].session = rot[i].session, rot'[i].cli = rot[i].cli,
           \A j \in Rotations : j # i => rot'[j] = rot[j],
           token'[rot[i].session].state = "revoked", token'[n].state = "active",
           \A s \in Sessions \ {rot[i].session, n} : token'[s] = token[s],
           UNCHANGED <<cached, stored, saving, refreshFuture, running>>
    PROVE  CalmParts'
<1> DEFINE s == rot[i].session
<1>t. /\ cached \in Sessions \cup {None} /\ saving \in Sessions \cup {None}
      /\ stored \in Sessions \cup {None}
  BY DEF TypeOK
<1>0. s \in Sessions /\ token[s].state = "active" /\ rot[i].kind # "none" /\ rot[i].cli = "waiting" /\ s # n
  BY DEF CalmParts, Sound
<1>a. \A j \in Rotations : rot[j].session # n /\ (rot[j].srv = "minted" => rot[j].new # n)
  BY NoneAssumption DEF CalmParts, Sound
<1>b. \A j \in Rotations : j # i => rot[j].session # s
  BY <1>0, NoneAssumption DEF CalmParts, PresentedOnce
<1>c. \A x \in Sessions : token[x].state # "unborn" => token'[x].state # "unborn"
  BY <1>0
<1>p. \A x : Presented(x)' <=> Presented(x)
  BY DEF Presented
<1>q. ~Presented(n)
  BY <1>a DEF Presented
<1> HIDE DEF s
<1>1. ASSUME NEW j \in Rotations PROVE Sound(j)'
  <2>1. Sound(j)
    BY DEF CalmParts
  <2>2. CASE j = i
    BY <2>2, <1>0 DEF Sound, s
  <2>3. CASE j # i
    <3>1. rot'[j] = rot[j] /\ rot[j].session # s /\ rot[j].session # n
      BY <2>3, <1>a, <1>b
    <3>2. rot[j].session \in Sessions => token'[rot[j].session] = token[rot[j].session]
      BY <3>1 DEF s
    <3>3. rot[j].new \in Sessions /\ token[rot[j].new].state # "unborn" => token'[rot[j].new].state # "unborn"
      BY <1>c
    <3> QED BY <2>1, <3>1, <3>2, <3>3 DEF Sound
  <2> QED BY <2>2, <2>3
<1>2. PresentedOnce'
  BY <1>a DEF CalmParts, PresentedOnce
<1>3. Unknown'
  <2> SUFFICES ASSUME NEW j \in Rotations, rot'[j].srv = "minted", rot'[j].cli # "done"
               PROVE  /\ ~Presented(rot[j].new)' /\ rot'[j].new \notin {cached, saving}
                      /\ rot'[j].cli \in {"waiting", "persist"} => rot'[j].new # stored
    BY DEF Unknown
  <2>1. n \notin {cached, saving, stored}
    BY <1>t, NoneAssumption DEF CalmParts, Held, Kept
  <2>2. CASE j = i
    BY <2>1, <2>2, <1>a DEF Presented
  <2>3. CASE j # i
    BY <2>3, <1>p, <1>q DEF CalmParts, Unknown
  <2> QED BY <2>2, <2>3
<1>4. Held'
  <2>1. cached # None => token'[cached].state # "unborn"
    BY <1>t, <1>c DEF CalmParts, Held
  <2>2. saving # None => token'[saving].state # "unborn"
    BY <1>t, <1>c DEF CalmParts, Held
  <2> QED BY <1>p, <2>1, <2>2 DEF CalmParts, Held
<1>5. Kept'
  <2>1. token'[stored].state # "unborn"
    BY <1>t, <1>c DEF CalmParts, Kept
  <2>2. Presented(s)
    BY DEF Presented, s
  <2>3. ASSUME NEW x \in Sessions, token'[x].state = "revoked" PROVE Presented(x)
    <3>1. CASE x = s
      BY <3>1, <2>2
    <3>2. CASE x # s
      BY <2>3, <3>2 DEF s, CalmParts, Kept
    <3> QED BY <3>1, <3>2
  <2> QED BY <1>p, <2>1, <2>3 DEF CalmParts, Kept
<1> QED BY <1>1, <1>2, <1>3, <1>4, <1>5 DEF CalmParts

\* The client takes the answer: a pair, as nothing was refused.
LEMMA CalmAnswered ==
    ASSUME CalmParts, TypeOK, NEW i \in Rotations,
           rot[i].srv = "minted", rot[i].cli = "waiting",
           rot'[i].cli = "persist", rot'[i].got = rot[i].new, rot'[i].new = rot[i].new,
           rot'[i].kind = rot[i].kind, rot'[i].session = rot[i].session, rot'[i].srv = rot[i].srv,
           \A j \in Rotations : j # i => rot'[j] = rot[j],
           UNCHANGED <<token, cached, stored, saving, refreshFuture, running>>
    PROVE  CalmParts'
<1>1. ASSUME NEW j \in Rotations PROVE Sound(j)'
  <2>1. Sound(j)
    BY DEF CalmParts
  <2> QED BY <2>1 DEF Sound
<1>2. \A s : Presented(s)' <=> Presented(s)
  BY DEF Presented
<1>3. PresentedOnce'
  BY DEF CalmParts, PresentedOnce
<1>4. Unknown'
  BY <1>2 DEF CalmParts, Unknown
<1>5. Held' /\ Kept'
  BY <1>2 DEF CalmParts, Held, Kept
<1> QED BY <1>1, <1>3, <1>4, <1>5 DEF CalmParts

\* _persist replaces the stored session by one that nobody has presented.
LEMMA CalmStored ==
    ASSUME CalmParts, TypeOK, NEW i \in Rotations,
           rot[i].srv = "minted", rot[i].cli = "persist",
           rot'[i].cli = "then", rot'[i].got = rot[i].got, rot'[i].new = rot[i].new,
           rot'[i].kind = rot[i].kind, rot'[i].session = rot[i].session, rot'[i].srv = rot[i].srv,
           \A j \in Rotations : j # i => rot'[j] = rot[j],
           stored' = rot[i].got, UNCHANGED <<token, cached, saving, refreshFuture, running>>
    PROVE  CalmParts'
<1>0. rot[i].got = rot[i].new /\ rot[i].new \in Sessions /\ token[rot[i].new].state # "unborn"
  BY DEF CalmParts, Sound
<1>1. ASSUME NEW j \in Rotations PROVE Sound(j)'
  <2>1. Sound(j)
    BY DEF CalmParts
  <2> QED BY <2>1 DEF Sound
<1>2. \A s : Presented(s)' <=> Presented(s)
  BY DEF Presented
<1>3. PresentedOnce'
  BY DEF CalmParts, PresentedOnce
<1>4. Unknown'
  <2> SUFFICES ASSUME NEW j \in Rotations, rot'[j].srv = "minted", rot'[j].cli # "done"
               PROVE  /\ ~Presented(rot[j].new)' /\ rot'[j].new \notin {cached, saving}
                      /\ rot'[j].cli \in {"waiting", "persist"} => rot'[j].new # stored'
    BY DEF Unknown
  <2>1. rot[j].srv = "minted" /\ rot[j].cli # "done" /\ rot'[j].new = rot[j].new
    OBVIOUS
  <2>2. ~Presented(rot[j].new)' /\ rot'[j].new \notin {cached, saving}
    BY <2>1, <1>2 DEF CalmParts, Unknown
  <2>3. j # i => rot[j].new # rot[i].new
    BY <2>1 DEF CalmParts, PresentedOnce
  <2> QED BY <2>1, <2>2, <2>3, <1>0
<1>5. Held'
  BY <1>2 DEF CalmParts, Held
<1>6. ~Presented(rot[i].new)
  BY DEF CalmParts, Unknown
<1>7. Kept'
  <2>1. \A j \in Rotations : rot'[j].session # stored'
    BY <1>0, <1>6 DEF Presented
  <2> QED BY <2>1, <1>0, <1>2, NoneAssumption DEF CalmParts, Kept
<1> QED BY <1>1, <1>3, <1>4, <1>5, <1>7 DEF CalmParts

\* The then of the future caches the replacement; the dead session is neither
\* stored nor cached any more.
LEMMA CalmFinished ==
    ASSUME CalmParts, TypeOK, NEW i \in Rotations,
           rot[i].srv = "minted", rot[i].cli = "then",
           rot'[i].cli = "done", rot'[i].got = rot[i].got, rot'[i].new = rot[i].new,
           rot'[i].kind = rot[i].kind, rot'[i].session = rot[i].session, rot'[i].srv = rot[i].srv,
           \A j \in Rotations : j # i => rot'[j] = rot[j],
           cached' = rot[i].got,
           refreshFuture' = IF rot[i].kind = "refresh" THEN None ELSE refreshFuture,
           UNCHANGED <<token, saving, stored, running>>
    PROVE  CalmParts'
<1>0. /\ rot[i].got = rot[i].new /\ rot[i].new \in Sessions /\ token[rot[i].new].state # "unborn"
      /\ rot[i].kind # "none"
  BY DEF CalmParts, Sound
<1>1. ASSUME NEW j \in Rotations PROVE Sound(j)'
  <2>1. Sound(j)
    BY DEF CalmParts
  <2> QED BY <2>1 DEF Sound
<1>2. \A s : Presented(s)' <=> Presented(s)
  BY DEF Presented
<1>3. PresentedOnce'
  BY DEF CalmParts, PresentedOnce
<1>4. Unknown'
  <2> SUFFICES ASSUME NEW j \in Rotations, rot'[j].srv = "minted", rot'[j].cli # "done"
               PROVE  /\ ~Presented(rot[j].new)' /\ rot'[j].new \notin {cached', saving}
                      /\ rot'[j].cli \in {"waiting", "persist"} => rot'[j].new # stored
    BY DEF Unknown
  <2>1. j # i /\ rot'[j] = rot[j]
    OBVIOUS
  <2>2. ~Presented(rot[j].new)' /\ rot[j].new # saving
        /\ (rot'[j].cli \in {"waiting", "persist"} => rot'[j].new # stored)
    BY <2>1, <1>2 DEF CalmParts, Unknown
  <2>3. rot[j].new # rot[i].new
    BY <2>1 DEF CalmParts, PresentedOnce
  <2> QED BY <2>1, <2>2, <2>3, <1>0
<1>5. ~Presented(rot[i].new) /\ rot[i].new # saving
  BY DEF CalmParts, Unknown
<1>6. Held'
  <2>1. /\ token'[cached'].state # "unborn" /\ cached' # saving
        /\ \A j \in Rotations : rot'[j].session # cached'
    BY <1>0, <1>5 DEF Presented
  <2>2. saving # None => token[saving].state # "unborn" /\ ~Presented(saving)'
    BY <1>2 DEF CalmParts, Held
  <2>3. ASSUME NEW j \in Rotations, rot'[j].kind = "refresh", rot'[j].cli # "done"
        PROVE  refreshFuture' = j
    <3>1. j # i /\ refreshFuture = j
      BY <2>3 DEF CalmParts, Held
    <3>2. rot[i].kind = "refresh" => refreshFuture = i
      BY DEF CalmParts, Held
    <3> QED BY <3>1, <3>2
  <2>4. running
    BY <1>0 DEF CalmParts, Held
  <2> QED BY <2>1, <2>2, <2>3, <2>4 DEF Held
<1>7. Kept'
  <2>1. \A j \in Rotations : rot'[j].session = stored => rot'[j].cli \in {"waiting", "persist"}
    BY DEF CalmParts, Kept
  <2> QED BY <2>1, <1>2 DEF CalmParts, Kept
<1> QED BY <1>1, <1>3, <1>4, <1>6, <1>7 DEF CalmParts

\* A rotation starts with a session that none has presented: the cached one, as the
\* shared future of a refresh, or the stored one, at the start of the app.
LEMMA CalmPosted ==
    ASSUME CalmParts, TypeOK, NEW i \in Rotations, NEW k \in {"refresh", "restore"}, NEW s \in Sessions,
           rot[i].kind = "none", Posted(i, k, s), ~Presented(s), token[s].state # "unborn",
           \/ k = "refresh" /\ s = cached /\ refreshFuture = None /\ refreshFuture' = i /\ running
           \/ k = "restore" /\ s = stored /\ ~running /\ UNCHANGED refreshFuture,
           running', UNCHANGED <<token, cached, stored, saving>>
    PROVE  CalmParts'
<1>1. /\ rot'[i].kind = k /\ rot'[i].session = s /\ rot'[i].srv = "sent" /\ rot'[i].cli = "waiting"
      /\ \A j \in Rotations : j # i => rot'[j] = rot[j]
  BY DEF Posted, TypeOK, NoRotation
<1>2. rot[i].session = None
  BY DEF CalmParts, Sound
<1>3. token[s].state = "active"
  BY DEF CalmParts, Kept, TypeOK, Token
<1>4. \A x \in Sessions : Presented(x)' <=> Presented(x) \/ x = s
  BY <1>1, <1>2, NoneAssumption DEF Presented
<1>5. ASSUME NEW j \in Rotations PROVE Sound(j)'
  <2>1. Sound(j)
    BY DEF CalmParts
  <2>2. CASE j = i
    BY <2>2, <1>1, <1>3 DEF Sound
  <2>3. CASE j # i
    BY <2>1, <2>3, <1>1 DEF Sound
  <2> QED BY <2>2, <2>3
<1>6. PresentedOnce'
  BY <1>1, NoneAssumption DEF CalmParts, PresentedOnce, Presented
<1>7. \A j \in Rotations : rot[j].srv = "minted" /\ rot[j].cli # "done" => rot[j].new \in Sessions /\ rot[j].new # s
  <2> SUFFICES ASSUME NEW j \in Rotations, rot[j].srv = "minted", rot[j].cli # "done"
               PROVE  rot[j].new \in Sessions /\ rot[j].new # s
    OBVIOUS
  <2>1. rot[j].new \in Sessions /\ rot[j].kind # "none"
    BY DEF CalmParts, Sound
  <2>2. rot[j].new # cached /\ running
    BY <2>1 DEF CalmParts, Unknown, Held
  <2> QED BY <2>1, <2>2
<1>8. Unknown'
  <2> SUFFICES ASSUME NEW j \in Rotations, rot'[j].srv = "minted", rot'[j].cli # "done"
               PROVE  /\ ~Presented(rot[j].new)' /\ rot'[j].new \notin {cached, saving}
                      /\ rot'[j].cli \in {"waiting", "persist"} => rot'[j].new # stored
    BY DEF Unknown
  <2>1. j # i /\ rot'[j] = rot[j]
    BY <1>1
  <2>2. /\ ~Presented(rot[j].new) /\ rot[j].new \notin {cached, saving}
        /\ rot[j].cli \in {"waiting", "persist"} => rot[j].new # stored
    BY <2>1 DEF CalmParts, Unknown
  <2>3. ~ \E l \in Rotations : rot'[l].session = rot[j].new
    BY <2>1, <2>2, <1>1, <1>7 DEF Presented
  <2> QED BY <2>1, <2>2, <2>3 DEF Presented
<1>9. Held'
  <2>1. ASSUME cached # None, NEW j \in Rotations, rot'[j].session = cached
        PROVE  rot'[j].kind = "refresh" /\ rot'[j].cli # "done"
    <3>1. running
      BY <2>1 DEF CalmParts, Held
    <3>2. CASE j = i
      BY <3>1, <3>2, <1>1
    <3>3. CASE j # i
      BY <3>3, <2>1, <1>1 DEF CalmParts, Held
    <3> QED BY <3>2, <3>3
  <2>2. ASSUME saving # None
        PROVE  token[saving].state # "unborn" /\ ~Presented(saving)' /\ saving # cached
    <3>1. running /\ saving \in Sessions /\ token[saving].state # "unborn" /\ ~Presented(saving) /\ saving # cached
      BY <2>2 DEF CalmParts, Held, TypeOK
    <3>2. saving # s
      BY <3>1
    <3> QED BY <3>1, <3>2, <1>4
  <2>3. ASSUME NEW j \in Rotations, rot'[j].kind = "refresh", rot'[j].cli # "done"
        PROVE  refreshFuture' = j
    <3>1. CASE j = i
      BY <3>1, <2>3, <1>1
    <3>2. CASE j # i
      <4>1. refreshFuture = j /\ rot[j].kind # "none"
        BY <3>2, <2>3, <1>1 DEF CalmParts, Held
      <4>2. running
        BY <4>1 DEF CalmParts, Held
      <4> QED BY <4>1, <4>2, NoneAssumption
    <3> QED BY <3>1, <3>2
  <2> QED BY <2>1, <2>2, <2>3 DEF CalmParts, Held
<1>10. Kept'
  <2>1. ASSUME NEW j \in Rotations, rot'[j].session = stored PROVE rot'[j].cli \in {"waiting", "persist"}
    BY <2>1, <1>1 DEF CalmParts, Kept
  <2> QED BY <2>1, <1>4 DEF CalmParts, Kept
<1> QED BY <1>5, <1>6, <1>8, <1>9, <1>10 DEF CalmParts

\* A sign-in mints a session of its own and stores it ...
LEMMA CalmSave ==
    ASSUME CalmParts, TypeOK, NEW n \in Sessions, Save(n)
    PROVE  CalmParts'
<1>1. /\ token[n].state = "unborn" /\ token'[n].state = "active"
      /\ \A t \in Sessions : t # n => token'[t] = token[t]
  BY DEF Save, Unborn, NoToken, TypeOK
<1>2. /\ running /\ cached = None /\ saving = None /\ stored' = n /\ saving' = n
      /\ UNCHANGED <<rot, running, cached, refreshFuture>>
  BY DEF Save
<1>3. \A j \in Rotations : rot[j].session # n /\ (rot[j].srv = "minted" => rot[j].new # n)
  BY <1>1, NoneAssumption DEF CalmParts, Sound
<1>4. ASSUME NEW j \in Rotations PROVE Sound(j)'
  <2>1. Sound(j)
    BY DEF CalmParts
  <2> QED BY <2>1, <1>1, <1>2, <1>3 DEF Sound
<1>5. PresentedOnce' /\ Unknown'
  BY <1>2, <1>3, NoneAssumption DEF CalmParts, PresentedOnce, Unknown, Presented, Sound
<1>6. Held'
  BY <1>1, <1>2, <1>3, NoneAssumption DEF CalmParts, Held, Presented
<1>7. Kept'
  BY <1>1, <1>2, <1>3, NoneAssumption DEF CalmParts, Kept, Presented
<1> QED BY <1>4, <1>5, <1>6, <1>7 DEF CalmParts

\* ... and caches it, whatever restore has cached meanwhile.
LEMMA CalmSaveCached ==
    ASSUME CalmParts, TypeOK, SaveCached
    PROVE  CalmParts'
<1>1. /\ saving \in Sessions /\ cached' = saving /\ saving' = None
      /\ UNCHANGED <<token, rot, running, stored, refreshFuture>>
  BY DEF SaveCached, server, TypeOK
<1>2. \A j \in Rotations : rot[j].session # saving
  BY <1>1, NoneAssumption DEF CalmParts, Held, Presented
<1>3. ASSUME NEW j \in Rotations PROVE Sound(j)'
  BY <1>1 DEF CalmParts, Sound
<1>4. PresentedOnce' /\ Kept'
  BY <1>1 DEF CalmParts, PresentedOnce, Kept, Presented
<1>5. Unknown'
  <2> SUFFICES ASSUME NEW j \in Rotations, rot[j].srv = "minted", rot[j].cli # "done"
               PROVE  /\ ~Presented(rot[j].new)' /\ rot[j].new \notin {cached', saving'}
                      /\ rot[j].cli \in {"waiting", "persist"} => rot[j].new # stored
    BY <1>1 DEF Unknown
  <2>1. rot[j].new \in Sessions
    BY DEF CalmParts, Sound
  <2> QED BY <2>1, <1>1, NoneAssumption DEF CalmParts, Unknown, Presented
<1>6. Held'
  BY <1>1, <1>2, NoneAssumption DEF CalmParts, Held
<1> QED BY <1>3, <1>4, <1>5, <1>6 DEF CalmParts

\* Every step of an undisturbed app keeps it; a fault or a logout ends the calm.
LEMMA CalmStep == TypeOK /\ TokenInv /\ CalmInv /\ [Next]_vars => CalmInv'
<1> SUFFICES ASSUME TypeOK, TokenInv, CalmInv, [Next]_vars, Calm' PROVE CalmParts'
  BY DEF CalmInv
<1>i. ASSUME NEW i \in Rotations PROVE rot[i] \in Rotation
  BY DEF TypeOK
<1>s. ASSUME NEW s \in Sessions PROVE token[s] \in Token
  BY DEF TypeOK
<1>f. ~Fault
  BY DEF Fault, Calm, TypeOK
<1>c. UNCHANGED <<faults, loggedOut>> => CalmParts
  BY DEF CalmInv, Calm
<1>1. ASSUME NEW s \in Sessions, Age(s) PROVE CalmParts'
  <2>1. \A t \in Sessions : token'[t].state = token[t].state
    BY <1>1, <1>s DEF Age, TypeOK, Token
  <2>2. CalmParts /\ UNCHANGED <<rot, cached, stored, saving, refreshFuture, running>>
    BY <1>1, <1>c DEF Age, app
  <2> QED BY <2>1, <2>2, CalmFrame
<1>2. ASSUME NEW s \in Sessions, Save(s) PROVE CalmParts'
  <2>1. CalmParts
    BY <1>2, <1>c DEF Save
  <2> QED BY <1>2, <2>1, CalmSave
<1>3. ASSUME NEW i \in Rotations, ReadRefreshToken(i) PROVE CalmParts'
  <2>1. /\ CalmParts /\ rot[i].srv = "sent"
        /\ UNCHANGED <<token, cached, stored, saving, refreshFuture, running>>
        /\ rot' = [rot EXCEPT ![i] = [@ EXCEPT !.srv = IF token[rot[i].session].state = "active"
                                                       THEN "checked" ELSE "refused"]]
    BY <1>3, <1>c DEF ReadRefreshToken, server, app
  <2>2. token[rot[i].session].state = "active"
    BY <2>1 DEF CalmParts, Sound
  <2>3. /\ rot'[i].srv = "checked" /\ rot'[i].kind = rot[i].kind
        /\ rot'[i].session = rot[i].session /\ rot'[i].cli = rot[i].cli
        /\ \A j \in Rotations : j # i => rot'[j] = rot[j]
    BY <2>1, <2>2, <1>i DEF TypeOK, Rotation
  <2> QED BY <2>1, <2>3, CalmServer
<1>4. ASSUME NEW i \in Rotations, RevokeRefreshTokenIfActive(i) PROVE CalmParts'
  <2> DEFINE s == rot[i].session
  <2>1. /\ CalmParts /\ rot[i].srv = "checked"
        /\ UNCHANGED <<token, cached, stored, saving, refreshFuture, running>>
        /\ rot' = [rot EXCEPT ![i] = [@ EXCEPT !.srv = IF Revocable(s) THEN "revoking" ELSE "refused"]]
    BY <1>4, <1>c DEF RevokeRefreshTokenIfActive, app
  <2>2. Revocable(s)
    BY <2>1 DEF CalmParts, Sound, Revocable
  <2>3. /\ rot'[i].srv = "revoking" /\ rot'[i].kind = rot[i].kind
        /\ rot'[i].session = rot[i].session /\ rot'[i].cli = rot[i].cli
        /\ \A j \in Rotations : j # i => rot'[j] = rot[j]
    BY <2>1, <2>2, <1>i DEF TypeOK, Rotation
  <2> QED BY <2>1, <2>3, CalmServer
<1>5. ASSUME NEW i \in Rotations, CommitRotation(i) PROVE CalmParts'
  <2> DEFINE s == rot[i].session
  <2>1. PICK n \in Unborn :
           /\ token' = [token EXCEPT ![s] = [@ EXCEPT !.state = "revoked"],
                                     ![n] = [state |-> "active", parent |-> s, age |-> 0]]
           /\ rot' = [rot EXCEPT ![i] = [@ EXCEPT !.srv = "minted", !.new = n]]
    BY <1>5 DEF CommitRotation
  <2>2. /\ CalmParts /\ rot[i].srv = "revoking"
        /\ UNCHANGED <<cached, stored, saving, refreshFuture, running>>
    BY <1>5, <1>c DEF CommitRotation, app
  <2>3. s \in Sessions /\ token[s].state = "active" /\ n \in Sessions /\ token[n].state = "unborn"
    BY <2>2 DEF TokenInv, LockInv, Unborn
  <2>4. /\ token'[s].state = "revoked" /\ token'[n].state = "active"
        /\ \A t \in Sessions \ {s, n} : token'[t] = token[t]
    BY <2>1, <2>3, <1>s DEF TypeOK, Token
  <2>5. /\ rot'[i].srv = "minted" /\ rot'[i].new = n /\ rot'[i].kind = rot[i].kind
        /\ rot'[i].session = rot[i].session /\ rot'[i].cli = rot[i].cli
        /\ \A j \in Rotations : j # i => rot'[j] = rot[j]
    BY <2>1, <1>i DEF TypeOK, Rotation
  <2> QED BY <2>2, <2>3, <2>4, <2>5, CalmCommit
<1>6. ASSUME NEW i \in Rotations, FailRotation(i) \/ RotationTimeout(i) \/ StorageError(i) \/ LogoutFails \/ Crash
      PROVE FALSE
  BY <1>6, <1>f DEF FailRotation, RotationTimeout, StorageError, LogoutFails, Crash
<1>7. ASSUME NEW i \in Rotations, RotationAnswered(i) PROVE CalmParts'
  <2>1. /\ CalmParts /\ rot[i].cli = "waiting" /\ rot[i].srv \in {"minted", "refused", "failed"}
        /\ UNCHANGED <<token, cached, stored, saving, refreshFuture, running>>
        /\ rot' = [rot EXCEPT ![i] = [@ EXCEPT !.got = rot[i].new,
                                               !.cli = IF rot[i].srv = "minted" THEN "persist" ELSE "clear"]]
    BY <1>7, <1>c DEF RotationAnswered, server, app
  <2>2. rot[i].srv = "minted"
    BY <2>1 DEF CalmParts, Sound
  <2>3. /\ rot'[i].cli = "persist" /\ rot'[i].got = rot[i].new /\ rot'[i].new = rot[i].new
        /\ rot'[i].kind = rot[i].kind /\ rot'[i].session = rot[i].session /\ rot'[i].srv = rot[i].srv
        /\ \A j \in Rotations : j # i => rot'[j] = rot[j]
    BY <2>1, <2>2, <1>i DEF TypeOK, Rotation
  <2> QED BY <2>1, <2>2, <2>3, CalmAnswered
<1>8. ASSUME NEW i \in Rotations, StoreRotation(i) PROVE CalmParts'
  <2>1. /\ CalmParts /\ rot[i].cli \in {"persist", "clear"} /\ stored' = rot[i].got
        /\ UNCHANGED <<token, cached, saving, refreshFuture, running>>
        /\ rot' = [rot EXCEPT ![i] = [@ EXCEPT !.cli = "then"]]
    BY <1>8, <1>c DEF StoreRotation, server
  <2>2. rot[i].srv = "minted" /\ rot[i].cli = "persist"
    BY <2>1 DEF CalmParts, Sound
  <2>3. /\ rot'[i].cli = "then" /\ rot'[i].got = rot[i].got /\ rot'[i].new = rot[i].new
        /\ rot'[i].kind = rot[i].kind /\ rot'[i].session = rot[i].session /\ rot'[i].srv = rot[i].srv
        /\ \A j \in Rotations : j # i => rot'[j] = rot[j]
    BY <2>1, <1>i DEF TypeOK, Rotation
  <2> QED BY <2>1, <2>2, <2>3, CalmStored
<1>9. ASSUME NEW i \in Rotations, FinishRotation(i) PROVE CalmParts'
  <2>1. /\ CalmParts /\ rot[i].cli = "then" /\ cached' = rot[i].got
        /\ refreshFuture' = IF rot[i].kind = "refresh" THEN None ELSE refreshFuture
        /\ UNCHANGED <<token, saving, stored, running>>
        /\ rot' = [rot EXCEPT ![i] = [@ EXCEPT !.cli = "done"]]
    BY <1>9, <1>c DEF FinishRotation, server
  <2>2. rot[i].srv = "minted"
    BY <2>1 DEF CalmParts, Sound
  <2>3. /\ rot'[i].cli = "done" /\ rot'[i].got = rot[i].got /\ rot'[i].new = rot[i].new
        /\ rot'[i].kind = rot[i].kind /\ rot'[i].session = rot[i].session /\ rot'[i].srv = rot[i].srv
        /\ \A j \in Rotations : j # i => rot'[j] = rot[j]
    BY <2>1, <1>i DEF TypeOK, Rotation
  <2> QED BY <2>1, <2>2, <2>3, CalmFinished
<1>10. ASSUME NEW i \in Rotations, RefreshIfExpired(i), cached # None, CalmParts,
              UNCHANGED <<token, cached, stored, saving, running>>
       PROVE  CalmParts'
  <2>1. CASE refreshFuture # None
    BY <2>1, <1>10, CalmFrame DEF RefreshIfExpired, SharedRotation
  <2>2. CASE refreshFuture = None
    <3>1. rot[i].kind = "none" /\ Posted(i, "refresh", cached) /\ refreshFuture' = i
      BY <2>2, <1>10 DEF RefreshIfExpired, SharedRotation
    <3>2. cached \in Sessions /\ running /\ token[cached].state # "unborn"
      BY <1>10 DEF CalmParts, Held, TypeOK
    <3>3. ~Presented(cached)
      BY <2>2, <1>10, NoneAssumption DEF CalmParts, Held, Presented
    <3> QED BY <3>1, <3>2, <3>3, <2>2, <1>10, CalmPosted
  <2> QED BY <2>1, <2>2
<1>11. ASSUME NEW i \in Rotations, RefreshIfNeeded(i) PROVE CalmParts'
  BY <1>11, <1>10, <1>c DEF RefreshIfNeeded, server
<1>12. ASSUME NEW r \in Requests, NEW i \in Rotations, AwaitRefresh(r, i) PROVE CalmParts'
  BY <1>12, <1>10, <1>c DEF AwaitRefresh, Refreshes, server
<1>13. ASSUME NEW r \in Requests, Send(r) \/ RequestOk(r) \/ Surface401(r) PROVE CalmParts'
  <2>1. CalmParts /\ UNCHANGED <<token, rot, cached, stored, saving, refreshFuture, running>>
    BY <1>13, <1>c DEF Send, RequestOk, Surface401, server, app
  <2> QED BY <2>1, CalmFrame
<1>14. CASE Restore
  <2>1. /\ CalmParts /\ ~running /\ running' = TRUE
        /\ UNCHANGED <<token, cached, stored, saving, refreshFuture>>
    BY <1>14, <1>c DEF Restore, server
  <2>2. stored \in Sessions /\ token[stored].state # "unborn"
    BY <2>1 DEF CalmParts, Kept, TypeOK
  <2>3. PICK i \in Rotations : rot[i].kind = "none" /\ Posted(i, "restore", stored)
    BY <1>14, <2>2, NoneAssumption DEF Restore
  <2>4. ~Presented(stored)
    BY <2>1, <2>2, NoneAssumption DEF CalmParts, Held, Sound, Presented
  <2> QED BY <2>1, <2>2, <2>3, <2>4, CalmPosted
<1>15. CASE SaveCached
  <2>1. CalmParts
    BY <1>15, <1>c DEF SaveCached
  <2> QED BY <1>15, <2>1, CalmSaveCached
<1>16. CASE StartLogout
  BY <1>16 DEF StartLogout, LogoutPresents, Calm
<1>17. CASE ClearStored \/ LogoutArrives \/ RevokeRefreshToken
  <2>1. logout.pc # "none" /\ UNCHANGED loggedOut
    BY <1>17 DEF ClearStored, LogoutArrives, RevokeRefreshToken
  <2> QED BY <2>1 DEF Calm, TokenInv, LogoutInv
<1>18. CASE UNCHANGED vars
  <2>1. CalmParts /\ UNCHANGED <<token, rot, cached, stored, saving, refreshFuture, running>>
    BY <1>18, <1>c DEF vars, server, app
  <2> QED BY <2>1, CalmFrame
<1>19. LogoutFails \/ Crash => FALSE
  BY <1>f DEF LogoutFails, Crash
<1> QED BY <1>1, <1>2, <1>3, <1>4, <1>5, <1>6, <1>7, <1>8, <1>9, <1>11, <1>12, <1>13, <1>14, <1>15,
           <1>16, <1>17, <1>18, <1>19
        DEF Next, ServerStep, ClientStep, RequestStep, LogoutStep

\* An app that was signed in once and is not running is calm.
LEMMA CalmInit == Init => CalmInv
<1> SUFFICES ASSUME Init PROVE CalmParts
  BY DEF CalmInv
<1>1. PICK s \in Sessions :
         /\ token = [t \in Sessions |-> IF t = s THEN [NoToken EXCEPT !.state = "active"] ELSE NoToken]
         /\ stored = s
  BY DEF Init
<1>2. token[s].state = "active" /\ \A t \in Sessions : token[t].state # "revoked"
  BY <1>1 DEF NoToken
<1>3. /\ \A i \in Rotations : /\ rot[i].kind = "none" /\ rot[i].session = None
                              /\ rot[i].srv = "none" /\ rot[i].cli = "none"
      /\ ~running /\ cached = None /\ saving = None
  BY DEF Init, NoRotation
<1>4. (\A i \in Rotations : Sound(i)) /\ PresentedOnce /\ Unknown /\ Held
  BY <1>3 DEF Sound, PresentedOnce, Unknown, Held
<1>5. Kept
  BY <1>1, <1>2, <1>3, NoneAssumption DEF Kept
<1> QED BY <1>4, <1>5 DEF CalmParts

\* However restore, resume, the 401s of several requests and a sign-in overlap,
\* as long as nothing fails and nobody logs out the stored session is alive or
\* is being rotated: no token is presented twice (_refreshFuture, _rotate).
THEOREM NobodySignedOut == Spec => []NoSpuriousSignOut
<1>1. TypeOK /\ CalmInv => NoSpuriousSignOut
  <2> SUFFICES ASSUME TypeOK, CalmParts
               PROVE  /\ stored # None
                      /\ \/ token[stored].state = "active"
                         \/ \E i \in Rotations : rot[i].session = stored /\ rot[i].cli \notin {"none", "done"}
    BY DEF CalmInv, Calm, NoSpuriousSignOut
  <2>1. stored \in Sessions /\ token[stored].state # "unborn"
    BY DEF CalmParts, Kept, TypeOK
  <2>2. CASE token[stored].state = "active"
    BY <2>1, <2>2, NoneAssumption
  <2>3. CASE token[stored].state = "revoked"
    BY <2>1, <2>3, NoneAssumption DEF CalmParts, Kept, Presented
  <2> QED BY <2>1, <2>2, <2>3 DEF TypeOK, Token
<1> QED BY <1>1, SessionTypes, Inductive, CalmInit, CalmStep, PTL DEF Spec

----------------------------------------------------------------------------
(* Nobody waits for a rotation that has ended *)

\* The client still works on the rotation's answer.
Alive(i) == rot[i].cli \in {"waiting", "persist", "clear", "then"}

\* What a wait can be for.  A request that waits, waits for the one rotation that
\* _refreshFuture names and that the client has not finished; the future itself is never
\* one that nobody completes (refreshIfExpired, _rotate's then and onError).
NoDeadFuture ==
    /\ \A r \in Requests : req[r].pc = "waiting" => req[r].on = refreshFuture /\ refreshFuture # None
    /\ refreshFuture # None => Alive(refreshFuture)

\* A locked refresh_tokens row is locked by a transaction that is open on just that row:
\* the rotation and the logout that wait for it wait for a commit or a rollback that is
\* still to come (Refresh's WithinTx).
RowLocksLive == \A t \in Sessions :
    rowLock[t] # None => rot[rowLock[t]].srv = "revoking" /\ rot[rowLock[t]].session = t

\* The shared rotation is the only refresh under way, and a rotation nobody started has
\* neither end.
SharedLives ==
    /\ refreshFuture # None => rot[refreshFuture].kind = "refresh"
    /\ \A i \in Rotations : rot[i].kind = "refresh" /\ Alive(i) => refreshFuture = i
    /\ \A i \in Rotations : rot[i].kind = "none" => rot[i].srv = "none" /\ rot[i].cli = "none"

Awaited == NoDeadFuture /\ RowLocksLive /\ SharedLives

\* Neither end of a rotation is lost, no wait begins: requests that are sent or answered,
\* the logout, a sign-in.
LEMMA AwaitedFrame ==
    ASSUME TypeOK, Awaited, UNCHANGED <<rowLock, refreshFuture>>,
           \A i \in Rotations : /\ rot'[i].kind = rot[i].kind /\ rot'[i].session = rot[i].session
                                /\ rot[i].srv = "revoking" => rot'[i].srv = "revoking"
                                /\ rot[i].kind = "none" => rot'[i] = rot[i]
                                /\ Alive(i)' <=> Alive(i),
           \A r \in Requests : req'[r].pc = "waiting" => req[r].pc = "waiting" /\ req'[r].on = req[r].on
    PROVE  Awaited'
<1>1. NoDeadFuture'
  BY NoneAssumption DEF Awaited, NoDeadFuture, Alive, TypeOK
<1>2. RowLocksLive'
  BY NoneAssumption DEF Awaited, RowLocksLive, TypeOK
<1>3. SharedLives'
  BY NoneAssumption DEF Awaited, SharedLives, Alive, TypeOK
<1> QED BY <1>1, <1>2, <1>3 DEF Awaited

\* One rotation changes.
LEMMA RotAssigned ==
    ASSUME TypeOK, NEW i \in Rotations, NEW q, rot' = [rot EXCEPT ![i] = q]
    PROVE  rot'[i] = q /\ \A j \in Rotations \ {i} : rot'[j] = rot[j]
BY DEF TypeOK

\* The server's side of a rotation, from its arrival to its commit or its failure (Refresh).
LEMMA AwaitedServer ==
    ASSUME TypeOK, TokenInv, Awaited, NEW i \in Rotations, ServerStep(i) \/ FailRotation(i)
    PROVE  Awaited'
<1>0. rot[i] \in Rotation /\ UNCHANGED <<req, refreshFuture>> /\ rot[i].srv # "none"
  BY DEF TypeOK, ServerStep, FailRotation, ReadRefreshToken, RevokeRefreshTokenIfActive, CommitRotation, app, InFlight
<1>1. PICK q : /\ rot' = [rot EXCEPT ![i] = q]
               /\ q.kind = rot[i].kind /\ q.session = rot[i].session /\ q.cli = rot[i].cli
               /\ \/ rot[i].srv # "revoking" /\ q.srv # "revoking"
                     /\ (UNCHANGED rowLock \/ rowLock' = [x \in Sessions |-> IF rowLock[x] = i THEN None ELSE rowLock[x]])
                  \/ rot[i].srv # "revoking" /\ q.srv = "revoking" /\ rowLock' = [rowLock EXCEPT ![rot[i].session] = i]
                  \/ rot[i].srv # "revoking" /\ q.srv # "revoking" /\ rowLock[rot[i].session] = None
                     /\ rowLock' = [rowLock EXCEPT ![rot[i].session] = None]
                  \/ rot[i].srv = "revoking" /\ q.srv # "revoking" /\ rowLock' = [rowLock EXCEPT ![rot[i].session] = None]
                  \/ rot[i].srv = "revoking" /\ q.srv # "revoking"
                     /\ rowLock' = [x \in Sessions |-> IF rowLock[x] = i THEN None ELSE rowLock[x]]
  <2> DEFINE q(v) == [rot[i] EXCEPT !.srv = v]
  <2>0. \A v \in {"checked", "refused", "revoking", "failed"} :
           /\ q(v).kind = rot[i].kind /\ q(v).session = rot[i].session /\ q(v).cli = rot[i].cli /\ q(v).srv = v
    BY <1>0 DEF Rotation
  <2>1. CASE ReadRefreshToken(i)
    <3>1. (\E v \in {"checked", "refused"} : rot' = [rot EXCEPT ![i] = q(v)]) /\ UNCHANGED rowLock /\ rot[i].srv = "sent"
      BY <2>1 DEF ReadRefreshToken, server, TypeOK
    <3> HIDE DEF q
    <3> QED BY <2>0, <3>1
  <2>2. CASE RevokeRefreshTokenIfActive(i)
    <3>1. /\ rot[i].srv = "checked" /\ rowLock[rot[i].session] = None
          /\ \/ rot' = [rot EXCEPT ![i] = q("revoking")] /\ rowLock' = [rowLock EXCEPT ![rot[i].session] = i]
             \/ rot' = [rot EXCEPT ![i] = q("refused")] /\ rowLock' = [rowLock EXCEPT ![rot[i].session] = None]
      BY <2>2 DEF RevokeRefreshTokenIfActive, TypeOK
    <3> HIDE DEF q
    <3> QED BY <2>0, <3>1
  <2>3. CASE CommitRotation(i)
    <3>1. PICK n : rot' = [rot EXCEPT ![i] = [@ EXCEPT !.srv = "minted", !.new = n]]
      BY <2>3 DEF CommitRotation
    <3> DEFINE m == [rot[i] EXCEPT !.srv = "minted", !.new = n]
    <3>2. m.kind = rot[i].kind /\ m.session = rot[i].session /\ m.cli = rot[i].cli /\ m.srv = "minted"
      BY <1>0 DEF Rotation
    <3>3. rot' = [rot EXCEPT ![i] = m] /\ rot[i].srv = "revoking" /\ rowLock' = [rowLock EXCEPT ![rot[i].session] = None]
      BY <2>3, <3>1 DEF CommitRotation, TypeOK
    <3> HIDE DEF m
    <3> QED BY <3>2, <3>3
  <2>4. CASE FailRotation(i)
    <3>1. /\ rot' = [rot EXCEPT ![i] = q("failed")]
          /\ rowLock' = [x \in Sessions |-> IF rowLock[x] = i THEN None ELSE rowLock[x]]
      BY <2>4 DEF FailRotation, TypeOK
    <3> HIDE DEF q
    <3> QED BY <2>0, <3>1
  <2> QED BY <2>1, <2>2, <2>3, <2>4 DEF ServerStep
<1>2. rot'[i] = q /\ \A j \in Rotations \ {i} : rot'[j] = rot[j]
  BY <1>1, RotAssigned
<1>3. NoDeadFuture'
  BY <1>0, <1>1, <1>2 DEF Awaited, NoDeadFuture, Alive, TypeOK
<1>4. rot[i].kind # "none"
  BY <1>0 DEF Awaited, SharedLives
<1>5. SharedLives'
  BY <1>0, <1>1, <1>2, <1>4 DEF Awaited, SharedLives, Alive, TypeOK
<1>6. ASSUME NEW t \in Sessions, rowLock'[t] # None
      PROVE  rot'[rowLock'[t]].srv = "revoking" /\ rot'[rowLock'[t]].session = t
  <2>1. rot[i].session \in Sessions
    BY <1>0 DEF TokenInv, LockInv
  <2>2. rowLock[t] # None /\ rowLock[t] # i
           => /\ rowLock[t] \in Rotations \ {i}
              /\ rot[rowLock[t]].srv = "revoking" /\ rot[rowLock[t]].session = t
    BY DEF Awaited, RowLocksLive, TypeOK
  <2>3. rowLock[t] = i => rot[i].srv = "revoking" /\ rot[i].session = t
    BY NoneAssumption DEF Awaited, RowLocksLive, TypeOK
  <2> QED BY <1>1, <1>2, <1>6, <2>1, <2>2, <2>3, NoneAssumption DEF TypeOK
<1> QED BY <1>3, <1>5, <1>6 DEF Awaited, RowLocksLive

\* The client takes the answer, or its timeout, and stores the result (_rotate, _persist, _clear).
LEMMA AwaitedClient ==
    ASSUME TypeOK, Awaited, NEW i \in Rotations,
           RotationAnswered(i) \/ RotationTimeout(i) \/ StoreRotation(i)
    PROVE  Awaited'
<1>0. rot[i] \in Rotation /\ UNCHANGED <<req, refreshFuture, rowLock>>
  BY DEF TypeOK, RotationAnswered, RotationTimeout, StoreRotation, app, server
<1>1. PICK q : /\ rot' = [rot EXCEPT ![i] = q]
               /\ q.kind = rot[i].kind /\ q.session = rot[i].session /\ q.srv = rot[i].srv
               /\ q.cli \in {"persist", "clear", "then"} /\ Alive(i)
  <2> DEFINE a(c) == [rot[i] EXCEPT !.got = rot[i].new, !.cli = c]
             b(c) == [rot[i] EXCEPT !.cli = c]
  <2>0. \A c \in {"persist", "clear", "then"} :
           /\ a(c).kind = rot[i].kind /\ a(c).session = rot[i].session /\ a(c).srv = rot[i].srv /\ a(c).cli = c
           /\ b(c).kind = rot[i].kind /\ b(c).session = rot[i].session /\ b(c).srv = rot[i].srv /\ b(c).cli = c
    BY <1>0 DEF Rotation
  <2>1. Alive(i)
    BY DEF Alive, RotationAnswered, RotationTimeout, StoreRotation
  <2>2. \E c \in {"persist", "clear", "then"} : rot' = [rot EXCEPT ![i] = a(c)] \/ rot' = [rot EXCEPT ![i] = b(c)]
    BY DEF RotationAnswered, RotationTimeout, StoreRotation, TypeOK
  <2> HIDE DEF a, b
  <2> QED BY <2>0, <2>1, <2>2
<1>2. rot'[i] = q /\ \A j \in Rotations \ {i} : rot'[j] = rot[j]
  BY <1>1, RotAssigned
<1>3. rot[i].kind # "none"
  BY <1>1 DEF Awaited, SharedLives, Alive
<1>4. \A j \in Rotations : /\ rot'[j].kind = rot[j].kind /\ rot'[j].session = rot[j].session
                           /\ rot[j].srv = "revoking" => rot'[j].srv = "revoking"
                           /\ rot[j].kind = "none" => rot'[j] = rot[j]
                           /\ Alive(j)' <=> Alive(j)
  BY <1>1, <1>2, <1>3 DEF Alive
<1> QED BY <1>0, <1>4, AwaitedFrame

\* The waiters of a rotation, and only they, go on (the interceptor after refreshIfExpired).
LEMMA ResumedGoOn ==
    ASSUME TypeOK, NEW i \in Rotations, NEW a, NEW b, NEW r \in Requests
    PROVE  Resumed(i, a, b)[r].pc = "waiting" => r \notin Waiters(i) /\ Resumed(i, a, b)[r] = req[r]
<1>1. req[r] \in Request
  BY DEF TypeOK
<1>2. /\ [req[r] EXCEPT !.pc = "error", !.on = None].pc = "error"
      /\ [req[r] EXCEPT !.pc = "sent", !.on = None, !.carried = IF b = None THEN @ ELSE b].pc = "sent"
  BY <1>1 DEF Request
<1> QED BY <1>2 DEF Resumed

\* The client is done with a rotation: its waiters go on, and the future goes with it
\* (the then and the onError of _refreshFuture).
LEMMA AwaitedFinish ==
    ASSUME TypeOK, Awaited, NEW i \in Rotations, FinishRotation(i) \/ StorageError(i)
    PROVE  Awaited'
<1>0. /\ rot[i] \in Rotation /\ UNCHANGED rowLock /\ Alive(i)
      /\ refreshFuture' = IF rot[i].kind = "refresh" THEN None ELSE refreshFuture
      /\ \E a, b : req' = Resumed(i, a, b)
  BY DEF TypeOK, FinishRotation, StorageError, server, Alive
<1>1. PICK q : /\ rot' = [rot EXCEPT ![i] = q]
               /\ q.kind = rot[i].kind /\ q.session = rot[i].session /\ q.srv = rot[i].srv /\ q.cli = "done"
  <2> DEFINE q == [rot[i] EXCEPT !.cli = "done"]
  <2>1. q.kind = rot[i].kind /\ q.session = rot[i].session /\ q.srv = rot[i].srv /\ q.cli = "done"
    BY <1>0 DEF Rotation
  <2>2. rot' = [rot EXCEPT ![i] = q]
    BY DEF FinishRotation, StorageError, TypeOK
  <2> HIDE DEF q
  <2> QED BY <2>1, <2>2
<1>2. rot'[i] = q /\ \A j \in Rotations \ {i} : rot'[j] = rot[j]
  BY <1>1, RotAssigned
<1>3. rot[i].kind # "none" /\ (rot[i].kind = "refresh" <=> refreshFuture = i)
  BY <1>0, NoneAssumption DEF Awaited, SharedLives, Alive
<1>4. \A r \in Requests : req'[r].pc = "waiting" => r \notin Waiters(i) /\ req'[r] = req[r]
  BY <1>0, ResumedGoOn
<1>5. ASSUME NEW r \in Requests, req'[r].pc = "waiting" PROVE req'[r].on = refreshFuture' /\ refreshFuture' # None
  BY <1>0, <1>3, <1>4, <1>5 DEF Waiters, Awaited, NoDeadFuture
<1>6. ASSUME refreshFuture' # None PROVE Alive(refreshFuture)' /\ rot'[refreshFuture'].kind = "refresh"
  BY <1>0, <1>2, <1>3, <1>6 DEF Awaited, NoDeadFuture, SharedLives, Alive, TypeOK
<1>7. ASSUME NEW j \in Rotations, rot'[j].kind = "refresh", Alive(j)' PROVE refreshFuture' = j
  BY <1>0, <1>1, <1>2, <1>3, <1>7 DEF Awaited, SharedLives, Alive
<1>8. \A j \in Rotations : rot'[j].kind = "none" => rot'[j].srv = "none" /\ rot'[j].cli = "none"
  BY <1>1, <1>2, <1>3 DEF Awaited, SharedLives
<1>9. RowLocksLive'
  BY <1>0, <1>1, <1>2 DEF Awaited, RowLocksLive, TypeOK
<1> QED BY <1>5, <1>6, <1>7, <1>8, <1>9 DEF Awaited, NoDeadFuture, SharedLives

\* A rotation is posted: restore's own, or the shared one of a refresh.
LEMMA AwaitedPosted ==
    ASSUME TypeOK, Awaited, NEW i \in Rotations, NEW k \in {"refresh", "restore"}, NEW s,
           rot[i].kind = "none", Posted(i, k, s), UNCHANGED rowLock,
           \/ k = "refresh" /\ refreshFuture = None /\ refreshFuture' = i
           \/ k = "restore" /\ UNCHANGED refreshFuture,
           \A r \in Requests : req'[r].pc = "waiting" =>
               \/ req[r].pc = "waiting" /\ req'[r].on = req[r].on
               \/ req'[r].on = i /\ k = "refresh"
    PROVE  Awaited'
<1> DEFINE q == [NoRotation EXCEPT !.kind = k, !.session = s, !.srv = "sent", !.cli = "waiting"]
<1>1. q.kind = k /\ q.srv = "sent" /\ q.cli = "waiting" /\ rot' = [rot EXCEPT ![i] = q]
  BY DEF NoRotation, Posted
<1> HIDE DEF q
<1>2. rot'[i] = q /\ \A j \in Rotations \ {i} : rot'[j] = rot[j]
  BY <1>1, RotAssigned
<1>3. rot[i].srv = "none" /\ rot[i].cli = "none" /\ refreshFuture # i
  BY NoneAssumption DEF Awaited, SharedLives
<1>4. NoDeadFuture'
  BY <1>1, <1>2, <1>3, NoneAssumption DEF Awaited, NoDeadFuture, Alive, TypeOK
<1>5. SharedLives'
  BY <1>1, <1>2, <1>3, NoneAssumption DEF Awaited, SharedLives, Alive, TypeOK
<1>6. RowLocksLive'
  BY <1>2, <1>3 DEF Awaited, RowLocksLive, TypeOK
<1> QED BY <1>4, <1>5, <1>6 DEF Awaited

\* refreshIfExpired, for the app that comes to the foreground or for a refused request.
LEMMA AwaitedRefresh ==
    ASSUME TypeOK, Awaited, NEW i \in Rotations, RefreshIfExpired(i), UNCHANGED rowLock,
           \A r \in Requests : req'[r].pc = "waiting" =>
               (req[r].pc = "waiting" /\ req'[r].on = req[r].on) \/ req'[r].on = i
    PROVE  Awaited'
<1>1. CASE SharedRotation # None
  <2>1. i = refreshFuture /\ UNCHANGED <<rot, refreshFuture>> /\ i # None
    BY <1>1 DEF RefreshIfExpired, SharedRotation
  <2>2. NoDeadFuture'
    BY <2>1 DEF Awaited, NoDeadFuture, Alive
  <2>3. RowLocksLive' /\ SharedLives'
    BY <2>1 DEF Awaited, RowLocksLive, SharedLives, Alive
  <2> QED BY <2>2, <2>3 DEF Awaited
<1>2. CASE SharedRotation = None
  <2>1. rot[i].kind = "none" /\ Posted(i, "refresh", cached) /\ refreshFuture = None /\ refreshFuture' = i
    BY <1>2 DEF RefreshIfExpired, SharedRotation
  <2> QED BY <2>1, AwaitedPosted
<1> QED BY <1>1, <1>2

\* Nobody waits for an answer that is never coming, whatever restores, refreshes, requests,
\* timeouts, storage errors and crashes overlap: a waiting request is registered with the
\* one rotation under way, and a locked row belongs to an open transaction
\* (refreshIfExpired, Refresh).
THEOREM EveryWaitHasARotation == Spec => [](NoDeadFuture /\ RowLocksLive)
<1>1. Init => Awaited
  BY NoneAssumption DEF Init, Awaited, NoDeadFuture, RowLocksLive, SharedLives, Alive, NoRotation, NoRequest
<1>2. TypeOK /\ TokenInv /\ Awaited /\ [Next]_vars => Awaited'
  <2> SUFFICES ASSUME TypeOK, TokenInv, Awaited, [Next]_vars PROVE Awaited'
    OBVIOUS
  <2>f. ASSUME UNCHANGED <<rot, rowLock, refreshFuture>>,
               \A r \in Requests : req'[r].pc = "waiting" => req[r].pc = "waiting" /\ req'[r].on = req[r].on
        PROVE  Awaited'
    <3>1. \A i \in Rotations : Alive(i)' <=> Alive(i)
      BY <2>f DEF Alive
    <3> QED BY <2>f, <3>1, AwaitedFrame
  <2>1. ASSUME NEW s \in Sessions, Age(s) \/ Save(s) PROVE Awaited'
    BY <2>1, <2>f DEF Age, Save, app
  <2>2. ASSUME NEW i \in Rotations,
               \/ ServerStep(i) \/ FailRotation(i) \/ ClientStep(i)
               \/ RotationTimeout(i) \/ StorageError(i)
        PROVE  Awaited'
    BY <2>2, AwaitedServer, AwaitedClient, AwaitedFinish DEF ClientStep
  <2>3. ASSUME NEW i \in Rotations, RefreshIfNeeded(i) PROVE Awaited'
    BY <2>3, AwaitedRefresh DEF RefreshIfNeeded, server
  <2>4. ASSUME NEW r \in Requests, Send(r) \/ RequestOk(r) \/ Surface401(r) PROVE Awaited'
    <3>1. PICK q : req' = [req EXCEPT ![r] = q] /\ q.pc # "waiting"
      <4> DEFINE a == [req[r] EXCEPT !.pc = "sent", !.carried = cached]
                 b(pc) == [req[r] EXCEPT !.pc = pc]
      <4>1. a.pc = "sent" /\ \A pc \in {"ok", "error"} : b(pc).pc = pc
        BY DEF TypeOK, Request
      <4>2. req' = [req EXCEPT ![r] = a] \/ \E pc \in {"ok", "error"} : req' = [req EXCEPT ![r] = b(pc)]
        BY <2>4 DEF Send, RequestOk, Surface401, Surfaced, TypeOK
      <4> HIDE DEF a, b
      <4> QED BY <4>1, <4>2
    <3>2. req'[r] = q /\ \A x \in Requests \ {r} : req'[x] = req[x]
      BY <3>1 DEF TypeOK
    <3> QED BY <2>4, <3>1, <3>2, <2>f DEF Send, RequestOk, Surface401, app, server
  <2>5. ASSUME NEW r \in Requests, NEW i \in Rotations, AwaitRefresh(r, i) PROVE Awaited'
    <3> DEFINE q == [req[r] EXCEPT !.pc = "waiting", !.stale = cached, !.retried = TRUE, !.on = i]
    <3>1. q.on = i /\ req' = [req EXCEPT ![r] = q]
      BY <2>5 DEF AwaitRefresh, TypeOK, Request
    <3> HIDE DEF q
    <3>2. req'[r] = q /\ \A x \in Requests \ {r} : req'[x] = req[x]
      BY <3>1 DEF TypeOK
    <3> QED BY <2>5, <3>1, <3>2, AwaitedRefresh DEF AwaitRefresh, server
  <2>6. CASE Restore
    <3>1. CASE stored = None
      BY <2>6, <3>1, <2>f DEF Restore, server
    <3>2. CASE stored # None
      <4>1. PICK i \in Rotations : rot[i].kind = "none" /\ Posted(i, "restore", stored)
        BY <2>6, <3>2 DEF Restore
      <4> QED BY <2>6, <4>1, AwaitedPosted DEF Restore, server
    <3> QED BY <3>1, <3>2
  <2>7. CASE SaveCached \/ StartLogout \/ LogoutStep \/ LogoutFails
    BY <2>7, <2>f DEF SaveCached, StartLogout, LogoutStep, LogoutFails, ClearStored, LogoutArrives,
                      RevokeRefreshToken, server, app
  <2>8. CASE Crash
    <3>1. ASSUME NEW i \in Rotations
          PROVE  /\ ~Alive(i)' /\ rot'[i].srv = rot[i].srv /\ rot'[i].session = rot[i].session
                 /\ rot'[i].kind = "none" => rot'[i] = rot[i] /\ rot[i].kind = "none"
      <4> DEFINE d == [rot[i] EXCEPT !.cli = "done"]
      <4>0. rot[i] \in Rotation
        BY DEF TypeOK
      <4>1. d.cli = "done" /\ d.srv = rot[i].srv /\ d.session = rot[i].session /\ d.kind = rot[i].kind
        BY <4>0 DEF Rotation
      <4>2. rot'[i] = IF rot[i].cli = "none" THEN rot[i] ELSE d
        BY <2>8 DEF Crash
      <4>3. rot[i].kind = "none" => rot[i].cli = "none"
        BY DEF Awaited, SharedLives
      <4> HIDE DEF d
      <4> QED BY <4>1, <4>2, <4>3 DEF Alive
    <3>2. \A r \in Requests : req'[r].pc # "waiting"
      BY <2>8 DEF Crash, TypeOK, Request
    <3>3. refreshFuture' = None /\ UNCHANGED rowLock
      BY <2>8 DEF Crash, server
    <3>4. RowLocksLive'
      BY <3>1, <3>3 DEF Awaited, RowLocksLive, TypeOK
    <3> QED BY <3>1, <3>2, <3>3, <3>4 DEF Awaited, NoDeadFuture, SharedLives
  <2>9. CASE UNCHANGED vars
    BY <2>9, <2>f DEF vars, server, app
  <2> QED BY <2>1, <2>2, <2>3, <2>4, <2>5, <2>6, <2>7, <2>8, <2>9 DEF Next, RequestStep
<1>3. Awaited => NoDeadFuture /\ RowLocksLive
  BY DEF Awaited
<1> QED BY <1>1, <1>2, <1>3, SessionTypes, Inductive, PTL DEF Spec

=============================================================================
