------------------------ MODULE DeviceIdentityProofs ------------------------
(***************************************************************************)
(* Proofs about DeviceIdentity, for any number of rows, runs, sign-ins and *)
(* faults.                                                                 *)
(***************************************************************************)
EXTENDS DeviceIdentity, FiniteSetTheorems, TLAPS

----------------------------------------------------------------------------
(* The inductive invariant *)

\* Until a credential is invalidated, the run under way is the shared one (_initFuture).
Shared == ~dropped => \A c \in Running : c = initFuture

\* A run and the storage it reads and writes.
InStep(c) ==
    /\ call[c].pc \in {"readId", "readToken"} => call[c].id = idCell
    /\ call[c].pc = "readToken" => call[c].token = tokenCell
    /\ call[c].pc \in {"answered", "writeId", "writeToken"} => call[c].id # None /\ call[c].token # None
    /\ call[c].pc \in {"writeId", "writeToken"} => idCell = call[c].id
    /\ call[c].pc = "writeToken" => tokenCell = call[c].token

\* While nothing has crossed: one run at a time and none beside an invalidate, an
\* invalidate finds nothing cached, and what is cached is what is stored.
Apart ==
    /\ \A c, d \in Running : c = d
    /\ Running # {} => Invalidating = {} /\ cached = None
    /\ Invalidating # {} => cached = None /\ initFuture = None /\ idCell = None
    /\ cached # None => idCell # None /\ tokenCell = cached
    /\ \A c \in Calls : InStep(c)

\* The retry of a sign-in that nothing disturbs rests on a registration of its own: the
\* run it awaits will post, or has a row the server knows, and so has its request.
Recovers(f) == ~flow[f].retry /\ ~flow[f].disturbed =>
    /\ flow[f].pc = "init" =>
          /\ flow[f].on \in Running
          /\ call[flow[f].on].pc \in {"readId", "readToken"} => call[flow[f].on].id = None
          /\ call[flow[f].on].pc \in {"answered", "writeId", "writeToken"} => call[flow[f].on].token \in known
    /\ flow[f].pc = "verify" => flow[f].header \in known
    /\ flow[f].pc \notin {"deleteId", "deleteToken"}

Uncrossed == ~crossed => Apart /\ \A f \in Flows : Recovers(f)

----------------------------------------------------------------------------
(* Type correctness *)

\* A choice from a set that is not empty.
LEMMA AnyOfIn == ASSUME NEW S, S # {} PROVE AnyOf(S) \in S
BY DEF AnyOf

\* The initial states are well typed.
LEMMA InitTypes == Init => TypeOK
<1> SUFFICES ASSUME Init PROVE TypeOK
  OBVIOUS
<1>1. idCell \in Rows \cup {None}
  BY AnyOfIn, RowsAssumption DEF Init
<1>2. call \in [Calls -> Call]
  BY DEF Init, NoCall, Call
<1>3. flow \in [Flows -> Flow]
  BY DEF Init, NoFlow, Flow
<1>4. dropped \in BOOLEAN /\ crossed \in BOOLEAN
  BY Zenon DEF Init
<1> QED BY <1>1, <1>2, <1>3, <1>4 DEF Init, TypeOK

\* A run begins (init).
LEMMA BeginTypes ==
    ASSUME TypeOK, NEW c \in Calls, NEW by, Begin(c, by)
    PROVE  /\ call' \in [Calls -> Call] /\ initFuture' \in Calls /\ crossed' \in BOOLEAN
           /\ c \notin Running
           /\ call'[c].pc = "readId" /\ call'[c].id = idCell
           /\ \A d \in Calls \ {c} : call'[d] = call[d]
           /\ Running' = Running \cup {c}
           /\ ~crossed' => ~crossed /\ Running = {} /\ Invalidating \subseteq by
<1> DEFINE n == [NoCall EXCEPT !.pc = "readId", !.id = idCell]
<1>1. n \in Call /\ n.pc = "readId" /\ n.id = idCell
  BY DEF TypeOK, NoCall, Call
<1>2. call' = [call EXCEPT ![c] = n]
  BY DEF Begin
<1> HIDE DEF n
<1>3. call' \in [Calls -> Call] /\ call'[c] = n /\ \A d \in Calls \ {c} : call'[d] = call[d]
  BY <1>1, <1>2 DEF TypeOK
<1>4. Calls \ Running # {}
  BY DEF Begin, Running
<1>5. c \notin Running
  BY <1>4, AnyOfIn DEF Begin
<1>6. Running' = Running \cup {c}
  BY <1>1, <1>3 DEF Running
<1>7. crossed' \in BOOLEAN /\ (~crossed' => ~crossed /\ Running = {} /\ Invalidating \subseteq by)
  BY Zenon DEF Begin
<1> QED BY <1>1, <1>3, <1>5, <1>6, <1>7 DEF Begin

\* What init makes of a flow: a request, or a wait for a run.
LEMMA AwaitFields ==
    ASSUME TypeOK, NEW f \in Flows, NEW g \in Flow, AwaitInit(f, g)
    PROVE  \E h \in Flow :
              /\ flow' = [flow EXCEPT ![f] = h]
              /\ flow' \in [Flows -> Flow] /\ flow'[f] = h
              /\ \A x \in Flows \ {f} : flow'[x] = flow[x]
              /\ h.retry = g.retry /\ h.disturbed = g.disturbed
              /\ \/ /\ cached # None /\ h.pc = "verify" /\ h.header = cached
                    /\ UNCHANGED <<call, initFuture, crossed>>
                 \/ /\ cached = None /\ initFuture # None /\ h.pc = "init" /\ h.on = initFuture
                    /\ UNCHANGED <<call, initFuture, crossed>>
                 \/ /\ cached = None /\ initFuture = None /\ h.pc = "init"
                    /\ h.on \in Calls /\ Begin(h.on, {f})
<1>1. ASSUME NEW h \in Flow, flow' = [flow EXCEPT ![f] = h]
      PROVE  /\ flow' \in [Flows -> Flow] /\ flow'[f] = h
             /\ \A x \in Flows \ {f} : flow'[x] = flow[x]
  BY <1>1 DEF TypeOK
<1>2. CASE cached # None
  <2> DEFINE h == [g EXCEPT !.pc = "verify", !.header = cached, !.on = None]
  <2>1. h \in Flow /\ h.pc = "verify" /\ h.header = cached /\ h.retry = g.retry /\ h.disturbed = g.disturbed
    BY DEF TypeOK, Flow
  <2>2. flow' = [flow EXCEPT ![f] = h] /\ UNCHANGED <<call, initFuture, crossed>>
    BY <1>2 DEF AwaitInit
  <2> HIDE DEF h
  <2> QED BY <1>1, <1>2, <2>1, <2>2
<1>3. ASSUME NEW o \in Calls
      PROVE  LET h == [g EXCEPT !.pc = "init", !.on = o]
             IN  h \in Flow /\ h.pc = "init" /\ h.on = o /\ h.retry = g.retry /\ h.disturbed = g.disturbed
  BY DEF Flow
<1>4. CASE cached = None /\ initFuture # None
  <2> DEFINE h == [g EXCEPT !.pc = "init", !.on = initFuture]
  <2>1. initFuture \in Calls
    BY <1>4 DEF TypeOK
  <2>2. h \in Flow /\ h.pc = "init" /\ h.on = initFuture /\ h.retry = g.retry /\ h.disturbed = g.disturbed
    BY <1>3, <2>1
  <2>3. flow' = [flow EXCEPT ![f] = h] /\ UNCHANGED <<call, initFuture, crossed>>
    BY <1>4 DEF AwaitInit, SharedInit
  <2> HIDE DEF h
  <2> QED BY <1>1, <1>4, <2>2, <2>3
<1>5. CASE cached = None /\ initFuture = None
  <2>1. PICK o \in Calls : Begin(o, {f}) /\ flow' = [flow EXCEPT ![f] = [g EXCEPT !.pc = "init", !.on = o]]
    BY <1>5 DEF AwaitInit, SharedInit
  <2> DEFINE h == [g EXCEPT !.pc = "init", !.on = o]
  <2>2. h \in Flow /\ h.pc = "init" /\ h.on = o /\ h.retry = g.retry /\ h.disturbed = g.disturbed
    BY <1>3
  <2>3. flow' = [flow EXCEPT ![f] = h]
    BY <2>1
  <2> HIDE DEF h
  <2> QED BY <1>1, <1>5, <2>1, <2>2, <2>3
<1> QED BY <1>2, <1>4, <1>5

\* The waiters of a finished run go on with what it cached, or end.
LEMMA ResumedFields ==
    ASSUME TypeOK, NEW c \in Calls, NEW r, cached' \in Rows \cup {None}
    PROVE  /\ Resumed(c, r) \in [Flows -> Flow]
           /\ \A f \in Flows :
                 LET h == Resumed(c, r)[f]
                 IN  IF flow[f].pc = "init" /\ flow[f].on = c
                     THEN \/ r = None /\ h = Ended
                          \/ /\ r # None /\ h.pc = "verify" /\ h.header = cached'
                             /\ h.retry = flow[f].retry /\ h.disturbed = flow[f].disturbed
                     ELSE h = flow[f]
<1>1. Ended \in Flow
  BY DEF Ended, NoFlow, Flow
<1>2. ASSUME NEW f \in Flows
      PROVE  LET h == [flow[f] EXCEPT !.pc = "verify", !.on = None, !.header = cached']
             IN  /\ h \in Flow /\ h.pc = "verify" /\ h.header = cached'
                 /\ h.retry = flow[f].retry /\ h.disturbed = flow[f].disturbed
  BY DEF TypeOK, Flow
<1>3. ASSUME NEW f \in Flows
      PROVE  Resumed(c, r)[f] = IF flow[f].pc = "init" /\ flow[f].on = c
                                THEN IF r = None THEN Ended
                                     ELSE [flow[f] EXCEPT !.pc = "verify", !.on = None, !.header = cached']
                                ELSE flow[f]
  BY DEF Resumed
<1>4. \A f \in Flows : flow[f] \in Flow
  BY DEF TypeOK
<1>5. \A f \in Flows : Resumed(c, r)[f] \in Flow
  BY <1>1, <1>2, <1>3, <1>4
<1>6. Resumed(c, r) \in [Flows -> Flow]
  BY <1>5 DEF Resumed
<1> QED BY <1>2, <1>3, <1>6

----------------------------------------------------------------------------
(* Every step keeps the invariant *)

IInv == TypeOK /\ Shared /\ Uncrossed /\ StaleOnlyIfDisturbed

\* A run moves on, or ends.
LEMMA CallMoves ==
    ASSUME TypeOK, NEW c \in Calls, NEW n \in Call, call' = [call EXCEPT ![c] = n]
    PROVE  /\ call' \in [Calls -> Call] /\ call'[c] = n
           /\ \A d \in Calls \ {c} : call'[d] = call[d]
           /\ n.pc # "free" => Running' = Running \cup {c}
           /\ n.pc = "free" => Running' = Running \ {c}
<1>1. /\ call' \in [Calls -> Call] /\ call'[c] = n
      /\ \A d \in Calls \ {c} : call'[d] = call[d]
  BY DEF TypeOK
<1> QED BY <1>1 DEF Running

\* A run that goes on while the storage and the flows stay: reads, the post.
LEMMA RunOn ==
    ASSUME IInv, NEW c \in Calls, NEW n \in Call, call' = [call EXCEPT ![c] = n],
           UNCHANGED <<known, storage, memory, flow, faults, history>>,
           call[c].pc # "free", n.pc \in {"readToken", "posted"},
           n.pc = "readToken" => call[c].pc = "readId" /\ n.id = call[c].id /\ n.token = tokenCell
    PROVE  IInv'
<1> USE DEF IInv
<1>1. /\ call' \in [Calls -> Call] /\ call'[c] = n
      /\ \A d \in Calls \ {c} : call'[d] = call[d]
      /\ Running' = Running
  BY CallMoves DEF Running
<1>2. UNCHANGED <<known, idCell, tokenCell, cached, initFuture, flow, faults, dropped, crossed>>
  BY DEF storage, memory, history
<1>3. TypeOK'
  BY <1>1, <1>2 DEF TypeOK
<1>4. Shared' /\ StaleOnlyIfDisturbed' /\ Invalidating' = Invalidating
  BY <1>1, <1>2 DEF Shared, StaleOnlyIfDisturbed, Invalidating
<1>5. ASSUME ~crossed PROVE Apart'
  <2>1. \A d \in Calls : InStep(d)'
    BY <1>1, <1>2, <1>5 DEF Uncrossed, Apart, InStep
  <2> QED BY <1>1, <1>2, <1>4, <1>5, <2>1 DEF Uncrossed, Apart
<1>6. ASSUME ~crossed, NEW f \in Flows PROVE Recovers(f)'
  <2>1. Recovers(f) /\ (flow[f].on \in Running => flow[f].on \in Calls)
    BY <1>6 DEF Uncrossed, Running
  <2> QED BY <1>1, <1>2, <2>1 DEF Recovers
<1> QED BY <1>2, <1>3, <1>4, <1>5, <1>6 DEF Uncrossed

\* _loadOrRegister reads the token, and posts when a cell is empty.
LEMMA ReadAndPost == ASSUME IInv, NEW c \in Calls, ReadToken(c) \/ Post(c) PROVE IInv'
<1> USE DEF IInv
<1>0. call[c] \in Call
  BY DEF TypeOK
<1>1. CASE ReadToken(c)
  <2> DEFINE n == [call[c] EXCEPT !.pc = "readToken", !.token = tokenCell]
  <2>1. call' = [call EXCEPT ![c] = n]
    BY <1>1 DEF ReadToken, TypeOK
  <2>2. n \in Call /\ n.pc = "readToken" /\ n.id = call[c].id /\ n.token = tokenCell
    BY <1>0 DEF Call, TypeOK
  <2> HIDE DEF n
  <2> QED BY <1>1, <2>1, <2>2, RunOn DEF ReadToken
<1>2. CASE Post(c)
  <2> DEFINE n == [NoCall EXCEPT !.pc = "posted"]
  <2>1. n \in Call /\ n.pc = "posted"
    BY DEF NoCall, Call
  <2> QED BY <1>2, <2>1, RunOn DEF Post
<1> QED BY <1>1, <1>2

\* The answer of POST /v1/devices: a row the server knows (Register).
LEMMA RegisterStep == ASSUME IInv, NEW c \in Calls, Register(c) PROVE IInv'
<1> USE DEF IInv
<1>0. PICK r : /\ r \in Rows \ Held
               /\ known' = (known \cap Held) \cup {r}
               /\ call' = [call EXCEPT ![c] = [pc |-> "answered", id |-> r, token |-> r]]
  BY AnyOfIn DEF Register
<1> DEFINE n == [pc |-> "answered", id |-> r, token |-> r]
<1>1. n \in Call /\ n.pc = "answered" /\ n.id = r /\ n.token = r /\ r # None
  BY <1>0, NoneAssumption DEF Call
<1>1a. call' = [call EXCEPT ![c] = n] /\ c \in Running
  BY <1>0 DEF Register, Running
<1> HIDE DEF n
<1>2. /\ call' \in [Calls -> Call] /\ call'[c] = n
      /\ \A d \in Calls \ {c} : call'[d] = call[d]
      /\ Running' = Running /\ c \in Running
  <2>1. /\ call' \in [Calls -> Call] /\ call'[c] = n
        /\ \A d \in Calls \ {c} : call'[d] = call[d]
        /\ Running' = Running \cup {c}
    BY <1>1, <1>1a, CallMoves
  <2> QED BY <1>1a, <2>1
<1>3. UNCHANGED <<idCell, tokenCell, cached, initFuture, flow, faults, dropped, crossed>>
  BY DEF Register, storage, memory, history
<1>4. TypeOK'
  BY <1>0, <1>2, <1>3 DEF TypeOK
<1>5. Shared' /\ StaleOnlyIfDisturbed' /\ Invalidating' = Invalidating
  BY <1>2, <1>3 DEF Shared, StaleOnlyIfDisturbed, Invalidating
<1>6. ASSUME ~crossed PROVE Apart'
  <2>1. \A d \in Calls : InStep(d)'
    BY <1>1, <1>2, <1>3, <1>6 DEF Uncrossed, Apart, InStep
  <2> QED BY <1>2, <1>3, <1>5, <1>6, <2>1 DEF Uncrossed, Apart
<1>7. ASSUME ~crossed, NEW f \in Flows PROVE Recovers(f)'
  <2>1. Recovers(f) /\ (flow[f].on \in Running => flow[f].on = c)
    BY <1>2, <1>7 DEF Uncrossed, Apart
  <2>2. flow[f].header \in known => flow[f].header \in known'
    BY <1>0 DEF Held
  <2> QED BY <1>0, <1>1, <1>2, <1>3, <2>1, <2>2 DEF Recovers
<1> QED BY <1>3, <1>4, <1>5, <1>6, <1>7 DEF Uncrossed

\* The two writes of a registration, the id first.
LEMMA WriteStep == ASSUME IInv, NEW c \in Calls, WriteId(c) \/ WriteToken(c) PROVE IInv'
<1> USE DEF IInv
<1>0. call[c] \in Call
  BY DEF TypeOK
<1>1. PICK n \in Call : /\ call' = [call EXCEPT ![c] = n] /\ n.id = call[c].id /\ n.token = call[c].token
                        /\ \/ /\ call[c].pc = "answered" /\ n.pc = "writeId"
                              /\ idCell' = n.id /\ tokenCell' = tokenCell
                           \/ /\ call[c].pc = "writeId" /\ n.pc = "writeToken"
                              /\ idCell' = idCell /\ tokenCell' = n.token
  <2> DEFINE m(pc) == [call[c] EXCEPT !.pc = pc]
  <2>1. \A pc \in {"writeId", "writeToken"} : /\ m(pc) \in Call /\ m(pc).id = call[c].id
                                              /\ m(pc).token = call[c].token /\ m(pc).pc = pc
    BY <1>0 DEF Call
  <2>2. CASE WriteId(c)
    <3>1. call' = [call EXCEPT ![c] = m("writeId")]
      BY <2>2 DEF WriteId, TypeOK
    <3> HIDE DEF m
    <3> QED BY <2>1, <2>2, <3>1 DEF WriteId
  <2>3. CASE WriteToken(c)
    <3>1. call' = [call EXCEPT ![c] = m("writeToken")]
      BY <2>3 DEF WriteToken, TypeOK
    <3> HIDE DEF m
    <3> QED BY <2>1, <2>3, <3>1 DEF WriteToken
  <2> QED BY <2>2, <2>3
<1>2. /\ call' \in [Calls -> Call] /\ call'[c] = n
      /\ \A d \in Calls \ {c} : call'[d] = call[d]
      /\ Running' = Running /\ c \in Running
  BY <1>1, CallMoves DEF Running
<1>3. UNCHANGED <<known, cached, initFuture, flow, faults, dropped, crossed>>
  BY DEF WriteId, WriteToken, memory, history
<1>4. TypeOK'
  BY <1>1, <1>2, <1>3 DEF TypeOK, Call
<1>5. Shared' /\ StaleOnlyIfDisturbed' /\ Invalidating' = Invalidating
  BY <1>2, <1>3 DEF Shared, StaleOnlyIfDisturbed, Invalidating
<1>6. ASSUME ~crossed PROVE Apart'
  <2>1. \A d \in Calls \ {c} : call[d].pc = "free"
    BY <1>2, <1>6 DEF Uncrossed, Apart, Running
  <2>2. \A d \in Calls : InStep(d)'
    BY <1>1, <1>2, <1>6, <2>1 DEF Uncrossed, Apart, InStep
  <2> QED BY <1>2, <1>3, <1>5, <1>6, <2>2 DEF Uncrossed, Apart
<1>7. ASSUME ~crossed, NEW f \in Flows PROVE Recovers(f)'
  <2>1. Recovers(f) /\ (flow[f].on \in Running => flow[f].on = c)
    BY <1>2, <1>7 DEF Uncrossed, Apart
  <2> QED BY <1>1, <1>2, <1>3, <2>1 DEF Recovers
<1> QED BY <1>3, <1>4, <1>5, <1>6, <1>7 DEF Uncrossed

\* A run that ends with an identity: it is cached, and its waiters carry it (init's then).
LEMMA EndStep == ASSUME IInv, NEW c \in Calls, Loaded(c) \/ Registered(c) PROVE IInv'
<1> USE DEF IInv
<1>0. /\ call[c] \in Call /\ cached' = call[c].token /\ cached' \in Rows \cup {None} /\ c \in Running
      /\ call' = [call EXCEPT ![c] = NoCall] /\ flow' = Resumed(c, call[c].token)
      /\ UNCHANGED <<known, idCell, tokenCell, initFuture, faults, dropped, crossed>>
  BY DEF TypeOK, Loaded, Registered, storage, history, Call, Running
<1>1. NoCall \in Call /\ NoCall.pc = "free"
  BY DEF NoCall, Call
<1>2. /\ call' \in [Calls -> Call] /\ call'[c] = NoCall
      /\ \A d \in Calls \ {c} : call'[d] = call[d]
      /\ Running' = Running \ {c}
  BY <1>0, <1>1, CallMoves
<1>3. /\ flow' \in [Flows -> Flow]
      /\ \A f \in Flows : IF flow[f].pc = "init" /\ flow[f].on = c
                          THEN \/ call[c].token = None /\ flow'[f] = Ended
                               \/ /\ call[c].token # None /\ flow'[f].pc = "verify" /\ flow'[f].header = cached'
                                  /\ flow'[f].retry = flow[f].retry /\ flow'[f].disturbed = flow[f].disturbed
                          ELSE flow'[f] = flow[f]
  BY <1>0, ResumedFields
<1>4. TypeOK'
  BY <1>0, <1>2, <1>3 DEF TypeOK
<1>5. Shared'
  BY <1>0, <1>2 DEF Shared
<1>6. StaleOnlyIfDisturbed' /\ Invalidating' \subseteq Invalidating
  BY <1>0, <1>3 DEF StaleOnlyIfDisturbed, Invalidating, Ended, NoFlow
<1>7. ASSUME ~crossed PROVE Apart' /\ \A f \in Flows : Recovers(f)'
  <2>1. Running' = {} /\ Invalidating' = {}
    BY <1>0, <1>2, <1>6, <1>7 DEF Uncrossed, Apart
  <2>2. call[c].id # None /\ call[c].token # None /\ idCell = call[c].id /\ tokenCell = call[c].token
    BY <1>7 DEF Uncrossed, Apart, InStep, Loaded, Registered
  <2>3. \A d \in Calls : call'[d].pc = "free"
    BY <2>1 DEF Running
  <2>4. Apart'
    BY <1>0, <2>1, <2>2, <2>3 DEF Apart, InStep
  <2>5. ASSUME NEW f \in Flows PROVE Recovers(f)'
    <3>1. Recovers(f) /\ (flow[f].on \in Running => flow[f].on = c)
      BY <1>0, <1>7 DEF Uncrossed, Apart
    <3>2. CASE flow[f].pc = "init" /\ flow[f].on = c
      BY <1>0, <1>3, <2>2, <3>1, <3>2 DEF Recovers, Loaded, Registered
    <3>3. CASE ~(flow[f].pc = "init" /\ flow[f].on = c)
      BY <1>0, <1>3, <3>1, <3>3 DEF Recovers
    <3> QED BY <3>2, <3>3
  <2> QED BY <2>4, <2>5
<1> QED BY <1>0, <1>4, <1>5, <1>6, <1>7 DEF Uncrossed

\* A run that fails: its waiters end and the next init starts over (onError).
LEMMA FailStep == ASSUME IInv, NEW c \in Calls, InitFails(c) PROVE IInv'
<1> USE DEF IInv
<1>0. /\ initFuture' = None /\ c \in Running /\ cached' \in Rows \cup {None} /\ faults' \in Nat
      /\ call' = [call EXCEPT ![c] = NoCall] /\ flow' = Resumed(c, None)
      /\ cached' \in {cached, None}
      /\ UNCHANGED <<known, idCell, tokenCell, dropped, crossed>>
  BY DEF TypeOK, InitFails, Failed, Fault, storage, history
<1>1. NoCall \in Call /\ NoCall.pc = "free"
  BY DEF NoCall, Call
<1>2. /\ call' \in [Calls -> Call] /\ call'[c] = NoCall
      /\ \A d \in Calls \ {c} : call'[d] = call[d]
      /\ Running' = Running \ {c}
  BY <1>0, <1>1, CallMoves
<1>3. /\ flow' \in [Flows -> Flow]
      /\ \A f \in Flows : IF flow[f].pc = "init" /\ flow[f].on = c THEN flow'[f] = Ended ELSE flow'[f] = flow[f]
  BY <1>0, ResumedFields
<1>4. TypeOK'
  BY <1>0, <1>2, <1>3 DEF TypeOK
<1>5. Shared'
  BY <1>0, <1>2 DEF Shared
<1>6. StaleOnlyIfDisturbed' /\ Invalidating' \subseteq Invalidating
  BY <1>0, <1>3 DEF StaleOnlyIfDisturbed, Invalidating, Ended, NoFlow
<1>7. ASSUME ~crossed PROVE Apart' /\ \A f \in Flows : Recovers(f)'
  <2>1. Running' = {} /\ Invalidating' = {} /\ cached' = None
    BY <1>0, <1>2, <1>6, <1>7 DEF Uncrossed, Apart
  <2>2. \A d \in Calls : call'[d].pc = "free"
    BY <2>1 DEF Running
  <2>3. Apart'
    BY <1>0, <2>1, <2>2 DEF Apart, InStep
  <2>4. ASSUME NEW f \in Flows PROVE Recovers(f)'
    <3>1. Recovers(f) /\ (flow[f].on \in Running => flow[f].on = c)
      BY <1>0, <1>7 DEF Uncrossed, Apart
    <3> QED BY <1>0, <1>3, <3>1 DEF Recovers, Ended, NoFlow
  <2> QED BY <2>3, <2>4
<1> QED BY <1>0, <1>4, <1>5, <1>6, <1>7 DEF Uncrossed

\* A run that begins: nothing else is under way, or it is recorded as crossed (init).
LEMMA BeginStep ==
    ASSUME IInv, NEW c \in Calls, NEW by, Begin(c, by), cached = None, initFuture = None,
           UNCHANGED <<known, idCell, tokenCell, cached, dropped>>,
           flow' \in [Flows -> Flow], faults' \in Nat,
           \A f \in Flows : flow'[f].pc \in {"deleteId", "deleteToken"} => flow'[f] = flow[f] /\ f \notin by
    PROVE  /\ TypeOK' /\ Shared' /\ (~crossed' => Apart')
<1> USE DEF IInv
<1>1. /\ call' \in [Calls -> Call] /\ initFuture' = c /\ crossed' \in BOOLEAN
      /\ call'[c].pc = "readId" /\ call'[c].id = idCell
      /\ \A d \in Calls \ {c} : call'[d] = call[d]
      /\ Running' = Running \cup {c}
      /\ ~crossed' => ~crossed /\ Running = {} /\ Invalidating \subseteq by
  BY BeginTypes DEF Begin
<1>2. TypeOK'
  BY <1>1 DEF TypeOK
<1>3. Shared'
  BY <1>1, NoneAssumption DEF Shared, Running
<1>4. ASSUME ~crossed' PROVE Apart'
  <2>1. Invalidating' = {} /\ Running' = {c}
    BY <1>1, <1>4 DEF Invalidating
  <2>2. \A d \in Calls \ {c} : call'[d].pc = "free"
    BY <1>1, <1>4 DEF Running
  <2>3. \A d \in Calls : InStep(d)'
    BY <1>1, <2>2 DEF InStep
  <2> QED BY <2>1, <2>3 DEF Apart
<1> QED BY <1>2, <1>3, <1>4

\* init at the start of the app, and for a flow: with an identity at hand, with a run to
\* share, or with a run of its own.
LEMMA InitStep ==
    ASSUME IInv,
           \/ InitElsewhere
           \/ \E f \in Flows : VerifyCode(f) \/ Retry(f)
    PROVE  IInv'
<1> USE DEF IInv
<1>1. CASE InitElsewhere
  <2>1. PICK c \in Calls : Begin(c, {})
    BY <1>1 DEF InitElsewhere
  <2>2. UNCHANGED <<known, idCell, tokenCell, cached, dropped, flow, faults>> /\ cached = None /\ initFuture = None
    BY <1>1 DEF InitElsewhere, storage, SharedInit
  <2>3. TypeOK' /\ Shared' /\ (~crossed' => Apart')
    BY <2>1, <2>2, BeginStep DEF TypeOK
  <2>4. ~crossed' => ~crossed /\ Running = {}
    BY <2>1, BeginTypes
  <2>5. ASSUME ~crossed', NEW f \in Flows PROVE Recovers(f)'
    BY <2>2, <2>4, <2>5 DEF Uncrossed, Recovers
  <2>6. StaleOnlyIfDisturbed'
    BY <2>2, <2>4 DEF StaleOnlyIfDisturbed
  <2> QED BY <2>3, <2>5, <2>6 DEF Uncrossed
<1>2. ASSUME NEW f \in Flows, NEW g \in Flow, AwaitInit(f, g),
             UNCHANGED <<known, idCell, tokenCell, cached, faults, dropped>>,
             ~g.retry => f \in Invalidating
      PROVE  IInv'
  <2>1. PICK h \in Flow :
              /\ flow' \in [Flows -> Flow] /\ flow'[f] = h
              /\ \A x \in Flows \ {f} : flow'[x] = flow[x]
              /\ h.retry = g.retry /\ h.disturbed = g.disturbed
              /\ \/ /\ cached # None /\ h.pc = "verify" /\ h.header = cached
                    /\ UNCHANGED <<call, initFuture, crossed>>
                 \/ /\ cached = None /\ initFuture # None /\ h.pc = "init" /\ h.on = initFuture
                    /\ UNCHANGED <<call, initFuture, crossed>>
                 \/ /\ cached = None /\ initFuture = None /\ h.pc = "init"
                    /\ h.on \in Calls /\ Begin(h.on, {f})
    BY <1>2, AwaitFields
  <2>2. CASE UNCHANGED <<call, initFuture, crossed>> /\ h.pc \in {"init", "verify"} /\ (cached # None \/ initFuture # None)
    <3>1. TypeOK' /\ Running' = Running /\ Shared'
      BY <1>2, <2>1, <2>2 DEF TypeOK, Running, Shared
    <3>2. StaleOnlyIfDisturbed' /\ Invalidating' \subseteq Invalidating
      BY <2>1, <2>2 DEF StaleOnlyIfDisturbed, Invalidating
    <3>3. ASSUME ~crossed PROVE Apart' /\ \A x \in Flows : Recovers(x)'
      <4>1. Apart'
        BY <1>2, <2>2, <3>1, <3>2, <3>3 DEF Uncrossed, Apart, InStep
      <4>2. h.retry
        BY <1>2, <2>1, <2>2, <3>3 DEF Uncrossed, Apart
      <4>3. ASSUME NEW x \in Flows PROVE Recovers(x)'
        BY <1>2, <2>1, <2>2, <3>1, <3>3, <4>2 DEF Uncrossed, Recovers
      <4> QED BY <4>1, <4>3
    <3> QED BY <2>2, <3>1, <3>2, <3>3 DEF Uncrossed
  <2>3. CASE cached = None /\ initFuture = None /\ h.pc = "init" /\ h.on \in Calls /\ Begin(h.on, {f})
    <3>1. /\ h.on \notin Running
          /\ call'[h.on].pc = "readId" /\ call'[h.on].id = idCell
          /\ Running' = Running \cup {h.on}
          /\ ~crossed' => ~crossed /\ Running = {} /\ Invalidating \subseteq {f}
      BY <2>3, BeginTypes
    <3>2. TypeOK' /\ Shared' /\ (~crossed' => Apart')
      BY <1>2, <2>1, <2>3, BeginStep DEF TypeOK
    <3>3. StaleOnlyIfDisturbed'
      BY <2>1, <2>3, <3>1 DEF StaleOnlyIfDisturbed
    <3>4. ASSUME ~crossed', NEW x \in Flows PROVE Recovers(x)'
      <4>1. CASE x # f
        <5>1. Recovers(x) /\ flow'[x] = flow[x] /\ known' = known /\ Running = {}
          BY <1>2, <2>1, <3>1, <3>4, <4>1 DEF Uncrossed
        <5> QED BY <5>1 DEF Recovers
      <4>2. CASE x = f
        <5>1. ~h.retry => idCell = None
          BY <1>2, <2>1, <3>1, <3>4 DEF Uncrossed, Apart
        <5> QED BY <2>1, <2>3, <3>1, <4>2, <5>1 DEF Recovers
      <4> QED BY <4>1, <4>2
    <3> QED BY <3>2, <3>3, <3>4 DEF Uncrossed
  <2> QED BY <2>1, <2>2, <2>3
<1>3. ASSUME NEW f \in Flows, VerifyCode(f) PROVE IInv'
  <2>1. NoFlow \in Flow /\ NoFlow.retry
    BY DEF NoFlow, Flow
  <2> QED BY <1>2, <1>3, <2>1 DEF VerifyCode, storage
<1>4. ASSUME NEW f \in Flows, Retry(f) PROVE IInv'
  <2> DEFINE g == [flow[f] EXCEPT !.retry = FALSE]
  <2>1. g \in Flow /\ f \in Invalidating
    BY <1>4 DEF TypeOK, Flow, Invalidating, Retry
  <2>2. AwaitInit(f, g) /\ UNCHANGED <<known, idCell, tokenCell, cached, faults, dropped>>
    BY <1>4 DEF Retry, storage
  <2> HIDE DEF g
  <2> QED BY <1>2, <2>1, <2>2
<1> QED BY <1>1, <1>3, <1>4

\* A sign-in that stops: accepted, lost, given up, or a deletion that failed.
LEMMA StopStep ==
    ASSUME IInv, NEW f \in Flows, VerifyAccepted(f) \/ VerifyLost(f) \/ GiveUp(f) \/ DeleteFails(f)
    PROVE  IInv'
<1> USE DEF IInv
<1>0. flow[f] \in Flow /\ Ended \in Flow /\ Ended.pc = "ended"
  BY DEF TypeOK, Ended, NoFlow, Flow
<1>1. UNCHANGED <<known, idCell, tokenCell, cached, initFuture, call, dropped, crossed>> /\ faults' \in Nat
  BY DEF VerifyAccepted, VerifyLost, GiveUp, DeleteFails, Fault, storage, memory, history, TypeOK
<1>2. PICK h \in Flow : /\ flow' = [flow EXCEPT ![f] = h] /\ h.pc \in {"ended", "stale"}
                        /\ h.pc = "stale" => h.disturbed \/ crossed
  <2>1. CASE VerifyAccepted(f) \/ VerifyLost(f)
    BY <1>0, <2>1 DEF VerifyAccepted, VerifyLost
  <2>2. CASE GiveUp(f)
    <3> DEFINE h == [flow[f] EXCEPT !.pc = "stale"]
    <3>1. h \in Flow /\ h.pc = "stale" /\ h.disturbed = flow[f].disturbed
      BY <1>0 DEF Flow
    <3>2. flow' = [flow EXCEPT ![f] = h]
      BY <2>2 DEF GiveUp, TypeOK
    <3>3. flow[f].disturbed \/ crossed
      BY <2>2 DEF GiveUp, Uncrossed, Recovers
    <3> HIDE DEF h
    <3> QED BY <3>1, <3>2, <3>3
  <2>3. CASE DeleteFails(f)
    <3> DEFINE h == [flow[f] EXCEPT !.pc = "stale", !.disturbed = TRUE]
    <3>1. h \in Flow /\ h.pc = "stale" /\ h.disturbed
      BY <1>0 DEF Flow
    <3>2. flow' = [flow EXCEPT ![f] = h]
      BY <2>3 DEF DeleteFails, TypeOK
    <3> HIDE DEF h
    <3> QED BY <3>1, <3>2
  <2> QED BY <2>1, <2>2, <2>3
<1>3. flow' \in [Flows -> Flow] /\ flow'[f] = h /\ \A x \in Flows \ {f} : flow'[x] = flow[x]
  BY <1>2 DEF TypeOK
<1>4. TypeOK' /\ Running' = Running
  BY <1>1, <1>3 DEF TypeOK, Running
<1>5. Shared' /\ StaleOnlyIfDisturbed' /\ Invalidating' \subseteq Invalidating
  BY <1>1, <1>2, <1>3, <1>4 DEF Shared, StaleOnlyIfDisturbed, Invalidating
<1>6. ASSUME ~crossed PROVE Apart'
  BY <1>1, <1>4, <1>5, <1>6 DEF Uncrossed, Apart, InStep
<1>7. ASSUME ~crossed, NEW x \in Flows PROVE Recovers(x)'
  BY <1>1, <1>2, <1>3, <1>4, <1>7 DEF Uncrossed, Recovers
<1> QED BY <1>1, <1>4, <1>5, <1>6, <1>7 DEF Uncrossed

\* The second deletion of invalidate.
LEMMA DeleteStep == ASSUME IInv, NEW f \in Flows, DeleteToken(f) PROVE IInv'
<1> USE DEF IInv
<1> DEFINE h == [flow[f] EXCEPT !.pc = "deleteToken"]
<1>1. /\ h \in Flow /\ h.pc = "deleteToken"
      /\ h.retry = flow[f].retry /\ h.disturbed = flow[f].disturbed
  BY DEF TypeOK, Flow
<1>2. flow' = [flow EXCEPT ![f] = h] /\ tokenCell' = None /\ flow[f].pc = "deleteId"
  BY DEF DeleteToken, Deleted, TypeOK
<1> HIDE DEF h
<1>3. UNCHANGED <<known, idCell, cached, initFuture, call, faults, dropped, crossed>>
  BY DEF DeleteToken, memory, history
<1>4. flow' \in [Flows -> Flow] /\ flow'[f] = h /\ \A x \in Flows \ {f} : flow'[x] = flow[x]
  BY <1>1, <1>2 DEF TypeOK
<1>5. TypeOK' /\ Running' = Running
  BY <1>2, <1>3, <1>4 DEF TypeOK, Running
<1>6. Shared' /\ StaleOnlyIfDisturbed' /\ Invalidating' = Invalidating /\ f \in Invalidating
  BY <1>1, <1>2, <1>3, <1>4, <1>5 DEF Shared, StaleOnlyIfDisturbed, Invalidating
<1>7. ASSUME ~crossed PROVE Apart'
  <2>1. Running = {} /\ cached = None
    BY <1>6, <1>7 DEF Uncrossed, Apart
  <2>2. \A c \in Calls : call[c].pc = "free"
    BY <2>1 DEF Running
  <2>3. \A c \in Calls : InStep(c)'
    BY <1>3, <2>2 DEF InStep
  <2> QED BY <1>3, <1>5, <1>6, <1>7, <2>1, <2>3 DEF Uncrossed, Apart
<1>8. ASSUME ~crossed, NEW x \in Flows PROVE Recovers(x)'
  BY <1>1, <1>2, <1>3, <1>4, <1>5, <1>8 DEF Uncrossed, Recovers
<1> QED BY <1>3, <1>5, <1>6, <1>7, <1>8 DEF Uncrossed

\* A refused credential is dropped from memory, and its id deleted unless that fails
\* (invalidate).  A sign-in on its retry comes here only disturbed: an undisturbed one
\* holds a row the server knows.
LEMMA InvalidateStep ==
    ASSUME IInv, NEW f \in Flows, Invalidate(f) \/ InvalidateFails(f)
    PROVE  IInv'
<1> USE DEF IInv
<1>0. PICK h \in Flow :
           /\ Drop(f, h)
           /\ \/ h.pc = "deleteId" /\ h.disturbed = flow[f].disturbed /\ idCell' = None
              \/ h.pc = "stale" /\ h.disturbed /\ idCell' = idCell
           /\ h.retry = flow[f].retry
           /\ faults' \in Nat
  <2> DEFINE d == [flow[f] EXCEPT !.pc = "deleteId", !.header = None]
             s == [flow[f] EXCEPT !.pc = "stale", !.header = None, !.disturbed = TRUE]
  <2>1. d \in Flow /\ d.pc = "deleteId" /\ d.disturbed = flow[f].disturbed /\ d.retry = flow[f].retry
    BY DEF TypeOK, Flow
  <2>2. s \in Flow /\ s.pc = "stale" /\ s.disturbed /\ s.retry = flow[f].retry
    BY DEF TypeOK, Flow
  <2>3. CASE Invalidate(f)
    <3>1. Drop(f, d) /\ idCell' = None /\ faults' \in Nat
      BY <2>3 DEF Invalidate, Deleted, TypeOK
    <3> HIDE DEF d
    <3> QED BY <2>1, <3>1
  <2>4. CASE InvalidateFails(f)
    <3>1. Drop(f, s) /\ idCell' = idCell /\ faults' \in Nat
      BY <2>4 DEF InvalidateFails, Fault, TypeOK
    <3> HIDE DEF s
    <3> QED BY <2>2, <3>1
  <2> QED BY <2>3, <2>4
<1>1. /\ cached' = None /\ initFuture' = None /\ idCell' \in {idCell, None}
      /\ UNCHANGED <<known, tokenCell, call>>
      /\ flow[f].pc = "verify" /\ flow[f].header \notin known
  BY <1>0 DEF Drop, Accepted
<1>2. dropped' \in BOOLEAN /\ dropped'
  BY <1>0, Zenon DEF Drop
<1>3. crossed' \in BOOLEAN /\ (~crossed' => ~crossed /\ Running = {})
  BY <1>0, Zenon DEF Drop
<1>4. ASSUME NEW g \in Flows
      PROVE  /\ flow'[g] \in Flow /\ flow'[g].retry = flow[g].retry
             /\ flow[g].disturbed => flow'[g].disturbed
             /\ IF g = f THEN flow'[g] = h
                ELSE /\ flow'[g].pc = flow[g].pc
                     /\ InProgress(g) => flow'[g].disturbed
  <2> DEFINE m == [flow[g] EXCEPT !.disturbed = TRUE]
  <2>0. flow[g] \in Flow
    BY DEF TypeOK
  <2>1. m \in Flow /\ m.pc = flow[g].pc /\ m.retry = flow[g].retry /\ m.disturbed
    BY <2>0 DEF Flow
  <2>2. flow'[g] = IF g = f THEN h ELSE IF InProgress(g) THEN m ELSE flow[g]
    BY <1>0 DEF Drop
  <2> HIDE DEF m
  <2> QED BY <1>0, <2>0, <2>1, <2>2
<1>5. flow' \in [Flows -> Flow]
  <2>1. flow' = [g \in Flows |-> flow'[g]]
    BY <1>0 DEF Drop
  <2> QED BY <1>4, <2>1
<1>6. TypeOK' /\ Running' = Running
  BY <1>0, <1>1, <1>2, <1>3, <1>5 DEF TypeOK, Running
<1>7. Shared'
  BY <1>2 DEF Shared
<1>8. StaleOnlyIfDisturbed'
  BY <1>0, <1>3, <1>4 DEF StaleOnlyIfDisturbed
<1>9. ASSUME ~crossed' PROVE Apart' /\ \A g \in Flows : Recovers(g)'
  <2>1. \A c \in Calls : call'[c].pc = "free"
    BY <1>1, <1>3, <1>9 DEF Running
  <2>2. Invalidating' # {} => idCell' = None
    <3>1. CASE h.pc = "deleteId"
      BY <1>0, <3>1
    <3>2. CASE h.pc = "stale"
      <4>1. Invalidating' \subseteq Invalidating
        BY <1>4, <3>2 DEF Invalidating
      <4> QED BY <1>1, <1>3, <1>9, <4>1 DEF Uncrossed, Apart
    <3> QED BY <1>0, <3>1, <3>2
  <2>3. Apart'
    BY <1>1, <1>3, <1>6, <1>9, <2>1, <2>2 DEF Apart, InStep
  <2>4. ASSUME NEW g \in Flows PROVE Recovers(g)'
    <3>1. CASE g = f
      BY <1>0, <1>1, <1>3, <1>4, <1>9, <3>1 DEF Uncrossed, Recovers
    <3>2. CASE g # f
      BY <1>4, <3>2 DEF Recovers, InProgress
    <3> QED BY <3>1, <3>2
  <2> QED BY <2>3, <2>4
<1> QED BY <1>6, <1>7, <1>8, <1>9 DEF Uncrossed

\* The server forgets a row: the sign-ins on their retry are disturbed.
LEMMA ForgetStep == ASSUME IInv, NEW r \in Rows, Forget(r) PROVE IInv'
<1> USE DEF IInv
<1>1. /\ UNCHANGED <<idCell, tokenCell, cached, initFuture, call, dropped, crossed>>
      /\ faults' \in Nat /\ known' \subseteq Rows
  BY DEF Forget, Fault, storage, memory, history, TypeOK
<1>2. ASSUME NEW g \in Flows
      PROVE  /\ flow'[g] \in Flow /\ flow'[g].retry = flow[g].retry /\ flow'[g].pc = flow[g].pc
             /\ flow[g].disturbed => flow'[g].disturbed
             /\ InProgress(g) /\ ~flow[g].retry => flow'[g].disturbed
  <2> DEFINE m == [flow[g] EXCEPT !.disturbed = TRUE]
  <2>0. flow[g] \in Flow
    BY DEF TypeOK
  <2>1. m \in Flow /\ m.pc = flow[g].pc /\ m.retry = flow[g].retry /\ m.disturbed
    BY <2>0 DEF Flow
  <2>2. flow'[g] = IF InProgress(g) /\ (g \in Invalidating \/ ~flow[g].retry) THEN m ELSE flow[g]
    BY DEF Forget
  <2> HIDE DEF m
  <2> QED BY <2>0, <2>1, <2>2
<1>3. flow' \in [Flows -> Flow]
  <2>1. flow' = [g \in Flows |-> flow'[g]]
    BY DEF Forget
  <2> QED BY <1>2, <2>1
<1>4. TypeOK' /\ Running' = Running
  BY <1>1, <1>3 DEF TypeOK, Running
<1>5. Shared' /\ StaleOnlyIfDisturbed' /\ Invalidating' = Invalidating
  BY <1>1, <1>2, <1>4 DEF Shared, StaleOnlyIfDisturbed, Invalidating
<1>6. ASSUME ~crossed PROVE Apart'
  BY <1>1, <1>4, <1>5, <1>6 DEF Uncrossed, Apart, InStep
<1>7. ASSUME NEW g \in Flows PROVE Recovers(g)' \/ crossed
  BY <1>2, <1>7 DEF Recovers, InProgress
<1> QED BY <1>1, <1>4, <1>5, <1>6, <1>7 DEF Uncrossed

\* The process ends: only the storage survives.
LEMMA CrashStep == ASSUME IInv, Crash PROVE IInv'
<1> USE DEF IInv
<1>1. UNCHANGED <<known, idCell, tokenCell, crossed>> /\ cached' = None /\ initFuture' = None /\ faults' \in Nat
  BY DEF Crash, Fault, storage, TypeOK
<1>2. call' \in [Calls -> Call] /\ \A c \in Calls : call'[c].pc = "free"
  BY DEF Crash, NoCall, Call
<1>3. flow' \in [Flows -> Flow] /\ \A f \in Flows : flow'[f].pc = "idle" /\ flow'[f].retry
  BY DEF Crash, NoFlow, Flow
<1>4. dropped' \in BOOLEAN
  BY Zenon DEF Crash
<1>5. Running' = {} /\ Invalidating' = {}
  BY <1>2, <1>3 DEF Running, Invalidating
<1>6. TypeOK'
  BY <1>1, <1>2, <1>3, <1>4 DEF TypeOK
<1>7. Shared' /\ StaleOnlyIfDisturbed'
  BY <1>3, <1>5 DEF Shared, StaleOnlyIfDisturbed
<1>8. Apart' /\ \A f \in Flows : Recovers(f)'
  BY <1>1, <1>2, <1>3, <1>5 DEF Apart, InStep, Recovers
<1> QED BY <1>6, <1>7, <1>8 DEF Uncrossed

----------------------------------------------------------------------------
(* The theorems *)

\* The invariant holds of an installation at its start.
LEMMA InitInv == Init => IInv
<1> SUFFICES ASSUME Init PROVE IInv
  OBVIOUS
<1>1. TypeOK
  BY InitTypes
<1>2. \A c \in Calls : call[c].pc = "free"
  BY DEF Init, NoCall
<1>3. \A f \in Flows : flow[f].pc = "idle" /\ flow[f].retry
  BY DEF Init, NoFlow
<1>4. Running = {} /\ Invalidating = {}
  BY <1>2, <1>3 DEF Running, Invalidating
<1>5. Shared /\ StaleOnlyIfDisturbed
  BY <1>3, <1>4 DEF Shared, StaleOnlyIfDisturbed
<1>6. Apart /\ \A f \in Flows : Recovers(f)
  BY <1>2, <1>3, <1>4 DEF Init, Apart, InStep, Recovers
<1> QED BY <1>1, <1>5, <1>6 DEF IInv, Uncrossed

\* Every step of the installation and of the server keeps it.
LEMMA NextInv == IInv /\ [Next]_vars => IInv'
<1> SUFFICES ASSUME IInv, [Next]_vars PROVE IInv'
  OBVIOUS
<1>1. CASE InitElsewhere
  BY <1>1, InitStep
<1>2. CASE Crash
  BY <1>2, CrashStep
<1>3. ASSUME NEW c \in Calls, CallStep(c) \/ InitFails(c) PROVE IInv'
  BY <1>3, ReadAndPost, RegisterStep, WriteStep, EndStep, FailStep DEF CallStep
<1>4. ASSUME NEW f \in Flows, FlowStep(f) \/ VerifyCode(f) \/ VerifyLost(f) \/ InvalidateFails(f)
                              \/ DeleteFails(f)
      PROVE  IInv'
  BY <1>4, InitStep, StopStep, DeleteStep, InvalidateStep DEF FlowStep
<1>5. ASSUME NEW r \in Rows, Forget(r) PROVE IInv'
  BY <1>5, ForgetStep
<1>6. CASE UNCHANGED vars
  <2>1. UNCHANGED <<known, idCell, tokenCell, cached, initFuture, call, flow, faults, dropped, crossed>>
    BY <1>6 DEF vars, storage, memory, history
  <2>2. TypeOK' /\ Running' = Running /\ Invalidating' = Invalidating
    BY <2>1 DEF IInv, TypeOK, Running, Invalidating
  <2>3. Shared' /\ StaleOnlyIfDisturbed'
    BY <2>1, <2>2 DEF IInv, Shared, StaleOnlyIfDisturbed
  <2>4. Uncrossed'
    BY <2>1, <2>2 DEF IInv, Uncrossed, Apart, InStep, Recovers
  <2> QED BY <2>2, <2>3, <2>4 DEF IInv
<1> QED BY <1>1, <1>2, <1>3, <1>4, <1>5, <1>6 DEF Next

\* The inductive invariant holds in every reachable state of the app and the server.
THEOREM Safety == Spec => []IInv
BY InitInv, NextInv, PTL DEF Spec

\* The cached identity, the shared initialization, the storage cells and every run of
\* init and of a sign-in stay within their types.
THEOREM TypeCorrect == Spec => []TypeOK
<1>1. IInv => TypeOK
  BY DEF IInv
<1> QED BY <1>1, Safety, PTL

\* Concurrent first uses share one registration: two runs of _loadOrRegister are under
\* way only after an invalidate (_initFuture ??=).
THEOREM SharedRegistration == Spec => []OneRegistration
<1>1. ASSUME IInv, ~dropped PROVE ~(Cardinality(Running) > 1)
  <2>1. Running \subseteq {initFuture}
    BY <1>1 DEF IInv, Shared
  <2>2. CASE Running = {}
    <3>1. Cardinality(Running) = 0
      BY <2>2, FS_EmptySet
    <3> QED BY <3>1
  <2>3. CASE Running = {initFuture}
    <3>1. Cardinality(Running) = 1
      BY <2>3, FS_Singleton
    <3> QED BY <3>1
  <2> QED BY <2>1, <2>2, <2>3
<1>2. IInv => OneRegistration
  BY <1>1 DEF OneRegistration
<1> QED BY <1>2, Safety, PTL

\* The credential in memory is the one the next start loads, unless registrations crossed
\* one another or an invalidate: across any number of crashes and failed calls.
THEOREM RestartKeeps == Spec => []RestartKeepsDevice
<1>1. IInv => RestartKeepsDevice
  BY DEF IInv, Uncrossed, Apart, RestartKeepsDevice
<1> QED BY <1>1, Safety, PTL

\* A sign-in whose credential was refused recovers by itself (_verifyCode's one retry),
\* unless something disturbed it.
THEOREM RetryRecovers == Spec => []StaleOnlyIfDisturbed
<1>1. IInv => StaleOnlyIfDisturbed
  BY DEF IInv
<1> QED BY <1>1, Safety, PTL

----------------------------------------------------------------------------
(* Nobody waits for a run that has ended *)

\* Whoever awaits init awaits a run that is under way, and the future the next caller
\* would share is one: the answer of every run finds its waiters, and a failed or
\* finished run leaves no future behind that nobody completes (init, invalidate).  With
\* the fairness of the event loop this is why every sign-in ends.
NoDeadFuture == /\ \A f \in Flows : flow[f].pc = "init" => flow[f].on \in Running
                /\ cached = None => initFuture \in Running \cup {None}

\* A run that was answered has a credential to cache.
HasToken(c) == call[c].pc \in {"answered", "writeId", "writeToken"} => call[c].token # None

Awaited == NoDeadFuture /\ \A c \in Calls : HasToken(c)

\* A step that ends no run, begins no wait and drops nothing.
LEMMA AwaitedOn ==
    ASSUME Awaited, Running' = Running, UNCHANGED <<cached, initFuture>>,
           \A f \in Flows : flow'[f].pc = "init" => flow[f].pc = "init" /\ flow'[f].on = flow[f].on,
           \A c \in Calls : HasToken(c)'
    PROVE  Awaited'
BY DEF Awaited, NoDeadFuture

\* A run between its first read and its last write (_loadOrRegister).
LEMMA AwaitedRuns ==
    ASSUME TypeOK, Awaited, NEW c \in Calls,
           ReadToken(c) \/ Post(c) \/ Register(c) \/ WriteId(c) \/ WriteToken(c)
    PROVE  Awaited'
<1>0. call[c] \in Call /\ UNCHANGED <<cached, initFuture, flow>> /\ call[c].pc # "free"
  BY DEF TypeOK, ReadToken, Post, Register, WriteId, WriteToken, memory
<1>1. ASSUME NEW n \in Call, call' = [call EXCEPT ![c] = n], n.pc # "free",
             n.pc \in {"answered", "writeId", "writeToken"} => n.token # None
      PROVE  Awaited'
  <2>1. /\ call'[c] = n /\ \A d \in Calls \ {c} : call'[d] = call[d]
        /\ Running' = Running \cup {c}
    BY <1>1, CallMoves
  <2>2. Running' = Running /\ \A d \in Calls : HasToken(d)'
    BY <1>0, <1>1, <2>1 DEF Running, HasToken, Awaited
  <2> QED BY <1>0, <2>2, AwaitedOn
<1>2. CASE ReadToken(c)
  <2> DEFINE n == [call[c] EXCEPT !.pc = "readToken", !.token = tokenCell]
  <2>1. n \in Call /\ n.pc = "readToken" /\ call' = [call EXCEPT ![c] = n]
    BY <1>0, <1>2 DEF ReadToken, Call, TypeOK
  <2> HIDE DEF n
  <2> QED BY <1>1, <2>1
<1>3. CASE Post(c)
  <2> DEFINE n == [NoCall EXCEPT !.pc = "posted"]
  <2>1. n \in Call /\ n.pc = "posted" /\ call' = [call EXCEPT ![c] = n]
    BY <1>3 DEF Post, NoCall, Call
  <2> HIDE DEF n
  <2> QED BY <1>1, <2>1
<1>4. CASE Register(c)
  <2>1. PICK r \in Rows : call' = [call EXCEPT ![c] = [pc |-> "answered", id |-> r, token |-> r]]
    BY <1>4, AnyOfIn DEF Register
  <2> DEFINE n == [pc |-> "answered", id |-> r, token |-> r]
  <2>2. n \in Call /\ n.pc = "answered" /\ n.token # None /\ call' = [call EXCEPT ![c] = n]
    BY <2>1, NoneAssumption DEF Call
  <2> HIDE DEF n
  <2> QED BY <1>1, <2>2
<1>5. CASE WriteId(c) \/ WriteToken(c)
  <2> DEFINE m(pc) == [call[c] EXCEPT !.pc = pc]
  <2>1. \A pc \in {"writeId", "writeToken"} : m(pc) \in Call /\ m(pc).token = call[c].token /\ m(pc).pc = pc
    BY <1>0 DEF Call
  <2>2. call[c].token # None
    BY <1>5 DEF WriteId, WriteToken, Awaited, HasToken
  <2>3. PICK pc \in {"writeId", "writeToken"} : call' = [call EXCEPT ![c] = m(pc)]
    BY <1>5 DEF WriteId, WriteToken, TypeOK
  <2> HIDE DEF m
  <2> QED BY <1>1, <2>1, <2>2, <2>3
<1> QED BY <1>2, <1>3, <1>4, <1>5

\* A run ends: its waiters go on or end, and the future is gone or an identity is cached
\* (the then and the onError of init).
LEMMA AwaitedEnds ==
    ASSUME TypeOK, Awaited, NEW c \in Calls, Loaded(c) \/ Registered(c) \/ InitFails(c)
    PROVE  Awaited'
<1>0. NoCall \in Call /\ NoCall.pc = "free" /\ call' = [call EXCEPT ![c] = NoCall]
  BY DEF NoCall, Call, Loaded, Registered, InitFails
<1>1. /\ call'[c] = NoCall /\ \A d \in Calls \ {c} : call'[d] = call[d]
      /\ Running' = Running \ {c}
  BY <1>0, CallMoves
<1>2. \A d \in Calls : HasToken(d)'
  BY <1>0, <1>1 DEF HasToken, Awaited
<1>3. PICK r : flow' = Resumed(c, r)
  BY DEF Loaded, Registered, InitFails, Failed
<1>4. \/ cached' \in Rows
      \/ cached' \in Rows \cup {None} /\ initFuture' = None
  BY DEF Loaded, Registered, InitFails, Awaited, HasToken, TypeOK, Call
<1>5. ASSUME NEW f \in Flows, flow'[f].pc = "init" PROVE flow'[f].on \in Running'
  <2>1. Ended.pc = "ended" /\ cached' \in Rows \cup {None}
    BY <1>4 DEF Ended, NoFlow
  <2>2. IF flow[f].pc = "init" /\ flow[f].on = c
        THEN flow'[f] = Ended \/ flow'[f].pc = "verify"
        ELSE flow'[f] = flow[f]
    BY <1>3, <2>1, ResumedFields
  <2> QED BY <1>1, <1>5, <2>1, <2>2 DEF Awaited, NoDeadFuture
<1> QED BY <1>2, <1>4, <1>5, NoneAssumption DEF Awaited, NoDeadFuture

\* A run begins (init).
LEMMA AwaitedBegins ==
    ASSUME TypeOK, Awaited, NEW c \in Calls, NEW by, Begin(c, by)
    PROVE  /\ \A d \in Calls : HasToken(d)'
           /\ initFuture' \in Running' /\ initFuture' = c /\ Running \subseteq Running'
<1>1. /\ call'[c].pc = "readId" /\ \A d \in Calls \ {c} : call'[d] = call[d]
      /\ Running' = Running \cup {c}
  BY BeginTypes
<1> QED BY <1>1 DEF Awaited, HasToken, Begin

\* init, from the start of the app, from a sign-in or from its retry.
LEMMA AwaitedInit ==
    ASSUME TypeOK, Awaited, InitElsewhere \/ \E f \in Flows : VerifyCode(f) \/ Retry(f)
    PROVE  Awaited'
<1>1. CASE InitElsewhere
  <2>1. PICK c \in Calls : Begin(c, {})
    BY <1>1 DEF InitElsewhere
  <2> QED BY <1>1, <2>1, AwaitedBegins DEF InitElsewhere, Awaited, NoDeadFuture
<1>2. ASSUME NEW f \in Flows, NEW g \in Flow, AwaitInit(f, g), UNCHANGED cached
      PROVE  Awaited'
  <2>1. PICK h \in Flow :
              /\ flow'[f] = h /\ \A x \in Flows \ {f} : flow'[x] = flow[x]
              /\ \/ /\ cached # None /\ h.pc = "verify" /\ UNCHANGED <<call, initFuture, crossed>>
                 \/ /\ cached = None /\ initFuture # None /\ h.pc = "init" /\ h.on = initFuture
                    /\ UNCHANGED <<call, initFuture, crossed>>
                 \/ /\ cached = None /\ initFuture = None /\ h.pc = "init"
                    /\ h.on \in Calls /\ Begin(h.on, {f})
    BY <1>2, AwaitFields
  <2>2. CASE Begin(h.on, {f}) /\ h.on \in Calls
    <3>1. (\A d \in Calls : HasToken(d)') /\ h.on \in Running' /\ initFuture' = h.on /\ Running \subseteq Running'
      BY <2>2, AwaitedBegins
    <3> QED BY <2>1, <3>1 DEF Awaited, NoDeadFuture
  <2>3. CASE UNCHANGED <<call, initFuture, crossed>> /\ (h.pc = "verify" \/ (cached = None /\ initFuture # None /\ h.on = initFuture))
    <3>1. Running' = Running /\ \A d \in Calls : HasToken(d)'
      BY <2>3 DEF Running, HasToken, Awaited
    <3> QED BY <1>2, <2>1, <2>3, <3>1 DEF Awaited, NoDeadFuture
  <2> QED BY <2>1, <2>2, <2>3
<1>3. ASSUME NEW f \in Flows, VerifyCode(f) \/ Retry(f) PROVE Awaited'
  <2>1. NoFlow \in Flow /\ [flow[f] EXCEPT !.retry = FALSE] \in Flow
    BY DEF NoFlow, Flow, TypeOK
  <2>2. PICK g \in Flow : AwaitInit(f, g) /\ UNCHANGED cached
    BY <1>3, <2>1 DEF VerifyCode, Retry
  <2> QED BY <1>2, <2>2
<1> QED BY <1>1, <1>3

\* The other steps of a sign-in and of the server begin no wait (invalidate drops the
\* identity and the future together).
LEMMA AwaitedFlows ==
    ASSUME TypeOK, Awaited,
           \/ \E f \in Flows : \/ VerifyAccepted(f) \/ VerifyLost(f) \/ Invalidate(f) \/ InvalidateFails(f)
                              \/ DeleteToken(f) \/ GiveUp(f) \/ DeleteFails(f)
           \/ \E r \in Rows : Forget(r)
    PROVE  Awaited'
<1>0. UNCHANGED call /\ Running' = Running /\ \A c \in Calls : HasToken(c)'
  BY DEF Running, HasToken, Awaited, VerifyAccepted, VerifyLost, Invalidate, InvalidateFails, Drop, DeleteToken, GiveUp, DeleteFails, Forget
<1>1. UNCHANGED <<cached, initFuture>> \/ (initFuture' = None)
  BY DEF VerifyAccepted, VerifyLost, Invalidate, InvalidateFails, Drop, DeleteToken, GiveUp, DeleteFails, Forget, memory
<1>2. ASSUME NEW x \in Flows, flow'[x].pc = "init" PROVE flow[x].pc = "init" /\ flow'[x].on = flow[x].on
  <2>0. flow[x] \in Flow /\ Ended.pc = "ended"
    BY DEF TypeOK, Ended, NoFlow
  <2> DEFINE d == [flow[x] EXCEPT !.disturbed = TRUE]
             i == [flow[x] EXCEPT !.pc = "deleteId", !.header = None]
             p(pc) == [flow[x] EXCEPT !.pc = pc]
             s == [flow[x] EXCEPT !.pc = "stale", !.disturbed = TRUE]
             n == [flow[x] EXCEPT !.pc = "stale", !.header = None, !.disturbed = TRUE]
  <2>1. /\ d.pc = flow[x].pc /\ d.on = flow[x].on /\ i.pc = "deleteId" /\ s.pc = "stale" /\ n.pc = "stale"
        /\ \A pc \in {"deleteToken", "stale"} : p(pc).pc = pc
    BY <2>0 DEF Flow
  <2>2. flow'[x] \in {flow[x], Ended, d, i, s, n} \cup {p(pc) : pc \in {"deleteToken", "stale"}}
    BY DEF TypeOK, VerifyAccepted, VerifyLost, Invalidate, InvalidateFails, Drop, DeleteToken, GiveUp, DeleteFails, Forget
  <2> HIDE DEF d, i, p, s, n
  <2> QED BY <1>2, <2>0, <2>1, <2>2
<1> QED BY <1>0, <1>1, <1>2 DEF Awaited, NoDeadFuture

\* Nobody waits for a run that has ended, however runs, refusals, failures and ends of the
\* process fall on one another (init's shared future, its onError, invalidate).
THEOREM EveryWaitHasARun == Spec => []NoDeadFuture
<1>1. Init => Awaited
  BY DEF Init, Awaited, NoDeadFuture, HasToken, NoFlow, NoCall
<1>2. TypeOK /\ Awaited /\ [Next]_vars => Awaited'
  <2> SUFFICES ASSUME TypeOK, Awaited, [Next]_vars PROVE Awaited'
    OBVIOUS
  <2>1. CASE Crash
    BY <2>1 DEF Crash, Awaited, NoDeadFuture, HasToken, NoFlow, NoCall
  <2>2. CASE UNCHANGED vars
    <3>1. UNCHANGED <<cached, initFuture, call, flow>> /\ Running' = Running
      BY <2>2 DEF vars, memory, Running
    <3>2. \A c \in Calls : HasToken(c)'
      BY <3>1 DEF HasToken, Awaited
    <3> QED BY <3>1, <3>2, AwaitedOn
  <2> QED BY <2>1, <2>2, AwaitedRuns, AwaitedEnds, AwaitedInit, AwaitedFlows DEF Next, CallStep, FlowStep
<1>3. Awaited => NoDeadFuture
  BY DEF Awaited
<1> QED BY <1>1, <1>2, <1>3, TypeCorrect, PTL DEF Spec

=============================================================================
