--------------------------- MODULE SessionProofs ---------------------------
(***************************************************************************)
(* Theorems about the encrypted sessions over the relay, for any number of *)
(* connections, names and keys, any capacity and any number of frames,     *)
(* with names shared or not.                                               *)
(*                                                                         *)
(* What may be said of a frame depends on the state of the dashboard that  *)
(* its session is with (Sound), and no step of anyone makes a sound frame  *)
(* unsound.  So soundness is carried through the relay like a type: the    *)
(* lemmas of RelayServerProofs apply with the sound envelopes as E.        *)
(* The last parts follow one direction of a session through the places its *)
(* frames pass, and show that its nonces stay in step.                     *)
(***************************************************************************)
EXTENDS RelaySession, RelayServerProofs

-----------------------------------------------------------------------------
(* The invariant.                                                          *)

\* Frames that only a dashboard makes, for the controller.
FromDash(d) == d.t \in {"m1", "m3"} \/ (d.t = "data" /\ d.to = Controller)

\* A frame of the handshake or session the dashboard is at.
Current(d) == d.n = dash[d.c].n /\ dash[d.c].st # "none"

\* What a frame says of the dashboard that its session is with: it has begun
\* that handshake, and a frame that needs message 2 was made by a dashboard that
\* had read it.
Sound(d) ==
  /\ 1 <= d.n /\ d.n <= dash[d.c].n
  /\ d.t = "m3" => d.key = DashKey[d.c]
  /\ d.t \in {"m3", "data"} /\ Current(d) => dash[d.c].st = "done" /\ dash[d.c].k = d.k
  /\ d.t = "data" /\ FromDash(d) /\ Current(d) => d.i < dash[d.c].tx

\* What connection a may have on the wire: frames of its own, to the controller
\* or to the name of the dashboard they are for, which for a transport frame is
\* the peer it was encrypted for.
Outgoing(a) == {m \in [to : Name, data : Frame] :
                  /\ Sound(m.data)
                  /\ FromDash(m.data) => m.data.c = a /\ m.to = Controller
                  /\ ~FromDash(m.data) => m.data.k = a /\ m.to = DashName[m.data.c]
                  /\ m.data.t = "data" => m.to = m.data.to}

\* What the relay may carry: its notices, and frames under their sender's name.
Genuine   == {e \in [t : {"deliver"}, from : Name, data : Frame] :
                Sound(e.data) /\ (FromDash(e.data) => e.from = DashName[e.data.c])}
Envelopes == Notices \cup Genuine

\* What a connection joins as.
Identity(a) == [role |-> IF a \in CtlConn THEN "controller" ELSE "dashboard", room |-> TheRoom,
                id |-> IF a \in CtlConn THEN Controller ELSE DashName[a]]

\* The parts of the invariant: everything under way is sound, connections join
\* as what they are, a dashboard is up once it is done and has begun what it is
\* at, and the controller's peers are what dashboards' frames made them.
WireSound  == \A a \in Conn : wire[a] \in Seq(Outgoing(a))
Identified == \A a \in Conn : HasJoined(a) => ident[a] = Identity(a)
DoneIsUp   == \A c \in DashConn : /\ dash[c].st = "done" => dash[c].up /\ dash[c].k \in CtlConn
                                  /\ dash[c].st # "none" => 1 <= dash[c].n
PeersNamed == \A p \in PeerId : peers[p].st \in {"answered", "ready"} =>
                DashName[peers[p].c] = p /\ 1 <= peers[p].n /\ peers[p].n <= dash[peers[p].c].n

SessionInv ==
  /\ TypeOK /\ RelayTyped(Envelopes) /\ WireSound
  /\ Identified /\ DoneIsUp /\ PeersNamed /\ ReadyIsAuthentic

-----------------------------------------------------------------------------
\* The handshake frames of initiator n of c before message 3: message 1, and a
\* message 2 that answers it.
Opening(c, n) == {d \in Frame : d.t \in {"m1", "m2"} /\ d.c = c /\ d.n = n}

\* Where a frame of X is under way.
Has(s, M)     == \E i \in DOMAIN s : s[i] \in M
Once(s, M)    == \A i, j \in DOMAIN s : s[i] \in M /\ s[j] \in M => i = j
OnWire(a, X)  == Has(wire[a], Sends(X))
InHand(a, X)  == pending[a] # <<>> /\ pending[a][1].env \in Carries(X)
InQueue(a, X) == Has(queue[a], Carries(X))

\* No frame of X is under way; at most one is.
Gone(X)   == \A a \in Conn : ~OnWire(a, X) /\ ~InHand(a, X) /\ ~InQueue(a, X)
Single(X) ==
  /\ \A a \in Conn : Once(wire[a], Sends(X)) /\ Once(queue[a], Carries(X))
  /\ \A a, b \in Conn :
       /\ OnWire(a, X) /\ OnWire(b, X) => a = b
       /\ InHand(a, X) /\ InHand(b, X) => a = b
       /\ InQueue(a, X) /\ InQueue(b, X) => a = b
       /\ ~(OnWire(a, X) /\ InHand(b, X)) /\ ~(OnWire(a, X) /\ InQueue(b, X))
       /\ ~(InHand(a, X) /\ InQueue(b, X))

\* A handshake is begun once and answered at most once: of its first two
\* messages at most one is under way, and none once the dashboard has read the
\* answer.
OneOpening == \A c \in DashConn :
  /\ \A n \in Nat : Single(Opening(c, n))
  /\ dash[c].st = "done" => Gone(Opening(c, dash[c].n))

-----------------------------------------------------------------------------
(* Basic facts.                                                            *)

LEMMA RoomGiven == TheRoom \in Room
BY RelayAssumption DEF TheRoom

LEMMA ConnParts ==
  /\ CtlConn \subseteq Conn /\ DashConn \subseteq Conn
  /\ \A c \in Conn : c \in CtlConn \/ c \in DashConn
  /\ \A c \in CtlConn : c \notin DashConn
  /\ NoConn \notin CtlConn /\ NoConn \notin DashConn
  /\ \A c \in DashConn : DashName[c] \in PeerId /\ DashName[c] \in Name /\ DashName[c] # Controller
BY SessionAssumption, RelayAssumption DEF Name

\* The frames of the two sides are frames.
LEMMA FrameTypes ==
  ASSUME NEW c \in DashConn, NEW n \in Nat, NEW k \in CtlConn
  PROVE  /\ Msg1(c, n) \in Frame /\ Msg2(c, n, k) \in Frame
         /\ \A d \in DashConn : Msg3(c, n, k, DashKey[d]) \in Frame
         /\ \A to \in Name, i \in Nat, body \in {"hello", "refresh", "out", "input"} :
              Cipher(c, n, k, to, i, body) \in Frame
BY DEF Msg1, Msg2, Msg3, Cipher, Frame

\* A frame's fields.
LEMMA FrameFields ==
  ASSUME NEW d \in Frame
  PROVE  /\ d.t \in {"m1", "m2", "m3", "data"} /\ d.c \in DashConn /\ d.n \in Nat
         /\ d.t # "m1" => d.k \in CtlConn
         /\ d.t = "m3" => d.key \in {DashKey[c] : c \in DashConn}
         /\ d.t = "data" => d.i \in Nat /\ d.to \in Name
BY DEF Frame

\* A longer list of envelopes is as good a type.
LEMMA TypeWidens ==
  ASSUME NEW E, E \subseteq Envelopes', RelayTyped(E)'
  PROVE  RelayTyped(Envelopes)'
<1> PICK F : F = Envelopes'
  OBVIOUS
<1>1. E \subseteq F
  OBVIOUS
<1>2. /\ pending' \in [Conn -> Seq(Packages(E))]
      /\ queue' \in [Conn -> Seq(E)] /\ socket' \in [Conn -> Seq(E)]
  BY DEF RelayTyped, HeldOK, QueuesOK
<1>3. Packages(E) \subseteq Packages(F)
  BY <1>1 DEF Packages
<1>4. pending' \in [Conn -> Seq(Packages(F))]
  BY <1>2, <1>3, SeqMonotonic
<1>5. queue' \in [Conn -> Seq(F)] /\ socket' \in [Conn -> Seq(F)]
  BY <1>1, <1>2, SeqMonotonic
<1>6. Notices \subseteq F
  BY DEF Envelopes
<1>7. HeldOK(Envelopes)' /\ QueuesOK(Envelopes)' /\ Notices \subseteq Envelopes'
  <2>1. pending' \in [Conn -> Seq(Packages(Envelopes'))]
    BY <1>4
  <2>2. queue' \in [Conn -> Seq(Envelopes')] /\ socket' \in [Conn -> Seq(Envelopes')]
    BY <1>5
  <2>3. /\ writer' \in [Conn -> {"running", "stopped"}] /\ lost' \in [Conn -> BOOLEAN]
        /\ \A c \in Conn : Len(queue'[c]) <= Cap /\ (writer'[c] = "stopped" => queue'[c] = <<>>)
    BY DEF RelayTyped, QueuesOK
  <2> QED BY <1>6, <2>1, <2>2, <2>3 DEF HeldOK, QueuesOK, Packages
<1> QED BY <1>7 DEF RelayTyped

\* A client takes an envelope of the kind the relay carries, and leaves the
\* relay well typed.
LEMMA TakeType ==
  ASSUME NEW E, RelayTyped(E), NEW c \in Conn, NEW env, Take(c, env)
  PROVE  env \in E /\ RelayTyped(E)'
<1>1. /\ queue[c] \in Seq(E) /\ queue[c] # <<>> /\ Len(queue[c]) <= Cap /\ env = Head(queue[c])
      /\ queue' = [queue EXCEPT ![c] = Tail(@)]
      /\ UNCHANGED <<controller, dashboards, phase, ident, pending, writer, socket, lost>>
  BY DEF Take, RelayTyped, QueuesOK, registry, handlers
<1>2. /\ Head(queue[c]) \in E /\ Tail(queue[c]) \in Seq(E)
      /\ Len(Tail(queue[c])) = Len(queue[c]) - 1 /\ Len(queue[c]) \in Nat
  BY <1>1, HeadTailProperties, LenProperties
<1>3. RegistryTyped' /\ HeldOK(E)'
  BY <1>1 DEF RelayTyped, RegistryTyped, RegistryOK, HandlersOK, HeldOK
<1>4. QueuesOK(E)'
  <2>1. queue' \in [Conn -> Seq(E)]
    BY <1>1, <1>2 DEF RelayTyped, QueuesOK
  <2>2. ASSUME NEW d \in Conn
        PROVE  Len(queue'[d]) <= Cap /\ (writer'[d] = "stopped" => queue'[d] = <<>>)
    <3>1. CASE d = c
      <4>1. queue'[d] = Tail(queue[c]) /\ writer'[d] = "running"
        BY <1>1, <3>1 DEF RelayTyped, QueuesOK
      <4>2. Len(Tail(queue[c])) <= Cap
        BY <1>1, <1>2, RelayAssumption
      <4> QED BY <4>1, <4>2
    <3>2. CASE d # c
      BY <1>1, <3>2 DEF RelayTyped, QueuesOK
    <3> QED BY <3>1, <3>2
  <2> QED BY <1>1, <2>1, <2>2 DEF RelayTyped, QueuesOK
<1> QED BY <1>1, <1>2, <1>3, <1>4 DEF RelayTyped

\* A frame that reaches a client is sound and comes under its sender's name.
LEMMA TakeGenuine ==
  ASSUME SessionInv, NEW c \in Conn, NEW f, NEW d, Take(c, Deliver(f, d))
  PROVE  d \in Frame /\ f \in Name /\ Sound(d) /\ (FromDash(d) => f = DashName[d.c])
<1>1. Deliver(f, d) \in Envelopes
  <2> PICK E : E = Envelopes
    OBVIOUS
  <2>1. RelayTyped(E)
    BY DEF SessionInv, RelayTyped, HeldOK, QueuesOK, Packages
  <2> QED BY <2>1, TakeType
<1>2. Deliver(f, d).t = "deliver" /\ Deliver(f, d).from = f /\ Deliver(f, d).data = d
  BY DEF Deliver
<1>3. Deliver(f, d) \notin Notices
  BY <1>2 DEF Notices, Joined, Error
<1> QED BY <1>1, <1>2, <1>3 DEF Envelopes, Genuine

\* The steps, with what is known of a frame that arrives.
LEMMA StepCases ==
  ASSUME SessionInv, Next
  PROVE  \/ \E c \in Conn : RelayStep(c)
         \/ \E c \in CtlConn : CtlConnect(c)
         \/ ctl \in CtlConn /\ CtlDisconnect
         \/ ctl \in CtlConn /\ (CtlIgnore \/ \E p \in PeerId : CtlPeerJoin(p) \/ CtlPeerLeave(p))
         \/ ctl \in CtlConn /\ \E p \in PeerId, d \in Frame :
              /\ Sound(d) /\ (FromDash(d) => p = DashName[d.c])
              /\ \/ CtlUnknown(p, d) \/ CtlMsg1(p, d) \/ CtlMsg3(p, d)
                 \/ CtlBadHandshake(p, d) \/ CtlData(p, d)
         \/ ctl \in CtlConn /\ CtlFanout
         \/ \E c \in DashConn : \/ DashConnect(c) \/ DashClose(c) \/ DashInput(c)
                                \/ DashIgnore(c) \/ DashPeerJoin(c) \/ DashPeerLeave(c)
         \/ \E c \in DashConn, d \in Frame : DashMsg2(c, d) \/ DashThrow(c, d) \/ DashData(c, d)
<1>0. ctl # NoConn => ctl \in CtlConn /\ ctl \in Conn
  BY ConnParts DEF SessionInv, TypeOK
<1>1. CASE CtlReceive
  <2>1. ctl # NoConn
    BY <1>1 DEF CtlReceive, CtlRefused, CtlIgnore, CtlPeerJoin, CtlPeerLeave
  <2>2. ASSUME NEW p \in PeerId, NEW d,
               \/ CtlUnknown(p, d) \/ CtlMsg1(p, d) \/ CtlMsg3(p, d)
               \/ CtlBadHandshake(p, d) \/ CtlData(p, d)
        PROVE  d \in Frame /\ Sound(d) /\ (FromDash(d) => p = DashName[d.c])
    <3>1. Take(ctl, Deliver(p, d))
      BY <2>2 DEF CtlUnknown, CtlMsg1, CtlMsg3, CtlBadHandshake, CtlData
    <3> QED BY <1>0, <2>1, <3>1, TakeGenuine
  <2> QED BY <1>0, <1>1, <2>1, <2>2 DEF CtlReceive, CtlRefused
<1>2. ASSUME NEW c \in DashConn, DashReceive(c)
      PROVE  \/ DashIgnore(c) \/ DashPeerJoin(c) \/ DashPeerLeave(c)
             \/ \E d \in Frame : DashMsg2(c, d) \/ DashThrow(c, d) \/ DashData(c, d)
  <2>1. ASSUME NEW d, DashMsg2(c, d) \/ DashThrow(c, d) \/ DashData(c, d) PROVE d \in Frame
    <3>1. Take(c, Deliver(Controller, d))
      BY <2>1 DEF DashMsg2, DashThrow, DashData
    <3> QED BY <3>1, TakeGenuine, ConnParts
  <2> QED BY <1>2, <2>1 DEF DashReceive
<1>3. CASE CtlDisconnect \/ CtlFanout
  BY <1>0, <1>3 DEF CtlDisconnect, CtlFanout
<1> QED BY <1>1, <1>2, <1>3 DEF Next

-----------------------------------------------------------------------------
(* What a step does to a dashboard: nothing that its frames under way would *)
(* notice.                                                                  *)

DashMove(c) ==
  \/ dash'[c].n = dash[c].n + 1 /\ dash'[c].st = "m1"
  \/ dash'[c].n = dash[c].n /\ dash'[c].st = "none"
  \/ dash'[c].n = dash[c].n /\ dash[c].st \in {"m1", "broken"} /\ dash'[c].st = "broken"
  \/ dash'[c].n = dash[c].n /\ dash[c].st = "m1" /\ dash'[c].st = "done" /\ dash'[c].up
  \/ /\ dash'[c].n = dash[c].n /\ dash'[c].st = dash[c].st /\ dash'[c].k = dash[c].k
     /\ dash'[c].up = dash[c].up /\ dash'[c].tx \in {dash[c].tx, dash[c].tx + 1}

LEMMA DashMoves ==
  ASSUME SessionInv, [Next]_vars
  PROVE  \A c \in DashConn : DashMove(c)
<1>1. CASE dash' = dash
  BY <1>1 DEF DashMove
<1>2. CASE dash' # dash
  <2>1. Next
    BY <1>2 DEF vars, dashVars
  <2>2. PICK c \in DashConn : \/ DashInput(c) \/ DashPeerJoin(c) \/ DashPeerLeave(c)
          \/ \E d \in Frame : DashMsg2(c, d) \/ DashThrow(c, d) \/ DashData(c, d)
    BY <1>2, <2>1, StepCases DEF RelayStep, RelayJoin, RelayRead, RelayForward, RelayEnd, RelayCleanup,
      CtlConnect, CtlDisconnect, CtlIgnore, CtlPeerJoin, CtlPeerLeave, CtlUnknown, CtlMsg1, CtlMsg3,
      CtlBadHandshake, CtlData, CtlFanout, DashConnect, DashClose, DashIgnore, dashVars
  <2>3. dash' = [dash EXCEPT ![c] = dash'[c]] /\ DashMove(c)
    <3>0. dash \in [DashConn -> [st : {"none", "m1", "done", "broken"}, n : Nat, k : CtlConn \cup {NoConn},
                            tx : Nat, rx : Nat, up : BOOLEAN]]
      BY DEF SessionInv, TypeOK
    <3>1. CASE DashInput(c)
      BY <3>0, <3>1 DEF DashInput, DashMove
    <3>2. CASE DashPeerJoin(c)
      BY <3>0, <3>2 DEF DashPeerJoin, DashMove, NoDash
    <3>3. CASE DashPeerLeave(c)
      BY <3>0, <3>3 DEF DashPeerLeave, DashMove, NoDash
    <3>4. ASSUME NEW d \in Frame, DashMsg2(c, d)
          PROVE  dash' = [dash EXCEPT ![c] = dash'[c]] /\ DashMove(c)
      BY <3>0, <3>4 DEF DashMsg2, IsMsg2Of, DashMove
    <3>5. ASSUME NEW d \in Frame, DashThrow(c, d)
          PROVE  dash' = [dash EXCEPT ![c] = dash'[c]] /\ DashMove(c)
      <4>1. dash[c].st # "done"
        BY <3>5 DEF DashThrow, SessionInv, DoneIsUp
      <4> QED BY <3>0, <3>5, <4>1 DEF DashThrow, DashMove
    <3>6. ASSUME NEW d \in Frame, DashData(c, d)
          PROVE  dash' = [dash EXCEPT ![c] = dash'[c]] /\ DashMove(c)
      BY <3>0, <3>6 DEF DashData, DashMove
    <3> QED BY <2>2, <3>1, <3>2, <3>3, <3>4, <3>5, <3>6
  <2>4. \A e \in DashConn : e # c => dash'[e] = dash[e]
    BY <2>3 DEF SessionInv, TypeOK
  <2> QED BY <2>3, <2>4 DEF DashMove
<1> QED BY <1>1, <1>2

\* No step of anyone makes a sound frame unsound.
LEMMA SoundStable ==
  ASSUME SessionInv, [Next]_vars, NEW d \in Frame, Sound(d)
  PROVE  Sound(d)'
<1>1. d.c \in DashConn /\ d.n \in Nat /\ (d.t = "data" => d.i \in Nat)
  BY FrameFields
<1>2. DashMove(d.c) /\ dash[d.c].n \in Nat /\ dash[d.c].tx \in Nat
  BY <1>1, DashMoves DEF SessionInv, TypeOK
<1> QED BY <1>1, <1>2 DEF Sound, Current, FromDash, DashMove

LEMMA GenuineStable ==
  ASSUME SessionInv, [Next]_vars
  PROVE  Envelopes \subseteq Envelopes' /\ \A a \in Conn : Outgoing(a) \subseteq Outgoing(a)'
BY SoundStable DEF Envelopes, Genuine, Outgoing, FromDash

-----------------------------------------------------------------------------
(* Everything under way stays sound.                                       *)

\* The constant set of the sound envelopes of a state.
LEMMA RelayTypedNow == ASSUME SessionInv, NEW E, E = Envelopes PROVE RelayTyped(E)
BY DEF SessionInv, RelayTyped, HeldOK, QueuesOK, Packages

\* A frame that a connection has on the wire goes out under its name.
LEMMA ReadGenuine ==
  ASSUME SessionInv, NEW c \in Conn, phase[c] = "routing", wire[c] # <<>>
  PROVE  /\ Head(wire[c]) \in Outgoing(c) /\ Head(wire[c]).to \in Name
         /\ Head(wire[c]).data \in Frame
         /\ Deliver(ident[c].id, Head(wire[c]).data) \in Genuine
<1>1. wire[c] \in Seq(Outgoing(c))
  BY DEF SessionInv, WireSound
<1>2. Head(wire[c]) \in Outgoing(c)
  BY <1>1, HeadTailProperties
<1> DEFINE m == Head(wire[c])
<1>3. m.to \in Name /\ m.data \in Frame /\ Sound(m.data) /\ (FromDash(m.data) => m.data.c = c)
  BY <1>2 DEF Outgoing
<1>4. ident[c] = Identity(c)
  BY DEF SessionInv, Identified, HasJoined
<1>5. ident[c].id \in Name
  BY <1>4, ConnParts DEF Identity, Name
<1>6. FromDash(m.data) => ident[c].id = DashName[m.data.c]
  BY <1>3, <1>4, FrameFields, ConnParts DEF Identity
<1> HIDE DEF m
<1>7. Deliver(ident[c].id, m.data) \in Genuine
  BY <1>3, <1>5, <1>6 DEF Genuine, Deliver
<1> QED BY <1>2, <1>3, <1>7 DEF m

\* No step makes the relay carry anything unsound.
LEMMA RelayStaysSound ==
  ASSUME SessionInv, [Next]_vars
  PROVE  RelayTyped(Envelopes)'
<1> PICK E : E = Envelopes
  OBVIOUS
<1>0. RelayTyped(E) /\ E \subseteq Envelopes'
  BY RelayTypedNow, GenuineStable
<1>1. ASSUME UNCHANGED relayVars PROVE RelayTyped(E)'
  BY <1>0, <1>1, UnchangedType
<1>2. ASSUME NEW c \in Conn, RelayStep(c) PROVE RelayTyped(E)'
  <2>1. CASE RelayJoin(c)
    BY <1>0, <2>1, RoomGiven, ConnParts, JoinControllerType, JoinDashboardType DEF RelayJoin
  <2>2. CASE RelayRead(c)
    <3> DEFINE m == Head(wire[c])
    <3>1. RouteLookup(c, m.to, m.data) /\ phase[c] = "routing" /\ wire[c] # <<>>
      BY <2>2 DEF RelayRead, RouteLookup
    <3>2. m.to \in Name /\ Deliver(ident[c].id, m.data) \in E
      BY <3>1, ReadGenuine DEF Envelopes
    <3> HIDE DEF m
    <3> QED BY <1>0, <3>1, <3>2, RouteLookupType
  <2>3. CASE RelayForward(c)
    BY <1>0, <2>3, RouteSendType DEF RelayForward
  <2>4. CASE RelayEnd(c)
    BY <1>0, <2>4, StreamEndType DEF RelayEnd
  <2>5. CASE RelayCleanup(c)
    BY <1>0, <2>5, CleanupType DEF RelayCleanup
  <2> QED BY <1>2, <2>1, <2>2, <2>3, <2>4, <2>5 DEF RelayStep
<1>3. ASSUME NEW c \in Conn, NEW env, Take(c, env) PROVE RelayTyped(E)'
  BY <1>0, <1>3, TakeType
<1>4. RelayTyped(E)'
  <2>1. CASE UNCHANGED vars
    BY <1>1, <2>1 DEF vars
  <2>2. CASE Next
    BY <1>1, <1>2, <1>3, <2>2, StepCases, ConnParts DEF CtlConnect, CtlDisconnect, CtlIgnore, CtlPeerJoin,
      CtlPeerLeave, CtlUnknown, CtlMsg1, CtlMsg3, CtlBadHandshake, CtlData, CtlFanout, DashConnect,
      DashClose, DashInput, DashIgnore, DashPeerJoin, DashPeerLeave, DashMsg2, DashThrow, DashData, Hangup
  <2> QED BY <2>1, <2>2
<1> QED BY <1>0, <1>4, TypeWidens

-----------------------------------------------------------------------------
(* What is on the wire.                                                    *)

\* What the controller fans out is well formed.
LEMMA FanoutType ==
  ASSUME SessionInv, ctl \in CtlConn,
         NEW order \in SetToSeqs({p \in PeerId : peers[p].st = "ready"})
  PROVE  [i \in DOMAIN order |->
            LET p == order[i] IN Msg(p, Cipher(peers[p].c, peers[p].n, ctl, p, peers[p].tx, "out"))]
         \in Seq({m \in Outgoing(ctl) : m.data.t = "data"})
<1> DEFINE ready == {p \in PeerId : peers[p].st = "ready"}
           m(p)  == Msg(p, Cipher(peers[p].c, peers[p].n, ctl, p, peers[p].tx, "out"))
<1>1. IsFiniteSet(ready) /\ ready \subseteq PeerId
  BY RelayAssumption, FS_Subset
<1>2. Cardinality(ready) \in Nat
  BY <1>1, FS_CardinalityType
<1>3. order \in [1..Cardinality(ready) -> ready]
  BY DEF SetToSeqs
<1> DEFINE out == {x \in Outgoing(ctl) : x.data.t = "data"}
<1>4. ASSUME NEW p \in ready PROVE m(p) \in out
  <2>1. /\ peers[p].c \in DashConn /\ peers[p].n \in Nat /\ peers[p].tx \in Nat
        /\ DashName[peers[p].c] = p /\ 1 <= peers[p].n /\ peers[p].n <= dash[peers[p].c].n
    BY DEF SessionInv, TypeOK, PeersNamed, NoPeer, Awaiting
  <2>2. p \in Name /\ p # Controller
    BY SessionAssumption DEF Name
  <2> DEFINE d == Cipher(peers[p].c, peers[p].n, ctl, p, peers[p].tx, "out")
  <2>3. d \in Frame
    BY <2>1, <2>2, FrameTypes
  <2>4. ~FromDash(d) /\ d.t = "data" /\ d.to = p /\ d.k = ctl /\ DashName[d.c] = p
    BY <2>1, <2>2 DEF Cipher, FromDash
  <2>5. Sound(d)
    <3>1. dash[peers[p].c].n = peers[p].n /\ dash[peers[p].c].st # "none" =>
            dash[peers[p].c].st = "done" /\ dash[peers[p].c].k = ctl
      BY DEF SessionInv, ReadyIsAuthentic
    <3> QED BY <2>1, <2>2, <3>1 DEF Cipher, Sound, FromDash, Current
  <2> HIDE DEF d
  <2>6. Msg(p, d) \in Outgoing(ctl) /\ Msg(p, d).data = d
    BY <2>2, <2>3, <2>4, <2>5 DEF Outgoing, Msg
  <2>7. Msg(p, d) \in out
    BY <2>4, <2>6
  <2> QED BY <2>7 DEF d
<1> HIDE DEF ready, m, out
<1>5. [i \in DOMAIN order |-> m(order[i])] \in [1..Cardinality(ready) -> out]
  BY <1>3, <1>4
<1>6. [i \in DOMAIN order |-> m(order[i])] \in Seq(out)
  BY <1>2, <1>5, SeqDef
<1> QED BY <1>6 DEF m, out

\* Sending sound frames of one's own keeps the wire sound.
LEMMA SayType ==
  ASSUME SessionInv, [Next]_vars, NEW c \in Conn, NEW msgs \in Seq(Outgoing(c)'), Say(c, msgs)
  PROVE  WireSound'
<1> SUFFICES ASSUME NEW a \in Conn PROVE wire'[a] \in Seq(Outgoing(a)')
  BY DEF WireSound, Outgoing, Sound, FromDash, Current
<1> PICK S : S = Outgoing(a)'
  OBVIOUS
<1>1. wire[a] \in Seq(S)
  <2>1. wire[a] \in Seq(Outgoing(a)) /\ Outgoing(a) \subseteq S
    BY GenuineStable DEF SessionInv, WireSound
  <2> PICK R : R = Outgoing(a)
    OBVIOUS
  <2> QED BY <2>1, SeqMonotonic
<1>2. wire'[a] = IF a = c THEN wire[a] \o msgs ELSE wire[a]
  BY DEF Say, SessionInv, TypeOK
<1>3. CASE a = c
  BY <1>1, <1>2, <1>3, ConcatProperties
<1>4. CASE a # c
  BY <1>1, <1>2, <1>4
<1> QED BY <1>3, <1>4

\* A frame, sent by its author, may go on the wire.
LEMMA MayGoOut ==
  ASSUME NEW a \in Conn, NEW to \in Name, NEW d \in Frame, Sound(d)',
         FromDash(d) => d.c = a /\ to = Controller, ~FromDash(d) => d.k = a /\ to = DashName[d.c],
         d.t = "data" => to = d.to
  PROVE  Msg(to, d) \in Outgoing(a)'
<1>1. Msg(to, d) \in [to : Name, data : Frame] /\ Msg(to, d).data = d /\ Msg(to, d).to = to
  BY DEF Msg
<1> QED BY <1>1 DEF Outgoing, FromDash

\* The frames of the controller: those of a handshake or session that the
\* dashboard has begun, and if it is still at that one, has finished with it.
LEMMA ControllerMaySay ==
  ASSUME NEW c \in DashConn, NEW n \in Nat, NEW k \in CtlConn, NEW p \in PeerId, p = DashName[c],
         1 <= n, n <= dash'[c].n
  PROVE  /\ Msg(p, Msg2(c, n, k)) \in Outgoing(k)'
         /\ (dash'[c].n = n /\ dash'[c].st # "none" => dash'[c].st = "done" /\ dash'[c].k = k) =>
              \A i \in Nat, body \in {"hello", "out"} : Msg(p, Cipher(c, n, k, p, i, body)) \in Outgoing(k)'
<1>1. p \in Name /\ p # Controller /\ k \in Conn
  BY ConnParts, RelayAssumption DEF Name
<1>2. Msg(p, Msg2(c, n, k)) \in Outgoing(k)'
  <2> PICK x : x = Msg2(c, n, k)
    OBVIOUS
  <2>1. x \in Frame /\ ~FromDash(x) /\ x.k = k /\ x.t = "m2" /\ x.c = c
    BY FrameTypes DEF Msg2, FromDash
  <2>2. Sound(x)'
    BY DEF Msg2, Sound, FromDash
  <2> QED BY <1>1, <2>1, <2>2, MayGoOut
<1>3. ASSUME dash'[c].n = n /\ dash'[c].st # "none" => dash'[c].st = "done" /\ dash'[c].k = k,
             NEW i \in Nat, NEW body \in {"hello", "out"}
      PROVE  Msg(p, Cipher(c, n, k, p, i, body)) \in Outgoing(k)'
  <2> PICK x : x = Cipher(c, n, k, p, i, body)
    OBVIOUS
  <2>1. x \in Frame
    BY <1>1, FrameTypes
  <2>2. ~FromDash(x) /\ x.k = k /\ x.to = p /\ x.c = c
    BY <1>1 DEF Cipher, FromDash
  <2>3. Sound(x)'
    BY <1>1, <1>3 DEF Cipher, Sound, FromDash, Current
  <2> QED BY <1>1, <2>1, <2>2, <2>3, MayGoOut
<1> QED BY <1>2, <1>3

\* The frames of a dashboard: message 1 of the handshake it is at, and, once done,
\* message 3 and its session's frames up to its nonce.
LEMMA DashboardMaySay ==
  ASSUME NEW c \in DashConn, NEW n \in Nat, 1 <= n, dash'[c].n = n
  PROVE  /\ Msg(Controller, Msg1(c, n)) \in Outgoing(c)'
         /\ \A k \in CtlConn : dash'[c].st = "done" /\ dash'[c].k = k =>
              /\ Msg(Controller, Msg3(c, n, k, DashKey[c])) \in Outgoing(c)'
              /\ \A i \in Nat, body \in {"refresh", "input"} : i < dash'[c].tx =>
                   Msg(Controller, Cipher(c, n, k, Controller, i, body)) \in Outgoing(c)'
<1>0. c \in Conn /\ Controller \in Name /\ n <= dash'[c].n
  BY ConnParts DEF Name
<1>1. Msg(Controller, Msg1(c, n)) \in Outgoing(c)'
  <2> PICK x : x = Msg1(c, n)
    OBVIOUS
  <2>1. x \in Frame
    BY DEF Msg1, Frame
  <2>2. Sound(x)' /\ x.c = c /\ FromDash(x) /\ x.t = "m1"
    BY <1>0 DEF Msg1, Sound, FromDash
  <2> QED BY <1>0, <2>1, <2>2, MayGoOut
<1>2. ASSUME NEW k \in CtlConn, dash'[c].st = "done", dash'[c].k = k
      PROVE  Msg(Controller, Msg3(c, n, k, DashKey[c])) \in Outgoing(c)'
  <2> PICK x : x = Msg3(c, n, k, DashKey[c])
    OBVIOUS
  <2>1. x \in Frame
    BY FrameTypes
  <2>2. Sound(x)' /\ x.c = c /\ FromDash(x) /\ x.t = "m3"
    BY <1>0, <1>2 DEF Msg3, Sound, FromDash, Current
  <2> QED BY <1>0, <2>1, <2>2, MayGoOut
<1>3. ASSUME NEW k \in CtlConn, dash'[c].st = "done", dash'[c].k = k,
             NEW i \in Nat, NEW body \in {"refresh", "input"}, i < dash'[c].tx
      PROVE  Msg(Controller, Cipher(c, n, k, Controller, i, body)) \in Outgoing(c)'
  <2> PICK x : x = Cipher(c, n, k, Controller, i, body)
    OBVIOUS
  <2>1. x \in Frame
    BY <1>0, FrameTypes
  <2>2. Sound(x)' /\ x.c = c /\ FromDash(x) /\ x.to = Controller
    BY <1>0, <1>3 DEF Cipher, Sound, FromDash, Current
  <2> QED BY <1>0, <2>1, <2>2, MayGoOut
<1> QED BY <1>1, <1>2, <1>3

\* Every step leaves the wire alone, takes from it, or adds what is sound.
LEMMA WireStaysSound ==
  ASSUME SessionInv, [Next]_vars
  PROVE  WireSound'
<1>0. wire \in [Conn -> Seq([to : Name, data : Frame])]
  BY DEF SessionInv, TypeOK
<1>1. ASSUME \A a \in Conn : wire'[a] = wire[a] \/ wire'[a] = <<>>
                             \/ (wire[a] # <<>> /\ wire'[a] = Tail(wire[a]))
      PROVE  WireSound'
  <2> SUFFICES ASSUME NEW a \in Conn PROVE wire'[a] \in Seq(Outgoing(a)')
    BY DEF WireSound, Outgoing, Sound, FromDash, Current
  <2> PICK S : S = Outgoing(a)'
    OBVIOUS
  <2>1. wire[a] \in Seq(S)
    <3>1. wire[a] \in Seq(Outgoing(a)) /\ Outgoing(a) \subseteq S
      BY GenuineStable DEF SessionInv, WireSound
    <3> PICK R : R = Outgoing(a)
      OBVIOUS
    <3> QED BY <3>1, SeqMonotonic
  <2>2. wire[a] # <<>> => Tail(wire[a]) \in Seq(S)
    BY <2>1, HeadTailProperties
  <2>3. wire'[a] \in Seq(S)
    <3>1. <<>> \in Seq(S)
      OBVIOUS
    <3> QED BY <1>1, <2>1, <2>2, <3>1
  <2> QED BY <2>3
<1>2. ASSUME wire' = wire PROVE WireSound'
  BY <1>1, <1>2
<1>3. ASSUME NEW c \in Conn, RelayStep(c) PROVE WireSound'
  <2>1. \/ wire' = wire \/ wire' = [wire EXCEPT ![c] = <<>>]
        \/ wire[c] # <<>> /\ wire' = [wire EXCEPT ![c] = Tail(@)]
    BY <1>3 DEF RelayStep, RelayJoin, RelayRead, RelayForward, RelayEnd, RelayCleanup, clientVars
  <2> QED BY <1>0, <1>1, <2>1
<1>4. ASSUME ctl \in CtlConn, CtlFanout PROVE WireSound'
  <2> PICK k \in CtlConn : k = ctl
    BY <1>4
  <2>1. PICK order \in SetToSeqs({p \in PeerId : peers[p].st = "ready"}) :
          Say(k, [i \in DOMAIN order |->
            LET p == order[i] IN Msg(p, Cipher(peers[p].c, peers[p].n, ctl, p, peers[p].tx, "out"))])
    BY <1>4 DEF CtlFanout
  <2> DEFINE msgs == [i \in DOMAIN order |->
            LET p == order[i] IN Msg(p, Cipher(peers[p].c, peers[p].n, ctl, p, peers[p].tx, "out"))]
  <2> PICK R : R = {m \in Outgoing(k) : m.data.t = "data"}
    OBVIOUS
  <2> PICK T : T = Outgoing(k)'
    OBVIOUS
  <2>2. msgs \in Seq(R)
    BY <1>4, FanoutType
  <2>3. Say(k, msgs) /\ k \in Conn /\ R \subseteq T
    BY <2>1, ConnParts, GenuineStable
  <2> HIDE DEF msgs
  <2>4. msgs \in Seq(T)
    BY <2>2, <2>3, SeqMonotonic
  <2> QED BY <2>3, <2>4, SayType
<1>5. ASSUME ctl \in CtlConn, NEW p \in PeerId, NEW d \in Frame, Sound(d),
             FromDash(d) => p = DashName[d.c], CtlMsg1(p, d) \/ CtlMsg3(p, d)
      PROVE  WireSound'
  <2> PICK k \in CtlConn : k = ctl
    BY <1>5
  <2>1. /\ d.c \in DashConn /\ d.n \in Nat /\ 1 <= d.n /\ d.n <= dash'[d.c].n /\ k \in Conn
        /\ p = DashName[d.c]
    BY <1>5, FrameFields, SoundStable, ConnParts DEF Sound, CtlMsg1, CtlMsg3, IsMsg3Of, FromDash
  <2>2. \/ wire' = wire
        \/ Say(k, << Msg(p, Msg2(d.c, d.n, k)) >>)
        \/ d.t = "m3" /\ d.k = k /\ Say(k, << Msg(p, Cipher(d.c, d.n, k, p, 0, "hello")) >>)
    BY <1>5 DEF CtlMsg1, CtlMsg3, IsMsg3Of
  <2>3. << Msg(p, Msg2(d.c, d.n, k)) >> \in Seq(Outgoing(k)')
    BY <2>1, ControllerMaySay
  <2>4. ASSUME d.t = "m3", d.k = k
        PROVE  << Msg(p, Cipher(d.c, d.n, k, p, 0, "hello")) >> \in Seq(Outgoing(k)')
    <3>1. dash'[d.c].n = d.n /\ dash'[d.c].st # "none" => dash'[d.c].st = "done" /\ dash'[d.c].k = k
      BY <1>5, <2>4, SoundStable DEF Sound, Current
    <3> QED BY <2>1, <3>1, ControllerMaySay
  <2> QED BY <1>2, <2>1, <2>2, <2>3, <2>4, SayType
<1>6. /\ dash \in [DashConn -> [st : {"none", "m1", "done", "broken"}, n : Nat, k : CtlConn \cup {NoConn},
                            tx : Nat, rx : Nat, up : BOOLEAN]]
      /\ DashConn \subseteq Conn
  BY ConnParts DEF SessionInv, TypeOK
<1>7. ASSUME NEW c \in DashConn, DashPeerJoin(c) PROVE WireSound'
  <2> PICK n : n = dash[c].n + 1
    OBVIOUS
  <2>1. n \in Nat /\ 1 <= n /\ dash'[c].n = n /\ Say(c, << Msg(Controller, Msg1(c, n)) >>)
    BY <1>6, <1>7 DEF DashPeerJoin, NoDash
  <2>2. << Msg(Controller, Msg1(c, n)) >> \in Seq(Outgoing(c)')
    BY <2>1, DashboardMaySay
  <2> QED BY <1>6, <2>1, <2>2, SayType
<1>8. ASSUME NEW c \in DashConn, NEW d \in Frame, DashMsg2(c, d) PROVE WireSound'
  <2> PICK n, k : n = d.n /\ k = d.k
    OBVIOUS
  <2>1. /\ n \in Nat /\ 1 <= n /\ k \in CtlConn /\ dash'[c].n = n
        /\ dash'[c].st = "done" /\ dash'[c].k = k /\ dash'[c].tx = 1
        /\ Say(c, << Msg(Controller, Msg3(c, n, k, DashKey[c])),
                     Msg(Controller, Cipher(c, n, k, Controller, 0, "refresh")) >>)
    BY <1>6, <1>8, FrameFields DEF DashMsg2, IsMsg2Of, SessionInv, DoneIsUp
  <2>2. /\ Msg(Controller, Msg3(c, n, k, DashKey[c])) \in Outgoing(c)'
        /\ Msg(Controller, Cipher(c, n, k, Controller, 0, "refresh")) \in Outgoing(c)'
    BY <2>1, DashboardMaySay
  <2>3. << Msg(Controller, Msg3(c, n, k, DashKey[c])),
           Msg(Controller, Cipher(c, n, k, Controller, 0, "refresh")) >> \in Seq(Outgoing(c)')
    BY <2>2
  <2>4. c \in Conn
    BY <1>6
  <2> QED BY <2>1, <2>3, <2>4, SayType
<1>9. ASSUME NEW c \in DashConn, DashInput(c) PROVE WireSound'
  <2> PICK n, k, i : n = dash[c].n /\ k = dash[c].k /\ i = dash[c].tx
    OBVIOUS
  <2>1. /\ n \in Nat /\ 1 <= n /\ i \in Nat /\ dash'[c].n = n
        /\ dash'[c].st = "done" /\ dash'[c].k = k /\ dash'[c].tx = i + 1
        /\ Say(c, << Msg(Controller, Cipher(c, n, k, Controller, i, "input")) >>)
    BY <1>6, <1>9 DEF DashInput, SessionInv, DoneIsUp
  <2>2. k \in CtlConn
    BY <1>9 DEF DashInput, SessionInv, DoneIsUp
  <2>3. Msg(Controller, Cipher(c, n, k, Controller, i, "input")) \in Outgoing(c)'
    BY <2>1, <2>2, DashboardMaySay
  <2>4. << Msg(Controller, Cipher(c, n, k, Controller, i, "input")) >> \in Seq(Outgoing(c)')
    BY <2>3
  <2>5. c \in Conn
    BY <1>6
  <2> QED BY <2>1, <2>4, <2>5, SayType
<1>10. CASE UNCHANGED vars
  BY <1>2, <1>10 DEF vars, clientVars
<1>11. CASE Next
  BY <1>2, <1>3, <1>4, <1>5, <1>7, <1>8, <1>9, <1>11, StepCases DEF CtlConnect, CtlDisconnect,
    CtlIgnore, CtlPeerJoin, CtlPeerLeave, CtlUnknown, CtlBadHandshake, CtlData, DashConnect,
    DashClose, DashIgnore, DashPeerLeave, DashThrow, DashData, Hangup
<1> QED BY <1>10, <1>11

-----------------------------------------------------------------------------
(* What a step does to the controller's peers.                             *)

AnsweredPeer == [st : {"answered"}, c : DashConn, n : Nat]
ReadyPeer    == [st : {"ready"}, c : DashConn, n : Nat, key : {DashKey[c] : c \in DashConn},
                 tx : Nat, rx : Nat]
PeerState    == {NoPeer, Awaiting} \cup AnsweredPeer \cup ReadyPeer
DashState    == [st : {"none", "m1", "done", "broken"}, n : Nat, k : CtlConn \cup {NoConn},
                 tx : Nat, rx : Nat, up : BOOLEAN]

\* A peer's fields, by its state.
LEMMA PeerFields ==
  ASSUME NEW q \in PeerState
  PROVE  /\ q.st \in {"none", "awaiting", "answered", "ready"}
         /\ q.st = "none" => q = NoPeer
         /\ q.st = "awaiting" => q = Awaiting
         /\ q.st = "answered" => q \in AnsweredPeer /\ q.c \in DashConn /\ q.n \in Nat
         /\ q.st = "ready" => /\ q \in ReadyPeer /\ q.c \in DashConn /\ q.n \in Nat
                              /\ q.tx \in Nat /\ q.rx \in Nat
BY DEF PeerState, NoPeer, Awaiting, AnsweredPeer, ReadyPeer

\* Counting a frame read or written leaves the rest of a ready peer.
LEMMA PeerCounts ==
  ASSUME NEW q \in ReadyPeer
  PROVE  /\ [q EXCEPT !.rx = @ + 1] \in ReadyPeer /\ [q EXCEPT !.tx = @ + 1] \in ReadyPeer
         /\ \A r \in {[q EXCEPT !.rx = @ + 1], [q EXCEPT !.tx = @ + 1]} :
              r.st = q.st /\ r.c = q.c /\ r.n = q.n /\ r.key = q.key
         /\ [q EXCEPT !.rx = @ + 1].rx = q.rx + 1 /\ [q EXCEPT !.rx = @ + 1].tx = q.tx
         /\ [q EXCEPT !.tx = @ + 1].rx = q.rx /\ [q EXCEPT !.tx = @ + 1].tx = q.tx + 1
BY DEF ReadyPeer

SamePeer(p) ==
  /\ ctl' = ctl /\ table \subseteq table' /\ peers'[p].st = peers[p].st
  /\ peers[p].st \in {"answered", "ready"} => peers'[p].c = peers[p].c /\ peers'[p].n = peers[p].n
  /\ peers[p].st = "ready" => peers'[p].key = peers[p].key

PeerAnswered(p) ==
  /\ ctl' = ctl /\ table' = table
  /\ \E d \in Frame : /\ Sound(d) /\ d.t = "m1" /\ DashName[d.c] = p
                      /\ peers'[p] = Answered(d.c, d.n)

PeerAdmitted(p) ==
  /\ ctl' = ctl /\ table \subseteq table' /\ peers[p].st = "answered"
  /\ \E d \in Frame :
       /\ Sound(d) /\ d.t = "m3" /\ d.c = peers[p].c /\ d.n = peers[p].n /\ d.k = ctl
       /\ d.key \in table' /\ peers'[p] = Ready(d.c, d.n, d.key, 1, 0)

PeerMove(p) ==
  \/ peers'[p].st \in {"none", "awaiting"}
  \/ SamePeer(p) \/ PeerAnswered(p) \/ PeerAdmitted(p)

LEMMA PeerMoves ==
  ASSUME SessionInv, [Next]_vars
  PROVE  /\ peers' \in [PeerId -> PeerState]
         /\ \A p \in PeerId : PeerMove(p)
<1>0. peers \in [PeerId -> PeerState]
  BY DEF SessionInv, TypeOK, PeerState, AnsweredPeer, ReadyPeer
<1>1. NoPeer \in PeerState /\ Awaiting \in PeerState /\ NoPeer.st = "none" /\ Awaiting.st = "awaiting"
  BY DEF PeerState, NoPeer, Awaiting
<1>2. ASSUME UNCHANGED <<ctl, peers, table>>
      PROVE  /\ peers' \in [PeerId -> PeerState] /\ \A p \in PeerId : PeerMove(p)
  BY <1>0, <1>2 DEF PeerMove, SamePeer
<1>3. ASSUME peers' = [p \in PeerId |-> NoPeer]
      PROVE  /\ peers' \in [PeerId -> PeerState] /\ \A p \in PeerId : PeerMove(p)
  BY <1>1, <1>3 DEF PeerMove
<1>4. ASSUME NEW p \in PeerId, NEW q \in PeerState, peers' = [peers EXCEPT ![p] = q],
             ctl' = ctl, table \subseteq table', PeerMove(p)
      PROVE  /\ peers' \in [PeerId -> PeerState] /\ \A x \in PeerId : PeerMove(x)
  <2>1. \A x \in PeerId : x # p => peers'[x] = peers[x]
    BY <1>0, <1>4
  <2> QED BY <1>0, <1>4, <2>1 DEF PeerMove, SamePeer
<1>5. ASSUME NEW p \in PeerId, CtlPeerJoin(p) \/ CtlPeerLeave(p)
      PROVE  /\ peers' \in [PeerId -> PeerState] /\ \A x \in PeerId : PeerMove(x)
  <2>1. PICK q \in {NoPeer, Awaiting} : peers' = [peers EXCEPT ![p] = q] /\ ctl' = ctl /\ table' = table
    BY <1>5 DEF CtlPeerJoin, CtlPeerLeave
  <2>2. PeerMove(p)
    BY <1>0, <1>1, <2>1 DEF PeerMove
  <2> QED BY <1>1, <1>4, <2>1, <2>2
<1>6. ASSUME NEW p \in PeerId, NEW d \in Frame, Sound(d), FromDash(d) => p = DashName[d.c],
             \/ CtlUnknown(p, d) \/ CtlMsg1(p, d) \/ CtlMsg3(p, d)
             \/ CtlBadHandshake(p, d) \/ CtlData(p, d)
      PROVE  /\ peers' \in [PeerId -> PeerState] /\ \A x \in PeerId : PeerMove(x)
  <2>0. d.c \in DashConn /\ d.n \in Nat /\ (d.t = "m3" => d.key \in {DashKey[c] : c \in DashConn})
    BY FrameFields
  <2>1. CASE CtlUnknown(p, d)
    BY <1>2, <2>1 DEF CtlUnknown, ctlVars
  <2>2. CASE CtlMsg1(p, d)
    <3>1. /\ peers' = [peers EXCEPT ![p] = Answered(d.c, d.n)] /\ d.t = "m1"
          /\ ctl' = ctl /\ table' = table
      BY <2>2 DEF CtlMsg1
    <3>2. Answered(d.c, d.n) \in PeerState /\ p = DashName[d.c]
      BY <1>6, <2>0, <3>1 DEF Answered, PeerState, AnsweredPeer, FromDash
    <3>3. peers'[p] = Answered(d.c, d.n)
      BY <1>0, <3>1
    <3>4. PeerMove(p)
      BY <1>6, <3>1, <3>2, <3>3 DEF PeerMove, PeerAnswered
    <3> QED BY <1>4, <3>1, <3>2, <3>4
  <2>3. CASE CtlMsg3(p, d)
    <3>1. /\ peers[p].st = "answered" /\ d.t = "m3"
          /\ d.c = peers[p].c /\ d.n = peers[p].n /\ d.k = ctl
          /\ ctl' = ctl
      BY <2>3 DEF CtlMsg3, IsMsg3Of
    <3>2. PICK saved \in BOOLEAN :
       /\ table' = IF AllowEnroll THEN table \cup {d.key} ELSE table
       /\ \/ Admits(d.key, saved) /\ peers' = [peers EXCEPT ![p] = Ready(d.c, d.n, d.key, 1, 0)]
          \/ peers' = [peers EXCEPT ![p] = NoPeer]
      BY <2>3 DEF CtlMsg3
    <3>3. table \subseteq table' /\ (Admits(d.key, saved) => d.key \in table')
      BY <3>2 DEF Admits
    <3>4. CASE peers' = [peers EXCEPT ![p] = NoPeer]
      <4>1. PeerMove(p)
        BY <1>0, <1>1, <3>4 DEF PeerMove
      <4> QED BY <1>1, <1>4, <3>1, <3>3, <3>4, <4>1
    <3>5. CASE Admits(d.key, saved) /\ peers' = [peers EXCEPT ![p] = Ready(d.c, d.n, d.key, 1, 0)]
      <4>1. Ready(d.c, d.n, d.key, 1, 0) \in PeerState
        BY <2>0, <3>1 DEF Ready, PeerState, ReadyPeer
      <4>2. peers'[p] = Ready(d.c, d.n, d.key, 1, 0)
        BY <1>0, <3>5
      <4>3. PeerMove(p)
        BY <1>6, <3>1, <3>3, <3>5, <4>2 DEF PeerMove, PeerAdmitted
      <4> QED BY <1>4, <3>1, <3>3, <3>5, <4>1, <4>3
    <3> QED BY <3>2, <3>4, <3>5
  <2>4. CASE CtlBadHandshake(p, d)
    <3>1. peers' = [peers EXCEPT ![p] = NoPeer] /\ ctl' = ctl /\ table' = table
      BY <2>4 DEF CtlBadHandshake
    <3>2. PeerMove(p)
      BY <1>0, <1>1, <3>1 DEF PeerMove
    <3> QED BY <1>1, <1>4, <3>1, <3>2
  <2>5. CASE CtlData(p, d)
    <3>1. peers[p].st = "ready" /\ ctl' = ctl /\ table' = table
      BY <2>5 DEF CtlData
    <3>2. CASE peers' = peers
      BY <1>2, <3>1, <3>2
    <3>3. CASE peers' # peers
      <4> DEFINE q == [peers[p] EXCEPT !.rx = @ + 1]
      <4>1. peers' = [peers EXCEPT ![p] = q]
        BY <2>5, <3>3 DEF CtlData
      <4>2. peers[p] \in ReadyPeer
        BY <1>0, <3>1, PeerFields
      <4>3. q \in ReadyPeer /\ q.st = peers[p].st /\ q.c = peers[p].c /\ q.n = peers[p].n /\ q.key = peers[p].key
        BY <4>2, PeerCounts
      <4> HIDE DEF q
      <4>4. peers'[p] = q /\ q \in PeerState
        BY <1>0, <4>1, <4>3 DEF PeerState
      <4>5. PeerMove(p)
        BY <3>1, <4>3, <4>4 DEF PeerMove, SamePeer
      <4> QED BY <1>4, <3>1, <4>1, <4>4, <4>5
    <3> QED BY <3>2, <3>3
  <2> QED BY <1>6, <2>1, <2>2, <2>3, <2>4, <2>5
<1>7. ASSUME CtlFanout
      PROVE  /\ peers' \in [PeerId -> PeerState] /\ \A x \in PeerId : PeerMove(x)
  <2>1. /\ peers' = [p \in PeerId |-> IF p \in {x \in PeerId : peers[x].st = "ready"}
                                     THEN [peers[p] EXCEPT !.tx = @ + 1] ELSE peers[p]]
        /\ ctl' = ctl /\ table' = table
    BY <1>7 DEF CtlFanout
  <2>2. ASSUME NEW p \in PeerId PROVE peers'[p] \in PeerState /\ PeerMove(p)
    <3>1. CASE peers[p].st = "ready"
      <4> DEFINE q == [peers[p] EXCEPT !.tx = @ + 1]
      <4>1. peers[p] \in ReadyPeer
        BY <1>0, <3>1, PeerFields
      <4>2. q \in ReadyPeer /\ q.st = peers[p].st /\ q.c = peers[p].c /\ q.n = peers[p].n /\ q.key = peers[p].key
        BY <4>1, PeerCounts
      <4>3. peers'[p] = q
        BY <2>1, <3>1
      <4> HIDE DEF q
      <4> QED BY <2>1, <3>1, <4>2, <4>3 DEF PeerMove, SamePeer, PeerState
    <3>2. CASE peers[p].st # "ready"
      BY <1>0, <2>1, <3>2 DEF PeerMove, SamePeer
    <3> QED BY <3>1, <3>2
  <2>3. peers' = [p \in PeerId |-> peers'[p]]
    BY <2>1
  <2> QED BY <2>2, <2>3
<1>8. CASE UNCHANGED vars
  BY <1>2, <1>8 DEF vars, ctlVars
<1>9. CASE Next
  BY <1>2, <1>3, <1>5, <1>6, <1>7, <1>9, StepCases DEF RelayStep, RelayJoin, RelayRead, RelayForward,
    RelayEnd, RelayCleanup, CtlConnect, CtlDisconnect, CtlIgnore, DashConnect, DashClose, DashInput,
    DashIgnore, DashPeerJoin, DashPeerLeave, DashMsg2, DashThrow, DashData, ctlVars
<1> QED BY <1>8, <1>9

-----------------------------------------------------------------------------
(* The invariant is inductive.                                             *)

LEMMA DashTyped ==
  ASSUME SessionInv, [Next]_vars
  PROVE  dash' \in [DashConn -> DashState]
<1>0. dash \in [DashConn -> DashState]
  BY DEF SessionInv, TypeOK, DashState
<1>1. ASSUME NEW c \in DashConn, NEW r \in DashState, dash' = [dash EXCEPT ![c] = r]
      PROVE  dash' \in [DashConn -> DashState]
  BY <1>0, <1>1
<1>2. CASE dash' = dash
  BY <1>0, <1>2
<1>3. ASSUME NEW c \in DashConn, DashInput(c) PROVE dash' \in [DashConn -> DashState]
  BY <1>0, <1>3 DEF DashInput, DashState
<1>4. ASSUME NEW c \in DashConn, DashPeerJoin(c) \/ DashPeerLeave(c) PROVE dash' \in [DashConn -> DashState]
  <2> PICK n, up : n = dash[c].n /\ up = dash[c].up
    OBVIOUS
  <2>1. n \in Nat /\ up \in BOOLEAN
    BY <1>0 DEF DashState
  <2>2. /\ [NoDash EXCEPT !.st = "m1", !.n = n + 1, !.up = up] \in DashState
        /\ [NoDash EXCEPT !.n = n] \in DashState
    <3>1. NoDash \in DashState
      BY DEF DashState, NoDash
    <3>2. ASSUME NEW z \in DashState
          PROVE  [z EXCEPT !.st = "m1", !.n = n + 1, !.up = up] \in DashState /\ [z EXCEPT !.n = n] \in DashState
      <4>1. [z EXCEPT !.st = "m1"] \in DashState
        BY DEF DashState
      <4>2. ASSUME NEW y \in DashState PROVE [y EXCEPT !.n = n + 1] \in DashState /\ [y EXCEPT !.n = n] \in DashState
        BY <2>1 DEF DashState
      <4>3. ASSUME NEW y \in DashState PROVE [y EXCEPT !.up = up] \in DashState
        BY <2>1 DEF DashState
      <4> QED BY <4>1, <4>2, <4>3
    <3> QED BY <3>1, <3>2
  <2> PICK r, s : /\ r = [NoDash EXCEPT !.st = "m1", !.n = n + 1, !.up = up]
                  /\ s = [NoDash EXCEPT !.n = n]
    OBVIOUS
  <2>3. dash' = [dash EXCEPT ![c] = r] \/ dash' = [dash EXCEPT ![c] = s]
    BY <1>4 DEF DashPeerJoin, DashPeerLeave
  <2>4. r \in DashState /\ s \in DashState
    BY <2>2
  <2> QED BY <1>1, <2>3, <2>4
<1>5. ASSUME NEW c \in DashConn, NEW d \in Frame, DashMsg2(c, d) PROVE dash' \in [DashConn -> DashState]
  <2>1. d.k \in CtlConn
    BY <1>5, FrameFields DEF DashMsg2, IsMsg2Of
  <2> QED BY <1>0, <1>5, <2>1 DEF DashMsg2, DashState
<1>6. ASSUME NEW c \in DashConn, NEW d \in Frame, DashThrow(c, d) \/ DashData(c, d)
      PROVE  dash' \in [DashConn -> DashState]
  BY <1>0, <1>6 DEF DashThrow, DashData, DashState
<1>7. CASE UNCHANGED vars
  BY <1>2, <1>7 DEF vars, dashVars
<1>8. CASE Next
  BY <1>2, <1>3, <1>4, <1>5, <1>6, <1>8, StepCases DEF RelayStep, RelayJoin, RelayRead, RelayForward,
    RelayEnd, RelayCleanup, CtlConnect, CtlDisconnect, CtlIgnore, CtlPeerJoin, CtlPeerLeave,
    CtlUnknown, CtlMsg1, CtlMsg3, CtlBadHandshake, CtlData, CtlFanout, DashConnect, DashClose,
    DashIgnore, dashVars
<1> QED BY <1>7, <1>8

LEMMA ClientTyped ==
  ASSUME SessionInv, [Next]_vars
  PROVE  /\ client' \in [Conn -> {"new", "open", "closed"}]
         /\ ctl' \in CtlConn \cup {NoConn}
         /\ ctl' = NoConn => \A p \in PeerId : peers'[p] = NoPeer
<1>0. /\ client \in [Conn -> {"new", "open", "closed"}] /\ ctl \in CtlConn \cup {NoConn}
      /\ ctl = NoConn => \A p \in PeerId : peers[p] = NoPeer
  BY DEF SessionInv, TypeOK
<1>1. CASE UNCHANGED vars
  BY <1>0, <1>1 DEF vars, clientVars, ctlVars
<1>2. CASE Next
  <2>1. \/ client' = client
        \/ \E c \in Conn : client' = [client EXCEPT ![c] = "open"] \/ client' = [client EXCEPT ![c] = "closed"]
    <3>1. ASSUME NEW c \in Conn, RelayStep(c) PROVE client' = client
      BY <3>1 DEF RelayStep, RelayJoin, RelayRead, RelayForward, RelayEnd, RelayCleanup, clientVars
    <3>2. ASSUME CtlFanout \/ \E c \in DashConn : DashInput(c) PROVE client' = client
      BY <3>2 DEF CtlFanout, DashInput
    <3>3. ASSUME NEW c, NEW env, Take(c, env) PROVE client' = client
      BY <3>3 DEF Take
    <3>4. ASSUME \/ CtlIgnore \/ \E p \in PeerId : CtlPeerJoin(p) \/ CtlPeerLeave(p)
                 \/ \E p \in PeerId, d \in Frame :
                      \/ CtlUnknown(p, d) \/ CtlMsg1(p, d) \/ CtlMsg3(p, d)
                      \/ CtlBadHandshake(p, d) \/ CtlData(p, d)
          PROVE  client' = client
      BY <3>3, <3>4 DEF CtlIgnore, CtlPeerJoin, CtlPeerLeave, CtlUnknown, CtlMsg1, CtlMsg3,
        CtlBadHandshake, CtlData
    <3>5. ASSUME \/ \E c \in DashConn : DashIgnore(c) \/ DashPeerJoin(c) \/ DashPeerLeave(c)
                 \/ \E c \in DashConn, d \in Frame : DashMsg2(c, d) \/ DashThrow(c, d) \/ DashData(c, d)
          PROVE  client' = client
      BY <3>3, <3>5 DEF DashIgnore, DashPeerJoin, DashPeerLeave, DashMsg2, DashThrow, DashData
    <3>6. ASSUME \/ \E c \in CtlConn : CtlConnect(c)
                 \/ ctl \in CtlConn /\ CtlDisconnect
                 \/ \E c \in DashConn : DashConnect(c) \/ DashClose(c)
          PROVE  \E c \in Conn : client' = [client EXCEPT ![c] = "open"] \/ client' = [client EXCEPT ![c] = "closed"]
      BY <3>6, ConnParts DEF CtlConnect, CtlDisconnect, DashConnect, DashClose, Hangup
    <3> QED BY <1>2, <3>1, <3>2, <3>4, <3>5, <3>6, StepCases
  <2>2. \/ UNCHANGED <<ctl, peers>>
        \/ ctl \in CtlConn /\ ctl' = ctl
        \/ ctl' \in CtlConn
        \/ ctl' = NoConn /\ peers' = [p \in PeerId |-> NoPeer]
    BY <1>2, StepCases DEF RelayStep, RelayJoin, RelayRead, RelayForward, RelayEnd,
      RelayCleanup, CtlConnect, CtlDisconnect, CtlIgnore, CtlPeerJoin, CtlPeerLeave,
      CtlUnknown, CtlMsg1, CtlMsg3, CtlBadHandshake, CtlData, CtlFanout, DashConnect, DashClose,
      DashInput, DashIgnore, DashPeerJoin, DashPeerLeave, DashMsg2, DashThrow, DashData, ctlVars
  <2>3. client' \in [Conn -> {"new", "open", "closed"}]
    BY <1>0, <2>1
  <2>4. ctl' \in CtlConn \cup {NoConn} /\ (ctl' = NoConn => \A p \in PeerId : peers'[p] = NoPeer)
    BY <1>0, <2>2, ConnParts
  <2> QED BY <2>3, <2>4
<1> QED BY <1>1, <1>2

LEMMA StepTyped ==
  ASSUME SessionInv, [Next]_vars
  PROVE  TypeOK'
<1>1. wire' \in [Conn -> Seq([to : Name, data : Frame])]
  <2>1. wire' = [a \in Conn |-> wire'[a]]
    <3>0. wire = [a \in Conn |-> wire[a]]
      BY DEF SessionInv, TypeOK
    <3>1. wire' = wire \/ \E c \in Conn : \E s : wire' = [wire EXCEPT ![c] = s]
      <4>1. CASE UNCHANGED vars
        BY <4>1 DEF vars, clientVars
      <4>2. CASE Next
        <5> DEFINE Wired == wire' = wire \/ \E c \in Conn : \E s : wire' = [wire EXCEPT ![c] = s]
        <5>1. ASSUME NEW c \in Conn, NEW msgs, Say(c, msgs) PROVE Wired
          BY <5>1 DEF Say
        <5>2. ASSUME NEW c \in Conn, RelayStep(c) PROVE Wired
          BY <5>2 DEF RelayStep, RelayJoin, RelayRead, RelayForward, RelayEnd, RelayCleanup, clientVars
        <5>3. ASSUME NEW c \in Conn, CtlConnect(c) \/ DashConnect(c) \/ DashClose(c) \/ CtlDisconnect
              PROVE  Wired
          BY <5>3 DEF CtlConnect, DashConnect, DashClose, CtlDisconnect, Hangup
        <5>4. ASSUME CtlIgnore \/ \E p \in PeerId : CtlPeerJoin(p) \/ CtlPeerLeave(p) PROVE Wired
          BY <5>4 DEF CtlIgnore, CtlPeerJoin, CtlPeerLeave
        <5>5. ASSUME ctl \in CtlConn, NEW p \in PeerId, NEW d \in Frame,
                     \/ CtlUnknown(p, d) \/ CtlMsg1(p, d) \/ CtlMsg3(p, d)
                     \/ CtlBadHandshake(p, d) \/ CtlData(p, d)
              PROVE  Wired
          <6> HIDE DEF Wired
          <6>0. ctl \in Conn /\ (UNCHANGED wire => Wired)
            BY <5>5, ConnParts DEF Wired
          <6>1. CASE CtlUnknown(p, d) \/ CtlBadHandshake(p, d) \/ CtlData(p, d)
            BY <6>0, <6>1 DEF CtlUnknown, CtlBadHandshake, CtlData
          <6>2. CASE CtlMsg1(p, d)
            BY <5>1, <6>0, <6>2 DEF CtlMsg1
          <6>3. CASE CtlMsg3(p, d)
            BY <5>1, <6>0, <6>3 DEF CtlMsg3
          <6> QED BY <5>5, <6>1, <6>2, <6>3
        <5>6. ASSUME ctl \in CtlConn, CtlFanout PROVE Wired
          <6> HIDE DEF Wired
          <6> QED BY <5>1, <5>6, ConnParts DEF CtlFanout
        <5>7. ASSUME NEW c \in DashConn, DashInput(c) \/ DashIgnore(c) \/ DashPeerJoin(c) \/ DashPeerLeave(c)
              PROVE  Wired
          <6> HIDE DEF Wired
          <6>0. c \in Conn /\ (UNCHANGED wire => Wired)
            BY ConnParts DEF Wired
          <6>1. CASE DashInput(c)
            BY <5>1, <6>0, <6>1 DEF DashInput
          <6>2. CASE DashPeerJoin(c)
            BY <5>1, <6>0, <6>2 DEF DashPeerJoin
          <6>3. CASE DashIgnore(c) \/ DashPeerLeave(c)
            BY <6>0, <6>3 DEF DashIgnore, DashPeerLeave
          <6> QED BY <5>7, <6>1, <6>2, <6>3
        <5>8. ASSUME NEW c \in DashConn, NEW d \in Frame, DashMsg2(c, d) \/ DashThrow(c, d) \/ DashData(c, d)
              PROVE  Wired
          <6> HIDE DEF Wired
          <6>0. c \in Conn /\ (UNCHANGED wire => Wired)
            BY ConnParts DEF Wired
          <6>1. CASE DashMsg2(c, d)
            BY <5>1, <6>0, <6>1 DEF DashMsg2
          <6>2. CASE DashThrow(c, d) \/ DashData(c, d)
            BY <6>0, <6>2 DEF DashThrow, DashData
          <6> QED BY <5>8, <6>1, <6>2
        <5>9. Wired
          <6> HIDE DEF Wired
          <6> QED BY <4>2, <5>2, <5>3, <5>4, <5>5, <5>6, <5>7, <5>8, StepCases, ConnParts
        <5> QED BY <5>9
      <4> QED BY <4>1, <4>2
    <3> QED BY <3>0, <3>1
  <2>2. ASSUME NEW a \in Conn PROVE wire'[a] \in Seq([to : Name, data : Frame])
    <3> PICK S : S = Outgoing(a)'
      OBVIOUS
    <3>1. S \subseteq [to : Name, data : Frame]
      BY DEF Outgoing
    <3>2. wire'[a] \in Seq(S)
      BY WireStaysSound DEF WireSound
    <3> QED BY <3>1, <3>2, SeqMonotonic
  <2> QED BY <2>1, <2>2
<1>2. peers' \in [PeerId -> PeerState] /\ dash' \in [DashConn -> DashState]
  BY PeerMoves, DashTyped
<1> QED BY <1>1, <1>2, ClientTyped DEF TypeOK, PeerState, AnsweredPeer, ReadyPeer, DashState

\* Connections join as what they are.
LEMMA IdentifiedStays ==
  ASSUME SessionInv, [Next]_vars
  PROVE  Identified'
<1>0. RegistryTyped
  BY DEF SessionInv, RelayTyped
<1>1. ASSUME ident' = ident, \A a \in Conn : HasJoined(a)' => HasJoined(a)
      PROVE  Identified'
  BY <1>1 DEF Identified, Identity, SessionInv
<1>2. ASSUME UNCHANGED <<phase, ident>> PROVE Identified'
  BY <1>1, <1>2 DEF HasJoined
<1>3. ASSUME NEW c \in Conn, RelayJoin(c) PROVE Identified'
  <2>1. CASE phase' = [phase EXCEPT ![c] = "refused"] /\ ident' = ident
    BY <1>0, <1>1, <2>1 DEF HasJoined, RegistryTyped, HandlersOK
  <2>2. CASE ident' = [ident EXCEPT ![c] = Identity(c)] /\ phase' = [phase EXCEPT ![c] = "routing"]
    BY <1>0, <2>2 DEF Identified, Identity, SessionInv, HasJoined, RegistryTyped, HandlersOK
  <2>3. \/ phase' = [phase EXCEPT ![c] = "refused"] /\ ident' = ident
        \/ ident' = [ident EXCEPT ![c] = Identity(c)] /\ phase' = [phase EXCEPT ![c] = "routing"]
    BY <1>3 DEF RelayJoin, JoinController, JoinDashboard, Refuse, Identity
  <2> QED BY <2>1, <2>2, <2>3
<1>4. ASSUME NEW c \in Conn, RelayEnd(c) \/ RelayCleanup(c) PROVE Identified'
  <2>1. \/ phase[c] = "routing" /\ phase' = [phase EXCEPT ![c] = "leaving"] /\ ident' = ident
        \/ phase[c] = "leaving" /\ phase' = [phase EXCEPT ![c] = "gone"] /\ ident' = ident
    BY <1>4 DEF RelayEnd, RelayCleanup, StreamEnd, Cleanup
  <2> QED BY <1>0, <1>1, <2>1 DEF HasJoined, RegistryTyped, HandlersOK
<1>5. ASSUME NEW c \in Conn, RelayStep(c) PROVE Identified'
  BY <1>2, <1>3, <1>4, <1>5 DEF RelayStep, RelayRead, RelayForward, RouteLookup, RouteSend
<1>6. CASE UNCHANGED vars
  BY <1>2, <1>6 DEF vars, relayVars
<1>7. CASE Next
  <2>1. ASSUME NEW c, NEW env, Take(c, env) PROVE UNCHANGED <<phase, ident>>
    BY <2>1 DEF Take, handlers
  <2>2. ASSUME UNCHANGED relayVars PROVE UNCHANGED <<phase, ident>>
    BY <2>2 DEF relayVars
  <2>3. \/ \E c \in Conn : RelayStep(c)
        \/ UNCHANGED relayVars
        \/ \E c \in Conn : \E env : Take(c, env)
    BY <1>7, StepCases, ConnParts DEF CtlConnect, CtlDisconnect, CtlIgnore, CtlPeerJoin, CtlPeerLeave,
      CtlUnknown, CtlMsg1, CtlMsg3, CtlBadHandshake, CtlData, CtlFanout, DashConnect, DashClose,
      DashInput, DashIgnore, DashPeerJoin, DashPeerLeave, DashMsg2, DashThrow, DashData, Hangup
  <2> QED BY <1>2, <1>5, <2>1, <2>2, <2>3
<1> QED BY <1>6, <1>7

\* A dashboard that is done is up, and with a controller connection.
LEMMA DoneStaysUp ==
  ASSUME SessionInv, [Next]_vars
  PROVE  DoneIsUp'
<1>1. ASSUME NEW c \in DashConn, NEW d \in Frame, DashMsg2(c, d)
      PROVE  dash'[c].k \in CtlConn
  <2>1. d.k \in CtlConn /\ dash'[c].k = d.k
    BY <1>1, FrameFields DEF DashMsg2, IsMsg2Of, SessionInv, TypeOK
  <2> QED BY <2>1
<1>2. ASSUME NEW c \in DashConn, dash'[c].st = "done", dash[c].st = "m1"
      PROVE  dash'[c].k \in CtlConn
  <2>0. dash \in [DashConn -> DashState] /\ dash' # dash
    BY <1>2 DEF SessionInv, TypeOK, DashState
  <2>1. Next
    BY <1>2, <2>0 DEF vars, dashVars
  <2>2. PICK e \in DashConn : \/ DashInput(e) \/ DashPeerJoin(e) \/ DashPeerLeave(e)
          \/ \E d \in Frame : DashMsg2(e, d) \/ DashThrow(e, d) \/ DashData(e, d)
    BY <2>0, <2>1, StepCases DEF RelayStep, RelayJoin, RelayRead, RelayForward, RelayEnd, RelayCleanup,
      CtlConnect, CtlDisconnect, CtlIgnore, CtlPeerJoin, CtlPeerLeave, CtlUnknown, CtlMsg1, CtlMsg3,
      CtlBadHandshake, CtlData, CtlFanout, DashConnect, DashClose, DashIgnore, dashVars
  <2>3. ASSUME \/ DashInput(e) \/ DashPeerJoin(e) \/ DashPeerLeave(e)
               \/ \E d \in Frame : DashThrow(e, d) \/ DashData(e, d)
        PROVE  FALSE
    BY <1>2, <2>0, <2>3 DEF DashInput, DashPeerJoin, DashPeerLeave, DashThrow, DashData, DashState, NoDash
  <2>4. PICK d \in Frame : DashMsg2(e, d)
    BY <2>2, <2>3
  <2>5. e = c
    BY <1>2, <2>0, <2>4 DEF DashMsg2
  <2> QED BY <1>1, <2>4, <2>5
<1> SUFFICES ASSUME NEW c \in DashConn
             PROVE  /\ dash'[c].st = "done" => dash'[c].up /\ dash'[c].k \in CtlConn
                    /\ dash'[c].st # "none" => 1 <= dash'[c].n
  BY DEF DoneIsUp
<1>3. DashMove(c)
  BY DashMoves
<1>4. dash[c].n \in Nat
  BY DEF SessionInv, TypeOK
<1> QED BY <1>2, <1>3, <1>4 DEF DashMove, SessionInv, DoneIsUp

\* The controller's peers stay what the dashboards made them.
LEMMA PeersStay ==
  ASSUME SessionInv, [Next]_vars
  PROVE  PeersNamed' /\ ReadyIsAuthentic'
<1>1. ASSUME NEW p \in PeerId, peers'[p].st \in {"answered", "ready"}
      PROVE  /\ DashName[peers'[p].c] = p /\ 1 <= peers'[p].n /\ peers'[p].n <= dash'[peers'[p].c].n
             /\ peers'[p].st = "ready" =>
                  /\ peers'[p].key \in table' /\ peers'[p].key = DashKey[peers'[p].c]
                  /\ dash'[peers'[p].c].n = peers'[p].n /\ dash'[peers'[p].c].st # "none" =>
                       dash'[peers'[p].c].st = "done" /\ dash'[peers'[p].c].k = ctl'
  <2>0. peers[p] \in PeerState /\ dash \in [DashConn -> DashState]
    BY DEF SessionInv, TypeOK, PeerState, AnsweredPeer, ReadyPeer, DashState
  <2>1. SamePeer(p) \/ PeerAnswered(p) \/ PeerAdmitted(p)
    BY <1>1, PeerMoves DEF PeerMove
  <2>2. CASE SamePeer(p)
    <3> PICK c, n : c = peers[p].c /\ n = peers[p].n
      OBVIOUS
    <3>1. /\ c \in DashConn /\ n \in Nat /\ peers'[p].c = c /\ peers'[p].n = n
          /\ peers[p].st \in {"answered", "ready"}
      BY <1>1, <2>0, <2>2, PeerFields DEF SamePeer
    <3>2. DashMove(c) /\ dash[c].n \in Nat /\ DashName[c] = p /\ 1 <= n /\ n <= dash[c].n
      BY <2>0, <3>1, DashMoves DEF SessionInv, PeersNamed, DashState
    <3>3. n <= dash'[c].n
      BY <3>1, <3>2 DEF DashMove
    <3>4. CASE peers'[p].st = "ready"
      <4>1. /\ peers[p].st = "ready" /\ peers'[p].key = peers[p].key /\ table \subseteq table' /\ ctl' = ctl
        BY <2>2, <3>4 DEF SamePeer
      <4>2. /\ peers[p].key \in table /\ peers[p].key = DashKey[c]
            /\ dash[c].n = n /\ dash[c].st # "none" => dash[c].st = "done" /\ dash[c].k = ctl
        BY <4>1 DEF SessionInv, ReadyIsAuthentic
      <4>3. dash'[c].n = n /\ dash'[c].st # "none" => dash'[c].st = "done" /\ dash'[c].k = ctl
        BY <3>1, <3>2, <4>2 DEF DashMove
      <4> QED BY <3>1, <3>2, <3>3, <4>1, <4>2, <4>3
    <3>5. CASE peers'[p].st # "ready"
      BY <3>1, <3>2, <3>3, <3>5
    <3> QED BY <3>4, <3>5
  <2>3. CASE PeerAnswered(p)
    <3>1. PICK d \in Frame : Sound(d) /\ DashName[d.c] = p /\ peers'[p] = Answered(d.c, d.n)
      BY <2>3 DEF PeerAnswered
    <3>2. 1 <= d.n /\ d.n <= dash'[d.c].n
      BY <3>1, SoundStable DEF Sound
    <3> QED BY <3>1, <3>2 DEF Answered
  <2>4. CASE PeerAdmitted(p)
    <3>1. PICK d \in Frame :
            /\ Sound(d) /\ d.t = "m3" /\ d.c = peers[p].c /\ d.n = peers[p].n /\ d.k = ctl
            /\ d.key \in table' /\ peers'[p] = Ready(d.c, d.n, d.key, 1, 0)
      BY <2>4 DEF PeerAdmitted
    <3>2. Sound(d)' /\ FromDash(d)
      BY <3>1, SoundStable DEF FromDash
    <3>3. ctl' = ctl /\ DashName[d.c] = p
      BY <2>4, <3>1 DEF PeerAdmitted, SessionInv, PeersNamed
    <3>4. /\ 1 <= d.n /\ d.n <= dash'[d.c].n /\ d.key = DashKey[d.c]
          /\ dash'[d.c].n = d.n /\ dash'[d.c].st # "none" => dash'[d.c].st = "done" /\ dash'[d.c].k = d.k
      BY <3>1, <3>2 DEF Sound, Current, FromDash
    <3> QED BY <3>1, <3>3, <3>4 DEF Ready
  <2> QED BY <2>1, <2>2, <2>3, <2>4
<1> QED BY <1>1 DEF PeersNamed, ReadyIsAuthentic

LEMMA InitSessionInv == Init => SessionInv
<1> SUFFICES ASSUME Init PROVE SessionInv
  OBVIOUS
<1>1. TypeOK
  BY DEF Init, TypeOK, NoDash, NoPeer
<1>2. RelayTyped(Envelopes)
  <2> PICK E : E = Envelopes
    OBVIOUS
  <2>1. RelayTyped(E)
    BY InitType DEF Init, Envelopes
  <2> QED BY <2>1 DEF RelayTyped, HeldOK, QueuesOK, Packages
<1>3. WireSound
  BY DEF Init, WireSound
<1>4. Identified /\ DoneIsUp /\ PeersNamed /\ ReadyIsAuthentic
  BY DEF Init, RelayInit, Identified, HasJoined, DoneIsUp, PeersNamed, ReadyIsAuthentic, NoDash, NoPeer
<1> QED BY <1>1, <1>2, <1>3, <1>4 DEF SessionInv

LEMMA StepSessionInv == SessionInv /\ [Next]_vars => SessionInv'
BY StepTyped, RelayStaysSound, WireStaysSound, IdentifiedStays, DoneStaysUp, PeersStay DEF SessionInv

\* The state of the controller, the dashboards, and everything on the way between
\* them is always well typed, and the controller has peers only while connected.
THEOREM SessionTypeCorrect == Spec => []TypeOK
<1>1. SessionInv => TypeOK
  BY DEF SessionInv
<1> QED BY <1>1, InitSessionInv, StepSessionInv, PTL DEF Spec

\* Whatever the relay drops, delays or delivers from earlier connections, and
\* whoever shares a name: a peer the controller considers ready is with a
\* dashboard that has the authorized key, joined under that name and finished
\* this very handshake with this very connection of the controller.
THEOREM ReadyAuthentic == Spec => []ReadyIsAuthentic
<1>1. SessionInv => ReadyIsAuthentic
  BY DEF SessionInv
<1> QED BY <1>1, InitSessionInv, StepSessionInv, PTL DEF Spec

-----------------------------------------------------------------------------
(* Elements of a set in a sequence.                                        *)

\* Taking the head removes it, and adds nothing.
LEMMA TailHas ==
  ASSUME NEW S, NEW s \in Seq(S), s # <<>>, NEW M
  PROVE  /\ Has(Tail(s), M) => Has(s, M)
         /\ Once(s, M) => Once(Tail(s), M)
         /\ Head(s) \in M => Has(s, M) /\ (Once(s, M) => ~Has(Tail(s), M))
<1>1. /\ Len(s) \in Nat \ {0} /\ Len(Tail(s)) = Len(s) - 1 /\ Tail(s) \in Seq(S) /\ Head(s) = s[1]
      /\ \A i \in 1..Len(Tail(s)) : Tail(s)[i] = s[i+1]
  BY HeadTailProperties, EmptySeq, LenProperties
<1>2. DOMAIN s = 1..Len(s) /\ DOMAIN Tail(s) = 1..(Len(s) - 1)
  BY <1>1, LenProperties
<1>3. \A i \in DOMAIN Tail(s) : i + 1 \in DOMAIN s /\ Tail(s)[i] = s[i+1] /\ i + 1 # 1 /\ i \in Nat
  BY <1>1, <1>2
<1>4. 1 \in DOMAIN s
  BY <1>1, <1>2
<1>5. \A i, j \in DOMAIN Tail(s) : i + 1 = j + 1 => i = j
  BY <1>3
<1> QED BY <1>1, <1>3, <1>4, <1>5 DEF Has, Once

\* What a concatenation has, one of its parts has.
LEMMA ConcatHas ==
  ASSUME NEW S, NEW s \in Seq(S), NEW t \in Seq(S), NEW M
  PROVE  /\ Has(s \o t, M) <=> Has(s, M) \/ Has(t, M)
         /\ Once(s, M) /\ Once(t, M) /\ ~(Has(s, M) /\ Has(t, M)) => Once(s \o t, M)
<1>1. /\ Len(s) \in Nat /\ Len(t) \in Nat /\ Len(s \o t) = Len(s) + Len(t)
      /\ DOMAIN s = 1..Len(s) /\ DOMAIN t = 1..Len(t) /\ DOMAIN (s \o t) = 1..(Len(s) + Len(t))
      /\ \A i \in 1..(Len(s) + Len(t)) : (s \o t)[i] = IF i <= Len(s) THEN s[i] ELSE t[i - Len(s)]
  BY ConcatProperties, LenProperties
<1> PICK m, n : m = Len(s) /\ n = Len(t)
  OBVIOUS
<1> PICK w : w = s \o t
  OBVIOUS
<1>2. /\ m \in Nat /\ n \in Nat /\ DOMAIN s = 1..m /\ DOMAIN t = 1..n /\ DOMAIN w = 1..(m + n)
      /\ \A i \in 1..(m + n) : w[i] = IF i <= m THEN s[i] ELSE t[i - m]
  BY <1>1
<1>3. \A i \in 1..m : i \in 1..(m + n) /\ w[i] = s[i]
  BY <1>2
<1>4. \A i \in 1..n : i + m \in 1..(m + n) /\ w[i + m] = t[i]
  <2> TAKE i \in 1..n
  <2>1. i + m \in 1..(m + n) /\ ~(i + m <= m) /\ (i + m) - m = i
    BY <1>2
  <2> QED BY <1>2, <2>1
<1>5. \A i \in 1..(m + n) : \/ i \in 1..m /\ w[i] = s[i]
                            \/ i \notin 1..m /\ \E x \in 1..n : x = i - m /\ w[i] = t[x]
  <2> TAKE i \in 1..(m + n)
  <2>1. CASE i <= m
    BY <1>2, <2>1
  <2>2. CASE ~(i <= m)
    <3>1. i - m \in 1..n
      BY <1>2, <2>2
    <3> QED BY <1>2, <2>2, <3>1
  <2> QED BY <2>1, <2>2
<1>6. Has(w, M) <=> Has(s, M) \/ Has(t, M)
  <2>1. Has(s, M) \/ Has(t, M) => Has(w, M)
    BY <1>2, <1>3, <1>4 DEF Has
  <2>2. ASSUME Has(w, M) PROVE Has(s, M) \/ Has(t, M)
    <3>1. PICK i \in 1..(m + n) : w[i] \in M
      BY <1>2, <2>2 DEF Has
    <3>2. CASE i \in 1..m /\ w[i] = s[i]
      BY <1>2, <3>1, <3>2 DEF Has
    <3>3. CASE \E x \in 1..n : w[i] = t[x]
      BY <1>2, <3>1, <3>3 DEF Has
    <3> QED BY <1>5, <3>2, <3>3
  <2> QED BY <2>1, <2>2
<1>7. ASSUME Once(s, M), Once(t, M), ~(Has(s, M) /\ Has(t, M)) PROVE Once(w, M)
  <2> SUFFICES ASSUME NEW i \in 1..(m + n), NEW j \in 1..(m + n), w[i] \in M, w[j] \in M PROVE i = j
    BY <1>2 DEF Once
  <2>1. CASE i \in 1..m /\ j \in 1..m
    BY <1>2, <1>3, <1>7, <2>1 DEF Once
  <2>2. CASE i \notin 1..m /\ j \notin 1..m
    <3> PICK x, y : x = i - m /\ y = j - m
      OBVIOUS
    <3>1. x \in 1..n /\ y \in 1..n /\ t[x] \in M /\ t[y] \in M
      BY <1>5, <2>2
    <3>2. x = y
      BY <1>2, <1>7, <3>1 DEF Once
    <3>3. m \in Int /\ i \in Int /\ j \in Int
      BY <1>2
    <3> QED BY <3>2, <3>3
  <2>3. CASE (i \in 1..m /\ j \notin 1..m) \/ (i \notin 1..m /\ j \in 1..m)
    <3>1. ASSUME NEW x \in 1..(m + n), w[x] \in M
          PROVE  (x \in 1..m => Has(s, M)) /\ (x \notin 1..m => Has(t, M))
      <4>1. CASE x \in 1..m
        BY <1>2, <1>3, <3>1, <4>1 DEF Has
      <4>2. CASE x \notin 1..m
        <5>1. PICK y \in 1..n : w[x] = t[y]
          BY <1>5, <4>2
        <5> QED BY <1>2, <3>1, <4>2, <5>1 DEF Has
      <4> QED BY <4>1, <4>2
    <3>2. /\ (i \in 1..m => Has(s, M)) /\ (i \notin 1..m => Has(t, M))
          /\ (j \in 1..m => Has(s, M)) /\ (j \notin 1..m => Has(t, M))
      <4>1. i \in 1..(m + n) /\ j \in 1..(m + n) /\ w[i] \in M /\ w[j] \in M
        OBVIOUS
      <4> QED BY ONLY <3>1, <4>1
    <3> QED BY ONLY <1>7, <2>3, <3>2
  <2> QED BY <2>1, <2>2, <2>3
<1> QED BY <1>6, <1>7

\* A sequence of other things has nothing of M; one that is a single element at
\* most once.
LEMMA OtherHas ==
  ASSUME NEW S, NEW s \in Seq(S), NEW M, S \cap M = {}
  PROVE  ~Has(s, M) /\ Once(s, M)
<1>1. \A i \in DOMAIN s : s[i] \in S
  OBVIOUS
<1> QED BY <1>1 DEF Has, Once

LEMMA OneHas ==
  ASSUME NEW x, NEW M
  PROVE  /\ ~Has(<<>>, M) /\ Once(<<>>, M)
         /\ Once(<<x>>, M) /\ (Has(<<x>>, M) <=> x \in M)
BY DEF Has, Once

-----------------------------------------------------------------------------
(* Frames under way are moved, never copied.                               *)

Fewer(X) == \A a \in Conn :
  /\ OnWire(a, X)' => OnWire(a, X)
  /\ InHand(a, X)' => InHand(a, X)
  /\ InQueue(a, X)' => InQueue(a, X)
  /\ Once(wire[a], Sends(X)) => Once(wire'[a], Sends(X))
  /\ Once(queue[a], Carries(X)) => Once(queue'[a], Carries(X))

WireFewer(X)  == \A a \in Conn :
  /\ Has(wire'[a], Sends(X)) => Has(wire[a], Sends(X))
  /\ Once(wire[a], Sends(X)) => Once(wire'[a], Sends(X))
QueueFewer(X) == \A a \in Conn :
  /\ Has(queue'[a], Carries(X)) => Has(queue[a], Carries(X))
  /\ Once(queue[a], Carries(X)) => Once(queue'[a], Carries(X))

LEMMA FewerParts ==
  ASSUME NEW X, WireFewer(X), QueueFewer(X), \A a \in Conn : InHand(a, X)' => InHand(a, X)
  PROVE  Fewer(X)
BY DEF Fewer, WireFewer, QueueFewer, OnWire, InQueue

LEMMA FewerSingle ==
  ASSUME NEW X, Fewer(X)
  PROVE  (Single(X) => Single(X)') /\ (Gone(X) => Gone(X)')
BY DEF Fewer, Single, Gone

\* The sequences are sequences.
LEMMA Sequences ==
  ASSUME SessionInv, NEW a \in Conn
  PROVE  \E S : wire[a] \in Seq(S) /\ queue[a] \in Seq(S) /\ Notices \subseteq S /\ Genuine \subseteq S
<1> PICK S : S = [to : Name, data : Frame] \cup Envelopes
  OBVIOUS
<1> PICK E : E = Envelopes
  OBVIOUS
<1>1. wire[a] \in Seq([to : Name, data : Frame]) /\ queue[a] \in Seq(E)
  BY RelayTypedNow DEF SessionInv, TypeOK, RelayTyped, QueuesOK
<1>2. wire[a] \in Seq(S) /\ queue[a] \in Seq(S)
  <2>1. [to : Name, data : Frame] \subseteq S /\ E \subseteq S
    OBVIOUS
  <2> PICK P : P = [to : Name, data : Frame]
    OBVIOUS
  <2>2. wire[a] \in Seq(P) /\ P \subseteq S /\ E \subseteq S
    BY <1>1, <2>1
  <2>3. wire[a] \in Seq(S)
    BY ONLY <2>2, SeqMonotonic
  <2>4. queue[a] \in Seq(S)
    BY <1>1, <2>2, SeqMonotonic
  <2> QED BY <2>3, <2>4
<1>3. Notices \subseteq S /\ Genuine \subseteq S
  BY DEF Envelopes
<1> QED BY ONLY <1>2, <1>3

\* Notices carry no frame.
LEMMA NoticesEmpty == \A X : Notices \cap Carries(X) = {}
<1>1. \A e \in Notices : e.t # "deliver"
  BY DEF Notices, Joined, Error
<1>2. \A X : \A e \in Carries(X) : e.t = "deliver"
  BY DEF Carries
<1> QED BY <1>1, <1>2

LEMMA WireTakes ==
  ASSUME SessionInv, NEW X,
         \A a \in Conn : \/ wire'[a] = wire[a] \/ wire'[a] = <<>>
                         \/ wire[a] # <<>> /\ wire'[a] = Tail(wire[a])
  PROVE  WireFewer(X)
<1> SUFFICES ASSUME NEW a \in Conn
             PROVE  /\ Has(wire'[a], Sends(X)) => Has(wire[a], Sends(X))
                    /\ Once(wire[a], Sends(X)) => Once(wire'[a], Sends(X))
  BY DEF WireFewer
<1>1. PICK S : wire[a] \in Seq(S)
  BY Sequences
<1>2. CASE wire'[a] = wire[a]
  BY <1>2
<1>3. CASE wire'[a] = <<>>
  BY <1>3, OneHas
<1>4. CASE wire[a] # <<>> /\ wire'[a] = Tail(wire[a])
  BY <1>1, <1>4, TailHas
<1> QED BY <1>2, <1>3, <1>4

LEMMA WireSays ==
  ASSUME SessionInv, NEW X, NEW c \in Conn, NEW msgs, Say(c, msgs),
         msgs \in Seq([to : Name, data : Frame]), ~Has(msgs, Sends(X))
  PROVE  WireFewer(X)
<1> SUFFICES ASSUME NEW a \in Conn
             PROVE  /\ Has(wire'[a], Sends(X)) => Has(wire[a], Sends(X))
                    /\ Once(wire[a], Sends(X)) => Once(wire'[a], Sends(X))
  BY DEF WireFewer
<1> PICK T : T = [to : Name, data : Frame]
  OBVIOUS
<1>1. wire \in [Conn -> Seq(T)] /\ msgs \in Seq(T)
  BY DEF SessionInv, TypeOK
<1>2. wire'[a] = IF a = c THEN wire[a] \o msgs ELSE wire[a]
  BY <1>1 DEF Say
<1>3. Once(msgs, Sends(X))
  BY DEF Once, Has
<1>4. CASE a = c
  <2>1. wire'[a] = wire[a] \o msgs /\ wire[a] \in Seq(T)
    BY <1>1, <1>2, <1>4
  <2>2. Has(wire[a] \o msgs, Sends(X)) <=> Has(wire[a], Sends(X)) \/ Has(msgs, Sends(X))
    BY <1>1, <2>1, ConcatHas
  <2>3. Once(wire[a], Sends(X)) => Once(wire[a] \o msgs, Sends(X))
    BY <1>1, <1>3, <2>1, ConcatHas
  <2> QED BY <2>1, <2>2, <2>3
<1>5. CASE a # c
  BY <1>2, <1>5
<1> QED BY <1>4, <1>5

\* Queues that lose their head, are dropped, or get notices.
LEMMA QueueTakes ==
  ASSUME SessionInv, NEW X,
         \A a \in Conn : \/ queue'[a] = <<>>
                         \/ queue[a] # <<>> /\ queue'[a] = Tail(queue[a])
                         \/ queue'[a] = queue[a]
                         \/ \E t \in Seq(Notices) : queue'[a] = queue[a] \o t
  PROVE  QueueFewer(X)
<1> SUFFICES ASSUME NEW a \in Conn
             PROVE  /\ Has(queue'[a], Carries(X)) => Has(queue[a], Carries(X))
                    /\ Once(queue[a], Carries(X)) => Once(queue'[a], Carries(X))
  BY DEF QueueFewer
<1>1. PICK S : queue[a] \in Seq(S) /\ Notices \subseteq S
  BY Sequences
<1>2. CASE queue'[a] = queue[a]
  BY <1>2
<1>3. CASE queue'[a] = <<>>
  BY <1>3, OneHas
<1>4. CASE queue[a] # <<>> /\ queue'[a] = Tail(queue[a])
  BY <1>1, <1>4, TailHas
<1>5. CASE \E t \in Seq(Notices) : queue'[a] = queue[a] \o t
  <2>1. PICK t \in Seq(Notices) : queue'[a] = queue[a] \o t
    BY <1>5
  <2>2. t \in Seq(S)
    BY <1>1, SeqMonotonic
  <2>3. ~Has(t, Carries(X)) /\ Once(t, Carries(X))
    BY NoticesEmpty, OtherHas
  <2> QED BY <1>1, <2>1, <2>2, <2>3, ConcatHas
<1> QED BY <1>2, <1>3, <1>4, <1>5

\* The notices of the relay's steps go to the ends of queues.
LEMMA NoticeMail ==
  ASSUME SessionInv, NEW mail \in [Conn -> Seq(Notices)], Send(mail), NEW a \in Conn
  PROVE  \E t \in Seq(Notices) : queue'[a] = queue[a] \o t
<1> PICK E : E = Envelopes
  OBVIOUS
<1>1. Accepted(a, mail[a]) \in Seq(Notices)
  BY RelayTypedNow, AcceptedPrefix
<1> QED BY <1>1 DEF Send

LEMMA JoinNotices ==
  ASSUME SessionInv, NEW c \in Conn, RelayJoin(c), NEW a \in Conn
  PROVE  \E t \in Seq(Notices) : queue'[a] = queue[a] \o t
<1>0. Joined \in Notices /\ Error \in Notices /\ \A p \in Name : PeerJoin(p) \in Notices
  BY NoticeTypes
<1>1. CASE Refuse(c)
  <2> PICK mail : mail = MailTo(c, <<Error>>)
    OBVIOUS
  <2>1. mail \in [Conn -> Seq(Notices)]
    <3>1. <<Error>> \in Seq(Notices)
      BY <1>0
    <3> QED BY <3>1, MailToType
  <2>2. Send(mail)
    BY <1>1 DEF Refuse
  <2> QED BY <2>1, <2>2, NoticeMail
<1>2. CASE c \in CtlConn /\ ~Refuse(c)
  <2>1. PICK order \in SetToSeqs(Present(TheRoom)) :
          Send([d \in Conn |->
                  IF d = c THEN Greeting(order)
                  ELSE IF d \in DashboardConn(TheRoom) THEN <<PeerJoin(Controller)>>
                  ELSE <<>>])
    BY <1>2 DEF RelayJoin, JoinController
  <2> DEFINE mail == [d \in Conn |->
                  IF d = c THEN Greeting(order)
                  ELSE IF d \in DashboardConn(TheRoom) THEN <<PeerJoin(Controller)>>
                  ELSE <<>>]
  <2>2. Greeting(order) \in Seq(Notices)
    BY RoomGiven, WalkType
  <2>3. <<PeerJoin(Controller)>> \in Seq(Notices) /\ <<>> \in Seq(Notices)
    BY <1>0 DEF Name
  <2>4. mail \in [Conn -> Seq(Notices)]
    BY <2>2, <2>3
  <2>5. Send(mail)
    BY <2>1
  <2> HIDE DEF mail
  <2> QED BY <2>4, <2>5, NoticeMail
<1>3. CASE c \notin CtlConn
  <2> DEFINE mail == [d \in Conn |->
             IF d = c THEN Greeting(IF controller[TheRoom] = NoConn THEN <<>> ELSE <<Controller>>)
             ELSE IF d = controller[TheRoom] THEN <<PeerJoin(DashName[c])>>
             ELSE <<>>]
  <2>1. Send(mail) /\ DashName[c] \in Name
    BY <1>3, ConnParts DEF RelayJoin, JoinDashboard
  <2>2. <<>> \in [1..0 -> Name] /\ <<Controller>> \in [1..1 -> Name]
    BY DEF Name
  <2>3. Greeting(IF controller[TheRoom] = NoConn THEN <<>> ELSE <<Controller>>) \in Seq(Notices)
    BY <2>2, GreetingType
  <2>4. mail \in [Conn -> Seq(Notices)]
    BY <1>0, <2>1, <2>3
  <2> HIDE DEF mail
  <2> QED BY <2>1, <2>4, NoticeMail
<1> QED BY <1>1, <1>2, <1>3

LEMMA CleanupNotices ==
  ASSUME SessionInv, NEW c \in Conn, Cleanup(c), NEW a \in Conn
  PROVE  (a = c /\ queue'[a] = <<>>) \/ \E t \in Seq(Notices) : queue'[a] = queue[a] \o t
<1> PICK E : E = Envelopes
  OBVIOUS
<1>1. ident[c].id \in Name
  BY RelayTypedNow DEF RelayTyped, RegistryTyped, HandlersOK, Ident
<1>2. <<PeerLeave(ident[c].id)>> \in Seq(Notices)
  BY <1>1, NoticeTypes
<1>3. Accepted(a, <<PeerLeave(ident[c].id)>>) \in Seq(Notices)
  BY <1>2, RelayTypedNow, AcceptedPrefix
<1>4. <<>> \in Seq(Notices)
  OBVIOUS
<1>5. queue'[a] = IF a = c THEN <<>> ELSE queue[a] \o
        (IF a \in LeaveAudience(c) THEN Accepted(a, <<PeerLeave(ident[c].id)>>) ELSE <<>>)
  BY DEF Cleanup
<1> QED BY <1>3, <1>4, <1>5

\* The relay moves a frame from the wire to its hand and from its hand to a
\* queue, or drops it.
LEMMA ReadMoves ==
  ASSUME SessionInv, NEW X, NEW c \in Conn, RelayRead(c), Single(X)
  PROVE  Single(X)' /\ (Gone(X) => Gone(X)')
<1> PICK m : m = Head(wire[c])
  OBVIOUS
<1>1. /\ wire[c] # <<>> /\ wire' = [wire EXCEPT ![c] = Tail(@)] /\ queue' = queue
      /\ phase[c] = "routing" /\ RouteLookup(c, m.to, m.data)
  BY DEF RelayRead, RouteLookup, outgoing
<1>2. PICK x : pending' = [pending EXCEPT ![c] = x] /\ (x = <<>> \/ x[1].env = Deliver(ident[c].id, m.data))
  <2> DEFINE d == Lookup(ident[c].room, m.to)
  <2>1. pending' = [pending EXCEPT ![c] =
           IF d = NoConn THEN <<>> ELSE << [rcpt |-> d, env |-> Deliver(ident[c].id, m.data)] >>]
    BY <1>1 DEF RouteLookup
  <2> HIDE DEF d
  <2>2. CASE d = NoConn
    BY <2>1, <2>2
  <2>3. CASE d # NoConn
    <3> PICK y : y = [rcpt |-> d, env |-> Deliver(ident[c].id, m.data)]
      OBVIOUS
    <3>1. y.env = Deliver(ident[c].id, m.data) /\ pending' = [pending EXCEPT ![c] = <<y>>]
      BY <2>1, <2>3
    <3>2. <<y>>[1] = y
      OBVIOUS
    <3> QED BY <3>1, <3>2
  <2> QED BY <2>2, <2>3
<1>3. /\ pending \in [Conn -> Seq(Packages(Envelopes))] /\ wire \in [Conn -> Seq([to : Name, data : Frame])]
      /\ m.to \in Name /\ m.data \in Frame /\ Deliver(ident[c].id, m.data) \in Genuine
      /\ m \in [to : Name, data : Frame]
  BY <1>1, ReadGenuine DEF SessionInv, TypeOK, RelayTyped, HeldOK, Outgoing
<1>4. /\ m \in Sends(X) <=> m.data \in X
      /\ Deliver(ident[c].id, m.data) \in Carries(X) <=> m.data \in X
  <2>1. Deliver(ident[c].id, m.data).data = m.data
    BY DEF Deliver
  <2> QED BY <1>3, <2>1 DEF Sends, Carries, Genuine
<1>5. WireFewer(X)
  <2>1. \A a \in Conn : wire'[a] = wire[a] \/ (wire[a] # <<>> /\ wire'[a] = Tail(wire[a]))
    BY <1>1, <1>3
  <2> QED BY <2>1, WireTakes
<1>6. QueueFewer(X)
  BY <1>1 DEF QueueFewer
<1>7. \A a \in Conn : a # c => (InHand(a, X)' <=> InHand(a, X))
  BY <1>2, <1>3 DEF InHand
<1>8. InHand(c, X)' => m.data \in X
  <2>1. pending'[c] = x
    BY <1>2, <1>3
  <2> QED BY <1>2, <1>4, <2>1 DEF InHand
<1>9. CASE m.data \notin X
  BY <1>5, <1>6, <1>7, <1>8, <1>9, FewerParts, FewerSingle
<1>10. CASE m.data \in X
  <2>1. OnWire(c, X) /\ ~OnWire(c, X)'
    <3>1. Has(wire[c], Sends(X)) /\ (Once(wire[c], Sends(X)) => ~Has(Tail(wire[c]), Sends(X)))
      <4> PICK T : T = [to : Name, data : Frame]
        OBVIOUS
      <4>1. wire[c] \in Seq(T)
        BY <1>3
      <4> QED BY <1>1, <1>4, <1>10, <4>1, TailHas
    <3>2. wire'[c] = Tail(wire[c]) /\ Once(wire[c], Sends(X))
      BY <1>1, <1>3 DEF Single
    <3> QED BY <3>1, <3>2 DEF OnWire
  <2>2. \A a \in Conn : (a # c => ~OnWire(a, X)) /\ ~InHand(a, X) /\ ~InQueue(a, X)
    BY <2>1 DEF Single
  <2>3. \A a \in Conn : ~OnWire(a, X)' /\ ~InQueue(a, X)' /\ (InHand(a, X)' => a = c)
    BY <1>5, <1>6, <1>7, <2>1, <2>2 DEF WireFewer, QueueFewer, OnWire, InQueue
  <2>4. \A a \in Conn : Once(wire'[a], Sends(X)) /\ Once(queue'[a], Carries(X))
    BY <1>5, <1>6 DEF WireFewer, QueueFewer, Single
  <2>5. Single(X)'
    BY <2>3, <2>4 DEF Single
  <2> QED BY <2>1, <2>5 DEF Gone
<1> QED BY <1>9, <1>10

LEMMA ForwardMoves ==
  ASSUME SessionInv, NEW X, NEW c \in Conn, RelayForward(c), Single(X)
  PROVE  Single(X)' /\ (Gone(X) => Gone(X)')
<1> PICK E : E = Envelopes
  OBVIOUS
<1> PICK env, rcpt : env = pending[c][1].env /\ rcpt = pending[c][1].rcpt
  OBVIOUS
<1>0. RelayTyped(E)
  BY RelayTypedNow
<1>1. /\ pending[c] # <<>> /\ pending' = [pending EXCEPT ![c] = <<>>] /\ wire' = wire
      /\ Send(MailTo(rcpt, <<env>>))
  BY DEF RelayForward, RouteSend, clientVars
<1>2. pending \in [Conn -> Seq(Packages(E))] /\ queue \in [Conn -> Seq(E)]
  BY <1>0 DEF RelayTyped, HeldOK, QueuesOK
<1>3. env \in E
  <2>1. pending[c][1] \in Packages(E)
    BY <1>1, <1>2
  <2> QED BY <2>1 DEF Packages
<1>4. ASSUME NEW a \in Conn
      PROVE  queue'[a] = queue[a] \/ (a = rcpt /\ queue'[a] = queue[a] \o <<env>>)
  <2>1. queue'[a] = queue[a] \o Accepted(a, IF a = rcpt THEN <<env>> ELSE <<>>)
    BY <1>1 DEF Send, MailTo
  <2>2. queue[a] \o <<>> = queue[a]
    BY <1>2, ConcatEmptySeq
  <2>3. CASE a = rcpt
    <3>1. <<env>> \in Seq(E) /\ Len(<<env>>) = 1
      BY <1>3
    <3>2. Accepted(a, <<env>>) = <<>> \/ Accepted(a, <<env>>) = <<env>>
      BY <1>0, <3>1, AcceptedPrefix
    <3> QED BY <2>1, <2>2, <2>3, <3>2
  <2>4. CASE a # rcpt
    <3>1. Accepted(a, <<>>) = <<>>
      <4>1. <<>> \in Seq({}) /\ \A s \in Seq({}) : s = <<>>
        OBVIOUS
      <4> QED BY <1>0, <4>1, AcceptedPrefix
    <3> QED BY <2>1, <2>2, <2>4, <3>1
  <2> QED BY <2>3, <2>4
<1>5. WireFewer(X)
  BY <1>1 DEF WireFewer
<1>6. /\ \A a \in Conn : InHand(a, X)' => InHand(a, X)
      /\ ~InHand(c, X)'
  BY <1>1, <1>2 DEF InHand
<1>7. ASSUME NEW a \in Conn
      PROVE  /\ Has(queue'[a], Carries(X)) => Has(queue[a], Carries(X)) \/ (a = rcpt /\ env \in Carries(X))
             /\ Once(queue[a], Carries(X)) /\ ~(Has(queue[a], Carries(X)) /\ env \in Carries(X)) =>
                  Once(queue'[a], Carries(X))
  <2>1. CASE queue'[a] = queue[a]
    BY <2>1
  <2>2. CASE a = rcpt /\ queue'[a] = queue[a] \o <<env>>
    <3>1. queue[a] \in Seq(E) /\ <<env>> \in Seq(E)
      BY <1>2, <1>3
    <3>2. Once(<<env>>, Carries(X)) /\ (Has(<<env>>, Carries(X)) <=> env \in Carries(X))
      BY OneHas
    <3> PICK w : w = queue[a] \o <<env>>
      OBVIOUS
    <3>3. Has(w, Carries(X)) <=> Has(queue[a], Carries(X)) \/ env \in Carries(X)
      BY <3>1, <3>2, ConcatHas
    <3>4. Once(queue[a], Carries(X)) /\ ~(Has(queue[a], Carries(X)) /\ env \in Carries(X)) => Once(w, Carries(X))
      BY <3>1, <3>2, ConcatHas
    <3>5. queue'[a] = w /\ a = rcpt
      BY <2>2
    <3> QED BY <3>3, <3>4, <3>5
  <2> QED BY <1>4, <2>1, <2>2
<1>8. CASE env \notin Carries(X)
  <2>1. QueueFewer(X)
    BY <1>7, <1>8 DEF QueueFewer
  <2> QED BY <1>5, <1>6, <2>1, FewerParts, FewerSingle
<1>9. CASE env \in Carries(X)
  <2>1. InHand(c, X)
    BY <1>1, <1>9 DEF InHand
  <2>2. \A a \in Conn : ~OnWire(a, X) /\ (a # c => ~InHand(a, X)) /\ ~InQueue(a, X)
    BY <2>1 DEF Single
  <2>3. \A a \in Conn : ~OnWire(a, X)' /\ ~InHand(a, X)' /\ (InQueue(a, X)' => a = rcpt)
    BY <1>5, <1>6, <1>7, <2>2 DEF WireFewer, OnWire, InQueue
  <2>4. \A a \in Conn : Once(wire'[a], Sends(X)) /\ Once(queue'[a], Carries(X))
    BY <1>5, <1>7, <2>2 DEF WireFewer, Single, InQueue
  <2>5. Single(X)'
    BY <2>3, <2>4 DEF Single
  <2> QED BY <2>1, <2>5 DEF Gone
<1> QED BY <1>8, <1>9

LEMMA RelayMoves ==
  ASSUME SessionInv, NEW X, NEW c \in Conn, RelayStep(c), Single(X)
  PROVE  Single(X)' /\ (Gone(X) => Gone(X)')
<1>0. wire \in [Conn -> Seq([to : Name, data : Frame])]
  BY DEF SessionInv, TypeOK
<1>1. ASSUME pending' = pending, WireFewer(X), QueueFewer(X)
      PROVE  Single(X)' /\ (Gone(X) => Gone(X)')
  <2>1. \A a \in Conn : InHand(a, X)' => InHand(a, X)
    BY <1>1 DEF InHand
  <2> QED BY <1>1, <2>1, FewerParts, FewerSingle
<1>2. CASE RelayJoin(c)
  <2>1. pending' = pending /\ wire' = wire
    BY <1>2 DEF RelayJoin, JoinController, JoinDashboard, Refuse, clientVars
  <2>2. WireFewer(X)
    BY <2>1 DEF WireFewer
  <2>3. QueueFewer(X)
    BY <1>2, JoinNotices, QueueTakes
  <2> QED BY <1>1, <2>1, <2>2, <2>3
<1>3. CASE RelayEnd(c)
  <2>1. pending' = pending /\ queue' = queue /\ wire' = [wire EXCEPT ![c] = <<>>]
    BY <1>3 DEF RelayEnd, StreamEnd, outgoing
  <2>2. WireFewer(X)
    BY <1>0, <2>1, WireTakes
  <2>3. QueueFewer(X)
    BY <2>1 DEF QueueFewer
  <2> QED BY <1>1, <2>1, <2>2, <2>3
<1>4. CASE RelayCleanup(c)
  <2>1. pending' = pending /\ wire' = wire /\ Cleanup(c)
    BY <1>4 DEF RelayCleanup, Cleanup, clientVars
  <2>2. WireFewer(X)
    BY <2>1 DEF WireFewer
  <2>3. QueueFewer(X)
    BY <2>1, CleanupNotices, QueueTakes
  <2> QED BY <1>1, <2>1, <2>2, <2>3
<1> QED BY <1>2, <1>3, <1>4, ReadMoves, ForwardMoves DEF RelayStep

\* A client that takes a frame of X takes the only one.
LEMMA TakeMoves ==
  ASSUME SessionInv, NEW X, NEW c \in Conn, NEW env, Take(c, env)
  PROVE  /\ QueueFewer(X) /\ pending' = pending
         /\ env \in Carries(X) /\ Single(X) =>
              \A a \in Conn : ~OnWire(a, X) /\ ~InHand(a, X) /\ ~InQueue(a, X)'
         /\ env \in Carries(X) => ~Gone(X)
<1> PICK E : E = Envelopes
  OBVIOUS
<1>1. /\ queue[c] # <<>> /\ env = Head(queue[c]) /\ queue' = [queue EXCEPT ![c] = Tail(@)]
      /\ pending' = pending
  BY DEF Take, handlers
<1>2. queue \in [Conn -> Seq(E)]
  BY RelayTypedNow DEF RelayTyped, QueuesOK
<1>3. \A a \in Conn : queue'[a] = queue[a] \/ (queue[a] # <<>> /\ queue'[a] = Tail(queue[a]))
  BY <1>1, <1>2
<1>4. QueueFewer(X)
  BY <1>3, QueueTakes
<1>5. ASSUME env \in Carries(X)
      PROVE  InQueue(c, X) /\ (Once(queue[c], Carries(X)) => ~Has(Tail(queue[c]), Carries(X)))
  <2>1. queue[c] \in Seq(E)
    BY <1>2
  <2> QED BY <1>1, <1>5, <2>1, TailHas DEF InQueue
<1>6. ASSUME env \in Carries(X), Single(X)
      PROVE  \A a \in Conn : ~OnWire(a, X) /\ ~InHand(a, X) /\ ~InQueue(a, X)'
  <2>1. \A a \in Conn : ~OnWire(a, X) /\ ~InHand(a, X) /\ (a # c => ~InQueue(a, X))
    BY <1>5, <1>6 DEF Single
  <2>2. ~Has(queue'[c], Carries(X))
    <3>1. queue'[c] = Tail(queue[c])
      BY <1>1, <1>2
    <3> QED BY <1>5, <1>6, <3>1 DEF Single
  <2>3. \A a \in Conn : a # c => queue'[a] = queue[a]
    BY <1>1, <1>2
  <2> QED BY <2>1, <2>2, <2>3 DEF InQueue
<1> QED BY <1>1, <1>4, <1>5, <1>6 DEF Gone

-----------------------------------------------------------------------------
(* Handshakes are begun once and answered once.                            *)

\* The messages with frames that are not the first two of a handshake.
Late == {m \in [to : Name, data : Frame] : m.data.t \in {"m3", "data"}}

LEMMA LateSays ==
  ASSUME SessionInv, NEW b \in DashConn, NEW n \in Nat, NEW c \in Conn, NEW msgs \in Seq(Late), Say(c, msgs)
  PROVE  WireFewer(Opening(b, n))
<1> PICK X : X = Opening(b, n)
  OBVIOUS
<1>1. msgs \in Seq([to : Name, data : Frame])
  <2>1. Late \subseteq [to : Name, data : Frame]
    BY DEF Late
  <2> QED BY <2>1, SeqMonotonic
<1>2. Late \cap Sends(X) = {}
  BY DEF Late, Sends, Opening
<1> QED BY <1>1, <1>2, OtherHas, WireSays

LEMMA MsgLate ==
  ASSUME NEW to \in Name, NEW d \in Frame, d.t \in {"m3", "data"}
  PROVE  Msg(to, d) \in Late
BY DEF Msg, Late

LEMMA FanoutLate ==
  ASSUME SessionInv, ctl \in CtlConn, CtlFanout
  PROVE  \E msgs \in Seq(Late) : Say(ctl, msgs)
<1>1. PICK order \in SetToSeqs({p \in PeerId : peers[p].st = "ready"}) :
        Say(ctl, [i \in DOMAIN order |->
          LET p == order[i] IN Msg(p, Cipher(peers[p].c, peers[p].n, ctl, p, peers[p].tx, "out"))])
  BY DEF CtlFanout
<1> DEFINE msgs == [i \in DOMAIN order |->
          LET p == order[i] IN Msg(p, Cipher(peers[p].c, peers[p].n, ctl, p, peers[p].tx, "out"))]
<1> PICK R : R = {m \in Outgoing(ctl) : m.data.t = "data"}
  OBVIOUS
<1>2. msgs \in Seq(R) /\ Say(ctl, msgs)
  BY <1>1, FanoutType
<1>3. R \subseteq Late
  BY DEF Late, Outgoing
<1> HIDE DEF msgs
<1>4. msgs \in Seq(Late)
  BY <1>2, <1>3, SeqMonotonic
<1> QED BY <1>2, <1>4

\* No frame of a handshake that is still to begin is under way.
LEMMA FreshGone ==
  ASSUME SessionInv, NEW c \in DashConn, NEW n \in Nat, n > dash[c].n
  PROVE  Gone(Opening(c, n))
<1> PICK X : X = Opening(c, n)
  OBVIOUS
<1>0. dash[c].n \in Nat /\ \A d \in X : ~Sound(d)
  BY DEF SessionInv, TypeOK, Opening, Sound
<1> SUFFICES ASSUME NEW a \in Conn PROVE ~OnWire(a, X) /\ ~InHand(a, X) /\ ~InQueue(a, X)
  BY DEF Gone
<1>1. Outgoing(a) \cap Sends(X) = {}
  BY <1>0 DEF Outgoing, Sends
<1>2. Envelopes \cap Carries(X) = {}
  <2>1. Genuine \cap Carries(X) = {}
    BY <1>0 DEF Genuine, Carries
  <2> QED BY <2>1, NoticesEmpty DEF Envelopes
<1> PICK W, E : W = Outgoing(a) /\ E = Envelopes
  OBVIOUS
<1>3. wire[a] \in Seq(W) /\ queue[a] \in Seq(E) /\ pending[a] \in Seq(Packages(E))
  BY RelayTypedNow DEF SessionInv, WireSound, RelayTyped, QueuesOK, HeldOK
<1>4. ~OnWire(a, X)
  BY <1>1, <1>3, OtherHas DEF OnWire
<1>5. ~InQueue(a, X)
  BY <1>2, <1>3, OtherHas DEF InQueue
<1>6. ~InHand(a, X)
  <2>1. pending[a] # <<>> => pending[a][1] \in Packages(E)
    BY <1>3
  <2> QED BY <1>2, <2>1 DEF InHand, Packages
<1> QED BY <1>4, <1>5, <1>6

\* The controller's answer takes the place of the message 1 it read.
LEMMA AnswerMoves ==
  ASSUME SessionInv, NEW b \in DashConn, NEW n \in Nat, Single(Opening(b, n)), ctl \in CtlConn,
         NEW p \in PeerId, NEW d \in Frame, CtlMsg1(p, d)
  PROVE  Single(Opening(b, n))' /\ (Gone(Opening(b, n)) => Gone(Opening(b, n))')
<1> PICK X : X = Opening(b, n)
  OBVIOUS
<1> PICK k, x : k = ctl /\ x = Msg(p, Msg2(d.c, d.n, k))
  OBVIOUS
<1>0. d.c \in DashConn /\ d.n \in Nat /\ p \in Name /\ k \in CtlConn /\ k \in Conn
  BY FrameFields, ConnParts DEF Name
<1>1. /\ Take(k, Deliver(p, d)) /\ d.t = "m1" /\ Say(k, <<x>>)
  BY DEF CtlMsg1
<1>2. x \in [to : Name, data : Frame] /\ x.data = Msg2(d.c, d.n, k)
  BY <1>0, FrameTypes DEF Msg
<1>3. /\ x \in Sends(X) <=> d.c = b /\ d.n = n
      /\ Deliver(p, d) \in Carries(X) <=> d.c = b /\ d.n = n
  <2>1. Msg2(d.c, d.n, k).t = "m2" /\ Msg2(d.c, d.n, k).c = d.c /\ Msg2(d.c, d.n, k).n = d.n
    BY DEF Msg2
  <2>2. Msg2(d.c, d.n, k) \in Frame
    BY <1>0, FrameTypes
  <2>3. Msg2(d.c, d.n, k) \in X <=> d.c = b /\ d.n = n
    BY <2>1, <2>2 DEF Opening
  <2>4. d \in X <=> d.c = b /\ d.n = n
    BY <1>1 DEF Opening
  <2>5. Deliver(p, d) \in [t : {"deliver"}, from : Name, data : Frame] /\ Deliver(p, d).data = d
    BY <1>0 DEF Deliver
  <2> QED BY <1>2, <2>3, <2>4, <2>5 DEF Sends, Carries
<1>4. /\ QueueFewer(X) /\ pending' = pending
      /\ Deliver(p, d) \in Carries(X) =>
           \A a \in Conn : ~OnWire(a, X) /\ ~InHand(a, X) /\ ~InQueue(a, X)'
      /\ Deliver(p, d) \in Carries(X) => ~Gone(X)
  BY <1>0, <1>1, TakeMoves
<1>5. \A a \in Conn : InHand(a, X)' <=> InHand(a, X)
  BY <1>4 DEF InHand
<1>6. CASE ~(d.c = b /\ d.n = n)
  <2>1. ~Has(<<x>>, Sends(X))
    BY <1>3, <1>6, OneHas
  <2>2. <<x>> \in Seq([to : Name, data : Frame])
    BY <1>2
  <2>3. WireFewer(X)
    <3> PICK msgs : msgs = <<x>>
      OBVIOUS
    <3> QED BY <1>0, <1>1, <2>1, <2>2, WireSays
  <2> QED BY <1>4, <1>5, <2>3, FewerParts, FewerSingle
<1>7. CASE d.c = b /\ d.n = n
  <2>1. \A a \in Conn : ~OnWire(a, X) /\ ~InHand(a, X) /\ ~InQueue(a, X)'
    BY <1>3, <1>4, <1>7
  <2>2. wire \in [Conn -> Seq([to : Name, data : Frame])] /\ <<x>> \in Seq([to : Name, data : Frame])
    <3>1. <<x>> \in Seq([to : Name, data : Frame])
      BY <1>2
    <3> QED BY <3>1 DEF SessionInv, TypeOK
  <2>3. ASSUME NEW a \in Conn
        PROVE  (OnWire(a, X)' => a = k) /\ Once(wire'[a], Sends(X))
    <3>1. ~Has(wire[a], Sends(X)) /\ Once(wire[a], Sends(X)) /\ wire[a] \in Seq([to : Name, data : Frame])
      BY <2>1, <2>2 DEF OnWire, Single
    <3>2. wire'[a] = IF a = k THEN wire[a] \o <<x>> ELSE wire[a]
      BY <1>1, <2>2 DEF Say
    <3>3. CASE a # k
      BY <3>1, <3>2, <3>3 DEF OnWire
    <3>4. CASE a = k
      <4>1. Once(<<x>>, Sends(X))
        BY OneHas
      <4> PICK P : P = [to : Name, data : Frame]
        OBVIOUS
      <4>2. wire[a] \in Seq(P) /\ <<x>> \in Seq(P)
        BY <2>2
      <4>3. Once(wire[a] \o <<x>>, Sends(X))
        BY <3>1, <4>1, <4>2, ConcatHas
      <4> QED BY <3>2, <3>4, <4>3
    <3> QED BY <3>3, <3>4
  <2>4. \A a \in Conn : Once(queue'[a], Carries(X))
    BY <1>4 DEF QueueFewer, Single
  <2>5. Single(X)'
    BY <1>5, <2>1, <2>3, <2>4 DEF Single
  <2> QED BY <1>3, <1>4, <1>7, <2>5
<1> QED BY <1>6, <1>7

\* A dashboard begins a handshake with a message that is under way nowhere yet.
LEMMA BeginMoves ==
  ASSUME SessionInv, NEW b \in DashConn, NEW n \in Nat, Single(Opening(b, n)), NEW c \in DashConn, DashPeerJoin(c)
  PROVE  Single(Opening(b, n))' /\ (n <= dash[b].n /\ Gone(Opening(b, n)) => Gone(Opening(b, n))')
<1> PICK X : X = Opening(b, n)
  OBVIOUS
<1> PICK x, m : x = Msg(Controller, Msg1(c, m)) /\ m = dash[c].n + 1
  OBVIOUS
<1>0. /\ Controller \in Name /\ m \in Nat /\ dash[c].n \in Nat /\ dash[b].n \in Nat /\ c \in Conn
  BY ConnParts DEF SessionInv, TypeOK, Name
<1>1. Take(c, PeerJoin(Controller)) /\ Say(c, <<x>>)
  BY DEF DashPeerJoin
<1>2. QueueFewer(X) /\ pending' = pending
  BY <1>0, <1>1, TakeMoves
<1>3. \A a \in Conn : InHand(a, X)' <=> InHand(a, X)
  BY <1>2 DEF InHand
<1>4. x \in [to : Name, data : Frame] /\ x.data = Msg1(c, m)
  <2>1. Msg1(c, m) \in Frame
    BY <1>0 DEF Msg1, Frame
  <2> QED BY <1>0, <2>1 DEF Msg
<1>5. x \in Sends(X) => c = b /\ m = n
  BY <1>4 DEF Sends, Opening, Msg1
<1>6. CASE ~(c = b /\ m = n)
  <2>1. ~Has(<<x>>, Sends(X))
    BY <1>5, <1>6, OneHas
  <2>2. <<x>> \in Seq([to : Name, data : Frame])
    BY <1>4
  <2>3. WireFewer(X)
    <3> PICK msgs : msgs = <<x>>
      OBVIOUS
    <3> QED BY <1>0, <1>1, <2>1, <2>2, WireSays
  <2> QED BY <1>2, <1>3, <2>3, FewerParts, FewerSingle
<1>7. CASE c = b /\ m = n
  <2>1. Gone(X)
    BY <1>0, <1>7, FreshGone
  <2>2. wire \in [Conn -> Seq([to : Name, data : Frame])] /\ <<x>> \in Seq([to : Name, data : Frame])
    <3>1. <<x>> \in Seq([to : Name, data : Frame])
      BY <1>4
    <3> QED BY <3>1 DEF SessionInv, TypeOK
  <2>3. ASSUME NEW a \in Conn
        PROVE  (OnWire(a, X)' => a = c) /\ Once(wire'[a], Sends(X))
    <3>1. ~Has(wire[a], Sends(X)) /\ Once(wire[a], Sends(X)) /\ wire[a] \in Seq([to : Name, data : Frame])
      BY <2>1, <2>2 DEF OnWire, Single, Gone
    <3>2. wire'[a] = IF a = c THEN wire[a] \o <<x>> ELSE wire[a]
      BY <1>1, <2>2 DEF Say
    <3>3. CASE a # c
      BY <3>1, <3>2, <3>3 DEF OnWire
    <3>4. CASE a = c
      <4>1. Once(<<x>>, Sends(X))
        BY OneHas
      <4> PICK P : P = [to : Name, data : Frame]
        OBVIOUS
      <4>2. wire[a] \in Seq(P) /\ <<x>> \in Seq(P)
        BY <2>2
      <4>3. Once(wire[a] \o <<x>>, Sends(X))
        BY <3>1, <4>1, <4>2, ConcatHas
      <4> QED BY <3>2, <3>4, <4>3
    <3> QED BY <3>3, <3>4
  <2>4. \A a \in Conn : Once(queue'[a], Carries(X)) /\ ~InQueue(a, X)' /\ ~InHand(a, X)'
    BY <1>2, <1>3, <2>1 DEF QueueFewer, Single, Gone, InQueue
  <2>5. Single(X)'
    BY <2>3, <2>4 DEF Single
  <2>6. ~(n <= dash[b].n)
    BY <1>0, <1>7
  <2> QED BY <2>5, <2>6
<1> QED BY <1>6, <1>7

LEMMA TakenMoves ==
  ASSUME SessionInv, NEW X, NEW c \in Conn, NEW env, Take(c, env), WireFewer(X)
  PROVE  Fewer(X)
<1>1. QueueFewer(X) /\ pending' = pending
  BY TakeMoves
<1>2. \A a \in Conn : InHand(a, X)' => InHand(a, X)
  BY <1>1 DEF InHand
<1> QED BY <1>1, <1>2, FewerParts

LEMMA StillFewer ==
  ASSUME NEW X, UNCHANGED <<wire, queue, pending>>
  PROVE  Fewer(X)
BY DEF Fewer, OnWire, InHand, InQueue

LEMMA SameWireFewer ==
  ASSUME NEW X, wire' = wire
  PROVE  WireFewer(X)
BY DEF WireFewer

\* What a dashboard says once it has read message 2.
LEMMA DashSaysLate ==
  ASSUME SessionInv, NEW c \in DashConn, DashInput(c) \/ \E d \in Frame : DashMsg2(c, d)
  PROVE  \E msgs \in Seq(Late) : Say(c, msgs)
<1>0. dash[c].n \in Nat /\ dash[c].tx \in Nat /\ Controller \in Name /\ DashKey[c] \in {DashKey[x] : x \in DashConn}
  BY DEF SessionInv, TypeOK, Name
<1>1. CASE DashInput(c)
  <2> PICK k, x : k = dash[c].k /\ x = Cipher(c, dash[c].n, k, Controller, dash[c].tx, "input")
    OBVIOUS
  <2>1. k \in CtlConn /\ Say(c, <<Msg(Controller, x)>>)
    BY <1>1 DEF DashInput, SessionInv, DoneIsUp
  <2>2. x \in Frame /\ x.t = "data"
    <3>1. x \in [t : {"data"}, c : DashConn, n : Nat, k : CtlConn, to : Name, i : Nat,
                 body : {"hello", "refresh", "out", "input"}]
      BY <1>0, <2>1 DEF Cipher
    <3> QED BY <3>1 DEF Frame
  <2>3. Msg(Controller, x) \in Late
    BY <1>0, <2>2, MsgLate
  <2>4. <<Msg(Controller, x)>> \in Seq(Late)
    BY <2>3
  <2> QED BY <2>1, <2>4
<1>2. ASSUME NEW d \in Frame, DashMsg2(c, d)
      PROVE  \E msgs \in Seq(Late) : Say(c, msgs)
  <2> PICK x, y : /\ x = Msg3(c, d.n, d.k, DashKey[c])
                  /\ y = Cipher(c, d.n, d.k, Controller, 0, "refresh")
    OBVIOUS
  <2>1. d.n \in Nat /\ d.k \in CtlConn /\ Say(c, <<Msg(Controller, x), Msg(Controller, y)>>)
    <3>1. d.t = "m2"
      BY <1>2 DEF DashMsg2, IsMsg2Of
    <3>2. d.n \in Nat /\ d.k \in CtlConn
      BY <3>1, FrameFields
    <3> QED BY <1>2, <3>2 DEF DashMsg2
  <2>2. x \in Frame /\ x.t = "m3"
    <3>1. x \in [t : {"m3"}, c : DashConn, n : Nat, k : CtlConn, key : {DashKey[z] : z \in DashConn}]
      BY <1>0, <2>1 DEF Msg3
    <3> QED BY <3>1 DEF Frame
  <2>3. y \in Frame /\ y.t = "data"
    <3>1. y \in [t : {"data"}, c : DashConn, n : Nat, k : CtlConn, to : Name, i : Nat,
                 body : {"hello", "refresh", "out", "input"}]
      BY <1>0, <2>1 DEF Cipher
    <3> QED BY <3>1 DEF Frame
  <2>4. Msg(Controller, x) \in Late /\ Msg(Controller, y) \in Late
    BY <1>0, <2>2, <2>3, MsgLate
  <2>5. <<Msg(Controller, x), Msg(Controller, y)>> \in Seq(Late)
    BY <2>4
  <2> QED BY <2>1, <2>5
<1> QED BY <1>1, <1>2

\* The controller's greeting is no opening either.
LEMMA CtlMsg3Late ==
  ASSUME SessionInv, ctl \in CtlConn, NEW p \in PeerId, NEW d \in Frame, CtlMsg3(p, d)
  PROVE  wire' = wire \/ \E msgs \in Seq(Late) : Say(ctl, msgs)
<1> PICK x : x = Cipher(d.c, d.n, ctl, p, 0, "hello")
  OBVIOUS
<1>1. wire' = wire \/ Say(ctl, <<Msg(p, x)>>)
  BY DEF CtlMsg3
<1>2. d.c \in DashConn /\ d.n \in Nat /\ p \in Name
  BY FrameFields DEF Name
<1>3. x \in Frame /\ x.t = "data"
  <2>1. x \in [t : {"data"}, c : DashConn, n : Nat, k : CtlConn, to : Name, i : Nat,
               body : {"hello", "refresh", "out", "input"}]
    BY <1>2 DEF Cipher
  <2> QED BY <2>1 DEF Frame
<1>4. Msg(p, x) \in Late
  BY <1>2, <1>3, MsgLate
<1>5. <<Msg(p, x)>> \in Seq(Late)
  BY <1>4
<1> QED BY <1>1, <1>5

\* No step begins a handshake twice or repeats an answer.
LEMMA OpeningMoves ==
  ASSUME SessionInv, Next, NEW b \in DashConn, NEW n \in Nat, Single(Opening(b, n))
  PROVE  Single(Opening(b, n))' /\ (n <= dash[b].n /\ Gone(Opening(b, n)) => Gone(Opening(b, n))')
<1> PICK X : X = Opening(b, n)
  OBVIOUS
<1> DEFINE Goal == Single(X)' /\ (n <= dash[b].n /\ Gone(X) => Gone(X)')
<1> SUFFICES Goal
  OBVIOUS
<1>1. Fewer(X) => Goal
  <2> QED BY FewerSingle
<1>2. ASSUME NEW c \in Conn, NEW env, Take(c, env),
             wire' = wire \/ \E a \in Conn, msgs \in Seq(Late) : Say(a, msgs)
      PROVE  Goal
  <2>1. WireFewer(X)
    BY <1>2, LateSays, SameWireFewer
  <2>2. Fewer(X)
    <3> QED BY <1>2, <2>1, TakenMoves
  <2> QED BY <1>1, <2>2
<1>3. ASSUME NEW a \in Conn, NEW msgs \in Seq(Late), Say(a, msgs), UNCHANGED relayVars
      PROVE  Goal
  <2>1. WireFewer(X)
    BY <1>3, LateSays
  <2>2. UNCHANGED <<queue, pending>>
    BY <1>3 DEF relayVars, handlers, outgoing
  <2>3. QueueFewer(X) /\ \A x \in Conn : InHand(x, X)' => InHand(x, X)
    BY <2>2 DEF QueueFewer, InHand
  <2>4. Fewer(X)
    <3> QED BY <2>1, <2>3, FewerParts
  <2> QED BY <1>1, <2>4
<1>4. ASSUME UNCHANGED relayVars, wire' = wire PROVE Goal
  <2>1. UNCHANGED <<wire, queue, pending>>
    BY <1>4 DEF relayVars, handlers, outgoing
  <2> QED BY <1>1, <2>1, StillFewer
<1>5. ASSUME NEW c \in Conn, RelayStep(c) PROVE Goal
  <2> QED BY <1>5, RelayMoves
<1>6. ASSUME NEW c \in CtlConn, CtlConnect(c) PROVE Goal
  BY <1>4, <1>6 DEF CtlConnect
<1>7. CASE ctl \in CtlConn /\ CtlDisconnect
  BY <1>4, <1>7 DEF CtlDisconnect, Hangup
<1>8. CASE ctl \in CtlConn /\ (CtlIgnore \/ \E p \in PeerId : CtlPeerJoin(p) \/ CtlPeerLeave(p))
  BY <1>2, <1>8, ConnParts DEF CtlIgnore, CtlPeerJoin, CtlPeerLeave
<1>9. ASSUME ctl \in CtlConn, NEW p \in PeerId, NEW d \in Frame,
             CtlUnknown(p, d) \/ CtlBadHandshake(p, d) \/ CtlData(p, d)
      PROVE  Goal
  BY <1>2, <1>9, ConnParts DEF CtlUnknown, CtlBadHandshake, CtlData
<1>10. ASSUME ctl \in CtlConn, NEW p \in PeerId, NEW d \in Frame, CtlMsg1(p, d) PROVE Goal
  BY <1>10, AnswerMoves
<1>11. ASSUME ctl \in CtlConn, NEW p \in PeerId, NEW d \in Frame, CtlMsg3(p, d) PROVE Goal
  <2>1. Take(ctl, Deliver(p, d)) /\ ctl \in Conn
    BY <1>11, ConnParts DEF CtlMsg3
  <2> QED BY <1>2, <1>11, <2>1, CtlMsg3Late
<1>12. CASE ctl \in CtlConn /\ CtlFanout
  <2>1. UNCHANGED relayVars /\ ctl \in Conn
    BY <1>12, ConnParts DEF CtlFanout
  <2> QED BY <1>3, <1>12, <2>1, FanoutLate
<1>13. ASSUME NEW c \in DashConn, DashConnect(c) \/ DashClose(c) PROVE Goal
  BY <1>4, <1>13 DEF DashConnect, DashClose, Hangup
<1>14. ASSUME NEW c \in DashConn, DashInput(c) PROVE Goal
  <2>1. UNCHANGED relayVars /\ c \in Conn
    BY <1>14, ConnParts DEF DashInput
  <2> QED BY <1>3, <1>14, <2>1, DashSaysLate
<1>15. ASSUME NEW c \in DashConn, DashIgnore(c) \/ DashPeerLeave(c) PROVE Goal
  BY <1>2, <1>15, ConnParts DEF DashIgnore, DashPeerLeave
<1>16. ASSUME NEW c \in DashConn, DashPeerJoin(c) PROVE Goal
  BY <1>16, BeginMoves
<1>17. ASSUME NEW c \in DashConn, NEW d \in Frame, DashThrow(c, d) \/ DashData(c, d) PROVE Goal
  BY <1>2, <1>17, ConnParts DEF DashThrow, DashData
<1>18. ASSUME NEW c \in DashConn, NEW d \in Frame, DashMsg2(c, d) PROVE Goal
  <2>1. Take(c, Deliver(Controller, d)) /\ c \in Conn
    BY <1>18, ConnParts DEF DashMsg2
  <2> QED BY <1>2, <1>18, <2>1, DashSaysLate
<1> HIDE DEF Goal
<1> QED BY <1>5, <1>6, <1>7, <1>8, <1>9, <1>10, <1>11, <1>12, <1>13, <1>14, <1>15, <1>16, <1>17, <1>18, StepCases

\* A dashboard is done once it has taken the answer off the relay.
LEMMA AnswerTaken ==
  ASSUME SessionInv, NEW c \in DashConn, NEW d \in Frame, DashMsg2(c, d), Single(Opening(c, dash[c].n))
  PROVE  Gone(Opening(c, dash[c].n))'
<1> PICK n : n = dash[c].n
  OBVIOUS
<1> PICK X : X = Opening(c, n)
  OBVIOUS
<1>0. n \in Nat /\ Controller \in Name /\ c \in Conn
  BY ConnParts DEF SessionInv, TypeOK, Name
<1>1. /\ Take(c, Deliver(Controller, d)) /\ d.t = "m2" /\ d.c = c /\ d.n = n /\ dash'[c].n = n
  BY DEF DashMsg2, IsMsg2Of, SessionInv, TypeOK
<1>2. Deliver(Controller, d) \in Carries(X)
  BY <1>0, <1>1 DEF Deliver, Carries, Opening
<1>3. /\ QueueFewer(X) /\ pending' = pending
      /\ \A a \in Conn : ~OnWire(a, X) /\ ~InHand(a, X) /\ ~InQueue(a, X)'
  BY <1>0, <1>1, <1>2, TakeMoves
<1>4. WireFewer(X)
  BY <1>0, DashSaysLate, LateSays
<1>5. \A a \in Conn : ~OnWire(a, X)' /\ ~InHand(a, X)' /\ ~InQueue(a, X)'
  BY <1>3, <1>4 DEF WireFewer, OnWire, InHand
<1>6. Gone(X)'
  BY <1>5 DEF Gone
<1> QED BY <1>1, <1>6

LEMMA InitOneOpening == Init => OneOpening
<1> SUFFICES ASSUME Init, NEW X PROVE Single(X) /\ Gone(X)
  BY DEF OneOpening
<1>1. \A a \in Conn : wire[a] = <<>> /\ queue[a] = <<>> /\ pending[a] = <<>>
  BY DEF Init, RelayInit
<1>2. \A a \in Conn : ~OnWire(a, X) /\ ~InHand(a, X) /\ ~InQueue(a, X)
  BY <1>1, OneHas DEF OnWire, InHand, InQueue
<1>3. \A a \in Conn : Once(wire[a], Sends(X)) /\ Once(queue[a], Carries(X))
  BY <1>1, OneHas
<1> QED BY <1>2, <1>3 DEF Single, Gone

\* A dashboard becomes done by taking message 2.
LEMMA DoneByAnswer ==
  ASSUME SessionInv, Next, NEW c \in DashConn, dash[c].st # "done", dash'[c].st = "done"
  PROVE  \E d \in Frame : DashMsg2(c, d)
<1>0. dash \in [DashConn -> DashState]
  BY DEF SessionInv, TypeOK, DashState
<1>1. dash' # dash
  OBVIOUS
<1>2. PICK b \in DashConn : \/ DashInput(b) \/ DashPeerJoin(b) \/ DashPeerLeave(b)
          \/ \E d \in Frame : DashMsg2(b, d) \/ DashThrow(b, d) \/ DashData(b, d)
  BY <1>1, StepCases DEF RelayStep, RelayJoin, RelayRead, RelayForward,
    RelayEnd, RelayCleanup, CtlConnect, CtlDisconnect, CtlIgnore, CtlPeerJoin, CtlPeerLeave,
    CtlUnknown, CtlMsg1, CtlMsg3, CtlBadHandshake, CtlData, CtlFanout, DashConnect, DashClose,
    DashIgnore, dashVars
<1>3. ~DashInput(b)
  BY <1>0 DEF DashInput, DashState
<1>4. ~DashPeerJoin(b) /\ ~DashPeerLeave(b)
  <2>1. ASSUME DashPeerJoin(b) \/ DashPeerLeave(b) PROVE FALSE
    <3>1. \E z : dash' = [dash EXCEPT ![b] = z] /\ z.st # "done"
      BY <2>1 DEF DashPeerJoin, DashPeerLeave, NoDash
    <3> QED BY <1>0, <3>1
  <2> QED BY <2>1
<1>5. \A d \in Frame : ~DashThrow(b, d) /\ ~DashData(b, d)
  BY <1>0 DEF DashThrow, DashData, DashState
<1>6. PICK d \in Frame : DashMsg2(b, d)
  BY <1>2, <1>3, <1>4, <1>5
<1>7. b = c
  BY <1>0, <1>6 DEF DashMsg2
<1> QED BY <1>6, <1>7

LEMMA StepOneOpening == SessionInv /\ OneOpening /\ [Next]_vars => OneOpening'
<1> SUFFICES ASSUME SessionInv, OneOpening, [Next]_vars PROVE OneOpening'
  OBVIOUS
<1>1. CASE UNCHANGED vars
  <2>1. UNCHANGED <<wire, queue, pending, dash>>
    BY <1>1 DEF vars, relayVars, handlers, outgoing, clientVars, dashVars
  <2>2. \A X : Single(X)' <=> Single(X)
    BY <2>1 DEF Single, OnWire, InHand, InQueue
  <2>3. \A X : Gone(X)' <=> Gone(X)
    BY <2>1 DEF Gone, OnWire, InHand, InQueue
  <2> QED BY <2>1, <2>2, <2>3 DEF OneOpening
<1>2. ASSUME Next, NEW c \in DashConn
      PROVE  /\ \A n \in Nat : Single(Opening(c, n))'
             /\ dash'[c].st = "done" => Gone(Opening(c, dash[c].n))'
  <2>0. \A n \in Nat : Single(Opening(c, n))
    BY DEF OneOpening
  <2>1. \A n \in Nat : Single(Opening(c, n))' /\ (n <= dash[c].n /\ Gone(Opening(c, n)) => Gone(Opening(c, n))')
    BY <1>2, <2>0, OpeningMoves
  <2>2. dash[c].n \in Nat /\ DashMove(c)
    BY DashMoves DEF SessionInv, TypeOK
  <2>3. ASSUME dash'[c].st = "done", dash[c].st = "done"
        PROVE  Gone(Opening(c, dash[c].n))'
    <3> PICK n : n = dash[c].n
      OBVIOUS
    <3>1. dash'[c].n = n /\ n \in Nat /\ n <= dash[c].n
      BY <2>2, <2>3 DEF DashMove
    <3>2. Gone(Opening(c, n))
      BY <2>3 DEF OneOpening
    <3>3. Gone(Opening(c, n))'
      BY <2>1, <3>1, <3>2
    <3> QED BY <3>1, <3>3
  <2>4. ASSUME dash'[c].st = "done", dash[c].st # "done"
        PROVE  Gone(Opening(c, dash[c].n))'
    <3>1. dash'[c].n = dash[c].n
      BY <2>2, <2>4 DEF DashMove
    <3>2. PICK d \in Frame : DashMsg2(c, d)
      BY <1>2, <2>4, DoneByAnswer
    <3>3. Gone(Opening(c, dash[c].n))'
      BY <2>0, <2>2, <3>2, AnswerTaken
    <3> QED BY <3>3
  <2> QED BY <2>1, <2>3, <2>4
<1> QED BY <1>1, <1>2 DEF OneOpening

-----------------------------------------------------------------------------
(* The session as a channel.                                               *)

\* What the controller has received of the session of c, as Channel takes it.
Got(c) == IF LinkState(c) = "full" THEN peers[DashName[c]].rx ELSE 0

\* The moves of the channel, as the step sees them at one dashboard.
Stays(c) == LinkState(c)' = LinkState(c) /\ dash'[c].tx = dash[c].tx /\ Got(c)' = Got(c)
Loses(c) == LinkState(c) \in {"half", "full"} /\ LinkState(c)' = "dead" /\ dash'[c].tx = dash[c].tx
Opens(c) ==
  /\ LinkState(c) = "none" /\ LinkState(c)' \in {"half", "dead"}
  /\ dash'[c].tx = 1 /\ Got(c)' = Got(c)
Admitted(c) ==
  /\ LinkState(c) = "half" /\ LinkState(c)' = "full"
  /\ dash'[c].tx = dash[c].tx /\ Got(c)' = Got(c)
Transmits(c) ==
  /\ LinkState(c) # "none" /\ LinkState(c)' = LinkState(c)
  /\ dash'[c].tx = dash[c].tx + 1 /\ Got(c)' = Got(c)
Receives(c) ==
  /\ LinkState(c) = "full" /\ LinkState(c)' = "full" /\ Got(c) < dash[c].tx
  /\ dash'[c].tx = dash[c].tx /\ Got(c)' = Got(c) + 1
Restarts(c) == LinkState(c)' = "none" /\ dash'[c].tx = 0 /\ Got(c)' = 0

\* One dashboard moves, or the controller loses some of its sessions.
ChannelStep ==
  \/ \A c \in DashConn : Stays(c) \/ Loses(c)
  \/ \E c \in DashConn :
       /\ Opens(c) \/ Admitted(c) \/ Transmits(c) \/ Receives(c) \/ Restarts(c)
       /\ \A b \in DashConn \ {c} : Stays(b)

LEMMA ChannelStepIsNext == ChannelStep => Channel!Next
<1> SUFFICES ASSUME ChannelStep PROVE Channel!Next
  OBVIOUS
<1> DEFINE st   == [c \in DashConn |-> LinkState(c)]
           sent == [c \in DashConn |-> dash[c].tx]
           got  == [c \in DashConn |-> IF LinkState(c) = "full" THEN peers[DashName[c]].rx ELSE 0]
<1>1. \A c \in DashConn :
        /\ st[c] = LinkState(c) /\ st'[c] = LinkState(c)' /\ sent[c] = dash[c].tx /\ sent'[c] = dash'[c].tx
        /\ got[c] = Got(c) /\ got'[c] = Got(c)'
  BY DEF Got
<1>2. /\ st = [c \in DashConn |-> st[c]] /\ st' = [c \in DashConn |-> st'[c]]
      /\ sent = [c \in DashConn |-> sent[c]] /\ sent' = [c \in DashConn |-> sent'[c]]
      /\ got = [c \in DashConn |-> got[c]] /\ got' = [c \in DashConn |-> got'[c]]
  OBVIOUS
<1>3. ASSUME NEW S \in SUBSET DashConn,
             \A c \in S : st[c] \in {"half", "full"},
             st' = [c \in DashConn |-> IF c \in S THEN "dead" ELSE st[c]],
             got' = [c \in DashConn |-> IF c \in S THEN 0 ELSE got[c]],
             sent' = sent
      PROVE  Channel!Next
  <2>1. Channel!Lose(S)
    BY <1>3 DEF Channel!Lose
  <2> QED BY <2>1 DEF Channel!Next
<1>4. ASSUME NEW c \in DashConn,
             \/ /\ st[c] = "none" /\ \E s \in {"half", "dead"} : st' = [st EXCEPT ![c] = s]
                /\ sent' = [sent EXCEPT ![c] = 1] /\ got' = got
             \/ /\ st[c] = "half" /\ st' = [st EXCEPT ![c] = "full"] /\ sent' = sent /\ got' = got
             \/ /\ st[c] # "none" /\ sent' = [sent EXCEPT ![c] = @ + 1] /\ st' = st /\ got' = got
             \/ /\ st[c] = "full" /\ got[c] < sent[c] /\ got' = [got EXCEPT ![c] = @ + 1] /\ st' = st /\ sent' = sent
             \/ /\ st' = [st EXCEPT ![c] = "none"] /\ sent' = [sent EXCEPT ![c] = 0] /\ got' = [got EXCEPT ![c] = 0]
      PROVE  Channel!Next
  <2>1. Channel!Open(c) \/ Channel!Admit(c) \/ Channel!Transmit(c) \/ Channel!Receive(c) \/ Channel!Restart(c)
    BY <1>4 DEF Channel!Open, Channel!Admit, Channel!Transmit, Channel!Receive, Channel!Restart
  <2> QED BY <2>1 DEF Channel!Next
<1> HIDE DEF st, sent, got
<1>5. CASE \A c \in DashConn : Stays(c) \/ Loses(c)
  <2> DEFINE S == {c \in DashConn : Loses(c)}
  <2>1. \A c \in S : st[c] \in {"half", "full"} /\ st'[c] = "dead" /\ sent'[c] = sent[c] /\ got'[c] = 0
    BY <1>1 DEF Loses, Got
  <2>2. \A c \in DashConn \ S : st'[c] = st[c] /\ sent'[c] = sent[c] /\ got'[c] = got[c]
    BY <1>1, <1>5 DEF Stays
  <2>3. S \in SUBSET DashConn
    OBVIOUS
  <2> HIDE DEF S
  <2>4. st' = [c \in DashConn |-> IF c \in S THEN "dead" ELSE st[c]]
    BY <1>2, <2>1, <2>2
  <2>5. got' = [c \in DashConn |-> IF c \in S THEN 0 ELSE got[c]]
    BY <1>2, <2>1, <2>2
  <2>6. sent' = sent
    BY <1>2, <2>1, <2>2, <2>3
  <2> QED BY <1>3, <2>1, <2>3, <2>4, <2>5, <2>6
<1>6. ASSUME NEW c \in DashConn, \A b \in DashConn \ {c} : Stays(b),
             Opens(c) \/ Admitted(c) \/ Transmits(c) \/ Receives(c) \/ Restarts(c)
      PROVE  Channel!Next
  <2>1. \A b \in DashConn \ {c} : st'[b] = st[b] /\ sent'[b] = sent[b] /\ got'[b] = got[b]
    BY <1>1, <1>6 DEF Stays
  <2>2. /\ st' = [st EXCEPT ![c] = st'[c]] /\ (st'[c] = st[c] => st' = st)
        /\ sent' = [sent EXCEPT ![c] = sent'[c]] /\ (sent'[c] = sent[c] => sent' = sent)
        /\ got' = [got EXCEPT ![c] = got'[c]] /\ (got'[c] = got[c] => got' = got)
    <3>1. st' = [st EXCEPT ![c] = st'[c]] /\ (st'[c] = st[c] => st' = st)
      BY <1>2, <2>1
    <3>2. sent' = [sent EXCEPT ![c] = sent'[c]] /\ (sent'[c] = sent[c] => sent' = sent)
      BY <1>2, <2>1
    <3>3. got' = [got EXCEPT ![c] = got'[c]] /\ (got'[c] = got[c] => got' = got)
      BY <1>2, <2>1
    <3> QED BY <3>1, <3>2, <3>3
  <2>3. CASE Opens(c)
    BY <1>1, <1>4, <2>2, <2>3 DEF Opens
  <2>4. CASE Admitted(c)
    BY <1>1, <1>4, <2>2, <2>4 DEF Admitted
  <2>5. CASE Transmits(c)
    <3>1. st' = st /\ got' = got /\ st[c] # "none" /\ sent' = [sent EXCEPT ![c] = @ + 1]
      BY <1>1, <2>2, <2>5 DEF Transmits
    <3> QED BY <1>4, <3>1
  <2>6. CASE Receives(c)
    <3>1. st' = st /\ sent' = sent /\ st[c] = "full" /\ got[c] < sent[c] /\ got' = [got EXCEPT ![c] = @ + 1]
      BY <1>1, <2>2, <2>6 DEF Receives
    <3> QED BY <1>4, <3>1
  <2>7. CASE Restarts(c)
    BY <1>1, <1>4, <2>2, <2>7 DEF Restarts
  <2> QED BY <1>6, <2>3, <2>4, <2>5, <2>6, <2>7
<1> QED BY <1>5, <1>6 DEF ChannelStep

LEMMA NotTouched ==
  ASSUME NEW b \in DashConn, dash'[b] = dash[b], ctl' = ctl, peers'[DashName[b]] = peers[DashName[b]]
  PROVE  Stays(b)
BY DEF Stays, LinkState, Got

\* The controller's end of p goes; only sessions under that name die.
LEMMA PeerGoes ==
  ASSUME dash' = dash, ctl' = ctl, NEW p \in PeerId, NEW z, z.st \notin {"answered", "ready"},
         SessionInv, peers' = [peers EXCEPT ![p] = z]
  PROVE  ChannelStep
<1> SUFFICES ASSUME NEW b \in DashConn PROVE Stays(b) \/ Loses(b)
  BY DEF ChannelStep
<1>0. peers'[p] = z /\ \A r \in PeerId : r # p => peers'[r] = peers[r]
  BY DEF SessionInv, TypeOK
<1>1. CASE DashName[b] # p
  BY <1>0, <1>1, NotTouched, SessionAssumption
<1>2. CASE DashName[b] = p
  <2>1. LinkState(b)' \in {"none", "dead"} /\ (LinkState(b) = "none" <=> LinkState(b)' = "none")
    BY <1>0, <1>2 DEF LinkState
  <2>2. LinkState(b) \in {"none", "half", "full", "dead"}
    BY DEF LinkState
  <2> QED BY <2>1, <2>2 DEF Stays, Loses, Got
<1> QED BY <1>1, <1>2

\* Message 1 makes no session: the dashboard it answers cannot have read an
\* answer already.
LEMMA Msg1Channel ==
  ASSUME SessionInv, OneOpening, ctl \in CtlConn, NEW p \in PeerId, NEW d \in Frame, CtlMsg1(p, d)
  PROVE  ChannelStep
<1> SUFFICES ASSUME NEW b \in DashConn PROVE Stays(b)
  BY DEF ChannelStep
<1>0. /\ dash' = dash /\ ctl' = ctl /\ peers' = [peers EXCEPT ![p] = Answered(d.c, d.n)]
      /\ peers[p].st = "awaiting" /\ Take(ctl, Deliver(p, d)) /\ d.t = "m1"
  BY DEF CtlMsg1, dashVars
<1>1. peers'[p] = Answered(d.c, d.n) /\ \A r \in PeerId : r # p => peers'[r] = peers[r]
  BY <1>0 DEF SessionInv, TypeOK
<1>2. CASE DashName[b] # p
  BY <1>0, <1>1, <1>2, NotTouched, SessionAssumption
<1>3. CASE DashName[b] = p /\ ~(dash[b].st = "done" /\ b = d.c /\ dash[b].n = d.n)
  BY <1>0, <1>1, <1>3 DEF Stays, LinkState, Got, Answered
<1>4. CASE dash[b].st = "done" /\ b = d.c /\ dash[b].n = d.n
  <2> PICK X : X = Opening(b, dash[b].n)
    OBVIOUS
  <2>1. Gone(X)
    BY <1>4 DEF OneOpening
  <2>2. Deliver(p, d) \in Carries(X)
    BY <1>0, <1>4 DEF Deliver, Carries, Opening, Name
  <2> QED BY <1>0, <2>1, <2>2, TakeMoves, ConnParts
<1> QED BY <1>2, <1>3, <1>4

\* Message 3 completes the session it belongs to, if its dashboard still has it.
LEMMA Msg3Channel ==
  ASSUME SessionInv, ctl \in CtlConn, NEW p \in PeerId, NEW d \in Frame, CtlMsg3(p, d)
  PROVE  ChannelStep
<1>0. /\ dash' = dash /\ ctl' = ctl /\ peers[p].st = "answered"
      /\ d.c = peers[p].c /\ d.n = peers[p].n /\ d.c \in DashConn
      /\ \/ peers' = [peers EXCEPT ![p] = NoPeer]
         \/ peers' = [peers EXCEPT ![p] = Ready(d.c, d.n, d.key, 1, 0)]
  BY FrameFields DEF CtlMsg3, IsMsg3Of, dashVars
<1>1. CASE peers' = [peers EXCEPT ![p] = NoPeer]
  BY <1>0, <1>1, PeerGoes DEF NoPeer
<1>2. CASE peers' = [peers EXCEPT ![p] = Ready(d.c, d.n, d.key, 1, 0)]
  <2>1. /\ peers'[p].st = "ready" /\ peers'[p].c = d.c /\ peers'[p].n = d.n /\ peers'[p].rx = 0
        /\ \A r \in PeerId : r # p => peers'[r] = peers[r]
    <3>1. peers'[p] = Ready(d.c, d.n, d.key, 1, 0) /\ \A r \in PeerId : r # p => peers'[r] = peers[r]
      BY <1>2 DEF SessionInv, TypeOK
    <3> QED BY <3>1 DEF Ready
  <2>2. ASSUME NEW b \in DashConn, ~(DashName[b] = p /\ LinkState(b) = "half")
        PROVE  Stays(b)
    <3>1. CASE DashName[b] # p
      BY <1>0, <2>1, <3>1, NotTouched, SessionAssumption
    <3>2. CASE DashName[b] = p
      <4>1. ~(dash[b].st = "done" /\ dash[b].k = ctl /\ d.c = b /\ d.n = dash[b].n)
        BY <1>0, <2>2, <3>2, ConnParts DEF LinkState
      <4>2. LinkState(b) \in {"none", "dead"} /\ LinkState(b)' = LinkState(b)
        BY <1>0, <2>1, <3>2, <4>1 DEF LinkState
      <4> QED BY <1>0, <4>2 DEF Stays, Got
    <3> QED BY <3>1, <3>2
  <2>3. ASSUME NEW b \in DashConn, DashName[b] = p, LinkState(b) = "half"
        PROVE  Admitted(b) /\ b = d.c
    <3>1. /\ dash[b].st = "done" /\ dash[b].k = ctl /\ d.c = b /\ d.n = dash[b].n /\ ctl # NoConn
      BY <1>0, <2>3 DEF LinkState
    <3>2. LinkState(b)' = "full"
      BY <1>0, <2>1, <2>3, <3>1 DEF LinkState
    <3> QED BY <1>0, <2>1, <2>3, <3>1, <3>2 DEF Admitted, Got
  <2> QED BY <2>2, <2>3 DEF ChannelStep
<1> QED BY <1>0, <1>1, <1>2

\* What decrypts was sent, and not received before.
LEMMA DataChannel ==
  ASSUME SessionInv, ctl \in CtlConn, NEW p \in PeerId, NEW d \in Frame, Sound(d), CtlData(p, d)
  PROVE  ChannelStep
<1>0. /\ dash' = dash /\ ctl' = ctl /\ peers[p].st = "ready"
      /\ peers' = IF Decrypts(peers[p], d) THEN [peers EXCEPT ![p].rx = @ + 1] ELSE peers
  BY DEF CtlData, dashVars
<1>1. CASE ~Decrypts(peers[p], d)
  <2>1. \A b \in DashConn : Stays(b)
    BY <1>0, <1>1, NotTouched
  <2> QED BY <2>1 DEF ChannelStep
<1>2. CASE Decrypts(peers[p], d)
  <2>1. /\ d.t = "data" /\ d.to = Controller /\ d.c = peers[p].c /\ d.n = peers[p].n /\ d.k = ctl
        /\ d.i = peers[p].rx /\ d.c \in DashConn
    BY <1>2, FrameFields DEF Decrypts
  <2>2. /\ peers'[p].st = "ready" /\ peers'[p].c = d.c /\ peers'[p].n = d.n /\ peers'[p].rx = peers[p].rx + 1
        /\ \A r \in PeerId : r # p => peers'[r] = peers[r]
    <3>1. peers \in [PeerId -> PeerState]
      BY DEF SessionInv, TypeOK, PeerState, AnsweredPeer, ReadyPeer
    <3>2. peers' = [peers EXCEPT ![p] = [peers[p] EXCEPT !.rx = @ + 1]]
      BY <1>0, <1>2
    <3>3. peers'[p] = [peers[p] EXCEPT !.rx = @ + 1] /\ \A r \in PeerId : r # p => peers'[r] = peers[r]
      BY <3>1, <3>2
    <3> PICK z : z = peers[p]
      OBVIOUS
    <3>4. z \in ReadyPeer
      BY <1>0, <3>1 DEF PeerState, AnsweredPeer, ReadyPeer, NoPeer, Awaiting
    <3>5. peers'[p].st = z.st /\ peers'[p].c = z.c /\ peers'[p].n = z.n /\ peers'[p].rx = z.rx + 1
      BY <3>3, <3>4 DEF ReadyPeer
    <3> QED BY <1>0, <2>1, <3>3, <3>5
  <2>3. ASSUME NEW b \in DashConn, ~(DashName[b] = p /\ LinkState(b) = "full")
        PROVE  Stays(b)
    <3>1. CASE DashName[b] # p
      BY <1>0, <2>2, <3>1, NotTouched, SessionAssumption
    <3>2. CASE DashName[b] = p
      <4>1. LinkState(b) \in {"none", "dead"} /\ LinkState(b)' = LinkState(b)
        BY <1>0, <2>1, <2>2, <2>3, <3>2 DEF LinkState
      <4> QED BY <1>0, <4>1 DEF Stays, Got
    <3> QED BY <3>1, <3>2
  <2>4. ASSUME NEW b \in DashConn, DashName[b] = p, LinkState(b) = "full"
        PROVE  Receives(b) /\ b = d.c
    <3>1. dash[b].st = "done" /\ dash[b].k = ctl /\ d.c = b /\ d.n = dash[b].n /\ ctl # NoConn
      BY <1>0, <2>1, <2>4 DEF LinkState
    <3>2. LinkState(b)' = "full"
      BY <1>0, <2>2, <2>4, <3>1 DEF LinkState
    <3>3. d.i < dash[b].tx
      BY <2>1, <3>1 DEF Sound, FromDash, Current
    <3> QED BY <1>0, <2>1, <2>2, <2>4, <3>1, <3>2, <3>3 DEF Receives, Got
  <2> QED BY <2>3, <2>4 DEF ChannelStep
<1> QED BY <1>1, <1>2

\* Connecting and hanging up: a new connection has no peers, and takes none
\* with it when it goes.
LEMMA HangupChannel ==
  ASSUME SessionInv, CtlDisconnect \/ \E c \in CtlConn : CtlConnect(c)
  PROVE  ChannelStep
<1> SUFFICES ASSUME NEW b \in DashConn PROVE Stays(b) \/ Loses(b)
  BY DEF ChannelStep
<1>0. /\ dash' = dash /\ DashName[b] \in PeerId
      /\ \A p \in PeerId : peers'[p].st = "none"
  BY SessionAssumption DEF CtlDisconnect, CtlConnect, NoPeer, dashVars
<1>1. LinkState(b)' \in {"none", "dead"} /\ (LinkState(b) = "none" <=> LinkState(b)' = "none")
  BY <1>0 DEF LinkState
<1>2. LinkState(b) \in {"none", "half", "full", "dead"}
  BY DEF LinkState
<1> QED BY <1>0, <1>1, <1>2 DEF Stays, Loses, Got

\* Frames fanned out do not touch what comes in.
LEMMA FanoutChannel ==
  ASSUME SessionInv, CtlFanout
  PROVE  ChannelStep
<1> SUFFICES ASSUME NEW b \in DashConn PROVE Stays(b)
  BY DEF ChannelStep
<1> PICK p : p = DashName[b]
  OBVIOUS
<1>0. /\ dash' = dash /\ ctl' = ctl /\ p \in PeerId
      /\ peers' = [q \in PeerId |->
           IF q \in {x \in PeerId : peers[x].st = "ready"} THEN [peers[q] EXCEPT !.tx = @ + 1] ELSE peers[q]]
  BY SessionAssumption DEF CtlFanout, dashVars
<1>1. CASE peers[p].st # "ready"
  <2>1. peers'[p] = peers[p]
    BY <1>0, <1>1
  <2> QED BY <1>0, <2>1, NotTouched
<1>2. CASE peers[p].st = "ready"
  <2> PICK z : z = peers[p]
    OBVIOUS
  <2>1. z \in ReadyPeer
    BY <1>0, <1>2 DEF SessionInv, TypeOK, ReadyPeer, NoPeer, Awaiting
  <2>2. peers'[p] = [z EXCEPT !.tx = @ + 1]
    BY <1>0, <1>2
  <2>3. peers'[p].st = z.st /\ peers'[p].c = z.c /\ peers'[p].n = z.n /\ peers'[p].rx = z.rx
    BY <2>1, <2>2 DEF ReadyPeer
  <2>4. LinkState(b)' = LinkState(b)
    BY <1>0, <2>3 DEF LinkState
  <2> QED BY <1>0, <2>3, <2>4 DEF Stays, Got
<1> QED BY <1>1, <1>2

\* A dashboard that starts over, opens a session, or sends in it.
LEMMA DashChannel ==
  ASSUME SessionInv, NEW c \in DashConn,
         \/ DashPeerJoin(c) \/ DashPeerLeave(c) \/ DashInput(c)
         \/ \E d \in Frame : DashMsg2(c, d) \/ DashThrow(c, d) \/ DashData(c, d)
  PROVE  ChannelStep
<1> PICK p : p = DashName[c]
  OBVIOUS
<1> PICK z : z = dash[c]
  OBVIOUS
<1>0. /\ dash \in [DashConn -> DashState] /\ z \in DashState /\ p \in PeerId
      /\ UNCHANGED <<ctl, peers>>
  BY SessionAssumption DEF SessionInv, TypeOK, DashState, DashPeerJoin, DashPeerLeave, DashInput, DashMsg2,
    DashThrow, DashData, ctlVars
<1>1. ASSUME NEW w, dash' = [dash EXCEPT ![c] = w]
      PROVE  dash'[c] = w /\ \A b \in DashConn \ {c} : Stays(b)
  <2>1. dash'[c] = w /\ \A b \in DashConn \ {c} : dash'[b] = dash[b]
    BY <1>0, <1>1
  <2> QED BY <1>0, <2>1, NotTouched
<1>2. ASSUME DashPeerJoin(c) \/ DashPeerLeave(c) PROVE ChannelStep
  <2>1. PICK w : dash' = [dash EXCEPT ![c] = w] /\ w.st # "done" /\ w.tx = 0
    <3>1. CASE DashPeerJoin(c)
      <4>1. dash' = [dash EXCEPT ![c] = [NoDash EXCEPT !.st = "m1", !.n = dash[c].n + 1, !.up = dash[c].up]]
        BY <3>1 DEF DashPeerJoin
      <4>2. [NoDash EXCEPT !.st = "m1", !.n = dash[c].n + 1, !.up = dash[c].up].st # "done"
        BY DEF NoDash
      <4>3. [NoDash EXCEPT !.st = "m1", !.n = dash[c].n + 1, !.up = dash[c].up].tx = 0
        BY DEF NoDash
      <4> QED BY <4>1, <4>2, <4>3
    <3>2. CASE DashPeerLeave(c)
      <4>1. dash' = [dash EXCEPT ![c] = [NoDash EXCEPT !.n = dash[c].n]]
        BY <3>2 DEF DashPeerLeave
      <4>2. [NoDash EXCEPT !.n = dash[c].n].st # "done" /\ [NoDash EXCEPT !.n = dash[c].n].tx = 0
        BY DEF NoDash
      <4> QED BY <4>1, <4>2
    <3> QED BY <1>2, <3>1, <3>2
  <2>2. dash'[c] = w /\ \A b \in DashConn \ {c} : Stays(b)
    BY <1>1, <2>1
  <2>3. LinkState(c)' = "none" /\ Got(c)' = 0 /\ dash'[c].tx = 0
    BY <2>1, <2>2 DEF LinkState, Got
  <2> QED BY <2>2, <2>3 DEF Restarts, ChannelStep
<1>3. ASSUME NEW d \in Frame, DashMsg2(c, d) PROVE ChannelStep
  <2> PICK w : w = [z EXCEPT !.st = "done", !.k = d.k, !.tx = 1, !.rx = 0, !.up = TRUE]
    OBVIOUS
  <2>1. dash' = [dash EXCEPT ![c] = w] /\ z.st = "m1" /\ d.t = "m2" /\ d.n = z.n
    BY <1>3 DEF DashMsg2, IsMsg2Of
  <2>2. dash'[c] = w /\ \A b \in DashConn \ {c} : Stays(b)
    BY <1>1, <2>1
  <2>3. w.st = "done" /\ w.tx = 1 /\ w.n = z.n
    BY <1>0 DEF DashState
  <2>4. LinkState(c) = "none" /\ Got(c) = 0
    BY <2>1 DEF LinkState, Got
  <2>5. ~(peers[p].st = "ready" /\ peers[p].c = c /\ peers[p].n = z.n)
    BY <1>0, <2>1 DEF SessionInv, ReadyIsAuthentic
  <2>6. LinkState(c)' \in {"half", "dead"}
    BY <1>0, <2>2, <2>3, <2>5 DEF LinkState
  <2>7. Got(c)' = 0
    BY <2>6 DEF Got
  <2> QED BY <2>2, <2>3, <2>4, <2>6, <2>7 DEF Opens, ChannelStep
<1>4. ASSUME NEW d \in Frame, DashThrow(c, d) PROVE ChannelStep
  <2> PICK s : s \in {"none", "broken"} /\ s = IF z.st = "none" THEN "none" ELSE "broken"
    OBVIOUS
  <2> PICK w : w = [z EXCEPT !.st = s]
    OBVIOUS
  <2>1. dash' = [dash EXCEPT ![c] = w] /\ ~z.up
    <3>1. dash' = [dash EXCEPT ![c] = [dash[c] EXCEPT !.st = s]] /\ ~dash[c].up
      BY <1>0, <1>4 DEF DashThrow, DashState
    <3> QED BY <3>1
  <2>2. dash'[c] = w /\ \A b \in DashConn \ {c} : Stays(b)
    BY <1>1, <2>1
  <2>3. w.st = s /\ w.tx = z.tx /\ z.st # "done"
    BY <1>0, <2>1 DEF DashState, SessionInv, DoneIsUp
  <2>4. LinkState(c) = "none" /\ LinkState(c)' = "none" /\ dash'[c].tx = dash[c].tx
    BY <2>2, <2>3 DEF LinkState
  <2>5. Stays(c)
    BY <2>4 DEF Stays, Got
  <2> QED BY <2>2, <2>5 DEF ChannelStep
<1>5. ASSUME NEW d \in Frame, DashData(c, d) PROVE ChannelStep
  <2>1. CASE dash' = dash
    <3>1. \A b \in DashConn : Stays(b)
      BY <1>0, <2>1, NotTouched
    <3> QED BY <3>1 DEF ChannelStep
  <2>2. CASE dash' # dash
    <3> PICK w : w = [z EXCEPT !.rx = @ + 1]
      OBVIOUS
    <3>1. dash' = [dash EXCEPT ![c] = w]
      BY <1>0, <1>5, <2>2 DEF DashData
    <3>2. dash'[c] = w /\ \A b \in DashConn \ {c} : Stays(b)
      BY <1>1, <3>1
    <3>3. w.st = z.st /\ w.tx = z.tx /\ w.k = z.k /\ w.n = z.n
      BY <1>0 DEF DashState
    <3>4. LinkState(c)' = LinkState(c) /\ dash'[c].tx = dash[c].tx
      BY <1>0, <3>2, <3>3 DEF LinkState
    <3>5. Stays(c)
      BY <1>0, <3>4 DEF Stays, Got
    <3> QED BY <3>2, <3>5 DEF ChannelStep
  <2> QED BY <2>1, <2>2
<1>6. ASSUME DashInput(c) PROVE ChannelStep
  <2> PICK w : w = [z EXCEPT !.tx = @ + 1]
    OBVIOUS
  <2>1. dash' = [dash EXCEPT ![c] = w] /\ z.st = "done"
    BY <1>0, <1>6 DEF DashInput
  <2>2. dash'[c] = w /\ \A b \in DashConn \ {c} : Stays(b)
    BY <1>1, <2>1
  <2>3. w.st = z.st /\ w.tx = z.tx + 1 /\ w.k = z.k /\ w.n = z.n
    BY <1>0 DEF DashState
  <2>4. LinkState(c)' = LinkState(c) /\ LinkState(c) # "none" /\ dash'[c].tx = dash[c].tx + 1
    BY <1>0, <2>1, <2>2, <2>3 DEF LinkState
  <2>5. Transmits(c)
    BY <1>0, <2>4 DEF Transmits, Got
  <2> QED BY <2>2, <2>5 DEF ChannelStep
<1> QED BY <1>2, <1>3, <1>4, <1>5, <1>6

\* Everything else leaves both ends as they are.
LEMMA NextIsChannelStep ==
  ASSUME SessionInv, OneOpening, Next
  PROVE  ChannelStep
<1>1. ASSUME UNCHANGED <<dash, ctl, peers>> PROVE ChannelStep
  <2>1. \A b \in DashConn : Stays(b)
    BY <1>1, NotTouched
  <2> QED BY <2>1 DEF ChannelStep
<1>2. ASSUME NEW c \in Conn, RelayStep(c) PROVE ChannelStep
  BY <1>1, <1>2 DEF RelayStep, RelayJoin, RelayRead, RelayForward, RelayEnd, RelayCleanup, ctlVars, dashVars
<1>3. ASSUME ctl \in CtlConn, NEW p \in PeerId, CtlPeerJoin(p) \/ CtlPeerLeave(p) PROVE ChannelStep
  <2>1. dash' = dash /\ ctl' = ctl
    BY <1>3 DEF CtlPeerJoin, CtlPeerLeave, dashVars
  <2>2. PICK z : peers' = [peers EXCEPT ![p] = z] /\ z.st \notin {"answered", "ready"}
    <3>1. NoPeer.st = "none" /\ Awaiting.st = "awaiting"
      BY DEF NoPeer, Awaiting
    <3> QED BY <1>3, <3>1 DEF CtlPeerJoin, CtlPeerLeave
  <2> QED BY <2>1, <2>2, PeerGoes
<1>4. ASSUME ctl \in CtlConn, NEW p \in PeerId, NEW d \in Frame, CtlBadHandshake(p, d) PROVE ChannelStep
  <2>1. dash' = dash /\ ctl' = ctl /\ peers' = [peers EXCEPT ![p] = NoPeer]
    BY <1>4 DEF CtlBadHandshake, dashVars
  <2>2. NoPeer.st = "none"
    BY DEF NoPeer
  <2> QED BY <2>1, <2>2, PeerGoes
<1>5. ASSUME ctl \in CtlConn, CtlIgnore \/ \E p \in PeerId, d \in Frame : CtlUnknown(p, d) PROVE ChannelStep
  BY <1>1, <1>5 DEF CtlIgnore, CtlUnknown, ctlVars, dashVars
<1>6. ASSUME NEW c \in DashConn, DashConnect(c) \/ DashClose(c) \/ DashIgnore(c) PROVE ChannelStep
  BY <1>1, <1>6 DEF DashConnect, DashClose, DashIgnore, ctlVars, dashVars
<1> QED BY <1>2, <1>3, <1>4, <1>5, <1>6, Msg1Channel, Msg3Channel, DataChannel, HangupChannel, FanoutChannel,
      DashChannel, StepCases

\* Every handshake is begun once and answered at most once, and its answer is
\* read at most once: names may be shared, connections replaced, frames lost.
THEOREM OpenedOnce == Spec => []OneOpening
<1> QED BY InitSessionInv, StepSessionInv, InitOneOpening, StepOneOpening, PTL DEF Spec

\* The controller's inbound loop gets, of what a dashboard sends in a session, a
\* prefix, each frame once and in order: the relay, the handshakes of both ends
\* and their reconnects implement the abstract channel, step by step.
THEOREM ChannelImplemented == Spec => ImplementsInputChannel
<1>1. Init => Channel!Init
  <2> SUFFICES ASSUME Init PROVE Channel!Init
    OBVIOUS
  <2>1. \A c \in DashConn : dash[c].st = "none" /\ dash[c].tx = 0
    BY DEF Init, NoDash
  <2>2. \A c \in DashConn : LinkState(c) = "none"
    BY <2>1 DEF LinkState
  <2> QED BY <2>1, <2>2 DEF Channel!Init
<1>2. SessionInv /\ OneOpening /\ [Next]_vars => [Channel!Next]_(Channel!vars)
  <2> SUFFICES ASSUME SessionInv, OneOpening, [Next]_vars PROVE [Channel!Next]_(Channel!vars)
    OBVIOUS
  <2>1. CASE Next
    BY <2>1, NextIsChannelStep, ChannelStepIsNext
  <2>2. CASE UNCHANGED vars
    <3>1. UNCHANGED <<ctl, peers, dash>>
      BY <2>2 DEF vars, ctlVars, dashVars
    <3>2. \A c \in DashConn : LinkState(c)' = LinkState(c)
      BY <3>1 DEF LinkState
    <3> QED BY <3>1, <3>2 DEF Channel!vars
  <2> QED BY <2>1, <2>2
<1> QED BY <1>1, <1>2, InitSessionInv, StepSessionInv, InitOneOpening, StepOneOpening, PTL
      DEF Spec, ImplementsInputChannel, Channel!Spec

-----------------------------------------------------------------------------
(* Where connections stand: what a link between two of them rests on.      *)

\* The controller's connection is open; a handler ends only for a client that
\* has gone, begins only for one that is there, and its writer outlives it.
Connected == ctl # NoConn => client[ctl] = "open"
EndsLate  == \A a \in Conn : phase[a] \in {"leaving", "gone"} => client[a] = "closed"
Reached   == \A a \in Conn : phase[a] # "joining" => client[a] # "new"
WriterUp  == \A a \in Conn : writer[a] = "stopped" => phase[a] = "gone"

\* Nobody sends to a connection that has not joined, except that it is refused.
Unjoined == \A a \in Conn : ~HasJoined(a) => queue[a] \in Seq({Error})

\* What a handler is about to send is its own client's frame, for someone who has
\* joined.
AuthoredBy(a, d) == (FromDash(d) => d.c = a) /\ (~FromDash(d) => d.k = a)
HeldOwn == \A a \in Conn : pending[a] # <<>> =>
  /\ \E r \in Conn : pending[a][1].rcpt = r /\ HasJoined(r)
  /\ pending[a][1].env \in Genuine /\ AuthoredBy(a, pending[a][1].env.data)

\* A dashboard that shares its name with nobody is the one registered under it.
Registered == \A c \in DashConn :
  phase[c] = "routing" /\ ~NameShared(c) => dashboards[TheRoom][DashName[c]] = c

\* Both ends of a session have joined.
PeersJoined == \A p \in PeerId : peers[p].st # "none" => HasJoined(ctl)
DoneJoined  == \A c \in DashConn : dash[c].st = "done" => HasJoined(c)

LinkInv ==
  /\ RegistryConsistent /\ Connected /\ EndsLate /\ Reached /\ WriterUp
  /\ Unjoined /\ HeldOwn /\ Registered /\ PeersJoined /\ DoneJoined

LEMMA InitLinkInv == Init => LinkInv
<1> SUFFICES ASSUME Init PROVE LinkInv
  OBVIOUS
<1>1. /\ ctl = NoConn
      /\ \A a \in Conn : /\ phase[a] = "joining" /\ writer[a] = "running"
                         /\ queue[a] = <<>> /\ pending[a] = <<>>
      /\ \A p \in PeerId : peers[p].st = "none"
      /\ \A c \in DashConn : dash[c].st = "none"
      /\ \A r \in Room : controller[r] = NoConn
      /\ \A r \in Room, p \in PeerId : dashboards[r][p] = NoConn
  BY ConnParts DEF Init, RelayInit, NoPeer, NoDash
<1>2. RegistryConsistent
  BY <1>1, RelayAssumption DEF RegistryConsistent, Live
<1>3. Connected /\ EndsLate /\ Reached /\ WriterUp
  BY <1>1 DEF Connected, EndsLate, Reached, WriterUp
<1>6. HeldOwn
  BY <1>1 DEF HeldOwn
<1>7. PeersJoined /\ DoneJoined
  <2>1. PeersJoined
    BY <1>1 DEF PeersJoined
  <2>2. DoneJoined
    <3>1. \A c \in DashConn : dash[c].st # "done"
      BY <1>1
    <3> QED BY <3>1 DEF DoneJoined
  <2> QED BY <2>1, <2>2
<1>4. Unjoined
  <2>1. <<>> \in Seq({Error})
    BY EmptySeq
  <2> QED BY <1>1, <2>1 DEF Unjoined
<1>5. Registered
  BY <1>1, ConnParts DEF Registered
<1> QED BY <1>2, <1>3, <1>4, <1>5, <1>6, <1>7 DEF LinkInv

\* The steps of clients leave the relay's handlers alone.
LEMMA ClientStep ==
  ASSUME SessionInv, [Next]_vars, ~(\E c \in Conn : RelayStep(c))
  PROVE  UNCHANGED <<controller, dashboards, phase, ident, pending, writer, lost>>
<1>1. ASSUME NEW c \in Conn, NEW env, Take(c, env)
      PROVE  UNCHANGED <<controller, dashboards, phase, ident, pending, writer, lost>>
  BY <1>1 DEF Take, registry, handlers
<1>2. CASE UNCHANGED relayVars
  BY <1>2 DEF relayVars
<1>3. CASE UNCHANGED vars
  BY <1>3 DEF vars, relayVars
<1>4. CASE Next
  BY <1>1, <1>2, <1>4, StepCases, ConnParts DEF CtlConnect, CtlDisconnect, CtlIgnore, CtlPeerJoin,
    CtlPeerLeave, CtlUnknown, CtlMsg1, CtlMsg3, CtlBadHandshake, CtlData, CtlFanout, DashConnect,
    DashClose, DashInput, DashIgnore, DashPeerJoin, DashPeerLeave, DashMsg2, DashThrow, DashData, Hangup
<1> QED BY <1>3, <1>4

\* The steps of the relay leave its clients alone.
LEMMA RelayKeeps ==
  ASSUME NEW c \in Conn, RelayStep(c)
  PROVE  UNCHANGED <<client, ctl, peers, table, file, dash, inputs, outs>>
BY DEF RelayStep, RelayJoin, RelayRead, RelayForward, RelayEnd, RelayCleanup, clientVars, ctlVars,
       dashVars, counters

\* A client opens, then closes.
LEMMA ClientMoves ==
  ASSUME SessionInv, [Next]_vars, NEW a \in Conn
  PROVE  \/ client'[a] = client[a]
         \/ client[a] = "new" /\ client'[a] = "open"
         \/ client[a] = "open" /\ client'[a] = "closed"
<1>0. client \in [Conn -> {"new", "open", "closed"}]
  BY DEF SessionInv, TypeOK
<1>1. CASE client' = client
  BY <1>1
<1>2. CASE \E c \in Conn : client[c] = "new" /\ client' = [client EXCEPT ![c] = "open"]
  BY <1>0, <1>2
<1>3. CASE \E c \in Conn : Hangup(c)
  BY <1>0, <1>3 DEF Hangup
<1>4. \/ client' = client
      \/ \E c \in Conn : client[c] = "new" /\ client' = [client EXCEPT ![c] = "open"]
      \/ \E c \in Conn : Hangup(c)
  <2>1. CASE UNCHANGED vars
    BY <2>1 DEF vars, clientVars
  <2>2. CASE Next
    BY <2>2, StepCases, RelayKeeps, ConnParts DEF CtlConnect, CtlDisconnect, CtlIgnore, CtlPeerJoin,
      CtlPeerLeave, CtlUnknown, CtlMsg1, CtlMsg3, CtlBadHandshake, CtlData, CtlFanout, DashConnect,
      DashClose, DashInput, DashIgnore, DashPeerJoin, DashPeerLeave, DashMsg2, DashThrow, DashData, Take
  <2> QED BY <2>1, <2>2
<1> QED BY <1>1, <1>2, <1>3, <1>4

\* A handler joins or refuses, routes until its client has gone, and cleans up.
LEMMA PhaseMoves ==
  ASSUME SessionInv, [Next]_vars, NEW a \in Conn
  PROVE  \/ phase'[a] = phase[a]
         \/ phase[a] = "joining" /\ phase'[a] \in {"refused", "routing"} /\ client[a] # "new"
         \/ phase[a] = "routing" /\ phase'[a] = "leaving" /\ client[a] = "closed"
         \/ phase[a] = "leaving" /\ phase'[a] = "gone"
<1>0. phase \in [Conn -> {"joining", "refused", "routing", "leaving", "gone"}]
  BY DEF SessionInv, RelayTyped, RegistryTyped, HandlersOK
<1>1. ASSUME NEW c \in Conn, RelayStep(c)
      PROVE  \/ phase' = phase
             \/ /\ phase[c] = "joining" /\ client[c] # "new"
                /\ \E x \in {"refused", "routing"} : phase' = [phase EXCEPT ![c] = x]
             \/ phase[c] = "routing" /\ client[c] = "closed" /\ phase' = [phase EXCEPT ![c] = "leaving"]
             \/ phase[c] = "leaving" /\ phase' = [phase EXCEPT ![c] = "gone"]
  <2>1. CASE RelayJoin(c)
    BY <2>1 DEF RelayJoin, JoinController, JoinDashboard, Refuse
  <2>2. CASE RelayRead(c) \/ RelayForward(c)
    BY <2>2 DEF RelayRead, RelayForward, RouteLookup, RouteSend
  <2>3. CASE RelayEnd(c)
    BY <2>3 DEF RelayEnd, StreamEnd
  <2>4. CASE RelayCleanup(c)
    BY <2>4 DEF RelayCleanup, Cleanup
  <2> QED BY <1>1, <2>1, <2>2, <2>3, <2>4 DEF RelayStep
<1>2. CASE phase' = phase
  BY <1>2
<1> QED BY <1>0, <1>1, <1>2, ClientStep

LEMMA JoinedStays ==
  ASSUME SessionInv, [Next]_vars, NEW a \in Conn, HasJoined(a)
  PROVE  HasJoined(a)'
BY PhaseMoves DEF HasJoined

\* Whoever is in the registry has joined.
LEMMA RegistryJoined ==
  ASSUME RegistryConsistent, NEW r \in Room
  PROVE  /\ \A a \in Conn : controller[r] = a => HasJoined(a)
         /\ \A p \in PeerId : dashboards[r][p] # NoConn => HasJoined(dashboards[r][p])
<1>1. SlotOwned /\ NamesLive
  BY RegistryParts
<1>2. \A a : Live(a) => HasJoined(a)
  BY DEF Live, HasJoined
<1>3. \A a \in Conn : controller[r] = a => HasJoined(a)
  BY <1>1, <1>2 DEF SlotOwned
<1>4. \A p \in PeerId : dashboards[r][p] # NoConn => HasJoined(dashboards[r][p])
  BY <1>1, <1>2 DEF NamesLive
<1> QED BY <1>3, <1>4

\* An envelope that is not a refusal reaches only who has joined.
LEMMA TakeJoined ==
  ASSUME SessionInv, Unjoined, NEW c \in Conn, NEW env, Take(c, env), env # Error
  PROVE  HasJoined(c)
<1>1. env = Head(queue[c]) /\ queue[c] # <<>>
  BY DEF Take
<1> SUFFICES ASSUME queue[c] \in Seq({Error}) PROVE FALSE
  BY DEF Unjoined
<1>2. Head(queue[c]) \in {Error}
  BY <1>1, HeadTailProperties
<1> QED BY <1>1, <1>2

LEMMA ConnectedStays == ASSUME SessionInv, LinkInv, [Next]_vars PROVE Connected'
<1>0. /\ client \in [Conn -> {"new", "open", "closed"}] /\ (ctl # NoConn => client[ctl] = "open")
      /\ (ctl # NoConn => ctl \in Conn /\ ctl \notin DashConn)
  BY ConnParts DEF LinkInv, Connected, SessionInv, TypeOK
<1>1. CASE UNCHANGED <<ctl, client>>
  BY <1>0, <1>1 DEF Connected
<1>2. ASSUME NEW c \in CtlConn, CtlConnect(c) PROVE Connected'
  BY <1>0, <1>2, ConnParts DEF CtlConnect, Connected
<1>3. CASE CtlDisconnect
  BY <1>3 DEF CtlDisconnect, Connected
<1>4. ASSUME NEW c \in DashConn, DashConnect(c) \/ DashClose(c) PROVE Connected'
  BY <1>0, <1>4 DEF DashConnect, DashClose, Hangup, ctlVars, Connected
<1>5. CASE UNCHANGED vars
  BY <1>1, <1>5 DEF vars, ctlVars, clientVars
<1>6. CASE Next
  <2>1. ASSUME CtlFanout \/ CtlIgnore \/ \E p \in PeerId : CtlPeerJoin(p) \/ CtlPeerLeave(p)
        PROVE  UNCHANGED <<ctl, client>>
    BY <2>1 DEF CtlFanout, CtlIgnore, CtlPeerJoin, CtlPeerLeave, Take, ctlVars
  <2>2. ASSUME NEW p \in PeerId, NEW d \in Frame,
               \/ CtlUnknown(p, d) \/ CtlMsg1(p, d) \/ CtlMsg3(p, d)
               \/ CtlBadHandshake(p, d) \/ CtlData(p, d)
        PROVE  UNCHANGED <<ctl, client>>
    BY <2>2 DEF CtlUnknown, CtlMsg1, CtlMsg3, CtlBadHandshake, CtlData, Take, ctlVars
  <2>3. ASSUME NEW c \in DashConn, DashInput(c) \/ DashIgnore(c) \/ DashPeerJoin(c) \/ DashPeerLeave(c)
        PROVE  UNCHANGED <<ctl, client>>
    BY <2>3 DEF DashInput, DashIgnore, DashPeerJoin, DashPeerLeave, Take, ctlVars
  <2>4. ASSUME NEW c \in DashConn, NEW d \in Frame, DashMsg2(c, d) \/ DashThrow(c, d) \/ DashData(c, d)
        PROVE  UNCHANGED <<ctl, client>>
    BY <2>4 DEF DashMsg2, DashThrow, DashData, Take, ctlVars
  <2> QED BY <1>1, <1>2, <1>3, <1>4, <1>6, <2>1, <2>2, <2>3, <2>4, StepCases, RelayKeeps
<1> QED BY <1>5, <1>6

LEMMA HandlersStay ==
  ASSUME SessionInv, LinkInv, [Next]_vars
  PROVE  EndsLate' /\ Reached' /\ WriterUp'
<1>1. EndsLate'
  BY PhaseMoves, ClientMoves DEF LinkInv, EndsLate
<1>2. Reached'
  BY PhaseMoves, ClientMoves DEF LinkInv, Reached
<1>3. WriterUp'
  <2> SUFFICES ASSUME NEW a \in Conn, writer'[a] = "stopped" PROVE phase'[a] = "gone"
    BY DEF WriterUp
  <2>1. CASE writer[a] = "stopped"
    BY <2>1, PhaseMoves DEF LinkInv, WriterUp
  <2>2. CASE writer[a] # "stopped"
    <3>1. PICK c \in Conn : RelayStep(c)
      BY <2>2, ClientStep
    <3>2. Cleanup(c)
      BY <2>2, <3>1 DEF RelayStep, RelayJoin, RelayRead, RelayForward, RelayEnd, RelayCleanup,
        JoinController, JoinDashboard, Refuse, Send, RouteLookup, RouteSend, StreamEnd, outgoing
    <3> QED BY <2>2, <3>2 DEF Cleanup, SessionInv, RelayTyped, RegistryTyped, HandlersOK, QueuesOK
  <2> QED BY <2>1, <2>2
<1> QED BY <1>1, <1>2, <1>3

LEMMA RegistryStays == ASSUME SessionInv, LinkInv, [Next]_vars PROVE RegistryConsistent'
<1>0. RegistryTyped /\ RegistryConsistent
  BY DEF SessionInv, RelayTyped, LinkInv
<1>1. CASE UNCHANGED <<controller, dashboards, phase, ident>>
  BY <1>0, <1>1, RegistryFrame DEF Live
<1>2. ASSUME NEW c \in Conn, RelayStep(c) PROVE RegistryConsistent'
  <2>1. CASE RelayJoin(c)
    BY <1>0, <2>1, RoomGiven, ConnParts, JoinControllerRegistry, JoinDashboardRegistry DEF RelayJoin
  <2>2. CASE RelayRead(c) \/ RelayForward(c)
    BY <1>1, <2>2 DEF RelayRead, RelayForward, RouteLookup, RouteSend, registry
  <2>3. CASE RelayEnd(c)
    <3>1. UNCHANGED <<controller, dashboards, ident>> /\ phase[c] = "routing"
          /\ phase' = [phase EXCEPT ![c] = "leaving"]
      BY <2>3 DEF RelayEnd, StreamEnd, registry
    <3>2. \A d \in Conn : Live(d)' <=> Live(d)
      BY <1>0, <3>1 DEF Live, RegistryTyped, HandlersOK
    <3> QED BY <1>0, <3>1, <3>2, RegistryFrame
  <2>4. CASE RelayCleanup(c)
    BY <1>0, <2>4, CleanupRegistry DEF RelayCleanup
  <2> QED BY <1>2, <2>1, <2>2, <2>3, <2>4 DEF RelayStep
<1> QED BY <1>1, <1>2, ClientStep

\* Mail for others changes nothing.
LEMMA NoMail ==
  ASSUME SessionInv, NEW a \in Conn, NEW mail, Send(mail), mail[a] = <<>>
  PROVE  queue'[a] = queue[a]
<1> PICK E : E = Envelopes
  OBVIOUS
<1>1. Accepted(a, mail[a]) = <<>>
  <2>1. <<>> \in Seq(Notices) /\ Len(<<>>) = 0
    BY EmptySeq
  <2>2. Len(queue[a]) \in Nat /\ Len(queue[a]) <= Cap /\ Cap \in Nat
    BY RelayTypedNow, RelayAssumption, LenProperties DEF RelayTyped, QueuesOK
  <2>3. SubSeq(<<>>, 1, 0) = <<>>
    BY SubSeqEmpty
  <2> QED BY <2>1, <2>2, <2>3 DEF Accepted
<1>2. queue'[a] = queue[a] \o <<>>
  BY <1>1 DEF Send
<1>3. queue[a] \in Seq(E)
  BY RelayTypedNow DEF RelayTyped, QueuesOK
<1> QED BY <1>2, <1>3, ConcatEmptySeq

\* A step of the relay that is no join, no route and no cleanup sends nothing.
LEMMA UnjoinedStays == ASSUME SessionInv, LinkInv, [Next]_vars PROVE Unjoined'
<1> SUFFICES ASSUME NEW a \in Conn, ~HasJoined(a)' PROVE queue'[a] \in Seq({Error})
  BY DEF Unjoined
<1>0. ~HasJoined(a) /\ queue[a] \in Seq({Error})
  BY JoinedStays DEF LinkInv, Unjoined
<1>1. CASE queue'[a] = queue[a]
  BY <1>0, <1>1
<1>2. ASSUME NEW mail, Send(mail), mail[a] = <<>> PROVE queue'[a] = queue[a]
  BY <1>2, NoMail
<1>3. /\ \A r \in Room : controller[r] # a
      /\ \A r \in Room : a \notin DashboardConn(r)
  <2>1. \A r \in Room, p \in PeerId : dashboards[r][p] # a
    <3> SUFFICES ASSUME NEW r \in Room, NEW p \in PeerId, dashboards[r][p] = a PROVE FALSE
      OBVIOUS
    <3>1. dashboards[r][p] # NoConn
      BY RelayAssumption
    <3> QED BY <1>0, <3>1, RegistryJoined DEF LinkInv
  <2>2. \A r \in Room : controller[r] # a
    BY <1>0, RegistryJoined DEF LinkInv
  <2> QED BY <2>1, <2>2 DEF DashboardConn, Present
<1>4. ASSUME NEW c \in Conn, RelayJoin(c) PROVE queue'[a] \in Seq({Error})
  <2>1. CASE Refuse(c)
    <3>1. Send(MailTo(c, <<Error>>))
      BY <2>1 DEF Refuse
    <3>2. CASE a = c
      <4>1. queue'[a] = queue[a] \o Accepted(a, <<Error>>)
        BY <3>1, <3>2 DEF Send, MailTo
      <4>2. Accepted(a, <<Error>>) \in Seq({Error})
        <5> PICK E : E = Envelopes
          OBVIOUS
        <5>1. <<Error>> \in Seq({Error})
          OBVIOUS
        <5> QED BY <5>1, RelayTypedNow, AcceptedPrefix
      <4> QED BY <1>0, <4>1, <4>2, ConcatProperties
    <3>3. CASE a # c
      BY <1>1, <1>2, <3>1, <3>3 DEF MailTo
    <3> QED BY <3>2, <3>3
  <2>2. CASE ~Refuse(c)
    <3>1. phase' = [phase EXCEPT ![c] = "routing"]
      BY <1>4, <2>2 DEF RelayJoin, JoinController, JoinDashboard
    <3>2. a # c
      BY <3>1 DEF HasJoined, SessionInv, RelayTyped, RegistryTyped, HandlersOK
    <3>3. CASE c \in CtlConn
      <4>1. PICK order \in SetToSeqs(Present(TheRoom)) :
              Send([d \in Conn |->
                      IF d = c THEN Greeting(order)
                      ELSE IF d \in DashboardConn(TheRoom) THEN <<PeerJoin(Controller)>>
                      ELSE <<>>])
        BY <1>4, <2>2, <3>3 DEF RelayJoin, JoinController
      <4> QED BY <1>1, <1>2, <1>3, <3>2, <4>1, RoomGiven
    <3>4. CASE c \notin CtlConn
      <4> DEFINE mail == [d \in Conn |->
             IF d = c THEN Greeting(IF controller[TheRoom] = NoConn THEN <<>> ELSE <<Controller>>)
             ELSE IF d = controller[TheRoom] THEN <<PeerJoin(DashName[c])>>
             ELSE <<>>]
      <4>1. Send(mail)
        BY <1>4, <3>4 DEF RelayJoin, JoinDashboard
      <4>2. mail[a] = <<>>
        BY <1>3, <3>2, RoomGiven
      <4> HIDE DEF mail
      <4> QED BY <1>1, <1>2, <4>1, <4>2
    <3> QED BY <3>3, <3>4
  <2> QED BY <2>1, <2>2
<1>5. ASSUME NEW c \in Conn, RelayForward(c) PROVE queue'[a] = queue[a]
  <2>1. pending[c] # <<>> /\ Send(MailTo(pending[c][1].rcpt, <<pending[c][1].env>>))
    BY <1>5 DEF RelayForward, RouteSend
  <2>2. pending[c][1].rcpt # a
    BY <1>0, <2>1 DEF LinkInv, HeldOwn
  <2>3. MailTo(pending[c][1].rcpt, <<pending[c][1].env>>)[a] = <<>>
    BY <2>2 DEF MailTo
  <2> QED BY <1>2, <2>1, <2>3
<1>6. ASSUME NEW c \in Conn, RelayCleanup(c) PROVE queue'[a] = queue[a]
  <2>1. a # c
    BY <1>0, <1>6 DEF RelayCleanup, Cleanup, HasJoined
  <2>2. a \notin LeaveAudience(c)
    <3>1. ident[c].room \in Room
      BY DEF SessionInv, RelayTyped, RegistryTyped, HandlersOK, Ident
    <3> QED BY <1>3, <3>1 DEF LeaveAudience
  <2>3. queue'[a] = queue[a] \o <<>>
    BY <1>6, <2>1, <2>2 DEF RelayCleanup, Cleanup
  <2> QED BY <1>0, <2>3, ConcatEmptySeq
<1>7. ASSUME NEW c \in Conn, RelayRead(c) \/ RelayEnd(c) PROVE queue'[a] = queue[a]
  BY <1>7 DEF RelayRead, RelayEnd, RouteLookup, StreamEnd, outgoing
<1>8. ASSUME NEW c \in Conn, NEW env, Take(c, env) PROVE queue'[a] \in Seq({Error})
  <2>1. queue \in [Conn -> Seq(Envelopes)] /\ queue[c] # <<>> /\ queue' = [queue EXCEPT ![c] = Tail(@)]
    BY <1>8 DEF Take, SessionInv, RelayTyped, QueuesOK
  <2>2. queue'[a] = IF a = c THEN Tail(queue[a]) ELSE queue[a]
    BY <2>1
  <2>3. queue[a] # <<>> => Tail(queue[a]) \in Seq({Error})
    BY <1>0, HeadTailProperties
  <2> QED BY <1>0, <2>1, <2>2, <2>3
<1>9. CASE queue' = queue
  BY <1>1, <1>9
<1>10. CASE Next
  BY <1>1, <1>4, <1>5, <1>6, <1>7, <1>8, <1>9, <1>10, StepCases, ConnParts DEF RelayStep, CtlConnect,
    CtlDisconnect, CtlIgnore, CtlPeerJoin, CtlPeerLeave, CtlUnknown, CtlMsg1, CtlMsg3, CtlBadHandshake,
    CtlData, CtlFanout, DashConnect, DashClose, DashInput, DashIgnore, DashPeerJoin, DashPeerLeave,
    DashMsg2, DashThrow, DashData, Hangup, relayVars
<1> QED BY <1>9, <1>10 DEF vars, relayVars

LEMMA HeldOwnStays == ASSUME SessionInv, LinkInv, [Next]_vars PROVE HeldOwn'
<1> SUFFICES ASSUME NEW a \in Conn, pending'[a] # <<>>
             PROVE  /\ \E r \in Conn : pending'[a][1].rcpt = r /\ HasJoined(r)'
                    /\ pending'[a][1].env \in Genuine'
                    /\ AuthoredBy(a, pending'[a][1].env.data)
  BY DEF HeldOwn, AuthoredBy, FromDash
<1> PICK E : E = Envelopes
  OBVIOUS
<1>0. pending \in [Conn -> Seq(Packages(E))]
  BY RelayTypedNow DEF RelayTyped, HeldOK
<1>1. Genuine \subseteq Genuine'
  BY SoundStable DEF Genuine, FromDash
<1>2. CASE pending'[a] = pending[a]
  <2>3. PICK r \in Conn : pending[a][1].rcpt = r /\ HasJoined(r)
    BY <1>2 DEF LinkInv, HeldOwn
  <2>5. HasJoined(r)'
    BY <2>3, JoinedStays
  <2>4. pending[a][1].env \in Genuine /\ AuthoredBy(a, pending[a][1].env.data)
    BY <1>2 DEF LinkInv, HeldOwn
  <2> QED BY <1>1, <1>2, <2>3, <2>4, <2>5
<1>3. CASE pending'[a] # pending[a]
  <2>1. PICK c \in Conn : RelayStep(c)
    BY <1>3, ClientStep
  <2>2. ~RelayJoin(c) /\ ~RelayEnd(c) /\ ~RelayCleanup(c)
    BY <1>3 DEF RelayJoin, RelayEnd, RelayCleanup, JoinController, JoinDashboard, Refuse, StreamEnd, Cleanup
  <2>3. ~RelayForward(c)
    BY <1>0, <1>3 DEF RelayForward, RouteSend
  <2>4. RelayRead(c)
    BY <2>1, <2>2, <2>3 DEF RelayStep
  <2> PICK m : m = Head(wire[c])
    OBVIOUS
  <2>5. phase[c] = "routing" /\ wire[c] # <<>> /\ RouteLookup(c, m.to, m.data)
    BY <2>4 DEF RelayRead, RouteLookup
  <2> PICK d : d = Lookup(ident[c].room, m.to)
    OBVIOUS
  <2> PICK e : e = Deliver(ident[c].id, m.data)
    OBVIOUS
  <2>6. /\ pending' = [pending EXCEPT ![c] = IF d = NoConn THEN <<>> ELSE << [rcpt |-> d, env |-> e] >>]
        /\ phase' = phase
    BY <2>5 DEF RouteLookup
  <2>7. a = c /\ d # NoConn /\ pending'[a] = << [rcpt |-> d, env |-> e] >>
    BY <1>0, <1>3, <2>6
  <2>8. m \in Outgoing(c) /\ m.to \in Name /\ e \in Genuine /\ e.data = m.data
    BY <2>5, ReadGenuine DEF Deliver
  <2>9. HasJoined(d)
    <3>1. ident[c].room \in Room
      BY DEF SessionInv, RelayTyped, RegistryTyped, HandlersOK, Ident
    <3>2. CASE m.to = Controller
      <4>1. d = controller[ident[c].room] /\ d \in Conn
        BY <2>7, <3>1, <3>2 DEF Lookup, SessionInv, RelayTyped, RegistryTyped, RegistryOK
      <4> QED BY <3>1, <4>1, RegistryJoined DEF LinkInv
    <3>3. CASE m.to # Controller
      <4>1. d = dashboards[ident[c].room][m.to] /\ m.to \in PeerId
        BY <2>8, <3>3 DEF Lookup, Name
      <4> QED BY <2>7, <3>1, <4>1, RegistryJoined DEF LinkInv
    <3> QED BY <3>2, <3>3
  <2>10. HasJoined(d)'
    BY <2>6, <2>9 DEF HasJoined
  <2>11. pending'[a][1].rcpt = d /\ pending'[a][1].env = e /\ d \in Conn
    <3>1. d \in Conn \cup {NoConn}
      BY <2>8 DEF Lookup, Name, SessionInv, RelayTyped, RegistryTyped, RegistryOK, HandlersOK, Ident
    <3> QED BY <2>7, <3>1
  <2>12. AuthoredBy(a, e.data)
    BY <2>7, <2>8 DEF Outgoing, AuthoredBy
  <2> QED BY <1>1, <2>8, <2>10, <2>11, <2>12
<1> QED BY <1>2, <1>3

LEMMA RegisteredStays == ASSUME SessionInv, LinkInv, [Next]_vars PROVE Registered'
<1> SUFFICES ASSUME NEW c \in DashConn, phase'[c] = "routing", ~NameShared(c)'
             PROVE  dashboards'[TheRoom][DashName[c]] = c
  BY DEF Registered
<1>0. /\ c \in Conn /\ TheRoom \in Room /\ DashName[c] \in PeerId
      /\ dashboards \in [Room -> [PeerId -> Conn \cup {NoConn}]]
      /\ phase \in [Conn -> {"joining", "refused", "routing", "leaving", "gone"}]
  BY ConnParts, RoomGiven DEF SessionInv, RelayTyped, RegistryTyped, RegistryOK, HandlersOK
<1>1. ~NameShared(c)
  <2>1. \A d \in DashConn : client[d] # "new" => client'[d] # "new"
    BY ClientMoves, ConnParts
  <2> QED BY <2>1 DEF NameShared
<1>2. phase[c] = "routing" => dashboards[TheRoom][DashName[c]] = c
  BY <1>1 DEF LinkInv, Registered
<1>3. CASE dashboards' = dashboards
  <2>1. phase[c] # "joining"
    <3> SUFFICES ASSUME phase[c] = "joining" PROVE FALSE
      OBVIOUS
    <3>1. PICK b \in Conn : RelayStep(b)
      BY ClientStep, <1>0
    <3>2. RelayJoin(b)
      BY <1>0, <3>1 DEF RelayStep, RelayRead, RelayForward, RelayEnd, RelayCleanup, RouteLookup,
        RouteSend, StreamEnd, Cleanup
    <3>3. b = c
      BY <1>0, <3>2 DEF RelayJoin, JoinController, JoinDashboard, Refuse
    <3>4. dashboards' = [dashboards EXCEPT ![TheRoom][DashName[c]] = c]
      BY <3>2, <3>3, ConnParts DEF RelayJoin, JoinDashboard
    <3>5. dashboards[TheRoom][DashName[c]] = c
      BY <1>0, <1>3, <3>4
    <3>6. HasJoined(c)
      BY <1>0, <3>5, RegistryJoined, RelayAssumption DEF LinkInv
    <3> QED BY <3>6 DEF HasJoined
  <2> QED BY <1>0, <1>2, <1>3, <2>1, PhaseMoves
<1>4. CASE dashboards' # dashboards
  <2>1. PICK b \in Conn : RelayStep(b)
    BY <1>4, ClientStep
  <2>2. CASE RelayJoin(b)
    <3>1. b \notin CtlConn
      BY <1>4, <2>2 DEF RelayJoin, JoinController, Refuse, registry
    <3>2. /\ b \in DashConn /\ client[b] # "new" /\ phase' = [phase EXCEPT ![b] = "routing"]
          /\ dashboards' = [dashboards EXCEPT ![TheRoom][DashName[b]] = b]
      BY <2>2, <3>1, ConnParts DEF RelayJoin, JoinDashboard
    <3>3. CASE b = c
      BY <1>0, <3>2, <3>3
    <3>4. CASE b # c
      <4>1. DashName[b] # DashName[c]
        BY <1>1, <3>2, <3>4 DEF NameShared
      <4>2. phase[c] = "routing"
        BY <1>0, <3>2, <3>4
      <4> QED BY <1>0, <1>2, <3>2, <4>1, <4>2
    <3> QED BY <3>3, <3>4
  <2>3. CASE RelayCleanup(b)
    <3>1. /\ phase[b] = "leaving" /\ phase' = [phase EXCEPT ![b] = "gone"]
          /\ ident[b].role = "dashboard"
          /\ dashboards' = [dashboards EXCEPT ![ident[b].room] = WithoutDashboard(ident[b].room, ident[b].id)]
      BY <1>4, <2>3 DEF RelayCleanup, Cleanup
    <3>2. b # c /\ phase[c] = "routing"
      BY <1>0, <3>1
    <3>3. ident[b] = Identity(b)
      BY <3>1 DEF SessionInv, Identified, HasJoined
    <3>4. b \in DashConn /\ ident[b].room = TheRoom /\ ident[b].id = DashName[b]
      BY <3>1, <3>3, ConnParts DEF Identity
    <3>5. client[b] # "new"
      BY <3>1 DEF LinkInv, Reached
    <3>6. DashName[b] # DashName[c]
      BY <1>1, <3>2, <3>4, <3>5 DEF NameShared
    <3>7. dashboards'[TheRoom] = [dashboards[TheRoom] EXCEPT ![DashName[b]] = NoConn]
      BY <1>0, <3>1, <3>4 DEF WithoutDashboard
    <3> QED BY <1>0, <1>2, <3>2, <3>6, <3>7
  <2>4. ~RelayRead(b) /\ ~RelayForward(b) /\ ~RelayEnd(b)
    BY <1>4 DEF RelayRead, RelayForward, RelayEnd, RouteLookup, RouteSend, StreamEnd, registry
  <2> QED BY <2>1, <2>2, <2>3, <2>4 DEF RelayStep
<1> QED BY <1>3, <1>4

LEMMA PeersJoinedStays == ASSUME SessionInv, LinkInv, [Next]_vars PROVE PeersJoined'
<1> SUFFICES ASSUME NEW p \in PeerId, peers'[p].st # "none" PROVE HasJoined(ctl)'
  BY DEF PeersJoined, HasJoined
<1>0. /\ peers \in [PeerId -> {NoPeer, Awaiting} \cup [st : {"answered"}, c : DashConn, n : Nat] \cup
        [st : {"ready"}, c : DashConn, n : Nat, key : {DashKey[c] : c \in DashConn}, tx : Nat, rx : Nat]]
      /\ NoPeer.st = "none" /\ Unjoined
      /\ (HasJoined(ctl) /\ ctl \in Conn => HasJoined(ctl)' \/ ctl' # ctl)
  <2>1. ASSUME HasJoined(ctl), ctl \in Conn, ctl' = ctl PROVE HasJoined(ctl)'
    BY <2>1, JoinedStays DEF HasJoined
  <2> QED BY <2>1 DEF SessionInv, TypeOK, NoPeer, LinkInv
<1>1. ASSUME ctl' = ctl, peers[p].st # "none" PROVE HasJoined(ctl)'
  <2>1. ctl # NoConn
    BY <1>0, <1>1 DEF SessionInv, TypeOK
  <2>2. ctl \in Conn /\ HasJoined(ctl)
    BY <1>1, <2>1, ConnParts DEF SessionInv, TypeOK, LinkInv, PeersJoined
  <2> QED BY <1>0, <1>1, <2>2
<1>2. ASSUME ctl \in CtlConn, ctl' = ctl, NEW env, Take(ctl, env), env # Error PROVE HasJoined(ctl)'
  <2>1. ctl \in Conn /\ HasJoined(ctl)
    BY <1>0, <1>2, ConnParts, TakeJoined
  <2> QED BY <1>0, <1>2, <2>1
<1>3. CASE UNCHANGED <<ctl, peers>>
  BY <1>1, <1>3
<1>4. ASSUME NEW c \in CtlConn, CtlConnect(c) PROVE FALSE
  BY <1>0, <1>4 DEF CtlConnect
<1>5. ASSUME CtlDisconnect PROVE FALSE
  BY <1>0, <1>5 DEF CtlDisconnect
<1>6. ASSUME NEW x \in PeerId, CtlPeerJoin(x) PROVE ctl' = ctl /\ Take(ctl, PeerJoin(x)) /\ PeerJoin(x) # Error
  BY <1>6 DEF CtlPeerJoin, PeerJoin, Error
<1>7. ASSUME NEW x \in PeerId, CtlPeerLeave(x) PROVE ctl' = ctl /\ Take(ctl, PeerLeave(x)) /\ PeerLeave(x) # Error
  BY <1>7 DEF CtlPeerLeave, PeerLeave, Error
<1>8. ASSUME NEW x \in PeerId, NEW d \in Frame,
             CtlMsg1(x, d) \/ CtlMsg3(x, d) \/ CtlBadHandshake(x, d) \/ CtlData(x, d) \/ CtlUnknown(x, d)
      PROVE  ctl' = ctl /\ Take(ctl, Deliver(x, d)) /\ Deliver(x, d) # Error
  BY <1>8 DEF CtlMsg1, CtlMsg3, CtlBadHandshake, CtlData, CtlUnknown, Deliver, Error, ctlVars
<1>9. ASSUME CtlFanout PROVE ctl' = ctl /\ peers[p].st # "none"
  BY <1>0, <1>9 DEF CtlFanout
<1>10. CASE Next
  <2>1. ASSUME CtlIgnore PROVE UNCHANGED <<ctl, peers>>
    BY <2>1 DEF CtlIgnore, ctlVars
  <2>2. ASSUME NEW c \in DashConn, \/ DashConnect(c) \/ DashClose(c) \/ DashInput(c)
                                   \/ DashIgnore(c) \/ DashPeerJoin(c) \/ DashPeerLeave(c)
        PROVE  UNCHANGED <<ctl, peers>>
    BY <2>2 DEF DashConnect, DashClose, DashInput, DashIgnore, DashPeerJoin, DashPeerLeave, ctlVars
  <2>3. ASSUME NEW c \in DashConn, NEW d \in Frame, DashMsg2(c, d) \/ DashThrow(c, d) \/ DashData(c, d)
        PROVE  UNCHANGED <<ctl, peers>>
    BY <2>3 DEF DashMsg2, DashThrow, DashData, ctlVars
  <2> QED BY <1>1, <1>2, <1>3, <1>4, <1>5, <1>6, <1>7, <1>8, <1>9, <1>10, <2>1, <2>2, <2>3, StepCases, RelayKeeps
<1> QED BY <1>3, <1>10 DEF vars, ctlVars

LEMMA DoneJoinedStays == ASSUME SessionInv, LinkInv, [Next]_vars PROVE DoneJoined'
<1> SUFFICES ASSUME NEW c \in DashConn, dash'[c].st = "done" PROVE HasJoined(c)'
  BY DEF DoneJoined, HasJoined
<1>0. c \in Conn /\ Unjoined /\ (HasJoined(c) => HasJoined(c)')
  BY ConnParts, JoinedStays DEF LinkInv
<1>1. CASE dash[c].st = "done"
  BY <1>0, <1>1 DEF LinkInv, DoneJoined
<1>2. CASE dash[c].st # "done"
  <2>0. dash' # dash /\ dash \in [DashConn -> [st : {"none", "m1", "done", "broken"}, n : Nat,
          k : CtlConn \cup {NoConn}, tx : Nat, rx : Nat, up : BOOLEAN]]
    BY <1>2 DEF SessionInv, TypeOK
  <2>1. Next
    BY <2>0 DEF vars, dashVars
  <2>2. PICK b \in DashConn : \/ DashInput(b) \/ DashPeerJoin(b) \/ DashPeerLeave(b)
          \/ \E d \in Frame : DashMsg2(b, d) \/ DashThrow(b, d) \/ DashData(b, d)
    BY <2>0, <2>1, StepCases, RelayKeeps DEF CtlConnect, CtlDisconnect, CtlIgnore, CtlPeerJoin, CtlPeerLeave,
      CtlUnknown, CtlMsg1, CtlMsg3, CtlBadHandshake, CtlData, CtlFanout, DashConnect, DashClose,
      DashIgnore, dashVars
  <2>3. ~DashInput(b) /\ ~DashPeerJoin(b) /\ ~DashPeerLeave(b)
    BY <1>2, <2>0 DEF DashInput, DashPeerJoin, DashPeerLeave, NoDash
  <2>4. \A d \in Frame : ~DashThrow(b, d) /\ ~DashData(b, d)
    BY <1>2, <2>0 DEF DashThrow, DashData
  <2>5. PICK d \in Frame : DashMsg2(b, d)
    BY <2>2, <2>3, <2>4
  <2>6. b = c /\ Take(c, Deliver(Controller, d)) /\ Deliver(Controller, d) # Error
    BY <1>2, <2>0, <2>5 DEF DashMsg2, Deliver, Error
  <2> QED BY <1>0, <2>6, TakeJoined
<1> QED BY <1>1, <1>2

LEMMA StepLinkInv == ASSUME SessionInv, LinkInv, [Next]_vars PROVE LinkInv'
BY ConnectedStays, HandlersStay, RegistryStays, UnjoinedStays, HeldOwnStays, RegisteredStays,
   PeersJoinedStays, DoneJoinedStays DEF LinkInv

-----------------------------------------------------------------------------
(* Runs of nonces in a sequence.                                           *)

\* A run, element by element.
LEMMA RunParts ==
  ASSUME NEW s, NEW M, NEW lo, NEW hi
  PROVE  Run(s, M, lo, hi) <=>
           /\ \A i \in DOMAIN s : s[i] \in M => s[i].data.i \in lo..hi - 1
           /\ \A v \in lo..hi - 1 : \E i \in DOMAIN s : s[i] \in M /\ s[i].data.i = v
           /\ \A i, j \in DOMAIN s : s[i] \in M /\ s[j] \in M /\ i < j => s[i].data.i < s[j].data.i
<1> DEFINE at == {i \in DOMAIN s : s[i] \in M}
           is == {s[i].data.i : i \in at}
<1>1. Run(s, M, lo, hi) <=> is = lo..hi - 1 /\ \A i, j \in at : i < j => s[i].data.i < s[j].data.i
  BY DEF Run
<1>2. is = lo..hi - 1 <=>
        /\ \A i \in DOMAIN s : s[i] \in M => s[i].data.i \in lo..hi - 1
        /\ \A v \in lo..hi - 1 : \E i \in DOMAIN s : s[i] \in M /\ s[i].data.i = v
  <2>1. is = lo..hi - 1 <=> (\A v \in is : v \in lo..hi - 1) /\ (\A v \in lo..hi - 1 : v \in is)
    OBVIOUS
  <2>2. (\A v \in is : v \in lo..hi - 1) <=> \A i \in DOMAIN s : s[i] \in M => s[i].data.i \in lo..hi - 1
    OBVIOUS
  <2>3. \A v : v \in is <=> \E i \in DOMAIN s : s[i] \in M /\ s[i].data.i = v
    OBVIOUS
  <2> QED BY <2>1, <2>2, <2>3
<1>3. (\A i, j \in at : i < j => s[i].data.i < s[j].data.i) <=>
        \A i, j \in DOMAIN s : s[i] \in M /\ s[j] \in M /\ i < j => s[i].data.i < s[j].data.i
  OBVIOUS
<1> HIDE DEF at, is
<1> QED BY <1>1, <1>2, <1>3

\* Without a member of M there is nothing between lo and lo, and conversely.
LEMMA RunNone ==
  ASSUME NEW s, NEW M, NEW lo \in Nat
  PROVE  Run(s, M, lo, lo) <=> ~Has(s, M)
<1>1. lo..lo - 1 = {}
  OBVIOUS
<1> QED BY <1>1, RunParts DEF Has

\* A single member.
LEMMA RunOne ==
  ASSUME NEW e, NEW M, NEW lo \in Nat, e \in M, e.data.i = lo
  PROVE  Run(<<e>>, M, lo, lo + 1)
<1>1. lo..(lo + 1) - 1 = {lo}
  OBVIOUS
<1>2. DOMAIN <<e>> = {1} /\ <<e>>[1] = e
  OBVIOUS
<1>3. \A i \in DOMAIN <<e>> : <<e>>[i].data.i \in lo..(lo + 1) - 1
  BY <1>1, <1>2
<1>4. \A v \in lo..(lo + 1) - 1 : \E i \in DOMAIN <<e>> : <<e>>[i] \in M /\ <<e>>[i].data.i = v
  BY <1>1, <1>2
<1>5. \A i, j \in DOMAIN <<e>> : ~(i < j)
  BY <1>2
<1> QED BY <1>3, <1>4, <1>5, RunParts

\* Runs that follow one another make one.
LEMMA RunConcat ==
  ASSUME NEW S, NEW s \in Seq(S), NEW t \in Seq(S), NEW M, NEW lo \in Nat, NEW mid \in Nat, NEW hi \in Nat,
         lo <= mid, mid <= hi, Run(s, M, lo, mid), Run(t, M, mid, hi)
  PROVE  Run(s \o t, M, lo, hi)
<1> PICK u : u = s \o t
  OBVIOUS
<1> PICK k : k = Len(s)
  OBVIOUS
<1> PICK l : l = Len(t)
  OBVIOUS
<1>1. /\ k \in Nat /\ l \in Nat /\ DOMAIN s = 1..k /\ DOMAIN t = 1..l /\ DOMAIN u = 1..k + l
      /\ \A i \in 1..k : u[i] = s[i]
      /\ \A i \in 1..l : u[i + k] = t[i]
  <2>1. /\ u \in Seq(S) /\ Len(u) = k + l
        /\ \A i \in 1..k + l : u[i] = IF i <= k THEN s[i] ELSE t[i - k]
    BY ConcatProperties
  <2>2. k \in Nat /\ l \in Nat /\ DOMAIN s = 1..k /\ DOMAIN t = 1..l /\ DOMAIN u = 1..k + l
    BY <2>1, LenProperties
  <2> QED BY <2>1, <2>2
<1>2. \A i \in 1..k + l : i \in 1..k \/ \E j \in 1..l : i = j + k
  <2> SUFFICES ASSUME NEW i \in 1..k + l, i \notin 1..k PROVE i - k \in 1..l /\ i = (i - k) + k
    OBVIOUS
  <2> QED BY <1>1
<1>3. /\ \A i \in 1..k : s[i] \in M => s[i].data.i \in lo..mid - 1
      /\ \A v \in lo..mid - 1 : \E i \in 1..k : s[i] \in M /\ s[i].data.i = v
      /\ \A i, j \in 1..k : s[i] \in M /\ s[j] \in M /\ i < j => s[i].data.i < s[j].data.i
  BY <1>1, RunParts
<1>4. /\ \A i \in 1..l : t[i] \in M => t[i].data.i \in mid..hi - 1
      /\ \A v \in mid..hi - 1 : \E i \in 1..l : t[i] \in M /\ t[i].data.i = v
      /\ \A i, j \in 1..l : t[i] \in M /\ t[j] \in M /\ i < j => t[i].data.i < t[j].data.i
  BY <1>1, RunParts
<1>5. \A i \in 1..k + l : u[i] \in M => u[i].data.i \in lo..hi - 1
  <2> SUFFICES ASSUME NEW i \in 1..k + l, u[i] \in M PROVE u[i].data.i \in lo..hi - 1
    OBVIOUS
  <2>1. CASE i \in 1..k
    <3>1. u[i].data.i \in lo..mid - 1
      BY <1>1, <1>3, <2>1
    <3> QED BY <3>1
  <2>2. ASSUME NEW j \in 1..l, i = j + k PROVE u[i].data.i \in lo..hi - 1
    <3>1. u[i].data.i \in mid..hi - 1
      BY <1>1, <1>4, <2>2
    <3> QED BY <3>1
  <2> QED BY <1>2, <2>1, <2>2
<1>6. \A v \in lo..hi - 1 : \E i \in 1..k + l : u[i] \in M /\ u[i].data.i = v
  <2> SUFFICES ASSUME NEW v \in lo..hi - 1 PROVE \E i \in 1..k + l : u[i] \in M /\ u[i].data.i = v
    OBVIOUS
  <2>1. CASE v < mid
    <3>1. v \in lo..mid - 1
      BY <2>1
    <3>2. PICK i \in 1..k : s[i] \in M /\ s[i].data.i = v
      BY <1>3, <3>1
    <3>3. i \in 1..k + l /\ u[i] = s[i]
      BY <1>1
    <3> QED BY <3>2, <3>3
  <2>2. CASE ~(v < mid)
    <3>1. v \in mid..hi - 1
      BY <2>2
    <3>2. PICK i \in 1..l : t[i] \in M /\ t[i].data.i = v
      BY <1>4, <3>1
    <3>3. i + k \in 1..k + l /\ u[i + k] = t[i]
      BY <1>1
    <3> QED BY <3>2, <3>3
  <2> QED BY <2>1, <2>2
<1>7. \A i, j \in 1..k + l : u[i] \in M /\ u[j] \in M /\ i < j => u[i].data.i < u[j].data.i
  <2> SUFFICES ASSUME NEW i \in 1..k + l, NEW j \in 1..k + l, u[i] \in M, u[j] \in M, i < j
               PROVE  u[i].data.i < u[j].data.i
    OBVIOUS
  <2>1. CASE i \in 1..k /\ j \in 1..k
    BY <1>1, <1>3, <2>1
  <2>2. ASSUME i \in 1..k, NEW y \in 1..l, j = y + k PROVE u[i].data.i < u[j].data.i
    <3>1. u[i].data.i \in lo..mid - 1
      BY <1>1, <1>3, <2>2
    <3>2. u[j].data.i \in mid..hi - 1
      BY <1>1, <1>4, <2>2
    <3>3. \A v \in lo..mid - 1, w \in mid..hi - 1 : v < w
      OBVIOUS
    <3> QED BY <3>1, <3>2, <3>3
  <2>3. ASSUME NEW x \in 1..l, i = x + k, NEW y \in 1..l, j = y + k PROVE u[i].data.i < u[j].data.i
    <3>1. x < y /\ u[i] = t[x] /\ u[j] = t[y]
      BY <1>1, <2>3
    <3> QED BY <1>4, <3>1
  <2>4. ASSUME NEW x \in 1..l, i = x + k, j \in 1..k PROVE FALSE
    BY <1>1, <2>4
  <2> QED BY <1>2, <2>1, <2>2, <2>3, <2>4
<1> QED BY <1>1, <1>5, <1>6, <1>7, RunParts

\* What is not of M makes no difference.
LEMMA RunMore ==
  ASSUME NEW S, NEW s \in Seq(S), NEW t \in Seq(S), NEW M, NEW lo \in Nat, NEW hi \in Nat,
         lo <= hi, Run(s, M, lo, hi)
  PROVE  /\ ~Has(t, M) => Run(s \o t, M, lo, hi)
         /\ \A e : t = <<e>> /\ e \in M /\ e.data.i = hi => Run(s \o t, M, lo, hi + 1)
<1>1. ASSUME ~Has(t, M) PROVE Run(s \o t, M, lo, hi)
  <2>1. Run(t, M, hi, hi)
    BY <1>1, RunNone
  <2> QED BY <2>1, RunConcat
<1>2. ASSUME NEW e, t = <<e>>, e \in M, e.data.i = hi PROVE Run(s \o t, M, lo, hi + 1)
  <2>1. Run(t, M, hi, hi + 1)
    BY <1>2, RunOne
  <2> QED BY <2>1, RunConcat
<1> QED BY <1>1, <1>2

\* The head of a run is its first nonce.
LEMMA RunTail ==
  ASSUME NEW S, NEW s \in Seq(S), s # <<>>, NEW M, NEW lo \in Nat, NEW hi \in Nat, lo <= hi,
         Run(s, M, lo, hi)
  PROVE  /\ Head(s) \notin M => Run(Tail(s), M, lo, hi)
         /\ Head(s) \in M => Head(s).data.i = lo /\ lo < hi /\ Run(Tail(s), M, lo + 1, hi)
<1> PICK t : t = Tail(s)
  OBVIOUS
<1> PICK k : k = Len(s)
  OBVIOUS
<1>1. /\ k \in Nat /\ k >= 1 /\ DOMAIN s = 1..k /\ DOMAIN t = 1..k - 1
      /\ Head(s) = s[1] /\ \A i \in 1..k - 1 : t[i] = s[i + 1]
  <2>1. t \in Seq(S) /\ Len(t) = k - 1 /\ Head(s) = s[1] /\ \A i \in 1..k - 1 : t[i] = s[i + 1]
    BY HeadTailProperties
  <2> QED BY <2>1, LenProperties, EmptySeq
<1>2. /\ \A i \in 1..k : s[i] \in M => s[i].data.i \in lo..hi - 1
      /\ \A v \in lo..hi - 1 : \E i \in 1..k : s[i] \in M /\ s[i].data.i = v
      /\ \A i, j \in 1..k : s[i] \in M /\ s[j] \in M /\ i < j => s[i].data.i < s[j].data.i
  BY <1>1, RunParts
<1>3. \A i \in 1..k : i = 1 \/ (i - 1 \in 1..k - 1 /\ s[i] = t[i - 1])
  BY <1>1
<1>4. \A i, j \in 1..k - 1 : t[i] \in M /\ t[j] \in M /\ i < j => t[i].data.i < t[j].data.i
  <2> SUFFICES ASSUME NEW i \in 1..k - 1, NEW j \in 1..k - 1, t[i] \in M, t[j] \in M, i < j
               PROVE  t[i].data.i < t[j].data.i
    OBVIOUS
  <2>1. i + 1 \in 1..k /\ j + 1 \in 1..k /\ i + 1 < j + 1 /\ t[i] = s[i + 1] /\ t[j] = s[j + 1]
    BY <1>1
  <2> QED BY <1>2, <2>1
<1>5. ASSUME Head(s) \notin M PROVE Run(t, M, lo, hi)
  <2>1. \A i \in 1..k - 1 : t[i] \in M => t[i].data.i \in lo..hi - 1
    <3> SUFFICES ASSUME NEW i \in 1..k - 1, t[i] \in M PROVE t[i].data.i \in lo..hi - 1
      OBVIOUS
    <3>1. i + 1 \in 1..k /\ t[i] = s[i + 1]
      BY <1>1
    <3> QED BY <1>2, <3>1
  <2>2. \A v \in lo..hi - 1 : \E i \in 1..k - 1 : t[i] \in M /\ t[i].data.i = v
    <3> SUFFICES ASSUME NEW v \in lo..hi - 1 PROVE \E i \in 1..k - 1 : t[i] \in M /\ t[i].data.i = v
      OBVIOUS
    <3>1. PICK i \in 1..k : s[i] \in M /\ s[i].data.i = v
      BY <1>2
    <3>2. i - 1 \in 1..k - 1 /\ s[i] = t[i - 1]
      BY <1>1, <1>3, <1>5, <3>1
    <3> QED BY <3>1, <3>2
  <2> QED BY <1>1, <1>4, <2>1, <2>2, RunParts
<1>6. ASSUME Head(s) \in M PROVE s[1].data.i = lo /\ lo < hi /\ Run(t, M, lo + 1, hi)
  <2>1. 1 \in 1..k /\ s[1] \in M /\ s[1].data.i \in lo..hi - 1
    BY <1>1, <1>2, <1>6
  <2>2. lo < hi /\ lo \in lo..hi - 1
    BY <2>1
  <2>3. PICK f \in 1..k : s[f] \in M /\ s[f].data.i = lo
    BY <1>2, <2>2
  <2>4. f = 1
    <3> SUFFICES ASSUME 1 < f PROVE FALSE
      BY <1>1
    <3>1. s[1].data.i < lo
      BY <1>2, <2>1, <2>3
    <3> QED BY <2>1, <3>1
  <2>5. \A i \in 1..k - 1 : t[i] \in M => t[i].data.i \in (lo + 1)..hi - 1
    <3> SUFFICES ASSUME NEW i \in 1..k - 1, t[i] \in M PROVE t[i].data.i \in (lo + 1)..hi - 1
      OBVIOUS
    <3>1. i + 1 \in 1..k /\ t[i] = s[i + 1] /\ 1 < i + 1
      BY <1>1
    <3>2. t[i].data.i \in lo..hi - 1 /\ lo < t[i].data.i
      BY <1>2, <2>1, <2>3, <2>4, <3>1
    <3> QED BY <3>2
  <2>6. \A v \in (lo + 1)..hi - 1 : \E i \in 1..k - 1 : t[i] \in M /\ t[i].data.i = v
    <3> SUFFICES ASSUME NEW v \in (lo + 1)..hi - 1 PROVE \E i \in 1..k - 1 : t[i] \in M /\ t[i].data.i = v
      OBVIOUS
    <3>1. v \in lo..hi - 1 /\ v # lo
      OBVIOUS
    <3>2. PICK i \in 1..k : s[i] \in M /\ s[i].data.i = v
      BY <1>2, <3>1
    <3>3. i - 1 \in 1..k - 1 /\ s[i] = t[i - 1]
      BY <1>1, <1>3, <2>3, <2>4, <3>1, <3>2
    <3> QED BY <3>2, <3>3
  <2> QED BY <1>1, <1>4, <2>2, <2>3, <2>4, <2>5, <2>6, RunParts
<1> QED BY <1>1, <1>5, <1>6

-----------------------------------------------------------------------------
(* What is under way in one direction of a session.                        *)

\* A run has its bounds in order, if it is in three parts.
LEMMA UnderWayBounds ==
  ASSUME NEW from, NEW rcpt, NEW X, NEW lo \in Nat, NEW hi \in Nat, UnderWay(from, rcpt, X, lo, hi)
  PROVE  \E a, b \in Nat : /\ lo <= a /\ a <= b /\ b <= hi
                           /\ Run(queue[rcpt], Carries(X), lo, a)
                           /\ Run(Held(pending[from], rcpt), Carries(X), a, b)
                           /\ Run(wire[from], Sends(X), b, hi)
BY DEF UnderWay

\* The three parts make the whole.
LEMMA UnderWayNow ==
  ASSUME NEW from, NEW rcpt, NEW X, NEW lo \in Nat, NEW hi \in Nat, NEW a \in Nat, NEW b \in Nat,
         lo <= a, a <= b, b <= hi
  PROVE  /\ /\ Run(queue[rcpt], Carries(X), lo, a)
            /\ Run(Held(pending[from], rcpt), Carries(X), a, b)
            /\ Run(wire[from], Sends(X), b, hi)
            => UnderWay(from, rcpt, X, lo, hi)
         /\ /\ Run(queue'[rcpt], Carries(X), lo, a)
            /\ Run(Held(pending'[from], rcpt), Carries(X), a, b)
            /\ Run(wire'[from], Sends(X), b, hi)
            => UnderWay(from, rcpt, X, lo, hi)'
<1>1. a \in lo..hi /\ b \in lo..hi
  OBVIOUS
<1> QED BY <1>1 DEF UnderWay, Held, Run

\* More in the recipient's queue that is not of X, more on the sender's wire.
LEMMA PathGrows ==
  ASSUME SessionInv, NEW from \in Conn, NEW rcpt \in Conn, NEW X, NEW lo \in Nat, NEW hi \in Nat,
         UnderWay(from, rcpt, X, lo, hi), pending'[from] = pending[from],
         \/ queue'[rcpt] = queue[rcpt]
         \/ \E S : \E t \in Seq(S) : /\ queue[rcpt] \in Seq(S) /\ ~Has(t, Carries(X))
                                     /\ queue'[rcpt] = queue[rcpt] \o t
  PROVE  /\ wire'[from] = wire[from] => UnderWay(from, rcpt, X, lo, hi)'
         /\ \A msgs \in Seq([to : Name, data : Frame]), top \in Nat :
              hi <= top /\ wire'[from] = wire[from] \o msgs /\ Run(msgs, Sends(X), hi, top)
                => UnderWay(from, rcpt, X, lo, top)'
<1>1. PICK a \in Nat, b \in Nat :
           /\ lo <= a /\ a <= b /\ b <= hi
           /\ Run(queue[rcpt], Carries(X), lo, a)
           /\ Run(Held(pending[from], rcpt), Carries(X), a, b)
           /\ Run(wire[from], Sends(X), b, hi)
  BY UnderWayBounds
<1>2. Run(queue'[rcpt], Carries(X), lo, a)
  <2>1. CASE queue'[rcpt] = queue[rcpt]
    BY <1>1, <2>1
  <2>2. CASE \E S : \E t \in Seq(S) : /\ queue[rcpt] \in Seq(S) /\ ~Has(t, Carries(X))
                                      /\ queue'[rcpt] = queue[rcpt] \o t
    BY <1>1, <2>2, RunMore
  <2> QED BY <2>1, <2>2
<1>3. Run(Held(pending'[from], rcpt), Carries(X), a, b)
  BY <1>1
<1>4. ASSUME wire'[from] = wire[from] PROVE UnderWay(from, rcpt, X, lo, hi)'
  <2>1. Run(wire'[from], Sends(X), b, hi)
    BY <1>1, <1>4
  <2> QED BY <1>1, <1>2, <1>3, <2>1, UnderWayNow
<1>5. ASSUME NEW msgs \in Seq([to : Name, data : Frame]), NEW top \in Nat,
             hi <= top, wire'[from] = wire[from] \o msgs, Run(msgs, Sends(X), hi, top)
      PROVE  UnderWay(from, rcpt, X, lo, top)'
  <2> PICK P : P = [to : Name, data : Frame]
    OBVIOUS
  <2>1. wire[from] \in Seq(P) /\ msgs \in Seq(P)
    BY DEF SessionInv, TypeOK
  <2>2. Run(wire'[from], Sends(X), b, top)
    BY <1>1, <1>5, <2>1, RunConcat
  <2>3. b <= top
    BY <1>1, <1>5
  <2> QED BY <1>1, <1>2, <1>3, <2>2, <2>3, UnderWayNow
<1> QED BY <1>4, <1>5

\* The recipient takes the head of its queue: of X, it is the next.
LEMMA PathTakes ==
  ASSUME SessionInv, NEW from \in Conn, NEW rcpt \in Conn, NEW X, NEW lo \in Nat, NEW hi \in Nat,
         UnderWay(from, rcpt, X, lo, hi), pending'[from] = pending[from], wire'[from] = wire[from],
         NEW env, Take(rcpt, env)
  PROVE  /\ env \notin Carries(X) => UnderWay(from, rcpt, X, lo, hi)'
         /\ env \in Carries(X) => /\ env.data.i = lo /\ lo < hi
                                  /\ UnderWay(from, rcpt, X, lo + 1, hi)'
<1>1. PICK a \in Nat, b \in Nat :
           /\ lo <= a /\ a <= b /\ b <= hi
           /\ Run(queue[rcpt], Carries(X), lo, a)
           /\ Run(Held(pending[from], rcpt), Carries(X), a, b)
           /\ Run(wire[from], Sends(X), b, hi)
  BY UnderWayBounds
<1>2. PICK S : queue[rcpt] \in Seq(S)
  BY Sequences
<1>3. /\ queue[rcpt] # <<>> /\ env = Head(queue[rcpt]) /\ queue'[rcpt] = Tail(queue[rcpt])
  <2> PICK E : E = Envelopes
    OBVIOUS
  <2>1. queue \in [Conn -> Seq(E)]
    BY RelayTypedNow DEF RelayTyped, QueuesOK
  <2> QED BY <2>1 DEF Take
<1>4. Run(Held(pending'[from], rcpt), Carries(X), a, b) /\ Run(wire'[from], Sends(X), b, hi)
  BY <1>1
<1>5. ASSUME env \notin Carries(X) PROVE UnderWay(from, rcpt, X, lo, hi)'
  <2>1. Run(queue'[rcpt], Carries(X), lo, a)
    BY <1>1, <1>2, <1>3, <1>5, RunTail
  <2> QED BY <1>1, <1>4, <2>1, UnderWayNow
<1>6. ASSUME env \in Carries(X)
      PROVE  env.data.i = lo /\ lo < hi /\ UnderWay(from, rcpt, X, lo + 1, hi)'
  <2>1. env.data.i = lo /\ lo < a /\ Run(queue'[rcpt], Carries(X), lo + 1, a)
    BY <1>1, <1>2, <1>3, <1>6, RunTail
  <2>2. lo + 1 \in Nat /\ lo + 1 <= a /\ lo < hi
    BY <1>1, <2>1
  <2>3. UnderWay(from, rcpt, X, lo + 1, hi)'
    BY <1>1, <1>4, <2>1, <2>2, UnderWayNow
  <2> QED BY <2>1, <2>2, <2>3
<1> QED BY <1>5, <1>6

\* Nothing is under way before anything was sent.
LEMMA PathBegins ==
  ASSUME NEW from \in Conn, NEW rcpt \in Conn, NEW X, NEW lo \in Nat,
         ~OnWire(from, X), ~InHand(from, X), ~InQueue(rcpt, X)
  PROVE  UnderWay(from, rcpt, X, lo, lo)
<1>1. Run(queue[rcpt], Carries(X), lo, lo) /\ Run(wire[from], Sends(X), lo, lo)
  BY RunNone DEF OnWire, InQueue
<1>2. ~Has(Held(pending[from], rcpt), Carries(X))
  <2>1. CASE Held(pending[from], rcpt) = <<>>
    BY <2>1, OneHas
  <2>2. CASE Held(pending[from], rcpt) # <<>>
    <3>1. pending[from] # <<>> /\ Held(pending[from], rcpt) = <<pending[from][1].env>>
      BY <2>2 DEF Held
    <3> QED BY <3>1, OneHas DEF InHand
  <2> QED BY <2>1, <2>2
<1>3. Run(Held(pending[from], rcpt), Carries(X), lo, lo)
  BY <1>2, RunNone
<1> QED BY <1>1, <1>3, UnderWayNow

\* A step of the relay moves a direction's frames along, as long as both clients
\* are there, the queue holds, and the relay knows the recipient.
LEMMA RelayPath ==
  ASSUME SessionInv, LinkInv, NEW z \in Conn, RelayStep(z), NEW from \in Conn, NEW rcpt \in Conn,
         client[from] = "open", client[rcpt] = "open", ~lost'[rcpt],
         NEW X, \A d \in X : d.t = "data" /\ \A a \in Conn : AuthoredBy(a, d) => a = from,
         phase[from] = "routing" => \A d \in X : Lookup(ident[from].room, d.to) = rcpt,
         NEW lo \in Nat, NEW hi \in Nat, UnderWay(from, rcpt, X, lo, hi)
  PROVE  UnderWay(from, rcpt, X, lo, hi)'
<1> PICK E : E = Envelopes
  OBVIOUS
<1>0. /\ pending \in [Conn -> Seq(Packages(E))] /\ queue \in [Conn -> Seq(E)] /\ RelayTyped(E)
      /\ wire \in [Conn -> Seq([to : Name, data : Frame])] /\ lost \in [Conn -> BOOLEAN]
  BY RelayTypedNow DEF RelayTyped, HeldOK, QueuesOK, SessionInv, TypeOK
<1>1. writer[rcpt] = "running"
  BY <1>0 DEF LinkInv, EndsLate, WriterUp, RelayTyped, QueuesOK
<1>2. PICK S : /\ queue[rcpt] \in Seq(S) /\ Notices \subseteq S /\ Genuine \subseteq S
  BY Sequences
<1>3. ASSUME NEW t \in Seq(Notices)
      PROVE  t \in Seq(S) /\ ~Has(t, Carries(X))
  BY <1>2, SeqMonotonic, NoticesEmpty, OtherHas
<1>4. CASE RelayJoin(z)
  <2>1. PICK t \in Seq(Notices) : queue'[rcpt] = queue[rcpt] \o t
    BY <1>4, JoinNotices
  <2>2. wire'[from] = wire[from] /\ pending'[from] = pending[from]
    BY <1>4 DEF RelayJoin, JoinController, JoinDashboard, Refuse, clientVars
  <2> QED BY <1>2, <1>3, <2>1, <2>2, PathGrows
<1>5. CASE RelayEnd(z)
  <2>1. z # from
    BY <1>5 DEF RelayEnd
  <2>2. wire'[from] = wire[from] /\ pending'[from] = pending[from] /\ queue'[rcpt] = queue[rcpt]
    BY <1>0, <1>5, <2>1 DEF RelayEnd, StreamEnd, outgoing
  <2> QED BY <2>2, PathGrows
<1>6. CASE RelayCleanup(z)
  <2>1. Cleanup(z) /\ z # rcpt
    BY <1>6 DEF RelayCleanup, Cleanup, LinkInv, EndsLate
  <2>2. PICK t \in Seq(Notices) : queue'[rcpt] = queue[rcpt] \o t
    BY <2>1, CleanupNotices
  <2>3. wire'[from] = wire[from] /\ pending'[from] = pending[from]
    BY <1>6 DEF RelayCleanup, Cleanup, clientVars
  <2> QED BY <1>2, <1>3, <2>2, <2>3, PathGrows
<1>7. CASE RelayRead(z)
  <2>0. /\ phase[z] = "routing" /\ pending[z] = <<>> /\ wire[z] # <<>>
        /\ wire' = [wire EXCEPT ![z] = Tail(@)] /\ queue' = queue
    BY <1>7 DEF RelayRead, RouteLookup, outgoing
  <2> PICK m : m = Head(wire[z])
    OBVIOUS
  <2> PICK d : d = Lookup(ident[z].room, m.to)
    OBVIOUS
  <2> PICK e : e = Deliver(ident[z].id, m.data)
    OBVIOUS
  <2>1. pending' = [pending EXCEPT ![z] = IF d = NoConn THEN <<>> ELSE << [rcpt |-> d, env |-> e] >>]
    BY <1>7 DEF RelayRead, RouteLookup
  <2>2. CASE z # from
    <3>1. wire'[from] = wire[from] /\ pending'[from] = pending[from] /\ queue'[rcpt] = queue[rcpt]
      BY <1>0, <2>0, <2>1, <2>2
    <3> QED BY <3>1, PathGrows
  <2>3. CASE z = from
    <3>1. m \in Outgoing(from) /\ m \in [to : Name, data : Frame] /\ e \in Genuine /\ e.data = m.data
      BY <2>0, <2>3, ReadGenuine DEF Outgoing, Deliver
    <3>2. /\ wire'[from] = Tail(wire[from]) /\ queue'[rcpt] = queue[rcpt]
          /\ pending'[from] = IF d = NoConn THEN <<>> ELSE << [rcpt |-> d, env |-> e] >>
      BY <1>0, <2>0, <2>1, <2>3
    <3>3. PICK a \in Nat, b \in Nat :
               /\ lo <= a /\ a <= b /\ b <= hi
               /\ Run(queue[rcpt], Carries(X), lo, a)
               /\ Run(Held(pending[from], rcpt), Carries(X), a, b)
               /\ Run(wire[from], Sends(X), b, hi)
      BY UnderWayBounds
    <3>4. b = a
      <4>1. Held(pending[from], rcpt) = <<>>
        BY <2>0, <2>3 DEF Held
      <4>2. \A v \in a..b - 1 : \E i \in DOMAIN <<>> : TRUE
        BY <3>3, <4>1, RunParts
      <4>3. a \notin a..b - 1
        BY <4>2
      <4> QED BY <3>3, <4>3
    <3>5. /\ m \in Sends(X) <=> m.data \in X
          /\ e \in Carries(X) <=> m.data \in X
      BY <3>1 DEF Sends, Carries, Genuine
    <3>6. CASE m.data \in X
      <4>1. m.data.i = b /\ b < hi /\ Run(wire'[from], Sends(X), b + 1, hi)
        BY <1>0, <2>0, <2>3, <3>2, <3>3, <3>5, <3>6, RunTail
      <4>2. d = rcpt
        BY <2>0, <2>3, <3>1, <3>6 DEF Outgoing
      <4>3. Held(pending'[from], rcpt) = <<e>>
        BY <3>2, <4>2, RelayAssumption DEF Held
      <4>4. Run(Held(pending'[from], rcpt), Carries(X), b, b + 1)
        BY <3>1, <3>5, <3>6, <4>1, <4>3, RunOne
      <4>5. b + 1 \in Nat /\ a <= b + 1 /\ b + 1 <= hi
        BY <3>3, <4>1
      <4> QED BY <3>2, <3>3, <3>4, <4>1, <4>4, <4>5, UnderWayNow
    <3>7. CASE m.data \notin X
      <4>1. Run(wire'[from], Sends(X), b, hi)
        BY <1>0, <2>0, <2>3, <3>2, <3>3, <3>5, <3>7, RunTail
      <4>2. ~Has(Held(pending'[from], rcpt), Carries(X))
        <5>1. Held(pending'[from], rcpt) = <<>> \/ Held(pending'[from], rcpt) = <<e>>
          BY <3>2 DEF Held
        <5> QED BY <3>5, <3>7, <5>1, OneHas
      <4>3. Run(Held(pending'[from], rcpt), Carries(X), a, b)
        BY <3>3, <3>4, <4>2, RunNone
      <4> QED BY <3>2, <3>3, <4>1, <4>3, UnderWayNow
    <3> QED BY <3>6, <3>7
  <2> QED BY <2>2, <2>3
<1>8. CASE RelayForward(z)
  <2> PICK r : r = pending[z][1].rcpt
    OBVIOUS
  <2> PICK e : e = pending[z][1].env
    OBVIOUS
  <2>0. /\ pending[z] # <<>> /\ Send(MailTo(r, <<e>>)) /\ wire' = wire
        /\ pending' = [pending EXCEPT ![z] = <<>>]
    BY <1>8 DEF RelayForward, RouteSend, clientVars
  <2>1. e \in Genuine /\ AuthoredBy(z, e.data)
    BY <2>0 DEF LinkInv, HeldOwn
  <2>2. <<e>> \in Seq(S) /\ Len(<<e>>) = 1
    BY <1>2, <2>1
  <2>3. r = rcpt => queue'[rcpt] = queue[rcpt] \o <<e>>
    <3> SUFFICES ASSUME r = rcpt PROVE queue'[rcpt] = queue[rcpt] \o <<e>>
      OBVIOUS
    <3>1. MailTo(r, <<e>>)[rcpt] = <<e>>
      BY DEF MailTo
    <3>2. Accepted(rcpt, <<e>>) = <<e>>
      BY <1>0, <1>1, <2>0, <3>1 DEF Send
    <3> QED BY <2>0, <3>1, <3>2 DEF Send
  <2>4. r # rcpt => queue'[rcpt] = queue[rcpt]
    <3> SUFFICES ASSUME r # rcpt PROVE queue'[rcpt] = queue[rcpt]
      OBVIOUS
    <3>1. MailTo(r, <<e>>)[rcpt] = <<>>
      BY DEF MailTo
    <3> QED BY <2>0, <3>1, NoMail
  <2>5. CASE z # from
    <3>1. wire'[from] = wire[from] /\ pending'[from] = pending[from]
      BY <1>0, <2>0, <2>5
    <3>2. e \notin Carries(X)
      BY <2>1, <2>5 DEF Carries
    <3>3. ~Has(<<e>>, Carries(X))
      BY <3>2, OneHas
    <3> QED BY <1>2, <2>2, <2>3, <2>4, <3>1, <3>3, PathGrows
  <2>6. CASE z = from
    <3>1. wire'[from] = wire[from] /\ pending'[from] = <<>>
      BY <1>0, <2>0, <2>6
    <3>2. PICK a \in Nat, b \in Nat :
               /\ lo <= a /\ a <= b /\ b <= hi
               /\ Run(queue[rcpt], Carries(X), lo, a)
               /\ Run(Held(pending[from], rcpt), Carries(X), a, b)
               /\ Run(wire[from], Sends(X), b, hi)
      BY UnderWayBounds
    <3>3. Held(pending[from], rcpt) = IF r = rcpt THEN <<e>> ELSE <<>>
      BY <2>0, <2>6 DEF Held
    <3>4. Run(queue'[rcpt], Carries(X), lo, b)
      <4>1. CASE r = rcpt
        BY <1>2, <2>2, <2>3, <3>2, <3>3, <4>1, RunConcat
      <4>2. CASE r # rcpt
        <5>1. Run(<<>>, Carries(X), a, b) /\ <<>> \in Seq(S)
          BY <3>2, <3>3, <4>2, EmptySeq
        <5>2. queue'[rcpt] = queue[rcpt] \o <<>>
          BY <1>2, <2>4, <4>2, ConcatEmptySeq
        <5> QED BY <1>2, <3>2, <5>1, <5>2, RunConcat
      <4> QED BY <4>1, <4>2
    <3>5. Run(Held(pending'[from], rcpt), Carries(X), b, b)
      <4>1. Held(pending'[from], rcpt) = <<>>
        BY <3>1 DEF Held
      <4> QED BY <3>2, <4>1, RunNone, OneHas
    <3>6. lo <= b /\ b <= b
      BY <3>2
    <3>7. Run(wire'[from], Sends(X), b, hi)
      BY <3>1, <3>2
    <3> QED BY <3>2, <3>4, <3>5, <3>6, <3>7, UnderWayNow
  <2> QED BY <2>5, <2>6
<1> QED BY <1>4, <1>5, <1>6, <1>7, <1>8 DEF RelayStep

-----------------------------------------------------------------------------
(* Sessions between two ends that are both there.                          *)

\* A queue that has overflowed is marked for good.
LEMMA LostStays ==
  ASSUME SessionInv, [Next]_vars, NEW a \in Conn, lost[a]
  PROVE  lost'[a]
<1>1. ASSUME NEW c \in Conn, RelayStep(c) PROVE lost'[a]
  <2>1. CASE lost' = lost
    BY <2>1
  <2>2. ASSUME NEW mail, Send(mail) PROVE lost'[a]
    BY <2>2 DEF Send
  <2>3. CASE RelayCleanup(c)
    BY <2>3 DEF RelayCleanup, Cleanup
  <2> QED BY <1>1, <2>1, <2>2, <2>3 DEF RelayStep, RelayJoin, RelayRead, RelayForward, RelayEnd,
        JoinController, JoinDashboard, Refuse, RouteLookup, RouteSend, StreamEnd, outgoing
<1> QED BY <1>1, ClientStep

\* A name that is shared stays shared.
LEMMA SharedStays ==
  ASSUME SessionInv, [Next]_vars, NEW c \in DashConn, NameShared(c)
  PROVE  NameShared(c)'
<1>1. \A d \in DashConn : client[d] # "new" => client'[d] # "new"
  BY ClientMoves, ConnParts
<1> QED BY <1>1 DEF NameShared

\* The controller begins to answer a dashboard only with message 1.
LEMMA AnsweredByMsg1 ==
  ASSUME SessionInv, Next, NEW p \in PeerId, peers'[p].st = "answered", peers'[p] # peers[p]
  PROVE  ctl \in CtlConn /\ \E d \in Frame : CtlMsg1(p, d)
<1>0. peers \in [PeerId -> PeerState]
  BY DEF SessionInv, TypeOK, PeerState, AnsweredPeer, ReadyPeer
<1>1. peers' # peers
  OBVIOUS
<1>2. ASSUME NEW c \in CtlConn, CtlConnect(c) PROVE FALSE
  BY <1>2 DEF CtlConnect, NoPeer
<1>3. ASSUME CtlDisconnect PROVE FALSE
  BY <1>3 DEF CtlDisconnect, NoPeer
<1>4. ASSUME NEW x \in PeerId, CtlPeerJoin(x) \/ CtlPeerLeave(x) PROVE FALSE
  BY <1>0, <1>4 DEF CtlPeerJoin, CtlPeerLeave, NoPeer, Awaiting
<1>5. ASSUME NEW x \in PeerId, NEW d \in Frame, CtlUnknown(x, d) \/ CtlBadHandshake(x, d) PROVE FALSE
  BY <1>0, <1>5 DEF CtlUnknown, CtlBadHandshake, ctlVars, NoPeer
<1>6. ASSUME NEW x \in PeerId, NEW d \in Frame, CtlMsg3(x, d) PROVE FALSE
  BY <1>0, <1>6 DEF CtlMsg3, Ready, NoPeer
<1>7. ASSUME NEW x \in PeerId, NEW d \in Frame, CtlData(x, d) PROVE FALSE
  <2>1. peers' = [peers EXCEPT ![x].rx = @ + 1] /\ peers[x].st = "ready"
    BY <1>1, <1>7 DEF CtlData
  <2>2. peers[x] \in ReadyPeer
    BY <1>0, <2>1, PeerFields
  <2>3. peers'[p] = IF p = x THEN [peers[x] EXCEPT !.rx = @ + 1] ELSE peers[p]
    BY <1>0, <2>1
  <2> QED BY <2>1, <2>2, <2>3, PeerCounts
<1>8. ASSUME CtlFanout PROVE FALSE
  <2>1. peers'[p] = IF peers[p].st = "ready" THEN [peers[p] EXCEPT !.tx = @ + 1] ELSE peers[p]
    BY <1>8 DEF CtlFanout
  <2>2. peers[p].st = "ready" => peers[p] \in ReadyPeer
    BY <1>0, PeerFields
  <2> QED BY <2>1, <2>2, PeerCounts
<1>9. ASSUME NEW x \in PeerId, NEW d \in Frame, CtlMsg1(x, d) PROVE x = p
  BY <1>0, <1>9 DEF CtlMsg1
<1>10. ASSUME \/ CtlIgnore
              \/ \E c \in DashConn : \/ DashConnect(c) \/ DashClose(c) \/ DashInput(c)
                                    \/ DashIgnore(c) \/ DashPeerJoin(c) \/ DashPeerLeave(c)
       PROVE  FALSE
  BY <1>1, <1>10 DEF CtlIgnore, DashConnect, DashClose, DashInput, DashIgnore, DashPeerJoin, DashPeerLeave,
     ctlVars
<1>11. ASSUME NEW c \in DashConn, NEW d \in Frame, DashMsg2(c, d) \/ DashThrow(c, d) \/ DashData(c, d)
       PROVE  FALSE
  BY <1>1, <1>11 DEF DashMsg2, DashThrow, DashData, ctlVars
<1> QED BY <1>1, <1>2, <1>3, <1>4, <1>5, <1>6, <1>7, <1>8, <1>9, <1>10, <1>11, StepCases, RelayKeeps

\* The two ends of a session are in one from when the dashboard reads message 2.
LEMMA MetBefore ==
  ASSUME SessionInv, OneOpening, LinkInv, Next, NEW c \in DashConn, Met(c)',
         ~(\E d \in Frame : DashMsg2(c, d))
  PROVE  Met(c) /\ ctl' = ctl /\ dash'[c].n = dash[c].n
<1> PICK p : p = DashName[c]
  OBVIOUS
<1>0. /\ c \in Conn /\ p \in PeerId
      /\ peers \in [PeerId -> PeerState] /\ dash \in [DashConn -> DashState]
  BY ConnParts DEF SessionInv, TypeOK, PeerState, AnsweredPeer, ReadyPeer, DashState
<1>1. /\ ctl' # NoConn /\ client'[c] = "open" /\ dash'[c].st = "done" /\ dash'[c].k = ctl'
      /\ peers'[p].st \in {"answered", "ready"} /\ peers'[p].c = c /\ peers'[p].n = dash'[c].n
      /\ ~lost'[c] /\ ~lost'[ctl'] /\ ~NameShared(c)'
  BY DEF Met
<1>2. /\ dash[c].st = "done"
      /\ dash'[c].n = dash[c].n /\ dash'[c].k = dash[c].k
  <2>1. dash[c].st = "done"
    BY <1>1, DoneByAnswer
  <2> QED BY <1>1, <2>1, DashMoves DEF DashMove
<1>3. /\ ctl' = ctl
      /\ peers[p].st \in {"answered", "ready"} /\ peers[p].c = c /\ peers[p].n = dash[c].n
  <2>1. CASE SamePeer(p)
    BY <1>1, <1>2, <2>1 DEF SamePeer
  <2>2. CASE PeerAdmitted(p)
    <3>1. PICK d \in Frame : d.c = peers[p].c /\ d.n = peers[p].n /\ peers'[p] = Ready(d.c, d.n, d.key, 1, 0)
      BY <2>2 DEF PeerAdmitted
    <3>2. peers'[p].c = d.c /\ peers'[p].n = d.n
      BY <3>1 DEF Ready
    <3> QED BY <1>1, <1>2, <2>2, <3>1, <3>2 DEF PeerAdmitted
  <2>3. CASE PeerAnswered(p) /\ ~SamePeer(p)
    <3>1. peers'[p].st = "answered" /\ ctl' = ctl /\ table' = table
      BY <2>3 DEF PeerAnswered, Answered
    <3>2. peers'[p] # peers[p]
      BY <2>3, <3>1 DEF SamePeer
    <3>3. ctl \in CtlConn /\ \E d \in Frame : CtlMsg1(p, d)
      BY <1>0, <3>1, <3>2, AnsweredByMsg1
    <3>4. PICK d \in Frame : CtlMsg1(p, d)
      BY <3>3
    <3>5. d.t = "m1" /\ Take(ctl, Deliver(p, d)) /\ peers'[p] = Answered(d.c, d.n)
      BY <1>0, <3>4 DEF CtlMsg1
    <3>6. d.c = c /\ d.n = dash[c].n
      BY <1>1, <1>2, <3>5 DEF Answered
    <3>7. Gone(Opening(c, dash[c].n))
      BY <1>2 DEF OneOpening
    <3>8. d \in Opening(c, dash[c].n) /\ ctl \in Conn
      BY <3>3, <3>5, <3>6, ConnParts DEF Opening
    <3>9. Deliver(p, d) \in Carries(Opening(c, dash[c].n))
      BY <1>0, <3>8 DEF Carries, Deliver, Name
    <3> QED BY <3>5, <3>7, <3>8, <3>9, TakeMoves
  <2> QED BY <1>0, <1>1, <2>1, <2>2, <2>3, PeerMoves DEF PeerMove
<1>4. client[c] = "open"
  <2>1. phase[c] # "joining"
    BY <1>0, <1>2 DEF LinkInv, DoneJoined, HasJoined
  <2>2. client[c] # "new"
    BY <1>0, <2>1 DEF LinkInv, Reached
  <2> QED BY <1>0, <1>1, <2>2, ClientMoves
<1>5. ctl \in Conn
  BY <1>1, <1>3, ConnParts DEF SessionInv, TypeOK
<1>6. ~lost[c] /\ ~lost[ctl] /\ ~NameShared(c)
  <2>1. \A a \in Conn : lost[a] => lost'[a]
    BY LostStays
  <2> QED BY <1>0, <1>1, <1>3, <1>5, <2>1, SharedStays
<1> QED BY <1>1, <1>2, <1>3, <1>4, <1>6 DEF Met

\* The controller's next nonces in the session of c: to read, to write.
Rx(c) == IF peers[DashName[c]].st = "ready" THEN peers[DashName[c]].rx ELSE 0
Tx(c) == IF peers[DashName[c]].st = "ready" THEN peers[DashName[c]].tx ELSE 0

\* Both directions of the session c has with k.
UpTo(c, n, k, lo, hi)   == UnderWay(c, k, Stream(c, n, k, Controller), lo, hi)
DownTo(c, n, k, lo, hi) == UnderWay(k, c, Stream(c, n, k, DashName[c]), lo, hi)
InStep(c) ==
  /\ UpTo(c, dash[c].n, ctl, Rx(c), dash[c].tx)
  /\ DownTo(c, dash[c].n, ctl, dash[c].rx, Tx(c))

LEMMA SyncIsInStep == NonceSync <=> \A c \in DashConn : Met(c) => InStep(c)
BY DEF NonceSync, InStep, UpTo, DownTo, Rx, Tx

\* Where both ends are, and what they count.
LEMMA MetFacts ==
  ASSUME SessionInv, LinkInv, NEW c \in DashConn, Met(c)
  PROVE  /\ c \in Conn /\ DashName[c] \in PeerId /\ DashName[c] \in Name /\ DashName[c] # Controller
         /\ Controller \in Name /\ ctl \in CtlConn /\ ctl \in Conn /\ ctl # c
         /\ client[c] = "open" /\ client[ctl] = "open"
         /\ dash[c] \in DashState /\ dash[c].n \in Nat /\ dash[c].tx \in Nat /\ dash[c].rx \in Nat
         /\ dash[c].st = "done" /\ dash[c].up /\ dash[c].k = ctl
         /\ peers[DashName[c]] \in PeerState
         /\ peers[DashName[c]].st \in {"answered", "ready"}
         /\ peers[DashName[c]].c = c /\ peers[DashName[c]].n = dash[c].n
         /\ Rx(c) \in Nat /\ Tx(c) \in Nat
<1>1. /\ peers \in [PeerId -> PeerState] /\ dash \in [DashConn -> DashState]
      /\ ctl \in CtlConn \cup {NoConn}
  BY DEF SessionInv, TypeOK, PeerState, AnsweredPeer, ReadyPeer, DashState
<1>2. /\ c \in Conn /\ DashName[c] \in PeerId /\ DashName[c] \in Name /\ DashName[c] # Controller
      /\ ctl \in CtlConn /\ ctl \in Conn /\ ctl # c
  BY <1>1, ConnParts DEF Met
<1>3. dash[c] \in DashState /\ dash[c].n \in Nat /\ dash[c].tx \in Nat /\ dash[c].rx \in Nat
  BY <1>1 DEF DashState
<1>4. peers[DashName[c]] \in PeerState /\ Rx(c) \in Nat /\ Tx(c) \in Nat
  BY <1>1, <1>2, PeerFields DEF Rx, Tx
<1>5. client[ctl] = "open" /\ dash[c].up
  BY <1>2 DEF LinkInv, Connected, SessionInv, DoneIsUp, Met
<1> QED BY <1>2, <1>3, <1>4, <1>5 DEF Met, Name

\* A session's frames, one by one.
LEMMA StreamFacts ==
  ASSUME NEW c \in DashConn, NEW n \in Nat, NEW k \in CtlConn, NEW to \in Name
  PROVE  /\ \A d \in Stream(c, n, k, to) :
              d \in Frame /\ d.t = "data" /\ d.c = c /\ d.n = n /\ d.k = k /\ d.to = to
         /\ to = Controller => \A d \in Stream(c, n, k, to) : \A a \in Conn : AuthoredBy(a, d) => a = c
         /\ to # Controller => \A d \in Stream(c, n, k, to) : \A a \in Conn : AuthoredBy(a, d) => a = k
         /\ \A d \in Frame : d.t = "data" /\ d.c = c /\ d.n = n /\ d.k = k /\ d.to = to => d \in Stream(c, n, k, to)
BY DEF Stream, AuthoredBy, FromDash

\* A frame is of X in an envelope, and in a message, as it is.
LEMMA Wrapped ==
  ASSUME NEW X, NEW d \in Frame, NEW f \in Name
  PROVE  /\ Deliver(f, d) \in Carries(X) <=> d \in X
         /\ Msg(f, d) \in Sends(X) <=> d \in X
         /\ Msg(f, d) \in [to : Name, data : Frame]
         /\ Deliver(f, d).data = d /\ Msg(f, d).data = d
BY DEF Carries, Sends, Deliver, Msg

\* The relay knows both ends of a session, and moves their frames along.
LEMMA RelayInStep ==
  ASSUME SessionInv, LinkInv, NEW z \in Conn, RelayStep(z), NEW c \in DashConn, Met(c), InStep(c), Met(c)'
  PROVE  InStep(c)'
<1> PICK k : k = ctl
  OBVIOUS
<1> PICK n : n = dash[c].n
  OBVIOUS
<1> PICK p : p = DashName[c]
  OBVIOUS
<1> PICK U : U = Stream(c, n, k, Controller)
  OBVIOUS
<1> PICK D : D = Stream(c, n, k, p)
  OBVIOUS
<1>0. /\ c \in Conn /\ p \in PeerId /\ p \in Name /\ p # Controller /\ Controller \in Name
      /\ k \in CtlConn /\ k \in Conn /\ k # c /\ client[c] = "open" /\ client[k] = "open"
      /\ n \in Nat /\ dash[c].tx \in Nat /\ dash[c].rx \in Nat /\ Rx(c) \in Nat /\ Tx(c) \in Nat
      /\ peers[p].st # "none" /\ dash[c].st = "done"
  BY MetFacts
<1>1. /\ client' = client /\ ctl' = ctl /\ peers' = peers /\ dash' = dash
  BY RelayKeeps
<1>2. ~lost'[c] /\ ~lost'[k] /\ ~NameShared(c)
  BY <1>1 DEF Met, NameShared
<1>3. /\ HasJoined(c) /\ HasJoined(k)
      /\ phase[c] = "routing" /\ phase[k] = "routing"
      /\ ident[c] = Identity(c) /\ ident[k] = Identity(k)
  <2>1. HasJoined(c) /\ HasJoined(k)
    BY <1>0 DEF LinkInv, PeersJoined, DoneJoined
  <2>2. phase[c] = "routing" /\ phase[k] = "routing"
    BY <1>0, <2>1 DEF HasJoined, LinkInv, EndsLate
  <2> QED BY <1>0, <2>1, <2>2 DEF SessionInv, Identified
<1>4. controller[TheRoom] = k
  <2>1. Live(k) /\ IsController(k) /\ ident[k].room = TheRoom
    BY <1>0, <1>3 DEF Live, IsController, Identity
  <2> QED BY <1>0, <2>1, RoomGiven DEF LinkInv, RegistryConsistent
<1>5. dashboards[TheRoom][p] = c
  BY <1>2, <1>3 DEF LinkInv, Registered
<1>6. UnderWay(c, k, U, Rx(c), dash[c].tx)'
  <2>1. \A d \in U : d.t = "data" /\ \A a \in Conn : AuthoredBy(a, d) => a = c
    BY <1>0, StreamFacts
  <2>2. \A d \in U : Lookup(ident[c].room, d.to) = k
    <3>1. \A d \in U : d.to = Controller
      BY <1>0, StreamFacts
    <3> QED BY <1>3, <1>4, <3>1 DEF Lookup, Identity
  <2> PICK lo : lo = Rx(c)
    OBVIOUS
  <2> PICK hi : hi = dash[c].tx
    OBVIOUS
  <2>3. UnderWay(c, k, U, lo, hi)
    BY DEF InStep, UpTo
  <2>4. UnderWay(c, k, U, lo, hi)'
    BY <1>0, <1>2, <2>1, <2>2, <2>3, RelayPath
  <2>5. Rx(c)' = lo /\ dash'[c].tx = hi
    BY <1>1 DEF Rx
  <2> QED BY <2>4, <2>5 DEF UnderWay, Held
<1>7. UnderWay(k, c, D, dash[c].rx, Tx(c))'
  <2>1. \A d \in D : d.t = "data" /\ \A a \in Conn : AuthoredBy(a, d) => a = k
    BY <1>0, StreamFacts
  <2>2. \A d \in D : Lookup(ident[k].room, d.to) = c
    <3>1. \A d \in D : d.to = p
      BY <1>0, StreamFacts
    <3> QED BY <1>0, <1>3, <1>5, <3>1 DEF Lookup, Identity
  <2> PICK lo : lo = dash[c].rx
    OBVIOUS
  <2> PICK hi : hi = Tx(c)
    OBVIOUS
  <2>3. UnderWay(k, c, D, lo, hi)
    BY DEF InStep, DownTo
  <2>4. UnderWay(k, c, D, lo, hi)'
    BY <1>0, <1>2, <2>1, <2>2, <2>3, RelayPath
  <2>5. Tx(c)' = hi /\ dash'[c].rx = lo
    BY <1>1 DEF Tx
  <2> QED BY <2>4, <2>5 DEF UnderWay, Held
<1> QED BY <1>1, <1>6, <1>7 DEF InStep, UpTo, DownTo, UnderWay, Held

\* What a step may do to one direction of the session of c: nothing, let the
\* reader take the head of its queue, or let the writer say more.
Wired(a, X, top, top2) == \E msgs \in Seq([to : Name, data : Frame]) :
  wire'[a] = wire[a] \o msgs /\ top <= top2 /\ Run(msgs, Sends(X), top, top2)

UpMove(c) ==
  LET X == Stream(c, dash[c].n, ctl, Controller)
  IN  \/ /\ wire'[c] = wire[c] /\ queue'[ctl] = queue[ctl]
         /\ Rx(c)' = Rx(c) /\ dash'[c].tx = dash[c].tx
      \/ /\ wire'[c] = wire[c] /\ dash'[c].tx = dash[c].tx
         /\ \E env : Take(ctl, env) /\ Rx(c)' = IF env \in Carries(X) THEN Rx(c) + 1 ELSE Rx(c)
      \/ /\ queue'[ctl] = queue[ctl] /\ Rx(c)' = Rx(c)
         /\ Wired(c, X, dash[c].tx, dash'[c].tx)

DownMove(c) ==
  LET X == Stream(c, dash[c].n, ctl, DashName[c])
  IN  \/ /\ wire'[ctl] = wire[ctl] /\ queue'[c] = queue[c]
         /\ dash'[c].rx = dash[c].rx /\ Tx(c)' = Tx(c)
      \/ /\ wire'[ctl] = wire[ctl] /\ Tx(c)' = Tx(c)
         /\ \E env : Take(c, env) /\ dash'[c].rx = IF env \in Carries(X) THEN dash[c].rx + 1 ELSE dash[c].rx
      \/ /\ queue'[c] = queue[c] /\ dash'[c].rx = dash[c].rx
         /\ Wired(ctl, X, Tx(c), Tx(c)')

LEMMA UpStays ==
  ASSUME SessionInv, LinkInv, NEW c \in DashConn, Met(c), InStep(c),
         ctl' = ctl, dash'[c].n = dash[c].n, pending' = pending, UpMove(c), dash'[c].tx \in Nat
  PROVE  UpTo(c, dash[c].n, ctl, Rx(c), dash[c].tx)'
<1> PICK k : k = ctl
  OBVIOUS
<1> PICK n : n = dash[c].n
  OBVIOUS
<1> PICK U : U = Stream(c, n, k, Controller)
  OBVIOUS
<1> PICK lo : lo = Rx(c)
  OBVIOUS
<1> PICK hi : hi = dash[c].tx
  OBVIOUS
<1> PICK lo2 : lo2 = Rx(c)'
  OBVIOUS
<1> PICK hi2 : hi2 = dash'[c].tx
  OBVIOUS
<1>0. /\ c \in Conn /\ k \in Conn /\ lo \in Nat /\ hi \in Nat /\ hi2 \in Nat
  BY MetFacts
<1>1. UnderWay(c, k, U, lo, hi)
  BY DEF InStep, UpTo
<1>2. ASSUME wire'[c] = wire[c], queue'[k] = queue[k], lo2 = lo, hi2 = hi
      PROVE  UnderWay(c, k, U, lo2, hi2)'
  <2>1. UnderWay(c, k, U, lo, hi)'
    BY <1>0, <1>1, <1>2, PathGrows
  <2> QED BY <1>2, <2>1 DEF UnderWay, Held
<1>3. ASSUME wire'[c] = wire[c], hi2 = hi,
             \E env : Take(k, env) /\ lo2 = IF env \in Carries(U) THEN lo + 1 ELSE lo
      PROVE  UnderWay(c, k, U, lo2, hi2)'
  <2>1. PICK env : Take(k, env) /\ lo2 = IF env \in Carries(U) THEN lo + 1 ELSE lo
    BY <1>3
  <2>2. CASE env \in Carries(U)
    <3>1. UnderWay(c, k, U, lo + 1, hi)'
      BY <1>0, <1>1, <1>3, <2>1, <2>2, PathTakes
    <3> QED BY <1>3, <2>1, <2>2, <3>1 DEF UnderWay, Held
  <2>3. CASE env \notin Carries(U)
    <3>1. UnderWay(c, k, U, lo, hi)'
      BY <1>0, <1>1, <1>3, <2>1, <2>3, PathTakes
    <3> QED BY <1>3, <2>1, <2>3, <3>1 DEF UnderWay, Held
  <2> QED BY <2>2, <2>3
<1>4. ASSUME queue'[k] = queue[k], lo2 = lo, Wired(c, U, hi, hi2)
      PROVE  UnderWay(c, k, U, lo2, hi2)'
  <2>1. UnderWay(c, k, U, lo, hi2)'
    BY <1>0, <1>1, <1>4, PathGrows DEF Wired
  <2> QED BY <1>4, <2>1 DEF UnderWay, Held
<1>5. UnderWay(c, k, U, lo2, hi2)'
  <2>1. \/ wire'[c] = wire[c] /\ queue'[k] = queue[k] /\ lo2 = lo /\ hi2 = hi
        \/ /\ wire'[c] = wire[c] /\ hi2 = hi
           /\ \E env : Take(k, env) /\ lo2 = IF env \in Carries(U) THEN lo + 1 ELSE lo
        \/ queue'[k] = queue[k] /\ lo2 = lo /\ Wired(c, U, hi, hi2)
    BY DEF UpMove
  <2> QED BY <1>2, <1>3, <1>4, <2>1
<1>6. /\ ctl' = k /\ dash'[c].n = n /\ Rx(c)' = lo2 /\ dash'[c].tx = hi2
  OBVIOUS
<1> QED BY <1>5, <1>6 DEF UpTo, UnderWay, Held

LEMMA DownStays ==
  ASSUME SessionInv, LinkInv, NEW c \in DashConn, Met(c), InStep(c),
         ctl' = ctl, dash'[c].n = dash[c].n, pending' = pending, DownMove(c), Tx(c)' \in Nat
  PROVE  DownTo(c, dash[c].n, ctl, dash[c].rx, Tx(c))'
<1> PICK k : k = ctl
  OBVIOUS
<1> PICK n : n = dash[c].n
  OBVIOUS
<1> PICK D : D = Stream(c, n, k, DashName[c])
  OBVIOUS
<1> PICK lo : lo = dash[c].rx
  OBVIOUS
<1> PICK hi : hi = Tx(c)
  OBVIOUS
<1> PICK lo2 : lo2 = dash'[c].rx
  OBVIOUS
<1> PICK hi2 : hi2 = Tx(c)'
  OBVIOUS
<1>0. /\ c \in Conn /\ k \in Conn /\ lo \in Nat /\ hi \in Nat /\ hi2 \in Nat
  BY MetFacts
<1>1. UnderWay(k, c, D, lo, hi)
  BY DEF InStep, DownTo
<1>2. ASSUME wire'[k] = wire[k], queue'[c] = queue[c], lo2 = lo, hi2 = hi
      PROVE  UnderWay(k, c, D, lo2, hi2)'
  <2>1. UnderWay(k, c, D, lo, hi)'
    BY <1>0, <1>1, <1>2, PathGrows
  <2> QED BY <1>2, <2>1 DEF UnderWay, Held
<1>3. ASSUME wire'[k] = wire[k], hi2 = hi,
             \E env : Take(c, env) /\ lo2 = IF env \in Carries(D) THEN lo + 1 ELSE lo
      PROVE  UnderWay(k, c, D, lo2, hi2)'
  <2>1. PICK env : Take(c, env) /\ lo2 = IF env \in Carries(D) THEN lo + 1 ELSE lo
    BY <1>3
  <2>2. CASE env \in Carries(D)
    <3>1. UnderWay(k, c, D, lo + 1, hi)'
      BY <1>0, <1>1, <1>3, <2>1, <2>2, PathTakes
    <3> QED BY <1>3, <2>1, <2>2, <3>1 DEF UnderWay, Held
  <2>3. CASE env \notin Carries(D)
    <3>1. UnderWay(k, c, D, lo, hi)'
      BY <1>0, <1>1, <1>3, <2>1, <2>3, PathTakes
    <3> QED BY <1>3, <2>1, <2>3, <3>1 DEF UnderWay, Held
  <2> QED BY <2>2, <2>3
<1>4. ASSUME queue'[c] = queue[c], lo2 = lo, Wired(k, D, hi, hi2)
      PROVE  UnderWay(k, c, D, lo2, hi2)'
  <2>1. UnderWay(k, c, D, lo, hi2)'
    BY <1>0, <1>1, <1>4, PathGrows DEF Wired
  <2> QED BY <1>4, <2>1 DEF UnderWay, Held
<1>5. UnderWay(k, c, D, lo2, hi2)'
  <2>1. \/ wire'[k] = wire[k] /\ queue'[c] = queue[c] /\ lo2 = lo /\ hi2 = hi
        \/ /\ wire'[k] = wire[k] /\ hi2 = hi
           /\ \E env : Take(c, env) /\ lo2 = IF env \in Carries(D) THEN lo + 1 ELSE lo
        \/ queue'[c] = queue[c] /\ lo2 = lo /\ Wired(k, D, hi, hi2)
    BY DEF DownMove
  <2> QED BY <1>2, <1>3, <1>4, <2>1
<1>6. /\ ctl' = k /\ dash'[c].n = n /\ dash'[c].rx = lo2 /\ Tx(c)' = hi2
  OBVIOUS
<1> QED BY <1>5, <1>6 DEF DownTo, UnderWay, Held

\* A step that moves each direction in such a way keeps the ends in step.
LEMMA MovesKeepStep ==
  ASSUME SessionInv, LinkInv, NEW c \in DashConn, Met(c), InStep(c), dash' \in [DashConn -> DashState],
         peers' \in [PeerId -> PeerState],
         ctl' = ctl, dash'[c].n = dash[c].n, pending' = pending, UpMove(c), DownMove(c)
  PROVE  InStep(c)'
<1>1. dash'[c].tx \in Nat
  BY DEF DashState
<1>2. Tx(c)' \in Nat
  BY MetFacts, PeerFields DEF Tx
<1> QED BY <1>1, <1>2, UpStays, DownStays DEF InStep

\* A frame of the session that arrives has the reader's next nonce.
LEMMA NextIsDue ==
  ASSUME SessionInv, LinkInv, NEW c \in DashConn, Met(c), InStep(c), pending' = pending
  PROVE  /\ \A env \in Carries(Stream(c, dash[c].n, ctl, Controller)) :
              Take(ctl, env) /\ wire'[c] = wire[c] => env.data.i = Rx(c)
         /\ \A env \in Carries(Stream(c, dash[c].n, ctl, DashName[c])) :
              Take(c, env) /\ wire'[ctl] = wire[ctl] => env.data.i = dash[c].rx
<1>0. /\ c \in Conn /\ ctl \in Conn /\ Rx(c) \in Nat /\ Tx(c) \in Nat
      /\ dash[c].tx \in Nat /\ dash[c].rx \in Nat
  BY MetFacts
<1>1. ASSUME NEW env, Take(ctl, env), wire'[c] = wire[c],
             env \in Carries(Stream(c, dash[c].n, ctl, Controller))
      PROVE  env.data.i = Rx(c)
  BY <1>0, <1>1, PathTakes DEF InStep, UpTo
<1>2. ASSUME NEW env, Take(c, env), wire'[ctl] = wire[ctl],
             env \in Carries(Stream(c, dash[c].n, ctl, DashName[c]))
      PROVE  env.data.i = dash[c].rx
  <2> PICK X : X = Stream(c, dash[c].n, ctl, DashName[c])
    OBVIOUS
  <2> PICK lo : lo = dash[c].rx
    OBVIOUS
  <2> PICK hi : hi = Tx(c)
    OBVIOUS
  <2> PICK k : k = ctl
    OBVIOUS
  <2>1. UnderWay(k, c, X, lo, hi)
    BY DEF InStep, DownTo
  <2>2. /\ pending'[k] = pending[k] /\ wire'[k] = wire[k] /\ env \in Carries(X)
        /\ c \in Conn /\ k \in Conn /\ lo \in Nat /\ hi \in Nat /\ Take(c, env)
    BY <1>0, <1>2
  <2>3. env.data.i = lo
    BY <2>1, <2>2, PathTakes
  <2> QED BY <2>3
<1> QED BY <1>1, <1>2

-----------------------------------------------------------------------------
(* What each step of a client does to a session.                           *)

\* A client that speaks, or takes an envelope, leaves the others' ends alone.
LEMMA Speaks ==
  ASSUME SessionInv, NEW b \in Conn, NEW msgs, Say(b, msgs), NEW a \in Conn
  PROVE  wire'[a] = IF a = b THEN wire[a] \o msgs ELSE wire[a]
<1> PICK P : P = [to : Name, data : Frame]
  OBVIOUS
<1>1. wire \in [Conn -> Seq(P)]
  BY DEF SessionInv, TypeOK
<1> QED BY <1>1 DEF Say

LEMMA Takes ==
  ASSUME SessionInv, NEW b \in Conn, NEW env, Take(b, env), NEW a \in Conn, a # b
  PROVE  queue'[a] = queue[a]
<1> PICK E : E = Envelopes
  OBVIOUS
<1>1. queue \in [Conn -> Seq(E)]
  BY RelayTypedNow DEF RelayTyped, QueuesOK
<1> QED BY <1>1 DEF Take

\* A single message, of X or not.
LEMMA OneMessage ==
  ASSUME NEW X, NEW d \in Frame, NEW f \in Name, NEW top \in Nat
  PROVE  /\ <<Msg(f, d)>> \in Seq([to : Name, data : Frame])
         /\ d \notin X => Run(<<Msg(f, d)>>, Sends(X), top, top)
         /\ d \in X /\ d.i = top => Run(<<Msg(f, d)>>, Sends(X), top, top + 1)
<1> PICK m : m = Msg(f, d)
  OBVIOUS
<1>1. (m \in Sends(X) <=> d \in X) /\ m \in [to : Name, data : Frame] /\ m.data = d
  BY Wrapped
<1>2. <<m>> \in Seq([to : Name, data : Frame])
  BY <1>1
<1>3. d \notin X => Run(<<m>>, Sends(X), top, top)
  BY <1>1, OneHas, RunNone
<1>4. d \in X /\ d.i = top => Run(<<m>>, Sends(X), top, top + 1)
  BY <1>1, RunOne
<1> QED BY <1>2, <1>3, <1>4

LEMMA WiredBy ==
  ASSUME NEW a, NEW X, NEW top \in Nat, NEW top2 \in Nat, top <= top2,
         NEW msgs \in Seq([to : Name, data : Frame]), wire'[a] = wire[a] \o msgs, Run(msgs, Sends(X), top, top2)
  PROVE  Wired(a, X, top, top2)
BY DEF Wired

\* What other dashboards do is nothing to a session.
LEMMA OthersMove ==
  ASSUME SessionInv, LinkInv, NEW c \in DashConn, Met(c), NEW b \in DashConn, b # c,
         \/ DashConnect(b) \/ DashClose(b) \/ DashInput(b)
         \/ DashIgnore(b) \/ DashPeerJoin(b) \/ DashPeerLeave(b)
         \/ \E d \in Frame : DashMsg2(b, d) \/ DashThrow(b, d) \/ DashData(b, d)
  PROVE  UpMove(c) /\ DownMove(c)
<1>0. /\ c \in Conn /\ ctl \in Conn /\ b \in Conn /\ b # ctl /\ dash \in [DashConn -> DashState]
  <2>1. dash \in [DashConn -> DashState]
    BY DEF SessionInv, TypeOK, DashState
  <2>2. c \in Conn /\ ctl \in Conn /\ ctl \in CtlConn
    BY MetFacts
  <2> QED BY <2>1, <2>2, ConnParts
<1>1. /\ peers' = peers
      /\ dash' = dash \/ \E v : dash' = [dash EXCEPT ![b] = v]
      /\ wire' = wire \/ \E msgs : Say(b, msgs)
      /\ queue' = queue \/ \E env : Take(b, env)
  <2>1. CASE DashConnect(b) \/ DashClose(b)
    BY <2>1 DEF DashConnect, DashClose, Hangup, ctlVars, dashVars, relayVars
  <2>2. CASE DashInput(b)
    BY <2>2 DEF DashInput, ctlVars, relayVars
  <2>3. CASE DashIgnore(b)
    BY <2>3 DEF DashIgnore, ctlVars, dashVars
  <2>4. CASE DashPeerJoin(b)
    BY <2>4 DEF DashPeerJoin, ctlVars
  <2>5. CASE DashPeerLeave(b)
    BY <2>5 DEF DashPeerLeave, ctlVars
  <2>6. ASSUME NEW d \in Frame, DashMsg2(b, d)
        PROVE  /\ peers' = peers
               /\ dash' = dash \/ \E v : dash' = [dash EXCEPT ![b] = v]
               /\ wire' = wire \/ \E msgs : Say(b, msgs)
               /\ queue' = queue \/ \E env : Take(b, env)
    BY <2>6 DEF DashMsg2, ctlVars
  <2>7. ASSUME NEW d \in Frame, DashThrow(b, d) \/ DashData(b, d)
        PROVE  /\ peers' = peers
               /\ dash' = dash \/ \E v : dash' = [dash EXCEPT ![b] = v]
               /\ wire' = wire \/ \E msgs : Say(b, msgs)
               /\ queue' = queue \/ \E env : Take(b, env)
    BY <2>7 DEF DashThrow, DashData, ctlVars
  <2> QED BY <2>1, <2>2, <2>3, <2>4, <2>5, <2>6, <2>7
<1>2. dash'[c] = dash[c]
  BY <1>0, <1>1
<1>3. wire'[c] = wire[c] /\ wire'[ctl] = wire[ctl]
  BY <1>0, <1>1, Speaks
<1>4. queue'[c] = queue[c] /\ queue'[ctl] = queue[ctl]
  BY <1>0, <1>1, Takes
<1>5. Rx(c)' = Rx(c) /\ Tx(c)' = Tx(c)
  BY <1>1 DEF Rx, Tx
<1> QED BY <1>2, <1>3, <1>4, <1>5 DEF UpMove, DownMove

\* The dashboard's input is the next frame up.
LEMMA InputMoves ==
  ASSUME SessionInv, LinkInv, NEW c \in DashConn, Met(c), DashInput(c)
  PROVE  UpMove(c) /\ DownMove(c)
<1> PICK k : k = ctl
  OBVIOUS
<1> PICK n : n = dash[c].n
  OBVIOUS
<1> PICK U : U = Stream(c, n, k, Controller)
  OBVIOUS
<1> PICK top : top = dash[c].tx
  OBVIOUS
<1> PICK d : d = Cipher(c, n, k, Controller, top, "input")
  OBVIOUS
<1>0. /\ c \in Conn /\ k \in CtlConn /\ k \in Conn /\ k # c /\ Controller \in Name
      /\ n \in Nat /\ top \in Nat /\ dash[c] \in DashState /\ dash[c].k = k
  BY MetFacts
<1>1. /\ peers' = peers /\ queue' = queue /\ Say(c, <<Msg(Controller, d)>>)
      /\ dash'[c].tx = top + 1 /\ dash'[c].rx = dash[c].rx
  BY <1>0 DEF DashInput, ctlVars, relayVars, SessionInv, TypeOK
<1>2. d \in Frame /\ d \in U /\ d.i = top
  <2>1. d \in Frame
    BY <1>0, FrameTypes
  <2>2. d.t = "data" /\ d.c = c /\ d.n = n /\ d.k = k /\ d.to = Controller /\ d.i = top
    BY DEF Cipher
  <2> QED BY <1>0, <2>1, <2>2, StreamFacts
<1>3. wire'[c] = wire[c] \o <<Msg(Controller, d)>> /\ wire'[k] = wire[k]
  BY <1>0, <1>1, Speaks
<1>4. Wired(c, U, top, top + 1)
  <2>1. /\ <<Msg(Controller, d)>> \in Seq([to : Name, data : Frame])
        /\ Run(<<Msg(Controller, d)>>, Sends(U), top, top + 1) /\ top <= top + 1 /\ top + 1 \in Nat
    BY <1>0, <1>2, OneMessage
  <2> QED BY <1>0, <1>3, <2>1, WiredBy
<1>5. Rx(c)' = Rx(c) /\ Tx(c)' = Tx(c)
  BY <1>1 DEF Rx, Tx
<1> QED BY <1>1, <1>3, <1>4, <1>5 DEF UpMove, DownMove

\* The dashboard takes what reaches it: it reads exactly the frames of its session.
LEMMA ArrivalMoves ==
  ASSUME SessionInv, LinkInv, NEW c \in DashConn, Met(c), InStep(c), pending' = pending,
         DashIgnore(c) \/ \E d \in Frame : DashData(c, d)
  PROVE  UpMove(c) /\ DownMove(c)
<1> PICK k : k = ctl
  OBVIOUS
<1> PICK n : n = dash[c].n
  OBVIOUS
<1> PICK p : p = DashName[c]
  OBVIOUS
<1> PICK D : D = Stream(c, n, k, p)
  OBVIOUS
<1>0. /\ c \in Conn /\ k \in CtlConn /\ k \in Conn /\ k # c /\ p \in Name /\ Controller \in Name
      /\ n \in Nat /\ dash[c] \in DashState /\ dash[c].k = k /\ dash[c].rx \in Nat
      /\ dash[c].st = "done" /\ dash \in [DashConn -> DashState]
  BY MetFacts DEF SessionInv, TypeOK, DashState
<1>1. wire' = wire /\ peers' = peers
  BY DEF DashIgnore, DashData, ctlVars
<1>2. Rx(c)' = Rx(c) /\ Tx(c)' = Tx(c)
  BY <1>1 DEF Rx, Tx
<1>3. ASSUME DashIgnore(c) PROVE UpMove(c) /\ DownMove(c)
  <2>1. Take(c, Joined) /\ dash' = dash
    BY <1>3 DEF DashIgnore, dashVars
  <2>2. queue'[k] = queue[k]
    BY <1>0, <2>1, Takes
  <2>3. Joined \notin Carries(D)
    BY DEF Joined, Carries
  <2> QED BY <1>1, <1>2, <2>1, <2>2, <2>3 DEF UpMove, DownMove
<1>4. ASSUME NEW d \in Frame, DashData(c, d) PROVE UpMove(c) /\ DownMove(c)
  <2> PICK e : e = Deliver(Controller, d)
    OBVIOUS
  <2>1. Take(c, e)
    BY <1>4 DEF DashData
  <2>2. queue'[k] = queue[k]
    BY <1>0, <2>1, Takes
  <2>3. e \in Carries(D) <=> d \in D
    BY <1>0, Wrapped
  <2>4. e \in Carries(D) => d.i = dash[c].rx
    <3>1. e \in Carries(D) => e.data.i = dash[c].rx
      BY <1>1, <2>1, NextIsDue
    <3> QED BY <1>0, <3>1, Wrapped
  <2>5. d \in D <=> d.t = "data" /\ d.to = p /\ d.c = c /\ d.n = n /\ d.k = k
    BY <1>0, StreamFacts
  <2>6. dash' = IF d \in D THEN [dash EXCEPT ![c].rx = @ + 1] ELSE dash
    <3>1. d \in D <=> d.t = "data" /\ d.to = p /\ d.c = c /\ d.n = n /\ d.k = k /\ d.i = dash[c].rx
      BY <2>3, <2>4, <2>5
    <3> QED BY <1>0, <1>4, <3>1 DEF DashData
  <2>7. dash'[c].tx = dash[c].tx /\ dash'[c].rx = IF d \in D THEN dash[c].rx + 1 ELSE dash[c].rx
    BY <1>0, <2>6 DEF DashState
  <2> QED BY <1>1, <1>2, <2>1, <2>2, <2>3, <2>7 DEF UpMove, DownMove
<1> QED BY <1>3, <1>4

\* The controller takes a notice; the peer of the session stays.
LEMMA NoticeMoves ==
  ASSUME SessionInv, LinkInv, NEW c \in DashConn, Met(c), Met(c)',
         CtlIgnore \/ \E x \in PeerId : CtlPeerJoin(x) \/ CtlPeerLeave(x)
  PROVE  UpMove(c) /\ DownMove(c)
<1> PICK k : k = ctl
  OBVIOUS
<1> PICK p : p = DashName[c]
  OBVIOUS
<1>0. /\ c \in Conn /\ k \in Conn /\ k # c /\ p \in PeerId /\ peers \in [PeerId -> PeerState]
  <2>1. peers \in [PeerId -> PeerState]
    BY DEF SessionInv, TypeOK, PeerState, AnsweredPeer, ReadyPeer
  <2> QED BY <2>1, MetFacts
<1>1. wire' = wire /\ dash' = dash /\ \E env : Take(k, env) /\ env.t # "deliver"
  <2>1. CASE CtlIgnore
    BY <2>1 DEF CtlIgnore, dashVars, Joined
  <2>2. ASSUME NEW x \in PeerId, CtlPeerJoin(x)
        PROVE  wire' = wire /\ dash' = dash /\ \E env : Take(k, env) /\ env.t # "deliver"
    BY <2>2 DEF CtlPeerJoin, dashVars, PeerJoin
  <2>3. ASSUME NEW x \in PeerId, CtlPeerLeave(x)
        PROVE  wire' = wire /\ dash' = dash /\ \E env : Take(k, env) /\ env.t # "deliver"
    BY <2>3 DEF CtlPeerLeave, dashVars, PeerLeave
  <2> QED BY <2>1, <2>2, <2>3
<1>2. PICK env : Take(k, env) /\ env.t # "deliver"
  BY <1>1
<1>3. queue'[c] = queue[c]
  BY <1>0, <1>2, Takes
<1>4. \A X : env \notin Carries(X)
  BY <1>2 DEF Carries
<1>5. peers'[p] = peers[p]
  <2>1. CASE CtlIgnore
    BY <2>1 DEF CtlIgnore, ctlVars
  <2>2. ASSUME NEW x \in PeerId, CtlPeerJoin(x) \/ CtlPeerLeave(x) PROVE peers'[p] = peers[p]
    <3>1. x # p
      <4> SUFFICES ASSUME x = p PROVE FALSE
        OBVIOUS
      <4>1. peers'[p].st \in {"none", "awaiting"}
        BY <1>0, <2>2 DEF CtlPeerJoin, CtlPeerLeave, NoPeer, Awaiting
      <4>2. peers'[p].st \in {"answered", "ready"}
        BY DEF Met
      <4> QED BY <4>1, <4>2
    <3> QED BY <1>0, <2>2, <3>1 DEF CtlPeerJoin, CtlPeerLeave
  <2> QED BY <2>1, <2>2
<1>6. Rx(c)' = Rx(c) /\ Tx(c)' = Tx(c)
  BY <1>5 DEF Rx, Tx
<1> QED BY <1>1, <1>2, <1>3, <1>4, <1>6 DEF UpMove, DownMove

\* A frame of a session comes from the peer the session is with.
LEMMA OwnPeer ==
  ASSUME NEW c \in DashConn, NEW n \in Nat, NEW k \in CtlConn, NEW x \in PeerId, NEW d \in Frame,
         FromDash(d) => x = DashName[d.c]
  PROVE  d \in Stream(c, n, k, Controller) => x = DashName[c]
BY StreamFacts DEF FromDash, Name

\* The controller takes a frame that is not of the session, and leaves its peer.
LEMMA StrangeMoves ==
  ASSUME SessionInv, LinkInv, NEW c \in DashConn, Met(c), NEW x \in PeerId, NEW d \in Frame,
         Take(ctl, Deliver(x, d)), d \notin Stream(c, dash[c].n, ctl, Controller),
         wire' = wire, dash' = dash, peers'[DashName[c]] = peers[DashName[c]]
  PROVE  UpMove(c) /\ DownMove(c)
<1>0. c \in Conn /\ ctl \in Conn /\ ctl # c
  BY MetFacts
<1>1. queue'[c] = queue[c]
  BY <1>0, Takes
<1>2. Deliver(x, d) \notin Carries(Stream(c, dash[c].n, ctl, Controller))
  BY Wrapped DEF Name
<1>3. Rx(c)' = Rx(c) /\ Tx(c)' = Tx(c)
  BY DEF Rx, Tx
<1> QED BY <1>1, <1>2, <1>3 DEF UpMove, DownMove

LEMMA UnreadMoves ==
  ASSUME SessionInv, LinkInv, NEW c \in DashConn, Met(c), Met(c)', NEW x \in PeerId, NEW d \in Frame,
         FromDash(d) => x = DashName[d.c],
         CtlUnknown(x, d) \/ CtlBadHandshake(x, d)
  PROVE  UpMove(c) /\ DownMove(c)
<1> PICK p : p = DashName[c]
  OBVIOUS
<1>0. /\ p \in PeerId /\ peers \in [PeerId -> PeerState] /\ ctl \in CtlConn /\ dash[c].n \in Nat
      /\ peers[p].st \in {"answered", "ready"}
  BY MetFacts DEF SessionInv, TypeOK, PeerState, AnsweredPeer, ReadyPeer
<1>1. /\ Take(ctl, Deliver(x, d)) /\ wire' = wire /\ dash' = dash
  BY DEF CtlUnknown, CtlBadHandshake, dashVars
<1>2. x # p
  <2>1. CASE CtlUnknown(x, d)
    BY <1>0, <2>1 DEF CtlUnknown
  <2>2. CASE CtlBadHandshake(x, d)
    <3> SUFFICES ASSUME x = p PROVE FALSE
      OBVIOUS
    <3>1. peers'[p].st = "none"
      BY <1>0, <2>2 DEF CtlBadHandshake, NoPeer
    <3>2. peers'[p].st \in {"answered", "ready"}
      BY DEF Met
    <3> QED BY <3>1, <3>2
  <2> QED BY <2>1, <2>2
<1>3. peers'[p] = peers[p]
  BY <1>0, <1>2 DEF CtlUnknown, CtlBadHandshake, ctlVars
<1>4. d \notin Stream(c, dash[c].n, ctl, Controller)
  BY <1>0, <1>2, OwnPeer
<1> QED BY <1>1, <1>3, <1>4, StrangeMoves

\* The answer to another dashboard's message 1.
LEMMA AnswerSent ==
  ASSUME SessionInv, LinkInv, NEW c \in DashConn, Met(c), NEW x \in PeerId, NEW d \in Frame, CtlMsg1(x, d)
  PROVE  UpMove(c) /\ DownMove(c)
<1> PICK k : k = ctl
  OBVIOUS
<1> PICK p : p = DashName[c]
  OBVIOUS
<1> PICK n : n = dash[c].n
  OBVIOUS
<1> PICK m : m = Msg2(d.c, d.n, k)
  OBVIOUS
<1> PICK U : U = Stream(c, n, k, Controller)
  OBVIOUS
<1> PICK D : D = Stream(c, n, k, p)
  OBVIOUS
<1>0. /\ c \in Conn /\ k \in Conn /\ k # c /\ k \in CtlConn /\ p \in PeerId /\ p \in Name
      /\ peers \in [PeerId -> PeerState] /\ peers[p].st \in {"answered", "ready"}
      /\ n \in Nat /\ Tx(c) \in Nat /\ Controller \in Name
  BY MetFacts DEF SessionInv, TypeOK, PeerState, AnsweredPeer, ReadyPeer
<1>1. /\ Take(k, Deliver(x, d)) /\ Say(k, <<Msg(x, m)>>) /\ dash' = dash /\ d.t = "m1"
      /\ peers' = [peers EXCEPT ![x] = Answered(d.c, d.n)] /\ peers[x].st = "awaiting"
  BY DEF CtlMsg1, dashVars
<1>2. x # p /\ peers'[p] = peers[p]
  BY <1>0, <1>1
<1>3. queue'[c] = queue[c] /\ wire'[c] = wire[c] /\ wire'[k] = wire[k] \o <<Msg(x, m)>>
  BY <1>0, <1>1, Takes, Speaks
<1>4. Deliver(x, d) \notin Carries(U)
  <2>1. d \notin U
    BY <1>0, <1>1, StreamFacts
  <2> QED BY <2>1, Wrapped DEF Name
<1>5. Wired(k, D, Tx(c), Tx(c))
  <2>1. m \in Frame /\ m.t = "m2"
    BY <1>0, FrameTypes, FrameFields DEF Msg2
  <2>2. m \notin D
    BY <1>0, <2>1, StreamFacts
  <2>3. /\ <<Msg(x, m)>> \in Seq([to : Name, data : Frame])
        /\ Run(<<Msg(x, m)>>, Sends(D), Tx(c), Tx(c))
    BY <1>0, <2>1, <2>2, OneMessage DEF Name
  <2>4. Tx(c) <= Tx(c)
    BY <1>0
  <2> QED BY <1>0, <1>3, <2>3, <2>4, WiredBy
<1>6. Rx(c)' = Rx(c) /\ Tx(c)' = Tx(c)
  BY <1>2 DEF Rx, Tx
<1> QED BY <1>1, <1>3, <1>4, <1>5, <1>6 DEF UpMove, DownMove

\* The greeting: the session's first frame down, or another's.
LEMMA GreetingSent ==
  ASSUME SessionInv, LinkInv, NEW c \in DashConn, Met(c), Met(c)', NEW x \in PeerId, NEW d \in Frame, CtlMsg3(x, d)
  PROVE  UpMove(c) /\ DownMove(c)
<1> PICK k : k = ctl
  OBVIOUS
<1> PICK p : p = DashName[c]
  OBVIOUS
<1> PICK n : n = dash[c].n
  OBVIOUS
<1> PICK m : m = Cipher(d.c, d.n, k, x, 0, "hello")
  OBVIOUS
<1> PICK U : U = Stream(c, n, k, Controller)
  OBVIOUS
<1> PICK D : D = Stream(c, n, k, p)
  OBVIOUS
<1>0. /\ c \in Conn /\ k \in Conn /\ k # c /\ k \in CtlConn /\ p \in PeerId /\ p \in Name /\ p # Controller
      /\ peers \in [PeerId -> PeerState] /\ peers[p].st \in {"answered", "ready"}
      /\ peers[p].c = c /\ peers[p].n = n
      /\ n \in Nat /\ Tx(c) \in Nat /\ Controller \in Name /\ x \in Name
  BY MetFacts DEF SessionInv, TypeOK, PeerState, AnsweredPeer, ReadyPeer, Name
<1>1. /\ Take(k, Deliver(x, d)) /\ dash' = dash /\ d.t = "m3" /\ peers[x].st = "answered"
      /\ d.c = peers[x].c /\ d.n = peers[x].n
      /\ \/ peers' = [peers EXCEPT ![x] = Ready(d.c, d.n, d.key, 1, 0)] /\ Say(k, <<Msg(x, m)>>)
         \/ peers' = [peers EXCEPT ![x] = NoPeer] /\ wire' = wire
  BY DEF CtlMsg3, IsMsg3Of, dashVars
<1>2. queue'[c] = queue[c] /\ wire'[c] = wire[c]
  BY <1>0, <1>1, Takes, Speaks
<1>3. Deliver(x, d) \notin Carries(U)
  <2>1. d \notin U
    BY <1>0, <1>1, StreamFacts
  <2> QED BY <1>0, <2>1, Wrapped
<1>4. m \in Frame /\ m.t = "data" /\ m.c = d.c /\ m.n = d.n /\ m.k = k /\ m.to = x /\ m.i = 0
  BY <1>0, FrameTypes, FrameFields DEF Cipher
<1>5. CASE x = p
  <2>1. peers' = [peers EXCEPT ![x] = Ready(d.c, d.n, d.key, 1, 0)] /\ Say(k, <<Msg(x, m)>>)
    <3>1. peers' # [peers EXCEPT ![x] = NoPeer]
      <4> SUFFICES ASSUME peers' = [peers EXCEPT ![x] = NoPeer] PROVE FALSE
        OBVIOUS
      <4>1. peers'[p].st = "none"
        BY <1>0, <1>5 DEF NoPeer
      <4>2. peers'[p].st \in {"answered", "ready"}
        BY DEF Met
      <4> QED BY <4>1, <4>2
    <3> QED BY <1>1, <3>1
  <2>2. Rx(c) = 0 /\ Tx(c) = 0 /\ Rx(c)' = 0 /\ Tx(c)' = 1
    <3>1. peers[p].st = "answered"
      BY <1>1, <1>5
    <3>2. peers'[p].st = "ready" /\ peers'[p].tx = 1 /\ peers'[p].rx = 0
      BY <1>0, <1>5, <2>1 DEF Ready
    <3> QED BY <3>1, <3>2 DEF Rx, Tx
  <2>3. Wired(k, D, Tx(c), Tx(c)')
    <3>1. m \in D
      BY <1>0, <1>1, <1>4, <1>5, StreamFacts
    <3>2. /\ <<Msg(x, m)>> \in Seq([to : Name, data : Frame])
          /\ Run(<<Msg(x, m)>>, Sends(D), 0, 0 + 1)
      BY <1>0, <1>4, <3>1, OneMessage
    <3>3. wire'[k] = wire[k] \o <<Msg(x, m)>>
      BY <1>0, <2>1, Speaks
    <3>4. Wired(k, D, 0, 1)
      <4>1. 0 \in Nat /\ 1 \in Nat /\ 0 <= 1 /\ 0 + 1 = 1
        OBVIOUS
      <4>2. Run(<<Msg(x, m)>>, Sends(D), 0, 1)
        BY <3>2, <4>1
      <4> QED BY <3>2, <3>3, <4>1, <4>2, WiredBy
    <3> QED BY <2>2, <3>4 DEF Wired
  <2> QED BY <1>1, <1>2, <1>3, <2>2, <2>3 DEF UpMove, DownMove
<1>6. CASE x # p
  <2>1. peers'[p] = peers[p]
    BY <1>0, <1>1, <1>6
  <2>2. Rx(c)' = Rx(c) /\ Tx(c)' = Tx(c)
    BY <2>1 DEF Rx, Tx
  <2>3. wire'[k] = wire[k] \/ Wired(k, D, Tx(c), Tx(c))
    <3>1. m \notin D
      BY <1>0, <1>4, <1>6, StreamFacts
    <3>2. /\ <<Msg(x, m)>> \in Seq([to : Name, data : Frame])
          /\ Run(<<Msg(x, m)>>, Sends(D), Tx(c), Tx(c))
      BY <1>0, <1>4, <3>1, OneMessage
    <3>3. wire'[k] = wire[k] \/ wire'[k] = wire[k] \o <<Msg(x, m)>>
      BY <1>0, <1>1, Speaks
    <3>4. Tx(c) <= Tx(c)
      BY <1>0
    <3> QED BY <1>0, <3>2, <3>3, <3>4, WiredBy
  <2> QED BY <1>1, <1>2, <1>3, <2>2, <2>3 DEF UpMove, DownMove
<1> QED BY <1>5, <1>6

\* Input reaches the controller: it reads exactly the frames of the session.
LEMMA DataMoves ==
  ASSUME SessionInv, LinkInv, NEW c \in DashConn, Met(c), InStep(c), pending' = pending,
         NEW x \in PeerId, NEW d \in Frame, FromDash(d) => x = DashName[d.c], CtlData(x, d)
  PROVE  UpMove(c) /\ DownMove(c)
<1> PICK k : k = ctl
  OBVIOUS
<1> PICK p : p = DashName[c]
  OBVIOUS
<1> PICK n : n = dash[c].n
  OBVIOUS
<1> PICK U : U = Stream(c, n, k, Controller)
  OBVIOUS
<1> PICK q : q = peers[p]
  OBVIOUS
<1>0. /\ c \in Conn /\ k \in Conn /\ k # c /\ k \in CtlConn /\ p \in PeerId
      /\ q.c = c /\ q.n = n /\ n \in Nat /\ Controller \in Name /\ x \in Name
  BY MetFacts DEF Name
<1>1. peers \in [PeerId -> PeerState]
  BY DEF SessionInv, TypeOK, PeerState, AnsweredPeer, ReadyPeer
<1>2. /\ Take(k, Deliver(x, d)) /\ wire' = wire /\ dash' = dash /\ peers[x].st = "ready"
      /\ peers' = IF Decrypts(peers[x], d) THEN [peers EXCEPT ![x].rx = @ + 1] ELSE peers
  BY DEF CtlData, dashVars
<1>3. CASE x # p
  <2>1. peers'[p] = peers[p]
    BY <1>0, <1>1, <1>2, <1>3
  <2>2. d \notin U
    BY <1>0, <1>3, OwnPeer
  <2> QED BY <1>2, <2>1, <2>2, StrangeMoves
<1>4. CASE x = p
  <2>1. q \in ReadyPeer /\ q.st = "ready" /\ q.rx \in Nat
    BY <1>0, <1>1, <1>2, <1>4, PeerFields
  <2>2. Rx(c) = q.rx /\ Tx(c) = q.tx
    BY <2>1 DEF Rx, Tx
  <2>3. Deliver(x, d) \in Carries(U) <=> d \in U
    BY <1>0, Wrapped
  <2>4. d \in U => d.i = q.rx
    <3>1. Deliver(x, d) \in Carries(U) => Deliver(x, d).data.i = Rx(c)
      BY <1>2, NextIsDue
    <3> QED BY <1>0, <2>2, <2>3, <3>1, Wrapped
  <2>5. Decrypts(q, d) <=> d \in U
    BY <1>0, <2>4, StreamFacts DEF Decrypts
  <2>6. peers'[p] = IF d \in U THEN [q EXCEPT !.rx = @ + 1] ELSE q
    BY <1>0, <1>1, <1>2, <1>4, <2>5
  <2>7. /\ Rx(c)' = IF d \in U THEN Rx(c) + 1 ELSE Rx(c)
        /\ Tx(c)' = Tx(c)
    <3>1. CASE d \in U
      <4>1. peers'[p].st = "ready" /\ peers'[p].rx = q.rx + 1 /\ peers'[p].tx = q.tx
        BY <2>1, <2>6, <3>1, PeerCounts
      <4> QED BY <2>2, <3>1, <4>1 DEF Rx, Tx
    <3>2. CASE d \notin U
      BY <2>6, <3>2 DEF Rx, Tx
    <3> QED BY <3>1, <3>2
  <2>8. queue'[c] = queue[c]
    BY <1>0, <1>2, Takes
  <2> QED BY <1>2, <2>3, <2>7, <2>8 DEF UpMove, DownMove
<1> QED BY <1>3, <1>4

\* A walk of a finite set visits each of its members, and none twice.
LEMMA WalkVisits ==
  ASSUME NEW S, IsFiniteSet(S), NEW order \in SetToSeqs(S)
  PROVE  /\ \A i \in DOMAIN order : order[i] \in S
         /\ \A y \in S : \E i \in DOMAIN order : order[i] = y
         /\ \A i, j \in DOMAIN order : order[i] = order[j] => i = j
<1>1. PICK n \in Nat : /\ order \in [1..n -> S]
                       /\ \A y \in S : \E i \in 1..n : order[i] = y
                       /\ \A i, j \in 1..n : order[i] = order[j] => i = j
  BY WalkParts
<1> QED BY <1>1

\* A frame fanned out is the next frame down of every ready peer.
LEMMA FanoutMoves ==
  ASSUME SessionInv, LinkInv, NEW c \in DashConn, Met(c), CtlFanout
  PROVE  UpMove(c) /\ DownMove(c)
<1> PICK k : k = ctl
  OBVIOUS
<1> PICK p : p = DashName[c]
  OBVIOUS
<1> PICK n : n = dash[c].n
  OBVIOUS
<1> PICK q : q = peers[p]
  OBVIOUS
<1> PICK D : D = Stream(c, n, k, p)
  OBVIOUS
<1> PICK R : R = {y \in PeerId : peers[y].st = "ready"}
  OBVIOUS
<1>0. /\ c \in Conn /\ k \in Conn /\ k # c /\ k \in CtlConn /\ p \in PeerId /\ p \in Name /\ p # Controller
      /\ q.c = c /\ q.n = n /\ q.st \in {"answered", "ready"} /\ q \in PeerState
      /\ n \in Nat /\ Tx(c) \in Nat
  BY MetFacts
<1>1. peers \in [PeerId -> PeerState]
  BY DEF SessionInv, TypeOK, PeerState, AnsweredPeer, ReadyPeer
<1>2. PICK order \in SetToSeqs(R) : order \in SetToSeqs(R) /\
        Say(k, [i \in DOMAIN order |->
            LET y == order[i] IN Msg(y, Cipher(peers[y].c, peers[y].n, ctl, y, peers[y].tx, "out"))])
  BY DEF CtlFanout
<1> DEFINE frame(y) == Cipher(peers[y].c, peers[y].n, k, y, peers[y].tx, "out")
<1> PICK msgs : msgs = [i \in DOMAIN order |->
            LET y == order[i] IN Msg(y, Cipher(peers[y].c, peers[y].n, ctl, y, peers[y].tx, "out"))]
  OBVIOUS
<1>3. /\ queue' = queue /\ dash' = dash /\ Say(k, msgs)
      /\ peers'[p] = IF p \in R THEN [q EXCEPT !.tx = @ + 1] ELSE q
  <2>1. queue' = queue /\ dash' = dash
    BY DEF CtlFanout, relayVars, dashVars
  <2>2. peers' = [y \in PeerId |-> IF y \in {z \in PeerId : peers[z].st = "ready"}
                                  THEN [peers[y] EXCEPT !.tx = @ + 1] ELSE peers[y]]
    BY DEF CtlFanout
  <2>3. peers'[p] = IF p \in R THEN [q EXCEPT !.tx = @ + 1] ELSE q
    BY <1>0, <2>2
  <2> QED BY <1>2, <2>1, <2>3
<1>4. wire'[c] = wire[c] /\ wire'[k] = wire[k] \o msgs
  BY <1>0, <1>3, Speaks
<1>5. msgs \in Seq([to : Name, data : Frame])
  <2>1. msgs \in Seq({m \in Outgoing(ctl) : m.data.t = "data"})
    BY <1>0, FanoutType
  <2>2. {m \in Outgoing(ctl) : m.data.t = "data"} \subseteq [to : Name, data : Frame]
    BY DEF Outgoing
  <2> QED BY <2>1, <2>2, SeqMonotonic
<1>6. /\ \A i \in DOMAIN order : order[i] \in R
      /\ \A y \in R : \E i \in DOMAIN order : order[i] = y
      /\ \A i, j \in DOMAIN order : order[i] = order[j] => i = j
  <2>1. IsFiniteSet(R)
    BY RelayAssumption, FS_Subset
  <2> QED BY <1>2, <2>1, WalkVisits
<1>7. DOMAIN msgs = DOMAIN order /\ \A i \in DOMAIN order : msgs[i] = Msg(order[i], frame(order[i]))
  OBVIOUS
<1>8. \A y \in R : /\ y \in Name /\ frame(y) \in Frame /\ frame(y).i = peers[y].tx
                   /\ (frame(y) \in D <=> y = p)
  <2> SUFFICES ASSUME NEW y \in R
               PROVE  /\ y \in Name /\ frame(y) \in Frame /\ frame(y).i = peers[y].tx
                      /\ (frame(y) \in D <=> y = p)
    OBVIOUS
  <2>1. y \in Name /\ peers[y] \in ReadyPeer /\ peers[y].c \in DashConn /\ peers[y].n \in Nat /\ peers[y].tx \in Nat
    BY <1>1, PeerFields DEF Name
  <2>2. frame(y) \in Frame
    BY <1>0, <2>1, FrameTypes
  <2>3. /\ frame(y).t = "data" /\ frame(y).c = peers[y].c /\ frame(y).n = peers[y].n /\ frame(y).k = k
        /\ frame(y).to = y /\ frame(y).i = peers[y].tx
    BY DEF Cipher
  <2> HIDE DEF frame
  <2>4. frame(y) \in D <=> y = p
    BY <1>0, <2>2, <2>3, StreamFacts
  <2> QED BY <2>1, <2>2, <2>3, <2>4
<1> HIDE DEF frame
<1>9. \A i \in DOMAIN msgs : /\ msgs[i] \in Sends(D) <=> order[i] = p
                             /\ msgs[i].data.i = peers[order[i]].tx
  <2> SUFFICES ASSUME NEW i \in DOMAIN msgs
               PROVE  /\ msgs[i] \in Sends(D) <=> order[i] = p
                      /\ msgs[i].data.i = peers[order[i]].tx
    OBVIOUS
  <2> PICK y : y = order[i]
    OBVIOUS
  <2>1. y \in R /\ msgs[i] = Msg(y, frame(y))
    BY <1>6, <1>7
  <2>2. (msgs[i] \in Sends(D) <=> frame(y) \in D) /\ msgs[i].data = frame(y)
    BY <1>8, <2>1, Wrapped
  <2> QED BY <1>8, <2>1, <2>2
<1>10. Rx(c)' = Rx(c) /\ Wired(k, D, Tx(c), Tx(c)')
  <2>1. CASE q.st = "ready"
    <3>1. p \in R /\ q \in ReadyPeer /\ q.tx \in Nat
      BY <1>0, <2>1, PeerFields
    <3>2. Tx(c) = q.tx /\ Tx(c)' = q.tx + 1 /\ Rx(c)' = Rx(c)
      <4>1. peers'[p].st = "ready" /\ peers'[p].rx = q.rx /\ peers'[p].tx = q.tx + 1
        BY <1>3, <2>1, <3>1, PeerCounts
      <4> QED BY <2>1, <4>1 DEF Rx, Tx
    <3>3. PICK f \in DOMAIN msgs : order[f] = p
      BY <1>6, <1>7, <3>1
    <3>4. \A i \in DOMAIN msgs : msgs[i] \in Sends(D) <=> i = f
      BY <1>6, <1>7, <1>9, <3>3
    <3>5. msgs[f].data.i = q.tx
      BY <1>9, <3>3
    <3>6. q.tx..(q.tx + 1) - 1 = {q.tx} /\ f \in Nat
      <4>1. q.tx..(q.tx + 1) - 1 = {q.tx}
        BY <3>1
      <4>2. f \in 1..Len(msgs)
        BY <1>5, LenProperties
      <4> QED BY <4>1, <4>2
    <3>7. Run(msgs, Sends(D), q.tx, q.tx + 1)
      <4>1. \A i \in DOMAIN msgs : msgs[i] \in Sends(D) => msgs[i].data.i \in q.tx..(q.tx + 1) - 1
        BY <3>4, <3>5, <3>6
      <4>2. \A v \in q.tx..(q.tx + 1) - 1 : \E i \in DOMAIN msgs : msgs[i] \in Sends(D) /\ msgs[i].data.i = v
        BY <3>3, <3>4, <3>5, <3>6
      <4>3. \A i, j \in DOMAIN msgs : msgs[i] \in Sends(D) /\ msgs[j] \in Sends(D) /\ i < j
              => msgs[i].data.i < msgs[j].data.i
        <5>1. ~(f < f)
          BY <3>6
        <5> QED BY <3>4, <5>1
      <4> QED BY <4>1, <4>2, <4>3, RunParts
    <3>8. q.tx + 1 \in Nat /\ q.tx <= q.tx + 1
      BY <3>1
    <3>9. Wired(k, D, q.tx, q.tx + 1)
      BY <1>4, <1>5, <3>1, <3>7, <3>8, WiredBy
    <3> QED BY <3>2, <3>9 DEF Wired
  <2>2. CASE q.st = "answered"
    <3>1. p \notin R
      BY <2>2
    <3>2. Tx(c)' = Tx(c) /\ Rx(c)' = Rx(c)
      BY <1>3, <3>1 DEF Rx, Tx
    <3>3. ~Has(msgs, Sends(D))
      BY <1>6, <1>7, <1>9, <3>1 DEF Has
    <3>4. Run(msgs, Sends(D), Tx(c), Tx(c)) /\ Tx(c) <= Tx(c)
      BY <1>0, <3>3, RunNone
    <3>5. Wired(k, D, Tx(c), Tx(c))
      BY <1>0, <1>4, <1>5, <3>4, WiredBy
    <3> QED BY <3>2, <3>5 DEF Wired
  <2> QED BY <1>0, <2>1, <2>2
<1> QED BY <1>3, <1>4, <1>10 DEF UpMove, DownMove
\* Two sequences of one element joined.
LEMMA TwoJoined ==
  ASSUME NEW S, NEW x \in S, NEW y \in S
  PROVE  <<x>> \o <<y>> = <<x, y>>
<1> PICK a : a = <<x>>
  OBVIOUS
<1> PICK b : b = Append(a, y)
  OBVIOUS
<1> PICK d : d = <<x, y>>
  OBVIOUS
<1>1. a \in Seq(S) /\ Len(a) = 1 /\ a[1] = x
  OBVIOUS
<1>2. b \in Seq(S) /\ Len(b) = 2 /\ b[1] = x /\ b[2] = y
  BY <1>1, AppendProperties
<1>3. d \in Seq(S) /\ Len(d) = 2 /\ d[1] = x /\ d[2] = y
  OBVIOUS
<1>4. \A i \in 1..Len(b) : b[i] = d[i]
  BY <1>2, <1>3
<1>5. b = d
  BY <1>2, <1>3, <1>4, SeqEqual
<1>6. b = a \o <<y>>
  BY <1>1, AppendIsConcat
<1> QED BY <1>5, <1>6

\* Message 2 is read: nothing of the session has been sent before.
LEMMA SessionOpens ==
  ASSUME SessionInv, LinkInv, NEW c \in DashConn, NEW d \in Frame, DashMsg2(c, d), Met(c)'
  PROVE  InStep(c)'
<1> PICK n : n = dash[c].n
  OBVIOUS
<1> PICK k : k = ctl
  OBVIOUS
<1> PICK p : p = DashName[c]
  OBVIOUS
<1> PICK U : U = Stream(c, n, k, Controller)
  OBVIOUS
<1> PICK D : D = Stream(c, n, k, p)
  OBVIOUS
<1>0. /\ c \in Conn /\ p \in PeerId /\ p \in Name /\ p # Controller /\ Controller \in Name
      /\ dash \in [DashConn -> DashState] /\ dash[c] \in DashState /\ n \in Nat
  <2>1. dash \in [DashConn -> DashState]
    BY DEF SessionInv, TypeOK, DashState
  <2>2. dash[c] \in DashState /\ n \in Nat
    BY <2>1 DEF DashState
  <2> QED BY <2>1, <2>2, ConnParts DEF Name
<1>1. /\ Take(c, Deliver(Controller, d)) /\ dash[c].st = "m1" /\ d.n = n
      /\ dash' = [dash EXCEPT ![c] = [@ EXCEPT !.st = "done", !.k = d.k, !.tx = 1, !.rx = 0, !.up = TRUE]]
      /\ Say(c, << Msg(Controller, Msg3(c, d.n, d.k, DashKey[c])),
                   Msg(Controller, Cipher(c, d.n, d.k, Controller, 0, "refresh")) >>)
      /\ ctl' = ctl /\ peers' = peers /\ client' = client
  BY DEF DashMsg2, IsMsg2Of, ctlVars, Take
<1>2. dash'[c].n = n /\ dash'[c].k = d.k /\ dash'[c].tx = 1 /\ dash'[c].rx = 0 /\ dash'[c].st = "done"
  BY <1>0, <1>1 DEF DashState
<1>3. /\ d.k = k /\ k # NoConn /\ peers[p].st \in {"answered", "ready"} /\ peers[p].c = c /\ peers[p].n = n
  BY <1>1, <1>2 DEF Met
<1>4. k \in CtlConn /\ k \in Conn /\ k # c
  BY <1>0, <1>3, ConnParts DEF SessionInv, TypeOK
<1>5. peers[p].st = "answered"
  <2> SUFFICES ASSUME peers[p].st = "ready" PROVE FALSE
    BY <1>3
  <2> QED BY <1>0, <1>1, <1>3 DEF SessionInv, ReadyIsAuthentic
<1>6. Rx(c)' = 0 /\ Tx(c)' = 0
  BY <1>1, <1>5 DEF Rx, Tx
<1>7. ASSUME NEW to \in Name, NEW from \in Conn, NEW rcpt \in Conn
      PROVE  UnderWay(from, rcpt, Stream(c, n, k, to), 0, 0)
  <2> PICK X : X = Stream(c, n, k, to)
    OBVIOUS
  <2>1. \A f \in X : ~Sound(f)
    <3> SUFFICES ASSUME NEW f \in X, Sound(f) PROVE FALSE
      OBVIOUS
    <3>1. f.t = "data" /\ f.c = c /\ f.n = n
      BY <1>0, <1>4, StreamFacts
    <3>2. Current(f)
      BY <1>1, <3>1 DEF Current
    <3> QED BY <1>1, <3>1, <3>2 DEF Sound
  <2>2. ~OnWire(from, X)
    <3>1. wire[from] \in Seq(Outgoing(from))
      BY DEF SessionInv, WireSound
    <3>2. Outgoing(from) \cap Sends(X) = {}
      BY <2>1 DEF Outgoing, Sends
    <3> PICK O : O = Outgoing(from)
      OBVIOUS
    <3> QED BY <3>1, <3>2, OtherHas DEF OnWire
  <2>3. Envelopes \cap Carries(X) = {}
    <3>1. Genuine \cap Carries(X) = {}
      BY <2>1 DEF Genuine, Carries
    <3> QED BY <3>1, NoticesEmpty DEF Envelopes
  <2> PICK E : E = Envelopes
    OBVIOUS
  <2>4. RelayTyped(E)
    BY RelayTypedNow
  <2>5. ~InQueue(rcpt, X)
    <3>1. queue[rcpt] \in Seq(E)
      BY <2>4 DEF RelayTyped, QueuesOK
    <3> QED BY <2>3, <3>1, OtherHas DEF InQueue
  <2>6. ~InHand(from, X)
    <3>1. pending[from] # <<>> => pending[from][1].env \in Genuine
      BY DEF LinkInv, HeldOwn
    <3> QED BY <2>3, <3>1 DEF InHand, Envelopes
  <2>7. UnderWay(from, rcpt, X, 0, 0)
    BY <2>2, <2>5, <2>6, PathBegins
  <2> QED BY <2>7
<1>8. pending' = pending
  BY <1>1 DEF Take, handlers
<1>9. UnderWay(k, c, D, 0, 0)'
  <2>1. UnderWay(k, c, D, 0, 0)
    BY <1>0, <1>4, <1>7
  <2>2. wire'[k] = wire[k]
    BY <1>0, <1>1, <1>4, Speaks
  <2>3. Deliver(Controller, d) \notin Carries(D)
    <3>1. d.t = "m2"
      BY DEF DashMsg2, IsMsg2Of
    <3>2. d \notin D
      BY <1>0, <1>4, <3>1, StreamFacts
    <3> QED BY <1>0, <3>2, Wrapped
  <2>4. 0 \in Nat
    OBVIOUS
  <2> QED BY <1>0, <1>1, <1>4, <1>8, <2>1, <2>2, <2>3, <2>4, PathTakes
<1>10. UnderWay(c, k, U, 0, 1)'
  <2>1. UnderWay(c, k, U, 0, 0)
    BY <1>0, <1>4, <1>7
  <2> PICK f : f = Msg3(c, n, k, DashKey[c])
    OBVIOUS
  <2> PICK g : g = Cipher(c, n, k, Controller, 0, "refresh")
    OBVIOUS
  <2> PICK P : P = [to : Name, data : Frame]
    OBVIOUS
  <2> PICK one : one = <<Msg(Controller, f)>>
    OBVIOUS
  <2> PICK two : two = <<Msg(Controller, g)>>
    OBVIOUS
  <2>2. f \in Frame /\ g \in Frame /\ f.t = "m3" /\ g.i = 0
        /\ g.t = "data" /\ g.c = c /\ g.n = n /\ g.k = k /\ g.to = Controller
    BY <1>0, <1>4, FrameTypes DEF Msg3, Cipher
  <2>3. f \notin U /\ g \in U
    BY <1>0, <1>4, <2>2, StreamFacts
  <2>4. 0 \in Nat /\ 1 \in Nat /\ 0 <= 0 /\ 0 <= 1 /\ 0 + 1 = 1
    OBVIOUS
  <2>5. /\ one \in Seq(P) /\ two \in Seq(P)
        /\ Run(one, Sends(U), 0, 0) /\ Run(two, Sends(U), 0, 1)
    BY <1>0, <2>2, <2>3, <2>4, OneMessage
  <2>6. one \o two \in Seq(P) /\ Run(one \o two, Sends(U), 0, 1)
    <3>1. one \o two \in Seq(P)
      BY <2>5, ConcatProperties
    <3> PICK S : S = Sends(U)
      OBVIOUS
    <3>2. Run(one, S, 0, 0) /\ Run(two, S, 0 + 0, 1)
      BY <2>5
    <3>3. Run(one \o two, S, 0, 0 + 1)
      BY <2>4, <2>5, <3>2, RunConcat
    <3> QED BY <3>1, <3>3
  <2>7. one \o two = << Msg(Controller, f), Msg(Controller, g) >>
    <3>1. Msg(Controller, f) \in P /\ Msg(Controller, g) \in P
      BY <1>0, <2>2 DEF Msg
    <3> QED BY <3>1, TwoJoined
  <2>8. wire'[c] = wire[c] \o (one \o two) /\ queue'[k] = queue[k]
    <3>1. Say(c, one \o two)
      BY <1>1, <1>3, <2>7
    <3>2. wire'[c] = wire[c] \o (one \o two)
      BY <1>0, <3>1, Speaks
    <3>3. queue'[k] = queue[k]
      BY <1>0, <1>1, <1>4, Takes
    <3> QED BY <3>2, <3>3
  <2> QED BY <1>0, <1>4, <1>8, <2>1, <2>4, <2>6, <2>8, PathGrows
<1> QED BY <1>1, <1>2, <1>6, <1>9, <1>10 DEF InStep, UpTo, DownTo, UnderWay, Held

\* Each step keeps the two ends of each session in step.
LEMMA StepInStep ==
  ASSUME SessionInv, OneOpening, LinkInv, NonceSync, Next, NEW c \in DashConn, Met(c)'
  PROVE  InStep(c)'
<1>1. ASSUME NEW d \in Frame, DashMsg2(c, d) PROVE InStep(c)'
  BY <1>1, SessionOpens
<1>2. CASE ~(\E d \in Frame : DashMsg2(c, d))
  <2>1. Met(c) /\ ctl' = ctl /\ dash'[c].n = dash[c].n /\ InStep(c)
    BY <1>2, MetBefore, SyncIsInStep
  <2>2. dash' \in [DashConn -> DashState] /\ peers' \in [PeerId -> PeerState]
    BY DashTyped, PeerMoves
  <2>3. dash[c].st = "done" /\ dash[c].up /\ ctl # NoConn
    BY <2>1, MetFacts DEF Met
  <2>4. CASE \E z \in Conn : RelayStep(z)
    BY <2>1, <2>4, RelayInStep
  <2>5. CASE ~(\E z \in Conn : RelayStep(z))
    <3>1. pending' = pending
      BY <2>5, ClientStep
    <3>2. ASSUME UpMove(c), DownMove(c) PROVE InStep(c)'
      BY <2>1, <2>2, <3>1, <3>2, MovesKeepStep
    <3>3. ~(\E b \in CtlConn : CtlConnect(b)) /\ ~CtlDisconnect
      BY <2>1, <2>3 DEF CtlConnect, CtlDisconnect
    <3>4. CASE CtlIgnore \/ \E x \in PeerId : CtlPeerJoin(x) \/ CtlPeerLeave(x)
      BY <2>1, <3>2, <3>4, NoticeMoves
    <3>5. ASSUME NEW x \in PeerId, NEW d \in Frame, FromDash(d) => x = DashName[d.c],
                 \/ CtlUnknown(x, d) \/ CtlMsg1(x, d) \/ CtlMsg3(x, d)
                 \/ CtlBadHandshake(x, d) \/ CtlData(x, d)
          PROVE  InStep(c)'
      BY <2>1, <3>1, <3>2, <3>5, UnreadMoves, AnswerSent, GreetingSent, DataMoves
    <3>6. CASE CtlFanout
      BY <2>1, <3>2, <3>6, FanoutMoves
    <3>7. ASSUME NEW b \in DashConn,
                 \/ DashConnect(b) \/ DashClose(b) \/ DashInput(b)
                 \/ DashIgnore(b) \/ DashPeerJoin(b) \/ DashPeerLeave(b)
                 \/ \E d \in Frame : DashMsg2(b, d) \/ DashThrow(b, d) \/ DashData(b, d)
          PROVE  InStep(c)'
      <4>1. CASE b # c
        BY <2>1, <3>2, <3>7, <4>1, OthersMove
      <4>2. CASE b = c
        <5>1. ~DashConnect(c) /\ ~DashClose(c)
          BY <2>1, <2>2, MetFacts DEF DashConnect, DashClose, Hangup, Met, SessionInv, TypeOK
        <5>2. ~DashPeerJoin(c) /\ ~DashPeerLeave(c)
          <6>1. dash \in [DashConn -> DashState] /\ dash[c].n \in Nat
            <7>1. dash \in [DashConn -> DashState]
              BY DEF SessionInv, TypeOK, DashState
            <7> QED BY <2>1, <7>1, MetFacts
          <6>2. ~DashPeerJoin(c)
            <7> SUFFICES ASSUME DashPeerJoin(c) PROVE FALSE
              OBVIOUS
            <7>1. dash'[c] = [NoDash EXCEPT !.st = "m1", !.n = dash[c].n + 1, !.up = dash[c].up]
              BY <6>1 DEF DashPeerJoin
            <7>2. dash'[c].st = "m1"
              BY <7>1 DEF NoDash
            <7> QED BY <7>2 DEF Met
          <6>3. ~DashPeerLeave(c)
            BY <6>1 DEF DashPeerLeave, NoDash, Met
          <6> QED BY <6>2, <6>3
        <5>3. \A d \in Frame : ~DashThrow(c, d)
          BY <2>3 DEF DashThrow
        <5>4. CASE DashInput(c)
          BY <2>1, <3>2, <5>4, InputMoves
        <5>5. CASE DashIgnore(c) \/ \E d \in Frame : DashData(c, d)
          BY <2>1, <3>1, <3>2, <5>5, ArrivalMoves
        <5> QED BY <1>2, <3>7, <4>2, <5>1, <5>2, <5>3, <5>4, <5>5
      <4> QED BY <4>1, <4>2
    <3> QED BY <2>5, <3>3, <3>4, <3>5, <3>6, <3>7, StepCases
  <2> QED BY <2>4, <2>5
<1> QED BY <1>1, <1>2

LEMMA StepNonceSync == SessionInv /\ OneOpening /\ LinkInv /\ NonceSync /\ [Next]_vars => NonceSync'
<1> SUFFICES ASSUME SessionInv, OneOpening, LinkInv, NonceSync, [Next]_vars PROVE NonceSync'
  OBVIOUS
<1>1. CASE Next
  <2>1. \A c \in DashConn : Met(c)' => InStep(c)'
    BY <1>1, StepInStep
  <2> QED BY <2>1 DEF NonceSync, InStep, UpTo, DownTo, Rx, Tx, UnderWay, Held
<1>2. CASE UNCHANGED vars
  <2>1. UNCHANGED <<queue, pending, wire, ctl, peers, dash, client, lost>>
    BY <1>2 DEF vars, relayVars, clientVars, ctlVars, dashVars
  <2> QED BY <2>1 DEF NonceSync, UnderWay, Held, Met, NameShared
<1> QED BY <1>1, <1>2

-----------------------------------------------------------------------------
\* While both ends hold a session, with names not shared and no queue overflowed,
\* the frames under way in each direction are the ones the reader still lacks,
\* each once and in order, wherever the relay has them: whatever else connects,
\* leaves, reconnects or is refused meanwhile.
THEOREM NoncesInStep == Spec => []NonceSync
<1>1. Init => NonceSync
  BY DEF Init, NonceSync, Met
<1>2. SessionInv /\ OneOpening /\ LinkInv /\ NonceSync /\ [Next]_vars
        => (SessionInv /\ OneOpening /\ LinkInv /\ NonceSync)'
  BY StepSessionInv, StepOneOpening, StepLinkInv, StepNonceSync
<1>3. Init => SessionInv /\ OneOpening /\ LinkInv
  BY InitSessionInv, InitOneOpening, InitLinkInv
<1> QED BY <1>1, <1>2, <1>3, PTL DEF Spec

=============================================================================
