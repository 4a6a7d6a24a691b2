---------------------------- MODULE RelaySession ----------------------------
(***************************************************************************)
(* End-to-end sessions over the relay: the controller's relay client       *)
(* (src/relay_client.rs), which reconnects, the dashboards                 *)
(* (dashboard/cli.mjs, dashboard/index.html), and the relay between them,  *)
(* whose handlers are those of RelayServer.                                *)
(*                                                                         *)
(* Noise XXpsk3 is symbolic.  A frame says what made it; a read succeeds   *)
(* exactly when the reader is at that point of that handshake, and a       *)
(* transport frame decrypts exactly under its session's keys and at the    *)
(* reader's next nonce.  A session is identified by the initiator object   *)
(* (connection and ordinal) and the controller connection that answered.   *)
(*                                                                         *)
(* The relay's queue of a connection and the bytes on the way to the       *)
(* client are one FIFO here (queue); socket is not used.  Frames on the    *)
(* way to the relay are in wire.                                           *)
(***************************************************************************)
EXTENDS RelayServer

CONSTANTS
  CtlConn,     \* connections the controller may make, one after the other
  DashConn,    \* connections of dashboards, each a page load or a cli run
  DashName,    \* the name each of them joins under (dash-cli, web-...)
  DashKey,     \* the static key of its device
  Enrolled,    \* keys in authorized_devices.json at the start
  AllowEnroll, \* CPC_ALLOW_ENROLL
  HalfOpen,    \* connections that end without a word to the relay, if they end
  MaxInput,    \* bound: input frames per dashboard connection
  MaxOut       \* bound: outbound frames fanned out in a behaviour

ASSUME SessionAssumption ==
  /\ Conn = CtlConn \cup DashConn /\ CtlConn \cap DashConn = {}
  /\ DashName \in [DashConn -> PeerId] /\ Controller \notin PeerId
  /\ HalfOpen \subseteq Conn
  /\ AllowEnroll \in BOOLEAN
  /\ MaxInput \in Nat /\ MaxOut \in Nat

VARIABLES
  client,   \* the client's end of a connection: "new", "open", "closed"
  wire,     \* frames sent and not yet read by the relay's handler
  ctl,      \* the controller's current connection
  peers,    \* its peers by name, for that connection
  table,    \* its AuthorizedDevices, loaded for that connection
  file,     \* authorized_devices.json
  dash,     \* the state of each dashboard
  inputs,   \* inputs each dashboard connection has sent
  outs      \* frames fanned out so far

clientVars  == <<client, wire>>
ctlVars     == <<ctl, peers, table, file>>
dashVars    == <<dash>>
counters    == <<inputs, outs>>
vars        == <<relayVars, clientVars, ctlVars, dashVars, counters>>

TheRoom == CHOOSE r \in Room : TRUE

-----------------------------------------------------------------------------
(* Frames.  c and n name the initiator, k the answering controller         *)
(* connection.                                                             *)

Msg1(c, n)         == [t |-> "m1", c |-> c, n |-> n]
Msg2(c, n, k)      == [t |-> "m2", c |-> c, n |-> n, k |-> k]
Msg3(c, n, k, key) == [t |-> "m3", c |-> c, n |-> n, k |-> k, key |-> key]
\* The i-th transport frame of a session in the direction of to.
Cipher(c, n, k, to, i, body) ==
  [t |-> "data", c |-> c, n |-> n, k |-> k, to |-> to, i |-> i, body |-> body]

Msg(to, data) == [to |-> to, data |-> data]

-----------------------------------------------------------------------------
(* Peers of the controller: enum Peer, with the points of the handshake.   *)

NoPeer   == [st |-> "none"]
Awaiting == [st |-> "awaiting"]                                \* before message 1
Answered(c, n) == [st |-> "answered", c |-> c, n |-> n]        \* before message 3
Ready(c, n, key, tx, rx) ==
  [st |-> "ready", c |-> c, n |-> n, key |-> key, tx |-> tx, rx |-> rx]

(* A dashboard: its Initiator (st: none, m1, done, broken; n its ordinal;   *)
(* k the controller connection it is with; tx and rx its nonces) and up.    *)
NoDash == [st |-> "none", n |-> 0, k |-> NoConn, tx |-> 0, rx |-> 0, up |-> FALSE]

Init ==
  /\ RelayInit
  /\ client = [c \in Conn |-> "new"]
  /\ wire   = [c \in Conn |-> <<>>]
  /\ ctl    = NoConn
  /\ peers  = [p \in PeerId |-> NoPeer]
  /\ table  = {}
  /\ file   = Enrolled
  /\ dash   = [c \in DashConn |-> NoDash]
  /\ inputs = [c \in DashConn |-> 0]
  /\ outs   = 0

-----------------------------------------------------------------------------
(* Clients and the relay.                                                  *)

\* Mutant: later frames overtake earlier ones.
Say_Overtaking(c, msgs) == wire' = [wire EXCEPT ![c] = msgs \o @]

Say(c, msgs) == wire' = [wire EXCEPT ![c] = @ \o msgs]

\* The envelope at the head of c's FIFO reaches its client.
Take(c, env) ==
  /\ client[c] = "open" /\ queue[c] # <<>>
  /\ env = Head(queue[c])
  /\ queue' = [queue EXCEPT ![c] = Tail(@)]
  /\ UNCHANGED <<registry, handlers, writer, socket, lost, client>>

\* The handler reads a Join; it was sent as soon as the connection opened.
RelayJoin(c) ==
  /\ client[c] # "new"
  /\ IF c \in CtlConn THEN JoinController(c, TheRoom)
     ELSE JoinDashboard(c, TheRoom, DashName[c])
  /\ UNCHANGED <<clientVars, ctlVars, dashVars, counters>>

RelayRead(c) ==
  /\ wire[c] # <<>>
  /\ RouteLookup(c, Head(wire[c]).to, Head(wire[c]).data)
  /\ wire' = [wire EXCEPT ![c] = Tail(@)]
  /\ UNCHANGED <<client, ctlVars, dashVars, counters>>

RelayForward(c) ==
  /\ RouteSend(c)
  /\ UNCHANGED <<clientVars, ctlVars, dashVars, counters>>

\* The relay learns that the client is gone (a Close, an end of stream or a
\* read error) and ends the connection; frames may be lost with it.  The relay
\* neither pings nor sets a time limit, so of a client that vanished it may
\* learn late or never: Fairness leaves out the connections in HalfOpen.
RelayEnd(c) ==
  /\ client[c] = "closed"
  /\ StreamEnd(c)
  /\ wire' = [wire EXCEPT ![c] = <<>>]
  /\ UNCHANGED <<client, ctlVars, dashVars, counters>>

RelayCleanup(c) ==
  /\ Cleanup(c)
  /\ UNCHANGED <<clientVars, ctlVars, dashVars, counters>>

\* The client goes away: process exit, page closed, or its network is gone.
Hangup(c) ==
  /\ client[c] = "open"
  /\ client' = [client EXCEPT ![c] = "closed"]
  /\ UNCHANGED <<relayVars, wire>>

-----------------------------------------------------------------------------
(* The controller (connect_once, handle, fanout).                          *)

\* Connect, send Join, load the device table, start with no peers.
CtlConnect(c) ==
  /\ ctl = NoConn /\ client[c] = "new"
  /\ client' = [client EXCEPT ![c] = "open"]
  /\ ctl' = c
  /\ table' = file
  /\ peers' = [p \in PeerId |-> NoPeer]
  /\ UNCHANGED <<relayVars, wire, file, dashVars, counters>>

\* Mutant: the peers outlive the connection.
CtlDisconnect_KeepsPeers ==
  /\ ctl # NoConn
  /\ Hangup(ctl)
  /\ ctl' = NoConn
  /\ UNCHANGED <<peers, table, file, dashVars, counters>>

\* The connection fails, or a relay error makes connect_once bail.
CtlDisconnect ==
  /\ ctl # NoConn
  /\ Hangup(ctl)
  /\ ctl' = NoConn
  /\ peers' = [p \in PeerId |-> NoPeer]
  /\ UNCHANGED <<table, file, dashVars, counters>>

CtlRefused ==
  /\ ctl # NoConn /\ client[ctl] = "open" /\ queue[ctl] # <<>>
  /\ Head(queue[ctl]) = Error
  /\ CtlDisconnect

CtlIgnore ==
  /\ ctl # NoConn /\ Take(ctl, Joined)
  /\ UNCHANGED <<wire, ctlVars, dashVars, counters>>

CtlPeerJoin(p) ==
  /\ ctl # NoConn /\ Take(ctl, PeerJoin(p))
  /\ peers' = [peers EXCEPT ![p] = Awaiting]
  /\ UNCHANGED <<wire, ctl, table, file, dashVars, counters>>

CtlPeerLeave(p) ==
  /\ ctl # NoConn /\ Take(ctl, PeerLeave(p))
  /\ peers' = [peers EXCEPT ![p] = NoPeer]
  /\ UNCHANGED <<wire, ctl, table, file, dashVars, counters>>

\* A frame from a peer we do not have is ignored.
CtlUnknown(p, d) ==
  /\ ctl # NoConn /\ Take(ctl, Deliver(p, d))
  /\ peers[p].st = "none"
  /\ UNCHANGED <<wire, ctlVars, dashVars, counters>>

\* Mutant: the handshake, taken out of the map, is not put back.
CtlMsg1_Forgets(p, d) ==
  /\ ctl # NoConn /\ Take(ctl, Deliver(p, d))
  /\ peers[p].st = "awaiting" /\ d.t = "m1"
  /\ peers' = [peers EXCEPT ![p] = NoPeer]
  /\ Say(ctl, << Msg(p, Msg2(d.c, d.n, ctl)) >>)
  /\ UNCHANGED <<ctl, table, file, dashVars, counters>>

\* Message 1: answer with message 2 and keep the handshake.
CtlMsg1(p, d) ==
  /\ ctl # NoConn /\ Take(ctl, Deliver(p, d))
  /\ peers[p].st = "awaiting" /\ d.t = "m1"
  /\ peers' = [peers EXCEPT ![p] = Answered(d.c, d.n)]
  /\ Say(ctl, << Msg(p, Msg2(d.c, d.n, ctl)) >>)
  /\ UNCHANGED <<ctl, table, file, dashVars, counters>>

IsMsg3Of(peer, d) ==
  /\ peer.st = "answered" /\ d.t = "m3"
  /\ d.c = peer.c /\ d.n = peer.n /\ d.k = ctl

\* Mutant: add is tried, and its success trusted, whatever the pairing setting.
Admits_Unasked(key, saved) == key \in table \/ saved

\* contains || (allow_enroll && add succeeds); add pushes before it saves.
Admits(key, saved) == key \in table \/ (AllowEnroll /\ saved)

\* Message 3 ends the handshake: an authorized device is greeted and ready,
\* any other is dropped without a word.
CtlMsg3(p, d) ==
  /\ ctl # NoConn /\ Take(ctl, Deliver(p, d))
  /\ IsMsg3Of(peers[p], d)
  /\ \E saved \in BOOLEAN :
       /\ table' = IF AllowEnroll THEN table \cup {d.key} ELSE table
       /\ file'  = IF AllowEnroll /\ saved /\ d.key \notin table THEN table \cup {d.key} ELSE file
       /\ \/ /\ Admits(d.key, saved)
             /\ peers' = [peers EXCEPT ![p] = Ready(d.c, d.n, d.key, 1, 0)]
             /\ Say(ctl, << Msg(p, Cipher(d.c, d.n, ctl, p, 0, "hello")) >>)
          \/ /\ ~Admits(d.key, saved)
             /\ peers' = [peers EXCEPT ![p] = NoPeer]
             /\ UNCHANGED wire
  /\ UNCHANGED <<ctl, dashVars, counters>>

\* Any other frame fails the handshake read, and the peer is gone until its
\* next PeerJoin.
CtlBadHandshake(p, d) ==
  /\ ctl # NoConn /\ Take(ctl, Deliver(p, d))
  /\ \/ peers[p].st = "awaiting" /\ d.t # "m1"
     \/ peers[p].st = "answered" /\ ~IsMsg3Of(peers[p], d)
  /\ peers' = [peers EXCEPT ![p] = NoPeer]
  /\ UNCHANGED <<wire, ctl, table, file, dashVars, counters>>

Decrypts(peer, d) ==
  /\ d.t = "data" /\ d.to = Controller
  /\ d.c = peer.c /\ d.n = peer.n /\ d.k = ctl /\ d.i = peer.rx

\* A frame for a ready peer: what decrypts goes to the inbound loop, what
\* does not is ignored; the peer stays.
CtlData(p, d) ==
  /\ ctl # NoConn /\ Take(ctl, Deliver(p, d))
  /\ peers[p].st = "ready"
  /\ peers' = IF Decrypts(peers[p], d) THEN [peers EXCEPT ![p].rx = @ + 1] ELSE peers
  /\ UNCHANGED <<wire, ctl, table, file, dashVars, counters>>

\* One outbound frame, encrypted for every ready peer.
CtlFanout ==
  LET ready == {p \in PeerId : peers[p].st = "ready"}
  IN /\ ctl # NoConn /\ outs < MaxOut
     /\ \E order \in SetToSeqs(ready) :
          Say(ctl, [i \in DOMAIN order |->
            LET p == order[i] IN Msg(p, Cipher(peers[p].c, peers[p].n, ctl, p, peers[p].tx, "out"))])
     /\ peers' = [p \in PeerId |-> IF p \in ready THEN [peers[p] EXCEPT !.tx = @ + 1] ELSE peers[p]]
     /\ outs' = outs + 1
     /\ UNCHANGED <<relayVars, client, ctl, table, file, dashVars, inputs>>

-----------------------------------------------------------------------------
(* A dashboard (the onmessage handler, the input handler).                 *)

DashConnect(c) ==
  /\ client[c] = "new"
  /\ client' = [client EXCEPT ![c] = "open"]
  /\ UNCHANGED <<relayVars, wire, ctlVars, dashVars, counters>>

\* What it was last is kept: its frames may still be on their way.
DashClose(c) ==
  /\ Hangup(c)
  /\ UNCHANGED <<ctlVars, dashVars, counters>>

DashIgnore(c) ==
  /\ Take(c, Joined)
  /\ UNCHANGED <<wire, ctlVars, dashVars, counters>>

\* A new Initiator; message 1.  up is left as it is.
DashPeerJoin(c) ==
  /\ Take(c, PeerJoin(Controller))
  /\ dash' = [dash EXCEPT ![c] = [NoDash EXCEPT !.st = "m1", !.n = dash[c].n + 1, !.up = dash[c].up]]
  /\ Say(c, << Msg(Controller, Msg1(c, dash[c].n + 1)) >>)
  /\ UNCHANGED <<ctlVars, counters>>

DashPeerLeave(c) ==
  /\ Take(c, PeerLeave(Controller))
  /\ dash' = [dash EXCEPT ![c] = [NoDash EXCEPT !.n = dash[c].n]]
  /\ UNCHANGED <<wire, ctlVars, counters>>

IsMsg2Of(c, d) == dash[c].st = "m1" /\ d.t = "m2" /\ d.c = c /\ d.n = dash[c].n

\* Not up: the frame is taken for message 2.  Message 3 and the request for
\* the transcript follow at once.
DashMsg2(c, d) ==
  /\ Take(c, Deliver(Controller, d))
  /\ ~dash[c].up /\ IsMsg2Of(c, d)
  /\ dash' = [dash EXCEPT ![c] = [@ EXCEPT !.st = "done", !.k = d.k, !.tx = 1, !.rx = 0, !.up = TRUE]]
  /\ Say(c, << Msg(Controller, Msg3(c, d.n, d.k, DashKey[c])),
               Msg(Controller, Cipher(c, d.n, d.k, Controller, 0, "refresh")) >>)
  /\ UNCHANGED <<ctlVars, counters>>

\* Not up, and no message 2 of this handshake: the handler throws, with the
\* handshake state already mixed.  (A cli process dies of it: DashClose.)
DashThrow(c, d) ==
  /\ Take(c, Deliver(Controller, d))
  /\ ~dash[c].up /\ ~IsMsg2Of(c, d)
  /\ dash' = [dash EXCEPT ![c].st = IF @ = "none" THEN "none" ELSE "broken"]
  /\ UNCHANGED <<wire, ctlVars, counters>>

\* Up: a frame that does not decrypt is logged and ignored.
DashData(c, d) ==
  /\ Take(c, Deliver(Controller, d))
  /\ dash[c].up
  /\ LET fits == /\ dash[c].st = "done" /\ d.t = "data" /\ d.to = DashName[c]
                 /\ d.c = c /\ d.n = dash[c].n /\ d.k = dash[c].k /\ d.i = dash[c].rx
     IN  dash' = IF fits THEN [dash EXCEPT ![c].rx = @ + 1] ELSE dash
  /\ UNCHANGED <<wire, ctlVars, counters>>

\* Mutant: the nonce is used again.
DashInput_SameNonce(c) ==
  /\ client[c] = "open" /\ dash[c].up /\ dash[c].st = "done" /\ inputs[c] < MaxInput
  /\ Say(c, << Msg(Controller, Cipher(c, dash[c].n, dash[c].k, Controller, dash[c].tx, "input")) >>)
  /\ inputs' = [inputs EXCEPT ![c] = @ + 1]
  /\ UNCHANGED <<relayVars, client, ctlVars, dashVars, outs>>

DashInput(c) ==
  /\ client[c] = "open" /\ dash[c].up /\ dash[c].st = "done" /\ inputs[c] < MaxInput
  /\ dash' = [dash EXCEPT ![c].tx = @ + 1]
  /\ Say(c, << Msg(Controller, Cipher(c, dash[c].n, dash[c].k, Controller, dash[c].tx, "input")) >>)
  /\ inputs' = [inputs EXCEPT ![c] = @ + 1]
  /\ UNCHANGED <<relayVars, client, ctlVars, outs>>

-----------------------------------------------------------------------------
RelayStep(c) ==
  RelayJoin(c) \/ RelayRead(c) \/ RelayForward(c) \/ RelayEnd(c) \/ RelayCleanup(c)

\* The frame at the head of a client's FIFO, if it is a Deliver.
Arriving(c) == IF queue[c] # <<>> /\ Head(queue[c]).t = "deliver" THEN {Head(queue[c]).data} ELSE {}

CtlReceive ==
  \/ CtlRefused \/ CtlIgnore
  \/ \E p \in PeerId : CtlPeerJoin(p) \/ CtlPeerLeave(p)
  \/ ctl # NoConn /\ \E p \in PeerId, d \in Arriving(ctl) :
       CtlUnknown(p, d) \/ CtlMsg1(p, d) \/ CtlMsg3(p, d) \/ CtlBadHandshake(p, d) \/ CtlData(p, d)

DashReceive(c) ==
  \/ DashIgnore(c) \/ DashPeerJoin(c) \/ DashPeerLeave(c)
  \/ \E d \in Arriving(c) : DashMsg2(c, d) \/ DashThrow(c, d) \/ DashData(c, d)

Next ==
  \/ \E c \in Conn : RelayStep(c)
  \/ \E c \in CtlConn : CtlConnect(c)
  \/ CtlReceive \/ CtlDisconnect \/ CtlFanout
  \/ \E c \in DashConn : DashConnect(c) \/ DashReceive(c) \/ DashClose(c) \/ DashInput(c)

Spec == Init /\ [][Next]_vars

\* A step of the relay that waits for nothing but its own tasks and bytes that
\* do arrive: of a half-open connection, once its client is gone, only what the
\* handler has begun.
Prompt(c) ==
  /\ c \in HalfOpen => client[c] = "open" \/ pending[c] # <<>> \/ phase[c] = "leaving"
  /\ RelayStep(c)

\* Everything that is under way is dealt with; nothing makes anyone connect,
\* hang up, or send application frames.
Fairness ==
  /\ \A c \in Conn : WF_vars(Prompt(c))
  /\ WF_vars(CtlReceive)
  /\ \A c \in DashConn : WF_vars(DashReceive(c))

FairSpec == Spec /\ Fairness

-----------------------------------------------------------------------------
Authorized(c) == DashKey[c] \in table \/ AllowEnroll

\* The relay connects the controller and dashboard c, both still there.
Linked(c) ==
  /\ ctl # NoConn /\ controller[TheRoom] = ctl
  /\ client[c] = "open" /\ dashboards[TheRoom][DashName[c]] = c

\* Both ends hold the same session.
Secure(c) ==
  LET p == peers[DashName[c]]
  IN  /\ dash[c].up /\ dash[c].st = "done" /\ dash[c].k = ctl
      /\ p.st = "ready" /\ p.c = c /\ p.n = dash[c].n

NameShared(c) == \E d \in DashConn \ {c} : DashName[d] = DashName[c] /\ client[d] # "new"

\* Nothing is on its way in either direction.
Quiet ==
  \A c \in Conn : wire[c] = <<>> /\ pending[c] = <<>> /\ (client[c] = "open" => queue[c] = <<>>)

Frame ==
  [t : {"m1"}, c : DashConn, n : Nat] \cup
  [t : {"m2"}, c : DashConn, n : Nat, k : CtlConn] \cup
  [t : {"m3"}, c : DashConn, n : Nat, k : CtlConn, key : {DashKey[c] : c \in DashConn}] \cup
  [t : {"data"}, c : DashConn, n : Nat, k : CtlConn, to : Name, i : Nat,
   body : {"hello", "refresh", "out", "input"}]

\* The transport frames of the session c has with k, in the direction of to.
Stream(c, n, k, to) ==
  {d \in Frame : d.t = "data" /\ d.c = c /\ d.n = n /\ d.k = k /\ d.to = to}

\* The messages and the envelopes with a frame of X.
Sends(X)   == {m \in [to : Name, data : Frame] : m.data \in X}
Carries(X) == {e \in [t : {"deliver"}, from : Name, data : Frame] : e.data \in X}

\* The members of M in s hold the nonces from lo up to hi: each once, in order.
Run(s, M, lo, hi) ==
  LET at == {i \in DOMAIN s : s[i] \in M}
  IN  /\ {s[i].data.i : i \in at} = lo..hi - 1
      /\ \A i, j \in at : i < j => s[i].data.i < s[j].data.i

\* What the relay is about to send to rcpt.
Held(s, rcpt) == IF s # <<>> /\ s[1].rcpt = rcpt THEN <<s[1].env>> ELSE <<>>

\* In the order they will arrive: the recipient's queue, what the relay is
\* about to send it, what the sender has on the wire.
UnderWay(from, rcpt, X, lo, hi) ==
  \E a, b \in lo..hi :
    /\ a <= b
    /\ Run(queue[rcpt], Carries(X), lo, a)
    /\ Run(Held(pending[from], rcpt), Carries(X), a, b)
    /\ Run(wire[from], Sends(X), b, hi)

\* The state is well typed, and the controller holds peers only while it is
\* connected.
TypeOK ==
  /\ client \in [Conn -> {"new", "open", "closed"}]
  /\ wire \in [Conn -> Seq([to : Name, data : Frame])]
  /\ ctl \in CtlConn \cup {NoConn}
  /\ peers \in [PeerId -> {NoPeer, Awaiting} \cup [st : {"answered"}, c : DashConn, n : Nat] \cup
        [st : {"ready"}, c : DashConn, n : Nat, key : {DashKey[c] : c \in DashConn}, tx : Nat, rx : Nat]]
  /\ dash \in [DashConn -> [st : {"none", "m1", "done", "broken"}, n : Nat, k : CtlConn \cup {NoConn},
                            tx : Nat, rx : Nat, up : BOOLEAN]]
  /\ ctl = NoConn => \A p \in PeerId : peers[p] = NoPeer

\* A session the controller considers ready is with a dashboard connection
\* that joined under that name, holds the key the controller authenticated,
\* and finished this very handshake with this connection of the controller
\* (unless it has moved on), and the key is authorized: frames of earlier
\* connections, which the relay may still deliver, never make up a session.
ReadyIsAuthentic ==
  \A p \in PeerId : peers[p].st = "ready" =>
    LET q == peers[p]
    IN  /\ q.key \in table /\ q.key = DashKey[q.c] /\ DashName[q.c] = p
        /\ dash[q.c].n = q.n /\ dash[q.c].st # "none" => dash[q.c].st = "done" /\ dash[q.c].k = ctl

\* Both ends are in the session: the dashboard has it, the controller has it or
\* waits for message 3, and neither queue has overflowed.
Met(c) ==
  LET q == peers[DashName[c]]
  IN  /\ ctl # NoConn /\ client[c] = "open" /\ dash[c].st = "done" /\ dash[c].k = ctl
      /\ q.st \in {"answered", "ready"} /\ q.c = c /\ q.n = dash[c].n
      /\ ~lost[c] /\ ~lost[ctl] /\ ~NameShared(c)

\* While both ends hold a session, the frames on their way in each direction
\* are exactly those between the reader's next nonce and the writer's, in
\* order: none is missing, repeated or overtaken, so each will decrypt.  (An
\* overflowed queue breaks this for good.)
NonceSync ==
  \A c \in DashConn : Met(c) =>
    LET p == DashName[c]
        q == peers[p]
        n == dash[c].n
    IN  /\ UnderWay(c, ctl, Stream(c, n, ctl, Controller), IF q.st = "ready" THEN q.rx ELSE 0, dash[c].tx)
        /\ UnderWay(ctl, c, Stream(c, n, ctl, p), dash[c].rx, IF q.st = "ready" THEN q.tx ELSE 0)

\* Once nothing is on its way, an authorized dashboard the relay connects to
\* the controller has a session with it.
EstablishedWhenQuiet ==
  Quiet => \A c \in DashConn : Linked(c) /\ Authorized(c) => Secure(c)

\* So does, however often the controller has reconnected, a dashboard that has
\* been told of a controller no more than once, has its name to itself and an
\* enrolled key, and lost no envelope, nor the controller: a first handshake is
\* never spoilt by what is left of others.
FirstEstablished ==
  Quiet => \A c \in DashConn :
    /\ Linked(c) /\ DashKey[c] \in Enrolled /\ dash[c].n <= 1
    /\ ~NameShared(c) /\ ~lost[c] /\ ~lost[ctl]
    => Secure(c)

\* A dashboard that is connected to the controller gets its session, or one
\* of the two goes away.
Establishes ==
  \A c \in DashConn : (Linked(c) /\ Authorized(c)) ~> (Secure(c) \/ ~Linked(c))

\* A controller connection whose end reaches the relay frees the room's slot,
\* whatever its handler was doing for half-open dashboards and others (relay.rs,
\* 107-112 and 161-167). Of a half-open one nothing is said: its slot may stay
\* taken for ever, and each later controller is then refused (relay.rs:108, 139).
SlotFreed ==
  \A c \in CtlConn \ HalfOpen :
    (controller[TheRoom] = c /\ client[c] = "closed") ~> (controller[TheRoom] # c)

-----------------------------------------------------------------------------
(* What a session promises for what a user types: InputChannel.            *)

LinkState(c) ==
  LET q == peers[DashName[c]]
  IN  IF dash[c].st # "done" THEN "none"
      ELSE IF ctl # NoConn /\ dash[c].k = ctl /\ q.st \in {"answered", "ready"} /\ q.c = c /\ q.n = dash[c].n
           THEN IF q.st = "ready" THEN "full" ELSE "half"
           ELSE "dead"

Channel == INSTANCE InputChannel WITH
  Dash <- DashConn,
  st   <- [c \in DashConn |-> LinkState(c)],
  sent <- [c \in DashConn |-> dash[c].tx],
  got  <- [c \in DashConn |-> IF LinkState(c) = "full" THEN peers[DashName[c]].rx ELSE 0]

\* Through the relay, reconnects and name sharing, the inbound loop of the
\* controller gets a prefix of what a dashboard sent in the current session,
\* each frame once and in order, and nothing after the session is lost.
ImplementsInputChannel == Channel!Spec

=============================================================================
