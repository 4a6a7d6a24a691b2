------------------------------- MODULE Relay -------------------------------
(***************************************************************************)
(* The relay (src/bin/relay.rs) with arbitrary clients: a connection joins *)
(* any room in any role, sends messages to any name and ends at any time.  *)
(***************************************************************************)
EXTENDS RelayServer

CONSTANTS
  MaxMsgs,  \* bound: messages sent in a behaviour
  MaxBreaks \* bound: sockets broken at a time that their handlers still read

ASSUME BoundsAssumption == MaxMsgs \in Nat /\ MaxBreaks \in Nat

VARIABLE sent      \* messages the handlers have read from their connections

vars == <<relayVars, sent>>

\* A payload is opaque to the relay; these fields only identify the message.
Data == [src : Conn, to : Name, n : 1..MaxMsgs]

Init == RelayInit /\ sent = 0

ClientMsg(c) ==
  /\ sent < MaxMsgs
  /\ \E to \in Name : RouteLookup(c, to, [src |-> c, to |-> to, n |-> sent + 1])
  /\ sent' = sent + 1

SocketBreaks(c) ==
  /\ Cardinality({d \in Conn : writer[d] = "stopped" /\ phase[d] # "gone"}) < MaxBreaks
  /\ WriterFail(c)

ConnStep(c) ==
  \/ RejectFirstFrame(c)
  \/ \E r \in Room : JoinController(c, r)
  \/ \E r \in Room, p \in PeerId : JoinDashboard(c, r, p)
  \/ RouteSend(c)
  \/ StreamEnd(c)
  \/ Cleanup(c)
  \/ WriterSend(c)
  \/ SocketBreaks(c)

Next == \E c \in Conn : (ConnStep(c) /\ UNCHANGED sent) \/ ClientMsg(c)

Spec == Init /\ [][Next]_vars

-----------------------------------------------------------------------------
\* The registry has c in the place that it joined for.
Registered(c) ==
  /\ Live(c)
  /\ c = IF IsController(c) THEN controller[ident[c].room]
         ELSE dashboards[ident[c].room][ident[c].id]

\* What is sent to the name of c goes to c.
Addressable(c) ==
  Live(c) /\ c = Lookup(ident[c].room, ident[c].id)

\* A dashboard under the name that routing takes for the controller.
Misnamed(c) == ~IsController(c) /\ ident[c].id = Controller

\* Everything the client of c has been or will be sent, in order.
Stream(c) == socket[c] \o queue[c]

\* The peers a client believes present after the envelopes s.
View(s) == {p \in Name : \E i \in DOMAIN s :
              /\ s[i] = PeerJoin(p)
              /\ \A j \in DOMAIN s : j > i => s[j] # PeerLeave(p)}

\* Another connection has joined the same room under the same name.
NameShared(c) ==
  \E d \in Conn \ {c} : HasJoined(d) /\ ident[d] = ident[c]

Envelope ==
  {Joined, Error} \cup [t : {"peer_join", "peer_leave"}, peer : Name]
                  \cup [t : {"deliver"}, from : Name, data : Data]

Parcel == [rcpt : Conn, env : Envelope]

\* The state is well typed; a queue never exceeds its capacity and holds
\* nothing once its writer has stopped (the receiver is dropped).
TypeOK ==
  /\ controller \in [Room -> Conn \cup {NoConn}]
  /\ dashboards \in [Room -> [PeerId -> Conn \cup {NoConn}]]
  /\ phase \in [Conn -> {"joining", "refused", "routing", "leaving", "gone"}]
  /\ ident \in [Conn -> Ident]
  /\ pending \in [Conn -> Seq(Parcel)]
  /\ queue \in [Conn -> Seq(Envelope)]
  /\ writer \in [Conn -> {"running", "stopped"}]
  /\ socket \in [Conn -> Seq(Envelope)]
  /\ lost \in [Conn -> BOOLEAN]
  /\ sent \in 0..MaxMsgs
  /\ \A c \in Conn : Len(queue[c]) <= Cap /\ (writer[c] = "stopped" => queue[c] = <<>>)

\* A live connection can be reached under its name unless another connection
\* joined the room under that name too, or it is a dashboard named like the
\* controller, which register accepts (122-123) and route passes over (148).
ReachableUnlessShared ==
  \A c \in Conn : Live(c) => Addressable(c) \/ NameShared(c) \/ Misnamed(c)

\* What a registered client has been told of who is present, once everything
\* queued for it arrives, is exactly who is registered: notices are queued in
\* the critical section that changes the registry, so no interleaving of
\* joins and leaves swaps or omits one (unless the queue overflowed or the
\* socket broke).
PresenceExact ==
  \A c \in Conn : Registered(c) /\ writer[c] = "running" /\ ~lost[c] =>
    LET r == ident[c].room
    IN  View(Stream(c)) = IF IsController(c) THEN Present(r)
                          ELSE {Controller} \ (IF controller[r] = NoConn THEN {Controller} ELSE {})

\* The first envelope a client sees is the ack of its join or the refusal, and
\* neither comes later, although other handlers can send to a connection from
\* the moment it is registered ("ack first", 114 and 124).
AckFirst ==
  \A c \in Conn : \A i \in DOMAIN Stream(c) :
    i = 1 <=> Stream(c)[i].t \in {"joined", "error"}

\* A message arrives only in its sender's room, under its sender's own id, and at
\* a connection that joined under the name it was addressed to, the
\* controller's only at a controller, even when the recipient was looked up
\* before the registry changed (route, 145-156).
RoutedFaithfully ==
  \A c \in Conn : \A i \in DOMAIN Stream(c) :
    Stream(c)[i].t = "deliver" =>
      LET d == Stream(c)[i].data
      IN  /\ ident[d.src].room = ident[c].room
          /\ Stream(c)[i].from = ident[d.src].id
          /\ d.to = ident[c].id
          /\ d.to = Controller => IsController(c)

\* A message is in the stream of one client at most, and there once, though its
\* recipient's name may be taken over between the lookup and the send.
DeliveredOnce ==
  \A b, c \in Conn : \A i \in DOMAIN Stream(b), j \in DOMAIN Stream(c) :
    /\ Stream(b)[i].t = "deliver" /\ Stream(c)[j].t = "deliver"
    /\ Stream(b)[i].data = Stream(c)[j].data
    => b = c /\ i = j

\* Between the controller and a dashboard, a client never gets a message from a
\* peer it has not been told of, or has been told is gone, if the sender's name is its own: the send after the
\* unlock (154-156) cannot overtake the sender's PeerJoin nor fall behind its
\* PeerLeave.
AnnouncedBeforeDelivered ==
  \A c \in Conn : ~lost[c] => \A i \in DOMAIN Stream(c) :
    /\ Stream(c)[i].t = "deliver"
    /\ IsController(c) # IsController(Stream(c)[i].data.src)
    /\ ~NameShared(Stream(c)[i].data.src)
    => Stream(c)[i].from \in View(SubSeq(Stream(c), 1, i - 1))

\* What PeerJoin and PeerLeave say of a dashboard (relay_proto.rs:33): that it
\* is present or has left.
PresenceTruthful ==
  \A c, d \in Conn :
    /\ Live(c) /\ IsController(c) /\ writer[c] = "running" /\ ~lost[c]
    /\ Live(d) /\ ~IsController(d) /\ ident[d].room = ident[c].room
    => ident[d].id \in View(Stream(c))

=============================================================================
