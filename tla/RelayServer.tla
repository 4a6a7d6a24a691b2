---------------------------- MODULE RelayServer ----------------------------
(***************************************************************************)
(* The relay process (src/bin/relay.rs): one handler task and one writer   *)
(* task per accepted connection, and the room registry they share under    *)
(* one mutex.  The actions here are the relay's own steps; the clients at  *)
(* the other end of the sockets are supplied by the module that extends    *)
(* this one (Relay: arbitrary clients; Session: the controller's relay     *)
(* client and the dashboards).                                             *)
(*                                                                         *)
(* A critical section of the code (the registry lock held) is one action.  *)
(* Routing a message is two: the recipient's sender half is cloned under   *)
(* the lock, and used after the lock is released.                          *)
(***************************************************************************)
EXTENDS Naturals, Sequences, FiniteSets, SequencesExt

CONSTANTS
  Conn,        \* accepted connections; an element is used once
  Room,        \* room names
  PeerId,      \* names dashboards join under, which may include Controller
  Controller,  \* CONTROLLER_PEER, the name of the controller
  NoConn,      \* None, for Option<Tx> and for a name that is not in the map
  Cap          \* capacity of a connection's queue (256 in the code)

ASSUME RelayAssumption ==
  /\ NoConn \notin Conn /\ Room # {}
  /\ IsFiniteSet(PeerId)
  /\ Cap \in Nat \ {0}

VARIABLES
  controller,  \* Room.controller, per room
  dashboards,  \* Room.dashboards, per room
  phase,       \* where the handler of a connection is
  ident,       \* what its Join said: role, room and id (meaningful once joined)
  pending,     \* the recipient cloned under the lock and the envelope to send
  queue,       \* the bounded channel between handlers and the writer task
  writer,      \* whether the writer task (and so the channel) still exists
  socket,      \* what the writer has put on the connection
  lost         \* some try_send on the connection's queue found it full

registry  == <<controller, dashboards>>
handlers  == <<phase, ident, pending>>
outgoing  == <<queue, writer, socket, lost>>
relayVars == <<controller, dashboards, phase, ident, pending,
               queue, writer, socket, lost>>

Name  == PeerId \cup {Controller}
Ident == [role : {"controller", "dashboard"}, room : Room, id : Name]

Joined       == [t |-> "joined"]
Error        == [t |-> "error"]
PeerJoin(p)  == [t |-> "peer_join", peer |-> p]
PeerLeave(p) == [t |-> "peer_leave", peer |-> p]
Deliver(f, d) == [t |-> "deliver", from |-> f, data |-> d]

-----------------------------------------------------------------------------
(* Sending: try_send to a bounded channel.                                 *)

\* Mutant: one envelope too many fits.
Accepted_OffByOne(c, s) ==
  IF writer[c] = "stopped" THEN <<>>
  ELSE SubSeq(s, 1, IF Len(s) <= Cap + 1 - Len(queue[c]) THEN Len(s) ELSE Cap + 1 - Len(queue[c]))

\* What the queue of c takes of the envelopes s offered to it in a row:
\* nothing once the writer is gone, else what fits.  One critical section
\* offers several envelopes only to the connection that is just joining,
\* whose queue is empty; its writer draining some of them meanwhile would
\* amount to a larger Cap.
Accepted(c, s) ==
  IF writer[c] = "stopped" THEN <<>>
  ELSE SubSeq(s, 1, IF Len(s) <= Cap - Len(queue[c]) THEN Len(s) ELSE Cap - Len(queue[c]))

\* mail[c] is what one step of a handler sends to connection c.
Send(mail) ==
  /\ queue' = [c \in Conn |-> queue[c] \o Accepted(c, mail[c])]
  /\ lost'  = [c \in Conn |-> lost[c] \/ (writer[c] = "running" /\ Accepted(c, mail[c]) # mail[c])]
  /\ UNCHANGED <<writer, socket>>

MailTo(c, s) == [d \in Conn |-> IF d = c THEN s ELSE <<>>]

-----------------------------------------------------------------------------
(* The registry.                                                           *)

Present(r)       == {p \in PeerId : dashboards[r][p] # NoConn}
DashboardConn(r) == {dashboards[r][p] : p \in Present(r)}

\* Mutant: one map of names for all rooms.
Lookup_AnyRoom(r, to) ==
  LET found == {q \in Room : IF to = Controller THEN controller[q] # NoConn ELSE dashboards[q][to] # NoConn}
      q     == IF found = {} THEN r ELSE CHOOSE x \in found : TRUE
  IN  IF to = Controller THEN controller[q] ELSE dashboards[q][to]

Lookup(r, to) == IF to = Controller THEN controller[r] ELSE dashboards[r][to]

\* Mutant: the slot is taken without looking.
SlotFree_Always(r) == TRUE

SlotFree(r) == controller[r] = NoConn

\* Mutants: leaving does not vacate the slot; leaving clears the whole map.
WithoutController_Kept(r)   == controller
WithoutDashboard_None(r, p) == [q \in PeerId |-> NoConn]

\* The maps after a cleanup: a dashboard is removed by its name, whichever
\* connection the name stands for by now.
WithoutController(r)   == [controller EXCEPT ![r] = NoConn]
WithoutDashboard(r, p) == [dashboards[r] EXCEPT ![p] = NoConn]

\* Mutant: dashboards are not told that the controller left.
LeaveAudience_ControllerOnly(c) ==
  IF ident[c].role = "controller" THEN {} ELSE {controller[ident[c].room]}

\* Who is told that c left.
LeaveAudience(c) ==
  IF ident[c].role = "controller" THEN DashboardConn(ident[c].room)
  ELSE {controller[ident[c].room]}

\* Mutant: the ack comes last.
Greeting_AckLast(ps) == [i \in DOMAIN ps |-> PeerJoin(ps[i])] \o <<Joined>>

\* Mutant: nobody is told who is there already.
Greeting_AckOnly(ps) == <<Joined>>

\* What a connection is sent on joining: the ack, then who is there.
Greeting(ps) == <<Joined>> \o [i \in DOMAIN ps |-> PeerJoin(ps[i])]

RelayInit ==
  /\ controller = [r \in Room |-> NoConn]
  /\ dashboards = [r \in Room |-> [p \in PeerId |-> NoConn]]
  /\ phase   = [c \in Conn |-> "joining"]
  /\ ident   = [c \in Conn |-> [role |-> "controller", room |-> CHOOSE r \in Room : TRUE,
                               id |-> Controller]]
  /\ pending = [c \in Conn |-> <<>>]
  /\ queue   = [c \in Conn |-> <<>>]
  /\ writer  = [c \in Conn |-> "running"]
  /\ socket  = [c \in Conn |-> <<>>]
  /\ lost    = [c \in Conn |-> FALSE]

-----------------------------------------------------------------------------
(* The handler: first frame, registration, route loop, cleanup.            *)

\* The handler answers Error and returns.  Its writer is left running and
\* drains the queue.
Refuse(c) ==
  /\ phase' = [phase EXCEPT ![c] = "refused"]
  /\ Send(MailTo(c, <<Error>>))
  /\ UNCHANGED <<registry, ident, pending>>

\* The first frame is no Join or carries the wrong token, or the connection
\* ends before it.  Nothing limits the wait for it: a handler whose client
\* sends nothing stays in "joining".
RejectFirstFrame(c) ==
  /\ phase[c] = "joining"
  /\ Refuse(c)

\* The order in which the HashMap of dashboards is walked is any order.
JoinController(c, r) ==
  /\ phase[c] = "joining"
  /\ \/ /\ ~SlotFree(r)
        /\ Refuse(c)
     \/ /\ SlotFree(r)
        /\ controller' = [controller EXCEPT ![r] = c]
        /\ phase' = [phase EXCEPT ![c] = "routing"]
        /\ ident' = [ident EXCEPT ![c] = [role |-> "controller", room |-> r, id |-> Controller]]
        /\ \E order \in SetToSeqs(Present(r)) :
             Send([d \in Conn |->
                     IF d = c THEN Greeting(order)
                     ELSE IF d \in DashboardConn(r) THEN <<PeerJoin(Controller)>>
                     ELSE <<>>])
        /\ UNCHANGED <<dashboards, pending>>

\* The insert replaces whatever connection was registered under the name.
JoinDashboard(c, r, p) ==
  /\ phase[c] = "joining"
  /\ dashboards' = [dashboards EXCEPT ![r][p] = c]
  /\ phase' = [phase EXCEPT ![c] = "routing"]
  /\ ident' = [ident EXCEPT ![c] = [role |-> "dashboard", room |-> r, id |-> p]]
  /\ Send([d \in Conn |->
             IF d = c THEN Greeting(IF controller[r] = NoConn THEN <<>> ELSE <<Controller>>)
             ELSE IF d = controller[r] THEN <<PeerJoin(p)>>
             ELSE <<>>])
  /\ UNCHANGED <<controller, pending>>

\* A Msg{to, data} is read and its recipient looked up; without one the
\* message is discarded.
RouteLookup(c, to, data) ==
  /\ phase[c] = "routing" /\ pending[c] = <<>>
  /\ LET d == Lookup(ident[c].room, to)
     IN  pending' = [pending EXCEPT ![c] =
           IF d = NoConn THEN <<>>
           ELSE << [rcpt |-> d, env |-> Deliver(ident[c].id, data)] >>]
  /\ UNCHANGED <<registry, phase, ident, outgoing>>

\* Mutant: the envelope stays to be sent again.
RouteSend_Again(c) ==
  /\ pending[c] # <<>>
  /\ Send(MailTo(pending[c][1].rcpt, <<pending[c][1].env>>))
  /\ UNCHANGED <<registry, handlers>>

\* The lock is released; the envelope goes to the connection found then.
RouteSend(c) ==
  /\ pending[c] # <<>>
  /\ Send(MailTo(pending[c][1].rcpt, <<pending[c][1].env>>))
  /\ pending' = [pending EXCEPT ![c] = <<>>]
  /\ UNCHANGED <<registry, phase, ident>>

\* Mutant: the connection ends with a message still to be sent.
StreamEnd_Early(c) ==
  /\ phase[c] = "routing"
  /\ phase' = [phase EXCEPT ![c] = "leaving"]
  /\ UNCHANGED <<registry, ident, pending, outgoing>>

\* Close, a read error or the end of the stream ends the route loop.
StreamEnd(c) ==
  /\ phase[c] = "routing" /\ pending[c] = <<>>
  /\ phase' = [phase EXCEPT ![c] = "leaving"]
  /\ UNCHANGED <<registry, ident, pending, outgoing>>

\* Deregistration, the PeerLeave notices, and writer.abort().
Cleanup(c) ==
  LET r == ident[c].room
      p == ident[c].id
      notice(d) == IF d \in LeaveAudience(c) THEN Accepted(d, <<PeerLeave(p)>>) ELSE <<>>
  IN /\ phase[c] = "leaving"
     /\ \/ /\ ident[c].role = "controller"
           /\ controller' = WithoutController(r)
           /\ UNCHANGED dashboards
        \/ /\ ident[c].role = "dashboard"
           /\ dashboards' = [dashboards EXCEPT ![r] = WithoutDashboard(r, p)]
           /\ UNCHANGED controller
     /\ phase'  = [phase EXCEPT ![c] = "gone"]
     /\ writer' = [writer EXCEPT ![c] = "stopped"]
     /\ queue'  = [d \in Conn |-> IF d = c THEN <<>> ELSE queue[d] \o notice(d)]
     /\ lost'   = [d \in Conn |-> lost[d] \/
          (d \in LeaveAudience(c) \ {c} /\ writer[d] = "running" /\ notice(d) = <<>>)]
     /\ UNCHANGED <<ident, pending, socket>>

-----------------------------------------------------------------------------
(* The writer task.                                                        *)

WriterSend(c) ==
  /\ writer[c] = "running" /\ queue[c] # <<>>
  /\ socket' = [socket EXCEPT ![c] = Append(@, Head(queue[c]))]
  /\ queue'  = [queue EXCEPT ![c] = Tail(@)]
  /\ UNCHANGED <<registry, handlers, writer, lost>>

\* sink.send failed: the task ends and the channel's receiver is dropped with
\* what is in it, while the handler may not have noticed yet.
WriterFail(c) ==
  /\ writer[c] = "running" /\ queue[c] # <<>>
  /\ writer' = [writer EXCEPT ![c] = "stopped"]
  /\ queue'  = [queue EXCEPT ![c] = <<>>]
  /\ UNCHANGED <<registry, handlers, socket, lost>>

-----------------------------------------------------------------------------
Live(c)       == phase[c] \in {"routing", "leaving"}
HasJoined(c)  == phase[c] \in {"routing", "leaving", "gone"}
IsController(c) == ident[c].role = "controller"

\* A room's controller slot and the handlers agree: the slot holds exactly the
\* one live controller connection of the room, and a name in the dashboards
\* map always stands for a live dashboard handler that joined that room under
\* that name: never a dead sender, whatever order connections that share a
\* name join and leave in (register, 102-131; cleanup, 161-183).
RegistryConsistent ==
  /\ \A r \in Room, c \in Conn :
       controller[r] = c <=> Live(c) /\ IsController(c) /\ ident[c].room = r
  /\ \A r \in Room, p \in PeerId : dashboards[r][p] # NoConn =>
       LET c == dashboards[r][p]
       IN  Live(c) /\ ident[c] = [role |-> "dashboard", room |-> r, id |-> p]

=============================================================================
