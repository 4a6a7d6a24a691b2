---------------------------- MODULE RelayProofs ----------------------------
(***************************************************************************)
(* Theorems about the relay for any number of connections, rooms and       *)
(* names, any queue capacity and any number of messages: first its         *)
(* registry, then what it delivers and in which order that begins.         *)
(***************************************************************************)
EXTENDS Relay, RelayServerProofs

-----------------------------------------------------------------------------
(* Envelopes and queues.                                                   *)

\* The envelopes the relay builds are well formed.
LEMMA EnvelopeTypes ==
  /\ Joined \in Envelope /\ Error \in Envelope
  /\ \A p \in Name : PeerJoin(p) \in Envelope /\ PeerLeave(p) \in Envelope
  /\ \A f \in Name, d \in Data : Deliver(f, d) \in Envelope
BY DEF Envelope, Joined, Error, PeerJoin, PeerLeave, Deliver

\* Type correctness is that of the relay's steps, for these envelopes.
LEMMA RelayTypes ==
  /\ TypeOK <=> RelayTyped(Envelope) /\ sent \in 0..MaxMsgs
  /\ TypeOK => RelayTyped(Envelope) /\ RegistryTyped /\ QueuesOK(Envelope)
  /\ Notices \subseteq Envelope
<1>1. Notices \subseteq Envelope
  BY DEF Notices, Envelope
<1>2. Packages(Envelope) = Parcel
  BY DEF Packages, Parcel
<1>3. TypeOK <=> RelayTyped(Envelope) /\ sent \in 0..MaxMsgs
  BY <1>1, <1>2 DEF TypeOK, RelayTyped, RegistryTyped, RegistryOK, HandlersOK, HeldOK, QueuesOK
<1> QED BY <1>1, <1>3 DEF RelayTyped

\* The same of the next state.
LEMMA RelayTypesNext == RelayTyped(Envelope)' /\ sent' \in 0..MaxMsgs => TypeOK'
<1>1. Packages(Envelope) = Parcel
  BY DEF Packages, Parcel
<1> QED BY <1>1 DEF TypeOK, RelayTyped, RegistryTyped, RegistryOK, HandlersOK, HeldOK, QueuesOK

-----------------------------------------------------------------------------
(* Type correctness.                                                       *)

\* The relay starts well typed.
LEMMA InitTypeOK == Init => TypeOK
BY InitType, RelayTypes, BoundsAssumption DEF Init

\* Type correctness is inductive.
LEMMA StepType == TypeOK /\ [Next]_vars => TypeOK'
<1> SUFFICES ASSUME TypeOK, [Next]_vars PROVE TypeOK'
  OBVIOUS
<1>0. RelayTyped(Envelope) /\ sent \in 0..MaxMsgs
  BY RelayTypes
<1>1. ASSUME NEW c \in Conn, ConnStep(c), UNCHANGED sent
      PROVE  RelayTyped(Envelope)' /\ sent' \in 0..MaxMsgs
  <2>1. CASE RejectFirstFrame(c)
    BY <1>0, <1>1, <2>1, RefuseType DEF RejectFirstFrame
  <2>2. CASE \E r \in Room : JoinController(c, r)
    BY <1>0, <1>1, <2>2, JoinControllerType
  <2>3. CASE \E r \in Room, p \in PeerId : JoinDashboard(c, r, p)
    BY <1>0, <1>1, <2>3, JoinDashboardType
  <2>4. CASE RouteSend(c)
    BY <1>0, <1>1, <2>4, RouteSendType
  <2>5. CASE StreamEnd(c)
    BY <1>0, <1>1, <2>5, StreamEndType
  <2>6. CASE Cleanup(c)
    BY <1>0, <1>1, <2>6, CleanupType
  <2>7. CASE WriterSend(c) \/ SocketBreaks(c)
    BY <1>0, <1>1, <2>7, WriterType DEF SocketBreaks
  <2> QED BY <1>1, <2>1, <2>2, <2>3, <2>4, <2>5, <2>6, <2>7 DEF ConnStep
<1>2. ASSUME NEW c \in Conn, ClientMsg(c)
      PROVE  RelayTyped(Envelope)' /\ sent' \in 0..MaxMsgs
  <2>1. PICK to \in Name : RouteLookup(c, to, [src |-> c, to |-> to, n |-> sent + 1])
    BY <1>2 DEF ClientMsg
  <2>2. sent + 1 \in 1..MaxMsgs /\ sent' = sent + 1
    BY <1>0, <1>2, BoundsAssumption DEF ClientMsg
  <2> DEFINE data == [src |-> c, to |-> to, n |-> sent + 1]
  <2>3. \A f \in Name : Deliver(f, data) \in Envelope
    BY <2>2, EnvelopeTypes DEF Data
  <2>4. sent' \in 0..MaxMsgs /\ RouteLookup(c, to, data)
    BY <2>1, <2>2, BoundsAssumption
  <2>5. Deliver(ident[c].id, data) \in Envelope
    BY <1>0, <2>3 DEF RelayTyped, RegistryTyped, HandlersOK, Ident
  <2> HIDE DEF data
  <2> QED BY <1>0, <2>4, <2>5, RouteLookupType
<1>3. ASSUME UNCHANGED vars PROVE RelayTyped(Envelope)' /\ sent' \in 0..MaxMsgs
  BY <1>0, <1>3, UnchangedType DEF vars
<1>4. RelayTyped(Envelope)' /\ sent' \in 0..MaxMsgs
  BY <1>1, <1>2, <1>3 DEF Next
<1> QED BY <1>4, RelayTypesNext

\* Type correctness, with the capacity of every queue respected: for any
\* number of connections, rooms, names, messages and any capacity.
THEOREM TypeCorrect == Spec => []TypeOK
BY InitTypeOK, StepType, PTL DEF Spec

-----------------------------------------------------------------------------
(* The registry and the handlers agree.                                    *)

\* The registry invariant is inductive, given type correctness.
LEMMA StepRegistry == TypeOK /\ RegistryConsistent /\ [Next]_vars => RegistryConsistent'
<1> SUFFICES ASSUME TypeOK, RegistryConsistent, [Next]_vars PROVE RegistryConsistent'
  OBVIOUS
<1>1. ASSUME NEW c \in Conn, ConnStep(c) PROVE RegistryConsistent'
  <2>1. CASE RejectFirstFrame(c)
    <3>1. phase[c] = "joining" /\ phase' = [phase EXCEPT ![c] = "refused"]
          /\ UNCHANGED <<controller, dashboards, ident>>
      BY <2>1 DEF RejectFirstFrame, Refuse, registry
    <3> QED BY <3>1, RelayTypes, RegistryFrame DEF Live, TypeOK
  <2>2. CASE \E r \in Room : JoinController(c, r)
    BY <2>2, RelayTypes, JoinControllerRegistry
  <2>3. CASE \E r \in Room, p \in PeerId : JoinDashboard(c, r, p)
    BY <2>3, RelayTypes, JoinDashboardRegistry
  <2>4. CASE RouteSend(c)
    BY <2>4, RelayTypes, RegistryFrame DEF RouteSend, registry, Live
  <2>5. CASE StreamEnd(c)
    <3>1. phase[c] = "routing" /\ phase' = [phase EXCEPT ![c] = "leaving"]
          /\ UNCHANGED <<controller, dashboards, ident>>
      BY <2>5 DEF StreamEnd, registry
    <3> QED BY <3>1, RelayTypes, RegistryFrame DEF Live, TypeOK
  <2>6. CASE Cleanup(c)
    BY <2>6, RelayTypes, CleanupRegistry
  <2>7. CASE WriterSend(c) \/ SocketBreaks(c)
    BY <2>7, RelayTypes, RegistryFrame DEF WriterSend, SocketBreaks, WriterFail, registry, handlers, Live
  <2> QED BY <1>1, <2>1, <2>2, <2>3, <2>4, <2>5, <2>6, <2>7 DEF ConnStep
<1>2. ASSUME NEW c \in Conn, ClientMsg(c) PROVE RegistryConsistent'
  BY <1>2, RelayTypes, RegistryFrame DEF ClientMsg, RouteLookup, registry, Live
<1>3. CASE UNCHANGED vars
  BY <1>3, RelayTypes, RegistryFrame DEF vars, relayVars, Live
<1> QED BY <1>1, <1>2, <1>3 DEF Next

\* The registry never names a dead connection, a room never has two
\* controllers, and a live controller never loses its slot: in every order of
\* joins, refusals and cleanups, of any number of connections.
THEOREM RegistryAgrees == Spec => []RegistryConsistent
<1>1. Init => RegistryConsistent
  BY RelayAssumption DEF Init, RelayInit, RegistryConsistent, Live
<1> QED BY <1>1, StepRegistry, TypeCorrect, PTL DEF Spec

-----------------------------------------------------------------------------
(* Who can be reached.                                                     *)

\* What a connection joined as fits its name.
NamedByRole ==
  \A c \in Conn : HasJoined(c) =>
    IF IsController(c) THEN ident[c].id = Controller ELSE ident[c].id \in PeerId

\* A live dashboard is in the map, or its name was joined under by another. (For a
\* controller the slot is its own, by RegistryConsistent.)
DashboardsKept ==
  \A c \in Conn : Live(c) /\ ~IsController(c) =>
    dashboards[ident[c].room][ident[c].id] = c \/ NameShared(c)

\* With the registry as it is these give the property.
LEMMA KeptReachable ==
  TypeOK /\ RegistryConsistent /\ NamedByRole /\ DashboardsKept => ReachableUnlessShared
<1> SUFFICES ASSUME TypeOK, RegistryConsistent, NamedByRole, DashboardsKept, NEW c \in Conn, Live(c)
             PROVE  Addressable(c) \/ NameShared(c) \/ Misnamed(c)
  BY DEF ReachableUnlessShared
<1>1. HasJoined(c) /\ ident[c].room \in Room
  BY DEF Live, HasJoined, TypeOK, Ident
<1>2. CASE IsController(c)
  <2>1. controller[ident[c].room] = c
    BY <1>1, <1>2, RegistryParts DEF SlotOwned
  <2>2. ident[c].id = Controller
    BY <1>1, <1>2 DEF NamedByRole
  <2> QED BY <2>1, <2>2 DEF Addressable, Lookup
<1>3. CASE ~IsController(c)
  <2>1. CASE ident[c].id = Controller
    BY <1>3, <2>1 DEF Misnamed
  <2>2. CASE ident[c].id # Controller
    BY <1>3, <2>2 DEF DashboardsKept, Addressable, Lookup
  <2> QED BY <2>1, <2>2
<1> QED BY <1>2, <1>3

\* A step after which c is joined as id, and nobody else's entry or part changes but
\* the entry that c takes over.
LEMMA JoinedKept ==
  ASSUME TypeOK, NamedByRole, DashboardsKept, NEW c \in Conn, NEW id \in Ident,
         phase[c] = "joining", phase' = [phase EXCEPT ![c] = "routing"],
         ident' = [ident EXCEPT ![c] = id],
         IF id.role = "controller"
         THEN id.id = Controller /\ dashboards' = dashboards
         ELSE id.id \in PeerId /\ dashboards' = [dashboards EXCEPT ![id.room][id.id] = c]
  PROVE  NamedByRole' /\ DashboardsKept'
<1>1. /\ phase'[c] = "routing" /\ ident'[c] = id /\ ~HasJoined(c) /\ HasJoined(c)'
      /\ \A d \in Conn \ {c} : phase'[d] = phase[d] /\ ident'[d] = ident[d]
  BY DEF TypeOK, HasJoined
<1>2. NamedByRole'
  BY <1>1 DEF NamedByRole, HasJoined, IsController
<1>3. ASSUME NEW d \in Conn, Live(d)', ~IsController(d)'
      PROVE  dashboards'[ident'[d].room][ident'[d].id] = d \/ NameShared(d)'
  <2>1. CASE d = c
    <3>1. id.room \in Room /\ id.id \in PeerId /\ dashboards' = [dashboards EXCEPT ![id.room][id.id] = c]
      BY <1>1, <1>3, <2>1 DEF IsController, Ident
    <3>2. dashboards'[id.room][id.id] = c
      BY <3>1 DEF TypeOK
    <3> QED BY <1>1, <2>1, <3>2
  <2>2. CASE d # c
    <3>1. Live(d) /\ ~IsController(d) /\ ident'[d] = ident[d] /\ HasJoined(d)
      BY <1>1, <1>3, <2>2 DEF Live, IsController, HasJoined
    <3>2. CASE NameShared(d)
      <4>1. PICK e \in Conn \ {d} : HasJoined(e) /\ ident[e] = ident[d]
        BY <3>2 DEF NameShared
      <4>2. e # c
        BY <1>1, <4>1
      <4>3. HasJoined(e)' /\ ident'[e] = ident'[d]
        BY <1>1, <3>1, <4>1, <4>2 DEF HasJoined
      <4> QED BY <4>1, <4>3 DEF NameShared
    <3>3. CASE dashboards[ident[d].room][ident[d].id] = d
      <4>1. CASE id.role # "controller" /\ id.room = ident[d].room /\ id.id = ident[d].id
        <5>2. ident[d] \in Ident /\ id \in Ident /\ ident[d].role # "controller"
          BY <3>1 DEF IsController, TypeOK
        <5>3. ident[d].role = id.role
          BY <4>1, <5>2 DEF Ident
        <5>1. ident[d] = id
          BY <4>1, <5>2, <5>3 DEF Ident
        <5> QED BY <1>1, <2>2, <3>1, <5>1 DEF NameShared
      <4>2. CASE ~(id.role # "controller" /\ id.room = ident[d].room /\ id.id = ident[d].id)
        <5>1. ident[d].room \in Room /\ ident[d].id \in PeerId
          BY <3>1 DEF NamedByRole, TypeOK, Ident
        <5>2. dashboards'[ident[d].room][ident[d].id] = dashboards[ident[d].room][ident[d].id]
          BY <4>2, <5>1 DEF TypeOK
        <5> QED BY <3>1, <3>3, <5>2
      <4> QED BY <4>1, <4>2
    <3> QED BY <3>1, <3>2, <3>3 DEF DashboardsKept
  <2> QED BY <2>1, <2>2
<1> QED BY <1>2, <1>3 DEF DashboardsKept

\* A step that leaves alone the map and what connections joined as, and makes
\* none live.
LEMMA ReachFrame ==
  ASSUME NamedByRole, DashboardsKept, UNCHANGED <<dashboards, ident>>,
         \A c \in Conn : (Live(c)' => Live(c)) /\ (HasJoined(c)' <=> HasJoined(c))
  PROVE  NamedByRole' /\ DashboardsKept'
BY DEF NamedByRole, DashboardsKept, NameShared, IsController

\* A cleanup by name takes away another connection's entry only if the two
\* share the name.
LEMMA CleanupReach ==
  ASSUME TypeOK, NamedByRole, DashboardsKept, NEW c \in Conn, Cleanup(c)
  PROVE  NamedByRole' /\ DashboardsKept'
<1> DEFINE r == ident[c].room
           p == ident[c].id
<1>1. /\ phase[c] = "leaving" /\ phase' = [phase EXCEPT ![c] = "gone"] /\ ident' = ident
      /\ IF IsController(c) THEN dashboards' = dashboards
         ELSE dashboards' = [dashboards EXCEPT ![r] = [dashboards[r] EXCEPT ![p] = NoConn]]
  BY DEF Cleanup, IsController, WithoutDashboard
<1>2. /\ HasJoined(c) /\ HasJoined(c)' /\ ~Live(c)' /\ r \in Room
      /\ \A d \in Conn : (Live(d)' => Live(d)) /\ (HasJoined(d)' <=> HasJoined(d))
  BY <1>1 DEF TypeOK, HasJoined, Live, Ident
<1>3. CASE IsController(c)
  BY <1>1, <1>2, <1>3, ReachFrame
<1>4. CASE ~IsController(c)
  <2>1. NamedByRole'
    BY <1>1, <1>2 DEF NamedByRole, IsController
  <2>2. ASSUME NEW d \in Conn, Live(d)', ~IsController(d)'
        PROVE  dashboards'[ident'[d].room][ident'[d].id] = d \/ NameShared(d)'
    <3>1. Live(d) /\ ~IsController(d) /\ d # c /\ HasJoined(d)
      BY <1>1, <1>2, <2>2 DEF IsController, Live, HasJoined
    <3>2. NameShared(d) => NameShared(d)'
      BY <1>1, <1>2 DEF NameShared
    <3>3. CASE ident[d] = ident[c]
      BY <1>1, <1>2, <3>1, <3>3 DEF NameShared
    <3>4. CASE ident[d] # ident[c]
      <4>1. ~(ident[d].room = r /\ ident[d].id = p)
        <5>1. ident[c] \in Ident /\ ident[d] \in Ident /\ ident[c].role = ident[d].role
          BY <1>4, <3>1 DEF TypeOK, Ident, IsController
        <5> QED BY <3>4, <5>1 DEF Ident
      <4>2. ident[d].room \in Room /\ ident[d].id \in PeerId
        BY <3>1 DEF NamedByRole, TypeOK, Ident
      <4> HIDE DEF r, p
      <4>3. dashboards'[ident[d].room][ident[d].id] = dashboards[ident[d].room][ident[d].id]
        <5>1. CASE ident[d].room = r
          <6>1. dashboards'[r] = [dashboards[r] EXCEPT ![p] = NoConn]
            BY <1>1, <1>2, <1>4 DEF TypeOK
          <6>2. dashboards[r] \in [PeerId -> Conn \cup {NoConn}]
            BY <1>2 DEF TypeOK
          <6> QED BY <4>1, <4>2, <5>1, <6>1, <6>2
        <5>2. CASE ident[d].room # r
          BY <1>1, <1>4, <4>2, <5>2 DEF TypeOK
        <5> QED BY <5>1, <5>2
      <4> QED BY <1>1, <3>1, <3>2, <4>3 DEF DashboardsKept
    <3> QED BY <3>3, <3>4
  <2> QED BY <2>1, <2>2 DEF DashboardsKept
<1> QED BY <1>3, <1>4

\* Names and entries are kept by every step.
LEMMA StepReach ==
  TypeOK /\ NamedByRole /\ DashboardsKept /\ [Next]_vars => NamedByRole' /\ DashboardsKept'
<1> SUFFICES ASSUME TypeOK, NamedByRole, DashboardsKept, [Next]_vars
             PROVE  NamedByRole' /\ DashboardsKept'
  OBVIOUS
<1>1. ASSUME NEW c \in Conn, ConnStep(c) PROVE NamedByRole' /\ DashboardsKept'
  <2>1. CASE Refuse(c) /\ phase[c] = "joining"
    <3>1. phase' = [phase EXCEPT ![c] = "refused"] /\ UNCHANGED <<dashboards, ident>>
      BY <2>1 DEF Refuse, registry
    <3>2. \A d \in Conn : (Live(d)' => Live(d)) /\ (HasJoined(d)' <=> HasJoined(d))
      BY <2>1, <3>1 DEF Live, HasJoined, TypeOK
    <3> QED BY <3>1, <3>2, ReachFrame
  <2>2. ASSUME NEW r \in Room, JoinController(c, r), ~Refuse(c) PROVE NamedByRole' /\ DashboardsKept'
    <3> DEFINE id == [role |-> "controller", room |-> r, id |-> Controller]
    <3>1. /\ phase[c] = "joining" /\ phase' = [phase EXCEPT ![c] = "routing"]
          /\ ident' = [ident EXCEPT ![c] = id] /\ dashboards' = dashboards
      BY <2>2 DEF JoinController
    <3>2. id \in Ident /\ id.role = "controller" /\ id.id = Controller
      BY DEF Ident, Name
    <3> HIDE DEF id
    <3> QED BY <3>1, <3>2, JoinedKept
  <2>3. ASSUME NEW r \in Room, NEW p \in PeerId, JoinDashboard(c, r, p)
        PROVE  NamedByRole' /\ DashboardsKept'
    <3> DEFINE id == [role |-> "dashboard", room |-> r, id |-> p]
    <3>1. /\ phase[c] = "joining" /\ phase' = [phase EXCEPT ![c] = "routing"]
          /\ ident' = [ident EXCEPT ![c] = id] /\ dashboards' = [dashboards EXCEPT ![id.room][id.id] = c]
      BY <2>3 DEF JoinDashboard
    <3>2. id \in Ident /\ id.role # "controller" /\ id.id \in PeerId
      BY DEF Ident, Name
    <3> HIDE DEF id
    <3> QED BY <3>1, <3>2, JoinedKept
  <2>4. CASE RouteSend(c)
    BY <2>4, ReachFrame DEF RouteSend, registry, Live, HasJoined
  <2>5. CASE StreamEnd(c)
    <3>1. phase[c] = "routing" /\ phase' = [phase EXCEPT ![c] = "leaving"] /\ UNCHANGED <<dashboards, ident>>
      BY <2>5 DEF StreamEnd, registry
    <3>2. \A d \in Conn : (Live(d)' => Live(d)) /\ (HasJoined(d)' <=> HasJoined(d))
      BY <3>1 DEF Live, HasJoined, TypeOK
    <3> QED BY <3>1, <3>2, ReachFrame
  <2>6. CASE Cleanup(c)
    BY <2>6, CleanupReach
  <2>7. CASE WriterSend(c) \/ SocketBreaks(c)
    BY <2>7, ReachFrame DEF WriterSend, SocketBreaks, WriterFail, registry, handlers, Live, HasJoined
  <2>8. CASE RejectFirstFrame(c) \/ \E r \in Room : JoinController(c, r) /\ Refuse(c)
    BY <2>1, <2>8 DEF RejectFirstFrame, JoinController
  <2> QED BY <1>1, <2>2, <2>3, <2>4, <2>5, <2>6, <2>7, <2>8 DEF ConnStep
<1>2. ASSUME NEW c \in Conn, ClientMsg(c) PROVE NamedByRole' /\ DashboardsKept'
  BY <1>2, ReachFrame DEF ClientMsg, RouteLookup, registry, Live, HasJoined
<1>3. CASE UNCHANGED vars
  BY <1>3, ReachFrame DEF vars, relayVars, Live, HasJoined
<1> QED BY <1>1, <1>2, <1>3 DEF Next

\* A live connection can be reached under its name unless another joined its room
\* under that name, or it is a dashboard that goes by the controller's: removal by
\* name does no other harm.
THEOREM Reachable == Spec => []ReachableUnlessShared
<1>1. Init => NamedByRole /\ DashboardsKept
  BY DEF Init, RelayInit, NamedByRole, DashboardsKept, HasJoined, Live
<1> QED BY <1>1, StepReach, KeptReachable, TypeCorrect, RegistryAgrees, PTL DEF Spec

-----------------------------------------------------------------------------
(* Queues and streams as the envelopes they hold.                          *)

\* What a queue takes of an offer is what the offer begins with.
LEMMA AcceptedElements ==
  ASSUME TypeOK, NEW c \in Conn, NEW s \in Seq(Envelope), NEW i \in DOMAIN Accepted(c, s)
  PROVE  i \in DOMAIN s /\ Accepted(c, s)[i] = s[i]
<1>1. CASE writer[c] = "stopped"
  <2>1. Accepted(c, s) = <<>>
    BY <1>1 DEF Accepted
  <2> QED BY <2>1
<1>2. CASE writer[c] # "stopped"
  <2> DEFINE k == IF Len(s) <= Cap - Len(queue[c]) THEN Len(s) ELSE Cap - Len(queue[c])
  <2>1. k \in Nat /\ k <= Len(s) /\ Len(s) \in Nat
    BY RelayAssumption, LenProperties DEF TypeOK
  <2>2. Accepted(c, s) = SubSeq(s, 1, k)
    BY <1>2 DEF Accepted
  <2> HIDE DEF k
  <2>3. Len(SubSeq(s, 1, k)) = k /\ \A n \in 1..k : SubSeq(s, 1, k)[n] = s[n]
    BY <2>1, SubSeqProperties
  <2>4. i \in 1..k /\ i \in DOMAIN s
    BY <2>1, <2>2, <2>3, LenProperties
  <2> QED BY <2>2, <2>3, <2>4
<1> QED BY <1>1, <1>2

\* A queue takes nothing of an empty offer.
LEMMA NothingOffered ==
  ASSUME TypeOK, NEW c \in Conn
  PROVE  Accepted(c, <<>>) = <<>>
<1>1. <<>> \in Seq(Envelope)
  OBVIOUS
<1>2. \A k \in DOMAIN Accepted(c, <<>>) : k \in DOMAIN <<>>
  BY <1>1, AcceptedElements
<1>3. Accepted(c, <<>>) \in Seq(Envelope)
  BY <1>1, RelayTypes, AcceptedType
<1> QED BY <1>2, <1>3, EmptySeq

\* An element of a concatenation is one of the first or of the second sequence.
LEMMA ConcatElements ==
  ASSUME NEW S, NEW a \in Seq(S), NEW b \in Seq(S), NEW i \in DOMAIN (a \o b)
  PROVE  \/ i \in DOMAIN a /\ (a \o b)[i] = a[i]
         \/ i - Len(a) \in DOMAIN b /\ (a \o b)[i] = b[i - Len(a)]
<1>1. /\ Len(a) \in Nat /\ DOMAIN a = 1..Len(a)
      /\ Len(b) \in Nat /\ DOMAIN b = 1..Len(b)
      /\ a \o b \in Seq(S) /\ Len(a \o b) = Len(a) + Len(b)
  BY ConcatProperties, LenProperties
<1>2. DOMAIN (a \o b) = 1..Len(a) + Len(b)
  BY <1>1, LenProperties
<1>3. i \in 1..Len(a) + Len(b)
  BY <1>2
<1>4. (a \o b)[i] = IF i <= Len(a) THEN a[i] ELSE b[i - Len(a)]
  BY <1>3, ConcatProperties
<1> QED BY <1>1, <1>3, <1>4

\* After an offer a queue holds what it held, in its place, and parts of the offer.
LEMMA OfferElements ==
  ASSUME TypeOK, NEW c \in Conn, NEW s \in Seq(Envelope),
         NEW i \in DOMAIN (queue[c] \o Accepted(c, s))
  PROVE  \/ i \in DOMAIN queue[c] /\ (queue[c] \o Accepted(c, s))[i] = queue[c][i]
         \/ \E j \in DOMAIN s : (queue[c] \o Accepted(c, s))[i] = s[j]
<1>1. queue[c] \in Seq(Envelope) /\ Accepted(c, s) \in Seq(Envelope)
  BY RelayTypes, AcceptedType DEF TypeOK
<1>2. \/ i \in DOMAIN queue[c] /\ (queue[c] \o Accepted(c, s))[i] = queue[c][i]
      \/ /\ i - Len(queue[c]) \in DOMAIN Accepted(c, s)
         /\ (queue[c] \o Accepted(c, s))[i] = Accepted(c, s)[i - Len(queue[c])]
  BY <1>1, ConcatElements
<1>3. \A k \in DOMAIN Accepted(c, s) : k \in DOMAIN s /\ Accepted(c, s)[k] = s[k]
  BY AcceptedElements
<1> DEFINE k == i - Len(queue[c])
           taken == Accepted(c, s)
<1>4. CASE k \in DOMAIN taken /\ (queue[c] \o taken)[i] = taken[k]
  <2>1. \A n \in DOMAIN taken : n \in DOMAIN s /\ taken[n] = s[n]
    BY <1>3
  <2> HIDE DEF k, taken
  <2>2. k \in DOMAIN s /\ (queue[c] \o taken)[i] = s[k]
    BY <1>4, <2>1
  <2> QED BY <2>2 DEF taken
<1> QED BY <1>2, <1>4

\* An envelope of a stream is on the socket or in the queue.
LEMMA StreamElements ==
  ASSUME TypeOK, NEW c \in Conn, NEW i \in DOMAIN Stream(c)
  PROVE  \/ i \in DOMAIN socket[c] /\ Stream(c)[i] = socket[c][i]
         \/ \E j \in DOMAIN queue[c] : Stream(c)[i] = queue[c][j]
<1>1. socket[c] \in Seq(Envelope) /\ queue[c] \in Seq(Envelope)
  BY DEF TypeOK
<1>2. i \in DOMAIN (socket[c] \o queue[c])
  BY DEF Stream
<1>3. \/ i \in DOMAIN socket[c] /\ (socket[c] \o queue[c])[i] = socket[c][i]
      \/ /\ i - Len(socket[c]) \in DOMAIN queue[c]
         /\ (socket[c] \o queue[c])[i] = queue[c][i - Len(socket[c])]
  BY <1>1, <1>2, ConcatElements
<1> DEFINE k == i - Len(socket[c])
<1>4. CASE k \in DOMAIN queue[c] /\ (socket[c] \o queue[c])[i] = queue[c][k]
  <2> HIDE DEF k
  <2> QED BY <1>4 DEF Stream
<1> QED BY <1>3, <1>4 DEF Stream

-----------------------------------------------------------------------------
(* Messages reach whom they were meant for.                                *)

\* A message on its way to c is from a connection that has joined c's room, bears
\* that connection's name and was addressed to the name of c, the controller's
\* only if c is one.
Faithful(c, e) ==
  e.t = "deliver" =>
    /\ HasJoined(c) /\ HasJoined(e.data.src)
    /\ ident[e.data.src].room = ident[c].room
    /\ e.from = ident[e.data.src].id
    /\ e.data.to = ident[c].id
    /\ e.data.to = Controller => IsController(c)

\* A controller bears the controller's name.
Named == \A c \in Conn : HasJoined(c) /\ IsController(c) => ident[c].id = Controller

QueuedFaithful == \A c \in Conn : \A i \in DOMAIN queue[c] : Faithful(c, queue[c][i])
SocketFaithful == \A c \in Conn : \A i \in DOMAIN socket[c] : Faithful(c, socket[c][i])
PendingFaithful ==
  \A c \in Conn : pending[c] # <<>> =>
    pending[c][1].env.t = "deliver" /\ Faithful(pending[c][1].rcpt, pending[c][1].env)

RInv == Named /\ QueuedFaithful /\ SocketFaithful /\ PendingFaithful

\* The streams are faithful if every place an envelope may be in is.
LEMMA FaithfulStreams == TypeOK /\ RInv => RoutedFaithfully
<1> SUFFICES ASSUME TypeOK, RInv, NEW c \in Conn, NEW i \in DOMAIN Stream(c),
                    Stream(c)[i].t = "deliver"
             PROVE  /\ ident[Stream(c)[i].data.src].room = ident[c].room
                    /\ Stream(c)[i].from = ident[Stream(c)[i].data.src].id
                    /\ Stream(c)[i].data.to = ident[c].id
                    /\ Stream(c)[i].data.to = Controller => IsController(c)
  BY DEF RoutedFaithfully
<1>1. Faithful(c, Stream(c)[i])
  BY StreamElements DEF RInv, QueuedFaithful, SocketFaithful
<1> QED BY <1>1 DEF Faithful

\* What a connection joined as is settled once it has joined.
Settled ==
  \A c \in Conn : HasJoined(c) => HasJoined(c)' /\ ident'[c] = ident[c]

\* What was faithful when it was queued stays so: joins do not change.
LEMMA FaithfulKept ==
  ASSUME Settled, NEW c \in Conn, NEW e \in Envelope, Faithful(c, e)
  PROVE  Faithful(c, e)'
<1> SUFFICES ASSUME e.t = "deliver"
             PROVE  /\ HasJoined(c)' /\ HasJoined(e.data.src)'
                    /\ ident'[e.data.src].room = ident'[c].room
                    /\ e.from = ident'[e.data.src].id
                    /\ e.data.to = ident'[c].id
                    /\ e.data.to = Controller => IsController(c)'
  BY DEF Faithful
<1>1. e \in [t : {"deliver"}, from : Name, data : Data]
  BY DEF Envelope, Joined, Error
<1>2. e.data.src \in Conn
  BY <1>1 DEF Data
<1> QED BY <1>2 DEF Faithful, Settled, IsController

\* Queues that are emptied, left alone, or offered faithful envelopes stay faithful.
LEMMA OfferFaithful ==
  ASSUME TypeOK, QueuedFaithful, Settled, NEW mail \in [Conn -> Seq(Envelope)],
         \A c \in Conn : queue'[c] \in {<<>>, queue[c] \o Accepted(c, mail[c])},
         \A c \in Conn : \A i \in DOMAIN mail[c] : Faithful(c, mail[c][i])
  PROVE  QueuedFaithful'
<1> SUFFICES ASSUME NEW c \in Conn, NEW i \in DOMAIN queue'[c], NEW e, e = queue'[c][i]
             PROVE  Faithful(c, e)'
  BY DEF QueuedFaithful, Faithful, HasJoined
<1>1. mail[c] \in Seq(Envelope) /\ queue[c] \in Seq(Envelope)
  BY DEF TypeOK
<1>2. queue'[c] = queue[c] \o Accepted(c, mail[c])
  <2>1. queue'[c] # <<>>
    OBVIOUS
  <2> QED BY <2>1
<1>3. \/ i \in DOMAIN queue[c] /\ e = queue[c][i]
      \/ \E j \in DOMAIN mail[c] : e = mail[c][j]
  BY <1>1, <1>2, OfferElements
<1>4. CASE i \in DOMAIN queue[c] /\ e = queue[c][i]
  <2>1. e \in Envelope /\ Faithful(c, e)
    BY <1>1, <1>4, ElementOfSeq, LenProperties DEF QueuedFaithful
  <2> QED BY <2>1, FaithfulKept
<1>5. CASE \E j \in DOMAIN mail[c] : e = mail[c][j]
  <2>1. e \in Envelope /\ Faithful(c, e)
    BY <1>1, <1>5, ElementOfSeq, LenProperties
  <2> QED BY <2>1, FaithfulKept
<1> QED BY <1>3, <1>4, <1>5

\* A step that leaves the sockets alone keeps them faithful; the same for what
\* the handlers are about to send.
LEMMA SocketKept ==
  ASSUME TypeOK, SocketFaithful, Settled, socket' = socket
  PROVE  SocketFaithful'
<1> SUFFICES ASSUME NEW c \in Conn, NEW i \in DOMAIN socket[c], NEW e, e = socket[c][i]
             PROVE  Faithful(c, e)'
  BY DEF SocketFaithful, Faithful, HasJoined
<1>1. e \in Envelope /\ Faithful(c, e)
  BY ElementOfSeq, LenProperties DEF TypeOK, SocketFaithful
<1> QED BY <1>1, FaithfulKept

\* What handlers are about to send stays faithful if they send it or keep it.
LEMMA PendingKept ==
  ASSUME TypeOK, PendingFaithful, Settled,
         \A c \in Conn : pending'[c] = pending[c] \/ pending'[c] = <<>>
  PROVE  PendingFaithful'
<1> SUFFICES ASSUME NEW c \in Conn, pending'[c] # <<>>,
                    NEW d, NEW e, d = pending'[c][1].rcpt, e = pending'[c][1].env
             PROVE  e.t = "deliver" /\ Faithful(d, e)'
  BY DEF PendingFaithful, Faithful, HasJoined
<1>1. pending'[c] = pending[c] /\ pending[c] # <<>> /\ pending[c] \in Seq(Parcel)
  BY DEF TypeOK
<1>2. pending[c][1] \in Parcel
  BY <1>1
<1>3. d \in Conn /\ e \in Envelope /\ e.t = "deliver" /\ Faithful(d, e)
  BY <1>1, <1>2 DEF Parcel, PendingFaithful
<1> QED BY <1>3, FaithfulKept

\* A step that only takes from the queues: all of one, its first envelope, or nothing.
Drained ==
  \A c \in Conn : \/ queue'[c] \in {<<>>, queue[c]}
                  \/ queue[c] # <<>> /\ queue'[c] = Tail(queue[c])

\* Queues that are only drained stay faithful.
LEMMA QueuesKept ==
  ASSUME TypeOK, QueuedFaithful, Settled, Drained
  PROVE  QueuedFaithful'
<1> SUFFICES ASSUME NEW c \in Conn, NEW i \in DOMAIN queue'[c], NEW e, e = queue'[c][i]
             PROVE  Faithful(c, e)'
  BY DEF QueuedFaithful, Faithful, HasJoined
<1>1. queue[c] \in Seq(Envelope)
  BY DEF TypeOK
<1>2. \E j \in DOMAIN queue[c] : e = queue[c][j]
  <2>1. CASE queue'[c] = <<>>
    BY <2>1
  <2>2. CASE queue'[c] = queue[c]
    BY <2>2
  <2>3. CASE queue[c] # <<>> /\ queue'[c] = Tail(queue[c])
    <3>1. /\ Len(Tail(queue[c])) = Len(queue[c]) - 1 /\ Len(queue[c]) \in Nat
          /\ Tail(queue[c]) \in Seq(Envelope)
          /\ \A n \in 1..Len(Tail(queue[c])) : Tail(queue[c])[n] = queue[c][n + 1]
      BY <1>1, <2>3, HeadTailProperties, LenProperties
    <3>2. i \in 1..Len(Tail(queue[c])) /\ e = Tail(queue[c])[i]
      BY <2>3, <3>1, LenProperties
    <3>3. i + 1 \in DOMAIN queue[c] /\ e = queue[c][i + 1]
      BY <1>1, <3>1, <3>2, LenProperties
    <3> QED BY <3>3
  <2> QED BY <2>1, <2>2, <2>3 DEF Drained
<1>3. e \in Envelope /\ Faithful(c, e)
  BY <1>1, <1>2, ElementOfSeq, LenProperties DEF QueuedFaithful
<1> QED BY <1>3, FaithfulKept

\* A greeting is an acknowledgement and then presence notices.
LEMMA GreetingShape ==
  ASSUME NEW n \in Nat, NEW ps \in [1..n -> Name]
  PROVE  /\ Greeting(ps) \in Seq(Envelope) /\ Greeting(ps) # <<>>
         /\ Greeting(ps)[1] = Joined
         /\ \A i \in DOMAIN Greeting(ps) : i # 1 => Greeting(ps)[i].t = "peer_join"
<1> DEFINE notices == [i \in DOMAIN ps |-> PeerJoin(ps[i])]
<1>1. notices \in Seq(Envelope) /\ \A i \in DOMAIN notices : notices[i].t = "peer_join"
  <2>1. \A i \in DOMAIN ps : PeerJoin(ps[i]) \in Envelope
    BY EnvelopeTypes
  <2>2. notices \in [1..n -> Envelope]
    BY <2>1
  <2> QED BY <2>2, SeqDef DEF PeerJoin
<1>2. <<Joined>> \in Seq(Envelope) /\ Len(<<Joined>>) = 1
  BY EnvelopeTypes
<1>3. Greeting(ps) = <<Joined>> \o notices
  BY DEF Greeting
<1> HIDE DEF notices
<1>4. /\ Greeting(ps) \in Seq(Envelope) /\ Len(notices) \in Nat
      /\ Len(Greeting(ps)) = 1 + Len(notices)
  BY <1>1, <1>2, <1>3, ConcatProperties, LenProperties
<1>5. Greeting(ps)[1] = Joined
  BY <1>1, <1>2, <1>3, <1>4, ConcatProperties
<1>6. ASSUME NEW i \in DOMAIN Greeting(ps), i # 1 PROVE Greeting(ps)[i].t = "peer_join"
  <2>1. \/ i \in DOMAIN <<Joined>>
        \/ i - 1 \in DOMAIN notices /\ Greeting(ps)[i] = notices[i - 1]
    BY <1>1, <1>2, <1>3, ConcatElements
  <2>2. i \notin DOMAIN <<Joined>>
    BY <1>6
  <2> QED BY <1>1, <2>1, <2>2
<1> QED BY <1>3, <1>4, <1>5, <1>6

\* The mail of a controller's join: a greeting to itself, a notice to dashboards.
LEMMA WalkShape ==
  ASSUME TypeOK, NEW r \in Room, NEW order \in SetToSeqs(Present(r))
  PROVE  /\ Greeting(order) \in Seq(Envelope) /\ Greeting(order) # <<>>
         /\ Greeting(order)[1] = Joined
         /\ \A i \in DOMAIN Greeting(order) : i # 1 => Greeting(order)[i].t = "peer_join"
<1>1. Present(r) \subseteq PeerId /\ IsFiniteSet(Present(r))
  BY RelayAssumption, FS_Subset DEF Present
<1>2. Cardinality(Present(r)) \in Nat
  BY <1>1, FS_CardinalityType
<1>3. order \in [1..Cardinality(Present(r)) -> Present(r)]
  BY DEF SetToSeqs
<1>4. order \in [1..Cardinality(Present(r)) -> Name]
  BY <1>1, <1>3 DEF Name
<1> QED BY <1>2, <1>4, GreetingShape

\* No step changes what a connection joined as.
LEMMA StepSettled == TypeOK /\ [Next]_vars => Settled
<1> SUFFICES ASSUME TypeOK, [Next]_vars, NEW b \in Conn, HasJoined(b)
             PROVE  HasJoined(b)' /\ ident'[b] = ident[b]
  BY DEF Settled
<1>0. phase[b] \in {"routing", "leaving", "gone"}
  BY DEF HasJoined
<1>1. ASSUME NEW c \in Conn, ConnStep(c) PROVE HasJoined(b)' /\ ident'[b] = ident[b]
  <2>1. CASE RejectFirstFrame(c)
    BY <1>0, <2>1 DEF RejectFirstFrame, Refuse, registry, HasJoined, TypeOK
  <2>2. CASE \E r \in Room : JoinController(c, r)
    BY <1>0, <2>2 DEF JoinController, Refuse, registry, HasJoined, TypeOK
  <2>3. CASE \E r \in Room, p \in PeerId : JoinDashboard(c, r, p)
    BY <1>0, <2>3 DEF JoinDashboard, HasJoined, TypeOK
  <2>4. CASE RouteSend(c)
    BY <1>0, <2>4 DEF RouteSend, HasJoined
  <2>5. CASE StreamEnd(c)
    BY <1>0, <2>5 DEF StreamEnd, HasJoined, TypeOK
  <2>6. CASE Cleanup(c)
    BY <1>0, <2>6 DEF Cleanup, HasJoined, TypeOK
  <2>7. CASE WriterSend(c) \/ SocketBreaks(c)
    BY <1>0, <2>7 DEF WriterSend, SocketBreaks, WriterFail, handlers, HasJoined
  <2> QED BY <1>1, <2>1, <2>2, <2>3, <2>4, <2>5, <2>6, <2>7 DEF ConnStep
<1>2. ASSUME NEW c \in Conn, ClientMsg(c) PROVE HasJoined(b)' /\ ident'[b] = ident[b]
  BY <1>0, <1>2 DEF ClientMsg, RouteLookup, HasJoined
<1>3. CASE UNCHANGED vars
  BY <1>0, <1>3 DEF vars, relayVars, HasJoined
<1> QED BY <1>1, <1>2, <1>3 DEF Next

\* A step in which nobody joins keeps the controllers' name.
LEMMA NamedKept ==
  ASSUME Named, \A c \in Conn : HasJoined(c)' => HasJoined(c) /\ ident'[c] = ident[c]
  PROVE  Named'
BY DEF Named, IsController, HasJoined

\* Only the route loop sends messages: whatever else is sent keeps them faithful.
LEMMA NoticesFaithful ==
  ASSUME TypeOK, RInv, Settled, NEW mail \in [Conn -> Seq(Envelope)], Send(mail),
         \A c \in Conn : \A i \in DOMAIN mail[c] : mail[c][i].t # "deliver",
         pending' = pending
  PROVE  QueuedFaithful' /\ SocketFaithful' /\ PendingFaithful'
<1>1. \A c \in Conn : queue'[c] \in {<<>>, queue[c] \o Accepted(c, mail[c])}
  BY DEF Send
<1>2. \A c \in Conn : \A i \in DOMAIN mail[c] : Faithful(c, mail[c][i])
  BY DEF Faithful
<1>3. QueuedFaithful'
  BY <1>1, <1>2, OfferFaithful DEF RInv
<1>4. SocketFaithful'
  BY SocketKept DEF RInv, Send
<1>5. PendingFaithful'
  BY PendingKept DEF RInv
<1> QED BY <1>3, <1>4, <1>5

\* A refusal sends no message.
LEMMA RefuseRouting ==
  ASSUME TypeOK, RInv, Settled, NEW c \in Conn, phase[c] = "joining", Refuse(c)
  PROVE  RInv'
<1> DEFINE mail == MailTo(c, <<Error>>)
<1>1. mail \in [Conn -> Seq(Envelope)] /\ Send(mail)
  <2>1. <<Error>> \in Seq(Envelope)
    BY EnvelopeTypes
  <2> QED BY <2>1, MailToType DEF Refuse
<1>2. \A d \in Conn : \A i \in DOMAIN mail[d] : mail[d][i].t # "deliver"
  BY DEF MailTo, Error
<1> HIDE DEF mail
<1>3. QueuedFaithful' /\ SocketFaithful' /\ PendingFaithful'
  BY <1>1, <1>2, NoticesFaithful DEF Refuse
<1>4. Named'
  <2>1. \A d \in Conn : HasJoined(d)' => HasJoined(d) /\ ident'[d] = ident[d]
    BY DEF Refuse, HasJoined, TypeOK
  <2> QED BY <2>1, NamedKept DEF RInv
<1> QED BY <1>3, <1>4 DEF RInv

\* A controller that joins is greeted and announced, and bears its name.
LEMMA JoinControllerRouting ==
  ASSUME TypeOK, RInv, Settled, NEW c \in Conn, NEW r \in Room, JoinController(c, r)
  PROVE  RInv'
<1>1. CASE Refuse(c)
  BY <1>1, RefuseRouting DEF JoinController
<1>2. CASE ~Refuse(c)
  <2>1. PICK order \in SetToSeqs(Present(r)) :
          Send([d \in Conn |->
                  IF d = c THEN Greeting(order)
                  ELSE IF d \in DashboardConn(r) THEN <<PeerJoin(Controller)>>
                  ELSE <<>>])
    BY <1>2 DEF JoinController
  <2> DEFINE mail == [d \in Conn |->
                  IF d = c THEN Greeting(order)
                  ELSE IF d \in DashboardConn(r) THEN <<PeerJoin(Controller)>>
                  ELSE <<>>]
  <2>2. /\ Greeting(order) \in Seq(Envelope)
        /\ \A i \in DOMAIN Greeting(order) : Greeting(order)[i].t # "deliver"
    BY WalkShape DEF Joined
  <2>3. <<PeerJoin(Controller)>> \in Seq(Envelope) /\ <<>> \in Seq(Envelope)
    BY EnvelopeTypes DEF Name
  <2>4. mail \in [Conn -> Seq(Envelope)] /\ Send(mail)
    BY <2>1, <2>2, <2>3
  <2>5. \A d \in Conn : \A i \in DOMAIN mail[d] : mail[d][i].t # "deliver"
    BY <2>2 DEF PeerJoin
  <2> HIDE DEF mail
  <2>6. QueuedFaithful' /\ SocketFaithful' /\ PendingFaithful'
    BY <1>2, <2>4, <2>5, NoticesFaithful DEF JoinController
  <2>7. Named'
    <3>1. /\ phase' = [phase EXCEPT ![c] = "routing"]
          /\ ident' = [ident EXCEPT ![c] = [role |-> "controller", room |-> r, id |-> Controller]]
      BY <1>2 DEF JoinController
    <3>2. \A d \in Conn \ {c} : phase'[d] = phase[d] /\ ident'[d] = ident[d]
      BY <3>1 DEF TypeOK
    <3>3. ident'[c].id = Controller
      BY <3>1 DEF TypeOK
    <3> QED BY <3>2, <3>3 DEF RInv, Named, HasJoined, IsController
  <2> QED BY <2>6, <2>7 DEF RInv
<1> QED BY <1>1, <1>2

\* A dashboard that joins is greeted and announced.
LEMMA JoinDashboardRouting ==
  ASSUME TypeOK, RInv, Settled, NEW c \in Conn, NEW r \in Room, NEW p \in PeerId,
         JoinDashboard(c, r, p)
  PROVE  RInv'
<1> DEFINE greeting == Greeting(IF controller[r] = NoConn THEN <<>> ELSE <<Controller>>)
           mail == [d \in Conn |->
             IF d = c THEN greeting
             ELSE IF d = controller[r] THEN <<PeerJoin(p)>>
             ELSE <<>>]
<1>1. /\ greeting \in Seq(Envelope)
      /\ \A i \in DOMAIN greeting : greeting[i].t # "deliver"
  <2>1. <<>> \in [1..0 -> Name] /\ <<Controller>> \in [1..1 -> Name]
    BY DEF Name
  <2>2. \E n \in Nat : \E ps \in [1..n -> Name] : greeting = Greeting(ps)
    <3>1. CASE controller[r] = NoConn
      BY <2>1, <3>1
    <3>2. CASE controller[r] # NoConn
      BY <2>1, <3>2
    <3> QED BY <3>1, <3>2
  <2> HIDE DEF greeting
  <2> QED BY <2>2, GreetingShape DEF Joined
<1>2. <<PeerJoin(p)>> \in Seq(Envelope) /\ <<>> \in Seq(Envelope)
  BY EnvelopeTypes DEF Name
<1>3. Send(mail)
  BY DEF JoinDashboard
<1> HIDE DEF greeting
<1>4. mail \in [Conn -> Seq(Envelope)]
  BY <1>1, <1>2
<1>5. \A d \in Conn : \A i \in DOMAIN mail[d] : mail[d][i].t # "deliver"
  BY <1>1 DEF PeerJoin
<1> HIDE DEF mail
<1>6. QueuedFaithful' /\ SocketFaithful' /\ PendingFaithful'
  BY <1>3, <1>4, <1>5, NoticesFaithful DEF JoinDashboard
<1>7. Named'
  <2>1. \A d \in Conn \ {c} : phase'[d] = phase[d] /\ ident'[d] = ident[d]
    BY DEF JoinDashboard, TypeOK
  <2>2. ident'[c].role = "dashboard"
    BY DEF JoinDashboard, TypeOK
  <2> QED BY <2>1, <2>2 DEF RInv, Named, HasJoined, IsController
<1> QED BY <1>6, <1>7 DEF RInv

\* The connection found under a name has joined the room, and under that name.
LEMMA LookupFaithful ==
  ASSUME TypeOK, RegistryConsistent, Named, NEW r \in Room, NEW to \in Name,
         Lookup(r, to) # NoConn
  PROVE  /\ Lookup(r, to) \in Conn /\ HasJoined(Lookup(r, to))
         /\ ident[Lookup(r, to)].room = r /\ ident[Lookup(r, to)].id = to
         /\ to = Controller => IsController(Lookup(r, to))
<1>1. CASE to = Controller
  <2> DEFINE d == controller[r]
  <2>1. d \in Conn /\ Lookup(r, to) = d
    BY <1>1 DEF Lookup, TypeOK
  <2> HIDE DEF d
  <2>2. Live(d) /\ IsController(d) /\ ident[d].room = r
    BY <2>1, RegistryParts DEF SlotOwned, d
  <2> QED BY <1>1, <2>1, <2>2 DEF Named, Live, HasJoined
<1>2. CASE to # Controller
  <2>1. to \in PeerId
    BY <1>2 DEF Name
  <2>2. /\ Lookup(r, to) = dashboards[r][to] /\ dashboards[r][to] # NoConn
        /\ dashboards[r][to] \in Conn
    BY <1>2, <2>1 DEF Lookup, TypeOK
  <2>3. /\ Live(dashboards[r][to])
        /\ ident[dashboards[r][to]] = [role |-> "dashboard", room |-> r, id |-> to]
    BY <2>1, <2>2, RegistryParts DEF NamesLive
  <2> QED BY <1>2, <2>2, <2>3 DEF Live, HasJoined
<1> QED BY <1>1, <1>2

\* What a handler is about to send, it sends to a connection that joined the
\* sender's room under the name it was addressed to.
LEMMA RouteLookupRouting ==
  ASSUME TypeOK, RegistryConsistent, RInv, Settled, NEW c \in Conn, NEW to \in Name,
         NEW n \in 1..MaxMsgs, RouteLookup(c, to, [src |-> c, to |-> to, n |-> n])
  PROVE  RInv'
<1> DEFINE data == [src |-> c, to |-> to, n |-> n]
           r == ident[c].room
           d == Lookup(r, to)
           parcel == [rcpt |-> d, env |-> Deliver(ident[c].id, data)]
<1>1. r \in Room /\ phase[c] = "routing"
  BY DEF RouteLookup, TypeOK, Ident
<1>2. /\ pending' = [pending EXCEPT ![c] = IF d = NoConn THEN <<>> ELSE <<parcel>>]
      /\ UNCHANGED <<controller, dashboards, phase, ident, queue, writer, socket, lost>>
  BY DEF RouteLookup, registry, outgoing
<1>3. d # NoConn => Faithful(d, parcel.env) /\ parcel.env.t = "deliver" /\ parcel.rcpt = d
  <2> SUFFICES ASSUME d # NoConn
               PROVE  Faithful(d, parcel.env) /\ parcel.env.t = "deliver" /\ parcel.rcpt = d
    OBVIOUS
  <2>1. /\ HasJoined(d) /\ ident[d].room = r /\ ident[d].id = to
        /\ to = Controller => IsController(d)
    BY <1>1, LookupFaithful DEF RInv
  <2>2. /\ parcel.env.t = "deliver" /\ parcel.env.from = ident[c].id
        /\ parcel.env.data = data /\ parcel.rcpt = d
        /\ data.src = c /\ data.to = to
    BY DEF Deliver
  <2> HIDE DEF d, parcel, data
  <2> QED BY <1>1, <2>1, <2>2 DEF Faithful, HasJoined
<1>4. PendingFaithful'
  <2> HIDE DEF d, parcel
  <2> SUFFICES ASSUME NEW b \in Conn, pending'[b] # <<>>
               PROVE  /\ pending'[b][1].env.t = "deliver"
                      /\ Faithful(pending'[b][1].rcpt, pending'[b][1].env)
    BY <1>2 DEF PendingFaithful, Faithful, HasJoined, IsController
  <2>1. CASE b = c
    <3>1. d # NoConn /\ pending'[b] = <<parcel>>
      BY <1>2, <2>1 DEF TypeOK
    <3> QED BY <1>3, <3>1
  <2>2. CASE b # c
    <3>1. pending'[b] = pending[b]
      BY <1>2, <2>2 DEF TypeOK
    <3> QED BY <3>1 DEF RInv, PendingFaithful
  <2> QED BY <2>1, <2>2
<1>5. Named' /\ QueuedFaithful' /\ SocketFaithful'
  BY <1>2 DEF RInv, Named, QueuedFaithful, SocketFaithful, Faithful, HasJoined, IsController
<1> QED BY <1>4, <1>5 DEF RInv

\* The send after the unlock puts the message in the queue it was meant for.
LEMMA RouteSendRouting ==
  ASSUME TypeOK, RInv, Settled, NEW c \in Conn, RouteSend(c)
  PROVE  RInv'
<1> DEFINE d == pending[c][1].rcpt
           e == pending[c][1].env
           mail == MailTo(d, <<e>>)
<1>1. /\ pending[c] # <<>> /\ Send(mail)
      /\ pending' = [pending EXCEPT ![c] = <<>>]
      /\ UNCHANGED <<phase, ident>>
  BY DEF RouteSend
<1>2. d \in Conn /\ e \in Envelope
  <2>1. pending[c] \in Seq(Parcel)
    BY DEF TypeOK
  <2>2. pending[c][1] \in Parcel
    BY <1>1, <2>1
  <2> QED BY <2>2 DEF Parcel
<1>3. Faithful(d, e)
  BY <1>1 DEF RInv, PendingFaithful
<1> HIDE DEF d, e
<1>4. mail \in [Conn -> Seq(Envelope)]
  <2>1. <<e>> \in Seq(Envelope)
    BY <1>2
  <2> QED BY <2>1, MailToType
<1>5. \A b \in Conn : \A i \in DOMAIN mail[b] : Faithful(b, mail[b][i])
  <2> SUFFICES ASSUME NEW b \in Conn, NEW i \in DOMAIN mail[b] PROVE Faithful(b, mail[b][i])
    OBVIOUS
  <2>1. b = d /\ mail[b] = <<e>>
    BY DEF MailTo
  <2>2. mail[b][i] = e
    BY <2>1
  <2> QED BY <1>3, <2>1, <2>2
<1> HIDE DEF mail
<1>6. QueuedFaithful'
  <2>1. \A b \in Conn : queue'[b] \in {<<>>, queue[b] \o Accepted(b, mail[b])}
    BY <1>1 DEF Send
  <2> QED BY <1>4, <1>5, <2>1, OfferFaithful DEF RInv
<1>7. SocketFaithful'
  BY <1>1, SocketKept DEF RInv, Send
<1>8. PendingFaithful'
  <2>1. \A b \in Conn : pending'[b] = pending[b] \/ pending'[b] = <<>>
    BY <1>1 DEF TypeOK
  <2> QED BY <2>1, PendingKept DEF RInv
<1>9. Named'
  BY <1>1, NamedKept DEF RInv, HasJoined
<1> QED BY <1>6, <1>7, <1>8, <1>9 DEF RInv

\* A cleanup only sends notices, and drops the queue of the connection.
LEMMA CleanupRouting ==
  ASSUME TypeOK, RInv, Settled, NEW c \in Conn, Cleanup(c)
  PROVE  RInv'
<1> DEFINE p == ident[c].id
           mail == [d \in Conn |-> IF d \in LeaveAudience(c) THEN <<PeerLeave(p)>> ELSE <<>>]
<1>1. mail \in [Conn -> Seq(Envelope)]
  <2>1. PeerLeave(p) \in Envelope
    BY EnvelopeTypes DEF TypeOK, Ident
  <2> QED BY <2>1
<1>2. \A d \in Conn : \A i \in DOMAIN mail[d] : Faithful(d, mail[d][i])
  BY DEF PeerLeave, Faithful
<1>3. \A d \in Conn : queue'[d] \in {<<>>, queue[d] \o Accepted(d, mail[d])}
  <2> SUFFICES ASSUME NEW d \in Conn, d # c
               PROVE  queue'[d] = queue[d] \o Accepted(d, mail[d])
    BY DEF Cleanup
  <2>1. queue'[d] = queue[d] \o (IF d \in LeaveAudience(c) THEN Accepted(d, <<PeerLeave(p)>>) ELSE <<>>)
    BY DEF Cleanup
  <2>2. CASE d \in LeaveAudience(c)
    BY <2>1, <2>2
  <2>3. CASE d \notin LeaveAudience(c)
    <3>1. Accepted(d, <<>>) = <<>>
      BY NothingOffered
    <3> QED BY <2>1, <2>3, <3>1
  <2> QED BY <2>2, <2>3
<1> HIDE DEF mail
<1>4. QueuedFaithful'
  BY <1>1, <1>2, <1>3, OfferFaithful DEF RInv
<1>5. SocketFaithful' /\ PendingFaithful'
  BY SocketKept, PendingKept DEF RInv, Cleanup
<1>6. Named'
  <2>1. \A d \in Conn : HasJoined(d)' => HasJoined(d) /\ ident'[d] = ident[d]
    BY DEF Cleanup, HasJoined, TypeOK
  <2> QED BY <2>1, NamedKept DEF RInv
<1> QED BY <1>4, <1>5, <1>6 DEF RInv

\* The writer moves an envelope from the queue to the socket, or drops them all.
LEMMA WriterRouting ==
  ASSUME TypeOK, RInv, Settled, NEW c \in Conn, WriterSend(c) \/ WriterFail(c)
  PROVE  RInv'
<1>1. queue[c] \in Seq(Envelope) /\ queue[c] # <<>> /\ UNCHANGED <<phase, ident, pending>>
  BY DEF WriterSend, WriterFail, handlers, TypeOK
<1>2. Named' /\ PendingFaithful'
  BY <1>1, NamedKept, PendingKept DEF RInv, HasJoined
<1>3. QueuedFaithful'
  <2>1. Drained
    <3>1. \/ queue' = [queue EXCEPT ![c] = Tail(queue[c])]
          \/ queue' = [queue EXCEPT ![c] = <<>>]
      BY DEF WriterSend, WriterFail
    <3>2. \A d \in Conn \ {c} : queue'[d] = queue[d]
      BY <3>1 DEF TypeOK
    <3>3. queue'[c] \in {<<>>, Tail(queue[c])}
      BY <3>1 DEF TypeOK
    <3> QED BY <1>1, <3>2, <3>3 DEF Drained
  <2> QED BY <2>1, QueuesKept DEF RInv
<1>4. SocketFaithful'
  <2>1. CASE WriterFail(c)
    BY <2>1, SocketKept DEF RInv, WriterFail
  <2>2. CASE WriterSend(c)
    <3>1. socket' = [socket EXCEPT ![c] = Append(socket[c], Head(queue[c]))]
      BY <2>2 DEF WriterSend
    <3>2. /\ Head(queue[c]) = queue[c][1] /\ 1 \in DOMAIN queue[c]
          /\ queue[c][1] \in Envelope
      BY <1>1, LenProperties, EmptySeq, ElementOfSeq
    <3> SUFFICES ASSUME NEW d \in Conn, NEW i \in DOMAIN socket'[d], NEW e, e = socket'[d][i]
                 PROVE  Faithful(d, e)'
      BY DEF SocketFaithful, Faithful, HasJoined
    <3>3. e \in Envelope /\ Faithful(d, e)
      <4>1. CASE d = c /\ i = Len(socket[c]) + 1
        <5>1. e = queue[c][1]
          BY <3>1, <3>2, <4>1, AppendProperties DEF TypeOK
        <5> QED BY <3>2, <4>1, <5>1 DEF RInv, QueuedFaithful
      <4>2. CASE ~(d = c /\ i = Len(socket[c]) + 1)
        <5>1. i \in DOMAIN socket[d] /\ e = socket[d][i]
          <6>1. CASE d = c
            <7>1. socket[c] \in Seq(Envelope) /\ Len(socket[c]) \in Nat
              BY LenProperties DEF TypeOK
            <7>2. socket'[c] = Append(socket[c], queue[c][1])
              BY <3>1, <3>2 DEF TypeOK
            <7>3. i \in 1..Len(socket[c]) + 1
              BY <3>2, <6>1, <7>1, <7>2, AppendProperties, LenProperties
            <7>4. i \in 1..Len(socket[c])
              BY <4>2, <6>1, <7>1, <7>3
            <7> QED BY <3>2, <6>1, <7>1, <7>2, <7>4, AppendProperties, LenProperties
          <6>2. CASE d # c
            BY <3>1, <6>2 DEF TypeOK
          <6> QED BY <6>1, <6>2
        <5> QED BY <5>1, ElementOfSeq, LenProperties DEF RInv, SocketFaithful, TypeOK
      <4> QED BY <4>1, <4>2
    <3> QED BY <3>3, FaithfulKept
  <2> QED BY <2>1, <2>2
<1> QED BY <1>2, <1>3, <1>4 DEF RInv

\* What is on its way stays meant for where it is going.
LEMMA StepRouting == TypeOK /\ RegistryConsistent /\ RInv /\ [Next]_vars => RInv'
<1> SUFFICES ASSUME TypeOK, RegistryConsistent, RInv, [Next]_vars PROVE RInv'
  OBVIOUS
<1>0. Settled
  BY StepSettled
<1>1. ASSUME NEW c \in Conn, ConnStep(c) PROVE RInv'
  <2>1. CASE RejectFirstFrame(c)
    BY <1>0, <2>1, RefuseRouting DEF RejectFirstFrame
  <2>2. CASE \E r \in Room : JoinController(c, r)
    BY <1>0, <2>2, JoinControllerRouting
  <2>3. CASE \E r \in Room, p \in PeerId : JoinDashboard(c, r, p)
    BY <1>0, <2>3, JoinDashboardRouting
  <2>4. CASE RouteSend(c)
    BY <1>0, <2>4, RouteSendRouting
  <2>5. CASE StreamEnd(c)
    <3>1. \A d \in Conn : HasJoined(d)' => HasJoined(d) /\ ident'[d] = ident[d]
      BY <2>5 DEF StreamEnd, HasJoined, TypeOK
    <3>2. UNCHANGED <<queue, socket, pending>>
      BY <2>5 DEF StreamEnd, outgoing
    <3>3. Named'
      BY <3>1, NamedKept DEF RInv
    <3>4. QueuedFaithful'
      <4>1. Drained
        BY <3>2 DEF Drained
      <4> QED BY <1>0, <4>1, QueuesKept DEF RInv
    <3>5. SocketFaithful' /\ PendingFaithful'
      BY <1>0, <3>2, SocketKept, PendingKept DEF RInv
    <3> QED BY <3>3, <3>4, <3>5 DEF RInv
  <2>6. CASE Cleanup(c)
    BY <1>0, <2>6, CleanupRouting
  <2>7. CASE WriterSend(c) \/ SocketBreaks(c)
    BY <1>0, <2>7, WriterRouting DEF SocketBreaks
  <2> QED BY <1>1, <2>1, <2>2, <2>3, <2>4, <2>5, <2>6, <2>7 DEF ConnStep
<1>2. ASSUME NEW c \in Conn, ClientMsg(c) PROVE RInv'
  <2>1. PICK to \in Name : RouteLookup(c, to, [src |-> c, to |-> to, n |-> sent + 1])
    BY <1>2 DEF ClientMsg
  <2>2. sent + 1 \in 1..MaxMsgs
    BY <1>2, BoundsAssumption DEF ClientMsg, TypeOK
  <2> QED BY <1>0, <2>1, <2>2, RouteLookupRouting
<1>3. CASE UNCHANGED vars
  BY <1>3 DEF vars, relayVars, RInv, Named, QueuedFaithful, SocketFaithful, PendingFaithful,
              Faithful, HasJoined, IsController
<1> QED BY <1>1, <1>2, <1>3 DEF Next

\* A message arrives only in its sender's room, under its sender's own name, at
\* a connection that joined under the name it was addressed to: however joins,
\* takeovers and cleanups fall between the lookup and the send.
THEOREM MessagesFaithful == Spec => []RoutedFaithfully
<1>1. Init => RInv
  BY DEF Init, RelayInit, RInv, Named, QueuedFaithful, SocketFaithful, PendingFaithful,
         HasJoined
<1> QED BY <1>1, StepRouting, FaithfulStreams, TypeCorrect, RegistryAgrees, PTL DEF Spec

-----------------------------------------------------------------------------
(* The acknowledgement or the refusal comes first.                         *)

IsAck(e) == e.t \in {"joined", "error"}
Silent(s) == \A i \in DOMAIN s : s[i].t # "deliver"
AckAt(s) == \A i \in DOMAIN s : i = 1 <=> IsAck(s[i])

\* AckFirst for one connection, with what makes it inductive: nothing is sent to
\* a connection before its own join or refusal, and afterwards, while its writer
\* lives, its stream has begun.
AckInv(c) ==
  /\ AckAt(Stream(c))
  /\ phase[c] = "joining" => Stream(c) = <<>> /\ writer[c] = "running"
  /\ phase[c] # "joining" /\ writer[c] = "running" => Stream(c) # <<>>

\* A prefix of a stream that begins with its only acknowledgement is one too.
LEMMA AckPrefix ==
  ASSUME NEW a \in Seq(Envelope), NEW b \in Seq(Envelope), AckAt(a \o b)
  PROVE  AckAt(a)
<1>1. /\ DOMAIN a \subseteq DOMAIN (a \o b)
      /\ \A i \in DOMAIN a : (a \o b)[i] = a[i]
  BY ConcatProperties, LenProperties
<1> QED BY <1>1 DEF AckAt

\* Concatenation of queues is associative.
LEMMA Regroup ==
  ASSUME NEW a \in Seq(Envelope), NEW b \in Seq(Envelope), NEW d \in Seq(Envelope)
  PROVE  (a \o b) \o d = a \o (b \o d)
OBVIOUS

\* So is such a stream with other envelopes at its end.
LEMMA AckExtend ==
  ASSUME NEW a \in Seq(Envelope), NEW b \in Seq(Envelope), AckAt(a), a # <<>>,
         \A i \in DOMAIN b : ~IsAck(b[i])
  PROVE  AckAt(a \o b)
<1> SUFFICES ASSUME NEW i \in DOMAIN (a \o b) PROVE i = 1 <=> IsAck((a \o b)[i])
  BY DEF AckAt
<1>1. \/ i \in DOMAIN a /\ (a \o b)[i] = a[i]
      \/ i - Len(a) \in DOMAIN b /\ (a \o b)[i] = b[i - Len(a)]
  BY ConcatElements
<1>2. CASE i \in DOMAIN a /\ (a \o b)[i] = a[i]
  BY <1>2 DEF AckAt
<1>3. CASE i - Len(a) \in DOMAIN b /\ (a \o b)[i] = b[i - Len(a)]
  <2>1. ~IsAck((a \o b)[i])
    BY <1>3
  <2>2. Len(a) \in Nat /\ Len(a) # 0 /\ Len(b) \in Nat /\ DOMAIN b = 1..Len(b)
    BY LenProperties, EmptySeq
  <2>3. i # 1
    BY <1>3, <2>2
  <2> QED BY <2>1, <2>3
<1> QED BY <1>1, <1>2, <1>3

\* What a step may do to the stream of c.  It answers the first frame:
Answered(c) ==
  /\ phase[c] = "joining" /\ phase'[c] # "joining"
  /\ socket'[c] = socket[c] /\ writer'[c] = writer[c]
  /\ \E s \in Seq(Envelope) :
       /\ queue'[c] = queue[c] \o Accepted(c, s)
       /\ s # <<>> /\ IsAck(s[1]) /\ \A i \in DOMAIN s : i # 1 => ~IsAck(s[i])
       /\ Silent(s)

\* it sends something else, one message or notices, or nothing:
Notified(c) ==
  /\ phase'[c] = "joining" <=> phase[c] = "joining"
  /\ socket'[c] = socket[c] /\ writer'[c] = writer[c]
  /\ \/ queue'[c] = queue[c]
     \/ /\ phase[c] # "joining"
        /\ \E s \in Seq(Envelope) :
             /\ queue'[c] = queue[c] \o Accepted(c, s)
             /\ \A i \in DOMAIN s : ~IsAck(s[i])
             /\ Silent(s) \/ \E a \in Conn : RouteSend(a) /\ pending[a][1].rcpt = c
                                          /\ s = <<pending[a][1].env>>

\* the writer ends, or moves the first envelope from the queue to the socket.
WriterGone(c) ==
  /\ phase[c] # "joining" /\ phase'[c] # "joining"
  /\ socket'[c] = socket[c] /\ writer'[c] = "stopped" /\ queue'[c] = <<>>
Written(c) ==
  /\ phase'[c] = phase[c] /\ writer'[c] = writer[c] /\ queue[c] # <<>>
  /\ socket'[c] = Append(socket[c], Head(queue[c])) /\ queue'[c] = Tail(queue[c])

\* The answer to the first frame is put in an empty queue that has room for it.
LEMMA AnsweredAck ==
  ASSUME TypeOK, NEW c \in Conn, AckInv(c), Answered(c)
  PROVE  AckInv(c)'
<1>1. PICK s \in Seq(Envelope) :
        /\ queue'[c] = queue[c] \o Accepted(c, s)
        /\ s # <<>> /\ IsAck(s[1]) /\ \A i \in DOMAIN s : i # 1 => ~IsAck(s[i])
  BY DEF Answered
<1>2. socket[c] \in Seq(Envelope) /\ queue[c] \in Seq(Envelope)
  BY DEF TypeOK
<1>3. socket[c] = <<>> /\ queue[c] = <<>> /\ writer[c] = "running"
  BY <1>2, ConcatEqualIffEmpty DEF AckInv, Answered, Stream
<1> DEFINE k == IF Len(s) <= Cap - Len(queue[c]) THEN Len(s) ELSE Cap - Len(queue[c])
<1>4. k \in Nat /\ 1 <= k /\ k <= Len(s)
  BY <1>1, <1>3, RelayAssumption, LenProperties, EmptySeq
<1>5. Accepted(c, s) = SubSeq(s, 1, k)
  BY <1>3 DEF Accepted
<1> HIDE DEF k
<1>6. /\ SubSeq(s, 1, k) \in Seq(Envelope) /\ Len(SubSeq(s, 1, k)) = k
      /\ \A i \in 1..k : SubSeq(s, 1, k)[i] = s[i]
  BY <1>4, SubSeqProperties
<1>7. Stream(c)' = SubSeq(s, 1, k)
  BY <1>1, <1>3, <1>5, <1>6, ConcatEmptySeq DEF Stream, Answered
<1>8. AckAt(SubSeq(s, 1, k)) /\ SubSeq(s, 1, k) # <<>>
  <2>1. DOMAIN SubSeq(s, 1, k) = 1..k /\ 1..k \subseteq DOMAIN s
    BY <1>4, <1>6, LenProperties
  <2>2. AckAt(SubSeq(s, 1, k))
    BY <1>1, <1>6, <2>1 DEF AckAt
  <2>3. Len(<<>>) = 0
    OBVIOUS
  <2> QED BY <1>4, <1>6, <2>2, <2>3
<1> QED BY <1>7, <1>8 DEF AckInv, Answered

\* A stream that has begun takes what others send at its end.
LEMMA NotifiedAck ==
  ASSUME TypeOK, NEW c \in Conn, AckInv(c), Notified(c)
  PROVE  AckInv(c)'
<1>1. CASE queue'[c] = queue[c]
  BY <1>1 DEF AckInv, Notified, Stream
<1>2. CASE /\ phase[c] # "joining"
           /\ \E s \in Seq(Envelope) :
                /\ queue'[c] = queue[c] \o Accepted(c, s)
                /\ \A i \in DOMAIN s : ~IsAck(s[i])
  <2>1. PICK s \in Seq(Envelope) :
                /\ queue'[c] = queue[c] \o Accepted(c, s)
                /\ \A i \in DOMAIN s : ~IsAck(s[i])
    BY <1>2
  <2> DEFINE taken == Accepted(c, s)
  <2>2. socket[c] \in Seq(Envelope) /\ queue[c] \in Seq(Envelope) /\ taken \in Seq(Envelope)
    BY RelayTypes, AcceptedType DEF TypeOK
  <2>3. \A i \in DOMAIN taken : ~IsAck(taken[i])
    BY <2>1, AcceptedElements
  <2>4. writer[c] = "stopped" => taken = <<>>
    BY RelayTypes, AcceptedType
  <2>5. queue'[c] = queue[c] \o taken
    BY <2>1
  <2> HIDE DEF taken
  <2>6. Stream(c)' = Stream(c) \o taken /\ Stream(c) \in Seq(Envelope)
    <3>1. Stream(c)' = socket[c] \o (queue[c] \o taken)
      BY <2>5 DEF Stream, Notified
    <3>2. (socket[c] \o queue[c]) \o taken = socket[c] \o (queue[c] \o taken)
      BY <2>2, Regroup
    <3> QED BY <2>2, <3>1, <3>2, ConcatProperties DEF Stream
  <2>7. CASE writer[c] = "stopped"
    <3>1. Stream(c)' = Stream(c)
      BY <2>4, <2>6, <2>7, ConcatEmptySeq
    <3> QED BY <1>2, <2>7, <3>1 DEF AckInv, Notified
  <2>8. CASE writer[c] # "stopped"
    <3>1. writer[c] = "running" /\ Stream(c) # <<>> /\ AckAt(Stream(c))
      BY <1>2, <2>8 DEF TypeOK, AckInv
    <3>2. AckAt(Stream(c) \o taken)
      BY <2>2, <2>3, <2>6, <3>1, AckExtend
    <3>3. Stream(c) \o taken # <<>>
      BY <2>2, <2>6, <3>1, ConcatEqualIffEmpty
    <3> QED BY <1>2, <2>6, <3>2, <3>3 DEF AckInv, Notified
  <2> QED BY <2>7, <2>8
<1> QED BY <1>1, <1>2 DEF Notified

\* What a writer that ends has sent begins like the stream it would have sent.
LEMMA WriterGoneAck ==
  ASSUME TypeOK, NEW c \in Conn, AckInv(c), WriterGone(c)
  PROVE  AckInv(c)'
<1>1. socket[c] \in Seq(Envelope) /\ queue[c] \in Seq(Envelope)
  BY DEF TypeOK
<1>2. Stream(c)' = socket[c]
  BY <1>1, ConcatEmptySeq DEF WriterGone, Stream
<1>3. AckAt(socket[c])
  BY <1>1, AckPrefix DEF AckInv, Stream
<1> QED BY <1>2, <1>3 DEF AckInv, WriterGone

\* The writer does not change the stream.
LEMMA WrittenStream ==
  ASSUME TypeOK, NEW c \in Conn, Written(c)
  PROVE  Stream(c)' = Stream(c)
<1>1. socket[c] \in Seq(Envelope) /\ queue[c] \in Seq(Envelope) /\ queue[c] # <<>>
  BY DEF TypeOK, Written
<1> DEFINE h == Head(queue[c])
           t == Tail(queue[c])
<1>2. h \in Envelope /\ t \in Seq(Envelope)
  BY <1>1, HeadTailProperties
<1>3. queue[c] = <<h>> \o t
  BY <1>1, <1>2
<1>4. Append(socket[c], h) = socket[c] \o <<h>>
  BY <1>1, <1>2, AppendIsConcat
<1>5. socket'[c] = Append(socket[c], h) /\ queue'[c] = t
  BY DEF Written
<1>6. <<h>> \in Seq(Envelope)
  BY <1>2
<1> HIDE DEF h, t
<1>7. (socket[c] \o <<h>>) \o t = socket[c] \o (<<h>> \o t)
  BY <1>1, <1>2, <1>6, Regroup
<1> QED BY <1>3, <1>4, <1>5, <1>7 DEF Stream

\* So it keeps its beginning.
LEMMA WrittenAck ==
  ASSUME TypeOK, NEW c \in Conn, AckInv(c), Written(c)
  PROVE  AckInv(c)'
BY WrittenStream DEF AckInv, Written

\* A step does one of these to the stream of every connection.
Streaming(c) == Answered(c) \/ Notified(c) \/ WriterGone(c) \/ Written(c)

\* Whoever is registered has joined, so nothing is sent to a connection that is
\* still joining.
LEMMA RegisteredJoined ==
  ASSUME TypeOK, RegistryConsistent, NEW r \in Room
  PROVE  /\ controller[r] \in Conn => phase[controller[r]] # "joining"
         /\ \A d \in DashboardConn(r) : phase[d] # "joining"
<1>1. controller[r] \in Conn => Live(controller[r])
  BY RegistryParts DEF SlotOwned
<1>2. \A p \in PeerId : dashboards[r][p] # NoConn => Live(dashboards[r][p])
  BY RegistryParts DEF NamesLive
<1> QED BY <1>1, <1>2 DEF Live, DashboardConn, Present

\* Mail that answers the first frame of c and else holds notices for connections
\* that have joined.
LEMMA MailStreams ==
  ASSUME TypeOK, NEW mail \in [Conn -> Seq(Envelope)], Send(mail), NEW c \in Conn,
         phase[c] = "joining", phase'[c] # "joining",
         \A d \in Conn \ {c} : phase'[d] = phase[d],
         mail[c] # <<>>, IsAck(mail[c][1]), \A i \in DOMAIN mail[c] : i # 1 => ~IsAck(mail[c][i]),
         \A d \in Conn : Silent(mail[d]),
         \A d \in Conn \ {c} : mail[d] # <<>> =>
           phase[d] # "joining" /\ \A i \in DOMAIN mail[d] : ~IsAck(mail[d][i]),
         NEW b \in Conn
  PROVE  Streaming(b)
<1>1. /\ queue'[b] = queue[b] \o Accepted(b, mail[b])
      /\ socket'[b] = socket[b] /\ writer'[b] = writer[b]
      /\ mail[b] \in Seq(Envelope) /\ queue[b] \in Seq(Envelope)
  BY DEF Send, TypeOK
<1>2. CASE b = c
  BY <1>1, <1>2 DEF Streaming, Answered
<1>3. CASE b # c /\ mail[b] # <<>>
  BY <1>1, <1>3 DEF Streaming, Notified
<1>4. CASE b # c /\ mail[b] = <<>>
  <2>1. queue'[b] = queue[b]
    BY <1>1, <1>4, NothingOffered, ConcatEmptySeq
  <2> QED BY <1>1, <1>4, <2>1 DEF Streaming, Notified
<1> QED BY <1>2, <1>3, <1>4

\* A refusal answers the first frame.
LEMMA RefuseStreams ==
  ASSUME TypeOK, NEW c \in Conn, phase[c] = "joining", Refuse(c), NEW b \in Conn
  PROVE  Streaming(b)
<1> DEFINE mail == MailTo(c, <<Error>>)
<1>1. <<Error>> \in Seq(Envelope)
  BY EnvelopeTypes
<1>2. mail \in [Conn -> Seq(Envelope)] /\ Send(mail)
  BY <1>1, MailToType DEF Refuse
<1>3. mail[c] = <<Error>> /\ \A d \in Conn \ {c} : mail[d] = <<>>
  BY DEF MailTo
<1>4. phase'[c] # "joining" /\ \A d \in Conn \ {c} : phase'[d] = phase[d]
  BY DEF Refuse, TypeOK
<1>5. <<Error>> # <<>> /\ IsAck(<<Error>>[1]) /\ DOMAIN <<Error>> = {1}
  BY DEF Error, IsAck
<1>6. Silent(<<Error>>) /\ Silent(<<>>)
  BY DEF Error, Silent
<1> HIDE DEF mail
<1>7. \A d \in Conn : Silent(mail[d])
  BY <1>3, <1>6
<1> QED BY <1>2, <1>3, <1>4, <1>5, <1>7, MailStreams

\* A controller's join answers its first frame and tells registered dashboards.
LEMMA JoinControllerStreams ==
  ASSUME TypeOK, RegistryConsistent, NEW c \in Conn, NEW r \in Room, JoinController(c, r),
         NEW b \in Conn
  PROVE  Streaming(b)
<1>1. CASE Refuse(c)
  BY <1>1, RefuseStreams DEF JoinController
<1>2. CASE ~Refuse(c)
  <2>1. PICK order \in SetToSeqs(Present(r)) :
          Send([d \in Conn |->
                  IF d = c THEN Greeting(order)
                  ELSE IF d \in DashboardConn(r) THEN <<PeerJoin(Controller)>>
                  ELSE <<>>])
    BY <1>2 DEF JoinController
  <2> DEFINE greeting == Greeting(order)
             note == <<PeerJoin(Controller)>>
             mail == [d \in Conn |->
                  IF d = c THEN greeting ELSE IF d \in DashboardConn(r) THEN note ELSE <<>>]
  <2>2. /\ greeting \in Seq(Envelope) /\ greeting # <<>>
        /\ IsAck(greeting[1]) /\ \A i \in DOMAIN greeting : i # 1 => ~IsAck(greeting[i])
        /\ Silent(greeting)
    BY WalkShape DEF Joined, IsAck, Silent
  <2>3. note \in Seq(Envelope) /\ <<>> \in Seq(Envelope)
    BY EnvelopeTypes DEF Name
  <2>4. Silent(note) /\ Silent(<<>>) /\ \A i \in DOMAIN note : ~IsAck(note[i])
    BY DEF PeerJoin, IsAck, Silent
  <2>5. Send(mail)
    BY <2>1
  <2>6. /\ phase[c] = "joining" /\ phase'[c] # "joining"
        /\ \A d \in Conn \ {c} : phase'[d] = phase[d]
    BY <1>2 DEF JoinController, TypeOK
  <2> HIDE DEF greeting, note
  <2>7. mail \in [Conn -> Seq(Envelope)] /\ mail[c] = greeting
    BY <2>2, <2>3
  <2>8. /\ \A d \in Conn \ {c} : mail[d] # <<>> => mail[d] = note /\ d \in DashboardConn(r)
        /\ \A d \in Conn : Silent(mail[d])
    BY <2>2, <2>4
  <2> HIDE DEF mail
  <2>9. \A d \in Conn \ {c} : mail[d] # <<>> =>
          phase[d] # "joining" /\ \A i \in DOMAIN mail[d] : ~IsAck(mail[d][i])
    BY <2>4, <2>8, RegisteredJoined
  <2> QED BY <2>2, <2>5, <2>6, <2>7, <2>8, <2>9, MailStreams
<1> QED BY <1>1, <1>2

\* A dashboard's join answers its first frame and tells a registered controller.
LEMMA JoinDashboardStreams ==
  ASSUME TypeOK, RegistryConsistent, NEW c \in Conn, NEW r \in Room, NEW p \in PeerId,
         JoinDashboard(c, r, p), NEW b \in Conn
  PROVE  Streaming(b)
<1> DEFINE greeting == Greeting(IF controller[r] = NoConn THEN <<>> ELSE <<Controller>>)
           note == <<PeerJoin(p)>>
           mail == [d \in Conn |->
             IF d = c THEN greeting ELSE IF d = controller[r] THEN note ELSE <<>>]
<1>1. /\ greeting \in Seq(Envelope) /\ greeting # <<>>
      /\ IsAck(greeting[1]) /\ \A i \in DOMAIN greeting : i # 1 => ~IsAck(greeting[i])
      /\ Silent(greeting)
  <2>1. <<>> \in [1..0 -> Name] /\ <<Controller>> \in [1..1 -> Name]
    BY DEF Name
  <2>2. \E n \in Nat : \E ps \in [1..n -> Name] : greeting = Greeting(ps)
    <3>1. CASE controller[r] = NoConn
      BY <2>1, <3>1
    <3>2. CASE controller[r] # NoConn
      BY <2>1, <3>2
    <3> QED BY <3>1, <3>2
  <2> HIDE DEF greeting
  <2> QED BY <2>2, GreetingShape DEF Joined, IsAck, Silent
<1>2. note \in Seq(Envelope) /\ <<>> \in Seq(Envelope)
  BY EnvelopeTypes DEF Name
<1>3. Silent(note) /\ Silent(<<>>) /\ \A i \in DOMAIN note : ~IsAck(note[i])
  BY DEF PeerJoin, IsAck, Silent
<1>4. Send(mail)
  BY DEF JoinDashboard
<1>5. /\ phase[c] = "joining" /\ phase'[c] # "joining"
      /\ \A d \in Conn \ {c} : phase'[d] = phase[d]
  BY DEF JoinDashboard, TypeOK
<1> HIDE DEF greeting, note
<1>6. mail \in [Conn -> Seq(Envelope)] /\ mail[c] = greeting
  BY <1>1, <1>2
<1>7. /\ \A d \in Conn \ {c} : mail[d] # <<>> => mail[d] = note /\ d = controller[r]
      /\ \A d \in Conn : Silent(mail[d])
  BY <1>1, <1>3
<1> HIDE DEF mail
<1>8. \A d \in Conn \ {c} : mail[d] # <<>> =>
        phase[d] # "joining" /\ \A i \in DOMAIN mail[d] : ~IsAck(mail[d][i])
  BY <1>3, <1>7, RegisteredJoined
<1> QED BY <1>1, <1>4, <1>5, <1>6, <1>7, <1>8, MailStreams

\* A message goes to a connection that had joined when it was looked up.
LEMMA RouteSendStreams ==
  ASSUME TypeOK, RInv, NEW c \in Conn, RouteSend(c), NEW b \in Conn
  PROVE  Streaming(b)
<1> DEFINE d == pending[c][1].rcpt
           e == pending[c][1].env
           mail == MailTo(d, <<e>>)
<1>1. pending[c] # <<>> /\ Send(mail) /\ phase' = phase
  BY DEF RouteSend
<1>2. d \in Conn /\ e \in Envelope
  <2>1. pending[c] \in Seq(Parcel)
    BY DEF TypeOK
  <2>2. pending[c][1] \in Parcel
    BY <1>1, <2>1
  <2> QED BY <2>2 DEF Parcel
<1>3. HasJoined(d) /\ e.t = "deliver"
  BY <1>1 DEF RInv, PendingFaithful, Faithful
<1>10. \E a \in Conn : RouteSend(a) /\ pending[a][1].rcpt = d /\ <<e>> = <<pending[a][1].env>>
  OBVIOUS
<1> HIDE DEF d, e
<1>4. <<e>> \in Seq(Envelope) /\ \A i \in DOMAIN <<e>> : ~IsAck(<<e>>[i])
  BY <1>2, <1>3 DEF IsAck
<1>5. mail[b] = IF b = d THEN <<e>> ELSE <<>>
  BY DEF MailTo
<1>6. /\ queue'[b] = queue[b] \o Accepted(b, mail[b])
      /\ socket'[b] = socket[b] /\ writer'[b] = writer[b] /\ queue[b] \in Seq(Envelope)
  BY <1>1 DEF Send, TypeOK
<1>7. CASE b = d
  <2>1. phase[b] # "joining"
    BY <1>3, <1>7 DEF HasJoined
  <2>2. queue'[b] = queue[b] \o Accepted(b, <<e>>)
    BY <1>5, <1>6, <1>7
  <2> QED BY <1>1, <1>4, <1>6, <1>7, <1>10, <2>1, <2>2 DEF Streaming, Notified
<1>8. CASE b # d
  <2>1. queue'[b] = queue[b]
    BY <1>5, <1>6, <1>8, NothingOffered, ConcatEmptySeq
  <2> QED BY <1>1, <1>6, <2>1 DEF Streaming, Notified
<1> QED BY <1>7, <1>8

\* A cleanup tells registered connections, and stops the writer of its own.
LEMMA CleanupStreams ==
  ASSUME TypeOK, RegistryConsistent, NEW c \in Conn, Cleanup(c), NEW b \in Conn
  PROVE  Streaming(b)
<1> DEFINE note == <<PeerLeave(ident[c].id)>>
<1>1. /\ phase[c] = "leaving" /\ phase' = [phase EXCEPT ![c] = "gone"]
      /\ writer' = [writer EXCEPT ![c] = "stopped"] /\ socket' = socket
      /\ queue' = [d \in Conn |-> IF d = c THEN <<>> ELSE queue[d] \o
                     (IF d \in LeaveAudience(c) THEN Accepted(d, note) ELSE <<>>)]
  BY DEF Cleanup
<1>2. note \in Seq(Envelope) /\ Silent(note) /\ \A i \in DOMAIN note : ~IsAck(note[i])
  <2>1. PeerLeave(ident[c].id) \in Envelope
    BY EnvelopeTypes DEF TypeOK, Ident
  <2> QED BY <2>1 DEF PeerLeave, IsAck, Silent
<1>3. b \in LeaveAudience(c) => phase[b] # "joining"
  <2>1. ident[c].room \in Room
    BY DEF TypeOK, Ident
  <2> QED BY <2>1, RegisteredJoined DEF LeaveAudience
<1> HIDE DEF note
<1>4. CASE b = c
  BY <1>1, <1>4 DEF Streaming, WriterGone, TypeOK
<1>5. CASE b # c
  <2>1. phase'[b] = phase[b] /\ writer'[b] = writer[b] /\ socket'[b] = socket[b]
    BY <1>1, <1>5 DEF TypeOK
  <2>2. CASE b \in LeaveAudience(c)
    <3>1. queue'[b] = queue[b] \o Accepted(b, note)
      BY <1>1, <1>5, <2>2
    <3> QED BY <1>2, <1>3, <2>1, <2>2, <3>1 DEF Streaming, Notified
  <2>3. CASE b \notin LeaveAudience(c)
    <3>1. queue'[b] = queue[b] \o <<>> /\ queue[b] \in Seq(Envelope)
      BY <1>1, <1>5, <2>3 DEF TypeOK
    <3>2. queue'[b] = queue[b]
      BY <3>1, ConcatEmptySeq
    <3> QED BY <2>1, <3>2 DEF Streaming, Notified
  <2> QED BY <2>2, <2>3
<1> QED BY <1>4, <1>5

\* The writer of c, sending or failing, has an envelope to send, so c has been
\* answered.
LEMMA WriterStreams ==
  ASSUME TypeOK, NEW c \in Conn, AckInv(c), WriterSend(c) \/ WriterFail(c), NEW b \in Conn
  PROVE  Streaming(b)
<1>1. queue[c] # <<>> /\ phase' = phase /\ queue[c] \in Seq(Envelope)
      /\ socket[c] \in Seq(Envelope)
  BY DEF WriterSend, WriterFail, handlers, TypeOK
<1>2. phase[c] # "joining"
  BY <1>1, ConcatEqualIffEmpty DEF AckInv, Stream
<1>3. CASE WriterSend(c)
  <2>1. /\ socket' = [socket EXCEPT ![c] = Append(socket[c], Head(queue[c]))]
        /\ queue' = [queue EXCEPT ![c] = Tail(queue[c])] /\ writer' = writer
    BY <1>3 DEF WriterSend
  <2>2. CASE b = c
    BY <1>1, <2>1, <2>2 DEF Streaming, Written, TypeOK
  <2>3. CASE b # c
    BY <1>1, <2>1, <2>3 DEF Streaming, Notified, TypeOK
  <2> QED BY <2>2, <2>3
<1>4. CASE WriterFail(c)
  <2>1. /\ socket' = socket /\ queue' = [queue EXCEPT ![c] = <<>>]
        /\ writer' = [writer EXCEPT ![c] = "stopped"]
    BY <1>4 DEF WriterFail
  <2>2. CASE b = c
    BY <1>1, <1>2, <2>1, <2>2 DEF Streaming, WriterGone, TypeOK
  <2>3. CASE b # c
    BY <1>1, <2>1, <2>3 DEF Streaming, Notified, TypeOK
  <2> QED BY <2>2, <2>3
<1> QED BY <1>3, <1>4

\* Every step treats every stream so, given who is registered and whom pending
\* messages are for.
LEMMA StepStreams ==
  ASSUME TypeOK, RegistryConsistent, RInv, \A c \in Conn : AckInv(c), [Next]_vars,
         NEW b \in Conn
  PROVE  Streaming(b)
<1>1. ASSUME NEW c \in Conn, ConnStep(c) PROVE Streaming(b)
  <2>1. CASE RejectFirstFrame(c)
    BY <2>1, RefuseStreams DEF RejectFirstFrame
  <2>2. CASE \E r \in Room : JoinController(c, r)
    BY <2>2, JoinControllerStreams
  <2>3. CASE \E r \in Room, p \in PeerId : JoinDashboard(c, r, p)
    BY <2>3, JoinDashboardStreams
  <2>4. CASE RouteSend(c)
    BY <2>4, RouteSendStreams
  <2>5. CASE StreamEnd(c)
    <3>1. phase'[b] = "joining" <=> phase[b] = "joining"
      BY <2>5 DEF StreamEnd, TypeOK
    <3> QED BY <2>5, <3>1 DEF StreamEnd, outgoing, Streaming, Notified
  <2>6. CASE Cleanup(c)
    BY <2>6, CleanupStreams
  <2>7. CASE WriterSend(c) \/ SocketBreaks(c)
    BY <2>7, WriterStreams DEF SocketBreaks
  <2> QED BY <1>1, <2>1, <2>2, <2>3, <2>4, <2>5, <2>6, <2>7 DEF ConnStep
<1>2. ASSUME NEW c \in Conn, ClientMsg(c) PROVE Streaming(b)
  BY <1>2 DEF ClientMsg, RouteLookup, outgoing, Streaming, Notified
<1>3. UNCHANGED vars => Streaming(b)
  BY DEF vars, relayVars, Streaming, Notified
<1> QED BY <1>1, <1>2, <1>3 DEF Next

\* So AckFirst is inductive with what AckInv adds.
LEMMA StepAck ==
  TypeOK /\ RegistryConsistent /\ RInv /\ (\A c \in Conn : AckInv(c)) /\ [Next]_vars
    => \A c \in Conn : AckInv(c)'
BY StepStreams, AnsweredAck, NotifiedAck, WriterGoneAck, WrittenAck DEF Streaming

\* The first envelope a client sees is the answer to its join and no later one
\* is, though other handlers can send to it from the moment it is registered.
THEOREM AcksFirst == Spec => []AckFirst
<1> DEFINE AInv == \A c \in Conn : AckInv(c)
<1>1. Init => AInv
  BY DEF Init, RelayInit, AckInv, AckAt, Stream
<1>2. Init => RInv
  BY DEF Init, RelayInit, RInv, Named, QueuedFaithful, SocketFaithful, PendingFaithful,
         HasJoined
<1>3. TypeOK /\ RegistryConsistent /\ RInv /\ AInv /\ [Next]_vars => AInv'
  BY StepAck
<1>4. AInv => AckFirst
  BY DEF AckInv, AckAt, IsAck, AckFirst
<1> HIDE DEF AInv
<1> QED BY <1>1, <1>2, <1>3, <1>4, StepRouting, TypeCorrect, RegistryAgrees, PTL DEF Spec


-----------------------------------------------------------------------------
(* What a step does to the messages of a stream.                           *)

\* Handler a puts the message it holds at the end of c's stream.
Arrives(a, c, i) ==
  /\ RouteSend(a) /\ pending[a][1].rcpt = c
  /\ i = Len(Stream(c)) + 1 /\ Stream(c)'[i] = pending[a][1].env

\* Envelope i of a stream after a step was there before, or is a notice, or is a
\* message that a handler held.
MessagesMove(c) ==
  \A i \in DOMAIN Stream(c)' : Stream(c)'[i].t = "deliver" =>
    \/ i \in DOMAIN Stream(c) /\ Stream(c)'[i] = Stream(c)[i]
    \/ \E a \in Conn : Arrives(a, c, i)

\* A concatenation begins with the first sequence.
LEMMA PrefixElements ==
  ASSUME NEW a \in Seq(Envelope), NEW b \in Seq(Envelope)
  PROVE  \A i \in DOMAIN a : i \in DOMAIN (a \o b) /\ (a \o b)[i] = a[i]
BY ConcatProperties, LenProperties

\* An offer that is put in a queue is put at the end of the stream.
LEMMA OfferedStream ==
  ASSUME TypeOK, NEW c \in Conn, NEW s \in Seq(Envelope), socket'[c] = socket[c],
         queue'[c] = queue[c] \o Accepted(c, s),
         NEW i \in DOMAIN Stream(c)'
  PROVE  \/ i \in DOMAIN Stream(c) /\ Stream(c)'[i] = Stream(c)[i]
         \/ \E k \in DOMAIN s : i = Len(Stream(c)) + k /\ Stream(c)'[i] = s[k]
<1> DEFINE taken == Accepted(c, s)
<1>1. socket[c] \in Seq(Envelope) /\ queue[c] \in Seq(Envelope) /\ taken \in Seq(Envelope)
  BY RelayTypes, AcceptedType DEF TypeOK
<1>2. \A k \in DOMAIN taken : k \in DOMAIN s /\ taken[k] = s[k]
  BY AcceptedElements
<1>3. queue'[c] = queue[c] \o taken
  OBVIOUS
<1> HIDE DEF taken
<1>4. Stream(c)' = Stream(c) \o taken /\ Stream(c) \in Seq(Envelope)
  <2>1. (socket[c] \o queue[c]) \o taken = socket[c] \o (queue[c] \o taken)
    BY <1>1, Regroup
  <2> QED BY <1>1, <1>3, <2>1, ConcatProperties DEF Stream
<1>5. i \in DOMAIN (Stream(c) \o taken) /\ Stream(c)'[i] = (Stream(c) \o taken)[i]
  BY <1>4
<1>6. \/ i \in DOMAIN Stream(c) /\ (Stream(c) \o taken)[i] = Stream(c)[i]
      \/ /\ i - Len(Stream(c)) \in DOMAIN taken
         /\ (Stream(c) \o taken)[i] = taken[i - Len(Stream(c))]
  BY <1>1, <1>4, <1>5, ConcatElements
<1>7. ASSUME i - Len(Stream(c)) \in DOMAIN taken,
             (Stream(c) \o taken)[i] = taken[i - Len(Stream(c))]
      PROVE  \E k \in DOMAIN s : i = Len(Stream(c)) + k /\ Stream(c)'[i] = s[k]
  <2>1. PICK k : k = i - Len(Stream(c))
    OBVIOUS
  <2>2. k \in DOMAIN s /\ Stream(c)'[i] = s[k]
    BY <1>2, <1>5, <1>7, <2>1
  <2>3. DOMAIN taken \subseteq Int /\ Len(Stream(c)) \in Int /\ i \in Int
    <3>1. Stream(c) \o taken \in Seq(Envelope)
      BY <1>1, <1>4, ConcatProperties
    <3> QED BY <1>1, <1>4, <1>5, <3>1, LenProperties
  <2>4. i = Len(Stream(c)) + k
    BY <1>7, <2>1, <2>3
  <2> QED BY <2>2, <2>4
<1> QED BY <1>5, <1>6, <1>7

\* Every step moves messages so.
LEMMA StreamingMoves ==
  ASSUME TypeOK, NEW c \in Conn, Streaming(c)
  PROVE  MessagesMove(c)
<1> SUFFICES ASSUME NEW i \in DOMAIN Stream(c)', Stream(c)'[i].t = "deliver"
             PROVE  \/ i \in DOMAIN Stream(c) /\ Stream(c)'[i] = Stream(c)[i]
                    \/ \E a \in Conn : Arrives(a, c, i)
  BY DEF MessagesMove
<1>1. socket[c] \in Seq(Envelope) /\ queue[c] \in Seq(Envelope)
  BY DEF TypeOK
<1>2. CASE Answered(c)
  <2>1. PICK s \in Seq(Envelope) : queue'[c] = queue[c] \o Accepted(c, s) /\ Silent(s)
    BY <1>2 DEF Answered
  <2> QED BY <1>2, <2>1, OfferedStream DEF Answered, Silent
<1>3. CASE Notified(c) /\ queue'[c] = queue[c]
  BY <1>3 DEF Notified, Stream
<1>4. CASE Notified(c) /\ queue'[c] # queue[c]
  <2>1. PICK s \in Seq(Envelope) :
          /\ queue'[c] = queue[c] \o Accepted(c, s)
          /\ Silent(s) \/ \E a \in Conn : RouteSend(a) /\ pending[a][1].rcpt = c
                                       /\ s = <<pending[a][1].env>>
    BY <1>4 DEF Notified
  <2>2. \/ i \in DOMAIN Stream(c) /\ Stream(c)'[i] = Stream(c)[i]
        \/ \E k \in DOMAIN s : i = Len(Stream(c)) + k /\ Stream(c)'[i] = s[k]
    BY <1>4, <2>1, OfferedStream DEF Notified
  <2>3. ASSUME NEW k \in DOMAIN s, i = Len(Stream(c)) + k, Stream(c)'[i] = s[k]
        PROVE  \E a \in Conn : Arrives(a, c, i)
    <3>1. PICK a \in Conn : RouteSend(a) /\ pending[a][1].rcpt = c /\ s = <<pending[a][1].env>>
      BY <2>1, <2>3 DEF Silent
    <3>2. k = 1 /\ s[k] = pending[a][1].env
      BY <3>1
    <3> QED BY <2>3, <3>1, <3>2 DEF Arrives
  <2> QED BY <2>2, <2>3
<1>5. CASE WriterGone(c)
  <2>1. Stream(c)' = socket[c]
    BY <1>1, <1>5, ConcatEmptySeq DEF WriterGone, Stream
  <2>2. i \in DOMAIN socket[c] /\ Stream(c)'[i] = socket[c][i]
    BY <2>1
  <2>3. i \in DOMAIN (socket[c] \o queue[c]) /\ (socket[c] \o queue[c])[i] = socket[c][i]
    BY <1>1, <2>2, PrefixElements
  <2> QED BY <2>2, <2>3 DEF Stream
<1>6. CASE Written(c)
  BY <1>6, WrittenStream
<1> QED BY <1>2, <1>3, <1>4, <1>5, <1>6 DEF Streaming

-----------------------------------------------------------------------------
(* Messages are numbered as they are read, so each is in one place.        *)

\* No stream has a message that was not read yet.
NumbersRead == \A c \in Conn : \A i \in DOMAIN Stream(c) :
  Stream(c)[i].t = "deliver" => Stream(c)[i].data.n <= sent

\* What a handler holds is a message its own client sent,
HeldIsOwn == \A c \in Conn : pending[c] # <<>> =>
  /\ pending[c][1].env.t = "deliver"
  /\ pending[c][1].env.data.src = c /\ pending[c][1].env.data.n <= sent

\* and nobody has been sent it.
HeldIsApart == \A c \in Conn : pending[c] # <<>> =>
  \A b \in Conn : \A i \in DOMAIN Stream(b) :
    Stream(b)[i].t = "deliver" => Stream(b)[i].data # pending[c][1].env.data

DInv == DeliveredOnce /\ NumbersRead /\ HeldIsOwn /\ HeldIsApart

\* A step sends the message of one handler at most.
LEMMA OneSends ==
  ASSUME TypeOK, NEW a \in Conn, RouteSend(a)
  PROVE  /\ pending[a] # <<>> /\ pending'[a] = <<>> /\ sent \in Nat
         /\ \A b \in Conn : b # a => pending'[b] = pending[b]
         /\ \A b \in Conn : RouteSend(b) => b = a
<1>1. pending[a] # <<>> /\ pending' = [pending EXCEPT ![a] = <<>>]
  BY DEF RouteSend
<1>2. pending'[a] = <<>> /\ \A b \in Conn : b # a => pending'[b] = pending[b]
  BY <1>1 DEF TypeOK
<1>3. ASSUME NEW b \in Conn, RouteSend(b) PROVE b = a
  <2>1. pending[b] # <<>> /\ pending' = [pending EXCEPT ![b] = <<>>]
    BY <1>3 DEF RouteSend
  <2>2. pending'[b] = <<>>
    BY <2>1 DEF TypeOK
  <2> QED BY <1>2, <2>1, <2>2
<1> QED BY <1>1, <1>2, <1>3, BoundsAssumption DEF TypeOK

\* A message stays one when it moves.
LEMMA OnceKept ==
  ASSUME TypeOK, DInv, \A c \in Conn : MessagesMove(c)
  PROVE  DeliveredOnce'
<1> SUFFICES ASSUME NEW b \in Conn, NEW c \in Conn, NEW i \in DOMAIN Stream(b)',
                    NEW j \in DOMAIN Stream(c)',
                    Stream(b)'[i].t = "deliver", Stream(c)'[j].t = "deliver",
                    Stream(b)'[i].data = Stream(c)'[j].data
             PROVE  b = c /\ i = j
  BY DEF DeliveredOnce
<1>1. /\ \/ i \in DOMAIN Stream(b) /\ Stream(b)'[i] = Stream(b)[i]
         \/ \E a \in Conn : Arrives(a, b, i)
      /\ \/ j \in DOMAIN Stream(c) /\ Stream(c)'[j] = Stream(c)[j]
         \/ \E a \in Conn : Arrives(a, c, j)
  BY DEF MessagesMove
<1>2. ASSUME NEW x \in Conn, NEW y \in Conn, NEW k, NEW l \in DOMAIN Stream(y), NEW a \in Conn,
             Arrives(a, x, k), Stream(y)[l].t = "deliver"
      PROVE  Stream(y)[l].data # Stream(x)'[k].data
  <2>1. pending[a] # <<>> /\ Stream(x)'[k] = pending[a][1].env
    BY <1>2, OneSends DEF Arrives
  <2> QED BY <1>2, <2>1 DEF DInv, HeldIsApart
<1>3. CASE /\ i \in DOMAIN Stream(b) /\ Stream(b)'[i] = Stream(b)[i]
           /\ j \in DOMAIN Stream(c) /\ Stream(c)'[j] = Stream(c)[j]
  BY <1>3 DEF DInv, DeliveredOnce
<1>4. CASE /\ i \in DOMAIN Stream(b) /\ Stream(b)'[i] = Stream(b)[i]
           /\ \E a \in Conn : Arrives(a, c, j)
  BY <1>2, <1>4
<1>5. CASE /\ \E a \in Conn : Arrives(a, b, i)
           /\ j \in DOMAIN Stream(c) /\ Stream(c)'[j] = Stream(c)[j]
  BY <1>2, <1>5
<1>6. ASSUME NEW a \in Conn, NEW d \in Conn, Arrives(a, b, i), Arrives(d, c, j)
      PROVE  b = c /\ i = j
  <2>1. a = d
    BY <1>6, OneSends DEF Arrives
  <2> QED BY <1>6, <2>1 DEF Arrives
<1> QED BY <1>1, <1>3, <1>4, <1>5, <1>6

\* A message in a stream has a number.
LEMMA StreamNumbers ==
  ASSUME TypeOK, NEW c \in Conn, NEW i \in DOMAIN Stream(c), Stream(c)[i].t = "deliver"
  PROVE  Stream(c)[i].data.n \in Nat
<1>1. Stream(c)[i] \in Envelope
  <2>1. socket[c] \in Seq(Envelope) /\ queue[c] \in Seq(Envelope)
    BY DEF TypeOK
  <2>2. /\ \A j \in DOMAIN socket[c] : socket[c][j] \in Envelope
        /\ \A j \in DOMAIN queue[c] : queue[c][j] \in Envelope
    BY <2>1, ElementOfSeq, LenProperties
  <2>3. \/ i \in DOMAIN socket[c] /\ Stream(c)[i] = socket[c][i]
        \/ \E j \in DOMAIN queue[c] : Stream(c)[i] = queue[c][j]
    BY StreamElements
  <2> QED BY <2>2, <2>3
<1>2. Stream(c)[i] \in [t : {"deliver"}, from : Name, data : Data]
  BY <1>1 DEF Envelope, Joined, Error
<1> QED BY <1>2 DEF Data

\* So has one that a handler holds.
LEMMA HeldNumbers ==
  ASSUME TypeOK, HeldIsOwn, NEW c \in Conn, pending[c] # <<>>
  PROVE  pending[c][1].env.data.n \in Nat
<1>1. pending[c] \in Seq(Parcel)
  BY DEF TypeOK
<1>2. pending[c][1] \in Parcel
  BY <1>1
<1>3. pending[c][1].env \in Envelope /\ pending[c][1].env.t = "deliver"
  BY <1>2 DEF Parcel, HeldIsOwn
<1>4. pending[c][1].env \in [t : {"deliver"}, from : Name, data : Data]
  BY <1>3 DEF Envelope, Joined, Error
<1> QED BY <1>4 DEF Data

\* A message that moves was read before.
LEMMA NumbersKept ==
  ASSUME TypeOK, DInv, \A c \in Conn : MessagesMove(c), sent' \in {sent, sent + 1}
  PROVE  NumbersRead'
<1> SUFFICES ASSUME NEW c \in Conn, NEW i \in DOMAIN Stream(c)', Stream(c)'[i].t = "deliver"
             PROVE  Stream(c)'[i].data.n <= sent'
  BY DEF NumbersRead
<1>1. sent \in Nat
  BY BoundsAssumption DEF TypeOK
<1>2. CASE i \in DOMAIN Stream(c) /\ Stream(c)'[i] = Stream(c)[i]
  <2>1. Stream(c)[i].data.n \in Nat /\ Stream(c)[i].data.n <= sent
    BY <1>2, StreamNumbers DEF DInv, NumbersRead
  <2> QED BY <1>1, <1>2, <2>1
<1>3. ASSUME NEW a \in Conn, Arrives(a, c, i) PROVE Stream(c)'[i].data.n <= sent'
  <2>1. pending[a] # <<>> /\ Stream(c)'[i] = pending[a][1].env
    BY <1>3, OneSends DEF Arrives
  <2>2. pending[a][1].env.data.n \in Nat /\ pending[a][1].env.data.n <= sent
    BY <2>1, HeldNumbers DEF DInv, HeldIsOwn
  <2> QED BY <1>1, <2>1, <2>2
<1> QED BY <1>2, <1>3 DEF MessagesMove

\* What handlers hold stays their own, and unsent, if they keep it or send it.
LEMMA HeldKept ==
  ASSUME TypeOK, DInv, \A c \in Conn : MessagesMove(c), sent' \in {sent, sent + 1},
         NEW c \in Conn, pending'[c] = pending[c], pending[c] # <<>>
  PROVE  /\ pending'[c][1].env.t = "deliver"
         /\ pending'[c][1].env.data.src = c /\ pending'[c][1].env.data.n <= sent'
         /\ \A b \in Conn : \A i \in DOMAIN Stream(b)' :
              Stream(b)'[i].t = "deliver" => Stream(b)'[i].data # pending'[c][1].env.data
<1>1. /\ pending[c][1].env.t = "deliver" /\ pending[c][1].env.data.src = c
      /\ pending[c][1].env.data.n <= sent /\ pending[c][1].env.data.n \in Nat /\ sent \in Nat
  BY HeldNumbers, BoundsAssumption DEF DInv, HeldIsOwn, TypeOK
<1>2. ASSUME NEW b \in Conn, NEW i \in DOMAIN Stream(b)', Stream(b)'[i].t = "deliver"
      PROVE  Stream(b)'[i].data # pending[c][1].env.data
  <2>1. CASE i \in DOMAIN Stream(b) /\ Stream(b)'[i] = Stream(b)[i]
    BY <1>2, <2>1 DEF DInv, HeldIsApart
  <2>2. ASSUME NEW a \in Conn, Arrives(a, b, i)
        PROVE  Stream(b)'[i].data # pending[c][1].env.data
    <3>1. pending[a] # <<>> /\ a # c /\ Stream(b)'[i] = pending[a][1].env
      BY <2>2, OneSends DEF Arrives
    <3>2. Stream(b)'[i].data.src = a
      BY <3>1 DEF DInv, HeldIsOwn
    <3> QED BY <1>1, <3>1, <3>2
  <2> QED BY <1>2, <2>1, <2>2 DEF MessagesMove
<1> QED BY <1>1, <1>2

\* A message that is read is in no stream yet.
LEMMA ReadApart ==
  ASSUME TypeOK, DInv, NEW c \in Conn, ClientMsg(c), pending'[c] # <<>>
  PROVE  /\ pending'[c][1].env.t = "deliver"
         /\ pending'[c][1].env.data.src = c /\ pending'[c][1].env.data.n <= sent'
         /\ \A b \in Conn : \A i \in DOMAIN Stream(b)' :
              Stream(b)'[i].t = "deliver" => Stream(b)'[i].data # pending'[c][1].env.data
<1>1. PICK to \in Name : RouteLookup(c, to, [src |-> c, to |-> to, n |-> sent + 1])
  BY DEF ClientMsg
<1> DEFINE data == [src |-> c, to |-> to, n |-> sent + 1]
           d == Lookup(ident[c].room, to)
           parcel == [rcpt |-> d, env |-> Deliver(ident[c].id, data)]
<1>2. pending' = [pending EXCEPT ![c] = IF d = NoConn THEN <<>> ELSE <<parcel>>]
  BY <1>1 DEF RouteLookup
<1>3. pending'[c] = <<parcel>>
  BY <1>2 DEF TypeOK
<1>4. pending'[c][1].env.t = "deliver" /\ pending'[c][1].env.data = data
  BY <1>3 DEF Deliver
<1>5. sent \in Nat /\ sent' = sent + 1 /\ data.src = c /\ data.n = sent + 1
  BY BoundsAssumption DEF TypeOK, ClientMsg
<1>6. \A b \in Conn : Stream(b)' = Stream(b)
  BY <1>1 DEF RouteLookup, outgoing, Stream
<1> HIDE DEF data, parcel, d
<1>7. ASSUME NEW b \in Conn, NEW i \in DOMAIN Stream(b), Stream(b)[i].t = "deliver"
      PROVE  Stream(b)[i].data # data
  <2>1. Stream(b)[i].data.n \in Nat /\ Stream(b)[i].data.n <= sent
    BY <1>7, StreamNumbers DEF DInv, NumbersRead
  <2> QED BY <1>5, <2>1
<1> QED BY <1>4, <1>5, <1>6, <1>7

\* Handlers keep what they hold or let it go, unless one reads a message.
LEMMA HeldSteps ==
  ASSUME TypeOK, [Next]_vars
  PROVE  /\ sent' \in {sent, sent + 1}
         /\ \A c \in Conn : pending'[c] \in {pending[c], <<>>} \/ ClientMsg(c)
<1>1. ASSUME NEW a \in Conn, ConnStep(a), UNCHANGED sent
      PROVE  \A c \in Conn : pending'[c] \in {pending[c], <<>>}
  <2>1. CASE RouteSend(a)
    BY <2>1 DEF RouteSend, TypeOK
  <2>2. CASE ~RouteSend(a)
    BY <1>1, <2>2 DEF ConnStep, RejectFirstFrame, Refuse, JoinController, JoinDashboard,
                     StreamEnd, Cleanup, WriterSend, SocketBreaks, WriterFail, handlers
  <2> QED BY <2>1, <2>2
<1>2. ASSUME NEW a \in Conn, ClientMsg(a)
      PROVE  \A c \in Conn : pending'[c] \in {pending[c], <<>>} \/ ClientMsg(c)
  BY <1>2 DEF ClientMsg, RouteLookup, TypeOK
<1>3. sent' \in {sent, sent + 1}
  BY DEF Next, vars, ClientMsg
<1> QED BY <1>1, <1>2, <1>3 DEF Next, vars, relayVars

\* DInv is inductive, given what holds of the registry and of the streams.
LEMMA StepDelivery ==
  ASSUME TypeOK, RegistryConsistent, RInv, \A c \in Conn : AckInv(c), DInv, [Next]_vars
  PROVE  DInv'
<1>1. \A c \in Conn : MessagesMove(c)
  BY StepStreams, StreamingMoves
<1>2. /\ sent' \in {sent, sent + 1}
      /\ \A c \in Conn : pending'[c] \in {pending[c], <<>>} \/ ClientMsg(c)
  BY HeldSteps
<1>3. DeliveredOnce' /\ NumbersRead'
  BY <1>1, <1>2, OnceKept, NumbersKept
<1>4. ASSUME NEW c \in Conn, pending'[c] # <<>>
      PROVE  /\ pending'[c][1].env.t = "deliver"
             /\ pending'[c][1].env.data.src = c /\ pending'[c][1].env.data.n <= sent'
             /\ \A b \in Conn : \A i \in DOMAIN Stream(b)' :
                  Stream(b)'[i].t = "deliver" => Stream(b)'[i].data # pending'[c][1].env.data
  <2>1. CASE ClientMsg(c)
    BY <1>4, <2>1, ReadApart
  <2>2. CASE pending'[c] = pending[c]
    BY <1>1, <1>2, <1>4, <2>2, HeldKept
  <2> QED BY <1>2, <1>4, <2>1, <2>2
<1>5. HeldIsOwn' /\ HeldIsApart'
  BY <1>4 DEF HeldIsOwn, HeldIsApart
<1> QED BY <1>3, <1>5 DEF DInv

\* A message is in the stream of one client at most, and there once, though the
\* name it is for may be taken over between the lookup and the send.
THEOREM AtMostOnce == Spec => []DeliveredOnce
<1> DEFINE AInv == \A c \in Conn : AckInv(c)
<1>1. Init => AInv
  BY DEF Init, RelayInit, AckInv, AckAt, Stream
<1>2. Init => RInv
  BY DEF Init, RelayInit, RInv, Named, QueuedFaithful, SocketFaithful, PendingFaithful,
         HasJoined
<1>3. Init => DInv
  BY DEF Init, RelayInit, DInv, DeliveredOnce, NumbersRead, HeldIsOwn, HeldIsApart, Stream
<1>4. TypeOK /\ RegistryConsistent /\ RInv /\ AInv /\ [Next]_vars => AInv'
  BY StepAck
<1>5. TypeOK /\ RegistryConsistent /\ RInv /\ AInv /\ DInv /\ [Next]_vars => DInv'
  BY StepDelivery
<1>6. DInv => DeliveredOnce
  BY DEF DInv
<1> HIDE DEF AInv
<1> QED BY <1>1, <1>2, <1>3, <1>4, <1>5, <1>6, StepRouting, TypeCorrect, RegistryAgrees, PTL DEF Spec

-----------------------------------------------------------------------------
(* What a client believes of who is present.                               *)

\* A stream is a sequence of envelopes.
LEMMA StreamType ==
  ASSUME TypeOK, NEW c \in Conn
  PROVE  Stream(c) \in Seq(Envelope)
<1>1. socket[c] \in Seq(Envelope) /\ queue[c] \in Seq(Envelope)
  BY DEF TypeOK
<1> QED BY <1>1, ConcatProperties DEF Stream

\* One more envelope announces a peer, or tells that it left, or says nothing of
\* who is present.
LEMMA ViewOne ==
  ASSUME NEW s \in Seq(Envelope), NEW e \in Envelope
  PROVE  View(s \o <<e>>) = {p \in Name : e = PeerJoin(p) \/ (p \in View(s) /\ e # PeerLeave(p))}
<1> PICK n, w : n = Len(s) /\ w = s \o <<e>>
  OBVIOUS
<1>1. /\ n \in Nat /\ DOMAIN s = 1..n /\ DOMAIN w = 1..(n + 1)
      /\ (\A i \in 1..n : w[i] = s[i]) /\ w[n + 1] = e
  <2>1. <<e>> \in Seq(Envelope) /\ Len(<<e>>) = 1 /\ <<e>>[1] = e
    OBVIOUS
  <2>2. n \in Nat /\ DOMAIN s = 1..n
    BY LenProperties
  <2>3. w \in Seq(Envelope) /\ Len(w) = n + 1
    BY <2>1, ConcatProperties
  <2>4. \A i \in 1..(n + 1) : w[i] = IF i <= n THEN s[i] ELSE <<e>>[i - n]
    BY <2>1, ConcatProperties
  <2>5. DOMAIN w = 1..(n + 1)
    BY <2>3, LenProperties
  <2>6. n + 1 \in 1..(n + 1) /\ ~(n + 1 <= n) /\ (n + 1) - n = 1
    BY <2>2
  <2>7. \A i \in 1..n : i \in 1..(n + 1) /\ i <= n
    BY <2>2
  <2> QED BY <2>1, <2>2, <2>4, <2>5, <2>6, <2>7
<1>2. ASSUME NEW p \in Name
      PROVE  p \in View(w) <=> e = PeerJoin(p) \/ (p \in View(s) /\ e # PeerLeave(p))
  <2>1. PeerJoin(p) # PeerLeave(p)
    BY DEF PeerJoin, PeerLeave
  <2>2. ASSUME e = PeerJoin(p) PROVE p \in View(w)
    BY <1>1, <2>2 DEF View
  <2>3. ASSUME p \in View(s), e # PeerLeave(p) PROVE p \in View(w)
    <3>1. PICK i \in 1..n : s[i] = PeerJoin(p) /\ \A j \in 1..n : j > i => s[j] # PeerLeave(p)
      BY <1>1, <2>3 DEF View
    <3>2. i \in 1..(n + 1) /\ w[i] = PeerJoin(p)
      BY <1>1, <3>1
    <3>3. \A j \in 1..(n + 1) : j > i => w[j] # PeerLeave(p)
      BY <1>1, <2>3, <3>1
    <3> QED BY <1>1, <3>2, <3>3 DEF View
  <2>4. ASSUME p \in View(w), e # PeerJoin(p) PROVE p \in View(s) /\ e # PeerLeave(p)
    <3>1. PICK i \in 1..(n + 1) : w[i] = PeerJoin(p) /\ \A j \in 1..(n + 1) : j > i => w[j] # PeerLeave(p)
      BY <1>1, <2>4 DEF View
    <3>2. i \in 1..n
      BY <1>1, <2>4, <3>1
    <3>3. e # PeerLeave(p)
      <4>1. n + 1 \in 1..(n + 1) /\ n + 1 > i
        BY <1>1, <3>2
      <4> QED BY <1>1, <3>1, <4>1
    <3>4. s[i] = PeerJoin(p) /\ \A j \in 1..n : j > i => s[j] # PeerLeave(p)
      <4>1. \A j \in 1..n : j \in 1..(n + 1) /\ w[j] = s[j]
        BY <1>1
      <4> QED BY <3>1, <3>2, <4>1
    <3> QED BY <1>1, <3>2, <3>3, <3>4 DEF View
  <2> QED BY <2>2, <2>3, <2>4
<1>3. View(w) \subseteq Name
  BY DEF View
<1> QED BY <1>2, <1>3

\* The same, for the envelopes there are.
LEMMA ViewNotice ==
  ASSUME NEW s \in Seq(Envelope), NEW p \in Name
  PROVE  /\ View(s \o <<PeerJoin(p)>>) = View(s) \cup {p}
         /\ View(s \o <<PeerLeave(p)>>) = View(s) \ {p}
<1>0. PeerJoin(p) \in Envelope /\ PeerLeave(p) \in Envelope /\ View(s) \subseteq Name
  BY EnvelopeTypes DEF View
<1>1. \A q : /\ PeerJoin(q) = PeerJoin(p) <=> q = p
             /\ PeerLeave(q) = PeerLeave(p) <=> q = p
             /\ PeerJoin(q) # PeerLeave(p) /\ PeerLeave(q) # PeerJoin(p)
  BY DEF PeerJoin, PeerLeave
<1>2. View(s \o <<PeerJoin(p)>>) = {q \in Name : PeerJoin(p) = PeerJoin(q) \/ (q \in View(s) /\ PeerJoin(p) # PeerLeave(q))}
  BY <1>0, ViewOne
<1>3. View(s \o <<PeerLeave(p)>>) = {q \in Name : PeerLeave(p) = PeerJoin(q) \/ (q \in View(s) /\ PeerLeave(p) # PeerLeave(q))}
  BY <1>0, ViewOne
<1> QED BY <1>0, <1>1, <1>2, <1>3

LEMMA ViewOther ==
  ASSUME NEW s \in Seq(Envelope), NEW e \in Envelope, e.t \in {"error", "deliver"}
  PROVE  View(s \o <<e>>) = View(s)
<1>1. View(s) \subseteq Name /\ \A p : PeerJoin(p) # e /\ PeerLeave(p) # e
  BY DEF View, PeerJoin, PeerLeave
<1>2. View(s \o <<e>>) = {p \in Name : e = PeerJoin(p) \/ (p \in View(s) /\ e # PeerLeave(p))}
  BY ViewOne
<1> QED BY <1>1, <1>2

\* A greeting presents the peers it names.
LEMMA ViewGreeting ==
  ASSUME NEW n \in Nat, NEW ps \in [1..n -> Name]
  PROVE  View(Greeting(ps)) = {ps[i] : i \in 1..n}
<1> DEFINE notices == [i \in DOMAIN ps |-> PeerJoin(ps[i])]
<1>1. /\ notices \in Seq(Envelope) /\ Len(notices) = n
      /\ \A i \in 1..n : notices[i] = PeerJoin(ps[i])
  <2>1. \A i \in DOMAIN ps : PeerJoin(ps[i]) \in Envelope
    BY EnvelopeTypes
  <2>2. notices \in [1..n -> Envelope]
    BY <2>1
  <2> QED BY <2>2, SeqDef, LenProperties
<1>2. <<Joined>> \in Seq(Envelope) /\ Len(<<Joined>>) = 1 /\ <<Joined>>[1] = Joined
  BY EnvelopeTypes
<1> PICK w : w = Greeting(ps)
  OBVIOUS
<1>3. w = <<Joined>> \o notices
  BY DEF Greeting
<1> HIDE DEF notices
<1>4. w \in Seq(Envelope) /\ Len(w) = n + 1
  BY <1>1, <1>2, <1>3, ConcatProperties
<1>5. DOMAIN w = 1..(n + 1)
  BY <1>4, LenProperties
<1>6. \A i \in 1..(n + 1) : w[i] = IF i <= 1 THEN <<Joined>>[i] ELSE notices[i - 1]
  BY <1>1, <1>2, <1>3, ConcatProperties
<1>7. \A i \in 1..(n + 1) : w[i] = IF i = 1 THEN Joined ELSE PeerJoin(ps[i - 1])
  <2> TAKE i \in 1..(n + 1)
  <2>1. CASE i = 1
    BY <1>2, <1>6, <2>1
  <2>2. CASE i # 1
    <3>1. i - 1 \in 1..n /\ ~(i <= 1)
      BY <2>2
    <3> QED BY <1>1, <1>6, <2>2, <3>1
  <2> QED BY <2>1, <2>2
<1>8. /\ \A p, x : PeerJoin(x) # PeerLeave(p) /\ Joined # PeerLeave(p) /\ PeerJoin(x) # Joined
      /\ \A p, x : PeerJoin(p) = PeerJoin(x) <=> p = x
  BY DEF Joined, PeerJoin, PeerLeave
<1>9. ASSUME NEW p \in Name
      PROVE  p \in View(w) <=> \E i \in 1..n : p = ps[i]
  <2>1. p \in View(w) <=> \E i \in 1..(n + 1) : w[i] = PeerJoin(p)
    <3>1. \A i \in 1..(n + 1) : w[i] # PeerLeave(p)
      <4> TAKE i \in 1..(n + 1)
      <4>1. w[i] = Joined \/ w[i] = PeerJoin(ps[i - 1])
        BY <1>7
      <4> QED BY <1>8, <4>1
    <3> QED BY <1>5, <3>1 DEF View
  <2>2. ASSUME NEW i \in 1..(n + 1), w[i] = PeerJoin(p) PROVE \E j \in 1..n : p = ps[j]
    <3>1. i # 1
      BY <1>7, <1>8, <2>2
    <3>2. i - 1 \in 1..n
      BY <3>1
    <3>3. PeerJoin(ps[i - 1]) = PeerJoin(p)
      BY <1>7, <2>2, <3>1
    <3> QED BY <1>8, <3>2, <3>3
  <2>3. ASSUME NEW i \in 1..n, p = ps[i] PROVE \E j \in 1..(n + 1) : w[j] = PeerJoin(p)
    <3>1. i + 1 \in 1..(n + 1) /\ i + 1 # 1 /\ (i + 1) - 1 = i
      OBVIOUS
    <3> QED BY <1>7, <2>3, <3>1
  <2> QED BY <2>1, <2>2, <2>3
<1>10. View(w) \subseteq Name /\ \A i \in 1..n : ps[i] \in Name
  BY DEF View
<1> QED BY <1>9, <1>10

-----------------------------------------------------------------------------
(* What each step tells whom.                                              *)

\* Everything sent to b so far has been or will be put on its socket.
Clear(b) == b \in Conn /\ writer[b] = "running" /\ ~lost[b]

\* The stream of b goes on with s, if it stays clear.
Told(b, s) == Clear(b)' => Clear(b) /\ Stream(b)' = Stream(b) \o s

\* Mail that is not lost goes to the end of the stream.
LEMMA MailTold ==
  ASSUME TypeOK, NEW mail \in [Conn -> Seq(Envelope)], Send(mail), NEW b \in Conn
  PROVE  Told(b, mail[b])
<1> PICK s : s = mail[b]
  OBVIOUS
<1>1. /\ queue'[b] = queue[b] \o Accepted(b, s) /\ writer'[b] = writer[b] /\ socket'[b] = socket[b]
      /\ lost'[b] = (lost[b] \/ (writer[b] = "running" /\ Accepted(b, s) # s))
  BY DEF Send
<1>2. socket[b] \in Seq(Envelope) /\ queue[b] \in Seq(Envelope) /\ s \in Seq(Envelope)
  BY DEF TypeOK
<1>3. ASSUME Clear(b)' PROVE Clear(b) /\ Stream(b)' = Stream(b) \o s
  <2>1. Clear(b) /\ Accepted(b, s) = s
    BY <1>1, <1>3 DEF Clear
  <2>2. Stream(b)' = socket[b] \o (queue[b] \o s)
    BY <1>1, <2>1 DEF Stream
  <2>3. (socket[b] \o queue[b]) \o s = socket[b] \o (queue[b] \o s)
    BY <1>2, Regroup
  <2> QED BY <2>1, <2>2, <2>3 DEF Stream
<1> QED BY <1>3 DEF Told

\* The same queues, writers and sockets make the same streams.
LEMMA NothingTold ==
  ASSUME TypeOK, NEW b \in Conn, socket'[b] = socket[b], queue'[b] = queue[b],
         writer'[b] = writer[b], lost'[b] = lost[b]
  PROVE  Told(b, <<>>)
<1>1. Stream(b)' = Stream(b) /\ Stream(b) \o <<>> = Stream(b)
  BY StreamType, ConcatEmptySeq DEF Stream
<1> QED BY <1>1 DEF Told, Clear

LEMMA WriterTold ==
  ASSUME TypeOK, NEW c \in Conn, WriterSend(c) \/ WriterFail(c), NEW b \in Conn
  PROVE  Told(b, <<>>)
<1>1. CASE b # c
  BY <1>1, NothingTold DEF WriterSend, WriterFail, TypeOK
<1>2. CASE b = c /\ WriterFail(c)
  BY <1>2 DEF WriterFail, TypeOK, Told, Clear
<1>3. CASE b = c /\ WriterSend(c)
  <2>1. Written(b) /\ lost' = lost
    BY <1>3 DEF WriterSend, Written, handlers, TypeOK
  <2>2. Stream(b)' = Stream(b) /\ Stream(b) \o <<>> = Stream(b)
    BY <2>1, WrittenStream, StreamType, ConcatEmptySeq
  <2> QED BY <2>1, <2>2 DEF Told, Clear, Written
<1> QED BY <1>1, <1>2, <1>3

\* What a refusal, a message and a cleanup tell.
LEMMA RefuseTold ==
  ASSUME TypeOK, NEW c \in Conn, Refuse(c), NEW b \in Conn
  PROVE  Told(b, IF b = c THEN <<Error>> ELSE <<>>)
<1> PICK mail : mail = MailTo(c, <<Error>>)
  OBVIOUS
<1>1. <<Error>> \in Seq(Envelope)
  BY EnvelopeTypes
<1>2. mail \in [Conn -> Seq(Envelope)] /\ Send(mail)
  BY <1>1, MailToType DEF Refuse
<1>3. mail[b] = IF b = c THEN <<Error>> ELSE <<>>
  BY DEF MailTo
<1>4. Told(b, mail[b])
  BY <1>2, MailTold
<1> QED BY <1>3, <1>4

LEMMA RouteSendTold ==
  ASSUME TypeOK, NEW c \in Conn, RouteSend(c), NEW b \in Conn
  PROVE  /\ pending[c][1].env \in Envelope
         /\ Told(b, IF b = pending[c][1].rcpt THEN <<pending[c][1].env>> ELSE <<>>)
<1> PICK d, e : d = pending[c][1].rcpt /\ e = pending[c][1].env
  OBVIOUS
<1> PICK mail : mail = MailTo(d, <<e>>)
  OBVIOUS
<1>1. e \in Envelope
  <2>1. pending[c] \in Seq(Parcel) /\ pending[c] # <<>>
    BY DEF TypeOK, RouteSend
  <2>2. pending[c][1] \in Parcel
    BY <2>1
  <2> QED BY <2>2 DEF Parcel
<1>2. <<e>> \in Seq(Envelope)
  BY <1>1
<1>3. mail \in [Conn -> Seq(Envelope)] /\ Send(mail)
  BY <1>2, MailToType DEF RouteSend
<1>4. mail[b] = IF b = d THEN <<e>> ELSE <<>>
  BY DEF MailTo
<1>5. Told(b, mail[b])
  BY <1>3, MailTold
<1> QED BY <1>1, <1>4, <1>5

LEMMA CleanupTold ==
  ASSUME TypeOK, NEW c \in Conn, Cleanup(c), NEW b \in Conn
  PROVE  /\ ~Clear(c)'
         /\ Told(b, IF b \in LeaveAudience(c) THEN <<PeerLeave(ident[c].id)>> ELSE <<>>)
<1> PICK note : note = <<PeerLeave(ident[c].id)>>
  OBVIOUS
<1>1. note \in Seq(Envelope)
  <2>1. PeerLeave(ident[c].id) \in Envelope
    BY EnvelopeTypes DEF TypeOK, Ident
  <2> QED BY <2>1
<1>2. writer' = [writer EXCEPT ![c] = "stopped"] /\ socket' = socket
  BY DEF Cleanup
<1>3. ~Clear(c)'
  BY <1>2 DEF TypeOK, Clear
<1>4. CASE b # c /\ b \in LeaveAudience(c)
  <2>1. /\ queue'[b] = queue[b] \o Accepted(b, note) /\ writer'[b] = writer[b] /\ socket'[b] = socket[b]
        /\ lost'[b] = (lost[b] \/ (writer[b] = "running" /\ Accepted(b, note) = <<>>))
    BY <1>2, <1>4 DEF Cleanup, TypeOK
  <2>2. Accepted(b, note) = <<>> \/ Accepted(b, note) = note
    <3>1. Len(note) = 1
      OBVIOUS
    <3> QED BY <1>1, <3>1, RelayTypes, AcceptedPrefix
  <2>3. socket[b] \in Seq(Envelope) /\ queue[b] \in Seq(Envelope)
    BY DEF TypeOK
  <2>4. ASSUME Clear(b)' PROVE Clear(b) /\ Stream(b)' = Stream(b) \o note
    <3>1. Clear(b) /\ Accepted(b, note) = note
      BY <2>1, <2>2, <2>4 DEF Clear
    <3>2. Stream(b)' = socket[b] \o (queue[b] \o note)
      BY <2>1, <3>1 DEF Stream
    <3>3. (socket[b] \o queue[b]) \o note = socket[b] \o (queue[b] \o note)
      BY <1>1, <2>3, Regroup
    <3> QED BY <3>1, <3>2, <3>3 DEF Stream
  <2> QED BY <1>3, <1>4, <2>4 DEF Told
<1>5. CASE b # c /\ b \notin LeaveAudience(c)
  <2>1. queue'[b] = queue[b] \o <<>> /\ lost'[b] = lost[b] /\ queue[b] \in Seq(Envelope)
    BY <1>5 DEF Cleanup, TypeOK
  <2>2. queue'[b] = queue[b] /\ writer'[b] = writer[b] /\ socket'[b] = socket[b]
    BY <1>2, <1>5, <2>1, ConcatEmptySeq DEF TypeOK
  <2> QED BY <1>3, <1>5, <2>1, <2>2, NothingTold
<1>6. CASE b = c
  BY <1>3, <1>6 DEF Told
<1> QED BY <1>3, <1>4, <1>5, <1>6

\* What joins tell.
LEMMA JoinControllerTold ==
  ASSUME TypeOK, NEW c \in Conn, NEW r \in Room, JoinController(c, r), ~Refuse(c)
  PROVE  \E order \in SetToSeqs(Present(r)) : \A b \in Conn :
           Told(b, IF b = c THEN Greeting(order)
                   ELSE IF b \in DashboardConn(r) THEN <<PeerJoin(Controller)>>
                   ELSE <<>>)
<1>1. PICK order \in SetToSeqs(Present(r)) :
        Send([d \in Conn |->
                IF d = c THEN Greeting(order)
                ELSE IF d \in DashboardConn(r) THEN <<PeerJoin(Controller)>>
                ELSE <<>>])
  BY DEF JoinController
<1> DEFINE mail == [d \in Conn |->
                IF d = c THEN Greeting(order)
                ELSE IF d \in DashboardConn(r) THEN <<PeerJoin(Controller)>>
                ELSE <<>>]
<1>2. Greeting(order) \in Seq(Envelope)
  BY WalkShape
<1>3. <<PeerJoin(Controller)>> \in Seq(Envelope) /\ <<>> \in Seq(Envelope)
  BY EnvelopeTypes DEF Name
<1>4. mail \in [Conn -> Seq(Envelope)] /\ Send(mail)
  BY <1>1, <1>2, <1>3
<1>5. \A b \in Conn : mail[b] = IF b = c THEN Greeting(order)
                   ELSE IF b \in DashboardConn(r) THEN <<PeerJoin(Controller)>>
                   ELSE <<>>
  OBVIOUS
<1> HIDE DEF mail
<1>6. \A b \in Conn : Told(b, mail[b])
  BY <1>4, MailTold
<1> QED BY <1>5, <1>6

LEMMA JoinDashboardTold ==
  ASSUME TypeOK, NEW c \in Conn, NEW r \in Room, NEW p \in PeerId, JoinDashboard(c, r, p), NEW b \in Conn
  PROVE  Told(b, IF b = c THEN Greeting(IF controller[r] = NoConn THEN <<>> ELSE <<Controller>>)
                 ELSE IF b = controller[r] THEN <<PeerJoin(p)>>
                 ELSE <<>>)
<1> PICK greeting : greeting = Greeting(IF controller[r] = NoConn THEN <<>> ELSE <<Controller>>)
  OBVIOUS
<1> DEFINE mail == [d \in Conn |->
             IF d = c THEN greeting ELSE IF d = controller[r] THEN <<PeerJoin(p)>> ELSE <<>>]
<1>1. greeting \in Seq(Envelope)
  <2>1. <<>> \in [1..0 -> Name] /\ <<Controller>> \in [1..1 -> Name]
    BY DEF Name
  <2>2. CASE controller[r] = NoConn
    BY <2>1, <2>2, GreetingShape
  <2>3. CASE controller[r] # NoConn
    BY <2>1, <2>3, GreetingShape
  <2> QED BY <2>2, <2>3
<1>2. <<PeerJoin(p)>> \in Seq(Envelope) /\ <<>> \in Seq(Envelope)
  BY EnvelopeTypes DEF Name
<1>3. Send(mail)
  BY DEF JoinDashboard
<1>4. mail \in [Conn -> Seq(Envelope)]
  BY <1>1, <1>2
<1>5. mail[b] = IF b = c THEN greeting ELSE IF b = controller[r] THEN <<PeerJoin(p)>> ELSE <<>>
  OBVIOUS
<1> HIDE DEF mail
<1>6. Told(b, mail[b])
  BY <1>3, <1>4, MailTold
<1> QED BY <1>5, <1>6

-----------------------------------------------------------------------------
(* Registered clients have been told exactly who is there.                 *)

\* PresenceExact by entries of the registry.
ControllersTold == \A r \in Room :
  Clear(controller[r]) => View(Stream(controller[r])) = Present(r)
DashboardsTold == \A r \in Room, p \in PeerId :
  Clear(dashboards[r][p]) =>
    View(Stream(dashboards[r][p])) = IF controller[r] = NoConn THEN {} ELSE {Controller}

\* The registry's entries are connections of their rooms, in their roles.
LEMMA Entries ==
  ASSUME TypeOK, RegistryConsistent, NEW r \in Room
  PROVE  /\ controller[r] \in Conn => /\ Live(controller[r]) /\ IsController(controller[r])
                                      /\ ident[controller[r]].room = r
         /\ \A p \in PeerId : dashboards[r][p] \in Conn =>
              /\ Live(dashboards[r][p]) /\ ~IsController(dashboards[r][p])
              /\ ident[dashboards[r][p]].room = r /\ ident[dashboards[r][p]].id = p
         /\ \A b \in DashboardConn(r) : b \in Conn /\ ~IsController(b) /\ ident[b].room = r
<1>1. NoConn \notin Conn /\ controller[r] \in Conn \cup {NoConn}
      /\ \A p \in PeerId : dashboards[r][p] \in Conn \cup {NoConn}
  BY RelayAssumption DEF TypeOK
<1>2. controller[r] \in Conn => /\ Live(controller[r]) /\ IsController(controller[r])
                                /\ ident[controller[r]].room = r
  BY DEF RegistryConsistent
<1>3. ASSUME NEW p \in PeerId, dashboards[r][p] \in Conn
      PROVE  /\ Live(dashboards[r][p]) /\ ~IsController(dashboards[r][p])
             /\ ident[dashboards[r][p]].room = r /\ ident[dashboards[r][p]].id = p
  <2> PICK b : b = dashboards[r][p]
    OBVIOUS
  <2>1. Live(b) /\ ident[b] = [role |-> "dashboard", room |-> r, id |-> p]
    BY <1>1, <1>3 DEF RegistryConsistent
  <2> QED BY <2>1 DEF IsController
<1>4. \A b \in DashboardConn(r) : \E p \in PeerId : b = dashboards[r][p] /\ b \in Conn
  BY <1>1 DEF DashboardConn, Present
<1> QED BY <1>2, <1>3, <1>4

\* What b believes after being told.
LEMMA ToldView ==
  ASSUME TypeOK, NEW b \in Conn, Clear(b)'
  PROVE  /\ Told(b, <<>>) => Clear(b) /\ View(Stream(b))' = View(Stream(b))
         /\ \A e \in Envelope : Told(b, <<e>>) /\ e.t \in {"error", "deliver"} =>
              Clear(b) /\ View(Stream(b))' = View(Stream(b))
         /\ \A p \in Name :
              /\ Told(b, <<PeerJoin(p)>>) => Clear(b) /\ View(Stream(b))' = View(Stream(b)) \cup {p}
              /\ Told(b, <<PeerLeave(p)>>) => Clear(b) /\ View(Stream(b))' = View(Stream(b)) \ {p}
<1> PICK s : s = Stream(b)
  OBVIOUS
<1>1. s \in Seq(Envelope)
  BY StreamType
<1>2. \A t : Told(b, t) => Clear(b) /\ View(Stream(b))' = View(s \o t)
  BY DEF Told
<1>3. Told(b, <<>>) => Clear(b) /\ View(Stream(b))' = View(s)
  BY <1>1, <1>2, ConcatEmptySeq
<1>4. \A e \in Envelope : Told(b, <<e>>) /\ e.t \in {"error", "deliver"} => Clear(b) /\ View(Stream(b))' = View(s)
  BY <1>1, <1>2, ViewOther
<1>5. \A p \in Name :
        /\ Told(b, <<PeerJoin(p)>>) => Clear(b) /\ View(Stream(b))' = View(s) \cup {p}
        /\ Told(b, <<PeerLeave(p)>>) => Clear(b) /\ View(Stream(b))' = View(s) \ {p}
  BY <1>1, <1>2, ViewNotice
<1> QED BY <1>3, <1>4, <1>5

\* A connection that joins is told who is there.
LEMMA GreetedView ==
  ASSUME TypeOK, NEW c \in Conn, AckInv(c), phase[c] = "joining", Clear(c)',
         NEW n \in Nat, NEW ps \in [1..n -> Name], Told(c, Greeting(ps))
  PROVE  View(Stream(c))' = {ps[i] : i \in 1..n}
<1>1. Stream(c) = <<>>
  BY DEF AckInv
<1>2. Greeting(ps) \in Seq(Envelope)
  BY GreetingShape
<1>3. Stream(c)' = Greeting(ps)
  BY <1>1, <1>2, ConcatEmptySeq DEF Told
<1> QED BY <1>3, ViewGreeting

\* Nothing changes if the registry does not and nobody is told anything of it.
LEMMA PresenceFrame ==
  ASSUME TypeOK, ControllersTold, DashboardsTold, UNCHANGED registry,
         \A b \in Conn : Clear(b)' => Clear(b) /\ View(Stream(b))' = View(Stream(b))
  PROVE  ControllersTold' /\ DashboardsTold'
<1>0. \A b : Clear(b)' => b \in Conn
  BY DEF Clear
<1>1. controller' = controller /\ dashboards' = dashboards
  BY DEF registry
<1>2. ASSUME NEW r \in Room, Clear(controller[r])'
      PROVE  View(Stream(controller[r]))' = Present(r)'
  <2> PICK b : b = controller[r]
    OBVIOUS
  <2>1. Clear(b)' /\ View(Stream(controller[r]))' = View(Stream(b))' /\ Present(r)' = Present(r)
    BY <1>1, <1>2 DEF Present
  <2> QED BY <1>0, <2>1 DEF ControllersTold
<1>3. ASSUME NEW r \in Room, NEW p \in PeerId, Clear(dashboards[r][p])'
      PROVE  View(Stream(dashboards[r][p]))' = IF controller'[r] = NoConn THEN {} ELSE {Controller}
  <2> PICK b : b = dashboards[r][p]
    OBVIOUS
  <2>1. Clear(b)' /\ View(Stream(dashboards[r][p]))' = View(Stream(b))'
    BY <1>1, <1>3
  <2> QED BY <1>0, <1>1, <2>1 DEF DashboardsTold
<1> QED BY <1>2, <1>3 DEF ControllersTold, DashboardsTold

\* The walk over the dashboards of a room names them all.
LEMMA WalkView ==
  ASSUME TypeOK, NEW r \in Room, NEW order \in SetToSeqs(Present(r))
  PROVE  \E n \in Nat : order \in [1..n -> Name] /\ {order[i] : i \in 1..n} = Present(r)
<1>1. Present(r) \subseteq PeerId /\ IsFiniteSet(Present(r))
  BY RelayAssumption, FS_Subset DEF Present
<1>2. PICK n \in Nat : /\ order \in [1..n -> Present(r)]
                      /\ \A y \in Present(r) : \E i \in 1..n : order[i] = y
  BY <1>1, WalkParts
<1> QED BY <1>1, <1>2 DEF Name

\* Taking the slot: the controller is told of the dashboards, and they of it.
LEMMA JoinControllerPresence ==
  ASSUME TypeOK, RegistryConsistent, \A b \in Conn : AckInv(b), ControllersTold, DashboardsTold,
         NEW c \in Conn, NEW r \in Room, JoinController(c, r), ~Refuse(c)
  PROVE  ControllersTold' /\ DashboardsTold'
<1>1. /\ phase[c] = "joining" /\ controller[r] = NoConn
      /\ controller' = [controller EXCEPT ![r] = c] /\ dashboards' = dashboards
  BY DEF JoinController, SlotFree
<1>2. PICK order \in SetToSeqs(Present(r)) : \A b \in Conn :
           Told(b, IF b = c THEN Greeting(order)
                   ELSE IF b \in DashboardConn(r) THEN <<PeerJoin(Controller)>>
                   ELSE <<>>)
  BY JoinControllerTold
<1>3. PICK n \in Nat : order \in [1..n -> Name] /\ {order[i] : i \in 1..n} = Present(r)
  BY WalkView
<1>4. controller'[r] = c /\ \A q \in Room : q # r => controller'[q] = controller[q]
  BY <1>1 DEF TypeOK
<1>5. Present(r)' = Present(r) /\ \A q \in Room : Present(q)' = Present(q)
  BY <1>1 DEF Present
<1>6. \A b : (Live(b) => b # c) /\ (Clear(b)' => b \in Conn)
  BY <1>1 DEF Live, Clear
<1>7. ASSUME Clear(c)' PROVE View(Stream(c))' = Present(r)
  <2>1. Told(c, Greeting(order))
    BY <1>2
  <2> QED BY <1>1, <1>3, <1>7, <2>1, GreetedView
<1>8. ASSUME NEW q \in Room, NEW b, b = controller'[q], Clear(b)'
      PROVE  View(Stream(b))' = Present(q)
  <2>1. CASE q = r
    BY <1>4, <1>7, <1>8, <2>1
  <2>2. CASE q # r
    <3>1. b = controller[q] /\ b \in Conn
      BY <1>4, <1>6, <1>8, <2>2
    <3>2. b # c /\ b \notin DashboardConn(r)
      BY <1>6, <3>1, Entries
    <3>3. Told(b, <<>>)
      BY <1>2, <3>1, <3>2
    <3>4. Clear(b) /\ View(Stream(b))' = View(Stream(b))
      BY <1>8, <3>1, <3>3, ToldView
    <3> QED BY <3>1, <3>4 DEF ControllersTold
  <2> QED BY <2>1, <2>2
<1>9. ASSUME NEW q \in Room, NEW p \in PeerId, NEW b, b = dashboards[q][p], Clear(b)'
      PROVE  View(Stream(b))' = IF controller'[q] = NoConn THEN {} ELSE {Controller}
  <2>1. b \in Conn /\ b # c /\ ident[b].room = q /\ b # NoConn
    BY <1>6, <1>9, Entries, RelayAssumption
  <2>2. CASE q = r
    <3>1. b \in DashboardConn(r)
      BY <1>9, <2>1, <2>2 DEF DashboardConn, Present
    <3>2. Told(b, <<PeerJoin(Controller)>>)
      BY <1>2, <2>1, <3>1
    <3>3. Controller \in Name
      BY DEF Name
    <3>4. Clear(b) /\ View(Stream(b))' = View(Stream(b)) \cup {Controller}
      BY <1>9, <2>1, <3>2, <3>3, ToldView
    <3>5. View(Stream(b)) = {}
      BY <1>1, <1>9, <2>2, <3>4 DEF DashboardsTold
    <3>6. controller'[q] # NoConn
      BY <1>4, <2>2, RelayAssumption
    <3> QED BY <3>4, <3>5, <3>6
  <2>3. CASE q # r
    <3>1. b \notin DashboardConn(r)
      BY <2>1, <2>3, Entries
    <3>2. Told(b, <<>>)
      BY <1>2, <2>1, <3>1
    <3>3. Clear(b) /\ View(Stream(b))' = View(Stream(b))
      BY <1>9, <2>1, <3>2, ToldView
    <3>4. controller'[q] = controller[q]
      BY <1>4, <2>3
    <3> QED BY <1>9, <3>3, <3>4 DEF DashboardsTold
  <2> QED BY <2>2, <2>3
<1>10. ControllersTold'
  BY <1>5, <1>8 DEF ControllersTold
<1>11. DashboardsTold'
  BY <1>1, <1>9 DEF DashboardsTold
<1> QED BY <1>10, <1>11

\* Taking a name: the dashboard is told of the controller, and it of the dashboard.
LEMMA JoinDashboardPresence ==
  ASSUME TypeOK, RegistryConsistent, \A b \in Conn : AckInv(b), ControllersTold, DashboardsTold,
         NEW c \in Conn, NEW r \in Room, NEW p \in PeerId, JoinDashboard(c, r, p)
  PROVE  ControllersTold' /\ DashboardsTold'
<1>1. /\ phase[c] = "joining" /\ controller' = controller
      /\ dashboards' = [dashboards EXCEPT ![r][p] = c]
  BY DEF JoinDashboard
<1>2. \A b \in Conn :
        Told(b, IF b = c THEN Greeting(IF controller[r] = NoConn THEN <<>> ELSE <<Controller>>)
                ELSE IF b = controller[r] THEN <<PeerJoin(p)>>
                ELSE <<>>)
  BY JoinDashboardTold
<1>3. dashboards'[r][p] = c /\ \A q \in Room, i \in PeerId : q # r \/ i # p => dashboards'[q][i] = dashboards[q][i]
  BY <1>1 DEF TypeOK
<1>4. c # NoConn /\ p \in Name
  BY RelayAssumption DEF Name
<1>5. Present(r)' = Present(r) \cup {p} /\ \A q \in Room : q # r => Present(q)' = Present(q)
  BY <1>3, <1>4 DEF Present
<1>6. \A b : (Live(b) => b # c) /\ (Clear(b)' => b \in Conn)
  BY <1>1 DEF Live, Clear
<1>7. ASSUME Clear(c)' PROVE View(Stream(c))' = IF controller[r] = NoConn THEN {} ELSE {Controller}
  <2>1. <<>> \in [1..0 -> Name] /\ {<<>>[i] : i \in 1..0} = {}
    OBVIOUS
  <2>2. <<Controller>> \in [1..1 -> Name] /\ {<<Controller>>[i] : i \in 1..1} = {Controller}
    BY DEF Name
  <2>3. CASE controller[r] = NoConn
    <3>1. Told(c, Greeting(<<>>))
      BY <1>2, <2>3
    <3> QED BY <1>1, <1>7, <2>1, <2>3, <3>1, GreetedView
  <2>4. CASE controller[r] # NoConn
    <3>1. Told(c, Greeting(<<Controller>>))
      BY <1>2, <2>4
    <3> QED BY <1>1, <1>7, <2>2, <2>4, <3>1, GreetedView
  <2> QED BY <2>3, <2>4
<1>8. ASSUME NEW q \in Room, NEW b, b = controller[q], Clear(b)'
      PROVE  View(Stream(b))' = Present(q)'
  <2>1. b \in Conn /\ b # c /\ ident[b].room = q
    BY <1>6, <1>8, Entries
  <2>2. CASE q = r
    <3>1. Told(b, <<PeerJoin(p)>>)
      BY <1>2, <1>8, <2>1, <2>2
    <3>2. Clear(b) /\ View(Stream(b))' = View(Stream(b)) \cup {p}
      BY <1>4, <1>8, <2>1, <3>1, ToldView
    <3> QED BY <1>5, <1>8, <2>2, <3>2 DEF ControllersTold
  <2>3. CASE q # r
    <3>1. b # controller[r]
      BY <2>1, <2>3, Entries
    <3>2. Told(b, <<>>)
      BY <1>2, <2>1, <3>1
    <3>3. Clear(b) /\ View(Stream(b))' = View(Stream(b))
      BY <1>8, <2>1, <3>2, ToldView
    <3> QED BY <1>5, <1>8, <2>3, <3>3 DEF ControllersTold
  <2> QED BY <2>2, <2>3
<1>9. ASSUME NEW q \in Room, NEW i \in PeerId, NEW b, b = dashboards'[q][i], Clear(b)'
      PROVE  View(Stream(b))' = IF controller[q] = NoConn THEN {} ELSE {Controller}
  <2>1. CASE q = r /\ i = p
    BY <1>3, <1>7, <1>9, <2>1
  <2>2. CASE q # r \/ i # p
    <3>1. b = dashboards[q][i]
      BY <1>3, <1>9, <2>2
    <3>2. b \in Conn /\ b # c /\ ~IsController(b)
      BY <1>6, <1>9, <3>1, Entries
    <3>3. b # controller[r]
      BY <3>2, Entries
    <3>4. Told(b, <<>>)
      BY <1>2, <3>2, <3>3
    <3>5. Clear(b) /\ View(Stream(b))' = View(Stream(b))
      BY <1>9, <3>2, <3>4, ToldView
    <3> QED BY <3>1, <3>5 DEF DashboardsTold
  <2> QED BY <2>1, <2>2
<1>10. ControllersTold'
  BY <1>1, <1>8 DEF ControllersTold
<1>11. DashboardsTold'
  BY <1>1, <1>9 DEF DashboardsTold
<1> QED BY <1>10, <1>11

\* Leaving: whoever was told that the connection is present is told that it left.
LEMMA CleanupPresence ==
  ASSUME TypeOK, RegistryConsistent, Named, NamedByRole, ControllersTold, DashboardsTold,
         NEW c \in Conn, Cleanup(c)
  PROVE  ControllersTold' /\ DashboardsTold'
<1> PICK r, p : r = ident[c].room /\ p = ident[c].id
  OBVIOUS
<1>1. r \in Room /\ p \in Name /\ NoConn \notin Conn /\ Live(c) /\ HasJoined(c)
  BY RelayAssumption DEF TypeOK, Ident, Cleanup, Live, HasJoined
<1>2. \A b \in Conn : Told(b, IF b \in LeaveAudience(c) THEN <<PeerLeave(p)>> ELSE <<>>)
  BY CleanupTold
<1>3. ~Clear(c)' /\ \A b : Clear(b)' => b \in Conn /\ b # c
  BY CleanupTold DEF Clear
<1>4. ASSUME NEW b, Clear(b)', b \notin LeaveAudience(c)
      PROVE  Clear(b) /\ View(Stream(b))' = View(Stream(b))
  <2>1. b \in Conn /\ Told(b, <<>>)
    BY <1>2, <1>3, <1>4
  <2> QED BY <1>4, <2>1, ToldView
<1>5. ASSUME NEW b, Clear(b)', b \in LeaveAudience(c)
      PROVE  Clear(b) /\ View(Stream(b))' = View(Stream(b)) \ {p}
  <2>1. b \in Conn /\ Told(b, <<PeerLeave(p)>>)
    BY <1>2, <1>3, <1>5
  <2> QED BY <1>1, <1>5, <2>1, ToldView
<1>6. CASE IsController(c)
  <2>1. p = Controller /\ controller[r] = c
    BY <1>1, <1>6 DEF Named, RegistryConsistent
  <2>2. controller' = [controller EXCEPT ![r] = NoConn] /\ dashboards' = dashboards
    BY <1>6 DEF Cleanup, WithoutController, IsController
  <2>3. controller'[r] = NoConn /\ \A q \in Room : q # r => controller'[q] = controller[q]
    BY <1>1, <2>2 DEF TypeOK
  <2>4. \A q \in Room : Present(q)' = Present(q)
    BY <2>2 DEF Present
  <2>5. LeaveAudience(c) = DashboardConn(r)
    BY <1>6 DEF LeaveAudience, IsController
  <2>6. ASSUME NEW q \in Room, NEW b, b = controller'[q], Clear(b)'
        PROVE  View(Stream(b))' = Present(q)
    <3>1. b \in Conn /\ b = controller[q]
      BY <1>1, <1>3, <2>3, <2>6
    <3>2. b \notin LeaveAudience(c)
      BY <1>1, <2>5, <3>1, Entries
    <3>3. Clear(b) /\ View(Stream(b))' = View(Stream(b))
      BY <1>4, <2>6, <3>2
    <3> QED BY <3>1, <3>3 DEF ControllersTold
  <2>7. ASSUME NEW q \in Room, NEW i \in PeerId, NEW b, b = dashboards[q][i], Clear(b)'
        PROVE  View(Stream(b))' = IF controller'[q] = NoConn THEN {} ELSE {Controller}
    <3>1. b \in Conn /\ ident[b].room = q
      BY <1>3, <2>7, Entries
    <3>2. CASE q = r
      <4>1. b \in LeaveAudience(c)
        BY <1>1, <2>5, <2>7, <3>1, <3>2 DEF DashboardConn, Present
      <4>2. Clear(b) /\ View(Stream(b))' = View(Stream(b)) \ {Controller}
        BY <1>5, <2>1, <2>7, <4>1
      <4>3. View(Stream(b)) \subseteq {Controller}
        BY <2>7, <4>2 DEF DashboardsTold
      <4> QED BY <2>3, <3>2, <4>2, <4>3
    <3>3. CASE q # r
      <4>1. b \notin LeaveAudience(c)
        BY <1>1, <2>5, <3>1, <3>3, Entries
      <4>2. Clear(b) /\ View(Stream(b))' = View(Stream(b))
        BY <1>4, <2>7, <4>1
      <4> QED BY <2>3, <2>7, <3>3, <4>2 DEF DashboardsTold
    <3> QED BY <3>2, <3>3
  <2>8. ControllersTold'
    BY <2>4, <2>6 DEF ControllersTold
  <2>9. DashboardsTold'
    BY <2>2, <2>7 DEF DashboardsTold
  <2> QED BY <2>8, <2>9
<1>7. CASE ~IsController(c)
  <2>1. p \in PeerId
    BY <1>1, <1>7 DEF NamedByRole
  <2>2. controller' = controller /\ dashboards' = [dashboards EXCEPT ![r] = WithoutDashboard(r, p)]
    BY <1>7 DEF Cleanup, IsController
  <2>3. dashboards'[r][p] = NoConn /\ \A q \in Room, i \in PeerId : q # r \/ i # p => dashboards'[q][i] = dashboards[q][i]
    BY <1>1, <2>1, <2>2 DEF TypeOK, WithoutDashboard
  <2>4. Present(r)' = Present(r) \ {p} /\ \A q \in Room : q # r => Present(q)' = Present(q)
    BY <1>1, <2>1, <2>3 DEF Present
  <2>5. LeaveAudience(c) = {controller[r]}
    BY <1>7 DEF LeaveAudience, IsController
  <2>6. ASSUME NEW q \in Room, NEW b, b = controller[q], Clear(b)'
        PROVE  View(Stream(b))' = Present(q)'
    <3>1. b \in Conn /\ ident[b].room = q
      BY <1>3, <2>6, Entries
    <3>2. CASE q = r
      <4>1. Clear(b) /\ View(Stream(b))' = View(Stream(b)) \ {p}
        BY <1>5, <2>5, <2>6, <3>2
      <4> QED BY <2>4, <2>6, <3>2, <4>1 DEF ControllersTold
    <3>3. CASE q # r
      <4>1. b \notin LeaveAudience(c)
        BY <1>1, <2>5, <3>1, <3>3, Entries
      <4>2. Clear(b) /\ View(Stream(b))' = View(Stream(b))
        BY <1>4, <2>6, <4>1
      <4> QED BY <2>4, <2>6, <3>3, <4>2 DEF ControllersTold
    <3> QED BY <3>2, <3>3
  <2>7. ASSUME NEW q \in Room, NEW i \in PeerId, NEW b, b = dashboards'[q][i], Clear(b)'
        PROVE  View(Stream(b))' = IF controller[q] = NoConn THEN {} ELSE {Controller}
    <3>1. b \in Conn /\ b = dashboards[q][i]
      BY <1>1, <1>3, <2>3, <2>7
    <3>2. b \notin LeaveAudience(c)
      BY <1>1, <2>5, <3>1, Entries
    <3>3. Clear(b) /\ View(Stream(b))' = View(Stream(b))
      BY <1>4, <2>7, <3>2
    <3> QED BY <3>1, <3>3 DEF DashboardsTold
  <2>8. ControllersTold'
    BY <2>2, <2>6 DEF ControllersTold
  <2>9. DashboardsTold'
    BY <2>2, <2>7 DEF DashboardsTold
  <2> QED BY <2>8, <2>9
<1> QED BY <1>6, <1>7

\* What registered clients have been told stays exact by every step.
LEMMA StepPresence ==
  ASSUME TypeOK, RegistryConsistent, RInv, NamedByRole, \A b \in Conn : AckInv(b),
         ControllersTold, DashboardsTold, [Next]_vars
  PROVE  ControllersTold' /\ DashboardsTold'
<1>0. \A b : Clear(b)' => b \in Conn
  BY DEF Clear
<1>1. ASSUME \A b \in Conn : Told(b, <<>>), UNCHANGED registry
      PROVE  ControllersTold' /\ DashboardsTold'
  <2>1. \A b \in Conn : Clear(b)' => Clear(b) /\ View(Stream(b))' = View(Stream(b))
    BY <1>1, ToldView
  <2> QED BY <1>1, <2>1, PresenceFrame
<1>2. ASSUME NEW c \in Conn, Refuse(c)
      PROVE  ControllersTold' /\ DashboardsTold'
  <2>1. Error \in Envelope /\ Error.t \in {"error", "deliver"}
    BY EnvelopeTypes DEF Error
  <2>2. ASSUME NEW b \in Conn, Clear(b)' PROVE Clear(b) /\ View(Stream(b))' = View(Stream(b))
    <3>1. Told(b, IF b = c THEN <<Error>> ELSE <<>>)
      BY <1>2, RefuseTold
    <3>2. Told(b, <<Error>>) \/ Told(b, <<>>)
      BY <3>1
    <3> QED BY <2>1, <2>2, <3>2, ToldView
  <2> QED BY <1>2, <2>2, PresenceFrame DEF Refuse
<1>3. ASSUME NEW c \in Conn, RouteSend(c)
      PROVE  ControllersTold' /\ DashboardsTold'
  <2> PICK d, e : d = pending[c][1].rcpt /\ e = pending[c][1].env
    OBVIOUS
  <2>1. e \in Envelope /\ e.t \in {"error", "deliver"}
    BY <1>3, RouteSendTold DEF RouteSend, RInv, PendingFaithful
  <2>2. ASSUME NEW b \in Conn, Clear(b)' PROVE Clear(b) /\ View(Stream(b))' = View(Stream(b))
    <3>1. Told(b, IF b = d THEN <<e>> ELSE <<>>)
      BY <1>3, RouteSendTold
    <3>2. Told(b, <<e>>) \/ Told(b, <<>>)
      BY <3>1
    <3> QED BY <2>1, <2>2, <3>2, ToldView
  <2> QED BY <1>3, <2>2, PresenceFrame DEF RouteSend
<1>4. ASSUME NEW c \in Conn, ConnStep(c) PROVE ControllersTold' /\ DashboardsTold'
  <2>1. CASE RejectFirstFrame(c) \/ \E r \in Room : JoinController(c, r) /\ Refuse(c)
    BY <1>2, <2>1 DEF RejectFirstFrame
  <2>2. ASSUME NEW r \in Room, JoinController(c, r), ~Refuse(c) PROVE ControllersTold' /\ DashboardsTold'
    BY <2>2, JoinControllerPresence
  <2>3. ASSUME NEW r \in Room, NEW p \in PeerId, JoinDashboard(c, r, p)
        PROVE  ControllersTold' /\ DashboardsTold'
    BY <2>3, JoinDashboardPresence
  <2>4. CASE RouteSend(c)
    BY <1>3, <2>4
  <2>5. CASE StreamEnd(c)
    BY <1>1, <2>5, NothingTold DEF StreamEnd, outgoing
  <2>6. CASE Cleanup(c)
    BY <2>6, CleanupPresence DEF RInv
  <2>7. CASE WriterSend(c) \/ SocketBreaks(c)
    <3>1. WriterSend(c) \/ WriterFail(c)
      BY <2>7 DEF SocketBreaks
    <3>2. \A b \in Conn : Told(b, <<>>)
      BY <3>1, WriterTold
    <3>3. UNCHANGED registry
      BY <3>1 DEF WriterSend, WriterFail
    <3> QED BY <1>1, <3>2, <3>3
  <2> QED BY <1>4, <2>1, <2>2, <2>3, <2>4, <2>5, <2>6, <2>7 DEF ConnStep
<1>5. ASSUME NEW c \in Conn, ClientMsg(c) PROVE ControllersTold' /\ DashboardsTold'
  BY <1>1, <1>5, NothingTold DEF ClientMsg, RouteLookup, outgoing
<1>6. CASE UNCHANGED vars
  BY <1>1, <1>6, NothingTold DEF vars, relayVars, registry
<1> QED BY <1>4, <1>5, <1>6 DEF Next

\* Entry by entry, the property.
LEMMA ToldExact ==
  TypeOK /\ RegistryConsistent /\ NamedByRole /\ ControllersTold /\ DashboardsTold => PresenceExact
<1> SUFFICES ASSUME TypeOK, RegistryConsistent, NamedByRole, ControllersTold, DashboardsTold,
                    NEW c \in Conn, Registered(c), writer[c] = "running", ~lost[c]
             PROVE  LET r == ident[c].room
                    IN  View(Stream(c)) = IF IsController(c) THEN Present(r)
                          ELSE {Controller} \ (IF controller[r] = NoConn THEN {Controller} ELSE {})
  BY DEF PresenceExact
<1> PICK r, p : r = ident[c].room /\ p = ident[c].id
  OBVIOUS
<1>1. r \in Room /\ Live(c) /\ HasJoined(c) /\ Clear(c)
  BY DEF TypeOK, Ident, Registered, Live, HasJoined, Clear
<1>2. CASE IsController(c)
  <2>1. controller[r] = c
    BY <1>1, <1>2 DEF RegistryConsistent
  <2> QED BY <1>1, <1>2, <2>1 DEF ControllersTold
<1>3. CASE ~IsController(c)
  <2>1. p \in PeerId
    BY <1>1, <1>3 DEF NamedByRole
  <2>2. c = dashboards[r][p]
    BY <1>3 DEF Registered
  <2>3. View(Stream(c)) = IF controller[r] = NoConn THEN {} ELSE {Controller}
    BY <1>1, <2>1, <2>2 DEF DashboardsTold
  <2> QED BY <1>3, <2>3
<1> QED BY <1>2, <1>3

\* Nobody is told in Init; the registry is empty there.
LEMMA InitPresence == Init => ControllersTold /\ DashboardsTold
<1> SUFFICES ASSUME Init PROVE ControllersTold /\ DashboardsTold
  OBVIOUS
<1>1. \A r \in Room : controller[r] \notin Conn /\ \A p \in PeerId : dashboards[r][p] \notin Conn
  BY RelayAssumption DEF Init, RelayInit
<1> QED BY <1>1 DEF ControllersTold, DashboardsTold, Clear

\* A client that is registered, whose socket works and whose queue never overflowed
\* has been told exactly who is registered, however joins and leaves interleave.
THEOREM PresenceTold == Spec => []PresenceExact
<1> DEFINE AInv == \A c \in Conn : AckInv(c)
<1>1. Init => AInv
  BY DEF Init, RelayInit, AckInv, AckAt, Stream
<1>2. Init => RInv
  BY DEF Init, RelayInit, RInv, Named, QueuedFaithful, SocketFaithful, PendingFaithful,
         HasJoined
<1>3. Init => NamedByRole /\ DashboardsKept
  BY DEF Init, RelayInit, NamedByRole, DashboardsKept, HasJoined, Live
<1>4. TypeOK /\ RegistryConsistent /\ RInv /\ AInv /\ [Next]_vars => AInv'
  BY StepAck
<1>5. /\ TypeOK /\ RegistryConsistent /\ RInv /\ NamedByRole /\ AInv
      /\ ControllersTold /\ DashboardsTold /\ [Next]_vars
      => ControllersTold' /\ DashboardsTold'
  BY StepPresence
<1> HIDE DEF AInv
<1> QED BY <1>1, <1>2, <1>3, <1>4, <1>5, InitPresence, StepReach, StepRouting, ToldExact,
           TypeCorrect, RegistryAgrees, PTL DEF Spec

-----------------------------------------------------------------------------
(* A sender is announced before its messages.                              *)

\* A step leaves d believing p present, unless it is the leaving of p.
LEMMA BeliefKept ==
  ASSUME TypeOK, RInv, [Next]_vars, NEW d \in Conn, HasJoined(d), NEW p \in Name,
         \A c \in Conn : Cleanup(c) /\ d \in LeaveAudience(c) => ident[c].id # p
  PROVE  Clear(d)' => Clear(d) /\ (p \in View(Stream(d)) => p \in View(Stream(d))')
<1> SUFFICES ASSUME Clear(d)'
             PROVE  Clear(d) /\ (p \in View(Stream(d)) => p \in View(Stream(d))')
  OBVIOUS
<1>1. ASSUME NEW q \in Name, Told(d, <<PeerJoin(q)>>)
      PROVE  Clear(d) /\ (p \in View(Stream(d)) => p \in View(Stream(d))')
  BY <1>1, ToldView
<1>2. ASSUME Told(d, <<>>)
      PROVE  Clear(d) /\ (p \in View(Stream(d)) => p \in View(Stream(d))')
  BY <1>2, ToldView
<1>3. ASSUME NEW e \in Envelope, e.t \in {"error", "deliver"}, Told(d, <<e>>)
      PROVE  Clear(d) /\ (p \in View(Stream(d)) => p \in View(Stream(d))')
  BY <1>3, ToldView
<1>4. \A c \in Conn : phase[c] = "joining" => c # d
  BY DEF HasJoined
<1>5. ASSUME NEW c \in Conn, phase[c] = "joining", Refuse(c)
      PROVE  Clear(d) /\ (p \in View(Stream(d)) => p \in View(Stream(d))')
  <2>1. Told(d, IF d = c THEN <<Error>> ELSE <<>>)
    BY <1>5, RefuseTold
  <2> QED BY <1>2, <1>4, <1>5, <2>1
<1>6. ASSUME NEW c \in Conn, ConnStep(c)
      PROVE  Clear(d) /\ (p \in View(Stream(d)) => p \in View(Stream(d))')
  <2>1. CASE RejectFirstFrame(c) \/ \E r \in Room : JoinController(c, r) /\ Refuse(c)
    BY <1>5, <2>1 DEF RejectFirstFrame, JoinController
  <2>2. ASSUME NEW r \in Room, JoinController(c, r), ~Refuse(c)
        PROVE  Clear(d) /\ (p \in View(Stream(d)) => p \in View(Stream(d))')
    <3>1. c # d /\ Controller \in Name
      BY <1>4, <2>2 DEF JoinController, Name
    <3>2. Told(d, <<PeerJoin(Controller)>>) \/ Told(d, <<>>)
      BY <2>2, <3>1, JoinControllerTold
    <3> QED BY <1>1, <1>2, <3>1, <3>2
  <2>3. ASSUME NEW r \in Room, NEW i \in PeerId, JoinDashboard(c, r, i)
        PROVE  Clear(d) /\ (p \in View(Stream(d)) => p \in View(Stream(d))')
    <3>1. c # d /\ i \in Name
      BY <1>4, <2>3 DEF JoinDashboard, Name
    <3>2. Told(d, IF d = c THEN Greeting(IF controller[r] = NoConn THEN <<>> ELSE <<Controller>>)
                  ELSE IF d = controller[r] THEN <<PeerJoin(i)>>
                  ELSE <<>>)
      BY <2>3, JoinDashboardTold
    <3>3. Told(d, <<PeerJoin(i)>>) \/ Told(d, <<>>)
      BY <3>1, <3>2
    <3> QED BY <1>1, <1>2, <3>1, <3>3
  <2>4. CASE RouteSend(c)
    <3> PICK r, e : r = pending[c][1].rcpt /\ e = pending[c][1].env
      OBVIOUS
    <3>1. e \in Envelope /\ e.t \in {"error", "deliver"}
      BY <2>4, RouteSendTold DEF RouteSend, RInv, PendingFaithful
    <3>2. Told(d, IF d = r THEN <<e>> ELSE <<>>)
      BY <2>4, RouteSendTold
    <3>3. Told(d, <<e>>) \/ Told(d, <<>>)
      BY <3>2
    <3> QED BY <1>2, <1>3, <3>1, <3>3
  <2>5. CASE StreamEnd(c)
    BY <1>2, <2>5, NothingTold DEF StreamEnd, outgoing
  <2>6. CASE Cleanup(c)
    <3> PICK q : q = ident[c].id
      OBVIOUS
    <3>1. q \in Name
      BY DEF TypeOK, Ident
    <3>2. Told(d, IF d \in LeaveAudience(c) THEN <<PeerLeave(q)>> ELSE <<>>)
      BY <2>6, CleanupTold
    <3>3. CASE d \in LeaveAudience(c)
      <4>1. q # p
        BY <2>6, <3>3
      <4>2. Clear(d) /\ View(Stream(d))' = View(Stream(d)) \ {q}
        BY <3>1, <3>2, <3>3, ToldView
      <4> QED BY <4>1, <4>2
    <3>4. CASE d \notin LeaveAudience(c)
      BY <1>2, <3>2, <3>4
    <3> QED BY <3>3, <3>4
  <2>7. CASE WriterSend(c) \/ SocketBreaks(c)
    BY <1>2, <2>7, WriterTold DEF SocketBreaks
  <2> QED BY <1>6, <2>1, <2>2, <2>3, <2>4, <2>5, <2>6, <2>7 DEF ConnStep
<1>7. ASSUME NEW c \in Conn, ClientMsg(c)
      PROVE  Clear(d) /\ (p \in View(Stream(d)) => p \in View(Stream(d))')
  BY <1>2, <1>7, NothingTold DEF ClientMsg, RouteLookup, outgoing
<1>8. CASE UNCHANGED vars
  BY <1>2, <1>8, NothingTold DEF vars, relayVars
<1> QED BY <1>6, <1>7, <1>8 DEF Next

\* The recipient of a message that a handler holds believes its sender present.
HeldAnnounced ==
  \A a \in Conn : pending[a] # <<>> =>
    /\ phase[a] = "routing"
    /\ LET d == pending[a][1].rcpt
       IN  Clear(d) /\ IsController(a) # IsController(d) /\ ~NameShared(a)
             => ident[a].id \in View(Stream(d))

\* A name that is shared stays so.
LEMMA SharedKept ==
  ASSUME Settled, NEW a \in Conn, HasJoined(a), NameShared(a)
  PROVE  NameShared(a)'
<1>1. PICK d \in Conn \ {a} : HasJoined(d) /\ ident[d] = ident[a]
  BY DEF NameShared
<1>2. HasJoined(d)' /\ ident'[d] = ident[d] /\ ident'[a] = ident[a]
  BY <1>1 DEF Settled
<1> QED BY <1>1, <1>2 DEF NameShared

\* A handler that holds a message sends it before anything else happens to it.
LEMMA HoldersRoute ==
  ASSUME TypeOK, [Next]_vars, NEW a \in Conn, phase[a] = "routing", pending[a] # <<>>
  PROVE  phase'[a] = "routing"
<1>1. ASSUME NEW c \in Conn, ConnStep(c) PROVE phase'[a] = "routing"
  <2>1. CASE Refuse(c) /\ phase[c] = "joining"
    BY <2>1 DEF Refuse, TypeOK
  <2>2. CASE RejectFirstFrame(c)
    BY <2>1, <2>2 DEF RejectFirstFrame
  <2>3. ASSUME NEW r \in Room, JoinController(c, r) PROVE phase'[a] = "routing"
    BY <2>1, <2>3 DEF JoinController, TypeOK
  <2>4. ASSUME NEW r \in Room, NEW p \in PeerId, JoinDashboard(c, r, p) PROVE phase'[a] = "routing"
    BY <2>4 DEF JoinDashboard, TypeOK
  <2>5. CASE StreamEnd(c)
    <3>1. c # a
      BY <2>5 DEF StreamEnd
    <3> QED BY <2>5, <3>1 DEF StreamEnd, TypeOK
  <2>6. CASE Cleanup(c)
    <3>1. c # a /\ phase' = [phase EXCEPT ![c] = "gone"]
      BY <2>6 DEF Cleanup
    <3> QED BY <3>1 DEF TypeOK
  <2>7. CASE RouteSend(c) \/ WriterSend(c) \/ SocketBreaks(c)
    BY <2>7 DEF RouteSend, WriterSend, SocketBreaks, WriterFail, handlers
  <2> QED BY <1>1, <2>2, <2>3, <2>4, <2>5, <2>6, <2>7 DEF ConnStep
<1>2. ASSUME NEW c \in Conn, ClientMsg(c) PROVE phase'[a] = "routing"
  BY <1>2 DEF ClientMsg, RouteLookup
<1>3. CASE UNCHANGED vars
  BY <1>3 DEF vars, relayVars
<1> QED BY <1>1, <1>2, <1>3 DEF Next

\* Who leaves while a handler holds a message is not taken for its sender.
LEMMA LeaverIsOther ==
  ASSUME TypeOK, RegistryConsistent, RInv, NamedByRole, HeldIsOwn,
         NEW a \in Conn, pending[a] # <<>>, phase[a] = "routing", ~NameShared(a),
         NEW d \in Conn, d = pending[a][1].rcpt, IsController(a) # IsController(d),
         NEW c \in Conn, Cleanup(c), d \in LeaveAudience(c)
  PROVE  ident[c].id # ident[a].id
<1>1. HasJoined(a) /\ HasJoined(c) /\ c # a
  BY DEF Cleanup, HasJoined
<1>2. ident[c] \in Ident /\ ident[a] \in Ident
  BY DEF TypeOK
<1>3. ident[a].room = ident[d].room
  BY DEF RInv, PendingFaithful, Faithful, HeldIsOwn
<1>4. ident[c].room = ident[d].room
  <2> PICK r : r = ident[c].room
    OBVIOUS
  <2>1. r \in Room
    BY <1>2 DEF Ident
  <2>2. d \in DashboardConn(r) \/ d = controller[r]
    BY DEF LeaveAudience
  <2> QED BY <2>1, <2>2, Entries
<1>5. ASSUME ident[c].id = ident[a].id PROVE FALSE
  <2>1. IsController(c) <=> IsController(a)
    <3> PICK r : r = ident[c].room
      OBVIOUS
    <3>1. r \in Room
      BY <1>2 DEF Ident
    <3>2. CASE IsController(c)
      <4>1. d \in DashboardConn(r)
        BY <3>2 DEF LeaveAudience, IsController
      <4>2. ~IsController(d)
        BY <3>1, <4>1, Entries
      <4> QED BY <3>2, <4>2 DEF IsController
    <3>3. CASE ~IsController(c)
      <4>1. d = controller[r]
        BY <3>3 DEF LeaveAudience, IsController
      <4>2. IsController(d)
        BY <3>1, <4>1, Entries
      <4> QED BY <3>3, <4>2 DEF IsController
    <3> QED BY <3>2, <3>3
  <2>2. ident[c].role = ident[a].role
    BY <1>2, <2>1 DEF IsController, Ident
  <2>3. ident[c] = ident[a]
    BY <1>2, <1>3, <1>4, <1>5, <2>2 DEF Ident
  <2> QED BY <1>1, <2>3 DEF NameShared
<1> QED BY <1>5

\* A recipient that is looked up believes the sender present: both are registered.
LEMMA LookupAnnounced ==
  ASSUME TypeOK, RegistryConsistent, RInv, NamedByRole, DashboardsKept,
         ControllersTold, DashboardsTold,
         NEW a \in Conn, phase[a] = "routing", ~NameShared(a), NEW to \in Name,
         NEW d, d = Lookup(ident[a].room, to), Clear(d), IsController(a) # IsController(d)
  PROVE  ident[a].id \in View(Stream(d))
<1> PICK r, p : r = ident[a].room /\ p = ident[a].id
  OBVIOUS
<1>1. r \in Room /\ d \in Conn /\ Live(a) /\ HasJoined(a) /\ NoConn \notin Conn
  BY RelayAssumption DEF TypeOK, Ident, Live, HasJoined, Clear
<1>3. CASE IsController(a)
  <2>1. p = Controller /\ controller[r] = a
    BY <1>1, <1>3 DEF NamedByRole, RegistryConsistent
  <2>2. to \in PeerId /\ d = dashboards[r][to]
    BY <1>3, <2>1 DEF Lookup, Name
  <2>3. View(Stream(d)) = {Controller}
    BY <1>1, <2>1, <2>2 DEF DashboardsTold
  <2> QED BY <2>1, <2>3
<1>4. CASE ~IsController(a)
  <2>1. p \in PeerId /\ dashboards[r][p] = a
    BY <1>1, <1>4 DEF NamedByRole, DashboardsKept
  <2>2. d = controller[r]
    <3>1. ASSUME to # Controller PROVE FALSE
      <4>1. to \in PeerId /\ d = dashboards[r][to]
        BY <3>1 DEF Lookup, Name
      <4>2. ~IsController(d)
        BY <1>1, <4>1, Entries
      <4>3. IsController(a) \in BOOLEAN /\ IsController(d) \in BOOLEAN
        BY DEF IsController
      <4> QED BY <1>4, <4>2, <4>3
    <3> QED BY <3>1 DEF Lookup
  <2>3. View(Stream(d)) = Present(r)
    BY <1>1, <2>2 DEF ControllersTold
  <2>4. p \in Present(r)
    BY <1>1, <2>1 DEF Present
  <2> QED BY <2>3, <2>4
<1> QED BY <1>3, <1>4

\* HeldAnnounced is kept by every step.
LEMMA StepHeld ==
  ASSUME TypeOK, RegistryConsistent, RInv, NamedByRole, DashboardsKept, HeldIsOwn,
         ControllersTold, DashboardsTold, HeldAnnounced, [Next]_vars
  PROVE  HeldAnnounced'
<1>0. Settled
  BY StepSettled
<1> SUFFICES ASSUME NEW a \in Conn, pending'[a] # <<>>
             PROVE  /\ phase'[a] = "routing"
                    /\ \A d : d = pending'[a][1].rcpt /\ Clear(d)'
                              /\ IsController(a)' # IsController(d)' /\ ~NameShared(a)'
                         => ident'[a].id \in View(Stream(d))'
  BY DEF HeldAnnounced
<1>1. CASE pending'[a] = pending[a]
  <2>1. phase[a] = "routing" /\ phase'[a] = "routing" /\ HasJoined(a)
    BY <1>1, HoldersRoute DEF HeldAnnounced, HasJoined
  <2>2. ASSUME NEW d, d = pending[a][1].rcpt, Clear(d)', IsController(a)' # IsController(d)', ~NameShared(a)'
        PROVE  ident'[a].id \in View(Stream(d))'
    <3>1. d \in Conn /\ HasJoined(d)
      BY <1>1, <2>2 DEF Clear, RInv, PendingFaithful, Faithful
    <3>2. ident'[a] = ident[a] /\ ident'[d] = ident[d]
      BY <1>0, <2>1, <3>1 DEF Settled
    <3>3. IsController(a) # IsController(d) /\ ~NameShared(a)
      BY <1>0, <2>1, <2>2, <3>2, SharedKept DEF IsController
    <3> PICK p : p = ident[a].id
      OBVIOUS
    <3>4. p \in Name
      BY DEF TypeOK, Ident
    <3>5. \A c \in Conn : Cleanup(c) /\ d \in LeaveAudience(c) => ident[c].id # p
      BY <1>1, <2>1, <2>2, <3>1, <3>3, LeaverIsOther
    <3>6. Clear(d) /\ (p \in View(Stream(d)) => p \in View(Stream(d))')
      BY <2>2, <3>1, <3>4, <3>5, BeliefKept
    <3>7. p \in View(Stream(d))
      BY <1>1, <2>2, <3>3, <3>6 DEF HeldAnnounced
    <3> QED BY <3>2, <3>6, <3>7
  <2> QED BY <1>1, <2>1, <2>2
<1>2. CASE ClientMsg(a)
  <2>1. PICK to \in Name : RouteLookup(a, to, [src |-> a, to |-> to, n |-> sent + 1])
    BY <1>2 DEF ClientMsg
  <2> PICK d : d = Lookup(ident[a].room, to)
    OBVIOUS
  <2>2. phase[a] = "routing" /\ phase' = phase /\ ident' = ident /\ UNCHANGED outgoing
    BY <2>1 DEF RouteLookup
  <2>3. pending'[a][1].rcpt = d
    BY <2>1 DEF RouteLookup, TypeOK
  <2>4. ASSUME Clear(d)', IsController(a)' # IsController(d)', ~NameShared(a)'
        PROVE  ident'[a].id \in View(Stream(d))'
    <3>1. Clear(d) /\ Stream(d)' = Stream(d)
      BY <2>2, <2>4 DEF Clear, Stream, outgoing
    <3>2. IsController(a) # IsController(d) /\ ~NameShared(a)
      BY <2>2, <2>4 DEF IsController, NameShared, HasJoined
    <3>3. ident[a].id \in View(Stream(d))
      BY <1>0, <2>2, <3>1, <3>2, LookupAnnounced
    <3>4. View(Stream(d))' = View(Stream(d))
      BY <3>1 DEF View
    <3> QED BY <2>2, <3>3, <3>4
  <2> QED BY <2>2, <2>3, <2>4
<1>3. pending'[a] = pending[a] \/ ClientMsg(a)
  BY HeldSteps
<1> QED BY <1>1, <1>2, <1>3

\* How a stream changes: it goes on, or (the writer stopped) loses its end.
LEMMA StreamGrows ==
  ASSUME TypeOK, NEW c \in Conn, Streaming(c)
  PROVE  \E s \in Seq(Envelope) : \/ Stream(c)' = Stream(c) \o s
                                  \/ Stream(c)' \in Seq(Envelope) /\ Stream(c) = Stream(c)' \o s
<1>1. socket[c] \in Seq(Envelope) /\ queue[c] \in Seq(Envelope) /\ <<>> \in Seq(Envelope)
  BY DEF TypeOK
<1>2. ASSUME NEW s \in Seq(Envelope), socket'[c] = socket[c], queue'[c] = queue[c] \o Accepted(c, s)
      PROVE  \E t \in Seq(Envelope) : Stream(c)' = Stream(c) \o t
  <2> PICK t : t = Accepted(c, s)
    OBVIOUS
  <2>1. t \in Seq(Envelope)
    BY RelayTypes, AcceptedType
  <2>2. Stream(c)' = socket[c] \o (queue[c] \o t)
    BY <1>2 DEF Stream
  <2>3. (socket[c] \o queue[c]) \o t = socket[c] \o (queue[c] \o t)
    BY <1>1, <2>1, Regroup
  <2> QED BY <2>1, <2>2, <2>3 DEF Stream
<1>3. ASSUME Stream(c)' = Stream(c) PROVE \E t \in Seq(Envelope) : Stream(c)' = Stream(c) \o t
  BY <1>1, <1>3, StreamType, ConcatEmptySeq
<1>4. CASE Answered(c)
  BY <1>2, <1>4 DEF Answered
<1>5. CASE Notified(c)
  BY <1>2, <1>3, <1>5 DEF Notified, Stream
<1>6. CASE WriterGone(c)
  <2>1. Stream(c)' = socket[c]
    BY <1>1, <1>6, ConcatEmptySeq DEF WriterGone, Stream
  <2> QED BY <1>1, <2>1 DEF Stream
<1>7. CASE Written(c)
  BY <1>3, <1>7, WrittenStream
<1> QED BY <1>4, <1>5, <1>6, <1>7 DEF Streaming

\* What comes before an envelope that was there stays.
LEMMA BeforeKept ==
  ASSUME NEW a \in Seq(Envelope), NEW b \in Seq(Envelope), NEW i \in DOMAIN a
  PROVE  SubSeq(a \o b, 1, i - 1) = SubSeq(a, 1, i - 1)
<1>1. Len(a) \in Nat /\ i \in 1..Len(a)
  BY LenProperties
<1>2. CASE i = 1
  <2>1. i - 1 \in Int /\ i - 1 < 1 /\ 1 \in Int
    BY <1>2
  <2> QED BY <2>1, SubSeqEmpty
<1>3. CASE i # 1
  <2>1. 1 \in 1..Len(a) /\ i - 1 \in 1..Len(a)
    BY <1>1, <1>3
  <2> QED BY <2>1, SubSeqOfConcat1
<1> QED BY <1>2, <1>3

\* A connection whose queue overflowed stays known as such.
LEMMA LostKept ==
  ASSUME TypeOK, [Next]_vars, NEW c \in Conn, lost[c]
  PROVE  lost'[c]
<1>0. \A mail : Send(mail) => lost'[c]
  BY DEF Send
<1>1. ASSUME NEW a \in Conn, ConnStep(a) PROVE lost'[c]
  <2>1. CASE Refuse(a)
    BY <1>0, <2>1 DEF Refuse
  <2>2. CASE RejectFirstFrame(a) \/ \E r \in Room : JoinController(a, r)
    BY <1>0, <2>1, <2>2 DEF RejectFirstFrame, JoinController
  <2>3. CASE \E r \in Room, p \in PeerId : JoinDashboard(a, r, p)
    BY <1>0, <2>3 DEF JoinDashboard
  <2>4. CASE RouteSend(a)
    BY <1>0, <2>4 DEF RouteSend
  <2>5. CASE Cleanup(a)
    BY <2>5 DEF Cleanup
  <2>6. CASE StreamEnd(a) \/ WriterSend(a) \/ SocketBreaks(a)
    BY <2>6 DEF StreamEnd, WriterSend, SocketBreaks, WriterFail, outgoing
  <2> QED BY <1>1, <2>2, <2>3, <2>4, <2>5, <2>6 DEF ConnStep
<1>2. ASSUME NEW a \in Conn, ClientMsg(a) PROVE lost'[c]
  BY <1>2 DEF ClientMsg, RouteLookup, outgoing
<1>3. CASE UNCHANGED vars
  BY <1>3 DEF vars, relayVars
<1> QED BY <1>1, <1>2, <1>3 DEF Next

\* A message that arrives is put at the end of a stream that misses nothing.
LEMMA ArrivesWhole ==
  ASSUME TypeOK, NEW a \in Conn, NEW c \in Conn, NEW i, i \in DOMAIN Stream(c)', Arrives(a, c, i), ~lost'[c]
  PROVE  /\ Clear(c) /\ Clear(c)' /\ Stream(c)' = Stream(c) \o <<pending[a][1].env>>
         /\ SubSeq(Stream(c)', 1, i - 1) = Stream(c)
<1> PICK e : e = pending[a][1].env
  OBVIOUS
<1>0. /\ RouteSend(a) /\ c = pending[a][1].rcpt /\ i = Len(Stream(c)) + 1 /\ writer' = writer
      /\ queue'[c] = queue[c] \o Accepted(c, <<e>>) /\ socket' = socket
  BY DEF Arrives, RouteSend, Send, MailTo
<1>1. Stream(c) \in Seq(Envelope) /\ Len(Stream(c)) \in Nat
  BY StreamType, LenProperties
<1>2. writer[c] = "running"
  <2>1. ASSUME writer[c] = "stopped" PROVE FALSE
    <3>1. queue'[c] = queue[c]
      BY <1>0, <2>1, ConcatEmptySeq DEF Accepted, TypeOK
    <3>2. Stream(c)' = Stream(c)
      BY <1>0, <3>1 DEF Stream
    <3>3. i \in 1..Len(Stream(c))
      BY <1>1, <3>2, LenProperties
    <3> QED BY <1>0, <1>1, <3>3
  <2> QED BY <2>1 DEF TypeOK
<1>3. Clear(c)'
  BY <1>0, <1>2 DEF Clear
<1>4. e \in Envelope /\ Told(c, <<e>>)
  BY <1>0, RouteSendTold
<1>5. Clear(c) /\ Stream(c)' = Stream(c) \o <<e>>
  BY <1>3, <1>4 DEF Told
<1>6. SubSeq(Stream(c)', 1, i - 1) = Stream(c)
  <2> PICK s : s = Stream(c)
    OBVIOUS
  <2>1. <<e>> \in Seq(Envelope) /\ Len(<<e>>) = 1
    BY <1>4
  <2>2. SubSeq(s \o <<e>>, 1, Len(s)) = s
    <3>1. CASE Len(s) = 0
      <4>1. 1 \in Int /\ Len(s) \in Int /\ Len(s) < 1
        BY <3>1
      <4>2. s = <<>>
        BY <1>1, <3>1, EmptySeq
      <4> QED BY <4>1, <4>2, SubSeqEmpty
    <3>2. CASE Len(s) # 0
      <4>1. 1 \in 1..Len(s) /\ Len(s) \in 1..Len(s)
        BY <1>1, <3>2
      <4>2. SubSeq(s \o <<e>>, 1, Len(s)) = SubSeq(s, 1, Len(s))
        BY <1>1, <2>1, <4>1, SubSeqOfConcat1
      <4> QED BY <1>1, <4>2, SubSeqFull
    <3> QED BY <3>1, <3>2
  <2>3. i - 1 = Len(s)
    BY <1>0, <1>1
  <2> QED BY <1>5, <2>2, <2>3
<1> QED BY <1>3, <1>5, <1>6

\* AnnouncedBeforeDelivered is kept by every step.
LEMMA StepAnnounced ==
  ASSUME TypeOK, RegistryConsistent, RInv, \A b \in Conn : AckInv(b), HeldIsOwn, HeldAnnounced,
         AnnouncedBeforeDelivered, [Next]_vars
  PROVE  AnnouncedBeforeDelivered'
<1>0. Settled
  BY StepSettled
<1> SUFFICES ASSUME NEW c \in Conn, ~lost'[c], NEW i \in DOMAIN Stream(c)', NEW e, e = Stream(c)'[i],
                    e.t = "deliver", IsController(c)' # IsController(e.data.src)',
                    ~NameShared(e.data.src)'
             PROVE  e.from \in View(SubSeq(Stream(c)', 1, i - 1))
  BY DEF AnnouncedBeforeDelivered
<1> PICK a : a = e.data.src
  OBVIOUS
<1>1. Streaming(c) /\ MessagesMove(c) /\ ~lost[c]
  BY StepStreams, StreamingMoves, LostKept
<1>2. CASE i \in DOMAIN Stream(c) /\ Stream(c)'[i] = Stream(c)[i]
  <2>1. e = Stream(c)[i] /\ Faithful(c, e)
    <3>1. Faithful(c, Stream(c)[i])
      BY <1>2, StreamElements DEF RInv, QueuedFaithful, SocketFaithful
    <3> QED BY <1>2, <3>1
  <2>2. HasJoined(c) /\ HasJoined(a) /\ a \in Conn
    <3>1. e \in Envelope
      BY <1>2, <2>1, StreamType, ElementOfSeq, LenProperties
    <3>2. e.data \in Data
      BY <3>1 DEF Envelope, Joined, Error
    <3> QED BY <2>1, <3>2 DEF Faithful, Data
  <2>3. ident'[c] = ident[c] /\ ident'[a] = ident[a]
    BY <1>0, <2>2 DEF Settled
  <2>4. IsController(c) # IsController(a) /\ ~NameShared(a)
    BY <1>0, <2>2, <2>3, SharedKept DEF IsController
  <2>5. e.from \in View(SubSeq(Stream(c), 1, i - 1))
    BY <1>1, <1>2, <2>1, <2>4 DEF AnnouncedBeforeDelivered
  <2>6. SubSeq(Stream(c)', 1, i - 1) = SubSeq(Stream(c), 1, i - 1)
    <3>1. PICK s \in Seq(Envelope) : \/ Stream(c)' = Stream(c) \o s
                                     \/ Stream(c)' \in Seq(Envelope) /\ Stream(c) = Stream(c)' \o s
      BY <1>1, StreamGrows
    <3> QED BY <1>2, <3>1, StreamType, BeforeKept
  <2> QED BY <2>5, <2>6
<1>3. ASSUME NEW b \in Conn, Arrives(b, c, i) PROVE e.from \in View(SubSeq(Stream(c)', 1, i - 1))
  <2>1. /\ pending[b] # <<>> /\ pending[b][1].rcpt = c /\ e = pending[b][1].env /\ a = b
        /\ ident' = ident /\ phase' = phase
    BY <1>3 DEF Arrives, RouteSend, HeldIsOwn
  <2>2. IsController(c) # IsController(a) /\ ~NameShared(a)
    BY <2>1 DEF IsController, NameShared, HasJoined
  <2>3. Clear(c) /\ SubSeq(Stream(c)', 1, i - 1) = Stream(c)
    BY <1>3, ArrivesWhole
  <2>4. ident[a].id \in View(Stream(c))
    BY <2>1, <2>2, <2>3 DEF HeldAnnounced
  <2>5. e.from = ident[a].id
    BY <2>1 DEF RInv, PendingFaithful, Faithful
  <2> QED BY <2>3, <2>4, <2>5
<1> QED BY <1>1, <1>2, <1>3 DEF MessagesMove

\* Between the controller and a dashboard no message comes before the notice that
\* its sender is there or after the notice that it left, although it is sent after
\* the lock is released.
THEOREM Announced == Spec => []AnnouncedBeforeDelivered
<1> DEFINE AInv == \A c \in Conn : AckInv(c)
<1>1. Init => AInv
  BY DEF Init, RelayInit, AckInv, AckAt, Stream
<1>2. Init => RInv
  BY DEF Init, RelayInit, RInv, Named, QueuedFaithful, SocketFaithful, PendingFaithful,
         HasJoined
<1>3. Init => NamedByRole /\ DashboardsKept
  BY DEF Init, RelayInit, NamedByRole, DashboardsKept, HasJoined, Live
<1>4. Init => DInv /\ HeldAnnounced /\ AnnouncedBeforeDelivered
  BY DEF Init, RelayInit, DInv, DeliveredOnce, NumbersRead, HeldIsOwn, HeldIsApart, Stream,
         HeldAnnounced, AnnouncedBeforeDelivered
<1>5. TypeOK /\ RegistryConsistent /\ RInv /\ AInv /\ [Next]_vars => AInv'
  BY StepAck
<1>6. TypeOK /\ RegistryConsistent /\ RInv /\ AInv /\ DInv /\ [Next]_vars => DInv'
  BY StepDelivery
<1>7. /\ TypeOK /\ RegistryConsistent /\ RInv /\ NamedByRole /\ AInv
      /\ ControllersTold /\ DashboardsTold /\ [Next]_vars
      => ControllersTold' /\ DashboardsTold'
  BY StepPresence
<1>8. /\ TypeOK /\ RegistryConsistent /\ RInv /\ NamedByRole /\ DashboardsKept /\ DInv
      /\ ControllersTold /\ DashboardsTold /\ HeldAnnounced /\ [Next]_vars
      => HeldAnnounced'
  BY StepHeld DEF DInv
<1>9. /\ TypeOK /\ RegistryConsistent /\ RInv /\ AInv /\ DInv /\ HeldAnnounced
      /\ AnnouncedBeforeDelivered /\ [Next]_vars
      => AnnouncedBeforeDelivered'
  BY StepAnnounced DEF DInv
<1> HIDE DEF AInv
<1> QED BY <1>1, <1>2, <1>3, <1>4, <1>5, <1>6, <1>7, <1>8, <1>9, InitPresence, StepReach,
           StepRouting, TypeCorrect, RegistryAgrees, PTL DEF Spec

=============================================================================
