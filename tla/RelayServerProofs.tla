-------------------------- MODULE RelayServerProofs --------------------------
(***************************************************************************)
(* Lemmas about the relay's own steps, whatever the envelopes carry: E is  *)
(* a set of envelopes that includes the relay's notices.                   *)
(***************************************************************************)
EXTENDS RelayServer, FiniteSetTheorems, SequenceTheorems, TLAPS

-----------------------------------------------------------------------------
(* Well-typed states.                                                      *)

Notices == {Joined, Error} \cup [t : {"peer_join", "peer_leave"}, peer : Name]

Packages(E) == [rcpt : Conn, env : E]

RegistryOK ==
  /\ controller \in [Room -> Conn \cup {NoConn}]
  /\ dashboards \in [Room -> [PeerId -> Conn \cup {NoConn}]]

HandlersOK ==
  /\ phase \in [Conn -> {"joining", "refused", "routing", "leaving", "gone"}]
  /\ ident \in [Conn -> Ident]

HeldOK(E) == pending \in [Conn -> Seq(Packages(E))]

QueuesOK(E) ==
  /\ queue \in [Conn -> Seq(E)]
  /\ writer \in [Conn -> {"running", "stopped"}]
  /\ socket \in [Conn -> Seq(E)]
  /\ lost \in [Conn -> BOOLEAN]
  /\ \A c \in Conn : Len(queue[c]) <= Cap /\ (writer[c] = "stopped" => queue[c] = <<>>)

RegistryTyped == RegistryOK /\ HandlersOK
RelayTyped(E) == Notices \subseteq E /\ RegistryTyped /\ HeldOK(E) /\ QueuesOK(E)

\* The envelopes the relay builds by itself.
LEMMA NoticeTypes ==
  ASSUME NEW E, Notices \subseteq E
  PROVE  /\ Joined \in E /\ Error \in E
         /\ \A p \in Name : PeerJoin(p) \in E /\ PeerLeave(p) \in E
BY DEF Notices, Joined, Error, PeerJoin, PeerLeave

\* A queue takes a prefix of what it is offered, and never more than it has
\* room for.
LEMMA AcceptedPrefix ==
  ASSUME NEW E, NEW c \in Conn, NEW S, NEW s \in Seq(S), RelayTyped(E)
  PROVE  /\ Accepted(c, s) \in Seq(S)
         /\ Len(Accepted(c, s)) <= Cap - Len(queue[c])
         /\ writer[c] = "stopped" => Accepted(c, s) = <<>>
         /\ Len(s) = 1 => Accepted(c, s) = <<>> \/ Accepted(c, s) = s
<1>1. queue[c] \in Seq(E) /\ Len(queue[c]) \in Nat /\ Len(queue[c]) <= Cap /\ Cap \in Nat
  BY RelayAssumption DEF RelayTyped, QueuesOK
<1>2. CASE writer[c] = "stopped"
  BY <1>1, <1>2 DEF Accepted
<1>3. CASE writer[c] # "stopped"
  <2> DEFINE k == IF Len(s) <= Cap - Len(queue[c]) THEN Len(s) ELSE Cap - Len(queue[c])
  <2>0. Len(s) \in Nat /\ Cap - Len(queue[c]) \in Nat
    BY <1>1, LenProperties
  <2>1. k \in Nat /\ k <= Len(s) /\ k <= Cap - Len(queue[c])
    BY <2>0
  <2>2. SubSeq(s, 1, k) \in Seq(S) /\ Len(SubSeq(s, 1, k)) = k
        /\ \A i \in 1..k : SubSeq(s, 1, k)[i] = s[i]
    BY <2>1, SubSeqProperties
  <2>3. Accepted(c, s) = SubSeq(s, 1, k)
    BY <1>3 DEF Accepted
  <2>4. ASSUME Len(s) = 1 PROVE Accepted(c, s) = <<>> \/ Accepted(c, s) = s
    <3>1. k = 0 \/ k = 1
      BY <2>1, <2>4
    <3> HIDE DEF k
    <3> QED BY <2>2, <2>3, <2>4, <3>1, SeqEqual, EmptySeq
  <2> QED BY <1>3, <2>1, <2>2, <2>3, <2>4
<1> QED BY <1>2, <1>3

LEMMA AcceptedType ==
  ASSUME NEW E, NEW c \in Conn, NEW s \in Seq(E), RelayTyped(E)
  PROVE  /\ Accepted(c, s) \in Seq(E)
         /\ Len(Accepted(c, s)) <= Cap - Len(queue[c])
         /\ writer[c] = "stopped" => Accepted(c, s) = <<>>
BY AcceptedPrefix

\* Sending well-formed envelopes keeps every queue well formed and within its
\* capacity.
LEMMA SendType ==
  ASSUME NEW E, RelayTyped(E), NEW mail \in [Conn -> Seq(E)], Send(mail)
  PROVE  QueuesOK(E)'
<1>1. ASSUME NEW c \in Conn
      PROVE  /\ queue[c] \o Accepted(c, mail[c]) \in Seq(E)
             /\ Len(queue[c] \o Accepted(c, mail[c])) <= Cap
             /\ writer[c] = "stopped" => queue[c] \o Accepted(c, mail[c]) = <<>>
  <2>1. queue[c] \in Seq(E) /\ mail[c] \in Seq(E)
    BY DEF RelayTyped, RegistryTyped, RegistryOK, HandlersOK, HeldOK, QueuesOK
  <2>2. /\ Accepted(c, mail[c]) \in Seq(E)
        /\ Len(Accepted(c, mail[c])) <= Cap - Len(queue[c])
        /\ writer[c] = "stopped" => Accepted(c, mail[c]) = <<>>
    BY <2>1, AcceptedType
  <2>3. /\ queue[c] \o Accepted(c, mail[c]) \in Seq(E)
        /\ Len(queue[c] \o Accepted(c, mail[c])) = Len(queue[c]) + Len(Accepted(c, mail[c]))
    BY <2>1, <2>2, ConcatProperties
  <2>4. Len(queue[c]) \in Nat /\ Len(Accepted(c, mail[c])) \in Nat /\ Cap \in Nat
    BY <2>1, <2>2, RelayAssumption
  <2>5. writer[c] = "stopped" => queue[c] \o Accepted(c, mail[c]) = <<>>
    <3> SUFFICES ASSUME writer[c] = "stopped" PROVE queue[c] \o Accepted(c, mail[c]) = <<>>
      OBVIOUS
    <3>1. queue[c] = <<>> /\ Accepted(c, mail[c]) = <<>>
      BY <2>2 DEF RelayTyped, RegistryTyped, RegistryOK, HandlersOK, HeldOK, QueuesOK
    <3> QED BY <3>1, ConcatEmptySeq
  <2> QED BY <2>2, <2>3, <2>4, <2>5
<1>2. /\ queue' = [c \in Conn |-> queue[c] \o Accepted(c, mail[c])]
      /\ UNCHANGED <<writer, socket>>
      /\ lost' \in [Conn -> BOOLEAN]
  BY DEF Send, RelayTyped, RegistryTyped, RegistryOK, HandlersOK, HeldOK, QueuesOK
<1> QED BY <1>1, <1>2 DEF QueuesOK, RelayTyped, RegistryOK, HandlersOK, HeldOK

\* Mail to a single connection is well typed.
LEMMA MailToType ==
  ASSUME NEW E, NEW c, NEW s \in Seq(E)
  PROVE  MailTo(c, s) \in [Conn -> Seq(E)]
BY DEF MailTo

\* A greeting that lists names is a sequence of envelopes.
LEMMA GreetingType ==
  ASSUME NEW E, Notices \subseteq E, NEW n \in Nat, NEW ps \in [1..n -> Name]
  PROVE  Greeting(ps) \in Seq(E)
<1>1. \A i \in DOMAIN ps : PeerJoin(ps[i]) \in E
  BY NoticeTypes
<1>2. [i \in DOMAIN ps |-> PeerJoin(ps[i])] \in [1..n -> E]
  BY <1>1
<1>3. [i \in DOMAIN ps |-> PeerJoin(ps[i])] \in Seq(E)
  BY <1>2, SeqDef
<1>4. <<Joined>> \in Seq(E)
  BY NoticeTypes
<1> QED BY <1>3, <1>4, ConcatProperties DEF Greeting

\* A walk of a finite set comes by each of its elements once.
LEMMA WalkParts ==
  ASSUME NEW S, IsFiniteSet(S), NEW order \in SetToSeqs(S)
  PROVE  \E n \in Nat : /\ order \in [1..n -> S]
                        /\ \A y \in S : \E i \in 1..n : order[i] = y
                        /\ \A i, j \in 1..n : order[i] = order[j] => i = j
<1> PICK n : n = Cardinality(S)
  OBVIOUS
<1>1. n \in Nat
  BY FS_CardinalityType
<1>2. order \in [1..n -> S] /\ \A i, j \in 1..n : order[i] = order[j] => i = j
  BY DEF SetToSeqs
<1>3. IsFiniteSet(1..n) /\ Cardinality(1..n) = n
  BY <1>1, FS_Interval
<1>4. order \in Injection(1..n, S)
  BY <1>2 DEF Injection, IsInjective
<1>5. order \in Surjection(1..n, S)
  BY <1>3, <1>4, FS_Injection
<1>6. \A y \in S : \E i \in 1..n : order[i] = y
  BY <1>5 DEF Surjection
<1> QED BY <1>1, <1>2, <1>6

\* Any walk of the registered names yields a well-formed greeting.
LEMMA WalkType ==
  ASSUME NEW E, Notices \subseteq E, NEW r \in Room, NEW order \in SetToSeqs(Present(r))
  PROVE  Greeting(order) \in Seq(E)
<1>1. Present(r) \subseteq PeerId /\ IsFiniteSet(Present(r))
  BY RelayAssumption, FS_Subset DEF Present
<1>2. Cardinality(Present(r)) \in Nat
  BY <1>1, FS_CardinalityType
<1>3. order \in [1..Cardinality(Present(r)) -> Present(r)]
  BY DEF SetToSeqs
<1>4. order \in [1..Cardinality(Present(r)) -> Name]
  BY <1>1, <1>3 DEF Name
<1> QED BY <1>2, <1>4, GreetingType

\* The relay starts well typed.
LEMMA InitType ==
  ASSUME NEW E, Notices \subseteq E, RelayInit
  PROVE  RelayTyped(E)
<1>1. RegistryOK
  BY DEF RelayInit, RegistryOK
<1>2. HandlersOK
  <2>1. (CHOOSE r \in Room : TRUE) \in Room
    BY RelayAssumption
  <2>2. [role |-> "controller", room |-> CHOOSE r \in Room : TRUE, id |-> Controller] \in Ident
    BY <2>1 DEF Ident, Name
  <2>3. phase = [c \in Conn |-> "joining"] /\ pending = [c \in Conn |-> <<>>]
    BY DEF RelayInit
  <2>4. ident \in [Conn -> Ident]
    BY <2>2 DEF RelayInit
  <2> QED BY <2>3, <2>4 DEF HandlersOK
<1>3. QueuesOK(E)
  BY RelayAssumption DEF RelayInit, QueuesOK
<1>4. HeldOK(E)
  BY DEF RelayInit, HeldOK
<1> QED BY <1>1, <1>2, <1>3, <1>4 DEF RelayTyped, RegistryTyped

\* Refusing a connection keeps the state well typed.
LEMMA RefuseType ==
  ASSUME NEW E, RelayTyped(E), NEW c \in Conn, Refuse(c)
  PROVE  RelayTyped(E)'
<1>1. <<Error>> \in Seq(E)
  BY NoticeTypes DEF RelayTyped
<1>2. QueuesOK(E)'
  BY <1>1, MailToType, SendType DEF Refuse
<1>3. RegistryTyped' /\ HeldOK(E)'
  BY DEF Refuse, registry, RelayTyped, RegistryTyped, RegistryOK, HandlersOK, HeldOK, QueuesOK
<1> QED BY <1>2, <1>3 DEF RelayTyped, RegistryTyped, RegistryOK, HandlersOK, HeldOK, QueuesOK

\* A controller's join, accepted or refused, keeps the state well typed.
LEMMA JoinControllerType ==
  ASSUME NEW E, RelayTyped(E), NEW c \in Conn, NEW r \in Room, JoinController(c, r)
  PROVE  RelayTyped(E)'
<1>1. CASE Refuse(c)
  BY <1>1, RefuseType
<1>2. CASE ~Refuse(c)
  <2>1. PICK order \in SetToSeqs(Present(r)) :
          Send([d \in Conn |->
                  IF d = c THEN Greeting(order)
                  ELSE IF d \in DashboardConn(r) THEN <<PeerJoin(Controller)>>
                  ELSE <<>>])
    BY <1>2 DEF JoinController
  <2>2. <<PeerJoin(Controller)>> \in Seq(E) /\ <<>> \in Seq(E)
    BY NoticeTypes DEF RelayTyped, Name
  <2>3. Greeting(order) \in Seq(E)
    BY WalkType DEF RelayTyped
  <2>4. QueuesOK(E)'
    <3> DEFINE mail == [d \in Conn |->
                  IF d = c THEN Greeting(order)
                  ELSE IF d \in DashboardConn(r) THEN <<PeerJoin(Controller)>>
                  ELSE <<>>]
    <3>1. mail \in [Conn -> Seq(E)]
      BY <2>2, <2>3
    <3>2. Send(mail)
      BY <2>1
    <3> HIDE DEF mail
    <3> QED BY <3>1, <3>2, SendType
  <2>5. [role |-> "controller", room |-> r, id |-> Controller] \in Ident
    BY DEF Ident, Name
  <2>6. RegistryOK'
    <3>1. controller' = [controller EXCEPT ![r] = c] /\ dashboards' = dashboards
      BY <1>2 DEF JoinController
    <3> QED BY <3>1 DEF RelayTyped, RegistryTyped, RegistryOK, HandlersOK, HeldOK, QueuesOK
  <2>7. HandlersOK' /\ HeldOK(E)'
    <3>1. /\ phase' = [phase EXCEPT ![c] = "routing"]
          /\ ident' = [ident EXCEPT ![c] = [role |-> "controller", room |-> r, id |-> Controller]]
          /\ pending' = pending
      BY <1>2 DEF JoinController
    <3> DEFINE id == [role |-> "controller", room |-> r, id |-> Controller]
    <3>2. id \in Ident /\ ident' = [ident EXCEPT ![c] = id]
      BY <2>5, <3>1
    <3> HIDE DEF id
    <3> QED BY <3>1, <3>2 DEF RelayTyped, RegistryTyped, RegistryOK, HandlersOK, HeldOK, QueuesOK
  <2> QED BY <2>4, <2>6, <2>7 DEF RelayTyped, RegistryTyped, RegistryOK, HandlersOK, HeldOK, QueuesOK
<1> QED BY <1>1, <1>2

\* A dashboard's join keeps the state well typed.
LEMMA JoinDashboardType ==
  ASSUME NEW E, RelayTyped(E), NEW c \in Conn, NEW r \in Room, NEW p \in PeerId, JoinDashboard(c, r, p)
  PROVE  RelayTyped(E)'
<1> DEFINE mail == [d \in Conn |->
             IF d = c THEN Greeting(IF controller[r] = NoConn THEN <<>> ELSE <<Controller>>)
             ELSE IF d = controller[r] THEN <<PeerJoin(p)>>
             ELSE <<>>]
<1>1. mail \in [Conn -> Seq(E)]
  <2>1. PeerJoin(p) \in E
    BY NoticeTypes DEF RelayTyped, Name
  <2>2. <<>> \in [1..0 -> Name] /\ <<Controller>> \in [1..1 -> Name]
    BY DEF Name
  <2>3. Greeting(IF controller[r] = NoConn THEN <<>> ELSE <<Controller>>) \in Seq(E)
    BY <2>2, GreetingType DEF RelayTyped
  <2> QED BY <2>1, <2>3
<1>2. QueuesOK(E)'
  <2>1. Send(mail)
    BY DEF JoinDashboard
  <2> HIDE DEF mail
  <2> QED BY <1>1, <2>1, SendType
<1>3. [role |-> "dashboard", room |-> r, id |-> p] \in Ident
  BY DEF Ident, Name
<1>4. RegistryOK'
  BY DEF JoinDashboard, RelayTyped, RegistryTyped, RegistryOK, HandlersOK, HeldOK, QueuesOK
<1>5. HandlersOK' /\ HeldOK(E)'
  BY <1>3 DEF JoinDashboard, RelayTyped, RegistryTyped, RegistryOK, HandlersOK, HeldOK, QueuesOK
<1> QED BY <1>2, <1>4, <1>5 DEF RelayTyped, RegistryTyped, RegistryOK, HandlersOK, HeldOK, QueuesOK

\* Looking up a recipient keeps the state well typed.
LEMMA RouteLookupType ==
  ASSUME NEW E, RelayTyped(E), NEW c \in Conn, NEW to \in Name, NEW data,
         Deliver(ident[c].id, data) \in E,
         RouteLookup(c, to, data)
  PROVE  RelayTyped(E)'
<1> DEFINE d == Lookup(ident[c].room, to)
<1>1. ident[c].room \in Room /\ ident[c].id \in Name
  BY DEF RelayTyped, RegistryTyped, RegistryOK, HandlersOK, HeldOK, QueuesOK, Ident
<1>2. d \in Conn \cup {NoConn}
  BY <1>1 DEF Lookup, RelayTyped, RegistryTyped, RegistryOK, HandlersOK, HeldOK, QueuesOK, Name
<1>3. Deliver(ident[c].id, data) \in E
  OBVIOUS
<1>4. pending' = [pending EXCEPT ![c] =
           IF d = NoConn THEN <<>>
           ELSE << [rcpt |-> d, env |-> Deliver(ident[c].id, data)] >>]
  BY DEF RouteLookup
<1>5. (IF d = NoConn THEN <<>> ELSE << [rcpt |-> d, env |-> Deliver(ident[c].id, data)] >>)
        \in Seq(Packages(E))
  <2> HIDE DEF d
  <2>1. CASE d = NoConn
    BY <2>1
  <2>2. CASE d # NoConn
    <3>1. [rcpt |-> d, env |-> Deliver(ident[c].id, data)] \in Packages(E)
      BY <1>2, <1>3, <2>2 DEF Packages
    <3> QED BY <2>2, <3>1
  <2> QED BY <2>1, <2>2
<1>6. pending' \in [Conn -> Seq(Packages(E))]
  <2> HIDE DEF d
  <2> QED BY <1>4, <1>5 DEF RelayTyped, RegistryTyped, RegistryOK, HandlersOK, HeldOK, QueuesOK
<1> QED BY <1>6 DEF RouteLookup, registry, outgoing, RelayTyped, RegistryTyped, RegistryOK, HandlersOK, HeldOK, QueuesOK

\* Sending after the unlock keeps the state well typed.
LEMMA RouteSendType ==
  ASSUME NEW E, RelayTyped(E), NEW c \in Conn, RouteSend(c)
  PROVE  RelayTyped(E)'
<1>1. pending[c] \in Seq(Packages(E)) /\ pending[c] # <<>>
  BY DEF RouteSend, RelayTyped, RegistryTyped, RegistryOK, HandlersOK, HeldOK, QueuesOK
<1>2. pending[c][1] \in Packages(E)
  BY <1>1
<1>3. <<pending[c][1].env>> \in Seq(E)
  BY <1>2 DEF Packages
<1>4. QueuesOK(E)'
  BY <1>3, MailToType, SendType DEF RouteSend
<1>5. RegistryTyped' /\ HeldOK(E)'
  <2>1. pending' = [pending EXCEPT ![c] = <<>>] /\ UNCHANGED <<controller, dashboards, phase, ident>>
    BY DEF RouteSend, registry
  <2> QED BY <2>1 DEF RelayTyped, RegistryTyped, RegistryOK, HandlersOK, HeldOK, QueuesOK
<1> QED BY <1>4, <1>5 DEF RelayTyped, RegistryTyped, RegistryOK, HandlersOK, HeldOK, QueuesOK

\* A connection's cleanup keeps the state well typed.
LEMMA CleanupType ==
  ASSUME NEW E, RelayTyped(E), NEW c \in Conn, Cleanup(c)
  PROVE  RelayTyped(E)'
<1> DEFINE r == ident[c].room
           p == ident[c].id
           notice(d) == IF d \in LeaveAudience(c) THEN Accepted(d, <<PeerLeave(p)>>) ELSE <<>>
<1>1. r \in Room /\ PeerLeave(p) \in E
  BY NoticeTypes DEF RelayTyped, RegistryTyped, RegistryOK, HandlersOK, HeldOK, QueuesOK, Ident
<1>2. ASSUME NEW d \in Conn
      PROVE  /\ notice(d) \in Seq(E)
             /\ Len(notice(d)) <= Cap - Len(queue[d])
             /\ writer[d] = "stopped" => notice(d) = <<>>
  <2>1. <<PeerLeave(p)>> \in Seq(E)
    BY <1>1
  <2>2. Len(queue[d]) \in Nat /\ Len(queue[d]) <= Cap /\ Cap \in Nat
    BY RelayAssumption DEF RelayTyped, RegistryTyped, RegistryOK, HandlersOK, HeldOK, QueuesOK
  <2>3. CASE d \in LeaveAudience(c)
    BY <2>1, <2>3, AcceptedType
  <2>4. CASE d \notin LeaveAudience(c)
    <3>1. notice(d) = <<>> /\ Len(<<>>) = 0
      BY <2>4
    <3>2. <<>> \in Seq(E) /\ 0 <= Cap - Len(queue[d])
      BY <2>2
    <3> HIDE DEF notice
    <3> QED BY <3>1, <3>2
  <2> QED BY <2>3, <2>4
<1>3. /\ phase' = [phase EXCEPT ![c] = "gone"]
      /\ writer' = [writer EXCEPT ![c] = "stopped"]
      /\ queue' = [d \in Conn |-> IF d = c THEN <<>> ELSE queue[d] \o notice(d)]
      /\ lost' = [d \in Conn |-> lost[d] \/
          (d \in LeaveAudience(c) \ {c} /\ writer[d] = "running" /\ notice(d) = <<>>)]
      /\ UNCHANGED <<ident, pending, socket>>
      /\ \/ controller' = WithoutController(r) /\ UNCHANGED dashboards
         \/ dashboards' = [dashboards EXCEPT ![r] = WithoutDashboard(r, p)] /\ UNCHANGED controller
  BY DEF Cleanup
<1> HIDE DEF r, p, notice
<1>4. QueuesOK(E)'
  <2>1. ASSUME NEW d \in Conn
        PROVE  /\ queue[d] \o notice(d) \in Seq(E)
               /\ Len(queue[d] \o notice(d)) <= Cap
               /\ writer[d] = "stopped" => queue[d] \o notice(d) = <<>>
    <3>1. queue[d] \in Seq(E) /\ Len(queue[d]) \in Nat /\ Cap \in Nat
          /\ (writer[d] = "stopped" => queue[d] = <<>>)
      BY RelayAssumption DEF RelayTyped, RegistryTyped, RegistryOK, HandlersOK, HeldOK, QueuesOK
    <3>2. /\ queue[d] \o notice(d) \in Seq(E)
          /\ Len(queue[d] \o notice(d)) = Len(queue[d]) + Len(notice(d))
          /\ Len(notice(d)) \in Nat
      BY <1>2, <3>1, ConcatProperties, LenProperties
    <3>3. writer[d] = "stopped" => queue[d] \o notice(d) = <<>>
      BY <1>2, <3>1, ConcatEmptySeq
    <3> QED BY <1>2, <3>1, <3>2, <3>3
  <2>2. ASSUME NEW d \in Conn
        PROVE  /\ queue'[d] \in Seq(E) /\ Len(queue'[d]) <= Cap
               /\ writer'[d] = "stopped" => queue'[d] = <<>>
    <3>1. CASE d = c
      BY <1>3, <3>1, RelayAssumption DEF RelayTyped, RegistryTyped, RegistryOK, HandlersOK, HeldOK, QueuesOK
    <3>2. CASE d # c
      <4>1. queue'[d] = queue[d] \o notice(d) /\ writer'[d] = writer[d]
        BY <1>3, <3>2 DEF RelayTyped, RegistryTyped, RegistryOK, HandlersOK, HeldOK, QueuesOK
      <4>2. queue[d] \o notice(d) \in Seq(E) /\ Len(queue[d] \o notice(d)) <= Cap
        BY <2>1
      <4>3. writer[d] = "stopped" => queue[d] \o notice(d) = <<>>
        BY <2>1
      <4> QED BY ONLY <4>1, <4>2, <4>3
    <3> QED BY <3>1, <3>2
  <2>3. queue' \in [Conn -> Seq(E)]
    <3>1. queue' = [d \in Conn |-> queue'[d]]
      BY <1>3
    <3> QED BY <2>2, <3>1
  <2>4. lost' \in [Conn -> BOOLEAN]
    BY <1>3 DEF RelayTyped, RegistryTyped, RegistryOK, HandlersOK, HeldOK, QueuesOK
  <2>5. writer' \in [Conn -> {"running", "stopped"}] /\ socket' \in [Conn -> Seq(E)]
    BY <1>3 DEF RelayTyped, RegistryTyped, RegistryOK, HandlersOK, HeldOK, QueuesOK
  <2> QED BY <2>2, <2>3, <2>4, <2>5 DEF QueuesOK
<1>5. RegistryOK'
  <2>1. WithoutController(r) \in [Room -> Conn \cup {NoConn}]
    BY DEF WithoutController, RelayTyped, RegistryTyped, RegistryOK, HandlersOK, HeldOK, QueuesOK
  <2>2. WithoutDashboard(r, p) \in [PeerId -> Conn \cup {NoConn}]
    BY <1>1 DEF WithoutDashboard, RelayTyped, RegistryTyped, RegistryOK, HandlersOK, HeldOK, QueuesOK
  <2> QED BY <1>3, <2>1, <2>2 DEF RelayTyped, RegistryTyped, RegistryOK, HandlersOK, HeldOK, QueuesOK
<1>6. HandlersOK' /\ HeldOK(E)'
  BY <1>3 DEF RelayTyped, RegistryTyped, RegistryOK, HandlersOK, HeldOK, QueuesOK
<1> QED BY <1>4, <1>5, <1>6 DEF RelayTyped, RegistryTyped, RegistryOK, HandlersOK, HeldOK, QueuesOK

\* The writer task keeps the state well typed, sending or failing.
LEMMA WriterType ==
  ASSUME NEW E, RelayTyped(E), NEW c \in Conn, WriterSend(c) \/ WriterFail(c)
  PROVE  RelayTyped(E)'
<1>1. queue[c] \in Seq(E) /\ queue[c] # <<>> /\ Len(queue[c]) <= Cap
  BY DEF WriterSend, WriterFail, RelayTyped, RegistryTyped, RegistryOK, HandlersOK, HeldOK, QueuesOK
<1>2. /\ Head(queue[c]) \in E /\ Tail(queue[c]) \in Seq(E)
      /\ Len(Tail(queue[c])) <= Cap
  <2>1. Len(Tail(queue[c])) = Len(queue[c]) - 1 /\ Len(queue[c]) \in Nat
    BY <1>1, HeadTailProperties, LenProperties
  <2> QED BY <1>1, <2>1, HeadTailProperties, RelayAssumption
<1>3. QueuesOK(E)'
  <2>1. CASE WriterSend(c)
    <3>1. socket' \in [Conn -> Seq(E)]
      BY <1>2, <2>1 DEF WriterSend, RelayTyped, RegistryTyped, RegistryOK, HandlersOK, HeldOK, QueuesOK
    <3>2. queue' \in [Conn -> Seq(E)] /\ \A d \in Conn : Len(queue'[d]) <= Cap
      BY <1>2, <2>1 DEF WriterSend, RelayTyped, RegistryTyped, RegistryOK, HandlersOK, HeldOK, QueuesOK
    <3>3. \A d \in Conn : writer'[d] = "stopped" => queue'[d] = <<>>
      BY <2>1 DEF WriterSend, RelayTyped, RegistryTyped, RegistryOK, HandlersOK, HeldOK, QueuesOK
    <3> QED BY <2>1, <3>1, <3>2, <3>3 DEF WriterSend, RelayTyped, RegistryTyped, RegistryOK, HandlersOK, HeldOK, QueuesOK
  <2>2. CASE WriterFail(c)
    BY <2>2, RelayAssumption DEF WriterFail, RelayTyped, RegistryTyped, RegistryOK, HandlersOK, HeldOK, QueuesOK
  <2> QED BY <2>1, <2>2
<1>4. RegistryTyped' /\ HeldOK(E)'
  BY DEF WriterSend, WriterFail, registry, handlers, RelayTyped, RegistryTyped, RegistryOK, HandlersOK, HeldOK, QueuesOK
<1> QED BY <1>3, <1>4 DEF RelayTyped, RegistryTyped, RegistryOK, HandlersOK, HeldOK, QueuesOK

\* The end of a stream, and a step of others, keep the state well typed.
LEMMA StreamEndType ==
  ASSUME NEW E, RelayTyped(E), NEW c \in Conn, StreamEnd(c)
  PROVE  RelayTyped(E)'
BY DEF StreamEnd, registry, outgoing, RelayTyped, RegistryTyped, RegistryOK, HandlersOK, HeldOK, QueuesOK

LEMMA UnchangedType ==
  ASSUME NEW E, RelayTyped(E), UNCHANGED relayVars
  PROVE  RelayTyped(E)'
BY DEF relayVars, RelayTyped, RegistryTyped, RegistryOK, HandlersOK, HeldOK, QueuesOK

-----------------------------------------------------------------------------
(* The registry and the handlers agree.                                    *)

\* The two halves of RegistryConsistent.
SlotOwned ==
  \A r \in Room, c \in Conn :
    controller[r] = c <=> Live(c) /\ IsController(c) /\ ident[c].room = r
NamesLive ==
  \A r \in Room, p \in PeerId : dashboards[r][p] # NoConn =>
    /\ Live(dashboards[r][p])
    /\ ident[dashboards[r][p]] = [role |-> "dashboard", room |-> r, id |-> p]

\* The registry invariant by map: the slot, and the names.
LEMMA RegistryParts == RegistryConsistent <=> SlotOwned /\ NamesLive
BY DEF RegistryConsistent, SlotOwned, NamesLive

\* A step that leaves alone the registry, what connections joined as, and
\* which of them are live, keeps the two in agreement.
LEMMA RegistryFrame ==
  ASSUME RegistryTyped, RegistryConsistent, UNCHANGED <<controller, dashboards, ident>>,
         \A c \in Conn : Live(c)' <=> Live(c)
  PROVE  RegistryConsistent'
<1>1. SlotOwned'
  BY RegistryParts DEF SlotOwned, IsController
<1>2. NamesLive'
  BY RegistryParts DEF NamesLive, RegistryTyped, RegistryOK, HandlersOK
<1> QED BY <1>1, <1>2 DEF RegistryConsistent, SlotOwned, NamesLive

\* A controller takes the slot only when it is empty, so the registry still
\* agrees with the handlers.
LEMMA JoinControllerRegistry ==
  ASSUME RegistryTyped, RegistryConsistent, NEW c \in Conn, NEW r \in Room, JoinController(c, r)
  PROVE  RegistryConsistent'
<1>1. CASE Refuse(c)
  <2>1. phase[c] = "joining" /\ phase' = [phase EXCEPT ![c] = "refused"]
    BY <1>1 DEF JoinController, Refuse
  <2>2. \A d \in Conn : Live(d)' <=> Live(d)
    BY <2>1 DEF Live, RegistryTyped, RegistryOK, HandlersOK
  <2> QED BY <1>1, <2>2, RegistryFrame DEF Refuse, registry
<1>2. CASE ~Refuse(c)
  <2> DEFINE id == [role |-> "controller", room |-> r, id |-> Controller]
  <2>1. /\ phase[c] = "joining" /\ controller[r] = NoConn
        /\ controller' = [controller EXCEPT ![r] = c]
        /\ phase' = [phase EXCEPT ![c] = "routing"]
        /\ ident' = [ident EXCEPT ![c] = id]
        /\ dashboards' = dashboards
    BY <1>2 DEF JoinController, SlotFree
  <2>2. id.role = "controller" /\ id.room = r
    OBVIOUS
  <2> HIDE DEF id
  <2>3. /\ phase'[c] = "routing" /\ ident'[c] = id /\ ~Live(c)
        /\ \A d \in Conn \ {c} : phase'[d] = phase[d] /\ ident'[d] = ident[d]
    BY <2>1 DEF RegistryTyped, RegistryOK, HandlersOK, Live
  <2>4. SlotOwned'
    <3> SUFFICES ASSUME NEW q \in Room, NEW d \in Conn
                 PROVE  controller'[q] = d <=> Live(d)' /\ IsController(d)' /\ ident'[d].room = q
      BY DEF SlotOwned
    <3>1. controller'[q] = IF q = r THEN c ELSE controller[q]
      BY <2>1 DEF RegistryTyped, RegistryOK, HandlersOK
    <3>2. controller[q] = d <=> Live(d) /\ IsController(d) /\ ident[d].room = q
      BY RegistryParts DEF SlotOwned
    <3>3. controller[r] # d
      BY <2>1, RelayAssumption
    <3>4. CASE d = c
      BY <2>2, <2>3, <3>1, <3>2, <3>4 DEF Live, IsController
    <3>5. CASE d # c
      <4>1. Live(d)' <=> Live(d)
        BY <2>3, <3>5 DEF Live
      <4>2. IsController(d)' <=> IsController(d)
        BY <2>3, <3>5 DEF IsController
      <4>3. controller[r] = d <=> Live(d) /\ IsController(d) /\ ident[d].room = r
        BY RegistryParts DEF SlotOwned
      <4> QED BY <2>3, <3>1, <3>2, <3>3, <3>5, <4>1, <4>2, <4>3
    <3> QED BY <3>4, <3>5
  <2>5. NamesLive'
    <3> SUFFICES ASSUME NEW q \in Room, NEW p \in PeerId, dashboards[q][p] # NoConn
                 PROVE  /\ Live(dashboards[q][p])'
                        /\ ident'[dashboards[q][p]] = [role |-> "dashboard", room |-> q, id |-> p]
      BY <2>1 DEF NamesLive
    <3>1. dashboards[q][p] \in Conn /\ Live(dashboards[q][p])
          /\ ident[dashboards[q][p]] = [role |-> "dashboard", room |-> q, id |-> p]
      BY RegistryParts DEF NamesLive, RegistryTyped, RegistryOK, HandlersOK
    <3>2. dashboards[q][p] # c
      BY <2>3, <3>1
    <3> QED BY <2>1, <2>3, <3>1, <3>2 DEF Live
  <2> QED BY <2>4, <2>5 DEF RegistryConsistent, SlotOwned, NamesLive
<1> QED BY <1>1, <1>2

\* A dashboard that takes over a name leaves no entry for the connection it
\* replaces.
LEMMA JoinDashboardRegistry ==
  ASSUME RegistryTyped, RegistryConsistent, NEW c \in Conn, NEW r \in Room, NEW p \in PeerId,
         JoinDashboard(c, r, p)
  PROVE  RegistryConsistent'
<1> DEFINE id == [role |-> "dashboard", room |-> r, id |-> p]
<1>1. /\ phase[c] = "joining"
      /\ dashboards' = [dashboards EXCEPT ![r][p] = c]
      /\ phase' = [phase EXCEPT ![c] = "routing"]
      /\ ident' = [ident EXCEPT ![c] = id]
      /\ controller' = controller
  BY DEF JoinDashboard
<1>2. id.role # "controller"
  OBVIOUS
<1>3. /\ phase'[c] = "routing" /\ ident'[c] = id /\ ~Live(c)
      /\ \A d \in Conn \ {c} : phase'[d] = phase[d] /\ ident'[d] = ident[d]
  BY <1>1 DEF RegistryTyped, RegistryOK, HandlersOK, Live
<1>4. SlotOwned'
  <2> HIDE DEF id
  <2> SUFFICES ASSUME NEW q \in Room, NEW d \in Conn
               PROVE  controller[q] = d <=> Live(d)' /\ IsController(d)' /\ ident'[d].room = q
    BY <1>1 DEF SlotOwned
  <2>1. controller[q] = d <=> Live(d) /\ IsController(d) /\ ident[d].room = q
    BY RegistryParts DEF SlotOwned
  <2>2. CASE d = c
    BY <1>2, <1>3, <2>1, <2>2 DEF IsController
  <2>3. CASE d # c
    BY <1>3, <2>1, <2>3 DEF Live, IsController
  <2> QED BY <2>2, <2>3
<1>5. NamesLive'
  <2> SUFFICES ASSUME NEW q \in Room, NEW n \in PeerId, dashboards'[q][n] # NoConn
               PROVE  /\ phase'[dashboards'[q][n]] \in {"routing", "leaving"}
                      /\ ident'[dashboards'[q][n]] = [role |-> "dashboard", room |-> q, id |-> n]
    BY DEF NamesLive, Live
  <2>1. CASE q = r /\ n = p
    <3>1. dashboards'[q][n] = c
      BY <1>1, <2>1 DEF RegistryTyped, RegistryOK, HandlersOK
    <3> QED BY <1>3, <2>1, <3>1 DEF Live
  <2>2. CASE ~(q = r /\ n = p)
    <3>1. dashboards'[q][n] = dashboards[q][n]
      BY <1>1, <2>2 DEF RegistryTyped, RegistryOK, HandlersOK
    <3>2. /\ dashboards[q][n] \in Conn /\ Live(dashboards[q][n])
          /\ ident[dashboards[q][n]] = [role |-> "dashboard", room |-> q, id |-> n]
      BY <3>1, RegistryParts DEF NamesLive, RegistryTyped, RegistryOK, HandlersOK
    <3>3. dashboards[q][n] # c
      BY <1>3, <3>2
    <3> QED BY <1>3, <3>1, <3>2, <3>3 DEF Live
  <2> QED BY <2>1, <2>2
<1> QED BY <1>4, <1>5 DEF RegistryConsistent, SlotOwned, NamesLive

\* A cleanup removes the leaving connection's entry, or that of a newer
\* connection of its name, and never leaves its own behind.
LEMMA CleanupRegistry ==
  ASSUME RegistryTyped, RegistryConsistent, NEW c \in Conn, Cleanup(c)
  PROVE  RegistryConsistent'
<1> DEFINE r == ident[c].room
           p == ident[c].id
<1>1. /\ phase[c] = "leaving" /\ phase' = [phase EXCEPT ![c] = "gone"] /\ ident' = ident
      /\ IF IsController(c)
         THEN controller' = [controller EXCEPT ![r] = NoConn] /\ dashboards' = dashboards
         ELSE /\ dashboards' = [dashboards EXCEPT ![r] = WithoutDashboard(r, p)]
              /\ controller' = controller
  BY DEF Cleanup, IsController, WithoutController
<1>2. /\ r \in Room /\ Live(c) /\ ~Live(c)'
      /\ \A d \in Conn \ {c} : Live(d)' <=> Live(d)
  BY <1>1 DEF RegistryTyped, RegistryOK, HandlersOK, Ident, Live
<1>3. \A d \in Conn : IsController(d)' <=> IsController(d)
  BY <1>1 DEF IsController
<1>4. SlotOwned'
  <2> SUFFICES ASSUME NEW q \in Room, NEW d \in Conn
               PROVE  controller'[q] = d <=> Live(d)' /\ IsController(d)' /\ ident'[d].room = q
    BY DEF SlotOwned
  <2>1. /\ controller[q] = d <=> Live(d) /\ IsController(d) /\ ident[d].room = q
        /\ controller[r] = c <=> IsController(c)
    BY <1>2, RegistryParts DEF SlotOwned
  <2>2. controller'[q] = IF IsController(c) /\ q = r THEN NoConn ELSE controller[q]
    BY <1>1 DEF RegistryTyped, RegistryOK, HandlersOK
  <2>3. CASE d = c
    BY <1>2, <2>1, <2>2, <2>3, RelayAssumption
  <2>4. CASE d # c
    <3>1. Live(d)' /\ IsController(d)' /\ ident'[d].room = q <=> controller[q] = d
      BY <1>1, <1>2, <1>3, <2>1, <2>4
    <3>2. IsController(c) /\ q = r => controller[q] # d /\ NoConn # d
      BY <2>1, <2>4, RelayAssumption
    <3> QED BY <2>2, <3>1, <3>2
  <2> QED BY <2>3, <2>4
<1>5. NamesLive'
  <2> SUFFICES ASSUME NEW q \in Room, NEW n \in PeerId, dashboards'[q][n] # NoConn
               PROVE  /\ phase'[dashboards'[q][n]] \in {"routing", "leaving"}
                      /\ ident'[dashboards'[q][n]] = [role |-> "dashboard", room |-> q, id |-> n]
    BY DEF NamesLive, Live
  <2>1. /\ dashboards'[q][n] = dashboards[q][n]
        /\ IsController(c) \/ ~(q = r /\ n = p)
    <3>1. CASE IsController(c)
      BY <1>1, <3>1
    <3>2. CASE ~IsController(c)
      <4> HIDE DEF r, p
      <4>1. dashboards' = [dashboards EXCEPT ![r] = [dashboards[r] EXCEPT ![p] = NoConn]]
        BY <1>1, <3>2 DEF WithoutDashboard
      <4>2. dashboards'[q] = IF q = r THEN [dashboards[r] EXCEPT ![p] = NoConn] ELSE dashboards[q]
        BY <4>1 DEF RegistryTyped, RegistryOK, HandlersOK
      <4>3. CASE q = r
        <5>1. [dashboards[r] EXCEPT ![p] = NoConn][n] = IF n = p THEN NoConn ELSE dashboards[r][n]
          BY <1>2 DEF RegistryTyped, RegistryOK, HandlersOK
        <5> QED BY <4>2, <4>3, <5>1
      <4>4. CASE q # r
        BY <4>2, <4>4
      <4> QED BY <4>3, <4>4
    <3> QED BY <3>1, <3>2
  <2>2. /\ dashboards[q][n] \in Conn /\ Live(dashboards[q][n])
        /\ ident[dashboards[q][n]] = [role |-> "dashboard", room |-> q, id |-> n]
    BY <2>1, RegistryParts DEF NamesLive, RegistryTyped, RegistryOK, HandlersOK
  <2>3. dashboards[q][n] # c
    BY <2>1, <2>2 DEF IsController
  <2> QED BY <1>1, <1>2, <2>1, <2>2, <2>3 DEF Live
<1> QED BY <1>4, <1>5 DEF RegistryConsistent, SlotOwned, NamesLive


=============================================================================
