-------------------------- MODULE HandshakeProofs --------------------------
(***************************************************************************)
(* When handshakes succeed, for any number of connections, names and keys, *)
(* any capacity and any number of frames: once nothing is on its way, a    *)
(* dashboard whose first handshake it was has a session, whatever else     *)
(* happened in the room (FirstHandshakeEstablishes); and where only one    *)
(* controller ever connects, names are not shared and nothing is lost,     *)
(* every authorized dashboard has one (SteadyLinksEstablish).              *)
(*                                                                         *)
(* A handshake is followed from place to place: at each stage exactly what *)
(* takes it further is on its way, with nothing before it that could undo  *)
(* it.                                                                     *)
(***************************************************************************)
EXTENDS SessionProofs

-----------------------------------------------------------------------------
(* Which envelope comes first.                                             *)

\* The first of R in s is one of A.
Leads(s, A, R) == \E i \in DOMAIN s : s[i] \in A /\ \A j \in DOMAIN s : j < i => s[j] \notin R

\* What comes first in a queue when its head is taken.
LEMMA LeadsTail ==
  ASSUME NEW S, NEW s \in Seq(S), s # <<>>, NEW A, NEW R, Leads(s, A, R)
  PROVE  /\ Head(s) \notin A => Leads(Tail(s), A, R)
         /\ Head(s) \in R => Head(s) \in A
<1>1. /\ Len(s) \in Nat \ {0} /\ Len(Tail(s)) = Len(s) - 1 /\ Tail(s) \in Seq(S) /\ Head(s) = s[1]
      /\ \A i \in 1..Len(Tail(s)) : Tail(s)[i] = s[i+1]
  BY HeadTailProperties, EmptySeq, LenProperties
<1>2. DOMAIN s = 1..Len(s) /\ DOMAIN Tail(s) = 1..(Len(s) - 1)
  BY <1>1, LenProperties
<1>3. PICK i \in DOMAIN s : s[i] \in A /\ \A j \in DOMAIN s : j < i => s[j] \notin R
  BY DEF Leads
<1>4. ASSUME Head(s) \notin A PROVE Leads(Tail(s), A, R)
  <2>1. i \in Nat /\ i # 1 /\ i - 1 \in DOMAIN Tail(s) /\ Tail(s)[i-1] = s[i]
    BY <1>1, <1>2, <1>3, <1>4
  <2>2. ASSUME NEW j \in DOMAIN Tail(s), j < i - 1 PROVE Tail(s)[j] \notin R
    BY <1>1, <1>2, <1>3, <2>1, <2>2
  <2> QED BY <1>3, <2>1, <2>2 DEF Leads
<1>5. ASSUME Head(s) \in R PROVE Head(s) \in A
  <2>1. i = 1
    BY <1>1, <1>2, <1>3, <1>5
  <2> QED BY <1>1, <1>3, <2>1
<1> QED BY <1>4, <1>5

\* What comes first in a queue that is added to.
LEMMA LeadsConcat ==
  ASSUME NEW S, NEW s \in Seq(S), NEW t \in Seq(S), NEW A, NEW R
  PROVE  /\ Leads(s, A, R) => Leads(s \o t, A, R)
         /\ ~Has(s, R) /\ Leads(t, A, R) => Leads(s \o t, A, R)
<1>1. /\ Len(s) \in Nat /\ Len(t) \in Nat /\ Len(s \o t) = Len(s) + Len(t)
      /\ s \o t \in Seq(S)
      /\ \A i \in 1..Len(s) : (s \o t)[i] = s[i]
      /\ \A i \in 1..Len(t) : (s \o t)[Len(s) + i] = t[i]
      /\ \A i \in 1..Len(s) + Len(t) : (s \o t)[i] = IF i <= Len(s) THEN s[i] ELSE t[i - Len(s)]
  BY ConcatProperties, LenProperties
<1>2. DOMAIN s = 1..Len(s) /\ DOMAIN t = 1..Len(t) /\ DOMAIN (s \o t) = 1..(Len(s) + Len(t))
  BY <1>1, LenProperties
<1> PICK w : w = s \o t
  OBVIOUS
<1>3. ASSUME Leads(s, A, R) PROVE Leads(w, A, R)
  <2>1. PICK i \in DOMAIN s : s[i] \in A /\ \A j \in DOMAIN s : j < i => s[j] \notin R
    BY <1>3 DEF Leads
  <2>2. i \in DOMAIN w /\ w[i] = s[i]
    BY <1>1, <1>2, <2>1
  <2>3. ASSUME NEW j \in DOMAIN w, j < i PROVE w[j] \notin R
    BY <1>1, <1>2, <2>1, <2>3
  <2> QED BY <2>1, <2>2, <2>3 DEF Leads
<1>4. ASSUME ~Has(s, R), Leads(t, A, R) PROVE Leads(w, A, R)
  <2>1. PICK i \in DOMAIN t : t[i] \in A /\ \A j \in DOMAIN t : j < i => t[j] \notin R
    BY <1>4 DEF Leads
  <2>2. Len(s) + i \in DOMAIN w /\ w[Len(s) + i] = t[i]
    BY <1>1, <1>2, <2>1
  <2>3. ASSUME NEW j \in DOMAIN w, j < Len(s) + i PROVE w[j] \notin R
    <3>1. CASE j <= Len(s)
      BY <1>1, <1>2, <1>4, <3>1 DEF Has
    <3>2. CASE ~(j <= Len(s))
      <4>1. j - Len(s) \in DOMAIN t /\ j - Len(s) < i /\ w[j] = t[j - Len(s)]
        BY <1>1, <1>2, <2>1, <2>3, <3>2
      <4> QED BY <2>1, <4>1
    <3> QED BY <3>1, <3>2
  <2> QED BY <2>1, <2>2, <2>3 DEF Leads
<1> QED BY <1>3, <1>4

\* In a queue of one, that one is first.
LEMMA LeadsOne ==
  ASSUME NEW x, NEW A, NEW R
  PROVE  /\ ~Leads(<<>>, A, R)
         /\ Leads(<<x>>, A, R) <=> x \in A
BY DEF Leads

\* Where the first of R is one of A, there is one of A; and where there is one
\* and R is empty.
LEMMA LeadsHas ==
  ASSUME NEW s, NEW A
  PROVE  /\ \A R : Leads(s, A, R) => Has(s, A)
         /\ Has(s, A) <=> Leads(s, A, {})
BY DEF Leads, Has

-----------------------------------------------------------------------------
(* What the relay sends on its own.                                        *)

\* The registry holds controllers as controllers and dashboards by their names.
LEMMA RegistryKinds ==
  ASSUME SessionInv, LinkInv, NEW r \in Room
  PROVE  /\ controller[r] # NoConn => controller[r] \in CtlConn /\ HasJoined(controller[r])
         /\ \A p \in PeerId : dashboards[r][p] # NoConn =>
              /\ dashboards[r][p] \in DashConn /\ DashName[dashboards[r][p]] = p
              /\ HasJoined(dashboards[r][p])
<1>1. /\ controller[r] \in Conn \cup {NoConn} /\ \A p \in PeerId : dashboards[r][p] \in Conn \cup {NoConn}
      /\ RegistryConsistent
  BY DEF SessionInv, RelayTyped, RegistryTyped, RegistryOK, LinkInv
<1>2. \A a \in Conn : Live(a) => HasJoined(a) /\ ident[a] = Identity(a)
  BY DEF Live, HasJoined, SessionInv, Identified
<1>3. ASSUME controller[r] # NoConn PROVE controller[r] \in CtlConn /\ HasJoined(controller[r])
  <2> PICK a \in Conn : a = controller[r]
    BY <1>1, <1>3
  <2>1. Live(a) /\ IsController(a)
    BY <1>1 DEF RegistryConsistent
  <2>2. ident[a].role = "controller" /\ ident[a] = Identity(a) /\ HasJoined(a)
    BY <1>2, <2>1 DEF IsController
  <2>3. a \in CtlConn
    BY <2>2 DEF Identity
  <2> QED BY <2>2, <2>3
<1>4. ASSUME NEW p \in PeerId, dashboards[r][p] # NoConn
      PROVE  /\ dashboards[r][p] \in DashConn /\ DashName[dashboards[r][p]] = p
             /\ HasJoined(dashboards[r][p])
  <2> PICK a \in Conn : a = dashboards[r][p]
    BY <1>1, <1>4
  <2>1. Live(a) /\ ident[a] = [role |-> "dashboard", room |-> r, id |-> p]
    BY <1>1, <1>4 DEF RegistryConsistent
  <2>2. ident[a].role = "dashboard" /\ ident[a].id = p /\ ident[a] = Identity(a)
    BY <1>2, <2>1
  <2>3. a \notin CtlConn /\ DashName[a] = p
    BY <2>2 DEF Identity
  <2> QED BY <1>2, <2>1, <2>3, ConnParts
<1> QED BY <1>3, <1>4

\* The notices of a join and of a cleanup: to whom, and which.
JoinNote(z, a, e) ==
  \/ a = z /\ e \in {Joined, Error}
  \/ a = z /\ z \in CtlConn /\ \E p \in Present(TheRoom) : e = PeerJoin(p)
  \/ a = z /\ z \in DashConn /\ controller[TheRoom] # NoConn /\ e = PeerJoin(Controller)
  \/ z \in CtlConn /\ SlotFree(TheRoom) /\ a \in DashboardConn(TheRoom) /\ e = PeerJoin(Controller)
  \/ z \in DashConn /\ a = controller[TheRoom] /\ e = PeerJoin(DashName[z])

LeaveNote(z, a, e) ==
  \/ z \in CtlConn /\ a \in DashboardConn(TheRoom) /\ e = PeerLeave(Controller)
  \/ z \in DashConn /\ a = controller[TheRoom] /\ e = PeerLeave(DashName[z])

\* A greeting names, after the ack, each of those it lists.
LEMMA GreetingItems ==
  ASSUME NEW X, NEW n \in Nat, NEW ps \in [1..n -> X]
  PROVE  /\ Greeting(ps) \in Seq({Joined} \cup {PeerJoin(x) : x \in X})
         /\ \A i \in 1..n : Has(Greeting(ps), {PeerJoin(ps[i])})
         /\ (\A i, j \in 1..n : ps[i] = ps[j] => i = j) => \A x : Once(Greeting(ps), {PeerJoin(x)})
<1> PICK S : S = {Joined} \cup {PeerJoin(x) : x \in X}
  OBVIOUS
<1> PICK j : j = <<Joined>>
  OBVIOUS
<1> PICK g : g = [i \in 1..n |-> PeerJoin(ps[i])]
  OBVIOUS
<1>1. j \in Seq(S) /\ Len(j) = 1 /\ j[1] = Joined
  OBVIOUS
<1>2. g \in [1..n -> S] /\ Len(g) = n /\ g \in Seq(S)
  <2>1. g \in [1..n -> S]
    OBVIOUS
  <2>2. g \in Seq(S)
    BY ONLY n \in Nat, <2>1, SeqDef
  <2>3. DOMAIN g = 1..n
    OBVIOUS
  <2>4. Len(g) = n
    BY <2>2, <2>3, LenProperties
  <2> QED BY <2>1, <2>2, <2>4
<1>3. Greeting(ps) = j \o g
  BY DEF Greeting
<1> PICK w : w = j \o g
  OBVIOUS
<1>4. /\ w \in Seq(S) /\ Len(w) = 1 + n /\ w[1] = Joined
      /\ \A i \in 1..n : w[1 + i] = PeerJoin(ps[i])
  <2>1. /\ w \in Seq(S) /\ Len(w) = 1 + n /\ w[1] = j[1]
        /\ \A i \in 1..n : w[1 + i] = g[i]
    BY <1>1, <1>2, ConcatProperties
  <2> QED BY <1>1, <2>1
<1>5. DOMAIN w = 1..n + 1
  BY <1>4, LenProperties
<1>6. ASSUME NEW i \in 1..n PROVE Has(w, {PeerJoin(ps[i])})
  <2>1. 1 + i \in DOMAIN w /\ w[1 + i] = PeerJoin(ps[i])
    BY <1>4, <1>5
  <2> QED BY <2>1 DEF Has
<1>7. ASSUME \A i, k \in 1..n : ps[i] = ps[k] => i = k, NEW x PROVE Once(w, {PeerJoin(x)})
  <2> SUFFICES ASSUME NEW i \in DOMAIN w, NEW k \in DOMAIN w, w[i] = PeerJoin(x), w[k] = PeerJoin(x)
               PROVE  i = k
    BY DEF Once
  <2>1. Joined # PeerJoin(x)
    BY DEF Joined, PeerJoin
  <2>2. i - 1 \in 1..n /\ k - 1 \in 1..n
    BY <1>4, <1>5, <2>1
  <2>3. w[i] = PeerJoin(ps[i-1]) /\ w[k] = PeerJoin(ps[k-1])
    <3>1. 1 + (i - 1) = i /\ 1 + (k - 1) = k
      BY <1>5
    <3> QED BY <1>4, <2>2, <3>1
  <2>4. ps[i-1] = x /\ ps[k-1] = x
    BY <2>3 DEF PeerJoin
  <2>5. i - 1 = k - 1
    BY <1>7, <2>2, <2>4
  <2> QED BY <1>5, <2>5
<1> QED BY <1>3, <1>4, <1>6, <1>7

\* What the queue of a writer that runs and a queue that holds takes of a mail.
LEMMA MailTaken ==
  ASSUME SessionInv, NEW mail, Send(mail), NEW a \in Conn, ~lost'[a], writer[a] = "running"
  PROVE  queue'[a] = queue[a] \o mail[a]
BY DEF Send

\* A mail of notices of one kind adds notices of that kind.
LEMMA MailPrefix ==
  ASSUME SessionInv, NEW mail, Send(mail), NEW a \in Conn, NEW S, mail[a] \in Seq(S)
  PROVE  \E t \in Seq(S) : queue'[a] = queue[a] \o t
<1> PICK E : E = Envelopes
  OBVIOUS
<1>1. Accepted(a, mail[a]) \in Seq(S)
  BY RelayTypedNow, AcceptedPrefix
<1> QED BY <1>1 DEF Send

\* The mail of a join that is not refused.
CtlMail(z, order) == [d \in Conn |->
  IF d = z THEN Greeting(order)
  ELSE IF d \in DashboardConn(TheRoom) THEN <<PeerJoin(Controller)>>
  ELSE <<>>]
DashMail(z) == [d \in Conn |->
  IF d = z THEN Greeting(IF controller[TheRoom] = NoConn THEN <<>> ELSE <<Controller>>)
  ELSE IF d = controller[TheRoom] THEN <<PeerJoin(DashName[z])>>
  ELSE <<>>]

\* A join is refused, or takes the controller's slot, or that of a dashboard's name.
LEMMA JoinCases ==
  ASSUME NEW z \in Conn, RelayJoin(z)
  PROVE  /\ phase[z] = "joining" /\ client[z] # "new" /\ wire' = wire /\ pending' = pending /\ writer' = writer
         /\ \/ /\ z \in CtlConn /\ ~SlotFree(TheRoom) /\ Send(MailTo(z, <<Error>>))
               /\ phase' = [phase EXCEPT ![z] = "refused"] /\ UNCHANGED <<controller, dashboards>>
            \/ /\ z \in CtlConn /\ SlotFree(TheRoom) /\ dashboards' = dashboards
               /\ controller' = [controller EXCEPT ![TheRoom] = z]
               /\ phase' = [phase EXCEPT ![z] = "routing"]
               /\ \E order \in SetToSeqs(Present(TheRoom)) : Send(CtlMail(z, order))
            \/ /\ z \in DashConn /\ Send(DashMail(z)) /\ controller' = controller
               /\ dashboards' = [dashboards EXCEPT ![TheRoom][DashName[z]] = z]
               /\ phase' = [phase EXCEPT ![z] = "routing"]
<1>1. CASE z \in CtlConn
  BY <1>1 DEF RelayJoin, JoinController, Refuse, CtlMail, clientVars, Send, registry
<1>2. CASE z \notin CtlConn
  <2>1. z \in DashConn
    BY <1>2, ConnParts
  <2> QED BY <1>2, <2>1 DEF RelayJoin, JoinDashboard, DashMail, clientVars, Send
<1> QED BY <1>1, <1>2

\* A join posts its notices.
LEMMA JoinMail ==
  ASSUME SessionInv, LinkInv, NEW z \in Conn, RelayJoin(z), NEW a \in Conn
  PROVE  \E t \in Seq({e \in Notices : JoinNote(z, a, e)}) : queue'[a] = queue[a] \o t
<1> PICK S : S = {e \in Notices : JoinNote(z, a, e)}
  OBVIOUS
<1>0. /\ Joined \in Notices /\ Error \in Notices /\ \A p \in Name : PeerJoin(p) \in Notices
      /\ Controller \in Name /\ PeerId \subseteq Name /\ Present(TheRoom) \subseteq PeerId
      /\ <<>> \in Seq(S)
  BY NoticeTypes DEF Name, Present
<1>1. a = z => Joined \in S /\ Error \in S
  BY <1>0 DEF JoinNote
<1>2. CASE Send(MailTo(z, <<Error>>))
  <2>1. MailTo(z, <<Error>>)[a] = IF a = z THEN <<Error>> ELSE <<>>
    BY DEF MailTo
  <2>2. a = z => <<Error>> \in Seq(S)
    BY <1>1
  <2>3. MailTo(z, <<Error>>)[a] \in Seq(S)
    BY <1>0, <2>1, <2>2
  <2> QED BY <1>2, <2>3, MailPrefix
<1>3. ASSUME z \in CtlConn, SlotFree(TheRoom), NEW order \in SetToSeqs(Present(TheRoom)), Send(CtlMail(z, order))
      PROVE  \E t \in Seq(S) : queue'[a] = queue[a] \o t
  <2>1. CASE a = z
    <3>1. IsFiniteSet(Present(TheRoom))
      BY <1>0, RelayAssumption, FS_Subset
    <3>2. PICK n \in Nat : order \in [1..n -> Present(TheRoom)]
      BY <3>1, WalkParts
    <3> PICK G : G = {Joined} \cup {PeerJoin(x) : x \in Present(TheRoom)}
      OBVIOUS
    <3>3. Greeting(order) \in Seq(G)
      BY <3>2, GreetingItems
    <3>4. G \subseteq S
      <4>1. \A x \in Present(TheRoom) : PeerJoin(x) \in S
        BY <1>0, <1>3, <2>1 DEF JoinNote
      <4> QED BY <1>1, <2>1, <4>1
    <3>5. Greeting(order) \in Seq(S)
      BY <3>3, <3>4, SeqMonotonic
    <3>6. CtlMail(z, order)[a] \in Seq(S)
      BY <2>1, <3>5 DEF CtlMail
    <3> QED BY <1>3, <3>6, MailPrefix
  <2>2. CASE a # z
    <3>1. a \in DashboardConn(TheRoom) => PeerJoin(Controller) \in S
      BY <1>0, <1>3 DEF JoinNote
    <3>2. CtlMail(z, order)[a] \in Seq(S)
      BY <1>0, <2>2, <3>1 DEF CtlMail
    <3> QED BY <1>3, <3>2, MailPrefix
  <2> QED BY <2>1, <2>2
<1>4. ASSUME z \in DashConn, Send(DashMail(z)) PROVE \E t \in Seq(S) : queue'[a] = queue[a] \o t
  <2>0. DashName[z] \in Name
    BY <1>4, ConnParts
  <2>1. CASE a = z
    <3> PICK X : X = {x \in {Controller} : controller[TheRoom] # NoConn}
      OBVIOUS
    <3>1. (IF controller[TheRoom] = NoConn THEN <<>> ELSE <<Controller>>) \in
            [1..(IF controller[TheRoom] = NoConn THEN 0 ELSE 1) -> X]
      OBVIOUS
    <3> PICK G : G = {Joined} \cup {PeerJoin(x) : x \in X}
      OBVIOUS
    <3>2. Greeting(IF controller[TheRoom] = NoConn THEN <<>> ELSE <<Controller>>) \in Seq(G)
      BY <3>1, GreetingItems
    <3>3. G \subseteq S
      <4>1. \A x \in X : PeerJoin(x) \in S
        BY <1>0, <1>4, <2>1 DEF JoinNote
      <4> QED BY <1>1, <2>1, <4>1
    <3>4. DashMail(z)[a] \in Seq(S)
      BY <2>1, <3>2, <3>3, SeqMonotonic DEF DashMail
    <3> QED BY <1>4, <3>4, MailPrefix
  <2>2. CASE a # z
    <3>1. a = controller[TheRoom] => PeerJoin(DashName[z]) \in S
      BY <1>0, <1>4, <2>0 DEF JoinNote
    <3>2. DashMail(z)[a] = IF a = controller[TheRoom] THEN <<PeerJoin(DashName[z])>> ELSE <<>>
      BY <2>2 DEF DashMail
    <3>3. a = controller[TheRoom] => <<PeerJoin(DashName[z])>> \in Seq(S)
      BY <3>1
    <3>4. DashMail(z)[a] \in Seq(S)
      BY <1>0, <3>2, <3>3
    <3> QED BY <1>4, <3>4, MailPrefix
  <2> QED BY <2>1, <2>2
<1> QED BY <1>2, <1>3, <1>4, JoinCases

\* So does a cleanup, to those that stay.
LEMMA LeaveMail ==
  ASSUME SessionInv, LinkInv, NEW z \in Conn, RelayCleanup(z), NEW a \in Conn
  PROVE  IF a = z THEN queue'[a] = <<>>
         ELSE \E t \in Seq({e \in Notices : LeaveNote(z, a, e)}) : queue'[a] = queue[a] \o t
<1> PICK E : E = Envelopes
  OBVIOUS
<1> PICK S : S = {e \in Notices : LeaveNote(z, a, e)}
  OBVIOUS
<1>0. phase[z] = "leaving" /\ Cleanup(z) /\ ident[z] = Identity(z)
  BY DEF RelayCleanup, Cleanup, SessionInv, Identified, HasJoined
<1> PICK id : id = ident[z].id
  OBVIOUS
<1>1. queue'[a] = IF a = z THEN <<>> ELSE queue[a] \o
        (IF a \in LeaveAudience(z) THEN Accepted(a, <<PeerLeave(id)>>) ELSE <<>>)
  BY <1>0 DEF Cleanup
<1>2. a \in LeaveAudience(z) => PeerLeave(id) \in S
  <2>1. id \in Name /\ ident[z].room = TheRoom
        /\ (z \in CtlConn => id = Controller /\ ident[z].role = "controller")
        /\ (z \in DashConn => id = DashName[z] /\ ident[z].role = "dashboard")
    BY <1>0, ConnParts DEF Identity, Name
  <2>2. PeerLeave(id) \in Notices
    BY <2>1, NoticeTypes
  <2>3. CASE z \in CtlConn
    BY <2>1, <2>2, <2>3 DEF LeaveAudience, LeaveNote
  <2>4. CASE z \in DashConn
    BY <2>1, <2>2, <2>4 DEF LeaveAudience, LeaveNote
  <2> QED BY <2>3, <2>4, ConnParts
<1>3. ASSUME a \in LeaveAudience(z) PROVE Accepted(a, <<PeerLeave(id)>>) \in Seq(S)
  <2>1. <<PeerLeave(id)>> \in Seq(S)
    BY <1>2, <1>3
  <2> QED BY <2>1, RelayTypedNow, AcceptedPrefix
<1>4. <<>> \in Seq(S)
  OBVIOUS
<1> QED BY <1>1, <1>3, <1>4

\* A message that is forwarded is added whole or not at all.
LEMMA ForwardMail ==
  ASSUME SessionInv, LinkInv, NEW z \in Conn, RelayForward(z), NEW a \in Conn
  PROVE  /\ pending[z] # <<>> /\ pending' = [pending EXCEPT ![z] = <<>>] /\ wire' = wire
         /\ \/ queue'[a] = queue[a]
            \/ a = pending[z][1].rcpt /\ queue'[a] = queue[a] \o <<pending[z][1].env>>
<1> PICK E : E = Envelopes
  OBVIOUS
<1> PICK r, e : r = pending[z][1].rcpt /\ e = pending[z][1].env
  OBVIOUS
<1>1. /\ pending[z] # <<>> /\ pending' = [pending EXCEPT ![z] = <<>>] /\ wire' = wire
      /\ Send(MailTo(r, <<e>>))
  BY DEF RelayForward, RouteSend, clientVars
<1>2. a # r => queue'[a] = queue[a]
  <2> SUFFICES ASSUME a # r PROVE queue'[a] = queue[a]
    OBVIOUS
  <2>1. MailTo(r, <<e>>)[a] = <<>>
    BY DEF MailTo
  <2> QED BY <1>1, <2>1, NoMail
<1>3. a = r => queue'[a] = queue[a] \/ queue'[a] = queue[a] \o <<e>>
  <2> SUFFICES ASSUME a = r PROVE queue'[a] = queue[a] \/ queue'[a] = queue[a] \o <<e>>
    OBVIOUS
  <2>1. MailTo(r, <<e>>)[a] = <<e>>
    BY DEF MailTo
  <2>2. queue'[a] = queue[a] \o Accepted(a, <<e>>)
    BY <1>1, <2>1 DEF Send
  <2>3. e \in Genuine
    BY <1>1 DEF LinkInv, HeldOwn
  <2>4. <<e>> \in Seq({e}) /\ Len(<<e>>) = 1
    OBVIOUS
  <2>5. Accepted(a, <<e>>) = <<>> \/ Accepted(a, <<e>>) = <<e>>
    BY <2>4, RelayTypedNow, AcceptedPrefix
  <2>6. queue[a] \o <<>> = queue[a]
    <3>1. queue[a] \in Seq(E)
      BY RelayTypedNow DEF RelayTyped, QueuesOK
    <3> QED BY <3>1, ConcatEmptySeq
  <2> QED BY <2>2, <2>5, <2>6
<1> QED BY <1>1, <1>2, <1>3

-----------------------------------------------------------------------------
(* What may wait for whom, and what has been before.                       *)

\* A dashboard of that name has joined.
Known(p) == \E a \in DashConn : DashName[a] = p /\ HasJoined(a)

\* The notices and the frames that connection a may be sent: a dashboard hears
\* of the controller and gets frames for its name, a controller hears of the
\* dashboards there have been and gets what dashboards make.
NotesFor(a)  == {e \in Notices :
  \/ e \in {Joined, Error}
  \/ a \in DashConn /\ e \in {PeerJoin(Controller), PeerLeave(Controller)}
  \/ a \in CtlConn /\ \E p \in PeerId : Known(p) /\ e \in {PeerJoin(p), PeerLeave(p)}}
FramesFor(a) == {e \in Genuine :
  /\ FromDash(e.data) => a \in CtlConn
  /\ ~FromDash(e.data) => a \in DashConn /\ DashName[a] = DashName[e.data.c]}
Letters(a)   == NotesFor(a) \cup FramesFor(a)

Posted == \A a \in Conn :
  /\ queue[a] \in Seq(Letters(a))
  /\ \A b \in Conn : pending[b] # <<>> /\ pending[b][1].rcpt = a => pending[b][1].env \in FramesFor(a)

\* Whom the controller has as a peer has joined, whoever has begun a handshake
\* has; who has not begun one has done nothing; enrolled keys stay.
PeersKnown  == \A p \in PeerId : peers[p].st # "none" => Known(p)
BegunJoined == \A c \in DashConn : IF dash[c].n = 0 THEN dash[c] = NoDash ELSE HasJoined(c)
KeysKept    == Enrolled \subseteq file /\ (ctl # NoConn => Enrolled \subseteq table)

PlaceInv == Posted /\ PeersKnown /\ BegunJoined /\ KeysKept

\* At first nothing is on its way.
LEMMA InitPlaceInv == Init => PlaceInv
<1> SUFFICES ASSUME Init PROVE PlaceInv
  OBVIOUS
<1>1. Posted
  <2>1. \A S : <<>> \in Seq(S)
    OBVIOUS
  <2>2. \A a \in Conn : queue[a] = <<>> /\ pending[a] = <<>>
    BY DEF Init, RelayInit
  <2> QED BY <2>1, <2>2 DEF Posted
<1>2. PeersKnown
  BY DEF Init, PeersKnown, NoPeer
<1>3. BegunJoined
  BY DEF Init, BegunJoined, NoDash
<1>4. KeysKept
  BY DEF Init, KeysKept
<1> QED BY <1>1, <1>2, <1>3, <1>4 DEF PlaceInv

\* What may be addressed to a connection stays so.
LEMMA LettersStay ==
  ASSUME SessionInv, [Next]_vars
  PROVE  /\ \A p \in PeerId : Known(p) => Known(p)'
         /\ \A a \in Conn : NotesFor(a) \subseteq NotesFor(a)' /\ FramesFor(a) \subseteq FramesFor(a)'
                           /\ Letters(a) \subseteq Letters(a)'
<1>1. \A a \in Conn : HasJoined(a) => HasJoined(a)'
  BY JoinedStays
<1>2. \A p \in PeerId : Known(p) => Known(p)'
  BY <1>1, ConnParts DEF Known
<1>3. \A a \in Conn : NotesFor(a) \subseteq NotesFor(a)'
  BY <1>2 DEF NotesFor
<1>4. Genuine \subseteq Genuine'
  BY SoundStable DEF Genuine, FromDash
<1>5. \A a \in Conn : FramesFor(a) \subseteq FramesFor(a)'
  BY <1>4 DEF FramesFor, FromDash
<1> QED BY <1>2, <1>3, <1>5 DEF Letters

\* A frame a client sends is one that may be addressed to whoever it is for.
LEMMA RecipientFits ==
  ASSUME SessionInv, LinkInv, NEW m, NEW c \in Conn, HasJoined(c), m \in Outgoing(c), NEW f,
         Deliver(f, m.data) \in Genuine,
         NEW a \in Conn, Lookup(ident[c].room, m.to) = a
  PROVE  Deliver(f, m.data) \in FramesFor(a)
<1>1. ident[c].room = TheRoom
  <2>1. ident[c] = Identity(c)
    BY DEF SessionInv, Identified
  <2> QED BY <2>1 DEF Identity
<1>2. m.data \in Frame /\ m.data.c \in DashConn
  BY FrameFields DEF Outgoing
<1>3. Deliver(f, m.data).data = m.data
  BY DEF Deliver
<1>4. CASE FromDash(m.data)
  <2>1. m.to = Controller
    BY <1>4 DEF Outgoing
  <2>2. controller[TheRoom] = a /\ a # NoConn
    BY <1>1, <2>1, RelayAssumption DEF Lookup
  <2>3. a \in CtlConn
    BY <2>2, RegistryKinds, RoomGiven
  <2> QED BY <1>3, <1>4, <2>3 DEF FramesFor
<1>5. CASE ~FromDash(m.data)
  <2>1. m.to = DashName[m.data.c] /\ m.to \in PeerId /\ m.to # Controller
    BY <1>2, <1>5, ConnParts DEF Outgoing
  <2>2. dashboards[TheRoom][m.to] = a /\ a # NoConn
    BY <1>1, <2>1, RelayAssumption DEF Lookup
  <2>3. a \in DashConn /\ DashName[a] = DashName[m.data.c]
    BY <2>1, <2>2, RegistryKinds, RoomGiven
  <2> QED BY <1>3, <1>5, <2>3 DEF FramesFor
<1> QED BY <1>4, <1>5

\* The notices are for whom they are sent to.
LEMMA NotesFit ==
  ASSUME SessionInv, LinkInv, [Next]_vars, NEW z \in Conn, NEW a \in Conn
  PROVE  /\ RelayJoin(z) => {e \in Notices : JoinNote(z, a, e)} \subseteq Letters(a)'
         /\ RelayCleanup(z) => {e \in Notices : LeaveNote(z, a, e)} \subseteq Letters(a)'
<1>0. /\ TheRoom \in Room
      /\ controller[TheRoom] # NoConn => controller[TheRoom] \in CtlConn
      /\ a \in DashboardConn(TheRoom) => a \in DashConn
      /\ \A p \in Present(TheRoom) : p \in PeerId /\ Known(p)
      /\ \A p : Known(p) => Known(p)'
  <2>1. \A b \in Conn : HasJoined(b) => HasJoined(b)'
    BY JoinedStays
  <2> QED BY <2>1, RoomGiven, RegistryKinds, ConnParts DEF DashboardConn, Present, Known
<1>1. z \in DashConn => z \notin CtlConn /\ DashName[z] \in PeerId
  BY ConnParts
<1>2. ASSUME RelayJoin(z), NEW e \in Notices, JoinNote(z, a, e) PROVE e \in NotesFor(a)'
  <2>1. CASE a = z /\ e \in {Joined, Error}
    BY <1>2, <2>1 DEF NotesFor
  <2>2. CASE a = z /\ z \in CtlConn /\ \E p \in Present(TheRoom) : e = PeerJoin(p)
    BY <1>0, <1>2, <2>2 DEF NotesFor
  <2>3. CASE a = z /\ z \in DashConn /\ e = PeerJoin(Controller)
    BY <1>2, <2>3 DEF NotesFor
  <2>4. CASE a \in DashboardConn(TheRoom) /\ e = PeerJoin(Controller)
    BY <1>0, <1>2, <2>4 DEF NotesFor
  <2>5. CASE z \in DashConn /\ a = controller[TheRoom] /\ e = PeerJoin(DashName[z])
    <3>1. a \in CtlConn
      BY <1>0, <2>5, RelayAssumption
    <3>2. HasJoined(z)'
      <4>1. phase' = [phase EXCEPT ![z] = "routing"]
        BY <1>1, <1>2, <2>5, JoinCases
      <4> QED BY <4>1 DEF HasJoined, SessionInv, RelayTyped, RegistryTyped, HandlersOK
    <3>3. Known(DashName[z])'
      BY <2>5, <3>2 DEF Known
    <3> QED BY <1>1, <1>2, <2>5, <3>1, <3>3 DEF NotesFor
  <2> QED BY <1>2, <2>1, <2>2, <2>3, <2>4, <2>5 DEF JoinNote
<1>3. ASSUME RelayCleanup(z), NEW e \in Notices, LeaveNote(z, a, e) PROVE e \in NotesFor(a)'
  <2>1. CASE a \in DashboardConn(TheRoom) /\ e = PeerLeave(Controller)
    BY <1>0, <1>3, <2>1 DEF NotesFor
  <2>2. CASE z \in DashConn /\ a = controller[TheRoom] /\ e = PeerLeave(DashName[z])
    <3>1. a \in CtlConn
      BY <1>0, <2>2, RelayAssumption
    <3>2. HasJoined(z)
      BY <1>3 DEF RelayCleanup, Cleanup, HasJoined
    <3>3. Known(DashName[z])'
      BY <1>0, <2>2, <3>2 DEF Known
    <3> QED BY <1>1, <1>3, <2>2, <3>1, <3>3 DEF NotesFor
  <2> QED BY <1>3, <2>1, <2>2 DEF LeaveNote
<1> QED BY <1>2, <1>3 DEF Letters

\* Every step posts only what may be addressed to its recipient.
LEMMA PostedStays ==
  ASSUME SessionInv, LinkInv, PlaceInv, [Next]_vars
  PROVE  Posted'
<1> SUFFICES ASSUME NEW a \in Conn
             PROVE  /\ queue'[a] \in Seq(Letters(a)')
                    /\ \A b \in Conn : pending'[b] # <<>> /\ pending'[b][1].rcpt = a
                                        => pending'[b][1].env \in FramesFor(a)'
  BY DEF Posted, Letters, NotesFor, FramesFor, Known, Genuine, FromDash
<1> PICK L : L = Letters(a)'
  OBVIOUS
<1> PICK F : F = FramesFor(a)'
  OBVIOUS
<1> PICK E : E = Envelopes
  OBVIOUS
<1>0. /\ queue[a] \in Seq(L) /\ F \subseteq L /\ FramesFor(a) \subseteq F
      /\ pending \in [Conn -> Seq(Packages(E))] /\ queue \in [Conn -> Seq(E)]
  <2>1. Letters(a) \subseteq L /\ FramesFor(a) \subseteq F /\ F \subseteq L
    BY LettersStay DEF Letters
  <2> PICK K : K = Letters(a)
    OBVIOUS
  <2>2. queue[a] \in Seq(K) /\ K \subseteq L
    BY <2>1 DEF PlaceInv, Posted
  <2>3. queue[a] \in Seq(L)
    BY ONLY <2>2, SeqMonotonic
  <2> QED BY <2>1, <2>3, RelayTypedNow DEF RelayTyped, HeldOK, QueuesOK
<1>1. ASSUME NEW z \in Conn, RelayJoin(z) PROVE queue'[a] \in Seq(L)
  <2> PICK S : S = {e \in Notices : JoinNote(z, a, e)}
    OBVIOUS
  <2>1. PICK t \in Seq(S) : queue'[a] = queue[a] \o t
    BY <1>1, JoinMail
  <2>2. S \subseteq L
    BY <1>1, NotesFit
  <2>3. t \in Seq(L)
    BY <2>1, <2>2, SeqMonotonic
  <2> QED BY <1>0, <2>1, <2>3, ConcatProperties
<1>2. ASSUME NEW z \in Conn, RelayCleanup(z) PROVE queue'[a] \in Seq(L)
  <2>1. CASE a = z
    <3>1. queue'[a] = <<>>
      BY <1>2, <2>1, LeaveMail
    <3> QED BY <3>1
  <2>2. CASE a # z
    <3> PICK S : S = {e \in Notices : LeaveNote(z, a, e)}
      OBVIOUS
    <3>1. PICK t \in Seq(S) : queue'[a] = queue[a] \o t
      BY <1>2, <2>2, LeaveMail
    <3>2. S \subseteq L
      BY <1>2, NotesFit
    <3>3. t \in Seq(L)
      BY <3>1, <3>2, SeqMonotonic
    <3> QED BY <1>0, <3>1, <3>3, ConcatProperties
  <2> QED BY <2>1, <2>2
<1>3. ASSUME NEW z \in Conn, RelayForward(z) PROVE queue'[a] \in Seq(L)
  <2>1. CASE queue'[a] = queue[a]
    BY <1>0, <2>1
  <2>2. CASE queue'[a] # queue[a]
    <3> PICK e : e = pending[z][1].env
      OBVIOUS
    <3>1. pending[z] # <<>> /\ pending[z][1].rcpt = a /\ queue'[a] = queue[a] \o <<e>>
      BY <1>3, <2>2, ForwardMail
    <3>2. e \in L
      BY <1>0, <3>1 DEF PlaceInv, Posted
    <3>3. <<e>> \in Seq(L)
      BY <3>2
    <3> QED BY <1>0, <3>1, <3>3, ConcatProperties
  <2> QED BY <2>1, <2>2
<1>4. ASSUME NEW z \in Conn, RelayRead(z) \/ RelayEnd(z) PROVE queue'[a] = queue[a]
  BY <1>4 DEF RelayRead, RelayEnd, RouteLookup, StreamEnd, outgoing
<1>5. ASSUME NEW c \in Conn, NEW env, Take(c, env) PROVE queue'[a] \in Seq(L)
  <2>1. queue[c] # <<>> /\ queue' = [queue EXCEPT ![c] = Tail(@)]
    BY <1>5 DEF Take
  <2>2. queue'[a] = IF a = c THEN Tail(queue[a]) ELSE queue[a]
    BY <1>0, <2>1
  <2>3. queue[a] # <<>> => Tail(queue[a]) \in Seq(L)
    BY <1>0, HeadTailProperties
  <2> QED BY <1>0, <2>1, <2>2, <2>3
<1>6. ASSUME queue' = queue PROVE queue'[a] \in Seq(L)
  BY <1>0, <1>6
<1>7. queue'[a] \in Seq(L)
  <2>1. CASE Next
    BY <1>0, <1>1, <1>2, <1>3, <1>4, <1>5, <1>6, <2>1, StepCases, ConnParts DEF RelayStep, CtlConnect,
      CtlDisconnect, CtlIgnore, CtlPeerJoin, CtlPeerLeave, CtlUnknown, CtlMsg1, CtlMsg3, CtlBadHandshake,
      CtlData, CtlFanout, DashConnect, DashClose, DashInput, DashIgnore, DashPeerJoin, DashPeerLeave,
      DashMsg2, DashThrow, DashData, Hangup, relayVars
  <2> QED BY <1>6, <2>1 DEF vars, relayVars
<1>8. ASSUME NEW b \in Conn, pending'[b] # <<>>, pending'[b][1].rcpt = a
      PROVE  pending'[b][1].env \in F
  <2>1. CASE pending'[b] = pending[b]
    <3>1. pending[b][1].env \in FramesFor(a)
      BY <1>8, <2>1 DEF PlaceInv, Posted
    <3> QED BY <1>0, <2>1, <3>1
  <2>2. CASE pending'[b] # pending[b]
    <3>1. PICK z \in Conn : RelayStep(z)
      BY <2>2, ClientStep
    <3>2. ~RelayJoin(z) /\ ~RelayEnd(z) /\ ~RelayCleanup(z)
      BY <2>2 DEF RelayJoin, RelayEnd, RelayCleanup, JoinController, JoinDashboard, Refuse, StreamEnd, Cleanup
    <3>3. ~RelayForward(z)
      BY <1>0, <1>8, <2>2 DEF RelayForward, RouteSend
    <3>4. RelayRead(z)
      BY <3>1, <3>2, <3>3 DEF RelayStep
    <3> PICK m : m = Head(wire[z])
      OBVIOUS
    <3>5. phase[z] = "routing" /\ wire[z] # <<>> /\ RouteLookup(z, m.to, m.data)
      BY <3>4 DEF RelayRead, RouteLookup
    <3> PICK d : d = Lookup(ident[z].room, m.to)
      OBVIOUS
    <3> PICK e : e = Deliver(ident[z].id, m.data)
      OBVIOUS
    <3>6. pending' = [pending EXCEPT ![z] = IF d = NoConn THEN <<>> ELSE << [rcpt |-> d, env |-> e] >>]
      BY <3>5 DEF RouteLookup
    <3>7. b = z /\ pending'[b] = << [rcpt |-> d, env |-> e] >>
      BY <1>0, <1>8, <2>2, <3>6
    <3>8. d = a /\ pending'[b][1].env = e
      BY <1>8, <3>7
    <3>9. m \in Outgoing(z) /\ e \in Genuine /\ HasJoined(z)
      BY <3>5, ReadGenuine DEF HasJoined
    <3>10. e \in FramesFor(a)
      BY <3>8, <3>9, RecipientFits
    <3> QED BY <1>0, <3>8, <3>10
  <2> QED BY <2>1, <2>2
<1> QED BY <1>7, <1>8


\* The controller waits for message 1 of those it was told of only.
LEMMA AwaitingByJoin ==
  ASSUME SessionInv, [Next]_vars, NEW p \in PeerId, peers'[p].st = "awaiting", peers[p].st # "awaiting"
  PROVE  ctl \in CtlConn /\ CtlPeerJoin(p)
<1>0. peers \in [PeerId -> PeerState]
  BY DEF SessionInv, TypeOK, PeerState, AnsweredPeer, ReadyPeer
<1>1. peers' # peers /\ peers'[p] # peers[p]
  OBVIOUS
<1>2. Next
  BY <1>1 DEF vars, ctlVars
<1>3. ASSUME NEW c \in CtlConn, CtlConnect(c) PROVE FALSE
  BY <1>3 DEF CtlConnect, NoPeer
<1>4. ASSUME CtlDisconnect PROVE FALSE
  BY <1>4 DEF CtlDisconnect, NoPeer
<1>5. ASSUME NEW x \in PeerId, CtlPeerLeave(x) PROVE FALSE
  BY <1>0, <1>5 DEF CtlPeerLeave, NoPeer
<1>6. ASSUME NEW x \in PeerId, CtlPeerJoin(x) PROVE x = p
  BY <1>0, <1>6 DEF CtlPeerJoin
<1>7. ASSUME NEW x \in PeerId, NEW d \in Frame, CtlUnknown(x, d) \/ CtlBadHandshake(x, d) PROVE FALSE
  BY <1>0, <1>7 DEF CtlUnknown, CtlBadHandshake, ctlVars, NoPeer
<1>8. ASSUME NEW x \in PeerId, NEW d \in Frame, CtlMsg1(x, d) PROVE FALSE
  BY <1>0, <1>8 DEF CtlMsg1, Answered
<1>9. ASSUME NEW x \in PeerId, NEW d \in Frame, CtlMsg3(x, d) PROVE FALSE
  BY <1>0, <1>9 DEF CtlMsg3, Ready, NoPeer
<1>10. ASSUME NEW x \in PeerId, NEW d \in Frame, CtlData(x, d) PROVE FALSE
  <2>1. peers' = [peers EXCEPT ![x].rx = @ + 1] /\ peers[x].st = "ready"
    BY <1>1, <1>10 DEF CtlData
  <2>2. peers[x] \in ReadyPeer
    BY <1>0, <2>1, PeerFields
  <2>3. peers'[p] = IF p = x THEN [peers[x] EXCEPT !.rx = @ + 1] ELSE peers[p]
    BY <1>0, <2>1
  <2> QED BY <2>1, <2>2, <2>3, PeerCounts
<1>11. ASSUME CtlFanout PROVE FALSE
  <2>1. peers'[p] = IF peers[p].st = "ready" THEN [peers[p] EXCEPT !.tx = @ + 1] ELSE peers[p]
    BY <1>11 DEF CtlFanout
  <2>2. peers[p].st = "ready" => peers[p] \in ReadyPeer
    BY <1>0, PeerFields
  <2> QED BY <2>1, <2>2, PeerCounts
<1>12. ASSUME \/ CtlIgnore
              \/ \E c \in DashConn : \/ DashConnect(c) \/ DashClose(c) \/ DashInput(c)
                                    \/ DashIgnore(c) \/ DashPeerJoin(c) \/ DashPeerLeave(c)
       PROVE  FALSE
  BY <1>1, <1>12 DEF CtlIgnore, DashConnect, DashClose, DashInput, DashIgnore, DashPeerJoin, DashPeerLeave,
     ctlVars
<1>13. ASSUME NEW c \in DashConn, NEW d \in Frame, DashMsg2(c, d) \/ DashThrow(c, d) \/ DashData(c, d)
       PROVE  FALSE
  BY <1>1, <1>13 DEF DashMsg2, DashThrow, DashData, ctlVars
<1> QED BY <1>1, <1>2, <1>3, <1>4, <1>5, <1>6, <1>7, <1>8, <1>9, <1>10, <1>11, <1>12, <1>13, StepCases,
           RelayKeeps

\* What a client takes from its queue is for it.
LEMMA TakeFits ==
  ASSUME SessionInv, PlaceInv, NEW a \in Conn, NEW env, Take(a, env)
  PROVE  env \in Letters(a) /\ queue[a] # <<>> /\ env = Head(queue[a]) /\ queue'[a] = Tail(queue[a])
<1> PICK E : E = Envelopes
  OBVIOUS
<1> PICK L : L = Letters(a)
  OBVIOUS
<1>1. queue \in [Conn -> Seq(E)] /\ queue[a] \in Seq(L)
  BY RelayTypedNow DEF RelayTyped, QueuesOK, PlaceInv, Posted
<1>2. queue[a] # <<>> /\ env = Head(queue[a]) /\ queue'[a] = Tail(queue[a])
  BY <1>1 DEF Take
<1>3. Head(queue[a]) \in L
  BY <1>1, <1>2, HeadTailProperties
<1> QED BY <1>2, <1>3

\* The controller has peers only for names that have joined, after every step.
LEMMA PeersKnownStays ==
  ASSUME SessionInv, LinkInv, PlaceInv, [Next]_vars
  PROVE  PeersKnown'
<1> SUFFICES ASSUME NEW p \in PeerId, peers'[p].st # "none" PROVE Known(p)'
  BY DEF PeersKnown, Known, HasJoined
<1>1. Known(p) => Known(p)'
  BY LettersStay
<1>2. CASE SamePeer(p) \/ PeerAdmitted(p)
  BY <1>1, <1>2 DEF SamePeer, PeerAdmitted, PlaceInv, PeersKnown
<1>3. CASE PeerAnswered(p)
  <2>1. PICK d \in Frame : Sound(d) /\ DashName[d.c] = p
    BY <1>3 DEF PeerAnswered
  <2>2. d.c \in DashConn /\ d.n \in Nat /\ dash[d.c].n \in Nat
    BY FrameFields DEF SessionInv, TypeOK
  <2>3. dash[d.c].n # 0
    BY <2>1, <2>2 DEF Sound
  <2>4. HasJoined(d.c)
    BY <2>2, <2>3 DEF PlaceInv, BegunJoined
  <2> QED BY <1>1, <2>1, <2>2, <2>4 DEF Known
<1>4. CASE peers'[p].st = "awaiting"
  <2>1. CASE peers[p].st = "awaiting"
    BY <1>1, <2>1 DEF PlaceInv, PeersKnown
  <2>2. CASE peers[p].st # "awaiting"
    <3>1. ctl \in CtlConn /\ Take(ctl, PeerJoin(p))
      BY <1>4, <2>2, AwaitingByJoin DEF CtlPeerJoin
    <3>2. PeerJoin(p) \in Letters(ctl)
      BY <3>1, TakeFits, ConnParts
    <3>3. PeerJoin(p) \in NotesFor(ctl)
      BY <3>2 DEF Letters, FramesFor, Genuine, PeerJoin
    <3>4. Known(p)
      BY <3>1, <3>3, ConnParts DEF NotesFor, Joined, Error, PeerJoin, PeerLeave
    <3> QED BY <1>1, <3>4
  <2> QED BY <2>1, <2>2
<1> QED BY <1>2, <1>3, <1>4, PeerMoves DEF PeerMove

\* Only a dashboard that has joined has begun a handshake, after every step.
LEMMA BegunJoinedStays ==
  ASSUME SessionInv, LinkInv, PlaceInv, [Next]_vars
  PROVE  BegunJoined'
<1> SUFFICES ASSUME NEW c \in DashConn
             PROVE  IF dash'[c].n = 0 THEN dash'[c] = NoDash ELSE HasJoined(c)'
  BY DEF BegunJoined, HasJoined
<1>0. c \in Conn /\ dash \in [DashConn -> DashState] /\ (HasJoined(c) => HasJoined(c)')
  BY ConnParts, JoinedStays DEF SessionInv, TypeOK, DashState
<1>1. CASE dash'[c] = dash[c]
  BY <1>0, <1>1 DEF PlaceInv, BegunJoined
<1>2. CASE dash'[c] # dash[c]
  <2>1. CASE dash[c].n # 0
    <3>1. dash[c].n \in Nat
      BY <1>0 DEF DashState
    <3>2. dash'[c].n # 0
      BY <2>1, <3>1, DashMoves DEF DashMove
    <3> QED BY <1>0, <2>1, <3>2 DEF PlaceInv, BegunJoined
  <2>2. CASE dash[c].n = 0
    <3>0. dash[c] = NoDash /\ dash' # dash
      BY <1>2, <2>2 DEF PlaceInv, BegunJoined
    <3>1. Next
      BY <3>0 DEF vars, dashVars
    <3>2. PICK b \in DashConn : \/ DashInput(b) \/ DashPeerJoin(b) \/ DashPeerLeave(b)
            \/ \E d \in Frame : DashMsg2(b, d) \/ DashThrow(b, d) \/ DashData(b, d)
      BY <3>0, <3>1, StepCases, RelayKeeps DEF CtlConnect, CtlDisconnect, CtlIgnore, CtlPeerJoin,
        CtlPeerLeave, CtlUnknown, CtlMsg1, CtlMsg3, CtlBadHandshake, CtlData, CtlFanout, DashConnect,
        DashClose, DashIgnore, dashVars
    <3>3. ASSUME NEW b2 \in DashConn, NEW z, dash' = [dash EXCEPT ![b2] = z] PROVE b2 = c
      BY <1>0, <1>2, <3>3
    <3>4. ASSUME DashInput(b) PROVE FALSE
      <4>1. b = c
        BY <1>0, <1>2, <3>4 DEF DashInput
      <4> QED BY <3>0, <3>4, <4>1 DEF DashInput, NoDash
    <3>5. ASSUME DashPeerLeave(b) PROVE FALSE
      <4>1. b = c
        BY <1>0, <1>2, <3>5 DEF DashPeerLeave
      <4> QED BY <1>0, <1>2, <3>0, <3>5, <4>1 DEF DashPeerLeave, NoDash
    <3>6. ASSUME NEW d \in Frame, DashMsg2(b, d) \/ DashThrow(b, d) \/ DashData(b, d) PROVE FALSE
      <4>1. b = c
        BY <1>0, <1>2, <3>6 DEF DashMsg2, DashThrow, DashData
      <4>2. ~DashMsg2(b, d) /\ ~DashData(b, d)
        BY <3>0, <4>1 DEF DashMsg2, DashData, IsMsg2Of, NoDash
      <4>3. dash'[c] = [dash[c] EXCEPT !.st = "none"]
        BY <1>0, <3>0, <3>6, <4>1, <4>2 DEF DashThrow, NoDash
      <4>4. NoDash.st = "none" /\ [NoDash EXCEPT !.st = NoDash.st] = NoDash
        BY DEF NoDash
      <4> QED BY <1>2, <3>0, <4>3, <4>4
    <3>7. CASE DashPeerJoin(b)
      <4>1. b = c /\ dash'[c].n = 1 /\ Take(c, PeerJoin(Controller)) /\ PeerJoin(Controller) # Error
        BY <1>0, <1>2, <2>2, <3>7 DEF DashPeerJoin, NoDash, PeerJoin, Error
      <4>2. HasJoined(c)
        BY <1>0, <4>1, TakeJoined DEF LinkInv
      <4> QED BY <1>0, <4>1, <4>2
    <3> QED BY <3>2, <3>4, <3>5, <3>6, <3>7
  <2> QED BY <2>1, <2>2
<1> QED BY <1>1, <1>2

\* No step takes an enrolled key from the file or from a table that is loaded.
LEMMA KeysKeptStays ==
  ASSUME SessionInv, LinkInv, PlaceInv, [Next]_vars
  PROVE  KeysKept'
<1>0. Enrolled \subseteq file /\ (ctl # NoConn => Enrolled \subseteq table)
  BY DEF PlaceInv, KeysKept
<1>1. ASSUME UNCHANGED <<ctl, table, file>> PROVE KeysKept'
  BY <1>0, <1>1 DEF KeysKept
<1>2. ASSUME NEW c \in CtlConn, CtlConnect(c) PROVE KeysKept'
  BY <1>0, <1>2 DEF CtlConnect, KeysKept
<1>3. ASSUME CtlDisconnect PROVE KeysKept'
  BY <1>0, <1>3 DEF CtlDisconnect, KeysKept
<1>4. ASSUME NEW p \in PeerId, NEW d \in Frame, CtlMsg3(p, d) PROVE KeysKept'
  BY <1>0, <1>4 DEF CtlMsg3, KeysKept
<1>5. CASE UNCHANGED vars
  BY <1>1, <1>5 DEF vars, ctlVars
<1>6. CASE Next
  <2>1. ASSUME NEW p \in PeerId, NEW d \in Frame, CtlUnknown(p, d) \/ CtlMsg1(p, d) \/ CtlBadHandshake(p, d) \/ CtlData(p, d)
        PROVE  UNCHANGED <<ctl, table, file>>
    BY <2>1 DEF CtlUnknown, CtlMsg1, CtlBadHandshake, CtlData, ctlVars
  <2>2. ASSUME CtlIgnore \/ CtlFanout \/ \E p \in PeerId : CtlPeerJoin(p) \/ CtlPeerLeave(p)
        PROVE  UNCHANGED <<ctl, table, file>>
    BY <2>2 DEF CtlIgnore, CtlFanout, CtlPeerJoin, CtlPeerLeave, ctlVars
  <2>3. ASSUME NEW c \in DashConn, \/ DashConnect(c) \/ DashClose(c) \/ DashInput(c)
                                   \/ DashIgnore(c) \/ DashPeerJoin(c) \/ DashPeerLeave(c)
        PROVE  UNCHANGED <<ctl, table, file>>
    BY <2>3 DEF DashConnect, DashClose, DashInput, DashIgnore, DashPeerJoin, DashPeerLeave, ctlVars
  <2>4. ASSUME NEW c \in DashConn, NEW d \in Frame, DashMsg2(c, d) \/ DashThrow(c, d) \/ DashData(c, d)
        PROVE  UNCHANGED <<ctl, table, file>>
    BY <2>4 DEF DashMsg2, DashThrow, DashData, ctlVars
  <2> QED BY <1>1, <1>2, <1>3, <1>4, <1>6, <2>1, <2>2, <2>3, <2>4, StepCases, RelayKeeps
<1> QED BY <1>5, <1>6

\* Every step keeps these facts.
LEMMA StepPlaceInv == ASSUME SessionInv, LinkInv, PlaceInv, [Next]_vars PROVE PlaceInv'
BY PostedStays, PeersKnownStays, BegunJoinedStays, KeysKeptStays DEF PlaceInv


-----------------------------------------------------------------------------
(* What a dashboard has been told of the controller.                       *)

\* What a step of z's handler tells connection a.
Notified(z, a, e) ==
  \/ RelayJoin(z) /\ JoinNote(z, a, e)
  \/ RelayCleanup(z) /\ LeaveNote(z, a, e)

\* What occurs once in the whole occurs once in the front, and not in both parts.
LEMMA ConcatOnce ==
  ASSUME NEW S, NEW s \in Seq(S), NEW t \in Seq(S), NEW M, Once(s \o t, M)
  PROVE  Once(s, M) /\ ~(Has(s, M) /\ Has(t, M))
<1> PICK w : w = s \o t
  OBVIOUS
<1>1. /\ Len(s) \in Nat /\ Len(t) \in Nat
      /\ \A i \in 1..Len(s) : w[i] = s[i]
      /\ \A i \in 1..Len(t) : w[Len(s) + i] = t[i]
      /\ DOMAIN s = 1..Len(s) /\ DOMAIN t = 1..Len(t) /\ DOMAIN w = 1..(Len(s) + Len(t))
  <2>1. /\ Len(s) \in Nat /\ Len(t) \in Nat /\ Len(w) = Len(s) + Len(t) /\ w \in Seq(S)
        /\ \A i \in 1..Len(s) : w[i] = s[i]
        /\ \A i \in 1..Len(t) : w[Len(s) + i] = t[i]
    BY ConcatProperties, LenProperties
  <2> QED BY <2>1, LenProperties
<1>2. Once(s, M)
  <2> SUFFICES ASSUME NEW i \in DOMAIN s, NEW j \in DOMAIN s, s[i] \in M, s[j] \in M PROVE i = j
    BY DEF Once
  <2>1. i \in DOMAIN w /\ j \in DOMAIN w /\ w[i] = s[i] /\ w[j] = s[j]
    BY <1>1
  <2> QED BY <2>1 DEF Once
<1>3. ASSUME Has(s, M), Has(t, M) PROVE FALSE
  <2>1. PICK i \in DOMAIN s : s[i] \in M
    BY <1>3 DEF Has
  <2>2. PICK j \in DOMAIN t : t[j] \in M
    BY <1>3 DEF Has
  <2>3. i \in DOMAIN w /\ Len(s) + j \in DOMAIN w /\ w[i] = s[i] /\ w[Len(s) + j] = t[j] /\ i # Len(s) + j
    BY <1>1
  <2> QED BY <2>1, <2>2, <2>3 DEF Once
<1> QED BY <1>2, <1>3

\* Notices of kind M are added by joins and cleanups, and stay.
LEMMA NoticeFlow ==
  ASSUME SessionInv, LinkInv, NEW z \in Conn, RelayStep(z), NEW a \in Conn, phase[a] # "leaving",
         NEW M, M \subseteq Notices
  PROVE  /\ Has(queue[a], M) => Has(queue'[a], M)
         /\ Has(queue'[a], M) => Has(queue[a], M) \/ \E e \in M : Notified(z, a, e)
         /\ (\A e \in M : ~Notified(z, a, e)) /\ Once(queue[a], M) => Once(queue'[a], M)
<1>0. PICK S : queue[a] \in Seq(S) /\ Notices \subseteq S /\ Genuine \subseteq S
  BY Sequences
<1>1. ASSUME NEW T, T \subseteq S, NEW t \in Seq(T), queue'[a] = queue[a] \o t,
             \A e \in T \cap M : Notified(z, a, e)
      PROVE  /\ Has(queue[a], M) => Has(queue'[a], M)
             /\ Has(queue'[a], M) => Has(queue[a], M) \/ \E e \in M : Notified(z, a, e)
             /\ (\A e \in M : ~Notified(z, a, e)) /\ Once(queue[a], M) => Once(queue'[a], M)
  <2>1. t \in Seq(S)
    BY <1>1, SeqMonotonic
  <2>2. /\ Has(queue[a] \o t, M) <=> Has(queue[a], M) \/ Has(t, M)
        /\ Once(queue[a], M) /\ Once(t, M) /\ ~(Has(queue[a], M) /\ Has(t, M)) => Once(queue[a] \o t, M)
    BY <1>0, <2>1, ConcatHas
  <2>3. (\A e \in M : ~Notified(z, a, e)) => ~Has(t, M) /\ Once(t, M)
    <3> SUFFICES ASSUME \A e \in M : ~Notified(z, a, e) PROVE ~Has(t, M) /\ Once(t, M)
      OBVIOUS
    <3>1. T \cap M = {}
      BY <1>1
    <3> QED BY <3>1, OtherHas
  <2> QED BY <1>1, <2>2, <2>3
<1>2. CASE RelayJoin(z)
  <2> PICK T : T = {e \in Notices : JoinNote(z, a, e)}
    OBVIOUS
  <2>1. PICK t \in Seq(T) : queue'[a] = queue[a] \o t
    BY <1>2, JoinMail
  <2>2. T \subseteq S /\ \A e \in T \cap M : Notified(z, a, e)
    BY <1>0, <1>2 DEF Notified
  <2> QED BY <1>1, <2>1, <2>2
<1>3. CASE RelayCleanup(z)
  <2>0. a # z
    BY <1>3 DEF RelayCleanup, Cleanup
  <2> PICK T : T = {e \in Notices : LeaveNote(z, a, e)}
    OBVIOUS
  <2>1. PICK t \in Seq(T) : queue'[a] = queue[a] \o t
    BY <1>3, <2>0, LeaveMail
  <2>2. T \subseteq S /\ \A e \in T \cap M : Notified(z, a, e)
    BY <1>0, <1>3 DEF Notified
  <2> QED BY <1>1, <2>1, <2>2
<1>4. CASE RelayForward(z)
  <2>1. CASE queue'[a] = queue[a]
    BY <2>1
  <2>2. CASE queue'[a] # queue[a]
    <3> PICK e : e = pending[z][1].env
      OBVIOUS
    <3>1. pending[z] # <<>> /\ queue'[a] = queue[a] \o <<e>>
      BY <1>4, <2>2, ForwardMail
    <3>2. e \in Genuine
      BY <3>1 DEF LinkInv, HeldOwn
    <3>3. {e} \subseteq S /\ <<e>> \in Seq({e}) /\ {e} \cap M = {}
      BY <1>0, <3>2 DEF Genuine, Notices, Joined, Error
    <3> QED BY <1>1, <3>1, <3>3
  <2> QED BY <2>1, <2>2
<1>5. CASE RelayRead(z) \/ RelayEnd(z)
  <2>1. queue'[a] = queue[a]
    BY <1>5 DEF RelayRead, RelayEnd, RouteLookup, StreamEnd, outgoing
  <2> QED BY <2>1
<1> QED BY <1>2, <1>3, <1>4, <1>5 DEF RelayStep

\* A join is told to those it concerns whose queues hold: to the dashboards and
\* of them, to the controller and of it; to each once.
LEMMA JoinTells ==
  ASSUME SessionInv, LinkInv, NEW z \in Conn, RelayJoin(z), NEW a \in Conn, ~lost'[a], phase[a] # "gone"
  PROVE  /\ z \in CtlConn /\ SlotFree(TheRoom) /\ a \in DashboardConn(TheRoom) =>
              /\ Has(queue'[a], {PeerJoin(Controller)})
              /\ Once(queue'[a], {PeerJoin(Controller)}) => ~Has(queue[a], {PeerJoin(Controller)})
         /\ z \in CtlConn /\ SlotFree(TheRoom) /\ a = z =>
              \A p \in Present(TheRoom) : /\ Has(queue'[a], {PeerJoin(p)})
                                          /\ Once(queue'[a], {PeerJoin(p)})
         /\ z \in DashConn /\ a = z /\ controller[TheRoom] # NoConn =>
              Has(queue'[a], {PeerJoin(Controller)})
         /\ z \in DashConn /\ a = controller[TheRoom] /\ ~Has(queue[a], {PeerJoin(DashName[z])}) =>
              Has(queue'[a], {PeerJoin(DashName[z])}) /\ Once(queue'[a], {PeerJoin(DashName[z])})
<1>0. PICK S : queue[a] \in Seq(S) /\ Notices \subseteq S /\ Genuine \subseteq S
  BY Sequences
<1>1. /\ Joined \in Notices /\ \A p \in Name : PeerJoin(p) \in Notices
      /\ Controller \in Name /\ PeerId \subseteq Name /\ Present(TheRoom) \subseteq PeerId
  BY NoticeTypes DEF Name, Present
<1>2. writer[a] = "running"
  BY DEF LinkInv, WriterUp, SessionInv, RelayTyped, QueuesOK
<1>3. ~HasJoined(z) /\ phase[z] = "joining"
  BY JoinCases DEF HasJoined
<1>4. a = z => \A M : Error \notin M => ~Has(queue[a], M)
  <2>1. a = z => queue[a] \in Seq({Error})
    BY <1>3 DEF LinkInv, Unjoined
  <2>2. ASSUME a = z, NEW M, Error \notin M PROVE ~Has(queue[a], M)
    <3>1. {Error} \cap M = {}
      BY <2>2
    <3> QED BY <2>1, <2>2, <3>1, OtherHas
  <2> QED BY <2>2
<1>5. ASSUME NEW mail, Send(mail), NEW T, T \subseteq S, mail[a] \in Seq(T), NEW M
      PROVE  /\ Has(mail[a], M) => Has(queue'[a], M) /\ (Once(queue'[a], M) => ~Has(queue[a], M))
             /\ ~Has(queue[a], M) /\ Once(mail[a], M) => Once(queue'[a], M)
  <2> PICK t : t = mail[a]
    OBVIOUS
  <2>1. queue'[a] = queue[a] \o t /\ t \in Seq(S)
    BY <1>2, <1>5, MailTaken, SeqMonotonic
  <2>2. ~Has(queue[a], M) => Once(queue[a], M)
    BY DEF Has, Once
  <2>3. Once(queue[a] \o t, M) => ~(Has(queue[a], M) /\ Has(t, M))
    BY <1>0, <2>1, ConcatOnce
  <2> QED BY <1>0, <2>1, <2>2, <2>3, ConcatHas
<1>6. ASSUME z \in CtlConn, SlotFree(TheRoom), NEW order \in SetToSeqs(Present(TheRoom)), Send(CtlMail(z, order))
      PROVE  /\ a \in DashboardConn(TheRoom) =>
                  /\ Has(queue'[a], {PeerJoin(Controller)})
                  /\ Once(queue'[a], {PeerJoin(Controller)}) => ~Has(queue[a], {PeerJoin(Controller)})
             /\ a = z => \A p \in Present(TheRoom) : /\ Has(queue'[a], {PeerJoin(p)})
                                                     /\ Once(queue'[a], {PeerJoin(p)})
  <2> PICK mail : mail = CtlMail(z, order)
    OBVIOUS
  <2>1. ASSUME a \in DashboardConn(TheRoom)
        PROVE  /\ Has(queue'[a], {PeerJoin(Controller)})
               /\ Once(queue'[a], {PeerJoin(Controller)}) => ~Has(queue[a], {PeerJoin(Controller)})
    <3>1. a \in DashConn
      BY <2>1, RoomGiven, RegistryKinds DEF DashboardConn, Present
    <3>2. a # z
      BY <1>6, <3>1, ConnParts
    <3>3. mail[a] = <<PeerJoin(Controller)>>
      BY <2>1, <3>2 DEF CtlMail
    <3>4. {PeerJoin(Controller)} \subseteq S /\ mail[a] \in Seq({PeerJoin(Controller)})
      BY <1>0, <1>1, <3>3
    <3>5. Has(mail[a], {PeerJoin(Controller)})
      BY <3>3, OneHas
    <3> QED BY <1>5, <1>6, <3>4, <3>5
  <2>2. ASSUME a = z, NEW p \in Present(TheRoom)
        PROVE  Has(queue'[a], {PeerJoin(p)}) /\ Once(queue'[a], {PeerJoin(p)})
    <3>1. IsFiniteSet(Present(TheRoom))
      BY <1>1, RelayAssumption, FS_Subset
    <3>2. PICK n \in Nat : /\ order \in [1..n -> Present(TheRoom)]
                           /\ \E i \in 1..n : order[i] = p
                           /\ \A i, j \in 1..n : order[i] = order[j] => i = j
      BY <2>2, <3>1, WalkParts
    <3> PICK G : G = {Joined} \cup {PeerJoin(x) : x \in Present(TheRoom)}
      OBVIOUS
    <3>3. /\ Greeting(order) \in Seq(G) /\ G \subseteq S
          /\ Has(Greeting(order), {PeerJoin(p)}) /\ Once(Greeting(order), {PeerJoin(p)})
      BY <1>0, <1>1, <3>2, GreetingItems
    <3>4. mail[a] = Greeting(order)
      BY <2>2 DEF CtlMail
    <3>5. ~Has(queue[a], {PeerJoin(p)})
      BY <1>4, <2>2 DEF PeerJoin, Error
    <3> QED BY <1>5, <1>6, <3>3, <3>4, <3>5
  <2> QED BY <2>1, <2>2
<1>7. ASSUME z \in DashConn, Send(DashMail(z))
      PROVE  /\ a = z /\ controller[TheRoom] # NoConn => Has(queue'[a], {PeerJoin(Controller)})
             /\ a = controller[TheRoom] /\ ~Has(queue[a], {PeerJoin(DashName[z])}) =>
                  Has(queue'[a], {PeerJoin(DashName[z])}) /\ Once(queue'[a], {PeerJoin(DashName[z])})
  <2> PICK mail : mail = DashMail(z)
    OBVIOUS
  <2>1. ASSUME a = z, controller[TheRoom] # NoConn PROVE Has(queue'[a], {PeerJoin(Controller)})
    <3> PICK G : G = {Joined} \cup {PeerJoin(x) : x \in {Controller}}
      OBVIOUS
    <3> PICK ps : ps = <<Controller>>
      OBVIOUS
    <3>1. ps \in [1..1 -> {Controller}] /\ ps[1] = Controller /\ 1 \in 1..1
      OBVIOUS
    <3>2. Greeting(ps) \in Seq(G) /\ Has(Greeting(ps), {PeerJoin(Controller)})
      <4>1. Greeting(ps) \in Seq(G) /\ \A i \in 1..1 : Has(Greeting(ps), {PeerJoin(ps[i])})
        BY <3>1, GreetingItems
      <4>2. Has(Greeting(ps), {PeerJoin(ps[1])})
        BY <4>1
      <4> QED BY <3>1, <4>1, <4>2
    <3>3. G \subseteq S /\ mail[a] = Greeting(ps)
      BY <1>0, <1>1, <2>1 DEF DashMail
    <3> QED BY <1>5, <1>7, <3>2, <3>3
  <2>2. ASSUME a = controller[TheRoom], ~Has(queue[a], {PeerJoin(DashName[z])})
        PROVE  Has(queue'[a], {PeerJoin(DashName[z])}) /\ Once(queue'[a], {PeerJoin(DashName[z])})
    <3> PICK p : p = DashName[z]
      OBVIOUS
    <3>1. a \in CtlConn /\ a # z
      <4>1. a # NoConn
        BY RelayAssumption
      <4> QED BY <1>7, <2>2, <4>1, RoomGiven, RegistryKinds, ConnParts
    <3>2. mail[a] = <<PeerJoin(p)>> /\ p \in Name
      BY <1>7, <2>2, <3>1, ConnParts DEF DashMail
    <3>3. {PeerJoin(p)} \subseteq S /\ mail[a] \in Seq({PeerJoin(p)})
      BY <1>0, <1>1, <3>2
    <3>4. Has(mail[a], {PeerJoin(p)}) /\ Once(mail[a], {PeerJoin(p)})
      BY <3>2, OneHas
    <3> QED BY <1>5, <1>7, <2>2, <3>3, <3>4
  <2> QED BY <2>1, <2>2
<1> QED BY <1>6, <1>7, JoinCases, ConnParts


-----------------------------------------------------------------------------
(* Which step of a client changes what.                                    *)

\* A dashboard changes by steps of its own.
LEMMA DashSteps ==
  ASSUME SessionInv, [Next]_vars, NEW c \in DashConn, dash'[c] # dash[c]
  PROVE  \/ DashInput(c) \/ DashPeerJoin(c) \/ DashPeerLeave(c)
         \/ \E d \in Frame : DashMsg2(c, d) \/ DashThrow(c, d) \/ DashData(c, d)
<1>0. dash \in [DashConn -> DashState] /\ dash' # dash
  BY DEF SessionInv, TypeOK, DashState
<1>1. Next
  BY <1>0 DEF vars, dashVars
<1>2. PICK b \in DashConn : \/ DashInput(b) \/ DashPeerJoin(b) \/ DashPeerLeave(b)
          \/ \E d \in Frame : DashMsg2(b, d) \/ DashThrow(b, d) \/ DashData(b, d)
  BY <1>0, <1>1, StepCases, RelayKeeps DEF CtlConnect, CtlDisconnect, CtlIgnore, CtlPeerJoin, CtlPeerLeave,
    CtlUnknown, CtlMsg1, CtlMsg3, CtlBadHandshake, CtlData, CtlFanout, DashConnect, DashClose,
    DashIgnore, dashVars
<1>3. \E z : dash' = [dash EXCEPT ![b] = z]
  <2>1. CASE DashInput(b) \/ DashPeerJoin(b) \/ DashPeerLeave(b)
    BY <2>1 DEF DashInput, DashPeerJoin, DashPeerLeave
  <2>2. ASSUME NEW d \in Frame, DashMsg2(b, d) \/ DashThrow(b, d) PROVE \E z : dash' = [dash EXCEPT ![b] = z]
    BY <2>2 DEF DashMsg2, DashThrow
  <2>3. ASSUME NEW d \in Frame, DashData(b, d) PROVE \E z : dash' = [dash EXCEPT ![b] = z]
    BY <1>0, <2>3 DEF DashData
  <2> QED BY <1>2, <2>1, <2>2, <2>3
<1>4. b = c
  BY <1>0, <1>3
<1> QED BY <1>2, <1>4

\* A peer of the controller changes by a notice or a frame under its name, by a
\* fan-out, and with the connection.
LEMMA PeerSteps ==
  ASSUME SessionInv, [Next]_vars, NEW p \in PeerId, peers'[p] # peers[p], ctl' = ctl
  PROVE  /\ ctl \in CtlConn
         /\ \/ CtlPeerJoin(p) \/ CtlPeerLeave(p) \/ CtlFanout
            \/ \E d \in Frame : CtlMsg1(p, d) \/ CtlMsg3(p, d) \/ CtlBadHandshake(p, d) \/ CtlData(p, d)
<1>0. peers \in [PeerId -> PeerState] /\ peers' # peers
  BY DEF SessionInv, TypeOK, PeerState, AnsweredPeer, ReadyPeer
<1>1. Next
  BY <1>0 DEF vars, ctlVars
<1>2. ASSUME NEW c \in CtlConn, CtlConnect(c) PROVE FALSE
  BY <1>2, ConnParts DEF CtlConnect
<1>3. ASSUME CtlDisconnect PROVE FALSE
  BY <1>3 DEF CtlDisconnect
<1>4. ASSUME NEW x \in PeerId, CtlPeerJoin(x) \/ CtlPeerLeave(x) PROVE x = p
  BY <1>0, <1>4 DEF CtlPeerJoin, CtlPeerLeave
<1>5. ASSUME NEW x \in PeerId, NEW d \in Frame, CtlUnknown(x, d) PROVE FALSE
  BY <1>0, <1>5 DEF CtlUnknown, ctlVars
<1>6. ASSUME NEW x \in PeerId, NEW d \in Frame, CtlMsg1(x, d) \/ CtlMsg3(x, d) \/ CtlBadHandshake(x, d) \/ CtlData(x, d)
      PROVE  x = p
  <2>1. \E z : peers' = [peers EXCEPT ![x] = z]
    <3>1. CASE CtlMsg1(x, d) \/ CtlMsg3(x, d) \/ CtlBadHandshake(x, d)
      BY <3>1 DEF CtlMsg1, CtlMsg3, CtlBadHandshake
    <3>2. CASE CtlData(x, d)
      BY <1>0, <3>2 DEF CtlData
    <3> QED BY <1>6, <3>1, <3>2
  <2> QED BY <1>0, <2>1
<1>7. ASSUME \/ CtlIgnore
             \/ \E c \in DashConn : \/ DashConnect(c) \/ DashClose(c) \/ DashInput(c)
                                    \/ DashIgnore(c) \/ DashPeerJoin(c) \/ DashPeerLeave(c)
      PROVE  FALSE
  BY <1>0, <1>7 DEF CtlIgnore, DashConnect, DashClose, DashInput, DashIgnore, DashPeerJoin, DashPeerLeave,
     ctlVars
<1>8. ASSUME NEW c \in DashConn, NEW d \in Frame, DashMsg2(c, d) \/ DashThrow(c, d) \/ DashData(c, d)
      PROVE  FALSE
  BY <1>0, <1>8 DEF DashMsg2, DashThrow, DashData, ctlVars
<1> QED BY <1>0, <1>1, <1>2, <1>3, <1>4, <1>5, <1>6, <1>7, <1>8, StepCases, RelayKeeps

\* A client's queue changes as the client takes from it.
LEMMA ClientTakes ==
  ASSUME SessionInv, [Next]_vars, ~(\E z \in Conn : RelayStep(z)), NEW a \in Conn, queue'[a] # queue[a]
  PROVE  /\ \E env : Take(a, env)
         /\ \/ /\ a = ctl
               /\ \/ CtlIgnore \/ \E p \in PeerId : CtlPeerJoin(p) \/ CtlPeerLeave(p)
                  \/ \E p \in PeerId, d \in Frame : \/ CtlUnknown(p, d) \/ CtlMsg1(p, d) \/ CtlMsg3(p, d)
                                                    \/ CtlBadHandshake(p, d) \/ CtlData(p, d)
            \/ /\ a \in DashConn
               /\ \/ DashIgnore(a) \/ DashPeerJoin(a) \/ DashPeerLeave(a)
                  \/ \E d \in Frame : DashMsg2(a, d) \/ DashThrow(a, d) \/ DashData(a, d)
<1>0. queue' # queue
  OBVIOUS
<1>1. Next
  BY <1>0 DEF vars, relayVars
<1>2. ASSUME NEW b \in Conn, NEW env, Take(b, env) PROVE b = a
  BY <1>2, Takes
<1>3. ASSUME \/ CtlDisconnect \/ CtlFanout \/ \E c \in CtlConn : CtlConnect(c)
             \/ \E c \in DashConn : DashConnect(c) \/ DashClose(c) \/ DashInput(c)
      PROVE  FALSE
  BY <1>0, <1>3 DEF CtlDisconnect, CtlFanout, CtlConnect, DashConnect, DashClose, DashInput, Hangup, relayVars
<1>4. ASSUME ctl \in CtlConn, CtlIgnore \/ \E p \in PeerId : CtlPeerJoin(p) \/ CtlPeerLeave(p)
      PROVE  a = ctl /\ \E env : Take(a, env)
  BY <1>2, <1>4, ConnParts DEF CtlIgnore, CtlPeerJoin, CtlPeerLeave
<1>5. ASSUME ctl \in CtlConn, NEW p \in PeerId, NEW d \in Frame, \/ CtlUnknown(p, d) \/ CtlMsg1(p, d) \/ CtlMsg3(p, d)
                                                \/ CtlBadHandshake(p, d) \/ CtlData(p, d)
      PROVE  a = ctl /\ \E env : Take(a, env)
  BY <1>2, <1>5, ConnParts DEF CtlUnknown, CtlMsg1, CtlMsg3, CtlBadHandshake, CtlData
<1>6. ASSUME NEW c \in DashConn, DashIgnore(c) \/ DashPeerJoin(c) \/ DashPeerLeave(c)
      PROVE  a = c /\ \E env : Take(a, env)
  BY <1>2, <1>6, ConnParts DEF DashIgnore, DashPeerJoin, DashPeerLeave
<1>7. ASSUME NEW c \in DashConn, NEW d \in Frame, DashMsg2(c, d) \/ DashThrow(c, d) \/ DashData(c, d)
      PROVE  a = c /\ \E env : Take(a, env)
  BY <1>2, <1>7, ConnParts DEF DashMsg2, DashThrow, DashData
<1> QED BY <1>1, <1>3, <1>4, <1>5, <1>6, <1>7, StepCases

\* What a client leaves in its queue.
LEMMA TakeLeaves ==
  ASSUME SessionInv, NEW a \in Conn, NEW env, Take(a, env), NEW M
  PROVE  /\ queue[a] # <<>> /\ env = Head(queue[a]) /\ queue'[a] = Tail(queue[a])
         /\ Has(queue'[a], M) => Has(queue[a], M)
         /\ Once(queue[a], M) => Once(queue'[a], M)
         /\ env \in M => Has(queue[a], M) /\ (Once(queue[a], M) => ~Has(queue'[a], M))
         /\ env \notin M /\ Has(queue[a], M) => Has(queue'[a], M)
         /\ env \notin M /\ Once(queue'[a], M) => Once(queue[a], M)
         /\ ~Has(queue'[a], M) => Once(queue[a], M)
<1> PICK E : E = Envelopes
  OBVIOUS
<1> PICK s : s = queue[a]
  OBVIOUS
<1>0. s \in Seq(E) /\ queue \in [Conn -> Seq(E)]
  BY RelayTypedNow DEF RelayTyped, QueuesOK
<1>1. s # <<>> /\ env = Head(s) /\ queue'[a] = Tail(s)
  BY <1>0 DEF Take
<1>2. /\ Len(s) \in Nat \ {0} /\ Tail(s) \in Seq(E) /\ Head(s) = s[1]
      /\ \A i \in 1..Len(s) - 1 : Tail(s)[i] = s[i+1]
      /\ DOMAIN s = 1..Len(s) /\ DOMAIN Tail(s) = 1..Len(s) - 1
  <2>1. Tail(s) \in Seq(E) /\ Len(Tail(s)) = Len(s) - 1 /\ Len(s) \in Nat \ {0} /\ Head(s) = s[1]
    BY <1>0, <1>1, HeadTailProperties, EmptySeq, LenProperties
  <2>2. \A i \in 1..Len(Tail(s)) : Tail(s)[i] = s[i+1]
    BY <1>0, <1>1, HeadTailProperties
  <2> QED BY <1>0, <2>1, <2>2, LenProperties
<1> PICK t : t = Tail(s)
  OBVIOUS
<1>3. \A i \in DOMAIN s : i = 1 \/ (i - 1 \in DOMAIN t /\ t[i-1] = s[i] /\ i \in Nat)
  BY <1>2
<1>4. env \notin M /\ Has(s, M) => Has(t, M)
  BY <1>1, <1>2, <1>3 DEF Has
<1>5. env \notin M /\ Once(t, M) => Once(s, M)
  <2> SUFFICES ASSUME env \notin M, Once(t, M), NEW i \in DOMAIN s, NEW j \in DOMAIN s, s[i] \in M, s[j] \in M
               PROVE  i = j
    BY DEF Once
  <2>1. i # 1 /\ j # 1
    BY <1>1, <1>2
  <2>2. i - 1 \in DOMAIN t /\ j - 1 \in DOMAIN t /\ t[i-1] = s[i] /\ t[j-1] = s[j] /\ i \in Nat /\ j \in Nat
    BY <1>3, <2>1
  <2>3. i - 1 = j - 1
    BY <2>2 DEF Once
  <2> QED BY <2>2, <2>3
<1>6. ~Has(t, M) => Once(s, M)
  <2> SUFFICES ASSUME ~Has(t, M), NEW i \in DOMAIN s, NEW j \in DOMAIN s, s[i] \in M, s[j] \in M
               PROVE  i = j
    BY DEF Once
  <2> QED BY <1>3 DEF Has
<1> QED BY <1>0, <1>1, <1>4, <1>5, <1>6, TailHas


-----------------------------------------------------------------------------
(* What a dashboard knows of the controller.                               *)

\* A dashboard has still to read that the controller is there.
Greets(c) == Has(queue[c], {PeerJoin(Controller)})

\* A dashboard that the controller is linked to was told of it, if its queue held;
\* one that was not told that it came is not told that it goes.
ToldOf(c) ==
  phase[c] = "routing" /\ ~NameShared(c) /\ ~lost[c] =>
    /\ controller[TheRoom] # NoConn => dash[c].n # 0 \/ Greets(c)
    /\ dash[c].n = 0 /\ ~Greets(c) => ~Has(queue[c], {PeerLeave(Controller)})
Told == \A c \in DashConn : ToldOf(c)

\* At first no dashboard has joined.
LEMMA InitTold == Init => Told
BY ConnParts DEF Init, RelayInit, Told, ToldOf

\* The notices about the controller.
LEMMA ControllerNotices ==
  /\ {PeerJoin(Controller)} \subseteq Notices /\ {PeerLeave(Controller)} \subseteq Notices
  /\ \A p \in PeerId : {PeerJoin(p)} \subseteq Notices /\ {PeerLeave(p)} \subseteq Notices
  /\ \A p, q : PeerJoin(p) # PeerLeave(q) /\ (PeerJoin(p) = PeerJoin(q) => p = q)
               /\ (PeerLeave(p) = PeerLeave(q) => p = q)
               /\ PeerJoin(p) \notin {Joined, Error} /\ PeerLeave(p) \notin {Joined, Error}
<1>1. Controller \in Name /\ PeerId \subseteq Name
  BY DEF Name
<1>2. \A p \in Name : PeerJoin(p) \in Notices /\ PeerLeave(p) \in Notices
  BY NoticeTypes
<1> QED BY <1>1, <1>2 DEF PeerJoin, PeerLeave, Joined, Error

\* Who is told of the controller, and of whom it is told.
LEMMA WhoIsTold ==
  ASSUME SessionInv, LinkInv, NEW z \in Conn, NEW c \in DashConn
  PROVE  /\ Notified(z, c, PeerJoin(Controller)) =>
              RelayJoin(z) /\ ((z \in CtlConn /\ SlotFree(TheRoom)) \/ z = c)
         /\ Notified(z, c, PeerLeave(Controller)) => RelayCleanup(z) /\ z \in CtlConn
         /\ \A k \in CtlConn, p \in PeerId : Notified(z, k, PeerJoin(p)) =>
              RelayJoin(z) /\ (z = k \/ (z \in DashConn /\ DashName[z] = p))
         /\ \A k \in CtlConn, p \in PeerId : Notified(z, k, PeerLeave(p)) =>
              RelayCleanup(z) /\ z \in DashConn /\ DashName[z] = p
<1>1. c \notin CtlConn /\ Controller \notin PeerId
  BY ConnParts, SessionAssumption
<1>2. controller[TheRoom] = c => FALSE
  BY <1>1, RoomGiven, RegistryKinds, ConnParts
<1>3. Notified(z, c, PeerJoin(Controller)) => RelayJoin(z) /\ ((z \in CtlConn /\ SlotFree(TheRoom)) \/ z = c)
  BY <1>1, <1>2, ControllerNotices DEF Notified, JoinNote, LeaveNote
<1>4. Notified(z, c, PeerLeave(Controller)) => RelayCleanup(z) /\ z \in CtlConn
  BY <1>1, <1>2, ControllerNotices DEF Notified, JoinNote, LeaveNote
<1>5. ASSUME NEW k \in CtlConn, NEW p \in PeerId
      PROVE  /\ Notified(z, k, PeerJoin(p)) => RelayJoin(z) /\ (z = k \/ (z \in DashConn /\ DashName[z] = p))
             /\ Notified(z, k, PeerLeave(p)) => RelayCleanup(z) /\ z \in DashConn /\ DashName[z] = p
  <2>1. k \notin DashboardConn(TheRoom)
    BY RoomGiven, RegistryKinds, ConnParts DEF DashboardConn, Present
  <2>2. ~LeaveNote(z, k, PeerJoin(p)) /\ ~JoinNote(z, k, PeerLeave(p))
    BY ControllerNotices DEF JoinNote, LeaveNote
  <2>3. JoinNote(z, k, PeerJoin(p)) => z = k \/ (z \in DashConn /\ DashName[z] = p)
    BY <2>1, ControllerNotices DEF JoinNote
  <2>4. LeaveNote(z, k, PeerLeave(p)) => z \in DashConn /\ DashName[z] = p
    BY <2>1, ControllerNotices DEF LeaveNote
  <2> QED BY <2>2, <2>3, <2>4 DEF Notified
<1> QED BY <1>3, <1>4, <1>5

\* A handler begins to route by joining, and a room gets a controller by its
\* joining.
LEMMA RoutingByJoin ==
  ASSUME SessionInv, NEW z \in Conn, RelayStep(z), NEW a \in Conn, phase[a] # "routing", phase'[a] = "routing"
  PROVE  z = a /\ RelayJoin(a)
<1>0. phase \in [Conn -> {"joining", "refused", "routing", "leaving", "gone"}]
  BY DEF SessionInv, RelayTyped, RegistryTyped, HandlersOK
<1>1. ~RelayRead(z) /\ ~RelayForward(z)
  BY DEF RelayRead, RelayForward, RouteLookup, RouteSend
<1>2. ~RelayEnd(z) /\ ~RelayCleanup(z)
  BY <1>0 DEF RelayEnd, RelayCleanup, StreamEnd, Cleanup
<1>3. RelayJoin(z)
  BY <1>1, <1>2 DEF RelayStep
<1>4. z = a
  BY <1>0, <1>3, JoinCases
<1> QED BY <1>3, <1>4

\* Only a join puts a controller in the slot, and its own connection.
LEMMA SlotByJoin ==
  ASSUME SessionInv, NEW z \in Conn, RelayStep(z), controller'[TheRoom] # controller[TheRoom],
         controller'[TheRoom] # NoConn
  PROVE  RelayJoin(z) /\ z \in CtlConn /\ SlotFree(TheRoom) /\ controller'[TheRoom] = z
<1>0. controller \in [Room -> Conn \cup {NoConn}] /\ TheRoom \in Room
  BY RoomGiven DEF SessionInv, RelayTyped, RegistryTyped, RegistryOK
<1>1. ~RelayRead(z) /\ ~RelayForward(z) /\ ~RelayEnd(z)
  BY DEF RelayRead, RelayForward, RelayEnd, RouteLookup, RouteSend, StreamEnd, registry
<1>2. ~RelayCleanup(z)
  <2> SUFFICES ASSUME RelayCleanup(z) PROVE FALSE
    OBVIOUS
  <2>1. controller' = controller \/ \E r \in {ident[z].room} : controller' = [controller EXCEPT ![r] = NoConn]
    BY DEF RelayCleanup, Cleanup, WithoutController
  <2> QED BY <1>0, <2>1
<1>3. RelayJoin(z)
  BY <1>1, <1>2 DEF RelayStep
<1> QED BY <1>0, <1>3, JoinCases

\* Neither the relay nor a dashboard that joins takes the slot from a controller.
LEMMA ToldRelay ==
  ASSUME SessionInv, LinkInv, Told, NEW z \in Conn, RelayStep(z), [Next]_vars, NEW c \in DashConn
  PROVE  ToldOf(c)'
<1> SUFFICES ASSUME phase'[c] = "routing", ~NameShared(c)', ~lost'[c]
             PROVE  /\ controller'[TheRoom] # NoConn => dash'[c].n # 0 \/ Greets(c)'
                    /\ dash'[c].n = 0 /\ ~Greets(c)' => ~Has(queue'[c], {PeerLeave(Controller)})
  BY DEF ToldOf, Greets, Has
<1> PICK J : J = {PeerJoin(Controller)}
  OBVIOUS
<1> PICK L : L = {PeerLeave(Controller)}
  OBVIOUS
<1>0. /\ c \in Conn /\ dash' = dash /\ J \subseteq Notices /\ L \subseteq Notices
      /\ ~NameShared(c) /\ ~lost[c] /\ phase[c] # "leaving" /\ phase[c] \in {"routing", "joining"}
      /\ (Greets(c)' <=> Has(queue'[c], J)) /\ (Greets(c) <=> Has(queue[c], J))
  BY ConnParts, RelayKeeps, ControllerNotices, SharedStays, LostStays, PhaseMoves DEF Greets, Has
<1>1. /\ Has(queue[c], J) => Has(queue'[c], J)
      /\ Has(queue'[c], J) => Has(queue[c], J) \/ Notified(z, c, PeerJoin(Controller))
      /\ Has(queue'[c], L) => Has(queue[c], L) \/ Notified(z, c, PeerLeave(Controller))
  BY <1>0, NoticeFlow
<1>2. CASE phase[c] = "joining"
  <2>1. z = c /\ RelayJoin(c)
    BY <1>0, <1>2, RoutingByJoin
  <2>2. controller' = controller
    BY <1>0, <2>1, JoinCases, ConnParts
  <2>3. controller[TheRoom] # NoConn => Greets(c)'
    BY <1>0, <1>2, <2>1, JoinTells
  <2>4. ~Has(queue'[c], L)
    <3>1. queue[c] \in Seq({Error}) /\ {Error} \cap L = {}
      BY <1>0, <1>2, ControllerNotices DEF LinkInv, Unjoined, HasJoined
    <3>2. ~Has(queue[c], L)
      BY <3>1, OtherHas
    <3>3. ~Notified(z, c, PeerLeave(Controller))
      BY <2>1, WhoIsTold, ConnParts
    <3> QED BY <1>1, <3>2, <3>3
  <2> QED BY <2>2, <2>3, <2>4
<1>3. CASE phase[c] = "routing"
  <2>0. /\ controller[TheRoom] # NoConn => dash[c].n # 0 \/ Greets(c)
        /\ dash[c].n = 0 /\ ~Greets(c) => ~Has(queue[c], L)
    BY <1>0, <1>3 DEF Told, ToldOf
  <2>1. ASSUME controller'[TheRoom] # NoConn PROVE dash'[c].n # 0 \/ Greets(c)'
    <3>1. CASE controller[TheRoom] # NoConn
      BY <1>0, <1>1, <2>0, <3>1
    <3>2. CASE controller[TheRoom] = NoConn
      <4>1. RelayJoin(z) /\ z \in CtlConn /\ SlotFree(TheRoom)
        BY <2>1, <3>2, SlotByJoin
      <4>2. c \in DashboardConn(TheRoom)
        <5>1. dashboards[TheRoom][DashName[c]] = c /\ DashName[c] \in PeerId /\ c # NoConn
          BY <1>0, <1>3, ConnParts DEF LinkInv, Registered
        <5> QED BY <5>1 DEF DashboardConn, Present
      <4> QED BY <1>0, <4>1, <4>2, JoinTells
    <3> QED BY <3>1, <3>2
  <2>2. ASSUME dash'[c].n = 0, ~Greets(c)', Has(queue'[c], L) PROVE FALSE
    <3>1. dash[c].n = 0 /\ ~Greets(c) /\ ~Has(queue[c], L)
      BY <1>0, <1>1, <2>0, <2>2
    <3>2. RelayCleanup(z) /\ z \in CtlConn
      BY <1>1, <2>2, <3>1, WhoIsTold
    <3>3. Live(z) /\ IsController(z) /\ ident[z].room = TheRoom
      <4>1. phase[z] = "leaving" /\ ident[z] = Identity(z)
        BY <3>2 DEF RelayCleanup, Cleanup, SessionInv, Identified, HasJoined
      <4> QED BY <3>2, <4>1 DEF Live, IsController, Identity
    <3>4. controller[TheRoom] = z /\ z # NoConn
      BY <3>2, <3>3, RoomGiven, ConnParts DEF LinkInv, RegistryConsistent
    <3> QED BY <2>0, <3>1, <3>4
  <2> QED BY <1>0, <2>1, <2>2
<1> QED BY <1>0, <1>2, <1>3

\* A dashboard that takes the controller's PeerJoin begins a handshake.
LEMMA GreetingTaken ==
  ASSUME SessionInv, [Next]_vars, ~(\E z \in Conn : RelayStep(z)), NEW c \in DashConn,
         queue'[c] # queue[c], Take(c, PeerJoin(Controller))
  PROVE  DashPeerJoin(c)
<1>1. c \in Conn /\ c # ctl
  BY ConnParts DEF SessionInv, TypeOK
<1>2. \A x : Take(c, x) => x = PeerJoin(Controller)
  BY DEF Take
<1>3. ~DashIgnore(c) /\ ~DashPeerLeave(c)
  BY <1>2, ControllerNotices DEF DashIgnore, DashPeerLeave
<1>4. \A d : ~Take(c, Deliver(Controller, d))
  BY <1>2 DEF Deliver, PeerJoin
<1> QED BY <1>1, <1>3, <1>4, ClientTakes DEF DashMsg2, DashThrow, DashData

\* Every step keeps what dashboards have been told in agreement with the slot.
LEMMA StepTold ==
  ASSUME SessionInv, LinkInv, PlaceInv, Told, [Next]_vars
  PROVE  Told'
<1> SUFFICES ASSUME NEW c \in DashConn PROVE ToldOf(c)'
  BY DEF Told, ToldOf, NameShared, Greets, Has
<1>1. CASE \E z \in Conn : RelayStep(z)
  BY <1>1, ToldRelay
<1>2. CASE ~(\E z \in Conn : RelayStep(z))
  <2> SUFFICES ASSUME phase'[c] = "routing", ~NameShared(c)', ~lost'[c]
               PROVE  /\ controller'[TheRoom] # NoConn => dash'[c].n # 0 \/ Greets(c)'
                      /\ dash'[c].n = 0 /\ ~Greets(c)' => ~Has(queue'[c], {PeerLeave(Controller)})
    BY DEF ToldOf, Greets, Has
  <2> PICK J : J = {PeerJoin(Controller)}
    OBVIOUS
  <2> PICK L : L = {PeerLeave(Controller)}
    OBVIOUS
  <2>0. /\ c \in Conn /\ controller' = controller /\ phase' = phase /\ ~NameShared(c) /\ ~lost[c]
        /\ (Greets(c)' <=> Has(queue'[c], J)) /\ (Greets(c) <=> Has(queue[c], J))
    BY <1>2, ConnParts, ClientStep, SharedStays, LostStays DEF Greets, Has
  <2>1. /\ controller[TheRoom] # NoConn => dash[c].n # 0 \/ Greets(c)
        /\ dash[c].n = 0 /\ ~Greets(c) => ~Has(queue[c], L)
    BY <2>0 DEF Told, ToldOf
  <2>2. dash[c].n # 0 => dash'[c].n # 0
    <3>1. dash[c].n \in Nat
      BY DEF SessionInv, TypeOK
    <3> QED BY <3>1, DashMoves DEF DashMove
  <2>3. CASE queue'[c] = queue[c]
    <3>1. Greets(c)' <=> Greets(c)
      BY <2>0, <2>3
    <3> QED BY <2>0, <2>1, <2>2, <2>3, <3>1
  <2>4. CASE queue'[c] # queue[c]
    <3>1. PICK env : Take(c, env)
      BY <1>2, <2>0, <2>4, ClientTakes
    <3>2. CASE env = PeerJoin(Controller)
      <4>1. DashPeerJoin(c)
        BY <1>2, <2>4, <3>1, <3>2, GreetingTaken
      <4>2. dash'[c].n # 0
        <5>1. dash[c].n \in Nat /\ dash'[c].n = dash[c].n + 1
          BY <4>1 DEF DashPeerJoin, NoDash, SessionInv, TypeOK
        <5> QED BY <5>1
      <4> QED BY <4>2
    <3>3. CASE env # PeerJoin(Controller)
      <4>1. Has(queue'[c], J) <=> Has(queue[c], J)
        BY <2>0, <3>1, <3>3, TakeLeaves
      <4>2. Has(queue'[c], L) => Has(queue[c], L)
        BY <2>0, <3>1, TakeLeaves
      <4> QED BY <2>0, <2>1, <2>2, <4>1, <4>2
    <3> QED BY <3>2, <3>3
  <2> QED BY <2>3, <2>4
<1> QED BY <1>1, <1>2


-----------------------------------------------------------------------------
(* Which frame comes first on the way from one client to another.          *)

\* Of the frames of Y on their way from from to rcpt the first is one of X.
Ahead(from, rcpt, X, Y) ==
  \/ Leads(queue[rcpt], Carries(X), Carries(Y))
  \/ /\ ~Has(queue[rcpt], Carries(Y))
     /\ Leads(Held(pending[from], rcpt), Carries(X), Carries(Y))
  \/ /\ ~Has(queue[rcpt], Carries(Y)) /\ ~Has(Held(pending[from], rcpt), Carries(Y))
     /\ Leads(wire[from], Sends(X), Sends(Y))

\* More behind, and in the recipient's queue nothing of Y.
LEMMA AheadGrows ==
  ASSUME SessionInv, NEW from \in Conn, NEW rcpt \in Conn, NEW X, NEW Y, Ahead(from, rcpt, X, Y),
         pending'[from] = pending[from],
         \/ queue'[rcpt] = queue[rcpt]
         \/ \E S : \E t \in Seq(S) : /\ queue[rcpt] \in Seq(S) /\ ~Has(t, Carries(Y))
                                     /\ queue'[rcpt] = queue[rcpt] \o t,
         \/ wire'[from] = wire[from]
         \/ \E msgs \in Seq([to : Name, data : Frame]) : wire'[from] = wire[from] \o msgs
  PROVE  Ahead(from, rcpt, X, Y)'
<1> PICK P : P = [to : Name, data : Frame]
  OBVIOUS
<1>1. Leads(wire[from], Sends(X), Sends(Y)) => Leads(wire'[from], Sends(X), Sends(Y))
  <2>1. wire[from] \in Seq(P)
    BY DEF SessionInv, TypeOK
  <2> QED BY <2>1, LeadsConcat
<1>2. Leads(queue[rcpt], Carries(X), Carries(Y)) => Leads(queue'[rcpt], Carries(X), Carries(Y))
  BY LeadsConcat
<1>3. ~Has(queue[rcpt], Carries(Y)) => ~Has(queue'[rcpt], Carries(Y))
  <2>1. CASE queue'[rcpt] = queue[rcpt]
    BY <2>1
  <2>2. CASE queue'[rcpt] # queue[rcpt]
    <3>1. PICK S : \E t \in Seq(S) : /\ queue[rcpt] \in Seq(S) /\ ~Has(t, Carries(Y))
                                     /\ queue'[rcpt] = queue[rcpt] \o t
      BY <2>2
    <3>2. PICK t \in Seq(S) : /\ queue[rcpt] \in Seq(S) /\ ~Has(t, Carries(Y))
                              /\ queue'[rcpt] = queue[rcpt] \o t
      BY <3>1
    <3> QED BY <3>2, ConcatHas
  <2> QED BY <2>1, <2>2
<1> QED BY <1>1, <1>2, <1>3 DEF Ahead, Leads, Held, Has

\* The recipient takes the head of its queue: of Y, it is one of X.
LEMMA AheadTakes ==
  ASSUME SessionInv, NEW from \in Conn, NEW rcpt \in Conn, NEW X, NEW Y, Ahead(from, rcpt, X, Y),
         pending'[from] = pending[from], wire'[from] = wire[from],
         NEW env, Take(rcpt, env)
  PROVE  /\ env \notin Carries(X) => Ahead(from, rcpt, X, Y)'
         /\ env \in Carries(Y) => env \in Carries(X)
<1>1. PICK S : queue[rcpt] \in Seq(S)
  BY Sequences
<1>2. /\ queue[rcpt] # <<>> /\ env = Head(queue[rcpt]) /\ queue'[rcpt] = Tail(queue[rcpt])
      /\ Has(queue'[rcpt], Carries(Y)) => Has(queue[rcpt], Carries(Y))
      /\ env \in Carries(Y) => Has(queue[rcpt], Carries(Y))
  BY TakeLeaves
<1>3. Leads(queue[rcpt], Carries(X), Carries(Y)) =>
        /\ env \notin Carries(X) => Leads(queue'[rcpt], Carries(X), Carries(Y))
        /\ env \in Carries(Y) => env \in Carries(X)
  BY <1>1, <1>2, LeadsTail
<1>4. env \notin Carries(X) => Ahead(from, rcpt, X, Y)'
  BY <1>2, <1>3 DEF Ahead, Leads, Held, Has
<1>5. env \in Carries(Y) => env \in Carries(X)
  BY <1>2, <1>3 DEF Ahead
<1> QED BY <1>4, <1>5

\* What is ahead is under way.
LEMMA AheadUnderWay ==
  ASSUME NEW from, NEW rcpt, NEW X, NEW Y, Ahead(from, rcpt, X, Y)
  PROVE  InQueue(rcpt, X) \/ InHand(from, X) \/ OnWire(from, X)
<1>1. Leads(queue[rcpt], Carries(X), Carries(Y)) => InQueue(rcpt, X)
  BY LeadsHas DEF InQueue
<1>2. Leads(wire[from], Sends(X), Sends(Y)) => OnWire(from, X)
  BY LeadsHas DEF OnWire
<1>3. Leads(Held(pending[from], rcpt), Carries(X), Carries(Y)) => InHand(from, X)
  BY LeadsOne DEF InHand, Held
<1> QED BY <1>1, <1>2, <1>3 DEF Ahead

\* What is sent when nothing of Y is under way is ahead if it begins with X.
LEMMA AheadBegins ==
  ASSUME SessionInv, NEW from \in Conn, NEW rcpt \in Conn, NEW X, NEW Y,
         ~Has(queue'[rcpt], Carries(Y)), ~InHand(from, Y), ~OnWire(from, Y), pending'[from] = pending[from],
         NEW msgs \in Seq([to : Name, data : Frame]), wire'[from] = wire[from] \o msgs,
         Leads(msgs, Sends(X), Sends(Y))
  PROVE  Ahead(from, rcpt, X, Y)'
<1> PICK P : P = [to : Name, data : Frame]
  OBVIOUS
<1>1. wire[from] \in Seq(P)
  BY DEF SessionInv, TypeOK
<1>2. Leads(wire'[from], Sends(X), Sends(Y))
  BY <1>1, LeadsConcat DEF OnWire
<1>3. ~Has(Held(pending'[from], rcpt), Carries(Y))
  BY OneHas DEF InHand, Held
<1> QED BY <1>2, <1>3 DEF Ahead, Leads, Held, Has

\* A step of the relay keeps the first one first, as long as both clients are
\* there, the queue holds, and the relay knows the recipient.
LEMMA RelayAhead ==
  ASSUME SessionInv, LinkInv, NEW z \in Conn, RelayStep(z), NEW from \in Conn, NEW rcpt \in Conn,
         client[from] = "open", client[rcpt] = "open", ~lost'[rcpt],
         NEW X, NEW Y, \A d \in Y : \A a \in Conn : AuthoredBy(a, d) => a = from,
         phase[from] = "routing" =>
           \A m \in Outgoing(from) : m.data \in X => Lookup(ident[from].room, m.to) = rcpt,
         Ahead(from, rcpt, X, Y)
  PROVE  Ahead(from, rcpt, X, Y)'
<1> PICK E : E = Envelopes
  OBVIOUS
<1>0. /\ pending \in [Conn -> Seq(Packages(E))] /\ queue \in [Conn -> Seq(E)] /\ RelayTyped(E)
      /\ wire \in [Conn -> Seq([to : Name, data : Frame])] /\ lost \in [Conn -> BOOLEAN]
  BY RelayTypedNow DEF RelayTyped, HeldOK, QueuesOK, SessionInv, TypeOK
<1>1. writer[rcpt] = "running"
  BY <1>0 DEF LinkInv, EndsLate, WriterUp, RelayTyped, QueuesOK
<1>2. PICK S : /\ queue[rcpt] \in Seq(S) /\ Notices \subseteq S /\ Genuine \subseteq S
  BY Sequences
<1>3. ASSUME NEW t \in Seq(Notices)
      PROVE  t \in Seq(S) /\ ~Has(t, Carries(Y))
  BY <1>2, SeqMonotonic, NoticesEmpty, OtherHas
<1>4. CASE RelayJoin(z)
  <2>1. PICK t \in Seq(Notices) : queue'[rcpt] = queue[rcpt] \o t
    BY <1>4, JoinNotices
  <2>2. wire'[from] = wire[from] /\ pending'[from] = pending[from]
    BY <1>4 DEF RelayJoin, JoinController, JoinDashboard, Refuse, clientVars
  <2> QED BY <1>2, <1>3, <2>1, <2>2, AheadGrows
<1>5. CASE RelayEnd(z)
  <2>1. z # from
    BY <1>5 DEF RelayEnd
  <2>2. wire'[from] = wire[from] /\ pending'[from] = pending[from] /\ queue'[rcpt] = queue[rcpt]
    BY <1>0, <1>5, <2>1 DEF RelayEnd, StreamEnd, outgoing
  <2> QED BY <2>2, AheadGrows
<1>6. CASE RelayCleanup(z)
  <2>1. Cleanup(z) /\ z # rcpt
    BY <1>6 DEF RelayCleanup, Cleanup, LinkInv, EndsLate
  <2>2. PICK t \in Seq(Notices) : queue'[rcpt] = queue[rcpt] \o t
    BY <2>1, CleanupNotices
  <2>3. wire'[from] = wire[from] /\ pending'[from] = pending[from]
    BY <1>6 DEF RelayCleanup, Cleanup, clientVars
  <2> QED BY <1>2, <1>3, <2>2, <2>3, AheadGrows
<1>7. CASE RelayRead(z)
  <2>0. /\ phase[z] = "routing" /\ pending[z] = <<>> /\ wire[z] # <<>>
        /\ wire' = [wire EXCEPT ![z] = Tail(@)] /\ queue' = queue
    BY <1>7 DEF RelayRead, RouteLookup, outgoing
  <2> PICK m : m = Head(wire[z])
    OBVIOUS
  <2> PICK d : d = Lookup(ident[z].room, m.to)
    OBVIOUS
  <2> PICK e : e = Deliver(ident[z].id, m.data)
    OBVIOUS
  <2>1. pending' = [pending EXCEPT ![z] = IF d = NoConn THEN <<>> ELSE << [rcpt |-> d, env |-> e] >>]
    BY <1>7 DEF RelayRead, RouteLookup
  <2>2. CASE z # from
    <3>1. wire'[from] = wire[from] /\ pending'[from] = pending[from] /\ queue'[rcpt] = queue[rcpt]
      BY <1>0, <2>0, <2>1, <2>2
    <3> QED BY <3>1, AheadGrows
  <2>3. CASE z = from
    <3>1. m \in Outgoing(from) /\ m \in [to : Name, data : Frame] /\ e \in Genuine /\ e.data = m.data
      BY <2>0, <2>3, ReadGenuine DEF Outgoing, Deliver
    <3>2. /\ wire'[from] = Tail(wire[from]) /\ queue'[rcpt] = queue[rcpt] /\ wire[from] # <<>>
          /\ pending'[from] = IF d = NoConn THEN <<>> ELSE << [rcpt |-> d, env |-> e] >>
      BY <1>0, <2>0, <2>1, <2>3
    <3>3. \A Z : (m \in Sends(Z) <=> m.data \in Z) /\ (e \in Carries(Z) <=> m.data \in Z)
      BY <3>1 DEF Sends, Carries, Genuine
    <3>4. CASE Leads(queue[rcpt], Carries(X), Carries(Y))
      <4>1. Leads(queue'[rcpt], Carries(X), Carries(Y))
        BY <3>2, <3>4
      <4> QED BY <4>1 DEF Ahead, Leads
    <3>5. CASE ~Leads(queue[rcpt], Carries(X), Carries(Y))
      <4>1. Held(pending[from], rcpt) = <<>>
        BY <2>0, <2>3 DEF Held
      <4>2. ~Has(queue'[rcpt], Carries(Y)) /\ Leads(wire[from], Sends(X), Sends(Y))
        BY <3>2, <3>5, <4>1, LeadsOne DEF Ahead
      <4>3. /\ m \notin Sends(X) => Leads(wire'[from], Sends(X), Sends(Y))
            /\ m \in Sends(Y) => m \in Sends(X)
        BY <1>0, <2>3, <3>2, <4>2, LeadsTail
      <4>4. CASE m.data \in X
        <5>1. d = rcpt
          BY <2>0, <2>3, <3>1, <4>4
        <5>2. Held(pending'[from], rcpt) = <<e>>
          BY <3>2, <5>1, RelayAssumption DEF Held
        <5>3. Leads(Held(pending'[from], rcpt), Carries(X), Carries(Y))
          BY <3>3, <4>4, <5>2, LeadsOne
        <5> QED BY <4>2, <5>3 DEF Ahead, Leads, Held, Has
      <4>5. CASE m.data \notin X
        <5>1. m.data \notin Y /\ Leads(wire'[from], Sends(X), Sends(Y))
          BY <3>3, <4>3, <4>5
        <5>2. ~Has(Held(pending'[from], rcpt), Carries(Y))
          <6>1. Held(pending'[from], rcpt) = <<>> \/ Held(pending'[from], rcpt) = <<e>>
            BY <3>2 DEF Held
          <6>2. e \notin Carries(Y)
            BY <3>3, <5>1
          <6>3. ~Has(<<>>, Carries(Y)) /\ ~Has(<<e>>, Carries(Y))
            BY <6>2, OneHas
          <6> QED BY <6>1, <6>3
        <5> QED BY <4>2, <5>1, <5>2 DEF Ahead, Leads, Held, Has
      <4> QED BY <4>4, <4>5
    <3> QED BY <3>4, <3>5
  <2> QED BY <2>2, <2>3
<1>8. CASE RelayForward(z)
  <2> PICK r : r = pending[z][1].rcpt
    OBVIOUS
  <2> PICK e : e = pending[z][1].env
    OBVIOUS
  <2>0. /\ pending[z] # <<>> /\ Send(MailTo(r, <<e>>)) /\ wire' = wire
        /\ pending' = [pending EXCEPT ![z] = <<>>]
    BY <1>8 DEF RelayForward, RouteSend, clientVars
  <2>1. e \in Genuine /\ AuthoredBy(z, e.data)
    BY <2>0 DEF LinkInv, HeldOwn
  <2>2. <<e>> \in Seq(S)
    BY <1>2, <2>1
  <2>3. r = rcpt => queue'[rcpt] = queue[rcpt] \o <<e>>
    <3> SUFFICES ASSUME r = rcpt PROVE queue'[rcpt] = queue[rcpt] \o <<e>>
      OBVIOUS
    <3>1. MailTo(r, <<e>>)[rcpt] = <<e>>
      BY DEF MailTo
    <3> QED BY <1>1, <2>0, <3>1, MailTaken
  <2>4. r # rcpt => queue'[rcpt] = queue[rcpt]
    <3> SUFFICES ASSUME r # rcpt PROVE queue'[rcpt] = queue[rcpt]
      OBVIOUS
    <3>1. MailTo(r, <<e>>)[rcpt] = <<>>
      BY DEF MailTo
    <3> QED BY <2>0, <3>1, NoMail
  <2>5. CASE z # from
    <3>1. wire'[from] = wire[from] /\ pending'[from] = pending[from]
      BY <1>0, <2>0, <2>5
    <3>2. e \notin Carries(Y)
      BY <2>1, <2>5 DEF Carries
    <3>3. ~Has(<<e>>, Carries(Y))
      BY <3>2, OneHas
    <3> QED BY <1>2, <2>2, <2>3, <2>4, <3>1, <3>3, AheadGrows
  <2>6. CASE z = from
    <3>1. wire'[from] = wire[from] /\ pending'[from] = <<>>
      BY <1>0, <2>0, <2>6
    <3>2. Held(pending[from], rcpt) = IF r = rcpt THEN <<e>> ELSE <<>>
      BY <2>0, <2>6 DEF Held
    <3>3. Held(pending'[from], rcpt) = <<>>
      BY <3>1 DEF Held
    <3>4. /\ Leads(queue[rcpt], Carries(X), Carries(Y)) => Leads(queue'[rcpt], Carries(X), Carries(Y))
          /\ ~Has(queue[rcpt], Carries(Y)) /\ Leads(Held(pending[from], rcpt), Carries(X), Carries(Y)) =>
               Leads(queue'[rcpt], Carries(X), Carries(Y))
          /\ ~Has(queue[rcpt], Carries(Y)) /\ ~Has(Held(pending[from], rcpt), Carries(Y)) =>
               ~Has(queue'[rcpt], Carries(Y))
      <4>1. CASE r = rcpt
        <5> PICK t : t = <<e>>
          OBVIOUS
        <5>1. queue'[rcpt] = queue[rcpt] \o t /\ Held(pending[from], rcpt) = t /\ t \in Seq(S)
          BY <2>2, <2>3, <3>2, <4>1
        <5>2. /\ Leads(queue[rcpt], Carries(X), Carries(Y)) => Leads(queue[rcpt] \o t, Carries(X), Carries(Y))
              /\ ~Has(queue[rcpt], Carries(Y)) /\ Leads(t, Carries(X), Carries(Y)) =>
                   Leads(queue[rcpt] \o t, Carries(X), Carries(Y))
          BY <1>2, <5>1, LeadsConcat
        <5>3. Has(queue[rcpt] \o t, Carries(Y)) <=> Has(queue[rcpt], Carries(Y)) \/ Has(t, Carries(Y))
          BY <1>2, <5>1, ConcatHas
        <5> QED BY <5>1, <5>2, <5>3
      <4>2. CASE r # rcpt
        BY <2>4, <3>2, <4>2, LeadsOne
      <4> QED BY <4>1, <4>2
    <3>5. ~Has(Held(pending'[from], rcpt), Carries(Y))
      BY <3>3, OneHas
    <3>6. Leads(wire[from], Sends(X), Sends(Y)) => Leads(wire'[from], Sends(X), Sends(Y))
      BY <3>1
    <3>7. CASE Leads(queue'[rcpt], Carries(X), Carries(Y))
      BY <3>7 DEF Ahead, Leads
    <3>8. CASE ~Leads(queue'[rcpt], Carries(X), Carries(Y))
      <4>1. ~Has(queue'[rcpt], Carries(Y)) /\ Leads(wire'[from], Sends(X), Sends(Y))
        BY <3>4, <3>6, <3>8 DEF Ahead
      <4> QED BY <3>5, <4>1 DEF Ahead, Leads, Held, Has
    <3> QED BY <3>7, <3>8
  <2> QED BY <2>5, <2>6
<1> QED BY <1>4, <1>5, <1>6, <1>7, <1>8 DEF RelayStep

-----------------------------------------------------------------------------
(* The handshake of a dashboard that has not had one before.               *)

\* A dashboard's first introduction to the controller: still to be read, and
\* only once, or read, and no other waiting.
First(c) == (dash[c].n = 0 /\ Once(queue[c], {PeerJoin(Controller)})) \/ (dash[c].n = 1 /\ ~Greets(c))

\* The controller and dashboard c are linked, both there, nothing they were sent
\* was dropped, c's name is its own and its key enrolled.
Fixed(c) ==
  /\ ctl # NoConn /\ controller[TheRoom] = ctl
  /\ client[c] = "open" /\ phase[c] = "routing"
  /\ ~NameShared(c) /\ ~lost[c] /\ ~lost[ctl] /\ DashKey[c] \in Enrolled
  /\ First(c)

\* The frames c makes.
Up(c) == {d \in Frame : FromDash(d) /\ d.c = c}

\* Nobody is told that the other left, and the controller of c once; before that,
\* it reads no frame of c.
Clear(c, k) ==
  /\ ~Has(queue[c], {PeerLeave(Controller)})
  /\ ~Has(queue[k], {PeerLeave(DashName[c])})
  /\ Once(queue[k], {PeerJoin(DashName[c])})
Meeting(c, k) ==
  IF peers[DashName[c]].st = "none" THEN Leads(queue[k], {PeerJoin(DashName[c])}, Carries(Up(c)))
  ELSE ~Has(queue[k], {PeerJoin(DashName[c])})

\* How far the handshake is: what the two ends hold, and the frame that will
\* take it further, ahead of any other the reader would take for it.
Begins(c) == dash[c].n = 0 /\ peers[DashName[c]].st \in {"none", "awaiting"}
Asked(c, k) ==
  /\ dash[c].n = 1 /\ dash[c].st = "m1" /\ ~dash[c].up /\ peers[DashName[c]].st \in {"none", "awaiting"}
  /\ Ahead(c, k, {Msg1(c, 1)}, {})
AnswerDue(c, k) ==
  /\ dash[c].n = 1 /\ dash[c].st = "m1" /\ ~dash[c].up /\ peers[DashName[c]] = Answered(c, 1)
  /\ Ahead(k, c, {Msg2(c, 1, k)}, {})
ProofDue(c, k) ==
  /\ dash[c].n = 1 /\ dash[c].st = "done" /\ dash[c].k = k /\ peers[DashName[c]] = Answered(c, 1)
  /\ Ahead(c, k, {Msg3(c, 1, k, DashKey[c])}, Up(c))
Settled(c, k) ==
  /\ dash[c].n = 1 /\ dash[c].st = "done" /\ dash[c].k = k
  /\ peers[DashName[c]].st = "ready" /\ peers[DashName[c]].c = c /\ peers[DashName[c]].n = 1
Progress(c, k) == Begins(c) \/ Asked(c, k) \/ AnswerDue(c, k) \/ ProofDue(c, k) \/ Settled(c, k)

Stage(c, k) == Clear(c, k) /\ Meeting(c, k) /\ Progress(c, k)
Staged == \A c \in DashConn : Fixed(c) => Stage(c, ctl)

\* At first no dashboard is linked.
LEMMA InitStaged == Init => Staged
  BY DEF Init, Staged, Fixed

\* The facts about the two ends of a link.
LEMMA FixedFacts ==
  ASSUME SessionInv, LinkInv, NEW c \in DashConn, Fixed(c)
  PROVE  /\ c \in Conn /\ ctl \in CtlConn /\ ctl \in Conn /\ ctl # c /\ ctl # NoConn
         /\ DashName[c] \in PeerId /\ DashName[c] # Controller
         /\ client[ctl] = "open" /\ phase[ctl] = "routing" /\ HasJoined(ctl) /\ HasJoined(c)
         /\ ident[ctl].room = TheRoom /\ ident[c].room = TheRoom
         /\ dashboards[TheRoom][DashName[c]] = c
         /\ dash[c] \in DashState /\ dash[c].n \in Nat /\ peers[DashName[c]] \in PeerState
<1>1. /\ c \in Conn /\ ctl \in CtlConn /\ ctl \in Conn /\ ctl # c /\ ctl # NoConn
      /\ DashName[c] \in PeerId /\ DashName[c] # Controller
  BY ConnParts DEF Fixed, SessionInv, TypeOK
<1>2. client[ctl] = "open"
  BY DEF Fixed, LinkInv, Connected
<1>3. HasJoined(ctl) /\ HasJoined(c) /\ phase[ctl] = "routing"
  <2>1. HasJoined(controller[TheRoom])
    BY <1>1, RoomGiven, RegistryKinds DEF Fixed
  <2>2. phase[ctl] \notin {"leaving", "gone"}
    BY <1>1, <1>2 DEF LinkInv, EndsLate
  <2> QED BY <2>1, <2>2 DEF Fixed, HasJoined
<1>4. ident[ctl].room = TheRoom /\ ident[c].room = TheRoom
  <2>1. ident[ctl] = Identity(ctl) /\ ident[c] = Identity(c)
    BY <1>1, <1>3 DEF SessionInv, Identified
  <2>2. \A a : Identity(a).room = TheRoom
    BY DEF Identity
  <2> QED BY <2>1, <2>2
<1>5. dashboards[TheRoom][DashName[c]] = c
  BY DEF Fixed, LinkInv, Registered
<1>6. dash \in [DashConn -> DashState] /\ peers \in [PeerId -> PeerState]
  BY DEF SessionInv, TypeOK, DashState, PeerState, AnsweredPeer, ReadyPeer
<1>7. dash[c] \in DashState /\ dash[c].n \in Nat /\ peers[DashName[c]] \in PeerState
  BY <1>1, <1>6 DEF DashState
<1> QED BY <1>1, <1>2, <1>3, <1>4, <1>5, <1>7

\* The controller's connection changes by its going and coming only.
LEMMA CtlSteps ==
  ASSUME SessionInv, [Next]_vars, ctl' # ctl
  PROVE  ctl' = NoConn \/ (ctl' \in CtlConn /\ CtlConnect(ctl'))
<1>1. Next
  BY DEF vars, ctlVars
<1>2. ASSUME NEW z \in Conn, RelayStep(z) PROVE FALSE
  BY <1>2, RelayKeeps
<1>3. ASSUME NEW a \in CtlConn, CtlConnect(a) PROVE ctl' = a
  BY <1>3 DEF CtlConnect
<1>4. ASSUME CtlDisconnect PROVE ctl' = NoConn
  BY <1>4 DEF CtlDisconnect
<1>5. ASSUME CtlIgnore \/ \E p \in PeerId : CtlPeerJoin(p) \/ CtlPeerLeave(p) PROVE FALSE
  BY <1>5 DEF CtlIgnore, CtlPeerJoin, CtlPeerLeave, ctlVars
<1>6. ASSUME NEW p, NEW d, \/ CtlUnknown(p, d) \/ CtlMsg1(p, d) \/ CtlMsg3(p, d)
                           \/ CtlBadHandshake(p, d) \/ CtlData(p, d)
      PROVE  FALSE
  BY <1>6 DEF CtlUnknown, CtlMsg1, CtlMsg3, CtlBadHandshake, CtlData, ctlVars
<1>7. ASSUME CtlFanout PROVE FALSE
  BY <1>7 DEF CtlFanout
<1>8. ASSUME NEW c \in DashConn, \/ DashConnect(c) \/ DashClose(c) \/ DashInput(c)
                                 \/ DashIgnore(c) \/ DashPeerJoin(c) \/ DashPeerLeave(c)
      PROVE  FALSE
  BY <1>8 DEF DashConnect, DashClose, DashInput, DashIgnore, DashPeerJoin, DashPeerLeave, ctlVars
<1>9. ASSUME NEW c \in DashConn, NEW d \in Frame, DashMsg2(c, d) \/ DashThrow(c, d) \/ DashData(c, d)
      PROVE  FALSE
  BY <1>9 DEF DashMsg2, DashThrow, DashData, ctlVars
<1> QED BY <1>1, <1>2, <1>3, <1>4, <1>5, <1>6, <1>7, <1>8, <1>9, StepCases

\* A dashboard begins another handshake only on the notice that the controller
\* is there.
LEMMA NumberSteps ==
  ASSUME SessionInv, [Next]_vars, NEW c \in DashConn, dash'[c].n # dash[c].n
  PROVE  DashPeerJoin(c)
<1>0. dash \in [DashConn -> DashState]
  BY DEF SessionInv, TypeOK, DashState
<1>1. ASSUME DashInput(c) PROVE FALSE
  BY <1>0, <1>1 DEF DashInput, DashState
<1>2. ASSUME DashPeerLeave(c) PROVE FALSE
  BY <1>0, <1>2 DEF DashPeerLeave, NoDash
<1>3. ASSUME NEW d \in Frame, DashMsg2(c, d) PROVE FALSE
  BY <1>0, <1>3 DEF DashMsg2, DashState
<1>4. ASSUME NEW d \in Frame, DashThrow(c, d) PROVE FALSE
  BY <1>0, <1>4 DEF DashThrow, DashState
<1>5. ASSUME NEW d \in Frame, DashData(c, d) PROVE FALSE
  BY <1>0, <1>5 DEF DashData, DashState
<1> QED BY <1>1, <1>2, <1>3, <1>4, <1>5, DashSteps

\* A frame that is sound and of a dashboard with its name to itself is of its
\* handshakes.
LEMMA OwnFrames ==
  ASSUME SessionInv, LinkInv, PlaceInv, NEW c \in DashConn, ~NameShared(c),
         NEW d \in Frame, Sound(d), DashName[d.c] = DashName[c]
  PROVE  d.c = c
<1>1. d.c \in DashConn /\ d.n \in Nat /\ d.c \in Conn
  BY FrameFields, ConnParts
<1>2. dash[d.c].n # 0
  <2>1. dash \in [DashConn -> DashState]
    BY DEF SessionInv, TypeOK, DashState
  <2> QED BY <1>1, <2>1 DEF Sound, DashState
<1>3. HasJoined(d.c)
  BY <1>1, <1>2 DEF PlaceInv, BegunJoined
<1>4. client[d.c] # "new"
  BY <1>1, <1>3 DEF HasJoined, LinkInv, Reached
<1> QED BY <1>1, <1>4 DEF NameShared

\* Before its first handshake a dashboard has no frames; before the answer in
\* that one there are only its opening ones.
LEMMA FreshFrames ==
  ASSUME SessionInv, NEW c \in DashConn, NEW d \in Frame, Sound(d), d.c = c
  PROVE  /\ dash[c].n # 0
         /\ dash[c].n = 1 /\ dash[c].st = "m1" => d \in Opening(c, 1)
         /\ dash[c].n = 1 => d.n = 1
<1>1. d.n \in Nat /\ d.t \in {"m1", "m2", "m3", "data"} /\ 1 <= d.n /\ d.n <= dash[c].n
  BY FrameFields DEF Sound
<1>2. dash[c].n = 1 => d.n = 1
  BY <1>1
<1>3. dash[c].n = 1 /\ dash[c].st = "m1" => d.t \in {"m1", "m2"}
  BY <1>1, <1>2 DEF Sound, Current
<1> QED BY <1>1, <1>2, <1>3 DEF Opening

\* What dashboard c reads is for it and of its own handshakes.
LEMMA HeardFrames ==
  ASSUME SessionInv, LinkInv, PlaceInv, NEW c \in DashConn, ~NameShared(c), NEW f, NEW d, Take(c, Deliver(f, d))
  PROVE  d \in Frame /\ Sound(d) /\ ~FromDash(d) /\ d.c = c
<1> PICK e : e = Deliver(f, d)
  OBVIOUS
<1>1. c \in Conn /\ c \notin CtlConn
  BY ConnParts
<1>2. e \in Letters(c)
  BY <1>1, TakeFits
<1>3. e.data = d /\ e.t = "deliver"
  BY DEF Deliver
<1>4. e \notin Notices
  BY <1>3 DEF Notices, Joined, Error, PeerJoin, PeerLeave
<1>5. e \in FramesFor(c)
  BY <1>2, <1>4 DEF Letters, NotesFor
<1>6. d \in Frame /\ Sound(d) /\ ~FromDash(d) /\ DashName[c] = DashName[d.c]
  BY <1>1, <1>3, <1>5 DEF FramesFor, Genuine
<1> QED BY <1>6, OwnFrames

\* What the controller reads is a dashboard's, under its name.
LEMMA ReadFrames ==
  ASSUME SessionInv, LinkInv, PlaceInv, ctl \in CtlConn, NEW x, NEW d, Take(ctl, Deliver(x, d))
  PROVE  /\ d \in Frame /\ Sound(d) /\ FromDash(d) /\ x = DashName[d.c]
         /\ \A c \in DashConn : ~NameShared(c) => (x = DashName[c] <=> d.c = c)
<1> PICK e : e = Deliver(x, d)
  OBVIOUS
<1>1. ctl \in Conn /\ ctl \notin DashConn
  BY ConnParts
<1>2. e \in Letters(ctl)
  BY <1>1, TakeFits
<1>3. e.data = d /\ e.t = "deliver" /\ e.from = x
  BY DEF Deliver
<1>4. e \notin Notices
  BY <1>3 DEF Notices, Joined, Error, PeerJoin, PeerLeave
<1>5. e \in FramesFor(ctl)
  BY <1>2, <1>4 DEF Letters, NotesFor
<1>6. d \in Frame /\ Sound(d) /\ FromDash(d) /\ x = DashName[d.c]
  BY <1>1, <1>3, <1>5 DEF FramesFor, Genuine
<1> QED BY <1>6, OwnFrames

\* In the relay's steps a queue only grows, except that of a connection that
\* leaves; and in joins and cleanups by notices.
LEMMA RelayQueue ==
  ASSUME SessionInv, LinkInv, NEW z \in Conn, RelayStep(z), NEW a \in Conn, phase[a] # "leaving"
  PROVE  /\ \E S : \E t \in Seq(S) : queue[a] \in Seq(S) /\ queue'[a] = queue[a] \o t
         /\ RelayJoin(z) \/ RelayCleanup(z) =>
              \E S : \E t \in Seq(S) : /\ queue[a] \in Seq(S) /\ queue'[a] = queue[a] \o t
                                       /\ \A X : ~Has(t, Carries(X))
<1>1. PICK S : /\ queue[a] \in Seq(S) /\ Notices \subseteq S /\ Genuine \subseteq S
  BY Sequences
<1>2. ASSUME NEW t \in Seq(Notices) PROVE t \in Seq(S) /\ \A X : ~Has(t, Carries(X))
  BY <1>1, SeqMonotonic, NoticesEmpty, OtherHas
<1>3. ASSUME queue'[a] = queue[a] PROVE \E t \in Seq(S) : queue'[a] = queue[a] \o t
  <2>1. <<>> \in Seq(S) /\ queue[a] = queue[a] \o <<>>
    BY <1>1, EmptySeq, ConcatEmptySeq
  <2> QED BY <1>3, <2>1
<1>4. ASSUME RelayJoin(z) \/ RelayCleanup(z)
      PROVE  \E t \in Seq(S) : queue'[a] = queue[a] \o t /\ \A X : ~Has(t, Carries(X))
  <2>1. \E t \in Seq(Notices) : queue'[a] = queue[a] \o t
    <3>1. CASE RelayJoin(z)
      BY <3>1, JoinNotices
    <3>2. CASE RelayCleanup(z)
      <4>1. Cleanup(z) /\ a # z
        BY <3>2 DEF RelayCleanup, Cleanup
      <4> QED BY <4>1, CleanupNotices
    <3> QED BY <1>4, <3>1, <3>2
  <2> QED BY <1>2, <2>1
<1>5. CASE RelayJoin(z) \/ RelayCleanup(z)
  BY <1>1, <1>4, <1>5
<1>6. CASE RelayRead(z) \/ RelayEnd(z)
  <2>1. queue'[a] = queue[a] /\ ~RelayJoin(z) /\ ~RelayCleanup(z)
    BY <1>6 DEF RelayRead, RelayEnd, RouteLookup, StreamEnd, outgoing, RelayJoin, RelayCleanup, Cleanup,
        JoinController, JoinDashboard
  <2> QED BY <1>1, <1>3, <2>1
<1>7. CASE RelayForward(z) /\ ~RelayJoin(z) /\ ~RelayCleanup(z)
  <2>1. pending[z][1].env \in Genuine
    BY <1>7, ForwardMail DEF LinkInv, HeldOwn
  <2>2. <<pending[z][1].env>> \in Seq(S)
    BY <1>1, <2>1
  <2>3. CASE queue'[a] = queue[a]
    BY <1>1, <1>3, <1>7, <2>3
  <2>4. CASE queue'[a] = queue[a] \o <<pending[z][1].env>>
    BY <1>1, <1>7, <2>2, <2>4
  <2> QED BY <1>7, <2>3, <2>4, ForwardMail
<1> QED BY <1>5, <1>6, <1>7 DEF RelayStep

\* The wires of the clients only grow by the clients' own steps; who reads leaves
\* the others' wires as they are.
LEMMA ClientWires ==
  ASSUME SessionInv, [Next]_vars, ~(\E z \in Conn : RelayStep(z)), NEW a \in Conn
  PROVE  /\ \/ wire'[a] = wire[a]
            \/ \E msgs \in Seq([to : Name, data : Frame]) : wire'[a] = wire[a] \o msgs
         /\ \A b \in Conn \ {a} : queue'[b] # queue[b] => wire'[a] = wire[a]
<1> PICK P : P = [to : Name, data : Frame]
  OBVIOUS
<1> DEFINE Grown == wire'[a] = wire[a] \/ \E msgs \in Seq(P) : wire'[a] = wire[a] \o msgs
<1>0. ASSUME NEW b \in Conn, NEW msgs \in Seq(P), Say(b, msgs) PROVE Grown
  BY <1>0, Speaks
<1>00. ASSUME NEW b \in Conn, \E msgs \in Seq(Late) : Say(b, msgs) PROVE Grown
  <2>1. PICK msgs \in Seq(Late) : Say(b, msgs)
    BY <1>00
  <2>2. Late \subseteq P
    BY DEF Late
  <2>3. msgs \in Seq(P)
    BY <2>1, <2>2, SeqMonotonic
  <2> QED BY <1>0, <2>1, <2>3
<1>1. Grown
  <2>1. CASE UNCHANGED vars
    BY <2>1 DEF vars, clientVars
  <2>2. ASSUME NEW c \in CtlConn, CtlConnect(c) PROVE Grown
    BY <2>2 DEF CtlConnect
  <2>3. ASSUME CtlDisconnect PROVE Grown
    BY <2>3 DEF CtlDisconnect, Hangup
  <2>4. ASSUME CtlIgnore \/ \E p \in PeerId : CtlPeerJoin(p) \/ CtlPeerLeave(p) PROVE Grown
    BY <2>4 DEF CtlIgnore, CtlPeerJoin, CtlPeerLeave
  <2>5. ASSUME NEW p, NEW d, CtlUnknown(p, d) \/ CtlBadHandshake(p, d) \/ CtlData(p, d) PROVE Grown
    BY <2>5 DEF CtlUnknown, CtlBadHandshake, CtlData
  <2>6. ASSUME ctl \in CtlConn, NEW p \in PeerId, NEW d \in Frame, CtlMsg1(p, d) PROVE Grown
    <3>1. d.c \in DashConn /\ d.n \in Nat /\ p \in Name /\ ctl \in Conn
      BY <2>6, FrameFields, ConnParts DEF Name
    <3>2. Msg2(d.c, d.n, ctl) \in Frame
      BY <2>6, <3>1, FrameTypes
    <3>3. <<Msg(p, Msg2(d.c, d.n, ctl))>> \in Seq(P)
      BY <3>1, <3>2, Wrapped
    <3> QED BY <1>0, <2>6, <3>1, <3>3 DEF CtlMsg1
  <2>7. ASSUME ctl \in CtlConn, NEW p \in PeerId, NEW d \in Frame, CtlMsg3(p, d) PROVE Grown
    BY <1>00, <2>7, CtlMsg3Late, ConnParts
  <2>8. ASSUME ctl \in CtlConn, CtlFanout PROVE Grown
    BY <1>00, <2>8, FanoutLate, ConnParts
  <2>9. ASSUME NEW c \in DashConn, DashConnect(c) \/ DashClose(c) \/ DashIgnore(c) \/ DashPeerLeave(c)
        PROVE  Grown
    BY <2>9 DEF DashConnect, DashClose, Hangup, DashIgnore, DashPeerLeave
  <2>10. ASSUME NEW c \in DashConn, DashInput(c) \/ \E d \in Frame : DashMsg2(c, d) PROVE Grown
    BY <1>00, <2>10, DashSaysLate, ConnParts
  <2>11. ASSUME NEW c \in DashConn, DashPeerJoin(c) PROVE Grown
    <3>1. dash[c].n + 1 \in Nat /\ Controller \in Name /\ c \in Conn
      BY ConnParts DEF SessionInv, TypeOK, Name
    <3>2. Msg1(c, dash[c].n + 1) \in Frame
      <4> PICK n \in Nat : n = dash[c].n + 1
        BY <3>1
      <4> QED BY FrameTypes DEF Msg1, Frame
    <3>3. <<Msg(Controller, Msg1(c, dash[c].n + 1))>> \in Seq(P)
      BY <3>1, <3>2, Wrapped
    <3> QED BY <1>0, <2>11, <3>1, <3>3 DEF DashPeerJoin
  <2>12. ASSUME NEW c \in DashConn, NEW d \in Frame, DashThrow(c, d) \/ DashData(c, d) PROVE Grown
    BY <2>12 DEF DashThrow, DashData
  <2> HIDE DEF Grown
  <2> QED BY <2>1, <2>2, <2>3, <2>4, <2>5, <2>6, <2>7, <2>8, <2>9, <2>10, <2>11, <2>12, StepCases
<1>2. ASSUME NEW b \in Conn, b # a, queue'[b] # queue[b] PROVE wire'[a] = wire[a]
  <2>0. ASSUME NEW msgs, Say(b, msgs) PROVE wire'[a] = wire[a]
    BY <1>2, <2>0, Speaks
  <2>1. CASE b = ctl /\ (CtlIgnore \/ \E p \in PeerId : CtlPeerJoin(p) \/ CtlPeerLeave(p))
    BY <2>1 DEF CtlIgnore, CtlPeerJoin, CtlPeerLeave
  <2>2. ASSUME b = ctl, NEW p \in PeerId, NEW d \in Frame,
               \/ CtlUnknown(p, d) \/ CtlMsg1(p, d) \/ CtlMsg3(p, d) \/ CtlBadHandshake(p, d) \/ CtlData(p, d)
        PROVE  wire'[a] = wire[a]
    <3>1. CASE CtlUnknown(p, d) \/ CtlBadHandshake(p, d) \/ CtlData(p, d)
      BY <3>1 DEF CtlUnknown, CtlBadHandshake, CtlData
    <3>2. CASE CtlMsg1(p, d)
      BY <2>0, <2>2, <3>2 DEF CtlMsg1
    <3>3. CASE CtlMsg3(p, d)
      BY <2>0, <2>2, <3>3 DEF CtlMsg3
    <3> QED BY <2>2, <3>1, <3>2, <3>3
  <2>3. CASE DashIgnore(b) \/ DashPeerJoin(b) \/ DashPeerLeave(b)
    BY <2>0, <2>3 DEF DashIgnore, DashPeerJoin, DashPeerLeave
  <2>4. ASSUME NEW d \in Frame, DashMsg2(b, d) \/ DashThrow(b, d) \/ DashData(b, d)
        PROVE  wire'[a] = wire[a]
    BY <2>0, <2>4 DEF DashMsg2, DashThrow, DashData
  <2> QED BY <1>2, <2>1, <2>2, <2>3, <2>4, ClientTakes
<1> QED BY <1>1, <1>2

\* The clients' steps keep the first frame first until it is read, and whatever
\* is read of the others is it.
LEMMA AheadClient ==
  ASSUME SessionInv, [Next]_vars, ~(\E z \in Conn : RelayStep(z)), NEW from \in Conn, NEW rcpt \in Conn,
         from # rcpt, NEW X, NEW Y, Ahead(from, rcpt, X, Y),
         \A env : Take(rcpt, env) => env \notin Carries(X)
  PROVE  Ahead(from, rcpt, X, Y)'
<1>1. pending'[from] = pending[from]
  BY ClientStep
<1>2. CASE queue'[rcpt] = queue[rcpt]
  BY <1>1, <1>2, ClientWires, AheadGrows
<1>3. CASE queue'[rcpt] # queue[rcpt]
  <2>1. PICK env : Take(rcpt, env)
    BY <1>3, ClientTakes
  <2>2. wire'[from] = wire[from]
    BY <1>3, ClientWires
  <2> QED BY <1>1, <2>1, <2>2, AheadTakes
<1> QED BY <1>2, <1>3

\* Which notices a controller takes, and what it does.
LEMMA NoticeTaken ==
  ASSUME SessionInv, LinkInv, [Next]_vars, ~(\E z \in Conn : RelayStep(z)), ctl \in CtlConn,
         queue'[ctl] # queue[ctl], NEW p \in PeerId
  PROVE  /\ Take(ctl, PeerJoin(p)) => CtlPeerJoin(p)
         /\ Take(ctl, PeerLeave(p)) => CtlPeerLeave(p)
<1>0. ctl \in Conn /\ ctl \notin DashConn
  BY ConnParts
<1>1. /\ \A q : PeerJoin(p) # PeerLeave(q) /\ PeerLeave(p) # PeerJoin(q)
                /\ (PeerJoin(p) = PeerJoin(q) => p = q) /\ (PeerLeave(p) = PeerLeave(q) => p = q)
      /\ \A q, d : PeerJoin(p) # Deliver(q, d) /\ PeerLeave(p) # Deliver(q, d)
      /\ PeerJoin(p) # Joined /\ PeerLeave(p) # Joined
  BY DEF PeerJoin, PeerLeave, Deliver, Joined
<1>2. ASSUME NEW e, NEW f, Take(ctl, e), Take(ctl, f) PROVE e = f
  BY <1>2 DEF Take
<1>3. CASE CtlIgnore
  BY <1>1, <1>2, <1>3 DEF CtlIgnore
<1>4. ASSUME NEW q \in PeerId, CtlPeerJoin(q)
      PROVE  (Take(ctl, PeerJoin(p)) => CtlPeerJoin(p)) /\ ~Take(ctl, PeerLeave(p))
  <2>1. Take(ctl, PeerJoin(q))
    BY <1>4 DEF CtlPeerJoin
  <2> QED BY <1>1, <1>2, <1>4, <2>1
<1>5. ASSUME NEW q \in PeerId, CtlPeerLeave(q)
      PROVE  (Take(ctl, PeerLeave(p)) => CtlPeerLeave(p)) /\ ~Take(ctl, PeerJoin(p))
  <2>1. Take(ctl, PeerLeave(q))
    BY <1>5 DEF CtlPeerLeave
  <2> QED BY <1>1, <1>2, <1>5, <2>1
<1>6. ASSUME NEW q \in PeerId, NEW d \in Frame,
             \/ CtlUnknown(q, d) \/ CtlMsg1(q, d) \/ CtlMsg3(q, d) \/ CtlBadHandshake(q, d) \/ CtlData(q, d)
      PROVE  ~Take(ctl, PeerJoin(p)) /\ ~Take(ctl, PeerLeave(p))
  <2>1. Take(ctl, Deliver(q, d))
    BY <1>6 DEF CtlUnknown, CtlMsg1, CtlMsg3, CtlBadHandshake, CtlData
  <2> QED BY <1>1, <1>2, <2>1
<1> QED BY <1>0, <1>3, <1>4, <1>5, <1>6, ClientTakes

\* The clients' steps neither link nor introduce anyone for the first time.
LEMMA ClientFixed ==
  ASSUME SessionInv, LinkInv, PlaceInv, [Next]_vars, ~(\E z \in Conn : RelayStep(z)), NEW c \in DashConn, Fixed(c)'
  PROVE  Fixed(c) /\ ctl' = ctl
<1>0. /\ ctl' # NoConn /\ controller'[TheRoom] = ctl' /\ client'[c] = "open" /\ phase'[c] = "routing"
      /\ ~NameShared(c)' /\ ~lost'[c] /\ ~lost'[ctl'] /\ DashKey[c] \in Enrolled /\ First(c)'
  BY DEF Fixed
<1>1. UNCHANGED <<controller, phase, lost>>
  BY ClientStep
<1>2. c \in Conn
  BY ConnParts
<1>3. ctl' = ctl
  <2> SUFFICES ASSUME ctl' # ctl PROVE FALSE
    OBVIOUS
  <2>1. ctl' \in CtlConn /\ client[ctl'] = "new"
    BY <1>0, CtlSteps DEF CtlConnect
  <2>2. HasJoined(controller[TheRoom]) /\ controller[TheRoom] \in Conn
    BY <1>0, <1>1, RoomGiven, RegistryKinds, ConnParts
  <2> QED BY <1>0, <1>1, <2>1, <2>2 DEF HasJoined, LinkInv, Reached
<1>4. client[c] = "open"
  <2>1. client[c] # "new"
    BY <1>0, <1>1, <1>2 DEF LinkInv, Reached
  <2> QED BY <1>0, <1>2, <2>1, ClientMoves
<1>5. ~NameShared(c)
  BY <1>0, SharedStays
<1>6. First(c)
  <2>0. dash[c].n \in Nat /\ dash'[c].n \in Nat
    <3>1. dash \in [DashConn -> DashState]
      BY DEF SessionInv, TypeOK, DashState
    <3> QED BY <3>1, DashTyped DEF DashState
  <2>1. CASE dash'[c].n # dash[c].n
    <3>1. DashPeerJoin(c)
      BY <2>1, NumberSteps
    <3>2. Take(c, PeerJoin(Controller)) /\ dash'[c].n = dash[c].n + 1
      <4>1. dash \in [DashConn -> DashState]
        BY DEF SessionInv, TypeOK, DashState
      <4> QED BY <3>1, <4>1 DEF DashPeerJoin, NoDash
    <3>3. dash[c].n = 0 /\ ~Has(queue'[c], {PeerJoin(Controller)})
      BY <1>0, <2>0, <3>2 DEF First, Greets
    <3> QED BY <1>2, <3>2, <3>3, TakeLeaves DEF First
  <2>2. CASE dash'[c].n = dash[c].n
    <3>1. ASSUME queue'[c] # queue[c]
          PROVE  /\ ~Has(queue'[c], {PeerJoin(Controller)}) => ~Has(queue[c], {PeerJoin(Controller)})
                 /\ Once(queue'[c], {PeerJoin(Controller)}) => Once(queue[c], {PeerJoin(Controller)})
      <4>1. PICK env : Take(c, env)
        BY <1>2, <3>1, ClientTakes
      <4>2. env # PeerJoin(Controller)
        <5> SUFFICES ASSUME env = PeerJoin(Controller) PROVE FALSE
          OBVIOUS
        <5>1. DashPeerJoin(c)
          BY <3>1, <4>1, GreetingTaken
        <5>2. dash'[c].n = dash[c].n + 1
          <6>1. dash \in [DashConn -> DashState]
            BY DEF SessionInv, TypeOK, DashState
          <6> QED BY <5>1, <6>1 DEF DashPeerJoin, NoDash
        <5> QED BY <2>0, <2>2, <5>2
      <4> QED BY <1>2, <4>1, <4>2, TakeLeaves
    <3>2. /\ ~Has(queue'[c], {PeerJoin(Controller)}) => ~Has(queue[c], {PeerJoin(Controller)})
          /\ Once(queue'[c], {PeerJoin(Controller)}) => Once(queue[c], {PeerJoin(Controller)})
      BY <3>1
    <3>3. \/ dash[c].n = 0 /\ Once(queue'[c], {PeerJoin(Controller)})
          \/ dash[c].n = 1 /\ ~Has(queue'[c], {PeerJoin(Controller)})
      BY <1>0, <2>2 DEF First, Greets
    <3> QED BY <3>2, <3>3 DEF First, Greets
  <2> QED BY <2>1, <2>2
<1> QED BY <1>0, <1>1, <1>3, <1>4, <1>5, <1>6 DEF Fixed

\* The relay's steps tell neither end of a link that the other left, nor the
\* controller again that it came.
LEMMA LinkUntold ==
  ASSUME SessionInv, LinkInv, NEW z \in Conn, RelayStep(z), NEW c \in DashConn, Fixed(c)
  PROVE  /\ ~Notified(z, c, PeerLeave(Controller))
         /\ ~Notified(z, ctl, PeerLeave(DashName[c]))
         /\ ~Notified(z, ctl, PeerJoin(DashName[c]))
<1>1. /\ ctl \in CtlConn /\ ctl \in Conn /\ phase[ctl] = "routing" /\ DashName[c] \in PeerId
      /\ phase[c] = "routing" /\ controller[TheRoom] = ctl
  BY FixedFacts DEF Fixed
<1>2. ASSUME Notified(z, c, PeerLeave(Controller)) PROVE FALSE
  <2>1. RelayCleanup(z) /\ z \in CtlConn
    BY <1>2, WhoIsTold
  <2>2. phase[z] = "leaving"
    BY <2>1 DEF RelayCleanup, Cleanup
  <2>3. ident[z] = Identity(z)
    BY <2>2 DEF SessionInv, Identified, HasJoined
  <2>4. ident[z].role = "controller" /\ ident[z].room = TheRoom
    BY <2>1, <2>3 DEF Identity
  <2>5. controller[TheRoom] = z
    BY <2>2, <2>4, RoomGiven DEF LinkInv, RegistryConsistent, Live, IsController
  <2> QED BY <1>1, <2>2, <2>5
<1>3. ASSUME NEW a \in DashConn, a # c, DashName[a] = DashName[c], client[a] # "new" PROVE FALSE
  BY <1>3 DEF Fixed, NameShared
<1>4. ASSUME Notified(z, ctl, PeerLeave(DashName[c])) PROVE FALSE
  <2>1. RelayCleanup(z) /\ z \in DashConn /\ DashName[z] = DashName[c]
    BY <1>1, <1>4, WhoIsTold
  <2>2. phase[z] = "leaving"
    BY <2>1 DEF RelayCleanup, Cleanup
  <2>3. client[z] # "new"
    BY <2>2 DEF LinkInv, Reached
  <2> QED BY <1>1, <1>3, <2>1, <2>2, <2>3
<1>5. ASSUME Notified(z, ctl, PeerJoin(DashName[c])) PROVE FALSE
  <2>1. RelayJoin(z) /\ (z = ctl \/ (z \in DashConn /\ DashName[z] = DashName[c]))
    BY <1>1, <1>5, WhoIsTold
  <2>2. phase[z] = "joining" /\ client[z] # "new"
    BY <2>1, JoinCases
  <2> QED BY <1>1, <1>3, <2>1, <2>2
<1> QED BY <1>2, <1>4, <1>5

\* A frame of c goes to the controller it is linked to, an answer to c back to c.
LEMMA LinkLookup ==
  ASSUME SessionInv, LinkInv, NEW c \in DashConn, Fixed(c)
  PROVE  /\ \A m \in Outgoing(c) : m.data \in Up(c) => Lookup(ident[c].room, m.to) = ctl
         /\ \A m \in Outgoing(ctl) : ~FromDash(m.data) /\ m.data.c = c => Lookup(ident[ctl].room, m.to) = c
  BY FixedFacts DEF Fixed, Outgoing, Up, Lookup

\* A step of the relay takes a handshake to its next stage or leaves it where it is.
LEMMA RelayStage ==
  ASSUME SessionInv, LinkInv, NEW z \in Conn, RelayStep(z), NEW c \in DashConn, Fixed(c), Fixed(c)',
         NEW k, k = ctl, Stage(c, k)
  PROVE  Stage(c, k)'
<1> PICK p : p = DashName[c]
  OBVIOUS
<1>0. /\ c \in Conn /\ k \in CtlConn /\ k \in Conn /\ k # c /\ p \in PeerId
      /\ client[c] = "open" /\ client[k] = "open" /\ phase[c] = "routing" /\ phase[k] = "routing"
      /\ UNCHANGED <<client, ctl, peers, dash>>
  BY FixedFacts, RelayKeeps DEF Fixed
<1>1. ~lost'[c] /\ ~lost'[k]
  BY <1>0 DEF Fixed
<1>2. /\ ~Notified(z, c, PeerLeave(Controller)) /\ ~Notified(z, k, PeerLeave(p)) /\ ~Notified(z, k, PeerJoin(p))
  BY LinkUntold
<1>3. Clear(c, k)'
  <2>1. ~Has(queue'[c], {PeerLeave(Controller)})
    BY <1>0, <1>2, NoticeFlow, ControllerNotices DEF Stage, Clear
  <2>2. ~Has(queue'[k], {PeerLeave(p)})
    BY <1>0, <1>2, NoticeFlow, ControllerNotices DEF Stage, Clear
  <2>3. Once(queue'[k], {PeerJoin(p)})
    BY <1>0, <1>2, NoticeFlow, ControllerNotices DEF Stage, Clear
  <2> QED BY <2>1, <2>2, <2>3 DEF Clear, Has, Once
<1>4. Meeting(c, k)'
  <2>1. CASE peers[p].st = "none"
    <3>1. Leads(queue[k], {PeerJoin(p)}, Carries(Up(c)))
      BY <2>1 DEF Stage, Meeting
    <3>2. PICK S : \E t \in Seq(S) : queue[k] \in Seq(S) /\ queue'[k] = queue[k] \o t
      BY <1>0, RelayQueue
    <3>3. Leads(queue'[k], {PeerJoin(p)}, Carries(Up(c)))
      BY <3>1, <3>2, LeadsConcat
    <3> QED BY <1>0, <2>1, <3>3 DEF Meeting, Leads
  <2>2. CASE peers[p].st # "none"
    <3>1. ~Has(queue'[k], {PeerJoin(p)})
      BY <1>0, <1>2, <2>2, NoticeFlow, ControllerNotices DEF Stage, Meeting
    <3> QED BY <1>0, <2>2, <3>1 DEF Meeting, Has
  <2> QED BY <2>1, <2>2
<1>5. ASSUME NEW X, NEW Y, X \subseteq Up(c), Y \subseteq Up(c), Ahead(c, k, X, Y) PROVE Ahead(c, k, X, Y)'
  <2>1. \A d \in Y : \A a \in Conn : AuthoredBy(a, d) => a = c
    BY <1>5 DEF AuthoredBy, Up
  <2>2. \A m \in Outgoing(c) : m.data \in X => Lookup(ident[c].room, m.to) = k
    BY <1>5, LinkLookup
  <2> QED BY <1>0, <1>1, <1>5, <2>1, <2>2, RelayAhead
<1>6. ASSUME NEW X, \A d \in X : ~FromDash(d) /\ d.c = c, Ahead(k, c, X, {}) PROVE Ahead(k, c, X, {})'
  <2>1. \A m \in Outgoing(k) : m.data \in X => Lookup(ident[k].room, m.to) = c
    BY <1>6, LinkLookup
  <2> QED BY <1>0, <1>1, <1>6, <2>1, RelayAhead
<1>7. Progress(c, k)'
  <2>0. 1 \in Nat
    OBVIOUS
  <2>1. CASE Begins(c)
    BY <1>0, <2>1 DEF Progress, Begins
  <2>2. CASE Asked(c, k)
    <3>1. {Msg1(c, 1)} \subseteq Up(c)
      BY <1>0, <2>0, FrameTypes DEF Up, FromDash, Msg1
    <3>2. Ahead(c, k, {Msg1(c, 1)}, {})'
      BY <1>5, <2>2, <3>1 DEF Asked
    <3> QED BY <1>0, <2>2, <3>2 DEF Progress, Asked
  <2>3. CASE AnswerDue(c, k)
    <3>1. \A d \in {Msg2(c, 1, k)} : ~FromDash(d) /\ d.c = c
      BY DEF FromDash, Msg2
    <3>2. Ahead(k, c, {Msg2(c, 1, k)}, {})'
      BY <1>6, <2>3, <3>1 DEF AnswerDue
    <3> QED BY <1>0, <2>3, <3>2 DEF Progress, AnswerDue
  <2>4. CASE ProofDue(c, k)
    <3>1. {Msg3(c, 1, k, DashKey[c])} \subseteq Up(c)
      BY <1>0, <2>0, FrameTypes DEF Up, FromDash, Msg3
    <3>2. Ahead(c, k, {Msg3(c, 1, k, DashKey[c])}, Up(c))'
      BY <1>5, <2>4, <3>1 DEF ProofDue
    <3> QED BY <1>0, <2>4, <3>2 DEF Progress, ProofDue
  <2>5. CASE Settled(c, k)
    BY <1>0, <2>5 DEF Progress, Settled
  <2> QED BY <2>1, <2>2, <2>3, <2>4, <2>5 DEF Stage, Progress
<1> QED BY <1>3, <1>4, <1>7 DEF Stage

\* A link is made by one of the two joining: then nothing has passed between
\* them, and each will read that the other is there before anything else of it.
LEMMA FixedEntry ==
  ASSUME SessionInv, LinkInv, PlaceInv, Told, [Next]_vars, NEW z \in Conn, RelayStep(z), NEW c \in DashConn,
         ~Fixed(c), Fixed(c)', NEW k, k = ctl
  PROVE  Stage(c, k)'
<1> PICK p : p = DashName[c]
  OBVIOUS
<1>0. /\ k # NoConn /\ controller'[TheRoom] = k /\ client[c] = "open" /\ phase'[c] = "routing"
      /\ ~NameShared(c)' /\ ~lost'[c] /\ ~lost'[k] /\ DashKey[c] \in Enrolled /\ First(c)'
      /\ UNCHANGED <<client, ctl, peers, dash>>
  BY RelayKeeps DEF Fixed
<1>1. /\ c \in Conn /\ c \notin CtlConn /\ k \in CtlConn /\ k \in Conn /\ k \notin DashConn
      /\ p \in PeerId /\ p # Controller /\ dash[c].n \in Nat
  <2>1. dash \in [DashConn -> DashState]
    BY DEF SessionInv, TypeOK, DashState
  <2> QED BY <1>0, <2>1, ConnParts DEF SessionInv, TypeOK, DashState
<1>2. ~NameShared(c) /\ ~lost[c] /\ ~lost[k] /\ client[k] = "open" /\ phase[k] \notin {"leaving", "gone"}
      /\ phase[c] \notin {"leaving", "gone"}
  <2>1. ~NameShared(c) /\ ~lost[c] /\ ~lost[k]
    BY <1>0, <1>1, SharedStays, LostStays
  <2>2. client[k] = "open"
    BY <1>0 DEF LinkInv, Connected
  <2> QED BY <1>0, <1>1, <2>1, <2>2 DEF LinkInv, EndsLate
<1>3. First(c)
  <2>1. PICK S : \E t \in Seq(S) : queue[c] \in Seq(S) /\ queue'[c] = queue[c] \o t
    BY <1>1, <1>2, RelayQueue
  <2>2. Once(queue'[c], {PeerJoin(Controller)}) => Once(queue[c], {PeerJoin(Controller)})
    BY <2>1, ConcatOnce
  <2>3. Has(queue[c], {PeerJoin(Controller)}) => Has(queue'[c], {PeerJoin(Controller)})
    BY <1>1, <1>2, NoticeFlow, ControllerNotices
  <2>4. \/ dash[c].n = 0 /\ Once(queue'[c], {PeerJoin(Controller)})
        \/ dash[c].n = 1 /\ ~Has(queue'[c], {PeerJoin(Controller)})
    BY <1>0 DEF First, Greets
  <2> QED BY <2>2, <2>3, <2>4 DEF First, Greets
<1>4. RelayJoin(z) => ~RelayCleanup(z)
  BY DEF RelayJoin, JoinController, JoinDashboard, RelayCleanup, Cleanup
\* What is to be shown, for both of them.
<1>5. ASSUME RelayJoin(z), dash[c].n = 0, peers[p].st = "none",
             ~Has(queue[c], {PeerLeave(Controller)}), ~Has(queue[k], {PeerLeave(p)}),
             Has(queue'[k], {PeerJoin(p)}), Once(queue'[k], {PeerJoin(p)})
      PROVE  Stage(c, k)'
  <2>1. ~Notified(z, c, PeerLeave(Controller)) /\ ~Notified(z, k, PeerLeave(p))
    BY <1>1, <1>4, <1>5, WhoIsTold
  <2>2. ~Has(queue'[c], {PeerLeave(Controller)})
    BY <1>1, <1>2, <1>5, <2>1, NoticeFlow, ControllerNotices
  <2>3. ~Has(queue'[k], {PeerLeave(p)})
    BY <1>1, <1>2, <1>5, <2>1, NoticeFlow, ControllerNotices
  <2>4. ~Has(queue'[k], Carries(Up(c)))
    <3>2. queue[k] \in Seq(Envelopes)
      BY <1>1 DEF SessionInv, RelayTyped, QueuesOK
    <3>3. Envelopes \cap Carries(Up(c)) = {}
      <4> SUFFICES ASSUME NEW e \in Envelopes, e \in Carries(Up(c)) PROVE FALSE
        OBVIOUS
      <4>1. e.data \in Up(c) /\ e \notin Notices
        BY NoticesEmpty DEF Carries
      <4>2. Sound(e.data)
        BY <4>1 DEF Envelopes, Genuine
      <4> QED BY <1>5, <4>1, <4>2, FreshFrames DEF Up
    <3>4. ~Has(queue[k], Carries(Up(c)))
      BY <3>2, <3>3, OtherHas
    <3>5. PICK S : \E t \in Seq(S) : /\ queue[k] \in Seq(S) /\ queue'[k] = queue[k] \o t
                                     /\ \A X : ~Has(t, Carries(X))
      BY <1>1, <1>2, <1>5, RelayQueue
    <3> QED BY <3>4, <3>5, ConcatHas
  <2>5. Leads(queue'[k], {PeerJoin(p)}, Carries(Up(c)))
    BY <1>5, <2>4 DEF Leads, Has
  <2>6. Clear(c, k)'
    BY <1>5, <2>2, <2>3 DEF Clear, Has, Once
  <2>7. Meeting(c, k)'
    BY <1>0, <1>5, <2>5 DEF Meeting, Leads
  <2>8. Progress(c, k)'
    BY <1>0, <1>5 DEF Progress, Begins
  <2> QED BY <2>6, <2>7, <2>8 DEF Stage
<1>6. CASE phase[c] # "routing"
  <2>1. z = c /\ RelayJoin(c)
    BY <1>0, <1>1, <1>6, RoutingByJoin
  <2>2. phase[c] = "joining" /\ controller' = controller
    BY <1>1, <2>1, JoinCases
  <2>3. ~Known(p)
    <3> SUFFICES ASSUME NEW a \in DashConn, DashName[a] = p, HasJoined(a) PROVE FALSE
      BY DEF Known
    <3>1. a # c
      BY <2>2 DEF HasJoined
    <3>2. client[a] # "new"
      BY ConnParts DEF HasJoined, LinkInv, Reached
    <3> QED BY <1>2, <3>1, <3>2 DEF NameShared
  <2>4. dash[c].n = 0 /\ peers[p].st = "none"
    BY <1>1, <2>2, <2>3 DEF PlaceInv, BegunJoined, PeersKnown, HasJoined
  <2>5. ~Has(queue[c], {PeerLeave(Controller)})
    <3>1. queue[c] \in Seq({Error})
      BY <1>1, <2>2 DEF LinkInv, Unjoined, HasJoined
    <3>2. {Error} \cap {PeerLeave(Controller)} = {}
      BY ControllerNotices
    <3> QED BY <3>1, <3>2, OtherHas
  <2>6. ~Has(queue[k], {PeerLeave(p)}) /\ ~Has(queue[k], {PeerJoin(p)})
    <3>1. queue[k] \in Seq(Letters(k))
      BY <1>1 DEF PlaceInv, Posted
    <3>2. PeerLeave(p) \notin Letters(k) /\ PeerJoin(p) \notin Letters(k)
      <4>1. PeerLeave(p) \notin NotesFor(k) /\ PeerJoin(p) \notin NotesFor(k)
        BY <1>1, <2>3, ControllerNotices DEF NotesFor
      <4>2. PeerLeave(p) \notin FramesFor(k) /\ PeerJoin(p) \notin FramesFor(k)
        BY DEF FramesFor, Genuine, PeerLeave, PeerJoin
      <4> QED BY <4>1, <4>2 DEF Letters
    <3>3. Letters(k) \cap {PeerLeave(p)} = {} /\ Letters(k) \cap {PeerJoin(p)} = {}
      BY <3>2
    <3> QED BY <3>1, <3>3, OtherHas
  <2>7. Has(queue'[k], {PeerJoin(p)}) /\ Once(queue'[k], {PeerJoin(p)})
    BY <1>0, <1>1, <1>2, <2>1, <2>2, <2>6, JoinTells
  <2> QED BY <1>5, <2>1, <2>4, <2>5, <2>6, <2>7
<1>7. CASE phase[c] = "routing"
  <2>1. controller[TheRoom] # k
    BY <1>0, <1>2, <1>3, <1>7 DEF Fixed
  <2>2. RelayJoin(z) /\ z \in CtlConn /\ SlotFree(TheRoom) /\ z = k
    BY <1>0, <2>1, SlotByJoin
  <2>3. phase[k] = "joining"
    BY <2>2, JoinCases
  <2>4. peers[p].st = "none"
    BY <1>1, <2>3 DEF LinkInv, PeersJoined, HasJoined
  <2>5. dashboards[TheRoom][p] = c /\ p \in Present(TheRoom) /\ c \in DashboardConn(TheRoom)
    <3>1. dashboards[TheRoom][p] = c
      BY <1>2, <1>7 DEF LinkInv, Registered
    <3>2. p \in Present(TheRoom)
      BY <1>1, <3>1, RelayAssumption DEF Present
    <3> QED BY <3>1, <3>2 DEF DashboardConn
  <2>6. /\ Has(queue'[c], {PeerJoin(Controller)})
        /\ Once(queue'[c], {PeerJoin(Controller)}) => ~Has(queue[c], {PeerJoin(Controller)})
    BY <1>0, <1>1, <1>2, <2>2, <2>5, JoinTells
  <2>7. dash[c].n = 0 /\ ~Greets(c)
    <3>1. \/ dash[c].n = 0 /\ Once(queue'[c], {PeerJoin(Controller)})
          \/ dash[c].n = 1 /\ ~Has(queue'[c], {PeerJoin(Controller)})
      BY <1>0 DEF First, Greets
    <3> QED BY <2>6, <3>1 DEF Greets
  <2>8. ~Has(queue[c], {PeerLeave(Controller)})
    BY <1>2, <1>7, <2>7 DEF Told, ToldOf
  <2>9. ~Has(queue[k], {PeerLeave(p)})
    <3>1. queue[k] \in Seq({Error})
      BY <1>1, <2>3 DEF LinkInv, Unjoined, HasJoined
    <3>2. {Error} \cap {PeerLeave(p)} = {}
      BY ControllerNotices
    <3> QED BY <3>1, <3>2, OtherHas
  <2>10. Has(queue'[k], {PeerJoin(p)}) /\ Once(queue'[k], {PeerJoin(p)})
    BY <1>0, <1>1, <1>2, <2>2, <2>5, JoinTells
  <2> QED BY <1>5, <2>2, <2>4, <2>7, <2>8, <2>9, <2>10
<1> QED BY <1>6, <1>7

\* The notices the two ends of a link may have to read, over a client's step.
LEMMA ClientClear ==
  ASSUME SessionInv, LinkInv, [Next]_vars, ~(\E z \in Conn : RelayStep(z)), NEW c \in DashConn, Fixed(c),
         NEW k, k = ctl, Clear(c, k)
  PROVE  Clear(c, k)'
<1>1. c \in Conn /\ k \in Conn
  BY FixedFacts
<1>2. ASSUME NEW a \in Conn, NEW M
      PROVE  (~Has(queue[a], M) => ~Has(queue'[a], M)) /\ (Once(queue[a], M) => Once(queue'[a], M))
  <2>1. CASE queue'[a] # queue[a]
    <3>1. PICK env : Take(a, env)
      BY <2>1, ClientTakes
    <3> QED BY <3>1, TakeLeaves
  <2> QED BY <2>1
<1>3. /\ ~Has(queue'[c], {PeerLeave(Controller)})
      /\ ~Has(queue'[k], {PeerLeave(DashName[c])})
      /\ Once(queue'[k], {PeerJoin(DashName[c])})
  BY <1>1, <1>2 DEF Clear
<1> QED BY <1>3 DEF Clear, Has, Once

\* A client's step does not undo what is to bring the two ends together.
LEMMA ClientMeeting ==
  ASSUME SessionInv, LinkInv, [Next]_vars, ~(\E z \in Conn : RelayStep(z)), NEW c \in DashConn, Fixed(c),
         ctl' = ctl, NEW k, k = ctl, Clear(c, k), Meeting(c, k),
         peers'[DashName[c]].st = "none" => peers[DashName[c]].st = "none"
  PROVE  Meeting(c, k)'
<1> PICK p : p = DashName[c]
  OBVIOUS
<1>1. /\ c \in Conn /\ k \in Conn /\ k \in CtlConn /\ p \in PeerId /\ ctl \in CtlConn
      /\ peers \in [PeerId -> PeerState]
  BY FixedFacts DEF SessionInv, TypeOK, PeerState, AnsweredPeer, ReadyPeer
<1>2. CASE peers'[p].st = "none"
  <2>1. peers[p].st = "none" /\ Leads(queue[k], {PeerJoin(p)}, Carries(Up(c)))
    BY <1>2 DEF Meeting
  <2>2. Leads(queue'[k], {PeerJoin(p)}, Carries(Up(c)))
    <3>1. CASE queue'[k] = queue[k]
      BY <2>1, <3>1
    <3>2. CASE queue'[k] # queue[k]
      <4>1. PICK env : Take(k, env)
        BY <1>1, <3>2, ClientTakes
      <4>2. env # PeerJoin(p)
        <5> SUFFICES ASSUME env = PeerJoin(p) PROVE FALSE
          OBVIOUS
        <5>1. CtlPeerJoin(p)
          BY <1>1, <3>2, <4>1, NoticeTaken
        <5>2. peers'[p] = Awaiting
          BY <1>1, <5>1 DEF CtlPeerJoin
        <5> QED BY <1>2, <5>2 DEF Awaiting
      <4>3. queue[k] # <<>> /\ env = Head(queue[k]) /\ queue'[k] = Tail(queue[k])
        BY <1>1, <4>1, TakeLeaves
      <4>4. PICK S : queue[k] \in Seq(S)
        BY <1>1, Sequences
      <4> QED BY <2>1, <4>2, <4>3, <4>4, LeadsTail
    <3> QED BY <3>1, <3>2
  <2> QED BY <1>2, <2>2 DEF Meeting, Leads
<1>3. CASE peers'[p].st # "none"
  <2>1. ~Has(queue'[k], {PeerJoin(p)})
    <3>1. CASE peers[p].st = "none"
      <4>1. peers'[p] # peers[p]
        BY <1>3, <3>1
      <4>2. ASSUME CtlPeerLeave(p) PROVE FALSE
        BY <1>1, <1>3, <4>2 DEF CtlPeerLeave, NoPeer
      <4>3. ASSUME CtlFanout PROVE FALSE
        BY <1>1, <4>1, <3>1, <4>3 DEF CtlFanout
      <4>4. ASSUME NEW d, CtlMsg1(p, d) \/ CtlMsg3(p, d) \/ CtlBadHandshake(p, d) \/ CtlData(p, d) PROVE FALSE
        BY <3>1, <4>4 DEF CtlMsg1, CtlMsg3, CtlBadHandshake, CtlData, IsMsg3Of
      <4>5. CtlPeerJoin(p)
        BY <1>1, <4>1, <4>2, <4>3, <4>4, PeerSteps
      <4>6. Take(k, PeerJoin(p))
        BY <4>5 DEF CtlPeerJoin
      <4> QED BY <1>1, <4>6, TakeLeaves DEF Clear
    <3>2. CASE peers[p].st # "none"
      <4>1. ~Has(queue[k], {PeerJoin(p)})
        BY <3>2 DEF Meeting
      <4>2. CASE queue'[k] # queue[k]
        <5>1. PICK env : Take(k, env)
          BY <1>1, <4>2, ClientTakes
        <5> QED BY <1>1, <4>1, <5>1, TakeLeaves
      <4> QED BY <4>1, <4>2
    <3> QED BY <3>1, <3>2
  <2> QED BY <1>3, <2>1 DEF Meeting, Has
<1> QED BY <1>2, <1>3

\* Who takes from its queue changes it.
LEMMA TakeChanges ==
  ASSUME SessionInv, NEW a \in Conn, NEW env, Take(a, env)
  PROVE  queue'[a] # queue[a]
<1>1. queue[a] # <<>> /\ queue'[a] = Tail(queue[a])
  BY TakeLeaves
<1>2. PICK S : queue[a] \in Seq(S)
  BY Sequences
<1> PICK s \in Seq(S) : s = queue[a]
  BY <1>2
<1>3. Len(Tail(s)) = Len(s) - 1 /\ Len(s) \in Nat
  BY <1>1
<1>4. Tail(s) # s
  <2> SUFFICES ASSUME Tail(s) = s PROVE FALSE
    OBVIOUS
  <2> PICK n \in Nat : n = Len(s)
    BY <1>3
  <2>1. Len(Tail(s)) = n
    BY Zenon
  <2>2. Len(Tail(s)) = n - 1
    BY <1>3
  <2>3. n = n - 1
    BY <2>1, <2>2, Zenon
  <2> QED BY <2>3, SMT
<1> QED BY <1>1, <1>4

\* Before it has read an answer, the frames of a first handshake under way are
\* its opening ones.
LEMMA UpIsOpening ==
  ASSUME SessionInv, LinkInv, NEW c \in DashConn, dash[c].n = 1, dash[c].st = "m1", NEW a \in Conn
  PROVE  /\ InQueue(a, Up(c)) => InQueue(a, Opening(c, 1))
         /\ InHand(a, Up(c)) => InHand(a, Opening(c, 1))
         /\ OnWire(a, Up(c)) => OnWire(a, Opening(c, 1))
<1>1. ASSUME NEW d \in Up(c), Sound(d) PROVE d \in Opening(c, 1)
  BY <1>1, FreshFrames DEF Up
<1>2. ASSUME NEW e \in Envelopes, e \in Carries(Up(c)) PROVE e \in Carries(Opening(c, 1))
  <2>1. e \in Genuine
    BY <1>2, NoticesEmpty DEF Envelopes
  <2> QED BY <1>1, <1>2, <2>1 DEF Carries, Genuine
<1>3. queue[a] \in Seq(Envelopes) /\ wire[a] \in Seq(Outgoing(a))
  BY DEF SessionInv, RelayTyped, QueuesOK, WireSound
<1>4. \A i \in DOMAIN queue[a] : queue[a][i] \in Envelopes
  BY <1>3, ElementOfSeq
<1>5. \A i \in DOMAIN wire[a] : wire[a][i] \in Outgoing(a)
  BY <1>3, ElementOfSeq
<1>6. InQueue(a, Up(c)) => InQueue(a, Opening(c, 1))
  BY <1>2, <1>4 DEF InQueue, Has
<1>7. InHand(a, Up(c)) => InHand(a, Opening(c, 1))
  <2>1. pending[a] # <<>> => pending[a][1].env \in Envelopes
    BY DEF LinkInv, HeldOwn, Envelopes
  <2> QED BY <1>2, <2>1 DEF InHand
<1>8. ASSUME NEW m \in Outgoing(a), m \in Sends(Up(c)) PROVE m \in Sends(Opening(c, 1))
  BY <1>1, <1>8 DEF Sends, Outgoing
<1>9. OnWire(a, Up(c)) => OnWire(a, Opening(c, 1))
  BY <1>5, <1>8 DEF OnWire, Has
<1> QED BY <1>6, <1>7, <1>9

\* The dashboard reads the answer that is due to it, or nothing.
LEMMA AnswerRead ==
  ASSUME SessionInv, OneOpening, LinkInv, PlaceInv, [Next]_vars, ~(\E z \in Conn : RelayStep(z)),
         NEW c \in DashConn, Fixed(c), NEW k, k = ctl, AnswerDue(c, k), NEW d, Take(c, Deliver(Controller, d))
  PROVE  /\ d = Msg2(c, 1, k) /\ IsMsg2Of(c, d)
         /\ \A a \in Conn : ~OnWire(a, Up(c)) /\ ~InHand(a, Up(c)) /\ (a # c => ~InQueue(a, Up(c)))
<1>1. c \in Conn /\ k \in Conn /\ k # c /\ ~NameShared(c)
  BY FixedFacts DEF Fixed
<1>2. d \in Frame /\ Sound(d) /\ ~FromDash(d) /\ d.c = c
  BY <1>1, HeardFrames
<1>3. dash[c].n = 1 /\ dash[c].st = "m1"
  BY DEF AnswerDue
<1>4. d \in Opening(c, 1) /\ d.t = "m2" /\ d.n = 1
  <2>1. d \in Opening(c, 1)
    BY <1>2, <1>3, FreshFrames
  <2> QED BY <1>2, <2>1 DEF Opening, FromDash
<1>5. IsMsg2Of(c, d)
  BY <1>2, <1>3, <1>4 DEF IsMsg2Of
<1>6. Single(Opening(c, 1))
  <2>1. 1 \in Nat
    OBVIOUS
  <2> QED BY <2>1 DEF OneOpening
<1>7. Controller \in Name /\ Deliver(Controller, d) \in Carries(Opening(c, 1))
  BY <1>2, <1>4, Wrapped DEF Name
<1>8. /\ \A a \in Conn : /\ ~OnWire(a, Opening(c, 1)) /\ ~InHand(a, Opening(c, 1))
                         /\ ~InQueue(a, Opening(c, 1))'
      /\ pending' = pending
  BY <1>1, <1>6, <1>7, TakeMoves
<1>9. d = Msg2(c, 1, k)
  <2> SUFFICES ASSUME d # Msg2(c, 1, k) PROVE FALSE
    OBVIOUS
  <2>1. Deliver(Controller, d) \notin Carries({Msg2(c, 1, k)})
    <3>1. d \notin {Msg2(c, 1, k)}
      OBVIOUS
    <3> QED BY <3>1 DEF Carries, Deliver
  <2>2. InQueue(c, {Msg2(c, 1, k)}) \/ InHand(k, {Msg2(c, 1, k)}) \/ OnWire(k, {Msg2(c, 1, k)})
    BY AheadUnderWay DEF AnswerDue
  <2>3. {Msg2(c, 1, k)} \subseteq Opening(c, 1)
    <3>1. 1 \in Nat /\ k \in CtlConn
      BY FixedFacts
    <3>2. Msg2(c, 1, k) \in Frame
      BY <3>1, FrameTypes
    <3> QED BY <3>2 DEF Opening, Msg2
  <2>4. ~InHand(k, {Msg2(c, 1, k)}) /\ ~OnWire(k, {Msg2(c, 1, k)})
    BY <1>1, <1>8, <2>3 DEF InHand, OnWire, Has, Carries, Sends
  <2>5. Has(queue'[c], Carries({Msg2(c, 1, k)}))
    BY <1>1, <2>1, <2>2, <2>4, TakeLeaves DEF InQueue
  <2>6. Has(queue'[c], Carries(Opening(c, 1)))
    BY <2>3, <2>5 DEF Has, Carries
  <2> QED BY <1>1, <1>8, <2>6 DEF InQueue, Has
<1>10. ASSUME NEW a \in Conn, a # c PROVE ~InQueue(a, Opening(c, 1))
  <2>1. queue'[a] = queue[a]
    BY <1>1, <1>10, Takes
  <2> QED BY <1>8, <1>10, <2>1 DEF InQueue, Has
<1> QED BY <1>3, <1>5, <1>8, <1>9, <1>10, UpIsOpening

\* The controller reads of a dashboard it has as a peer what that state waits for.
LEMMA UpRead ==
  ASSUME SessionInv, OneOpening, LinkInv, PlaceInv, [Next]_vars, ~(\E z \in Conn : RelayStep(z)),
         NEW c \in DashConn, Fixed(c), NEW k, k = ctl, Stage(c, k),
         NEW d, Take(k, Deliver(DashName[c], d))
  PROVE  /\ d \in Frame /\ d.c = c /\ d.n = 1 /\ dash[c].n = 1 /\ peers[DashName[c]].st # "none"
         /\ Asked(c, k) => d = Msg1(c, 1) /\ d.t = "m1"
         /\ ~AnswerDue(c, k)
         /\ ProofDue(c, k) => d = Msg3(c, 1, k, DashKey[c])
<1> PICK p : p = DashName[c]
  OBVIOUS
<1>1. /\ c \in Conn /\ k \in Conn /\ k # c /\ ~NameShared(c) /\ k \in CtlConn /\ ctl \in CtlConn
      /\ dash[c].n \in Nat /\ p \in PeerId /\ p \in Name
  BY FixedFacts DEF Fixed, Name
<1>2. d \in Frame /\ Sound(d) /\ FromDash(d) /\ d.c = c
  BY <1>1, ReadFrames
<1>3. dash[c].n = 1 /\ d.n = 1
  <2>1. dash[c].n # 0
    BY <1>2, FreshFrames
  <2>2. dash[c].n = 1
    BY <2>1 DEF Stage, Progress, Begins, Asked, AnswerDue, ProofDue, Settled
  <2> QED BY <1>2, <2>2, FreshFrames
<1>4. Deliver(p, d) \in Carries(Up(c)) /\ Deliver(p, d).data = d /\ Deliver(p, d) # PeerJoin(p)
  <2>1. d \in Up(c)
    BY <1>2 DEF Up
  <2> QED BY <1>1, <1>2, <2>1, Wrapped DEF Deliver, PeerJoin
<1>5. peers[p].st # "none"
  <2> SUFFICES ASSUME peers[p].st = "none" PROVE FALSE
    OBVIOUS
  <2>1. Leads(queue[k], {PeerJoin(p)}, Carries(Up(c)))
    BY DEF Stage, Meeting
  <2>2. PICK S : queue[k] \in Seq(S)
    BY <1>1, Sequences
  <2>3. queue[k] # <<>> /\ Deliver(p, d) = Head(queue[k])
    BY <1>1, TakeLeaves
  <2> QED BY <1>4, <2>1, <2>2, <2>3, LeadsTail
<1>6. dash[c].st = "m1" => d = Msg1(c, 1) /\ d.t = "m1" /\ d \in Opening(c, 1)
  <2> SUFFICES ASSUME dash[c].st = "m1" PROVE d = Msg1(c, 1) /\ d.t = "m1" /\ d \in Opening(c, 1)
    OBVIOUS
  <2>1. d \in Opening(c, 1)
    BY <1>2, <1>3, FreshFrames
  <2>2. d.t = "m1"
    BY <1>2, <2>1 DEF Opening, FromDash
  <2> QED BY <1>2, <1>3, <2>1, <2>2 DEF Frame, Msg1
<1>7. ASSUME AnswerDue(c, k) PROVE FALSE
  <2>1. 1 \in Nat
    OBVIOUS
  <2>2. Single(Opening(c, 1))
    BY <2>1 DEF OneOpening
  <2>3. Deliver(p, d) \in Carries(Opening(c, 1))
    BY <1>1, <1>2, <1>6, <1>7, Wrapped DEF AnswerDue
  <2>4. InQueue(k, Opening(c, 1))
    BY <1>1, <2>3, TakeLeaves DEF InQueue
  <2>5. Msg2(c, 1, k) \in Opening(c, 1)
    BY <1>1, <2>1, FrameTypes DEF Opening, Msg2
  <2>6. InQueue(c, Opening(c, 1)) \/ InHand(k, Opening(c, 1)) \/ OnWire(k, Opening(c, 1))
    <3>1. InQueue(c, {Msg2(c, 1, k)}) \/ InHand(k, {Msg2(c, 1, k)}) \/ OnWire(k, {Msg2(c, 1, k)})
      BY <1>7, AheadUnderWay DEF AnswerDue
    <3> QED BY <2>5, <3>1 DEF InQueue, InHand, OnWire, Has, Carries, Sends
  <2> QED BY <1>1, <2>2, <2>4, <2>6 DEF Single
<1>8. ASSUME ProofDue(c, k) PROVE d = Msg3(c, 1, k, DashKey[c])
  <2> PICK m : m = Msg3(c, 1, k, DashKey[c])
    OBVIOUS
  <2>1. Ahead(c, k, {m}, Up(c))
    BY <1>8 DEF ProofDue
  <2>2. pending' = pending
    BY <1>1, ClientStep
  <2>3. wire'[c] = wire[c]
    <3>1. queue'[k] # queue[k]
      BY <1>1, TakeChanges
    <3> QED BY <1>1, <3>1, ClientWires
  <2>4. Deliver(p, d) \in Carries({m})
    BY <1>1, <1>4, <2>1, <2>2, <2>3, AheadTakes
  <2> QED BY <1>4, <2>4 DEF Carries
<1> QED BY <1>2, <1>3, <1>5, <1>6, <1>7, <1>8 DEF Asked

\* A step of the clients takes the handshake further, or leaves it where it is.
LEMMA DashProgress ==
  ASSUME SessionInv, OneOpening, LinkInv, PlaceInv, [Next]_vars, ~(\E z \in Conn : RelayStep(z)),
         NEW c \in DashConn, Fixed(c), ctl' = ctl, NEW k, k = ctl, Stage(c, k), dash'[c] # dash[c]
  PROVE  Progress(c, k)' /\ peers'[DashName[c]] = peers[DashName[c]]
<1> PICK p : p = DashName[c]
  OBVIOUS
<1>0. /\ c \in Conn /\ k \in Conn /\ k # c /\ ~NameShared(c) /\ k \in CtlConn /\ ctl \in CtlConn
      /\ dash[c].n \in Nat /\ dash[c] \in DashState /\ p \in PeerId /\ p \in Name
      /\ dash \in [DashConn -> DashState]
  BY FixedFacts DEF Fixed, Name, SessionInv, TypeOK, DashState
<1>1. dash[c].st = "done" => dash[c].up
  BY DEF SessionInv, DoneIsUp
<1>2. UNCHANGED <<pending, ctl>>
  BY ClientStep
<1>3. dash[c].n = 0 => dash[c] = NoDash
  BY DEF PlaceInv, BegunJoined
\* Where the dashboard is done, it stays so while it keeps its handshake.
<1>4. ASSUME ProofDue(c, k) \/ Settled(c, k), peers' = peers, queue'[k] = queue[k],
             dash'[c].n = dash[c].n, dash'[c].st = dash[c].st, dash'[c].k = dash[c].k
      PROVE  Progress(c, k)'
  <2>1. CASE Settled(c, k)
    BY <1>4, <2>1 DEF Progress, Settled
  <2>2. CASE ProofDue(c, k)
    <3> PICK m : m = Msg3(c, 1, k, DashKey[c])
      OBVIOUS
    <3>1. Ahead(c, k, {m}, Up(c))'
      <4>1. Ahead(c, k, {m}, Up(c))
        BY <2>2 DEF ProofDue
      <4> QED BY <1>0, <1>2, <1>4, <4>1, ClientWires, AheadGrows
    <3>2. Ahead(c, k, {Msg3(c, 1, k, DashKey[c])}, Up(c))'
      BY <3>1
    <3> QED BY <1>4, <2>2, <3>2 DEF Progress, ProofDue
  <2> QED BY <1>4, <2>1, <2>2
<1>5. CASE DashInput(c)
  <2>1. /\ dash[c].up /\ dash[c].st = "done" /\ peers' = peers /\ queue' = queue
        /\ dash'[c].n = dash[c].n /\ dash'[c].st = dash[c].st /\ dash'[c].k = dash[c].k
    BY <1>0, <1>5 DEF DashInput, relayVars, ctlVars, DashState
  <2>2. ProofDue(c, k) \/ Settled(c, k)
    BY <1>3, <2>1 DEF Stage, Progress, Begins, Asked, AnswerDue, NoDash
  <2> QED BY <1>4, <2>1, <2>2
<1>6. CASE DashPeerJoin(c)
  <2>0. Take(c, PeerJoin(Controller)) /\ peers' = peers
    BY <1>6 DEF DashPeerJoin, ctlVars
  <2>1. Greets(c)
    BY <1>0, <2>0, TakeLeaves DEF Greets
  <2>2. dash[c].n = 0
    BY <2>1 DEF Fixed, First
  <2>3. dash'[c].n = 1 /\ dash'[c].st = "m1" /\ ~dash'[c].up /\ Say(c, <<Msg(Controller, Msg1(c, 1))>>)
    <3>1. dash[c] = NoDash /\ dash[c].n + 1 = 1
      BY <1>3, <2>2
    <3>2. dash'[c] = [NoDash EXCEPT !.st = "m1", !.n = 1, !.up = dash[c].up]
      BY <1>0, <1>6, <3>1 DEF DashPeerJoin
    <3>3. Say(c, <<Msg(Controller, Msg1(c, 1))>>)
      BY <1>6, <3>1 DEF DashPeerJoin
    <3> QED BY <3>1, <3>2, <3>3 DEF NoDash
  <2>4. peers[p].st \in {"none", "awaiting"}
    BY <2>2 DEF Stage, Progress, Begins, Asked, AnswerDue, ProofDue, Settled
  <2>5. Ahead(c, k, {Msg1(c, 1)}, {})'
    <3> PICK d : d = Msg1(c, 1)
      OBVIOUS
    <3> PICK msgs : msgs = <<Msg(Controller, d)>>
      OBVIOUS
    <3>1. d \in Frame /\ Controller \in Name
      <4>1. 1 \in Nat
        OBVIOUS
      <4> QED BY <1>0, <4>1, FrameTypes DEF Name
    <3>2. Msg(Controller, d) \in [to : Name, data : Frame] /\ Msg(Controller, d) \in Sends({d})
      BY <3>1, Wrapped
    <3>3. msgs \in Seq([to : Name, data : Frame]) /\ Leads(msgs, Sends({d}), Sends({}))
      BY <3>2, LeadsOne
    <3>4. wire'[c] = wire[c] \o msgs
      BY <1>0, <2>3, Speaks
    <3>5. /\ ~Has(queue'[k], Carries({})) /\ ~InHand(c, {}) /\ ~OnWire(c, {})
      BY DEF Has, Carries, InHand, OnWire, Sends
    <3>6. Ahead(c, k, {d}, {})'
      BY <1>0, <1>2, <3>3, <3>4, <3>5, AheadBegins
    <3> QED BY <3>6
  <2> QED BY <2>0, <2>3, <2>4, <2>5 DEF Progress, Asked
<1>7. CASE DashPeerLeave(c)
  <2>1. Take(c, PeerLeave(Controller))
    BY <1>7 DEF DashPeerLeave
  <2> QED BY <1>0, <2>1, TakeLeaves DEF Stage, Clear
<1>8. ASSUME NEW d \in Frame, DashMsg2(c, d) \/ DashThrow(c, d)
      PROVE  AnswerDue(c, k) /\ d = Msg2(c, 1, k) /\ DashMsg2(c, d)
             /\ \A a \in Conn : ~OnWire(a, Up(c)) /\ ~InHand(a, Up(c)) /\ (a # c => ~InQueue(a, Up(c)))
  <2>1. Take(c, Deliver(Controller, d)) /\ ~dash[c].up
    BY <1>8 DEF DashMsg2, DashThrow
  <2>2. d \in Frame /\ Sound(d) /\ d.c = c /\ ~FromDash(d)
    BY <1>0, <2>1, HeardFrames
  <2>3. ~Begins(c)
    BY <2>2, FreshFrames DEF Begins
  <2>4. ~ProofDue(c, k) /\ ~Settled(c, k)
    BY <1>1, <2>1 DEF ProofDue, Settled
  <2>5. ~Asked(c, k)
    <3> SUFFICES ASSUME Asked(c, k) PROVE FALSE
      OBVIOUS
    <3>1. d \in Opening(c, 1) /\ 1 \in Nat /\ Controller \in Name
      BY <2>2, FreshFrames DEF Asked, Name
    <3>2. Single(Opening(c, 1))
      BY <3>1 DEF OneOpening
    <3>3. Deliver(Controller, d) \in Carries(Opening(c, 1))
      BY <3>1, Wrapped
    <3>4. InQueue(c, Opening(c, 1))
      BY <1>0, <2>1, <3>3, TakeLeaves DEF InQueue
    <3>5. Msg1(c, 1) \in Opening(c, 1) /\ Msg1(c, 1) # d
      BY <1>0, <2>2, <3>1, FrameTypes DEF Opening, Msg1, FromDash
    <3>6. InQueue(k, {Msg1(c, 1)}) \/ InHand(c, {Msg1(c, 1)}) \/ OnWire(c, {Msg1(c, 1)})
      BY AheadUnderWay DEF Asked
    <3>7. InQueue(k, Opening(c, 1)) \/ InHand(c, Opening(c, 1)) \/ OnWire(c, Opening(c, 1))
      BY <3>5, <3>6 DEF InQueue, InHand, OnWire, Has, Carries, Sends
    <3> QED BY <1>0, <3>2, <3>4, <3>7 DEF Single
  <2>6. AnswerDue(c, k)
    BY <2>3, <2>4, <2>5 DEF Stage, Progress
  <2>7. /\ d = Msg2(c, 1, k) /\ IsMsg2Of(c, d)
        /\ \A a \in Conn : ~OnWire(a, Up(c)) /\ ~InHand(a, Up(c)) /\ (a # c => ~InQueue(a, Up(c)))
    BY <2>1, <2>6, AnswerRead
  <2> QED BY <1>8, <2>6, <2>7 DEF DashThrow
<1>9. ASSUME NEW d \in Frame, DashMsg2(c, d) PROVE Progress(c, k)' /\ peers' = peers
  <2>1. /\ AnswerDue(c, k) /\ d = Msg2(c, 1, k)
        /\ ~OnWire(c, Up(c)) /\ ~InHand(c, Up(c)) /\ ~InQueue(k, Up(c))
    BY <1>0, <1>8, <1>9
  <2>2. d.n = 1 /\ d.k = k
    BY <2>1 DEF Msg2
  <2> PICK m3 : m3 = Msg3(c, 1, k, DashKey[c])
    OBVIOUS
  <2> PICK r : r = Cipher(c, 1, k, Controller, 0, "refresh")
    OBVIOUS
  <2> PICK msgs : msgs = <<Msg(Controller, m3), Msg(Controller, r)>>
    OBVIOUS
  <2>3. /\ dash'[c] = [dash[c] EXCEPT !.st = "done", !.k = d.k, !.tx = 1, !.rx = 0, !.up = TRUE]
        /\ Say(c, msgs) /\ peers' = peers /\ Take(c, Deliver(Controller, d))
    BY <1>0, <1>9, <2>2 DEF DashMsg2, ctlVars
  <2>4. dash'[c].n = 1 /\ dash'[c].st = "done" /\ dash'[c].k = k
    BY <1>0, <2>1, <2>2, <2>3 DEF AnswerDue, DashState
  <2>5. peers[p] = Answered(c, 1)
    BY <2>1 DEF AnswerDue
  <2>6. m3 \in Frame /\ r \in Frame /\ Controller \in Name /\ m3 \in Up(c)
    <3>1. 1 \in Nat /\ 0 \in Nat /\ Controller \in Name
      BY DEF Name
    <3>2. m3 \in Frame /\ r \in Frame
      BY <1>0, <3>1, FrameTypes
    <3> QED BY <3>1, <3>2 DEF Up, FromDash, Msg3
  <2>7. Msg(Controller, m3) \in [to : Name, data : Frame] /\ Msg(Controller, r) \in [to : Name, data : Frame]
        /\ Msg(Controller, m3) \in Sends({m3})
    BY <2>6, Wrapped
  <2>8. msgs \in Seq([to : Name, data : Frame]) /\ Leads(msgs, Sends({m3}), Sends(Up(c)))
    <3>1. msgs \in Seq([to : Name, data : Frame]) /\ 1 \in DOMAIN msgs /\ msgs[1] = Msg(Controller, m3)
          /\ DOMAIN msgs = {1, 2}
      BY <2>7
    <3>2. \A j \in DOMAIN msgs : ~(j < 1)
      BY <3>1
    <3> QED BY <2>7, <3>1, <3>2 DEF Leads
  <2>9. wire'[c] = wire[c] \o msgs
    BY <1>0, <2>3, Speaks
  <2>10. ~Has(queue'[k], Carries(Up(c)))
    <3>1. queue'[k] = queue[k]
      BY <1>0, <2>3, Takes
    <3> QED BY <2>1, <3>1 DEF InQueue
  <2>11. Ahead(c, k, {m3}, Up(c))'
    BY <1>0, <1>2, <2>1, <2>8, <2>9, <2>10, AheadBegins
  <2>12. Ahead(c, k, {Msg3(c, 1, k, DashKey[c])}, Up(c))'
    BY <2>11
  <2> QED BY <2>3, <2>4, <2>5, <2>12 DEF Progress, ProofDue
<1>10. ASSUME NEW d \in Frame, DashThrow(c, d) PROVE Progress(c, k)' /\ peers' = peers
  <2>1. DashMsg2(c, d)
    BY <1>8, <1>10
  <2> QED BY <1>9, <2>1
<1>11. ASSUME NEW d \in Frame, DashData(c, d) PROVE Progress(c, k)' /\ peers' = peers
  <2>1. /\ dash[c].up /\ peers' = peers /\ Take(c, Deliver(Controller, d))
        /\ dash'[c].n = dash[c].n /\ dash'[c].st = dash[c].st /\ dash'[c].k = dash[c].k
    BY <1>0, <1>11 DEF DashData, ctlVars, DashState
  <2>2. ProofDue(c, k) \/ Settled(c, k)
    BY <1>3, <2>1 DEF Stage, Progress, Begins, Asked, AnswerDue, NoDash
  <2>3. queue'[k] = queue[k]
    BY <1>0, <2>1, Takes
  <2> QED BY <1>4, <2>1, <2>2, <2>3
<1>12. DashInput(c) => peers' = peers
  BY DEF DashInput, ctlVars
<1>13. DashPeerJoin(c) => peers' = peers
  BY DEF DashPeerJoin, ctlVars
<1> QED BY <1>5, <1>6, <1>7, <1>9, <1>10, <1>11, <1>12, <1>13, DashSteps

\* When the controller changes a peer, its handshake goes on.
LEMMA CtlProgress ==
  ASSUME SessionInv, OneOpening, LinkInv, PlaceInv, [Next]_vars, ~(\E z \in Conn : RelayStep(z)),
         NEW c \in DashConn, Fixed(c), ctl' = ctl, NEW k, k = ctl, Stage(c, k),
         dash'[c] = dash[c], peers'[DashName[c]] # peers[DashName[c]]
  PROVE  Progress(c, k)' /\ (peers'[DashName[c]].st = "none" => peers[DashName[c]].st = "none")
<1> PICK p : p = DashName[c]
  OBVIOUS
<1>0. /\ c \in Conn /\ k \in Conn /\ k # c /\ ~NameShared(c) /\ k \in CtlConn /\ ctl \in CtlConn
      /\ p \in PeerId /\ p \in Name /\ peers \in [PeerId -> PeerState] /\ peers[p] \in PeerState
      /\ DashKey[c] \in Enrolled /\ ctl # NoConn
  BY FixedFacts DEF Fixed, Name, SessionInv, TypeOK, PeerState, AnsweredPeer, ReadyPeer
<1>1. UNCHANGED <<pending, ctl>>
  BY ClientStep
<1>2. CASE CtlPeerJoin(p)
  <2>1. Take(k, PeerJoin(p)) /\ peers'[p] = Awaiting /\ wire' = wire
    BY <1>0, <1>2 DEF CtlPeerJoin
  <2>2. peers[p].st = "none"
    BY <1>0, <2>1, TakeLeaves DEF Stage, Meeting
  <2>3. CASE Begins(c)
    BY <2>1, <2>2, <2>3 DEF Progress, Begins, Awaiting
  <2>4. CASE ~Begins(c)
    <3> PICK d : d = Msg1(c, 1)
      OBVIOUS
    <3>1. Asked(c, k)
      BY <2>2, <2>4 DEF Stage, Progress, AnswerDue, ProofDue, Settled, Answered
    <3>2. Ahead(c, k, {d}, {})
      BY <3>1 DEF Asked
    <3>3. PeerJoin(p) \notin Carries({d})
      BY DEF PeerJoin, Carries
    <3>4. Ahead(c, k, {d}, {})'
      BY <1>0, <1>1, <2>1, <3>2, <3>3, AheadTakes
    <3>5. Ahead(c, k, {Msg1(c, 1)}, {})'
      BY <3>4
    <3> QED BY <2>1, <2>2, <3>1, <3>5 DEF Progress, Asked, Awaiting
  <2> QED BY <2>3, <2>4
<1>3. CASE CtlPeerLeave(p)
  <2>1. Take(k, PeerLeave(p))
    BY <1>3 DEF CtlPeerLeave
  <2> QED BY <1>0, <2>1, TakeLeaves DEF Stage, Clear
<1>4. CASE CtlFanout
  <2>1. peers[p].st = "ready" /\ peers'[p] = [peers[p] EXCEPT !.tx = @ + 1]
    BY <1>0, <1>4 DEF CtlFanout
  <2>2. peers[p] \in ReadyPeer
    BY <1>0, <2>1, PeerFields
  <2>3. peers'[p].st = "ready" /\ peers'[p].c = peers[p].c /\ peers'[p].n = peers[p].n
    BY <2>1, <2>2, PeerCounts
  <2>4. Settled(c, k)
    BY <2>1 DEF Stage, Progress, Begins, Asked, AnswerDue, ProofDue, Answered
  <2> QED BY <1>0, <2>3, <2>4 DEF Progress, Settled
<1>5. ASSUME NEW d \in Frame, CtlMsg1(p, d)
      PROVE  Progress(c, k)' /\ (peers'[p].st = "none" => peers[p].st = "none")
  <2>1. Take(k, Deliver(p, d)) /\ peers[p].st = "awaiting" /\ d.t = "m1"
    BY <1>5 DEF CtlMsg1
  <2>2. d.c = c /\ d.n = 1 /\ dash[c].n = 1
    BY <2>1, UpRead
  <2>3. Asked(c, k)
    BY <2>1, <2>2 DEF Stage, Progress, Begins, AnswerDue, ProofDue, Settled, Answered
  <2> PICK m : m = Msg2(c, 1, k)
    OBVIOUS
  <2> PICK msgs : msgs = <<Msg(p, m)>>
    OBVIOUS
  <2>4. peers'[p] = Answered(c, 1) /\ Say(k, msgs)
    BY <1>0, <1>5, <2>2 DEF CtlMsg1
  <2>5. Ahead(k, c, {m}, {})'
    <3>1. m \in Frame
      <4>1. 1 \in Nat
        OBVIOUS
      <4> QED BY <1>0, <4>1, FrameTypes
    <3>2. Msg(p, m) \in [to : Name, data : Frame] /\ Msg(p, m) \in Sends({m})
      BY <1>0, <3>1, Wrapped
    <3>3. msgs \in Seq([to : Name, data : Frame]) /\ Leads(msgs, Sends({m}), Sends({}))
      BY <3>2, LeadsOne
    <3>4. wire'[k] = wire[k] \o msgs
      BY <1>0, <2>4, Speaks
    <3>5. /\ ~Has(queue'[c], Carries({})) /\ ~InHand(k, {}) /\ ~OnWire(k, {})
      BY DEF Has, Carries, InHand, OnWire, Sends
    <3> QED BY <1>0, <1>1, <3>3, <3>4, <3>5, AheadBegins
  <2>6. Ahead(k, c, {Msg2(c, 1, k)}, {})'
    BY <2>5
  <2>7. peers'[p].st # "none"
    BY <2>4 DEF Answered
  <2> QED BY <2>3, <2>4, <2>6, <2>7 DEF Progress, Asked, AnswerDue
<1>6. ASSUME NEW d \in Frame, CtlMsg3(p, d)
      PROVE  Progress(c, k)' /\ (peers'[p].st = "none" => peers[p].st = "none")
  <2>1. Take(k, Deliver(p, d)) /\ peers[p].st = "answered" /\ d.c = peers[p].c /\ d.n = peers[p].n
    BY <1>6 DEF CtlMsg3, IsMsg3Of
  <2>2. d.c = c /\ d.n = 1 /\ ~AnswerDue(c, k)
    BY <2>1, UpRead
  <2>3. ProofDue(c, k)
    BY <2>1, <2>2 DEF Stage, Progress, Begins, Asked, Settled
  <2>4. d = Msg3(c, 1, k, DashKey[c])
    BY <2>1, <2>3, UpRead
  <2>5. d.key \in table
    BY <1>0, <2>4 DEF Msg3, PlaceInv, KeysKept
  <2>6. peers'[p] = Ready(d.c, d.n, d.key, 1, 0)
    BY <1>0, <1>6, <2>5 DEF CtlMsg3, Admits
  <2>7. peers'[p].st = "ready" /\ peers'[p].c = c /\ peers'[p].n = 1
    BY <2>2, <2>6 DEF Ready
  <2> QED BY <2>3, <2>7 DEF Progress, ProofDue, Settled
<1>7. ASSUME NEW d \in Frame, CtlBadHandshake(p, d) PROVE FALSE
  <2>1. Take(k, Deliver(p, d))
    BY <1>7 DEF CtlBadHandshake
  <2>2. dash[c].n = 1 /\ (Asked(c, k) => d.t = "m1") /\ ~AnswerDue(c, k)
        /\ (ProofDue(c, k) => d = Msg3(c, 1, k, DashKey[c]))
    BY <2>1, UpRead
  <2>3. Asked(c, k) \/ ProofDue(c, k) \/ Settled(c, k)
    BY <2>2 DEF Stage, Progress, Begins
  <2>4. ASSUME Asked(c, k) PROVE FALSE
    BY <1>7, <2>2, <2>4 DEF Asked, CtlBadHandshake
  <2>5. ASSUME ProofDue(c, k) PROVE FALSE
    BY <1>0, <1>7, <2>2, <2>5 DEF ProofDue, CtlBadHandshake, IsMsg3Of, Answered, Msg3
  <2>6. ASSUME Settled(c, k) PROVE FALSE
    BY <1>7, <2>6 DEF Settled, CtlBadHandshake
  <2> QED BY <2>3, <2>4, <2>5, <2>6
<1>8. ASSUME NEW d \in Frame, CtlData(p, d)
      PROVE  Progress(c, k)' /\ (peers'[p].st = "none" => peers[p].st = "none")
  <2>1. peers[p].st = "ready" /\ peers' = [peers EXCEPT ![p].rx = @ + 1]
    BY <1>8 DEF CtlData
  <2>2. peers[p] \in ReadyPeer /\ peers'[p] = [peers[p] EXCEPT !.rx = @ + 1]
    BY <1>0, <2>1, PeerFields
  <2>3. peers'[p].st = "ready" /\ peers'[p].c = peers[p].c /\ peers'[p].n = peers[p].n
    BY <2>1, <2>2, PeerCounts
  <2>4. Settled(c, k)
    BY <2>1 DEF Stage, Progress, Begins, Asked, AnswerDue, ProofDue, Answered
  <2> QED BY <1>0, <2>3, <2>4 DEF Progress, Settled
<1> QED BY <1>0, <1>2, <1>3, <1>4, <1>5, <1>6, <1>7, <1>8, PeerSteps

\* Where neither end changes, the frame that will take the handshake further is
\* not read.
LEMMA StillProgress ==
  ASSUME SessionInv, OneOpening, LinkInv, PlaceInv, [Next]_vars, ~(\E z \in Conn : RelayStep(z)),
         NEW c \in DashConn, Fixed(c), ctl' = ctl, NEW k, k = ctl, Stage(c, k),
         dash'[c] = dash[c], peers'[DashName[c]] = peers[DashName[c]]
  PROVE  Progress(c, k)'
<1> PICK p : p = DashName[c]
  OBVIOUS
<1>0. /\ c \in Conn /\ k \in Conn /\ k # c /\ ~NameShared(c) /\ k \in CtlConn /\ ctl \in CtlConn
      /\ p \in PeerId /\ p \in Name /\ peers \in [PeerId -> PeerState] /\ peers[p] \in PeerState
      /\ c \notin CtlConn /\ dash \in [DashConn -> DashState]
  BY FixedFacts, ConnParts DEF Fixed, Name, SessionInv, TypeOK, PeerState, AnsweredPeer, ReadyPeer, DashState
\* A frame the controller reads of c leads to a change of the peer, or c is settled.
<1>1. ASSUME NEW X, X \subseteq Up(c), Asked(c, k) \/ ProofDue(c, k), NEW env, Take(k, env), env \in Carries(X)
      PROVE  FALSE
  <2> PICK d : d = env.data
    OBVIOUS
  <2>1. d \in Frame /\ FromDash(d) /\ d.c = c /\ env.t = "deliver" /\ env = Deliver(env.from, d)
    BY <1>1 DEF Carries, Up, Deliver
  <2>2. env.from = p
    BY <1>0, <1>1, <2>1, ReadFrames
  <2>3. Take(k, Deliver(p, d))
    BY <1>1, <2>1, <2>2
  <2>4. /\ Asked(c, k) => d.t = "m1"
        /\ ProofDue(c, k) => d = Msg3(c, 1, k, DashKey[c])
        /\ peers[p].st # "none"
    BY <2>3, UpRead
  <2>5. queue'[k] # queue[k]
    BY <1>0, <2>3, TakeChanges
  <2>6. ASSUME NEW e, Take(k, e) PROVE e = Deliver(p, d)
    BY <2>3, <2>6 DEF Take
  <2>7. ASSUME CtlIgnore \/ \E x \in PeerId : CtlPeerJoin(x) \/ CtlPeerLeave(x) PROVE FALSE
    <3>1. Take(k, Joined) \/ \E x : Take(k, PeerJoin(x)) \/ Take(k, PeerLeave(x))
      BY <1>0, <2>7 DEF CtlIgnore, CtlPeerJoin, CtlPeerLeave
    <3>2. /\ Joined # Deliver(p, d)
          /\ \A x : PeerJoin(x) # Deliver(p, d) /\ PeerLeave(x) # Deliver(p, d)
      BY DEF Joined, PeerJoin, PeerLeave, Deliver
    <3> QED BY <2>6, <3>1, <3>2
  <2>8. ASSUME NEW x \in PeerId, NEW g \in Frame,
               \/ CtlUnknown(x, g) \/ CtlMsg1(x, g) \/ CtlMsg3(x, g) \/ CtlBadHandshake(x, g) \/ CtlData(x, g)
        PROVE  FALSE
    <3>1. Take(k, Deliver(x, g))
      BY <1>0, <2>8 DEF CtlUnknown, CtlMsg1, CtlMsg3, CtlBadHandshake, CtlData
    <3>2. x = p /\ g = d
      BY <2>6, <3>1 DEF Deliver
    <3>3. CASE CtlUnknown(p, d)
      BY <2>4, <3>3 DEF CtlUnknown
    <3>4. CASE CtlMsg1(p, d)
      <4>1. peers'[p].st = "answered" /\ peers[p].st = "awaiting"
        BY <1>0, <3>4 DEF CtlMsg1, Answered
      <4> QED BY <4>1
    <3>5. CASE CtlMsg3(p, d)
      <4>1. peers[p].st = "answered" /\ peers'[p].st \in {"ready", "none"}
        BY <1>0, <3>5 DEF CtlMsg3, IsMsg3Of, Ready, NoPeer
      <4> QED BY <4>1
    <3>6. CASE CtlBadHandshake(p, d)
      <4>1. peers[p].st \in {"awaiting", "answered"} /\ peers'[p].st = "none"
        BY <1>0, <3>6 DEF CtlBadHandshake, NoPeer
      <4> QED BY <4>1
    <3>7. CASE CtlData(p, d)
      BY <1>1, <3>7 DEF CtlData, Asked, ProofDue, Answered
    <3> QED BY <2>8, <3>2, <3>3, <3>4, <3>5, <3>6, <3>7
  <2> QED BY <1>0, <2>5, <2>7, <2>8, ClientTakes, ConnParts
\* So does the answer, at the dashboard.
<1>2. ASSUME AnswerDue(c, k), NEW env, Take(c, env), env \in Carries({Msg2(c, 1, k)})
      PROVE  FALSE
  <2> PICK d : d = env.data
    OBVIOUS
  <2>1. env.t = "deliver" /\ env = Deliver(env.from, d) /\ d = Msg2(c, 1, k) /\ d \in Frame
    BY <1>2 DEF Carries, Deliver
  <2>2. queue'[c] # queue[c]
    BY <1>0, <1>2, TakeChanges
  <2>3. ASSUME NEW e, Take(c, e) PROVE e = env
    BY <1>2, <2>3 DEF Take
  <2>4. ASSUME DashIgnore(c) \/ DashPeerJoin(c) \/ DashPeerLeave(c) PROVE FALSE
    <3>1. \E e : Take(c, e) /\ e.t # "deliver"
      BY <2>4 DEF DashIgnore, DashPeerJoin, DashPeerLeave, Joined, PeerJoin, PeerLeave
    <3> QED BY <2>1, <2>3, <3>1
  <2>5. ASSUME NEW g \in Frame, DashMsg2(c, g) \/ DashThrow(c, g) \/ DashData(c, g) PROVE FALSE
    <3>1. Take(c, Deliver(Controller, g))
      BY <2>5 DEF DashMsg2, DashThrow, DashData
    <3>2. IsMsg2Of(c, g)
      BY <1>2, <3>1, AnswerRead
    <3>3. dash[c].st = "m1" /\ ~dash[c].up
      BY <1>2 DEF AnswerDue
    <3>4. DashMsg2(c, g)
      BY <2>5, <3>2, <3>3 DEF DashThrow, DashData
    <3>5. dash'[c].st = "done"
      BY <1>0, <3>4 DEF DashMsg2, DashState
    <3> QED BY <3>3, <3>5
  <2> QED BY <1>0, <2>2, <2>4, <2>5, ClientTakes
<1>3. CASE Begins(c)
  BY <1>3 DEF Progress, Begins
<1>4. CASE Asked(c, k)
  <2> PICK m : m = Msg1(c, 1)
    OBVIOUS
  <2>1. {m} \subseteq Up(c)
    <3>1. 1 \in Nat
      OBVIOUS
    <3> QED BY <1>0, <3>1, FrameTypes DEF Up, FromDash, Msg1
  <2>2. Ahead(c, k, {m}, {})'
    BY <1>0, <1>1, <1>4, <2>1, AheadClient DEF Asked
  <2>3. Ahead(c, k, {Msg1(c, 1)}, {})'
    BY <2>2
  <2> QED BY <1>4, <2>3 DEF Progress, Asked
<1>5. CASE AnswerDue(c, k)
  <2> PICK m : m = Msg2(c, 1, k)
    OBVIOUS
  <2>1. Ahead(k, c, {m}, {})'
    BY <1>0, <1>2, <1>5, AheadClient DEF AnswerDue
  <2>2. Ahead(k, c, {Msg2(c, 1, k)}, {})'
    BY <2>1
  <2> QED BY <1>5, <2>2 DEF Progress, AnswerDue
<1>6. CASE ProofDue(c, k)
  <2> PICK m : m = Msg3(c, 1, k, DashKey[c])
    OBVIOUS
  <2>1. {m} \subseteq Up(c)
    <3>1. 1 \in Nat
      OBVIOUS
    <3> QED BY <1>0, <3>1, FrameTypes DEF Up, FromDash, Msg3
  <2>2. Ahead(c, k, {m}, Up(c))'
    BY <1>0, <1>1, <1>6, <2>1, AheadClient DEF ProofDue
  <2>3. Ahead(c, k, {Msg3(c, 1, k, DashKey[c])}, Up(c))'
    BY <2>2
  <2> QED BY <1>6, <2>3 DEF Progress, ProofDue
<1>7. CASE Settled(c, k)
  BY <1>7 DEF Progress, Settled
<1> QED BY <1>3, <1>4, <1>5, <1>6, <1>7 DEF Stage, Progress

\* Every step leaves every handshake at some stage.
LEMMA StepStaged ==
  ASSUME SessionInv, OneOpening, LinkInv, PlaceInv, Told, Staged, [Next]_vars
  PROVE  Staged'
<1> SUFFICES ASSUME NEW c \in DashConn, Fixed(c)' PROVE Stage(c, ctl)'
  BY DEF Staged
<1> PICK k : k = ctl
  OBVIOUS
<1>1. ASSUME NEW z \in Conn, RelayStep(z) PROVE Stage(c, ctl)'
  <2>1. ctl' = k
    BY <1>1, RelayKeeps
  <2>2. Stage(c, k)'
    <3>1. CASE Fixed(c)
      <4>1. Stage(c, k)
        BY <3>1 DEF Staged
      <4> QED BY <1>1, <3>1, <4>1, RelayStage
    <3>2. CASE ~Fixed(c)
      BY <1>1, <3>2, FixedEntry
    <3> QED BY <3>1, <3>2
  <2> QED BY <2>1, <2>2 DEF Stage, Clear, Meeting, Progress, Begins, Asked, AnswerDue, ProofDue, Settled
<1>2. ASSUME ~(\E z \in Conn : RelayStep(z)) PROVE Stage(c, ctl)'
  <2>1. Fixed(c) /\ ctl' = ctl
    BY <1>2, ClientFixed
  <2>2. Stage(c, k)
    BY <2>1 DEF Staged
  <2>3. Clear(c, k)'
    BY <1>2, <2>1, <2>2, ClientClear DEF Stage
  <2>4. Progress(c, k)' /\ (peers'[DashName[c]].st = "none" => peers[DashName[c]].st = "none")
    BY <1>2, <2>1, <2>2, DashProgress, CtlProgress, StillProgress
  <2>5. Meeting(c, k)'
    BY <1>2, <2>1, <2>2, <2>4, ClientMeeting DEF Stage
  <2>6. Stage(c, k)'
    BY <2>3, <2>4, <2>5 DEF Stage
  <2> QED BY <2>1, <2>6 DEF Stage, Clear, Meeting, Progress, Begins, Asked, AnswerDue, ProofDue, Settled
<1> QED BY <1>1, <1>2

\* Once nothing is under way, a first handshake is over, and both ends have it.
LEMMA QuietSettled ==
  ASSUME SessionInv, LinkInv, Told, Staged, Quiet, NEW c \in DashConn,
         Linked(c), DashKey[c] \in Enrolled, dash[c].n <= 1, ~NameShared(c), ~lost[c], ~lost[ctl]
  PROVE  Secure(c)
<1> PICK p : p = DashName[c]
  OBVIOUS
<1>1. /\ ctl # NoConn /\ controller[TheRoom] = ctl /\ client[c] = "open" /\ dashboards[TheRoom][p] = c
  BY DEF Linked
<1>2. c \in Conn /\ c # NoConn /\ p \in PeerId /\ ctl \in CtlConn /\ ctl \in Conn
  BY <1>1, ConnParts DEF SessionInv, TypeOK
<1>3. phase[c] = "routing"
  <2>1. HasJoined(dashboards[TheRoom][p])
    BY <1>1, <1>2, RoomGiven, RegistryKinds
  <2>2. phase[c] \notin {"leaving", "gone"}
    BY <1>1, <1>2 DEF LinkInv, EndsLate
  <2> QED BY <1>1, <2>1, <2>2 DEF HasJoined
<1>4. client[ctl] = "open"
  BY <1>1 DEF LinkInv, Connected
<1>5. /\ queue[c] = <<>> /\ queue[ctl] = <<>> /\ pending[c] = <<>> /\ pending[ctl] = <<>>
      /\ wire[c] = <<>> /\ wire[ctl] = <<>>
  BY <1>1, <1>2, <1>4 DEF Quiet
<1>6. ~Greets(c)
  BY <1>5, OneHas DEF Greets
<1>7. dash[c].n = 1
  <2>1. dash[c].n # 0
    BY <1>1, <1>3, <1>6 DEF Told, ToldOf
  <2>2. dash[c].n \in Nat
    BY DEF SessionInv, TypeOK
  <2> QED BY <2>1, <2>2
<1>8. Fixed(c)
  BY <1>1, <1>3, <1>6, <1>7 DEF Fixed, First
<1> PICK k : k = ctl
  OBVIOUS
<1>9. Progress(c, k)
  BY <1>8 DEF Staged, Stage
<1>10. ASSUME NEW from \in {c, k}, NEW rcpt \in {c, k}, NEW X, NEW Y, Ahead(from, rcpt, X, Y) PROVE FALSE
  <2>1. InQueue(rcpt, X) \/ InHand(from, X) \/ OnWire(from, X)
    BY <1>10, AheadUnderWay
  <2> QED BY <1>5, <2>1, OneHas DEF InQueue, InHand, OnWire
<1>11. Settled(c, k)
  <2>1. ASSUME Asked(c, k) PROVE FALSE
    BY <1>10, <2>1 DEF Asked
  <2>2. ASSUME AnswerDue(c, k) PROVE FALSE
    BY <1>10, <2>2 DEF AnswerDue
  <2>3. ASSUME ProofDue(c, k) PROVE FALSE
    BY <1>10, <2>3 DEF ProofDue
  <2> QED BY <1>7, <1>9, <2>1, <2>2, <2>3 DEF Progress, Begins
<1> QED BY <1>11 DEF Settled, Secure, SessionInv, DoneIsUp

\* Whatever came before on other connections, in whatever order the relay and the
\* ends take their steps: a dashboard's first handshake with the controller it
\* is linked to leads to a session, unless something is lost or its name shared.
THEOREM FirstHandshakeEstablishes == Spec => []FirstEstablished
<1>1. SessionInv /\ LinkInv /\ Told /\ Staged => FirstEstablished
  BY QuietSettled DEF FirstEstablished
<1>2. SessionInv /\ LinkInv /\ PlaceInv /\ [Next]_vars => PlaceInv'
  BY StepPlaceInv
<1>3. SessionInv /\ LinkInv /\ PlaceInv /\ Told /\ [Next]_vars => Told'
  BY StepTold
<1>4. SessionInv /\ OneOpening /\ LinkInv /\ PlaceInv /\ Told /\ Staged /\ [Next]_vars => Staged'
  BY StepStaged
<1>5. SessionInv /\ LinkInv /\ [Next]_vars => LinkInv'
  BY StepLinkInv
<1> QED BY <1>1, <1>2, <1>3, <1>4, <1>5, InitSessionInv, StepSessionInv, InitOneOpening, StepOneOpening,
      InitLinkInv, InitPlaceInv, InitTold, InitStaged, PTL DEF Spec

-----------------------------------------------------------------------------
(* Where there is one controller connection only.                          *)

\* The front of what occurs once occurs once.
LEMMA FrontOnce ==
  ASSUME NEW S, NEW s \in Seq(S), NEW n \in 0..Len(s), NEW M, Once(s, M)
  PROVE  Once(SubSeq(s, 1, n), M)
<1>1. Len(s) \in Nat /\ DOMAIN s = 1..Len(s)
  BY LenProperties
<1>2. SubSeq(s, 1, n) = [i \in 1..n |-> s[i]]
  BY <1>1 DEF SubSeq
<1>3. \A i \in 1..n : i \in DOMAIN s
  BY <1>1
<1> QED BY <1>2, <1>3 DEF Once

\* How many of l fit where w of cap are taken.
LEMMA Fits ==
  ASSUME NEW l \in Nat, NEW w \in Nat, NEW cap \in Nat
  PROVE  \E n \in Int : /\ n = IF l <= cap - w THEN l ELSE cap - w
                        /\ n \in 0..l \/ n < 0
<1>1. CASE l <= cap - w
  <2>1. l \in Int /\ l \in 0..l
    OBVIOUS
  <2> QED BY <1>1, <2>1, Zenon
<1>2. CASE ~(l <= cap - w)
  <2>1. cap - w \in Int /\ (cap - w \in 0..l \/ cap - w < 0)
    BY <1>2
  <2> QED BY <1>2, <2>1, Zenon
<1> QED BY <1>1, <1>2

\* What a queue takes of a mail with one notice of a kind has at most one.
LEMMA MailOnce ==
  ASSUME SessionInv, NEW mail, Send(mail), NEW a \in Conn, NEW S, mail[a] \in Seq(S),
         NEW M, Once(mail[a], M), ~Has(queue[a], M)
  PROVE  Once(queue'[a], M)
<1>1. PICK T : queue[a] \in Seq(T)
  BY Sequences
<1>2. PICK t : t = Accepted(a, mail[a])
  OBVIOUS
<1>3. queue'[a] = queue[a] \o t
  BY <1>2 DEF Send
<1>4. t \in Seq(S) /\ Once(t, M)
  <2>1. <<>> \in Seq(S) /\ Once(<<>>, M)
    BY EmptySeq, OneHas
  <2>2. CASE writer[a] = "stopped"
    <3>1. t = <<>>
      BY <1>2, <2>2 DEF Accepted
    <3> QED BY <2>1, <3>1
  <2>3. CASE writer[a] # "stopped"
    <3> PICK s \in Seq(S) : s = mail[a]
      OBVIOUS
    <3>1. Len(s) \in Nat
      BY LenProperties
    <3>2. Len(queue[a]) \in Nat
      BY <1>1, LenProperties
    <3>3. Cap \in Nat
      BY RelayAssumption
    <3>4. PICK n \in Int : /\ n = IF Len(s) <= Cap - Len(queue[a]) THEN Len(s) ELSE Cap - Len(queue[a])
                           /\ n \in 0..Len(s) \/ n < 0
      BY <3>1, <3>2, <3>3, Fits, Zenon
    <3>5. t = SubSeq(s, 1, n)
      BY <1>2, <2>3, <3>4 DEF Accepted
    <3>6. CASE n \in 0..Len(s)
      <4>1. \A i \in 1..n : s[i] \in S
        BY <3>1, <3>6, ElementOfSeq
      <4>2. SubSeq(s, 1, n) \in Seq(S)
        BY <4>1, SubSeqProperties
      <4>3. Once(SubSeq(s, 1, n), M)
        BY <3>6, FrontOnce
      <4> QED BY <3>5, <4>2, <4>3
    <3>7. CASE n < 0
      <4>1. n < 1
        BY <3>7
      <4>2. SubSeq(s, 1, n) = <<>>
        BY <4>1, SubSeqEmpty
      <4> QED BY <2>1, <3>5, <4>2
    <3> QED BY <3>4, <3>6, <3>7
  <2> QED BY <2>2, <2>3
<1>5. Once(queue[a], M)
  BY DEF Has, Once
<1> PICK U : U = T \cup S
  OBVIOUS
<1>6. queue[a] \in Seq(U) /\ t \in Seq(U)
  BY <1>1, <1>4, SeqMonotonic
<1> QED BY <1>3, <1>4, <1>5, <1>6, ConcatHas

\* A dashboard that stays is introduced to no more than one controller: while
\* none has joined, to none.
Introduced(c) ==
  phase[c] \notin {"leaving", "gone"} =>
    /\ First(c)
    /\ Greets(c) \/ dash[c].n # 0 => \E k \in CtlConn : HasJoined(k)
OnceIntroduced == (\A a, b \in CtlConn : a = b) => \A c \in DashConn : Introduced(c)

\* At first no dashboard has been told of a controller.
LEMMA InitOnceIntroduced == Init => OnceIntroduced
<1> SUFFICES ASSUME Init, NEW c \in DashConn PROVE Introduced(c)
  BY DEF OnceIntroduced
<1>1. dash[c].n = 0
  BY DEF Init, NoDash
<1>2. queue[c] = <<>>
  BY ConnParts DEF Init, RelayInit
<1> QED BY <1>1, <1>2, OneHas DEF Introduced, First, Greets

\* Every step keeps it so, when there is one controller connection.
LEMMA StepOnceIntroduced ==
  ASSUME SessionInv, LinkInv, PlaceInv, OnceIntroduced, [Next]_vars
  PROVE  OnceIntroduced'
<1> SUFFICES ASSUME \A a, b \in CtlConn : a = b, NEW c \in DashConn, phase'[c] \notin {"leaving", "gone"}
             PROVE  Introduced(c)'
  BY DEF OnceIntroduced, Introduced
<1> DEFINE J == {PeerJoin(Controller)}
<1>0. c \in Conn /\ c \notin CtlConn /\ dash \in [DashConn -> DashState] /\ dash[c].n \in Nat
  BY ConnParts DEF SessionInv, TypeOK, DashState
<1>1. phase[c] \notin {"leaving", "gone"}
  BY <1>0, PhaseMoves
<1>2. /\ \/ dash[c].n = 0 /\ Once(queue[c], J)
         \/ dash[c].n = 1 /\ ~Has(queue[c], J)
      /\ Has(queue[c], J) \/ dash[c].n # 0 => \E k \in CtlConn : HasJoined(k)
  BY <1>1 DEF OnceIntroduced, Introduced, First, Greets
<1>3. (\E k \in CtlConn : HasJoined(k)) => \E k \in CtlConn : HasJoined(k)'
  BY ConnParts, JoinedStays
\* What is to be shown.
<1>4. ASSUME \/ dash'[c].n = 0 /\ Once(queue'[c], J)
             \/ dash'[c].n = 1 /\ ~Has(queue'[c], J),
             Has(queue'[c], J) \/ dash'[c].n # 0 => \E k \in CtlConn : HasJoined(k)'
      PROVE  Introduced(c)'
  BY <1>4 DEF Introduced, First, Greets, Has, Once, HasJoined
<1>5. ASSUME NEW z \in Conn, RelayStep(z) PROVE Introduced(c)'
  <2>0. dash' = dash
    BY <1>5, RelayKeeps
  <2>1. CASE ~Notified(z, c, PeerJoin(Controller))
    <3>1. \A e \in J : ~Notified(z, c, e)
      BY <2>1
    <3>2. J \subseteq Notices
      BY ControllerNotices
    <3>3. /\ Has(queue'[c], J) => Has(queue[c], J)
          /\ Once(queue[c], J) => Once(queue'[c], J)
      BY <1>0, <1>1, <1>5, <3>1, <3>2, NoticeFlow
    <3> QED BY <1>2, <1>3, <1>4, <2>0, <3>3
  <2>2. CASE Notified(z, c, PeerJoin(Controller))
    <3>1. RelayJoin(z) /\ ((z \in CtlConn /\ SlotFree(TheRoom)) \/ z = c)
      BY <1>5, <2>2, WhoIsTold
    <3>2. phase[z] = "joining"
      BY <3>1, JoinCases
    <3>3. dash[c].n = 0 /\ ~Has(queue[c], J)
      <4>1. CASE z = c
        <5>1. queue[c] \in Seq({Error})
          BY <1>0, <3>2, <4>1 DEF LinkInv, Unjoined, HasJoined
        <5>2. {Error} \cap J = {}
          BY ControllerNotices
        <5>3. ~Has(queue[c], J)
          BY <5>1, <5>2, OtherHas
        <5>4. dash[c].n = 0
          BY <3>2, <4>1 DEF PlaceInv, BegunJoined, HasJoined
        <5> QED BY <5>3, <5>4
      <4>2. CASE z \in CtlConn
        <5>1. \A k \in CtlConn : ~HasJoined(k)
          BY <3>2, <4>2 DEF HasJoined
        <5> QED BY <1>2, <5>1
      <4> QED BY <3>1, <4>1, <4>2
    <3>4. Once(queue'[c], J)
      <4>1. CASE z = c
        <5>1. Send(DashMail(c))
          BY <1>0, <3>1, <4>1, JoinCases
        <5> PICK ps : ps = IF controller[TheRoom] = NoConn THEN <<>> ELSE <<Controller>>
          OBVIOUS
        <5>2. DashMail(c)[c] = Greeting(ps)
          BY <1>0 DEF DashMail
        <5> PICK X : X = {Controller}
          OBVIOUS
        <5>3. \E n \in Nat : /\ ps \in [1..n -> X]
                             /\ \A i, j \in 1..n : ps[i] = ps[j] => i = j
          <6>1. CASE ps = <<>>
            <7>1. 0 \in Nat /\ ps \in [1..0 -> X] /\ \A i, j \in 1..0 : i = j
              BY <6>1
            <7> QED BY <7>1
          <6>2. CASE ps = <<Controller>>
            <7>1. 1 \in Nat /\ ps \in [1..1 -> X] /\ \A i, j \in 1..1 : i = j
              BY <6>2
            <7> QED BY <7>1
          <6> QED BY <6>1, <6>2
        <5> PICK n \in Nat : /\ ps \in [1..n -> X]
                             /\ \A i, j \in 1..n : ps[i] = ps[j] => i = j
          BY <5>3
        <5>4. /\ Greeting(ps) \in Seq({Joined} \cup {PeerJoin(x) : x \in X})
              /\ \A x : Once(Greeting(ps), {PeerJoin(x)})
          BY GreetingItems
        <5> PICK T : T = {Joined} \cup {PeerJoin(x) : x \in X}
          OBVIOUS
        <5> PICK mail : mail = DashMail(c)
          OBVIOUS
        <5>5. Send(mail) /\ mail[c] \in Seq(T) /\ Once(mail[c], J)
          BY <5>1, <5>2, <5>4, Zenon
        <5> QED BY <1>0, <3>3, <5>5, MailOnce
      <4>2. CASE z \in CtlConn /\ SlotFree(TheRoom)
        <5>1. PICK order : Send(CtlMail(z, order))
          BY <3>1, <4>2, ConnParts, JoinCases
        <5>2. CtlMail(z, order)[c] = <<PeerJoin(Controller)>> \/ CtlMail(z, order)[c] = <<>>
          BY <1>0, <4>2 DEF CtlMail
        <5>3. CtlMail(z, order)[c] \in Seq(J) /\ Once(CtlMail(z, order)[c], J)
          <6>1. <<PeerJoin(Controller)>> \in Seq(J) /\ <<>> \in Seq(J)
            OBVIOUS
          <6> QED BY <5>2, <6>1, OneHas
        <5> QED BY <1>0, <3>3, <5>1, <5>3, MailOnce
      <4> QED BY <3>1, <4>1, <4>2
    <3>5. \E k \in CtlConn : HasJoined(k)'
      <4>1. CASE z \in CtlConn /\ SlotFree(TheRoom)
        <5>1. phase'[z] = "routing"
          <6>1. phase \in [Conn -> {"joining", "refused", "routing", "leaving", "gone"}]
            BY DEF SessionInv, RelayTyped, RegistryTyped, HandlersOK
          <6>2. phase' = [phase EXCEPT ![z] = "routing"]
            BY <3>1, <4>1, ConnParts, JoinCases
          <6> QED BY <6>1, <6>2
        <5> QED BY <4>1, <5>1 DEF HasJoined
      <4>2. CASE z = c
        <5>1. JoinNote(c, c, PeerJoin(Controller))
          <6>1. ~RelayCleanup(c)
            BY <3>2, <4>2 DEF RelayCleanup, Cleanup
          <6> QED BY <2>2, <4>2, <6>1 DEF Notified
        <5>2. controller[TheRoom] # NoConn
          BY <1>0, <5>1, ControllerNotices, ConnParts DEF JoinNote
        <5>3. controller[TheRoom] \in CtlConn /\ HasJoined(controller[TheRoom])
          BY <5>2, RoomGiven, RegistryKinds
        <5> QED BY <1>3, <5>3
      <4> QED BY <3>1, <4>1, <4>2
    <3> QED BY <1>4, <2>0, <3>3, <3>4, <3>5
  <2> QED BY <2>1, <2>2
<1>6. ASSUME ~(\E z \in Conn : RelayStep(z)) PROVE Introduced(c)'
  <2>1. /\ Has(queue'[c], J) => Has(queue[c], J)
        /\ Once(queue[c], J) => Once(queue'[c], J)
    <3>1. CASE queue'[c] # queue[c]
      <4>1. PICK env : Take(c, env)
        BY <1>0, <1>6, <3>1, ClientTakes
      <4> QED BY <1>0, <4>1, TakeLeaves
    <3> QED BY <3>1
  <2>2. CASE dash'[c].n = dash[c].n
    BY <1>2, <1>3, <1>4, <2>1, <2>2
  <2>3. CASE dash'[c].n # dash[c].n
    <3>1. DashPeerJoin(c)
      BY <2>3, NumberSteps
    <3>2. Take(c, PeerJoin(Controller)) /\ dash'[c].n = dash[c].n + 1
      BY <1>0, <3>1 DEF DashPeerJoin, NoDash
    <3>3. Has(queue[c], J) /\ (Once(queue[c], J) => ~Has(queue'[c], J))
      BY <1>0, <3>2, TakeLeaves
    <3> QED BY <1>0, <1>2, <1>3, <1>4, <3>2, <3>3
  <2> QED BY <2>2, <2>3
<1> QED BY <1>5, <1>6

\* Without enrolment over the relay, the keys known are those enrolled before.
KeysClosed == ~AllowEnroll => file \subseteq Enrolled /\ table \subseteq Enrolled

\* At first only the enrolled keys are known.
LEMMA InitKeysClosed == Init => KeysClosed
  BY DEF Init, KeysClosed

\* No step enrolls a key while pairing is off.
LEMMA StepKeysClosed ==
  ASSUME SessionInv, KeysClosed, [Next]_vars
  PROVE  KeysClosed'
<1> SUFFICES ASSUME ~AllowEnroll PROVE file' \subseteq Enrolled /\ table' \subseteq Enrolled
  BY DEF KeysClosed
<1>0. file \subseteq Enrolled /\ table \subseteq Enrolled
  BY DEF KeysClosed
<1>1. ASSUME UNCHANGED <<table, file>> PROVE file' \subseteq Enrolled /\ table' \subseteq Enrolled
  BY <1>0, <1>1
<1>2. CASE UNCHANGED vars
  BY <1>1, <1>2 DEF vars, ctlVars
<1>3. ASSUME NEW z \in Conn, RelayStep(z) PROVE UNCHANGED <<table, file>>
  BY <1>3, RelayKeeps
<1>4. ASSUME NEW a \in CtlConn, CtlConnect(a) PROVE file' = file /\ table' = file
  BY <1>4 DEF CtlConnect
<1>5. ASSUME CtlDisconnect \/ CtlFanout PROVE UNCHANGED <<table, file>>
  BY <1>5 DEF CtlDisconnect, CtlFanout
<1>6. ASSUME CtlIgnore \/ \E p \in PeerId : CtlPeerJoin(p) \/ CtlPeerLeave(p) PROVE UNCHANGED <<table, file>>
  BY <1>6 DEF CtlIgnore, CtlPeerJoin, CtlPeerLeave, ctlVars
<1>7. ASSUME NEW p, NEW d, \/ CtlUnknown(p, d) \/ CtlMsg1(p, d) \/ CtlMsg3(p, d)
                           \/ CtlBadHandshake(p, d) \/ CtlData(p, d)
      PROVE  UNCHANGED <<table, file>>
  BY <1>7 DEF CtlUnknown, CtlMsg1, CtlMsg3, CtlBadHandshake, CtlData, ctlVars
<1>8. ASSUME NEW c \in DashConn, \/ DashConnect(c) \/ DashClose(c) \/ DashInput(c)
                                 \/ DashIgnore(c) \/ DashPeerJoin(c) \/ DashPeerLeave(c)
      PROVE  UNCHANGED <<table, file>>
  BY <1>8 DEF DashConnect, DashClose, DashInput, DashIgnore, DashPeerJoin, DashPeerLeave, ctlVars
<1>9. ASSUME NEW c \in DashConn, NEW d \in Frame, DashMsg2(c, d) \/ DashThrow(c, d) \/ DashData(c, d)
      PROVE  UNCHANGED <<table, file>>
  BY <1>9 DEF DashMsg2, DashThrow, DashData, ctlVars
<1> QED BY <1>0, <1>1, <1>2, <1>3, <1>4, <1>5, <1>6, <1>7, <1>8, <1>9, StepCases

\* A controller that does not reconnect, dashboards with names of their own, no
\* enrolment over the relay, and no queue that overflowed.
Steady ==
  /\ \A a, b \in CtlConn : a = b
  /\ \A c, d \in DashConn : DashName[c] = DashName[d] => c = d
  /\ ~AllowEnroll
  /\ \A a \in Conn : ~lost[a]

\* Where links are steady, every handshake is a first one.
LEMMA SteadyEstablished ==
  ASSUME SessionInv, LinkInv, PlaceInv, Told, Staged, OnceIntroduced, KeysClosed, Steady
  PROVE  EstablishedWhenQuiet
<1> SUFFICES ASSUME Quiet, NEW c \in DashConn, Linked(c), Authorized(c) PROVE Secure(c)
  BY DEF EstablishedWhenQuiet
<1>1. ~NameShared(c)
  BY DEF NameShared, Steady
<1>2. DashKey[c] \in Enrolled
  BY DEF Authorized, Steady, KeysClosed
<1>3. c \in Conn /\ ctl \in Conn /\ c # NoConn
  BY ConnParts DEF Linked, SessionInv, TypeOK
<1>4. phase[c] \notin {"leaving", "gone"}
  BY <1>3 DEF Linked, LinkInv, EndsLate
<1>5. dash[c].n <= 1
  BY <1>4 DEF Steady, OnceIntroduced, Introduced, First
<1>6. ~lost[c] /\ ~lost[ctl]
  BY <1>3 DEF Steady
<1> QED BY <1>1, <1>2, <1>5, <1>6, QuietSettled

\* What the runs find broken where the controller reconnects holds, then, while
\* it does not: once nothing is on its way, every authorized dashboard the relay
\* links to the controller has a session.
THEOREM SteadyLinksEstablish == Spec => [](Steady => EstablishedWhenQuiet)
<1>1. SessionInv /\ LinkInv /\ PlaceInv /\ Told /\ Staged /\ OnceIntroduced /\ KeysClosed =>
        (Steady => EstablishedWhenQuiet)
  BY SteadyEstablished
<1>2. SessionInv /\ LinkInv /\ PlaceInv /\ [Next]_vars => PlaceInv'
  BY StepPlaceInv
<1>3. SessionInv /\ LinkInv /\ PlaceInv /\ Told /\ [Next]_vars => Told'
  BY StepTold
<1>4. SessionInv /\ OneOpening /\ LinkInv /\ PlaceInv /\ Told /\ Staged /\ [Next]_vars => Staged'
  BY StepStaged
<1>5. SessionInv /\ LinkInv /\ [Next]_vars => LinkInv'
  BY StepLinkInv
<1>6. SessionInv /\ LinkInv /\ PlaceInv /\ OnceIntroduced /\ [Next]_vars => OnceIntroduced'
  BY StepOnceIntroduced
<1>7. SessionInv /\ KeysClosed /\ [Next]_vars => KeysClosed'
  BY StepKeysClosed
<1> QED BY <1>1, <1>2, <1>3, <1>4, <1>5, <1>6, <1>7, InitSessionInv, StepSessionInv, InitOneOpening,
      StepOneOpening, InitLinkInv, InitPlaceInv, InitTold, InitStaged, InitOnceIntroduced, InitKeysClosed,
      PTL DEF Spec

=============================================================================
