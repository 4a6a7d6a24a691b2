---------------------------- MODULE BridgeProofs ----------------------------
(***************************************************************************)
(* Theorems about the direct transport for any capacities of the channels  *)
(* and of the connection, and any number of frames and of connections.     *)
(***************************************************************************)
EXTENDS Bridge, SequenceTheorems, TLAPS

-----------------------------------------------------------------------------
(* Sequences of frames.                                                    *)

\* Frames of a come before those of b that are numbered with them.
Before(a, b) ==
  \A i \in DOMAIN a, j \in DOMAIN b :
    a[i].kind = b[j].kind /\ a[i].kind \in {"row", "event", "out"} => a[i].n < b[j].n

\* Nothing is before or after nothing.
LEMMA EmptyBefore ==
  /\ Rising(<<>>) /\ Rows(<<>>) = {}
  /\ \A a : Before(a, <<>>) /\ Before(<<>>, a)
BY DEF Rising, Before, Rows

\* A frame alone.
LEMMA SingleBefore ==
  ASSUME NEW S, NEW s \in Seq(S), NEW x
  PROVE  /\ Before(s, <<x>>) <=> \A i \in DOMAIN s :
              s[i].kind = x.kind /\ x.kind \in {"row", "event", "out"} => s[i].n < x.n
         /\ Before(<<x>>, s) <=> \A i \in DOMAIN s :
              s[i].kind = x.kind /\ x.kind \in {"row", "event", "out"} => x.n < s[i].n
         /\ Rising(<<x>>)
         /\ Rows(<<x>>) = IF x.kind = "row" THEN {x.n} ELSE {}
<1>1. DOMAIN <<x>> = {1} /\ <<x>>[1] = x
  OBVIOUS
<1> QED BY <1>1 DEF Before, Rising, Rows

\* The places of a sequence with one more frame at its end.
LEMMA AppendElements ==
  ASSUME NEW S, NEW s \in Seq(S), NEW x \in S
  PROVE  /\ Append(s, x) \in Seq(S) /\ Len(Append(s, x)) = Len(s) + 1 /\ Len(s) \in Nat
         /\ DOMAIN Append(s, x) = DOMAIN s \cup {Len(s) + 1} /\ DOMAIN s = 1..Len(s)
         /\ \A i \in DOMAIN s : Append(s, x)[i] = s[i]
         /\ Append(s, x)[Len(s) + 1] = x
<1>1. Len(s) \in Nat /\ DOMAIN s = 1..Len(s)
  BY LenProperties
<1>2. Append(s, x) \in Seq(S) /\ Len(Append(s, x)) = Len(s) + 1
  BY AppendProperties
<1>3. DOMAIN Append(s, x) = 1..Len(s) + 1
  BY <1>2, LenProperties
<1> QED BY <1>1, <1>2, <1>3, AppendProperties

\* A frame at the end of a sequence.
LEMMA AppendBefore ==
  ASSUME NEW S, NEW s \in Seq(S), NEW x \in S, NEW t \in Seq(S)
  PROVE  /\ Before(t, Append(s, x)) <=> Before(t, s) /\ Before(t, <<x>>)
         /\ Before(Append(s, x), t) <=> Before(s, t) /\ Before(<<x>>, t)
         /\ Rising(Append(s, x)) <=> Rising(s) /\ Before(s, <<x>>)
         /\ Rows(Append(s, x)) = Rows(s) \cup Rows(<<x>>)
<1> DEFINE a == Append(s, x)
           l == Len(s) + 1
<1>1. /\ DOMAIN a = DOMAIN s \cup {l} /\ DOMAIN s = 1..Len(s) /\ Len(s) \in Nat
      /\ a[l] = x /\ \A i \in DOMAIN s : a[i] = s[i]
  BY AppendElements
<1>2. DOMAIN <<x>> = {1} /\ <<x>>[1] = x
  OBVIOUS
<1>3. \A i \in DOMAIN s : i < l /\ ~(l < i)
  BY <1>1
<1>4. ~(l < l)
  BY <1>1
<1> HIDE DEF a, l
<1>5. Before(t, a) <=> Before(t, s) /\ Before(t, <<x>>)
  BY <1>1, <1>2 DEF Before
<1>6. Before(a, t) <=> Before(s, t) /\ Before(<<x>>, t)
  <2>1. ASSUME Before(a, t) PROVE Before(s, t) /\ Before(<<x>>, t)
    <3>1. \A i \in DOMAIN s : i \in DOMAIN a /\ a[i] = s[i]
      BY <1>1
    <3>2. Before(s, t)
      BY <2>1, <3>1 DEF Before
    <3>3. l \in DOMAIN a
      BY <1>1
    <3> QED BY <1>1, <1>2, <2>1, <3>2, <3>3 DEF Before
  <2>2. ASSUME Before(s, t), Before(<<x>>, t) PROVE Before(a, t)
    BY <1>1, <1>2, <2>2 DEF Before
  <2> QED BY <2>1, <2>2
<1>7. Rising(a) <=> Rising(s) /\ Before(s, <<x>>)
  <2>1. ASSUME Rising(a) PROVE Rising(s) /\ Before(s, <<x>>)
    BY <1>1, <1>2, <1>3, <2>1 DEF Before, Rising
  <2>2. ASSUME Rising(s), Before(s, <<x>>) PROVE Rising(a)
    <3> SUFFICES ASSUME NEW i \in DOMAIN a, NEW j \in DOMAIN a, i < j, a[i].kind = a[j].kind,
                        a[i].kind \in {"row", "event", "out"}
                 PROVE  a[i].n < a[j].n
      BY DEF Rising
    <3>1. i \in DOMAIN s /\ a[i] = s[i]
      BY <1>1, <1>3, <1>4
    <3>2. CASE j \in DOMAIN s
      BY <1>1, <2>2, <3>1, <3>2 DEF Rising
    <3>3. CASE j = l
      <4>1. s[i].kind = x.kind /\ a[j] = x
        BY <1>1, <3>1, <3>3
      <4> QED BY <1>2, <2>2, <3>1, <4>1 DEF Before
    <3> QED BY <1>1, <3>2, <3>3
  <2> QED BY <2>1, <2>2
<1>8. Rows(a) = Rows(s) \cup Rows(<<x>>)
  BY <1>1, <1>2 DEF Rows
<1> QED BY <1>5, <1>6, <1>7, <1>8 DEF a

\* The places of a sequence without its first frame.
LEMMA TailElements ==
  ASSUME NEW S, NEW s \in Seq(S), s # <<>>
  PROVE  /\ Tail(s) \in Seq(S) /\ Len(Tail(s)) = Len(s) - 1 /\ Len(s) \in Nat \ {0}
         /\ DOMAIN Tail(s) = 1..Len(s) - 1 /\ DOMAIN s = 1..Len(s)
         /\ Head(s) \in S /\ Head(s) = s[1]
         /\ \A i \in DOMAIN Tail(s) : i + 1 \in DOMAIN s /\ Tail(s)[i] = s[i + 1]
         /\ \A i \in DOMAIN s : i # 1 => i - 1 \in DOMAIN Tail(s) /\ s[i] = Tail(s)[i - 1]
<1>1. Len(s) \in Nat /\ DOMAIN s = 1..Len(s) /\ Len(s) # 0
  BY LenProperties, EmptySeq
<1>2. Tail(s) \in Seq(S) /\ Len(Tail(s)) = Len(s) - 1 /\ Head(s) \in S
  BY HeadTailProperties
<1>3. DOMAIN Tail(s) = 1..Len(s) - 1
  BY <1>2, LenProperties
<1>4. \A i \in 1..Len(Tail(s)) : Tail(s)[i] = s[i + 1]
  BY HeadTailProperties
<1>5. Head(s) = s[1]
  BY <1>1
<1>6. \A i \in DOMAIN Tail(s) : i + 1 \in DOMAIN s /\ Tail(s)[i] = s[i + 1]
  BY <1>1, <1>2, <1>3, <1>4
<1>7. \A i \in DOMAIN s : i # 1 => i - 1 \in DOMAIN Tail(s) /\ s[i] = Tail(s)[i - 1]
  <2> SUFFICES ASSUME NEW i \in DOMAIN s, i # 1
               PROVE  i - 1 \in DOMAIN Tail(s) /\ s[i] = Tail(s)[i - 1]
    OBVIOUS
  <2>1. i - 1 \in DOMAIN Tail(s) /\ (i - 1) + 1 = i
    BY <1>1, <1>3
  <2> QED BY <1>6, <2>1
<1> QED BY <1>1, <1>2, <1>3, <1>5, <1>6, <1>7

\* The first frame of a sequence and the rest.
LEMMA TailBefore ==
  ASSUME NEW S, NEW s \in Seq(S), s # <<>>, NEW t \in Seq(S)
  PROVE  /\ Before(t, s) <=> Before(t, Tail(s)) /\ Before(t, <<Head(s)>>)
         /\ Before(s, t) <=> Before(Tail(s), t) /\ Before(<<Head(s)>>, t)
         /\ Rising(s) <=> Rising(Tail(s)) /\ Before(<<Head(s)>>, Tail(s))
         /\ Rows(s) = Rows(<<Head(s)>>) \cup Rows(Tail(s))
<1> DEFINE x == Head(s)
           r == Tail(s)
<1>1. /\ DOMAIN r = 1..Len(s) - 1 /\ DOMAIN s = 1..Len(s) /\ Len(s) \in Nat \ {0} /\ x = s[1]
      /\ \A i \in DOMAIN r : i + 1 \in DOMAIN s /\ r[i] = s[i + 1]
      /\ \A i \in DOMAIN s : i # 1 => i - 1 \in DOMAIN r /\ s[i] = r[i - 1]
  BY TailElements
<1>2. DOMAIN <<x>> = {1} /\ <<x>>[1] = x
  OBVIOUS
<1>3. 1 \in DOMAIN s
  BY <1>1
<1> HIDE DEF x, r
<1>4. Before(t, s) <=> Before(t, r) /\ Before(t, <<x>>)
  <2>1. ASSUME Before(t, s) PROVE Before(t, r) /\ Before(t, <<x>>)
    <3>1. Before(t, r)
      BY <1>1, <2>1 DEF Before
    <3>2. Before(t, <<x>>)
      BY <1>1, <1>2, <1>3, <2>1 DEF Before
    <3> QED BY <3>1, <3>2
  <2>2. ASSUME Before(t, r), Before(t, <<x>>) PROVE Before(t, s)
    BY <1>1, <1>2, <1>3, <2>2 DEF Before
  <2> QED BY <2>1, <2>2
<1>5. Before(s, t) <=> Before(r, t) /\ Before(<<x>>, t)
  <2>1. ASSUME Before(s, t) PROVE Before(r, t) /\ Before(<<x>>, t)
    <3>1. Before(r, t)
      BY <1>1, <2>1 DEF Before
    <3>2. Before(<<x>>, t)
      BY <1>1, <1>2, <1>3, <2>1 DEF Before
    <3> QED BY <3>1, <3>2
  <2>2. ASSUME Before(r, t), Before(<<x>>, t) PROVE Before(s, t)
    BY <1>1, <1>2, <1>3, <2>2 DEF Before
  <2> QED BY <2>1, <2>2
<1>6. Rising(s) <=> Rising(r) /\ Before(<<x>>, r)
  <2>1. ASSUME Rising(s) PROVE Rising(r) /\ Before(<<x>>, r)
    <3>1. Rising(r)
      <4> SUFFICES ASSUME NEW i \in DOMAIN r, NEW j \in DOMAIN r, i < j, r[i].kind = r[j].kind,
                          r[i].kind \in {"row", "event", "out"}
                   PROVE  r[i].n < r[j].n
        BY DEF Rising
      <4>1. i + 1 < j + 1
        BY <1>1
      <4> QED BY <1>1, <2>1, <4>1 DEF Rising
    <3>2. Before(<<x>>, r)
      <4>1. \A j \in DOMAIN r : 1 < j + 1
        BY <1>1
      <4> QED BY <1>1, <1>2, <1>3, <2>1, <4>1 DEF Before, Rising
    <3> QED BY <3>1, <3>2
  <2>2. ASSUME Rising(r), Before(<<x>>, r) PROVE Rising(s)
    <3> SUFFICES ASSUME NEW i \in DOMAIN s, NEW j \in DOMAIN s, i < j, s[i].kind = s[j].kind,
                        s[i].kind \in {"row", "event", "out"}
                 PROVE  s[i].n < s[j].n
      BY DEF Rising
    <3>1. j # 1 /\ i - 1 < j - 1
      BY <1>1
    <3>2. j - 1 \in DOMAIN r /\ s[j] = r[j - 1]
      BY <1>1, <3>1
    <3>3. CASE i = 1
      BY <1>1, <1>2, <2>2, <3>2, <3>3 DEF Before
    <3>4. CASE i # 1
      <4>1. i - 1 \in DOMAIN r /\ s[i] = r[i - 1]
        BY <1>1, <3>4
      <4> QED BY <2>2, <3>1, <3>2, <4>1 DEF Rising
    <3> QED BY <3>3, <3>4
  <2> QED BY <2>1, <2>2
<1>7. Rows(s) = Rows(<<x>>) \cup Rows(r)
  <2>1. ASSUME NEW n \in Rows(s) PROVE n \in Rows(<<x>>) \cup Rows(r)
    BY <1>1, <1>2, <1>3 DEF Rows
  <2>2. ASSUME NEW n \in Rows(<<x>>) \cup Rows(r) PROVE n \in Rows(s)
    BY <1>1, <1>2, <1>3 DEF Rows
  <2> QED BY <2>1, <2>2
<1> QED BY <1>4, <1>5, <1>6, <1>7 DEF x, r

-----------------------------------------------------------------------------
(* Type correctness.                                                       *)

HiFrame  == [kind : {"hello", "row", "event"}, n : Nat]
LoFrame  == [kind : {"out", "more"}, n : Nat]
RowFrame == [kind : {"row"}, n : Nat]
Chunk    == [n : 0..MaxOut, event : BOOLEAN]

\* The frames of each channel are frames, and the frames there are.
LEMMA FrameTypes ==
  /\ HiFrame \subseteq Frame /\ LoFrame \subseteq Frame /\ RowFrame \subseteq HiFrame
  /\ NoFrame \in Frame /\ Auth \in Frame /\ Hello \in HiFrame
  /\ Auth # NoFrame /\ NoFrame.kind = "auth" /\ Auth.kind = "auth" /\ Hello.kind = "hello"
  /\ \A n \in Nat : F("row", n) \in RowFrame /\ F("event", n) \in HiFrame /\ F("out", n) \in LoFrame
  /\ F("more", 0) \in LoFrame
  /\ \A k, n : F(k, n).kind = k /\ F(k, n).n = n
BY DEF HiFrame, LoFrame, RowFrame, Frame, Kind, NoFrame, Auth, Hello, F

\* The capacities and bounds are numbers, and a channel has a place at least.
LEMMA Bounds ==
  /\ HiCap \in Nat \ {0} /\ LoCap \in Nat \ {0} /\ InCap \in Nat \ {0} /\ NetCap \in Nat \ {0}
  /\ MaxOut \in Nat /\ MaxRows \in Nat /\ MaxInputs \in Nat /\ MaxBreaks \in Nat
BY BridgeAssumption

\* What is offered is added at the end, or nothing is.
LEMMA TryAddType ==
  ASSUME NEW S, NEW q \in Seq(S), NEW x \in S, NEW cap \in Nat, Len(q) <= cap
  PROVE  TryAdd(q, cap, x) \in Seq(S) /\ Len(TryAdd(q, cap, x)) <= cap
BY AppendElements DEF TryAdd

\* TypeOK in parts, with what each channel may hold: the frames of hi, lo and the
\* poll are of their kinds, so that the transport never takes up the empty frame.
PtyTyped ==
  /\ session \in {"alive", "gone"} /\ client \in {"attached", "leaving", "exited"}
  /\ reader \in {"on", "done"} /\ made \in 0..MaxOut
  /\ pty \in Seq(Chunk) /\ Len(pty) <= 1
  /\ pty # <<>> => pty[1] = More \/ (made # 0 /\ pty[1].n = made)
RowsTyped ==
  /\ polled \in 0..MaxRows /\ batch \in Seq(RowFrame) /\ watcher \in {"on", "done"}
HiTyped == hi \in Seq(HiFrame) /\ Len(hi) <= HiCap
LoTyped == lo \in Seq(LoFrame) /\ Len(lo) <= LoCap
InTyped == inq \in Seq(1..MaxInputs) /\ Len(inq) <= InCap
WsTyped ==
  /\ ws \in {"down", "connecting", "up", "sending", "taking", "done"}
  /\ frame \in Frame /\ (frame # NoFrame <=> ws = "sending")
  /\ frame.kind = "auth" => frame \in {NoFrame, Auth}
  /\ taken \in 0..MaxInputs /\ (taken # 0 <=> ws = "taking")
  /\ setup \in Setup
LinkTyped ==
  /\ link \in {"none", "open", "broken"}
  /\ net \in Seq(Frame) /\ Len(net) <= NetCap
  /\ down \in Seq(1..MaxInputs) /\ Len(down) <= NetCap
  /\ breaks \in 0..MaxBreaks /\ recv \in Seq(Frame) /\ mark \in 0..Len(recv)
  /\ sentIn \in 0..MaxInputs
MainTyped ==
  /\ typed \in Seq(1..MaxInputs) /\ cancel \in BOOLEAN
  /\ main \in {"run", "closing", "waiting", "exited"}

Typed ==
  /\ PtyTyped /\ RowsTyped /\ HiTyped /\ LoTyped /\ InTyped
  /\ WsTyped /\ LinkTyped /\ MainTyped

\* The parts give TypeOK.
LEMMA TypedOK == Typed => TypeOK
<1> SUFFICES ASSUME Typed PROVE TypeOK
  OBVIOUS
<1>1. hi \in Seq(Frame) /\ lo \in Seq(Frame) /\ batch \in Seq(Frame)
  <2>1. HiFrame \subseteq Frame /\ LoFrame \subseteq Frame /\ RowFrame \subseteq Frame
    BY FrameTypes
  <2> QED BY <2>1, SeqMonotonic DEF Typed, HiTyped, LoTyped, RowsTyped
<1> QED BY <1>1 DEF Typed, PtyTyped, RowsTyped, HiTyped, LoTyped, InTyped, WsTyped, LinkTyped,
                    MainTyped, TypeOK, Chunk

-----------------------------------------------------------------------------
(* Which steps change what.                                                *)

\* The terminal's side is left alone by all but the agent, tmux, the reader and
\* the detach.
LEMMA PtySteps ==
  ASSUME Next
  PROVE  \/ UNCHANGED ptyVars
         \/ Output \/ KillSession \/ DetachOutside \/ ClientExit \/ ReadChunk \/ ReadEof \/ MainClose
BY DEF Next, ReaderStep, WatcherStep, WsStep, MainStep, Outside,
       WatchPoll, WatchSend, WatchSendFails, WatchStop,
       WsStart, WsRefuses, WsCancelled, WsConnect, WsConnectFails,
       SelectHi, SelectLo, SelectInbound, SelectClosed, WsSent, WsSentInVain, WsSendFails, WsHandOn,
       MainInput, MainStop, ProcessExit, RemoteRecv, RemoteSend, Break, Signal

\* Only the watcher polls and only it sends what it polled.
LEMMA RowSteps ==
  ASSUME Next
  PROVE  \/ UNCHANGED rowVars
         \/ WatchPoll \/ WatchSend \/ WatchSendFails \/ WatchStop
BY DEF Next, ReaderStep, WatcherStep, WsStep, MainStep, Outside, ReadChunk, ReadEof,
       WsStart, WsRefuses, WsCancelled, WsConnect, WsConnectFails,
       SelectHi, SelectLo, SelectInbound, SelectClosed, WsSent, WsSentInVain, WsSendFails, WsHandOn,
       MainInput, MainStop, MainClose, ProcessExit,
       Output, KillSession, DetachOutside, ClientExit, RemoteRecv, RemoteSend, Break, Signal, ptyVars

\* Reader and watcher fill the channels to the transport, which empties them.
LEMMA ChanSteps ==
  ASSUME Next
  PROVE  /\ \/ UNCHANGED hi
            \/ ReadChunk \/ WatchSend \/ WsRefuses \/ WsCancelled \/ SelectHi
         /\ \/ UNCHANGED lo
            \/ ReadChunk \/ WsRefuses \/ WsCancelled \/ SelectLo
         /\ \/ UNCHANGED inq
            \/ WsHandOn \/ MainInput
BY DEF Next, ReaderStep, WatcherStep, WsStep, MainStep, Outside, chans,
       ReadChunk, ReadEof, WatchPoll, WatchSend, WatchSendFails, WatchStop,
       WsStart, WsRefuses, WsCancelled, WsConnect, WsConnectFails,
       SelectHi, SelectLo, SelectInbound, SelectClosed, WsSent, WsSentInVain, WsSendFails, WsHandOn,
       MainInput, MainStop, MainClose, ProcessExit,
       Output, KillSession, DetachOutside, ClientExit, RemoteRecv, RemoteSend, Break, Signal

\* Only the transport's own steps change where it is and what it holds.
LEMMA WsSteps ==
  ASSUME Next
  PROVE  UNCHANGED wsVars \/ WsStep
BY DEF Next, ReaderStep, WatcherStep, MainStep, Outside,
       ReadChunk, ReadEof, WatchPoll, WatchSend, WatchSendFails, WatchStop,
       MainInput, MainStop, MainClose, ProcessExit,
       Output, KillSession, DetachOutside, ClientExit, RemoteRecv, RemoteSend, Break, Signal

\* The connection is changed by the transport, the remote, the network and the
\* end of main.
LEMMA LinkSteps ==
  ASSUME Next
  PROVE  \/ UNCHANGED linkVars
         \/ WsCancelled \/ WsConnect \/ SelectInbound \/ SelectClosed \/ WsSent \/ WsSendFails
         \/ MainClose \/ RemoteRecv \/ RemoteSend \/ Break
BY DEF Next, ReaderStep, WatcherStep, WsStep, MainStep, Outside,
       ReadChunk, ReadEof, WatchPoll, WatchSend, WatchSendFails, WatchStop,
       WsStart, WsRefuses, WsConnectFails, SelectHi, SelectLo, WsSentInVain, WsHandOn,
       MainInput, MainStop, ProcessExit, Output, KillSession, DetachOutside, ClientExit, Signal

\* Main and the token are changed by main, a signal and the reader's end.
LEMMA MainSteps ==
  ASSUME Next
  PROVE  \/ UNCHANGED mainVars
         \/ ReadEof \/ MainInput \/ MainStop \/ MainClose \/ ProcessExit \/ Signal
BY DEF Next, ReaderStep, WatcherStep, WsStep, MainStep, Outside,
       ReadChunk, WatchPoll, WatchSend, WatchSendFails, WatchStop,
       WsStart, WsRefuses, WsCancelled, WsConnect, WsConnectFails,
       SelectHi, SelectLo, SelectInbound, SelectClosed, WsSent, WsSentInVain, WsSendFails, WsHandOn,
       Output, KillSession, DetachOutside, ClientExit, RemoteRecv, RemoteSend, Break

-----------------------------------------------------------------------------
(* Each part stays well typed.                                             *)

\* The first element of a channel, and what stays in it.
LEMMA TailType ==
  ASSUME NEW S, NEW q \in Seq(S), q # <<>>, NEW cap \in Nat, Len(q) <= cap
  PROVE  Head(q) \in S /\ Tail(q) \in Seq(S) /\ Len(Tail(q)) <= cap
<1>1. Len(q) \in Nat /\ Len(Tail(q)) = Len(q) - 1 /\ Head(q) \in S /\ Tail(q) \in Seq(S)
  BY TailElements
<1> QED BY <1>1

\* An element more in a channel that has room.
LEMMA AddType ==
  ASSUME NEW S, NEW q \in Seq(S), NEW x \in S, NEW cap \in Nat, Len(q) < cap
  PROVE  Append(q, x) \in Seq(S) /\ Len(Append(q, x)) <= cap
<1>1. Len(q) \in Nat /\ Len(Append(q, x)) = Len(q) + 1 /\ Append(q, x) \in Seq(S)
  BY AppendElements
<1> QED BY <1>1

\* The chunk in the terminal.
LEMMA ChunkType ==
  ASSUME PtyTyped, pty # <<>>
  PROVE  /\ pty[1].n \in Nat /\ pty[1].event \in BOOLEAN /\ made \in Nat
         /\ pty[1] = More => pty[1].event = FALSE /\ OutFrame(pty[1]) = F("more", 0)
         /\ pty[1] # More => /\ pty[1].n = made /\ made # 0
                            /\ OutFrame(pty[1]) = F("out", made)
         /\ OutFrame(pty[1]) \in LoFrame
<1>1. pty[1] \in Chunk /\ made \in Nat
  BY Bounds DEF PtyTyped
<1>2. pty[1] # More => pty[1].n = made /\ made # 0
  BY DEF PtyTyped
<1>3. pty[1].n \in Nat /\ pty[1].event \in BOOLEAN
  BY <1>1, Bounds DEF Chunk
<1>4. pty[1] = More => pty[1].event = FALSE /\ OutFrame(pty[1]) = F("more", 0)
  BY DEF More, OutFrame
<1>5. pty[1] # More => OutFrame(pty[1]) = F("out", made)
  BY <1>2 DEF OutFrame
<1> QED BY <1>1, <1>2, <1>3, <1>4, <1>5, FrameTypes

\* The terminal's side.
LEMMA StepPty == Typed /\ Next => PtyTyped'
<1> SUFFICES ASSUME Typed, Next PROVE PtyTyped'
  OBVIOUS
<1>1. CASE Output /\ made' = made + 1
  <2>1. PICK e \in BOOLEAN : pty' = <<[n |-> made + 1, event |-> e]>>
    BY <1>1 DEF Output, Typed, PtyTyped
  <2> DEFINE x == [n |-> made + 1, event |-> e]
  <2>2. made' = made + 1 /\ made + 1 \in 1..MaxOut /\ made' \in 0..MaxOut /\ made' # 0
    BY <1>1, Bounds DEF Output, Typed, PtyTyped
  <2>3. x \in Chunk /\ x.n = made + 1
    BY <2>2, Bounds DEF Chunk
  <2> HIDE DEF x
  <2>4. <<x>> \in Seq(Chunk) /\ Len(<<x>>) <= 1 /\ <<x>>[1] = x
    BY <2>3
  <2>5. pty' = <<x>>
    BY <2>1 DEF x
  <2>6. UNCHANGED <<session, client, reader>>
    BY <1>1 DEF Output
  <2> QED BY <2>2, <2>3, <2>4, <2>5, <2>6 DEF Typed, PtyTyped
<1>5. CASE Output /\ made' # made + 1
  <2>1. pty' = <<More>> /\ UNCHANGED <<session, client, made, reader>>
    BY <1>5 DEF Output
  <2>2. More \in Chunk
    BY Bounds DEF More, Chunk
  <2>3. <<More>> \in Seq(Chunk) /\ Len(<<More>>) <= 1 /\ <<More>>[1] = More
    BY <2>2
  <2> QED BY <2>1, <2>3 DEF Typed, PtyTyped
<1>2. CASE ReadChunk
  <2>1. pty' = <<>> /\ UNCHANGED <<session, client, made, reader>>
    BY <1>2 DEF ReadChunk
  <2>2. <<>> \in Seq(Chunk) /\ Len(<<>>) <= 1
    OBVIOUS
  <2> QED BY <2>1, <2>2 DEF Typed, PtyTyped
<1>3. CASE KillSession \/ DetachOutside \/ ClientExit \/ ReadEof \/ MainClose
  <2>1. /\ UNCHANGED <<made, pty>>
        /\ session' \in {session, "gone"} /\ reader' \in {reader, "done"}
        /\ client' \in {client, "leaving", "exited"}
    <3>1. CASE KillSession \/ DetachOutside \/ ClientExit
      BY <3>1 DEF KillSession, DetachOutside, ClientExit
    <3>2. CASE ReadEof \/ MainClose
      BY <3>2 DEF ReadEof, MainClose
    <3> QED BY <1>3, <3>1, <3>2
  <2> QED BY <2>1 DEF Typed, PtyTyped
<1>4. CASE UNCHANGED ptyVars
  BY <1>4 DEF ptyVars, Typed, PtyTyped
<1> QED BY <1>1, <1>2, <1>3, <1>4, <1>5, PtySteps

\* The rows of a poll.
LEMMA PollType ==
  ASSUME polled \in 0..MaxRows, NEW k \in 1..MaxRows, polled + k <= MaxRows
  PROVE  /\ [i \in 1..k |-> F("row", polled + i)] \in Seq(RowFrame)
         /\ polled + k \in 0..MaxRows
<1>1. \A i \in 1..k : F("row", polled + i) \in RowFrame
  BY FrameTypes, Bounds
<1>2. [i \in 1..k |-> F("row", polled + i)] \in [1..k -> RowFrame]
  BY <1>1
<1>3. k \in Nat
  BY Bounds
<1>4. [i \in 1..k |-> F("row", polled + i)] \in Seq(RowFrame)
  BY <1>2, <1>3, SeqDef
<1> QED BY <1>4, Bounds

\* The watcher's side.
LEMMA StepRows == Typed /\ Next => RowsTyped'
<1> SUFFICES ASSUME Typed, Next PROVE RowsTyped'
  OBVIOUS
<1>1. CASE WatchPoll
  <2>1. PICK k \in 1..MaxRows :
          /\ polled + k <= MaxRows /\ polled' = polled + k
          /\ batch' = [i \in 1..k |-> F("row", polled + i)]
    BY <1>1 DEF WatchPoll
  <2>2. watcher' = watcher
    BY <1>1 DEF WatchPoll
  <2> QED BY <2>1, <2>2, PollType DEF Typed, RowsTyped
<1>2. CASE WatchSend \/ WatchSendFails \/ WatchStop
  <2>1. polled' = polled /\ watcher' \in {watcher, "done"}
    BY <1>2 DEF WatchSend, WatchSendFails, WatchStop
  <2>2. batch # <<>> => Tail(batch) \in Seq(RowFrame)
    BY TailElements DEF Typed, RowsTyped
  <2>3. batch' \in Seq(RowFrame)
    <3>1. CASE WatchSend
      BY <2>2, <3>1 DEF WatchSend
    <3>2. CASE WatchSendFails
      BY <3>2 DEF WatchSendFails
    <3>3. CASE WatchStop
      BY <3>3 DEF WatchStop, Typed, RowsTyped
    <3> QED BY <1>2, <3>1, <3>2, <3>3
  <2> QED BY <2>1, <2>3 DEF Typed, RowsTyped
<1>3. CASE UNCHANGED rowVars
  BY <1>3 DEF rowVars, Typed, RowsTyped
<1> QED BY <1>1, <1>2, <1>3, RowSteps

\* The channel of what must not be dropped.
LEMMA StepHi == Typed /\ Next => HiTyped'
<1> SUFFICES ASSUME Typed, Next PROVE HiTyped'
  OBVIOUS
<1>0. hi \in Seq(HiFrame) /\ Len(hi) <= HiCap /\ HiCap \in Nat
  BY Bounds DEF Typed, HiTyped
<1>1. CASE ReadChunk
  <2>1. F("event", pty[1].n) \in HiFrame
    BY <1>1, ChunkType, FrameTypes DEF ReadChunk, Typed
  <2>2. hi' \in {hi, TryAdd(hi, HiCap, F("event", pty[1].n))}
    BY <1>1 DEF ReadChunk
  <2> QED BY <1>0, <2>1, <2>2, TryAddType DEF HiTyped
<1>2. CASE WatchSend
  <2>1. batch \in Seq(RowFrame) /\ batch # <<>> /\ hi' = Append(hi, Head(batch)) /\ Len(hi) < HiCap
    BY <1>2 DEF WatchSend, Typed, RowsTyped
  <2>2. Head(batch) \in RowFrame
    BY <2>1, TailElements
  <2>3. Head(batch) \in HiFrame
    BY <2>2, FrameTypes
  <2> QED BY <1>0, <2>1, <2>3, AddType DEF HiTyped
<1>3. CASE WsRefuses \/ WsCancelled
  <2>1. hi' = <<>> /\ <<>> \in Seq(HiFrame) /\ Len(<<>>) = 0
    BY <1>3 DEF WsRefuses, WsCancelled
  <2> QED BY <1>0, <2>1 DEF HiTyped
<1>4. CASE SelectHi
  <2>1. hi # <<>> /\ hi' = Tail(hi)
    BY <1>4 DEF SelectHi
  <2> QED BY <1>0, <2>1, TailType DEF HiTyped
<1>5. CASE UNCHANGED hi
  BY <1>0, <1>5 DEF HiTyped
<1> QED BY <1>1, <1>2, <1>3, <1>4, <1>5, ChanSteps

\* The channel of output.
LEMMA StepLo == Typed /\ Next => LoTyped'
<1> SUFFICES ASSUME Typed, Next PROVE LoTyped'
  OBVIOUS
<1>0. lo \in Seq(LoFrame) /\ Len(lo) <= LoCap /\ LoCap \in Nat
  BY Bounds DEF Typed, LoTyped
<1>1. CASE ReadChunk
  <2>1. OutFrame(pty[1]) \in LoFrame
    BY <1>1, ChunkType DEF ReadChunk, Typed
  <2>2. lo' = TryAdd(lo, LoCap, OutFrame(pty[1]))
    BY <1>1 DEF ReadChunk
  <2> QED BY <1>0, <2>1, <2>2, TryAddType DEF LoTyped
<1>2. CASE WsRefuses \/ WsCancelled
  <2>1. lo' = <<>> /\ <<>> \in Seq(LoFrame) /\ Len(<<>>) = 0
    BY <1>2 DEF WsRefuses, WsCancelled
  <2> QED BY <1>0, <2>1 DEF LoTyped
<1>3. CASE SelectLo
  <2>1. lo # <<>> /\ lo' = Tail(lo)
    BY <1>3 DEF SelectLo
  <2> QED BY <1>0, <2>1, TailType DEF LoTyped
<1>4. CASE UNCHANGED lo
  BY <1>0, <1>4 DEF LoTyped
<1> QED BY <1>1, <1>2, <1>3, <1>4, ChanSteps

\* The channel of input.
LEMMA StepIn == Typed /\ Next => InTyped'
<1> SUFFICES ASSUME Typed, Next PROVE InTyped'
  OBVIOUS
<1>0. inq \in Seq(1..MaxInputs) /\ Len(inq) <= InCap /\ InCap \in Nat
  BY Bounds DEF Typed, InTyped
<1>1. CASE WsHandOn
  <2>1. taken \in 1..MaxInputs
    BY <1>1, Bounds DEF WsHandOn, Typed, WsTyped
  <2>2. Len(inq) < InCap /\ inq' = Append(inq, taken)
    BY <1>1 DEF WsHandOn
  <2> QED BY <1>0, <2>1, <2>2, AddType DEF InTyped
<1>2. CASE MainInput
  <2>1. inq # <<>> /\ inq' = Tail(inq)
    BY <1>2 DEF MainInput
  <2> QED BY <1>0, <2>1, TailType DEF InTyped
<1>3. CASE UNCHANGED inq
  BY <1>0, <1>3 DEF InTyped
<1> QED BY <1>1, <1>2, <1>3, ChanSteps

\* The transport's own state.
LEMMA StepWs == Typed /\ Next => WsTyped'
<1> SUFFICES ASSUME Typed, Next PROVE WsTyped'
  OBVIOUS
<1>1. CASE WsStart \/ WsRefuses \/ WsCancelled \/ WsConnectFails \/ SelectClosed
  <2>1. /\ ws \notin {"sending", "taking"} /\ ws' \in {"down", "connecting", "done"}
        /\ UNCHANGED <<frame, taken, setup>>
    BY <1>1 DEF WsStart, WsRefuses, WsCancelled, WsConnectFails, SelectClosed, Selecting
  <2> QED BY <2>1 DEF Typed, WsTyped
<1>2. CASE WsConnect
  BY <1>2, FrameTypes DEF WsConnect, Typed, WsTyped
<1>3. CASE SelectHi
  <2>1. hi \in Seq(HiFrame) /\ hi # <<>> /\ frame' = Head(hi) /\ ws' = "sending" /\ UNCHANGED <<taken, setup>>
        /\ ws = "up"
    BY <1>3 DEF SelectHi, Selecting, Typed, HiTyped
  <2>2. Head(hi) \in HiFrame
    BY <2>1, TailElements
  <2>3. Head(hi) \in Frame /\ Head(hi) # NoFrame /\ Head(hi).kind # "auth"
    BY <2>2, FrameTypes DEF HiFrame
  <2> QED BY <2>1, <2>3 DEF Typed, WsTyped
<1>4. CASE SelectLo
  <2>1. lo \in Seq(LoFrame) /\ lo # <<>> /\ frame' = Head(lo) /\ ws' = "sending" /\ UNCHANGED <<taken, setup>>
        /\ ws = "up"
    BY <1>4 DEF SelectLo, Selecting, Typed, LoTyped
  <2>2. Head(lo) \in LoFrame
    BY <2>1, TailElements
  <2>3. Head(lo) \in Frame /\ Head(lo) # NoFrame /\ Head(lo).kind # "auth"
    BY <2>2, FrameTypes DEF LoFrame
  <2> QED BY <2>1, <2>3 DEF Typed, WsTyped
<1>5. CASE SelectInbound
  <2>1. down \in Seq(1..MaxInputs) /\ down # <<>> /\ taken' = Head(down) /\ ws' = "taking"
        /\ UNCHANGED <<frame, setup>> /\ ws = "up"
    BY <1>5 DEF SelectInbound, Selecting, Typed, LinkTyped
  <2>2. Head(down) \in 1..MaxInputs
    BY <2>1, TailElements
  <2> QED BY <2>1, <2>2, Bounds DEF Typed, WsTyped
<1>6. CASE WsSent \/ WsSentInVain \/ WsSendFails
  BY <1>6, FrameTypes DEF WsSent, WsSentInVain, WsSendFails, Typed, WsTyped
<1>7. CASE WsHandOn
  BY <1>7, Bounds DEF WsHandOn, Typed, WsTyped
<1>8. CASE UNCHANGED wsVars
  BY <1>8 DEF wsVars, Typed, WsTyped
<1> QED BY <1>1, <1>2, <1>3, <1>4, <1>5, <1>6, <1>7, <1>8, WsSteps DEF WsStep

\* The connection and what it has carried.
LEMMA StepLink == Typed /\ Next => LinkTyped'
<1> SUFFICES ASSUME Typed, Next PROVE LinkTyped'
  OBVIOUS
<1>0. /\ net \in Seq(Frame) /\ Len(net) <= NetCap /\ NetCap \in Nat
      /\ down \in Seq(1..MaxInputs) /\ Len(down) <= NetCap
      /\ recv \in Seq(Frame) /\ Len(recv) \in Nat
  BY Bounds, LenProperties DEF Typed, LinkTyped
<1>1. CASE WsCancelled \/ SelectClosed \/ WsSendFails \/ MainClose
  <2>1. Unlink
    BY <1>1 DEF WsCancelled, SelectClosed, WsSendFails, MainClose
  <2>2. /\ link' = "none" /\ net' = <<>> /\ down' = <<>> /\ Len(<<>>) = 0
        /\ <<>> \in Seq(Frame) /\ <<>> \in Seq(1..MaxInputs)
        /\ UNCHANGED <<breaks, recv, mark, sentIn>>
    BY <2>1 DEF Unlink
  <2> QED BY <1>0, <2>2 DEF Typed, LinkTyped
<1>2. CASE WsConnect
  BY <1>0, <1>2 DEF WsConnect, Typed, LinkTyped
<1>3. CASE SelectInbound
  <2>1. down # <<>> /\ down' = Tail(down) /\ UNCHANGED <<link, net, breaks, recv, mark, sentIn>>
    BY <1>3 DEF SelectInbound
  <2>2. down' \in Seq(1..MaxInputs) /\ Len(down') <= NetCap
    BY <1>0, <2>1, TailType
  <2> QED BY <2>1, <2>2 DEF Typed, LinkTyped
<1>4. CASE WsSent
  <2>1. Len(net) < NetCap /\ net' = Append(net, frame) /\ UNCHANGED <<link, down, breaks, recv, mark, sentIn>>
    BY <1>4 DEF WsSent
  <2>2. net' \in Seq(Frame) /\ Len(net') <= NetCap
    BY <1>0, <2>1, AddType DEF Typed, WsTyped
  <2> QED BY <2>1, <2>2 DEF Typed, LinkTyped
<1>5. CASE RemoteRecv
  <2>1. net # <<>> /\ recv' \in {recv, Append(recv, Head(net))} /\ net' = Tail(net)
        /\ UNCHANGED <<link, down, breaks, mark, sentIn>>
    BY <1>5 DEF RemoteRecv
  <2>2. Head(net) \in Frame /\ net' \in Seq(Frame) /\ Len(net') <= NetCap
    BY <1>0, <2>1, TailType
  <2>3. recv' \in Seq(Frame) /\ Len(recv') \in {Len(recv), Len(recv) + 1}
    <3>1. Append(recv, Head(net)) \in Seq(Frame) /\ Len(Append(recv, Head(net))) = Len(recv) + 1
      BY <1>0, <2>2, AppendElements
    <3> QED BY <1>0, <2>1, <3>1
  <2> QED BY <1>0, <2>1, <2>2, <2>3 DEF Typed, LinkTyped
<1>6. CASE RemoteSend
  <2>1. Len(down) < NetCap /\ down' = Append(down, sentIn + 1) /\ sentIn' = sentIn + 1
        /\ UNCHANGED <<link, net, breaks, recv, mark>>
    BY <1>6 DEF RemoteSend
  <2>2. sentIn + 1 \in 1..MaxInputs /\ sentIn' \in 0..MaxInputs
    BY <1>6, Bounds DEF RemoteSend, Typed, LinkTyped
  <2>3. down' \in Seq(1..MaxInputs) /\ Len(down') <= NetCap
    BY <1>0, <2>1, <2>2, AddType
  <2> QED BY <2>1, <2>2, <2>3 DEF Typed, LinkTyped
<1>7. CASE Break
  <2>1. /\ net' = <<>> /\ down' \in {down, <<>>} /\ Len(<<>>) = 0 /\ link' = "broken"
        /\ <<>> \in Seq(Frame) /\ <<>> \in Seq(1..MaxInputs)
        /\ UNCHANGED <<recv, mark, sentIn>>
    BY <1>7 DEF Break
  <2>2. breaks' \in 0..MaxBreaks
    BY <1>7, Bounds DEF Break, Typed, LinkTyped
  <2>3. down' \in Seq(1..MaxInputs) /\ Len(down') <= NetCap
    <3>1. CASE down' = down
      BY <1>0, <3>1
    <3>2. CASE down' = <<>>
      BY <1>0, <2>1, <3>2
    <3> QED BY <2>1, <3>1, <3>2
  <2>4. net' \in Seq(Frame) /\ Len(net') <= NetCap
    BY <1>0, <2>1
  <2> QED BY <2>1, <2>2, <2>3, <2>4 DEF Typed, LinkTyped
<1>8. CASE UNCHANGED linkVars
  BY <1>8 DEF linkVars, Typed, LinkTyped
<1> QED BY <1>1, <1>2, <1>3, <1>4, <1>5, <1>6, <1>7, <1>8, LinkSteps

\* Main and the token.
LEMMA StepMain == Typed /\ Next => MainTyped'
<1> SUFFICES ASSUME Typed, Next PROVE MainTyped'
  OBVIOUS
<1>1. CASE MainInput
  <2>1. inq \in Seq(1..MaxInputs) /\ inq # <<>> /\ typed \in Seq(1..MaxInputs)
    BY <1>1 DEF MainInput, Typed, InTyped, MainTyped
  <2>2. Head(inq) \in 1..MaxInputs
    BY <2>1, TailElements
  <2>3. Append(typed, Head(inq)) \in Seq(1..MaxInputs)
    BY <2>1, <2>2, AppendElements
  <2> QED BY <1>1, <2>3 DEF MainInput, Typed, MainTyped
<1>2. CASE ReadEof \/ MainStop \/ MainClose \/ ProcessExit \/ Signal
  BY <1>2 DEF ReadEof, MainStop, MainClose, ProcessExit, Signal, Typed, MainTyped
<1>3. CASE UNCHANGED mainVars
  BY <1>3 DEF mainVars, Typed, MainTyped
<1> QED BY <1>1, <1>2, <1>3, MainSteps

\* The bridge starts well typed.
LEMMA InitTyped == Init => Typed
<1> SUFFICES ASSUME Init PROVE Typed
  OBVIOUS
<1>1. <<Hello>> \in Seq(HiFrame) /\ Len(<<Hello>>) = 1
  BY FrameTypes
<1>2. Len(<<>>) = 0
  OBVIOUS
<1>3. HiTyped
  BY <1>1, Bounds DEF Init, HiTyped
<1>4. PtyTyped /\ RowsTyped /\ LoTyped /\ InTyped /\ MainTyped
  <2>1. PtyTyped /\ RowsTyped
    BY <1>2, Bounds DEF Init, PtyTyped, RowsTyped
  <2>2. LoTyped /\ InTyped
    BY <1>2, Bounds DEF Init, LoTyped, InTyped
  <2>3. MainTyped
    <3>1. cancel = FALSE
      BY DEF Init
    <3>2. cancel \in BOOLEAN
      BY <3>1
    <3>3. typed \in Seq(1..MaxInputs) /\ main = "run"
      BY DEF Init
    <3> QED BY <3>2, <3>3 DEF MainTyped
  <2> QED BY <2>1, <2>2, <2>3
<1>5. WsTyped
  BY FrameTypes, Bounds DEF Init, WsTyped
<1>6. LinkTyped
  BY <1>2, Bounds DEF Init, LinkTyped
<1> QED BY <1>3, <1>4, <1>5, <1>6 DEF Typed

\* All the parts together are inductive.
LEMMA StepTyped == Typed /\ [Next]_vars => Typed'
<1> SUFFICES ASSUME Typed, [Next]_vars PROVE Typed'
  OBVIOUS
<1>1. CASE Next
  BY <1>1, StepPty, StepRows, StepHi, StepLo, StepIn, StepWs, StepLink, StepMain DEF Typed
<1>2. CASE UNCHANGED vars
  BY <1>2 DEF vars, ptyVars, rowVars, wsVars, linkVars, mainVars, chans,
         Typed, PtyTyped, RowsTyped, HiTyped, LoTyped, InTyped, WsTyped, LinkTyped, MainTyped
<1> QED BY <1>1, <1>2

\* The state is well typed, no channel exceeds its capacity, and a frame is held
\* exactly while it is being sent.
THEOREM TypeCorrect == Spec => []TypeOK
BY InitTyped, StepTyped, TypedOK, PTL DEF Spec

-----------------------------------------------------------------------------
(* Order.                                                                  *)

\* The number of the next chunk to be read.
Fresh == IF pty # <<>> /\ pty[1] # More THEN made ELSE made + 1

\* The frames that come next: they are numbered after all there have been.
Coming == << F("row", polled + 1), F("event", Fresh), F("out", Fresh) >>

\* The way of a frame, from the remote back to those to come.
Way == << recv, net, InFrame, hi, lo, batch, Coming >>

Place == 1..7

\* The frames in each place are in order, and so are those in different places.
InLine(P) ==
  /\ \A p \in Place : Rising(P[p])
  /\ \A p, q \in Place : p < q => Before(P[p], P[q])

\* The places of the way.
LEMMA WayPlaces ==
  /\ Way[1] = recv /\ Way[2] = net /\ Way[3] = InFrame /\ Way[4] = hi /\ Way[5] = lo
  /\ Way[6] = batch /\ Way[7] = Coming
BY DEF Way

\* Other frames in one place.
LEMMA Placed ==
  ASSUME NEW P, NEW Q, InLine(P), NEW i \in Place,
         \A k \in Place : k # i => Q[k] = P[k],
         Rising(Q[i]),
         \A k \in Place : k < i => Before(P[k], Q[i]),
         \A k \in Place : i < k => Before(Q[i], P[k])
  PROVE  InLine(Q)
<1>1. \A p \in Place : Rising(Q[p])
  BY DEF InLine
<1>2. ASSUME NEW p \in Place, NEW q \in Place, p < q PROVE Before(Q[p], Q[q])
  <2>1. CASE p = i
    <3>1. q # i
      BY <1>2, <2>1 DEF Place
    <3> QED BY <1>2, <2>1, <3>1
  <2>2. CASE q = i
    <3>1. p # i
      BY <1>2, <2>2 DEF Place
    <3> QED BY <1>2, <2>2, <3>1
  <2>3. CASE p # i /\ q # i
    BY <1>2, <2>3 DEF InLine
  <2> QED BY <2>1, <2>2, <2>3
<1> QED BY <1>1, <1>2 DEF InLine

\* The order of the places.
LEMMA PlaceOrder ==
  ASSUME NEW i \in Place, NEW j \in Place, i < j, NEW p \in Place
  PROVE  p < i => p < j
BY DEF Place

\* Frames that are lost leave the others in line.
LEMMA Lost ==
  ASSUME NEW P, NEW Q, InLine(P), \A k \in Place : Q[k] = P[k] \/ Q[k] = <<>>
  PROVE  InLine(Q)
<1>1. \A p \in Place : Rising(Q[p])
  BY EmptyBefore DEF InLine
<1>2. ASSUME NEW p \in Place, NEW q \in Place, p < q PROVE Before(Q[p], Q[q])
  <2>1. CASE Q[p] = <<>> \/ Q[q] = <<>>
    BY <2>1, EmptyBefore
  <2>2. CASE Q[p] = P[p] /\ Q[q] = P[q]
    BY <1>2, <2>2 DEF InLine
  <2> QED BY <2>1, <2>2
<1> QED BY <1>1, <1>2 DEF InLine

\* The first frame of one place goes to the end of an earlier one, past places
\* that hold nothing numbered with it.
LEMMA Moved ==
  ASSUME NEW P, NEW Q, InLine(P), \A k \in Place : P[k] \in Seq(Frame),
         NEW i \in Place, NEW j \in Place, i < j, P[j] # <<>>,
         Q[i] = Append(P[i], Head(P[j])), Q[j] = Tail(P[j]),
         \A k \in Place : k # i /\ k # j => Q[k] = P[k],
         \A k \in Place : i < k /\ k < j => Before(<<Head(P[j])>>, P[k])
  PROVE  InLine(Q)
<1> DEFINE x == Head(P[j])
           r == Tail(P[j])
<1>0. i # j
  BY DEF Place
<1>1. P[i] \in Seq(Frame) /\ P[j] \in Seq(Frame) /\ x \in Frame /\ r \in Seq(Frame)
  BY TailElements
<1>2. \A k \in Place : /\ Before(P[k], P[j]) <=> Before(P[k], r) /\ Before(P[k], <<x>>)
                       /\ Before(P[j], P[k]) <=> Before(r, P[k]) /\ Before(<<x>>, P[k])
  BY <1>1, TailBefore
<1>3. Rising(P[j]) <=> Rising(r) /\ Before(<<x>>, r)
  BY <1>1, TailBefore
<1> HIDE DEF x, r
<1>4. \A t \in Seq(Frame) : /\ Before(t, Append(P[i], x)) <=> Before(t, P[i]) /\ Before(t, <<x>>)
                            /\ Before(Append(P[i], x), t) <=> Before(P[i], t) /\ Before(<<x>>, t)
  BY <1>1, AppendBefore
<1>5. Rising(Append(P[i], x)) <=> Rising(P[i]) /\ Before(P[i], <<x>>)
  BY <1>1, AppendBefore
<1>6. Q[i] = Append(P[i], x) /\ Q[j] = r
  BY DEF x, r
<1>7. /\ \A p \in Place : Rising(P[p])
      /\ \A p, q \in Place : p < q => Before(P[p], P[q])
  BY DEF InLine
<1>8. Before(P[i], <<x>>) /\ Before(P[i], r) /\ Rising(r) /\ Before(<<x>>, r)
  BY <1>2, <1>3, <1>7
<1>9. \A p \in Place : Rising(Q[p])
  BY <1>5, <1>6, <1>7, <1>8
<1>10. ASSUME NEW p \in Place, NEW q \in Place, p < q PROVE Before(Q[p], Q[q])
  <2>1. CASE p = i /\ q = j
    BY <1>1, <1>4, <1>6, <1>8, <2>1
  <2>2. CASE p = i /\ q # j
    <3>0. q # i /\ i < q
      BY <1>10, <2>2 DEF Place
    <3>1. Q[q] = P[q] /\ P[q] \in Seq(Frame) /\ Before(P[i], P[q])
      BY <1>7, <2>2, <3>0
    <3>2. Before(<<x>>, P[q])
      <4>1. CASE q < j
        BY <3>0, <4>1 DEF x
      <4>2. CASE j < q
        BY <1>2, <1>7, <4>2
      <4> QED BY <2>2, <4>1, <4>2 DEF Place
    <3> QED BY <1>4, <1>6, <2>2, <3>1, <3>2
  <2>3. CASE p = j
    <3>0. q # i /\ q # j /\ j < q
      BY <1>10, <2>3 DEF Place
    <3>1. Q[q] = P[q] /\ Before(P[j], P[q])
      BY <1>7, <3>0
    <3> QED BY <1>2, <1>6, <2>3, <3>1
  <2>4. CASE p # i /\ p # j /\ q = i
    <3>9. p < i
      BY <1>10, <2>4
    <3>0. p < j
      BY <3>9, PlaceOrder
    <3>1. Q[p] = P[p] /\ P[p] \in Seq(Frame) /\ Before(P[p], P[i]) /\ Before(P[p], P[j])
      BY <1>7, <2>4, <3>0, <3>9
    <3> QED BY <1>2, <1>4, <1>6, <2>4, <3>1
  <2>5. CASE p # i /\ p # j /\ q = j
    <3>1. Q[p] = P[p] /\ Before(P[p], P[j])
      BY <1>7, <1>10, <2>5
    <3> QED BY <1>2, <1>6, <2>5, <3>1
  <2>6. CASE p # i /\ p # j /\ q # i /\ q # j
    BY <1>7, <1>10, <2>6
  <2> QED BY <2>1, <2>2, <2>3, <2>4, <2>5, <2>6
<1> QED BY <1>9, <1>10 DEF InLine

\* Everything in s is numbered before row a and before chunk b.
Earlier(s, a, b) ==
  \A i \in DOMAIN s : /\ s[i].kind = "row" => s[i].n < a
                      /\ s[i].kind \in {"event", "out"} => s[i].n < b

\* What it is to come before the next row and the next chunk.
LEMMA ComingBefore ==
  ASSUME NEW S, NEW s \in Seq(S), NEW a \in Nat, NEW b \in Nat
  PROVE  /\ Before(s, <<F("row", a), F("event", b), F("out", b)>>) <=> Earlier(s, a, b)
         /\ Rising(<<F("row", a), F("event", b), F("out", b)>>)
<1> DEFINE c == <<F("row", a), F("event", b), F("out", b)>>
<1>1. DOMAIN c = 1..3 /\ c[1] = F("row", a) /\ c[2] = F("event", b) /\ c[3] = F("out", b)
  OBVIOUS
<1>2. /\ c[1].kind = "row" /\ c[1].n = a /\ c[2].kind = "event" /\ c[2].n = b
      /\ c[3].kind = "out" /\ c[3].n = b
  BY <1>1 DEF F
<1>3. \A j \in DOMAIN c : j = 1 \/ j = 2 \/ j = 3
  BY <1>1
<1>4. 1 \in DOMAIN c /\ 2 \in DOMAIN c /\ 3 \in DOMAIN c
  BY <1>1
<1> HIDE DEF c
<1>5. Rising(c)
  BY <1>2, <1>3 DEF Rising
<1>6. Before(s, c) <=> Earlier(s, a, b)
  <2>1. ASSUME Before(s, c) PROVE Earlier(s, a, b)
    BY <1>2, <1>4, <2>1 DEF Before, Earlier
  <2>2. ASSUME Earlier(s, a, b) PROVE Before(s, c)
    BY <1>2, <1>3, <2>2 DEF Before, Earlier
  <2> QED BY <2>1, <2>2
<1> QED BY <1>5, <1>6 DEF c

\* What was earlier stays so as the numbers grow.
LEMMA EarlierGrows ==
  ASSUME NEW s \in Seq(Frame), NEW a \in Nat, NEW b \in Nat, NEW c \in Nat, NEW d \in Nat,
         Earlier(s, a, b), a <= c, b <= d
  PROVE  Earlier(s, c, d)
<1>1. \A i \in DOMAIN s : s[i] \in Frame
  BY LenProperties
<1>2. \A i \in DOMAIN s : s[i].n \in Nat
  BY <1>1 DEF Frame
<1>3. \A n \in Nat : (n < a => n < c) /\ (n < b => n < d)
  OBVIOUS
<1> QED BY <1>2, <1>3 DEF Earlier

\* Output is not numbered with anything in hi or in a poll.
LEMMA Apart ==
  /\ \A x \in HiFrame : \A s \in Seq(LoFrame) : Before(<<x>>, s)
  /\ \A x \in LoFrame : \A s \in Seq(HiFrame) : Before(<<x>>, s)
  /\ \A x \in HiFrame : \A s \in Seq(RowFrame) : x.kind = "event" => Before(<<x>>, s)
<1>1. ASSUME NEW x \in HiFrame, NEW s \in Seq(LoFrame) PROVE Before(<<x>>, s)
  <2>1. \A i \in DOMAIN s : s[i] \in LoFrame
    BY LenProperties
  <2>2. \A i \in DOMAIN s : s[i].kind # x.kind
    BY <2>1 DEF LoFrame, HiFrame
  <2> QED BY <2>2, SingleBefore
<1>2. ASSUME NEW x \in LoFrame, NEW s \in Seq(HiFrame) PROVE Before(<<x>>, s)
  <2>1. \A i \in DOMAIN s : s[i] \in HiFrame
    BY LenProperties
  <2>2. \A i \in DOMAIN s : s[i].kind # x.kind
    BY <2>1 DEF LoFrame, HiFrame
  <2> QED BY <2>2, SingleBefore
<1>3. ASSUME NEW x \in HiFrame, NEW s \in Seq(RowFrame), x.kind = "event" PROVE Before(<<x>>, s)
  <2>1. \A i \in DOMAIN s : s[i] \in RowFrame
    BY LenProperties
  <2>2. \A i \in DOMAIN s : s[i].kind # x.kind
    BY <1>3, <2>1 DEF RowFrame
  <2> QED BY <2>2, SingleBefore
<1> QED BY <1>1, <1>2, <1>3

\* Later frames to come, the rest as it was.
LEMMA ComingLater ==
  ASSUME NEW P, NEW M, InLine(P), \A k \in Place : P[k] \in Seq(Frame),
         NEW a \in Nat, NEW b \in Nat, NEW c \in Nat, NEW d \in Nat, a <= c, b <= d,
         P[7] = <<F("row", a), F("event", b), F("out", b)>>,
         M[7] = <<F("row", c), F("event", d), F("out", d)>>,
         \A k \in Place : k # 7 => M[k] = P[k]
  PROVE  InLine(M) /\ \A k \in Place : k # 7 => Earlier(M[k], a, b)
<1>1. 7 \in Place /\ \A k \in Place : ~(7 < k) /\ (k # 7 => k < 7)
  BY DEF Place
<1>2. \A k \in Place : k # 7 => Before(P[k], P[7])
  BY <1>1 DEF InLine
<1>3. ASSUME NEW k \in Place, k # 7 PROVE Earlier(P[k], a, b) /\ Before(P[k], M[7])
  <2>1. P[k] \in Seq(Frame) /\ Before(P[k], P[7])
    BY <1>2, <1>3
  <2>2. Earlier(P[k], a, b)
    BY <2>1, ComingBefore
  <2>3. Earlier(P[k], c, d)
    BY <2>1, <2>2, EarlierGrows
  <2> QED BY <2>1, <2>2, <2>3, ComingBefore
<1>4. Rising(M[7])
  BY ComingBefore, <1>1
<1>5. \A k \in Place : k < 7 => Before(P[k], M[7])
  BY <1>3
<1>6. \A k \in Place : 7 < k => Before(M[7], P[k])
  BY <1>1
<1>7. InLine(M)
  BY <1>1, <1>4, <1>5, <1>6, Placed
<1> QED BY <1>3, <1>7

\* The rows of a poll come after what was there, before what is to come.
LEMMA PollBefore ==
  ASSUME NEW a \in Nat, NEW m \in Nat, NEW b \in Nat, NEW q, q = [i \in 1..m |-> F("row", a + i)]
  PROVE  /\ Rising(q) /\ Earlier(q, a + m + 1, b)
         /\ \A s \in Seq(Frame) : Earlier(s, a + 1, b) => Before(s, q)
<1>1. DOMAIN q = 1..m /\ \A i \in 1..m : q[i].kind = "row" /\ q[i].n = a + i
  BY FrameTypes
<1>2. Rising(q)
  <2> SUFFICES ASSUME NEW i \in DOMAIN q, NEW j \in DOMAIN q, i < j PROVE q[i].n < q[j].n
    BY DEF Rising
  <2>1. i \in 1..m /\ j \in 1..m /\ q[i].n = a + i /\ q[j].n = a + j
    BY <1>1
  <2> QED BY <2>1
<1>3. Earlier(q, a + m + 1, b)
  <2>1. \A i \in 1..m : a + i < a + m + 1
    OBVIOUS
  <2> QED BY <1>1, <2>1 DEF Earlier
<1>4. ASSUME NEW s \in Seq(Frame), Earlier(s, a + 1, b) PROVE Before(s, q)
  <2>1. \A i \in DOMAIN s : s[i] \in Frame
    BY LenProperties
  <2>2. \A i \in DOMAIN s : s[i].n \in Nat
    BY <2>1 DEF Frame
  <2>3. \A n \in Nat, j \in 1..m : n < a + 1 => n < a + j
    OBVIOUS
  <2> SUFFICES ASSUME NEW i \in DOMAIN s, NEW j \in DOMAIN q, s[i].kind = q[j].kind
               PROVE  s[i].n < q[j].n
    BY DEF Before
  <2>4. j \in 1..m /\ q[j].n = a + j /\ s[i].kind = "row"
    BY <1>1
  <2>5. s[i].n < a + 1
    BY <1>4, <2>4 DEF Earlier
  <2> QED BY <2>2, <2>3, <2>4, <2>5
<1> QED BY <1>2, <1>3, <1>4

\* A frame more at the end of a place, or not.
LEMMA Extended ==
  ASSUME NEW P, NEW Q, InLine(P), \A k \in Place : P[k] \in Seq(Frame),
         NEW i \in Place, NEW x \in Frame,
         Q[i] = P[i] \/ Q[i] = Append(P[i], x),
         \A k \in Place : k # i => Q[k] = P[k],
         Before(P[i], <<x>>),
         \A k \in Place : k < i => Before(P[k], <<x>>),
         \A k \in Place : i < k => Before(<<x>>, P[k])
  PROVE  InLine(Q)
<1>1. /\ Rising(P[i])
      /\ \A k \in Place : (k < i => Before(P[k], P[i])) /\ (i < k => Before(P[i], P[k]))
  BY DEF InLine
<1>2. CASE Q[i] = P[i]
  BY <1>1, <1>2, Placed
<1>3. CASE Q[i] = Append(P[i], x)
  <2>1. Rising(Q[i])
    BY <1>1, <1>3, AppendBefore
  <2>2. \A k \in Place : k < i => Before(P[k], Q[i])
    BY <1>1, <1>3, AppendBefore
  <2>3. \A k \in Place : i < k => Before(Q[i], P[k])
    BY <1>1, <1>3, AppendBefore
  <2> QED BY <2>1, <2>2, <2>3, Placed
<1> QED BY <1>2, <1>3

\* The places hold frames.
LEMMA PlaceTypes ==
  ASSUME Typed
  PROVE  /\ recv \in Seq(Frame) /\ net \in Seq(Frame) /\ InFrame \in Seq(Frame)
         /\ hi \in Seq(Frame) /\ lo \in Seq(Frame) /\ batch \in Seq(Frame)
<1>1. hi \in Seq(Frame) /\ lo \in Seq(Frame) /\ batch \in Seq(Frame)
  BY FrameTypes, SeqMonotonic DEF Typed, HiTyped, LoTyped, RowsTyped
<1>2. <<frame>> \in Seq(Frame) /\ <<>> \in Seq(Frame)
  BY DEF Typed, WsTyped
<1> QED BY <1>1, <1>2 DEF InFrame, Typed, LinkTyped

\* Each step leaves the frames in line.
LEMMA StepLine ==
  ASSUME Typed, Typed', InLine(Way), Next
  PROVE  InLine(Way)'
<1>1. PICK P : P = Way
  OBVIOUS
<1>2. PICK Q : Q = Way'
  OBVIOUS
<1>3. /\ P[1] = recv /\ P[2] = net /\ P[3] = InFrame /\ P[4] = hi /\ P[5] = lo
      /\ P[6] = batch /\ P[7] = Coming
  BY <1>1, WayPlaces
<1>4. /\ Q[1] = recv' /\ Q[2] = net' /\ Q[3] = InFrame' /\ Q[4] = hi' /\ Q[5] = lo'
      /\ Q[6] = batch' /\ Q[7] = Coming'
  BY <1>2 DEF Way
<1>5. \A k \in Place : k = 1 \/ k = 2 \/ k = 3 \/ k = 4 \/ k = 5 \/ k = 6 \/ k = 7
  BY DEF Place
<1>6. /\ recv \in Seq(Frame) /\ net \in Seq(Frame) /\ InFrame \in Seq(Frame)
      /\ hi \in Seq(Frame) /\ lo \in Seq(Frame) /\ batch \in Seq(Frame)
  BY PlaceTypes
<1>7. polled \in Nat /\ Fresh \in Nat
  BY Bounds DEF Typed, RowsTyped, PtyTyped, Fresh
<1>8. Coming \in Seq(Frame)
  BY <1>7, FrameTypes DEF Coming, HiFrame, LoFrame, RowFrame, Frame, F, Kind
<1>9. \A k \in Place : P[k] \in Seq(Frame)
  BY <1>3, <1>5, <1>6, <1>8
<1>10. InLine(P)
  BY <1>1
<1> SUFFICES InLine(Q)
  BY <1>2 DEF InLine
<1>11. CASE WatchSend
  <2>1. /\ batch # <<>> /\ hi' = Append(hi, Head(batch)) /\ batch' = Tail(batch)
        /\ UNCHANGED <<recv, net, ws, frame, lo, polled, made, pty>>
    BY <1>11 DEF WatchSend, ptyVars, wsVars, linkVars
  <2>2. InFrame' = InFrame /\ Coming' = Coming
    BY <2>1 DEF InFrame, Coming, Fresh
  <2>3. Before(<<Head(batch)>>, lo)
    <3>1. batch \in Seq(RowFrame) /\ lo \in Seq(LoFrame)
      BY DEF Typed, RowsTyped, LoTyped
    <3>2. Head(batch) \in HiFrame
      BY <2>1, <3>1, TailElements, FrameTypes
    <3> QED BY <3>1, <3>2, Apart
  <2>4. /\ P[6] # <<>> /\ Q[4] = Append(P[4], Head(P[6])) /\ Q[6] = Tail(P[6])
        /\ Q[1] = P[1] /\ Q[2] = P[2] /\ Q[3] = P[3] /\ Q[5] = P[5] /\ Q[7] = P[7]
    BY <1>3, <1>4, <2>1, <2>2
  <2>5. \A k \in Place : k # 4 /\ k # 6 => Q[k] = P[k]
    BY <2>4 DEF Place
  <2>6. \A k \in Place : 4 < k /\ k < 6 => k = 5
    BY DEF Place
  <2>7. \A k \in Place : 4 < k /\ k < 6 => Before(<<Head(P[6])>>, P[k])
    BY <1>3, <2>3, <2>6
  <2>8. 4 \in Place /\ 6 \in Place /\ 4 < 6
    BY DEF Place
  <2> QED BY <1>9, <1>10, <2>4, <2>5, <2>7, <2>8, Moved
<1>12. CASE ReadChunk /\ pty[1] # More
  <2>1. /\ pty # <<>> /\ pty' = <<>> /\ lo' = TryAdd(lo, LoCap, OutFrame(pty[1]))
        /\ hi' = IF pty[1].event THEN TryAdd(hi, HiCap, F("event", pty[1].n)) ELSE hi
        /\ UNCHANGED <<recv, net, ws, frame, batch, polled, made>>
    BY <1>12 DEF ReadChunk, rowVars, wsVars, linkVars
  <2> DEFINE a == polled + 1
             y == F("out", made)
             z == F("event", made)
             M == [k \in Place |-> IF k = 7 THEN Coming' ELSE P[k]]
             N == [k \in Place |-> IF k = 5 THEN lo' ELSE M[k]]
  <2>2. pty[1].n = made /\ made \in Nat \ {0} /\ OutFrame(pty[1]) = y
    BY <1>12, <2>1, ChunkType DEF Typed
  <2>3. a \in Nat /\ made + 1 \in Nat /\ a <= a /\ made <= made + 1
    BY <1>7, <2>2
  <2>4. P[7] = <<F("row", a), F("event", made), F("out", made)>>
    <3>1. Fresh = made
      BY <1>12, <2>1 DEF Fresh
    <3> QED BY <1>3, <3>1 DEF Coming
  <2>5. Coming' = <<F("row", a), F("event", made + 1), F("out", made + 1)>>
    <3>1. polled' = polled /\ Fresh' = made + 1
      BY <2>1 DEF Fresh
    <3> QED BY <3>1 DEF Coming
  <2>6. M[7] = Coming' /\ \A k \in Place : k # 7 => M[k] = P[k]
    BY DEF Place
  <2>7. N[5] = lo' /\ \A k \in Place : k # 5 => N[k] = M[k]
    BY DEF Place
  <2>8. /\ lo' \in {lo, Append(lo, y)} /\ hi' \in {hi, Append(hi, z)}
        /\ lo' \in Seq(LoFrame)
    BY <2>1, <2>2 DEF TryAdd, Typed, LoTyped
  <2>9. /\ y \in LoFrame /\ z \in HiFrame /\ y \in Frame /\ z \in Frame
        /\ y.kind = "out" /\ y.n = made /\ z.kind = "event" /\ z.n = made
    BY <2>2, FrameTypes
  <2> HIDE DEF a, y, z, M, N
  <2>10. InLine(M) /\ \A k \in Place : k # 7 => Earlier(M[k], a, made)
    BY <1>9, <1>10, <2>2, <2>3, <2>4, <2>5, <2>6, ComingLater
  <2>11. ASSUME NEW k \in Place, k # 7 PROVE Before(M[k], <<y>>) /\ Before(M[k], <<z>>)
    <3>1. M[k] \in Seq(Frame) /\ Earlier(M[k], a, made)
      BY <1>9, <2>6, <2>10, <2>11
    <3> QED BY <2>9, <3>1, SingleBefore DEF Earlier
  <2>12. Before(<<y>>, Coming') /\ Before(<<z>>, Coming')
    <3>1. <<y>> \in Seq(Frame) /\ <<z>> \in Seq(Frame)
      BY <2>9
    <3>2. made < made + 1 /\ DOMAIN <<y>> = {1} /\ DOMAIN <<z>> = {1} /\ <<y>>[1] = y /\ <<z>>[1] = z
      BY <2>2
    <3>3. Earlier(<<y>>, a, made + 1) /\ Earlier(<<z>>, a, made + 1)
      BY <2>9, <3>2 DEF Earlier
    <3> QED BY <2>3, <2>5, <3>1, <3>3, ComingBefore
  <2>13. Before(<<y>>, batch) /\ Before(<<z>>, batch) /\ Before(<<z>>, lo')
    <3>1. batch \in Seq(RowFrame) /\ batch \in Seq(HiFrame)
      BY FrameTypes, SeqMonotonic DEF Typed, RowsTyped
    <3> QED BY <2>8, <2>9, <3>1, Apart
  <2>14. /\ M[1] = recv /\ M[2] = net /\ M[3] = InFrame /\ M[4] = hi /\ M[5] = lo /\ M[6] = batch
         /\ N[1] = recv /\ N[2] = net /\ N[3] = InFrame /\ N[4] = hi /\ N[5] = lo' /\ N[6] = batch
         /\ N[7] = Coming'
    BY <1>3, <2>6, <2>7 DEF Place
  <2>15. /\ 5 \in Place /\ \A k \in Place : (5 < k => k = 6 \/ k = 7) /\ (k < 5 => k # 7)
         /\ 4 \in Place /\ \A k \in Place : (4 < k => k = 5 \/ k = 6 \/ k = 7) /\ (k < 4 => k # 7 /\ k # 5)
         /\ 5 # 7 /\ 4 # 7
    BY DEF Place
  <2>16. Coming' \in Seq(Frame) /\ lo' \in Seq(Frame)
    <3>1. F("row", a) \in Frame /\ F("event", made + 1) \in Frame /\ F("out", made + 1) \in Frame
      BY <2>3, FrameTypes
    <3>2. lo' \in Seq(Frame)
      BY <2>8, FrameTypes, SeqMonotonic
    <3> QED BY <2>5, <3>1, <3>2
  <2>17. InLine(N)
    <3>1. \A k \in Place : M[k] \in Seq(Frame)
      BY <1>9, <2>6, <2>16
    <3>2. N[5] = M[5] \/ N[5] = Append(M[5], y)
      BY <2>8, <2>14
    <3>3. \A k \in Place : k < 5 => Before(M[k], <<y>>)
      BY <2>11, <2>15
    <3>4. \A k \in Place : 5 < k => Before(<<y>>, M[k])
      BY <2>6, <2>12, <2>13, <2>14, <2>15
    <3>5. Before(M[5], <<y>>)
      BY <2>11, <2>15
    <3> QED BY <2>7, <2>9, <2>10, <2>15, <3>1, <3>2, <3>3, <3>4, <3>5, Extended
  <2>18. InLine(Q)
    <3>1. \A k \in Place : N[k] \in Seq(Frame)
      BY <1>9, <2>6, <2>7, <2>16
    <3>2. Q[4] = N[4] \/ Q[4] = Append(N[4], z)
      BY <1>4, <2>8, <2>14
    <3>3. \A k \in Place : k < 4 => Before(N[k], <<z>>)
      BY <2>7, <2>11, <2>15
    <3>4. \A k \in Place : 4 < k => Before(<<z>>, N[k])
      BY <2>12, <2>13, <2>14, <2>15
    <3>5. Before(N[4], <<z>>)
      BY <2>11, <2>14, <2>15
    <3>6. InFrame' = InFrame
      BY <2>1 DEF InFrame
    <3>7. /\ Q[1] = N[1] /\ Q[2] = N[2] /\ Q[3] = N[3] /\ Q[5] = N[5] /\ Q[6] = N[6] /\ Q[7] = N[7]
      BY <1>4, <2>1, <2>14, <3>6
    <3>8. \A k \in Place : k # 4 => Q[k] = N[k]
      BY <3>7 DEF Place
    <3> QED BY <2>9, <2>15, <2>17, <3>1, <3>2, <3>3, <3>4, <3>5, <3>8, Extended
  <2> QED BY <2>18
<1>22. CASE ReadChunk /\ pty[1] = More
  <2> DEFINE y == F("more", 0)
  <2>1. /\ pty # <<>> /\ pty' = <<>> /\ OutFrame(pty[1]) = y /\ pty[1].event = FALSE
        /\ UNCHANGED <<recv, net, ws, frame, batch, polled, made>>
    BY <1>22, ChunkType DEF ReadChunk, rowVars, wsVars, linkVars, Typed
  <2>2. hi' = hi /\ lo' \in {lo, Append(lo, y)}
    BY <1>22, <2>1 DEF ReadChunk, TryAdd
  <2>3. InFrame' = InFrame /\ Coming' = Coming
    <3>1. Fresh' = Fresh
      BY <1>22, <2>1 DEF Fresh
    <3> QED BY <2>1, <3>1 DEF InFrame, Coming
  <2>4. y \in Frame /\ y.kind \notin {"row", "event", "out"}
    BY FrameTypes
  <2> HIDE DEF y
  <2>5. \A k \in Place : Before(P[k], <<y>>) /\ Before(<<y>>, P[k])
    BY <1>9, <2>4, SingleBefore
  <2>6. /\ Q[1] = P[1] /\ Q[2] = P[2] /\ Q[3] = P[3] /\ Q[4] = P[4] /\ Q[6] = P[6] /\ Q[7] = P[7]
        /\ Q[5] = P[5] \/ Q[5] = Append(P[5], y)
    BY <1>3, <1>4, <2>1, <2>2, <2>3
  <2>7. 5 \in Place /\ \A k \in Place : k # 5 => Q[k] = P[k]
    BY <2>6 DEF Place
  <2> QED BY <1>9, <1>10, <2>4, <2>5, <2>6, <2>7, Extended
<1>13. CASE WatchPoll
  <2>1. PICK m \in 1..MaxRows : /\ polled' = polled + m
                                /\ batch' = [i \in 1..m |-> F("row", polled + i)]
    BY <1>13 DEF WatchPoll
  <2>2. UNCHANGED <<recv, net, ws, frame, hi, lo, made, pty>>
    BY <1>13 DEF WatchPoll, ptyVars, wsVars, linkVars, chans
  <2> DEFINE b == Fresh
             M == [k \in Place |-> IF k = 7 THEN Coming' ELSE P[k]]
  <2>3. m \in Nat /\ b \in Nat /\ polled + 1 \in Nat /\ polled + m + 1 \in Nat
        /\ polled + 1 <= polled + m + 1 /\ b <= b
    BY <1>7, Bounds
  <2>4. P[7] = <<F("row", polled + 1), F("event", b), F("out", b)>>
    BY <1>3 DEF Coming
  <2>5. Coming' = <<F("row", polled + m + 1), F("event", b), F("out", b)>>
    BY <2>1, <2>2 DEF Coming, Fresh
  <2>6. M[7] = Coming' /\ \A k \in Place : k # 7 => M[k] = P[k]
    BY DEF Place
  <2> HIDE DEF M, b
  <2>7. InLine(M) /\ \A k \in Place : k # 7 => Earlier(M[k], polled + 1, b)
    BY <1>9, <1>10, <2>3, <2>4, <2>5, <2>6, ComingLater
  <2>8. /\ Rising(batch') /\ Earlier(batch', polled + m + 1, b)
        /\ \A s \in Seq(Frame) : Earlier(s, polled + 1, b) => Before(s, batch')
    BY <1>7, <2>1, <2>3, PollBefore
  <2>9. batch' \in Seq(RowFrame)
    BY DEF Typed, RowsTyped
  <2>10. Before(batch', Coming')
    BY <2>3, <2>5, <2>8, <2>9, ComingBefore
  <2>11. 6 \in Place /\ \A k \in Place : (6 < k => k = 7) /\ (k < 6 => k # 7)
    BY DEF Place
  <2>12. \A k \in Place : k < 6 => Before(M[k], batch')
    BY <1>9, <2>6, <2>7, <2>8, <2>11
  <2>13. \A k \in Place : 6 < k => Before(batch', M[k])
    BY <2>6, <2>10, <2>11
  <2>14. InFrame' = InFrame
    BY <2>2 DEF InFrame
  <2>15. /\ Q[1] = P[1] /\ Q[2] = P[2] /\ Q[3] = P[3] /\ Q[4] = P[4] /\ Q[5] = P[5]
         /\ Q[7] = M[7] /\ Q[6] = batch'
    BY <1>3, <1>4, <2>2, <2>6, <2>14
  <2>16. \A k \in Place : k # 6 => Q[k] = M[k]
    BY <2>6, <2>15 DEF Place
  <2> QED BY <2>7, <2>8, <2>11, <2>12, <2>13, <2>15, <2>16, Placed
<1>14. CASE SelectHi
  <2>1. /\ ws = "up" /\ ws' = "sending" /\ hi # <<>> /\ frame' = Head(hi) /\ hi' = Tail(hi)
        /\ UNCHANGED <<recv, net, lo, batch, polled, made, pty>>
    BY <1>14 DEF SelectHi, Selecting, ptyVars, rowVars, linkVars
  <2>2. InFrame = <<>> /\ InFrame' = Append(InFrame, Head(hi)) /\ Coming' = Coming
    BY <2>1 DEF InFrame, Coming, Fresh
  <2>3. /\ P[4] # <<>> /\ Q[3] = Append(P[3], Head(P[4])) /\ Q[4] = Tail(P[4])
        /\ Q[1] = P[1] /\ Q[2] = P[2] /\ Q[5] = P[5] /\ Q[6] = P[6] /\ Q[7] = P[7]
    BY <1>3, <1>4, <2>1, <2>2
  <2>4. \A k \in Place : k # 3 /\ k # 4 => Q[k] = P[k]
    BY <2>3 DEF Place
  <2>6. \A k \in Place : 3 < k /\ k < 4 => Before(<<Head(P[4])>>, P[k])
    BY DEF Place
  <2>7. 3 \in Place /\ 4 \in Place /\ 3 < 4
    BY DEF Place
  <2> QED BY <1>9, <1>10, <2>3, <2>4, <2>6, <2>7, Moved
<1>15. CASE SelectLo
  <2>1. /\ ws = "up" /\ ws' = "sending" /\ hi = <<>> /\ lo # <<>> /\ frame' = Head(lo) /\ lo' = Tail(lo)
        /\ UNCHANGED <<recv, net, hi, batch, polled, made, pty>>
    BY <1>15 DEF SelectLo, Selecting, ptyVars, rowVars, linkVars
  <2>2. InFrame = <<>> /\ InFrame' = Append(InFrame, Head(lo)) /\ Coming' = Coming
    BY <2>1 DEF InFrame, Coming, Fresh
  <2>3. Before(<<Head(lo)>>, hi)
    BY <2>1, EmptyBefore
  <2>4. /\ P[5] # <<>> /\ Q[3] = Append(P[3], Head(P[5])) /\ Q[5] = Tail(P[5])
        /\ Q[1] = P[1] /\ Q[2] = P[2] /\ Q[4] = P[4] /\ Q[6] = P[6] /\ Q[7] = P[7]
    BY <1>3, <1>4, <2>1, <2>2
  <2>5. \A k \in Place : k # 3 /\ k # 5 => Q[k] = P[k]
    BY <2>4 DEF Place
  <2>6. \A k \in Place : 3 < k /\ k < 5 => k = 4
    BY DEF Place
  <2>7. \A k \in Place : 3 < k /\ k < 5 => Before(<<Head(P[5])>>, P[k])
    BY <1>3, <2>3, <2>6
  <2>8. 3 \in Place /\ 5 \in Place /\ 3 < 5
    BY DEF Place
  <2> QED BY <1>9, <1>10, <2>4, <2>5, <2>7, <2>8, Moved
<1>16. CASE WsSent
  <2>1. /\ ws = "sending" /\ ws' = "up" /\ net' = Append(net, frame)
        /\ UNCHANGED <<recv, hi, lo, batch, polled, made, pty>>
    BY <1>16 DEF WsSent, ptyVars, rowVars, chans
  <2>2. InFrame = <<frame>> /\ InFrame' = <<>> /\ Coming' = Coming
    BY <2>1 DEF InFrame, Coming, Fresh
  <2>3. InFrame # <<>> /\ Head(InFrame) = frame /\ Tail(InFrame) = <<>>
    BY <2>2
  <2>4. /\ P[3] # <<>> /\ Q[2] = Append(P[2], Head(P[3])) /\ Q[3] = Tail(P[3])
        /\ Q[1] = P[1] /\ Q[4] = P[4] /\ Q[5] = P[5] /\ Q[6] = P[6] /\ Q[7] = P[7]
    BY <1>3, <1>4, <2>1, <2>2, <2>3
  <2>5. \A k \in Place : k # 2 /\ k # 3 => Q[k] = P[k]
    BY <2>4 DEF Place
  <2>7. \A k \in Place : 2 < k /\ k < 3 => Before(<<Head(P[3])>>, P[k])
    BY DEF Place
  <2>8. 2 \in Place /\ 3 \in Place /\ 2 < 3
    BY DEF Place
  <2> QED BY <1>9, <1>10, <2>4, <2>5, <2>7, <2>8, Moved
<1>23. CASE RemoteRecv /\ Head(net).kind = "more"
  <2>1. /\ net # <<>> /\ net' = Tail(net)
        /\ UNCHANGED <<recv, ws, frame, hi, lo, batch, polled, made, pty>>
    BY <1>23 DEF RemoteRecv, ptyVars, rowVars, wsVars, chans
  <2>2. InFrame' = InFrame /\ Coming' = Coming
    BY <2>1 DEF InFrame, Coming, Fresh
  <2>3. /\ Q[2] = Tail(P[2]) /\ P[2] # <<>>
        /\ Q[1] = P[1] /\ Q[3] = P[3] /\ Q[4] = P[4] /\ Q[5] = P[5] /\ Q[6] = P[6] /\ Q[7] = P[7]
    BY <1>3, <1>4, <2>1, <2>2
  <2>4. 2 \in Place /\ \A k \in Place : k # 2 => Q[k] = P[k]
    BY <2>3 DEF Place
  <2>5. /\ Rising(P[2]) /\ \A k \in Place : k < 2 => Before(P[k], P[2])
        /\ \A k \in Place : 2 < k => Before(P[2], P[k])
    BY <1>10, <2>4 DEF InLine
  <2>6. /\ Rising(Q[2]) /\ \A k \in Place : k < 2 => Before(P[k], Q[2])
        /\ \A k \in Place : 2 < k => Before(Q[2], P[k])
    <3>1. P[2] \in Seq(Frame) /\ \A k \in Place : P[k] \in Seq(Frame)
      BY <1>9, <2>4
    <3> DEFINE s == P[2]
    <3>2. s \in Seq(Frame) /\ s # <<>> /\ Q[2] = Tail(s)
      BY <2>3, <3>1
    <3>4. \A t \in Seq(Frame) : /\ Before(t, s) => Before(t, Tail(s))
                                /\ Before(s, t) => Before(Tail(s), t)
                                /\ Rising(s) => Rising(Tail(s))
      <4> HIDE DEF s
      <4> QED BY <3>2, TailBefore
    <3>3. /\ Rising(P[2]) => Rising(Q[2])
          /\ \A k \in Place : /\ Before(P[k], P[2]) => Before(P[k], Q[2])
                              /\ Before(P[2], P[k]) => Before(Q[2], P[k])
      BY <3>1, <3>2, <3>4
    <3> QED BY <2>5, <3>3
  <2> QED BY <1>10, <2>4, <2>6, Placed
<1>17. CASE RemoteRecv /\ Head(net).kind # "more"
  <2>1. /\ net # <<>> /\ recv' = Append(recv, Head(net)) /\ net' = Tail(net)
        /\ UNCHANGED <<ws, frame, hi, lo, batch, polled, made, pty>>
    BY <1>17 DEF RemoteRecv, ptyVars, rowVars, wsVars, chans
  <2>2. InFrame' = InFrame /\ Coming' = Coming
    BY <2>1 DEF InFrame, Coming, Fresh
  <2>3. /\ P[2] # <<>> /\ Q[1] = Append(P[1], Head(P[2])) /\ Q[2] = Tail(P[2])
        /\ Q[3] = P[3] /\ Q[4] = P[4] /\ Q[5] = P[5] /\ Q[6] = P[6] /\ Q[7] = P[7]
    BY <1>3, <1>4, <2>1, <2>2
  <2>4. \A k \in Place : k # 1 /\ k # 2 => Q[k] = P[k]
    BY <2>3 DEF Place
  <2>6. \A k \in Place : 1 < k /\ k < 2 => Before(<<Head(P[2])>>, P[k])
    BY DEF Place
  <2>7. 1 \in Place /\ 2 \in Place /\ 1 < 2
    BY DEF Place
  <2> QED BY <1>9, <1>10, <2>3, <2>4, <2>6, <2>7, Moved
<1>18. CASE WsConnect
  <2>1. /\ ws = "connecting" /\ (ws' # "sending" \/ frame' = Auth)
        /\ UNCHANGED <<recv, net, hi, lo, batch, polled, made, pty>>
    BY <1>18 DEF WsConnect, ptyVars, rowVars, chans
  <2>2. InFrame' = <<>> \/ InFrame' = <<Auth>>
    BY <2>1 DEF InFrame
  <2>3. Coming' = Coming
    BY <2>1 DEF Coming, Fresh
  <2>4. Auth.kind \notin {"row", "event", "out"}
    BY FrameTypes
  <2>5. \A s \in Seq(Frame) : Before(s, InFrame') /\ Before(InFrame', s)
    BY <2>2, <2>4, EmptyBefore, SingleBefore
  <2>6. Rising(InFrame')
    BY <2>2, EmptyBefore DEF Rising
  <2>8. Q[1] = P[1] /\ Q[2] = P[2] /\ Q[4] = P[4] /\ Q[5] = P[5] /\ Q[6] = P[6] /\ Q[7] = P[7]
    BY <1>3, <1>4, <2>1, <2>3
  <2>7. 3 \in Place /\ \A k \in Place : k # 3 => Q[k] = P[k]
    BY <2>8 DEF Place
  <2> QED BY <1>4, <1>9, <1>10, <2>5, <2>6, <2>7, Placed
<1>19. CASE Output
  <2>1. pty = <<>> /\ UNCHANGED <<recv, net, ws, frame, hi, lo, batch, polled>>
    BY <1>19 DEF Output, rowVars, wsVars, linkVars, chans
  <2>2. ASSUME made' = made + 1 PROVE Fresh' = Fresh
    <3>1. PICK e \in BOOLEAN : pty' = <<[n |-> made + 1, event |-> e]>>
      BY <1>19, <2>2, Bounds DEF Output, Typed, PtyTyped
    <3>2. pty'[1] # More
      BY <3>1, Bounds DEF More, Typed, PtyTyped
    <3>3. pty' # <<>>
      BY <3>1
    <3> QED BY <2>1, <2>2, <3>2, <3>3 DEF Fresh
  <2>3. ASSUME made' # made + 1 PROVE Fresh' = Fresh
    <3>1. pty' = <<More>> /\ made' = made
      BY <1>19, <2>3 DEF Output
    <3> QED BY <2>1, <3>1 DEF Fresh
  <2>5. Fresh' = Fresh
    BY <2>2, <2>3
  <2>4. InFrame' = InFrame /\ Coming' = Coming
    BY <2>1, <2>5 DEF InFrame, Coming
  <2> QED BY <1>3, <1>4, <1>5, <1>10, <2>1, <2>4, Lost
<1>20. CASE \/ KillSession \/ DetachOutside \/ ClientExit \/ ReadEof \/ WatchSendFails \/ WatchStop
            \/ RemoteSend \/ Break \/ Signal
  <2>1. /\ UNCHANGED <<recv, ws, frame, hi, lo, polled, made, pty>>
        /\ net' \in {net, <<>>} /\ batch' \in {batch, <<>>}
    <3>1. CASE KillSession \/ DetachOutside \/ ClientExit \/ ReadEof
      BY <3>1 DEF KillSession, DetachOutside, ClientExit, ReadEof, rowVars, wsVars, linkVars, chans
    <3>2. CASE WatchSendFails \/ WatchStop
      BY <3>2 DEF WatchSendFails, WatchStop, ptyVars, wsVars, linkVars, chans
    <3>3. CASE RemoteSend \/ Break \/ Signal
      BY <3>3 DEF RemoteSend, Break, Signal, ptyVars, rowVars, wsVars, linkVars, chans
    <3> QED BY <1>20, <3>1, <3>2, <3>3
  <2>2. InFrame' = InFrame /\ Coming' = Coming
    BY <2>1 DEF InFrame, Coming, Fresh
  <2> QED BY <1>3, <1>4, <1>5, <1>10, <2>1, <2>2, Lost
<1>21. CASE \/ WsStart \/ WsRefuses \/ WsCancelled \/ WsConnectFails \/ SelectInbound \/ SelectClosed
            \/ WsSentInVain \/ WsSendFails \/ WsHandOn \/ MainInput \/ MainStop \/ MainClose \/ ProcessExit
  <2>1. /\ UNCHANGED <<recv, batch, polled, made, pty>>
        /\ net' \in {net, <<>>} /\ hi' \in {hi, <<>>} /\ lo' \in {lo, <<>>}
    <3>1. CASE WsStart \/ WsRefuses \/ WsCancelled \/ WsConnectFails \/ SelectInbound
      BY <3>1 DEF WsStart, WsRefuses, WsCancelled, WsConnectFails, SelectInbound, Unlink,
                  ptyVars, rowVars, linkVars, chans
    <3>2. CASE SelectClosed \/ WsSentInVain \/ WsSendFails \/ WsHandOn
      BY <3>2 DEF SelectClosed, WsSentInVain, WsSendFails, WsHandOn, Unlink,
                  ptyVars, rowVars, linkVars, chans
    <3>3. CASE MainInput \/ MainStop \/ MainClose \/ ProcessExit
      BY <3>3 DEF MainInput, MainStop, MainClose, ProcessExit, Unlink,
                  ptyVars, rowVars, linkVars, chans
    <3> QED BY <1>21, <3>1, <3>2, <3>3
  <2>2. ws' # "sending" \/ UNCHANGED <<ws, frame>>
    <3>1. CASE WsStart \/ WsRefuses \/ WsCancelled \/ WsConnectFails \/ SelectInbound \/ SelectClosed
      BY <3>1 DEF WsStart, WsRefuses, WsCancelled, WsConnectFails, SelectInbound, SelectClosed
    <3>2. CASE WsSentInVain \/ WsSendFails \/ WsHandOn
      BY <3>2 DEF WsSentInVain, WsSendFails, WsHandOn
    <3>3. CASE MainInput \/ MainStop \/ MainClose \/ ProcessExit
      BY <3>3 DEF MainInput, MainStop, MainClose, ProcessExit, wsVars
    <3> QED BY <1>21, <3>1, <3>2, <3>3
  <2>3. InFrame' \in {InFrame, <<>>} /\ Coming' = Coming
    BY <2>1, <2>2 DEF InFrame, Coming, Fresh
  <2> QED BY <1>3, <1>4, <1>5, <1>10, <2>1, <2>3, Lost
<1> QED BY <1>11, <1>12, <1>13, <1>14, <1>15, <1>16, <1>17, <1>18, <1>19, <1>20, <1>21, <1>22, <1>23
        DEF Next, ReaderStep, WatcherStep, WsStep, MainStep, Outside

\* The order is inductive.
LEMMA InitLine == Init => InLine(Way)
<1> SUFFICES ASSUME Init PROVE InLine(Way)
  OBVIOUS
<1>1. PICK P : P = Way
  OBVIOUS
<1>2. P[4] = <<Hello>> /\ P[7] = <<F("row", 1), F("event", 1), F("out", 1)>>
  <2>1. pty = <<>> /\ made = 0 /\ polled = 0
    BY DEF Init
  <2>2. Coming = <<F("row", 1), F("event", 1), F("out", 1)>>
    BY <2>1 DEF Coming, Fresh
  <2> QED BY <1>1, <2>2, WayPlaces DEF Init
<1>3. P[1] = <<>> /\ P[2] = <<>> /\ P[3] = <<>> /\ P[5] = <<>> /\ P[6] = <<>>
  BY <1>1, WayPlaces DEF Init, InFrame
<1>4. \A k \in Place : k # 4 /\ k # 7 => P[k] = <<>>
  BY <1>3 DEF Place
<1>5. Rising(P[4]) /\ Rising(P[7]) /\ Before(P[4], P[7])
  <2>1. <<Hello>> \in Seq(Frame) /\ Hello.kind = "hello"
    BY FrameTypes
  <2>2. DOMAIN <<Hello>> = {1} /\ <<Hello>>[1] = Hello
    OBVIOUS
  <2>3. Earlier(<<Hello>>, 1, 1)
    BY <2>1, <2>2 DEF Earlier
  <2>4. Rising(<<Hello>>)
    BY <2>2 DEF Rising
  <2> QED BY <1>2, <2>1, <2>3, <2>4, ComingBefore
<1>6. \A p \in Place : Rising(P[p])
  BY <1>4, <1>5, EmptyBefore
<1>7. \A p, q \in Place : p < q => p # 7 /\ (q = 4 => p # 4)
  BY DEF Place
<1>8. \A p, q \in Place : p < q => Before(P[p], P[q])
  BY <1>4, <1>5, <1>7, EmptyBefore
<1> QED BY <1>1, <1>6, <1>8 DEF InLine

\* Sequences in line are in order one after the other.
LEMMA ConcatBefore ==
  ASSUME NEW s \in Seq(Frame), NEW t \in Seq(Frame)
  PROVE  /\ s \o t \in Seq(Frame)
         /\ Rising(s) /\ Rising(t) /\ Before(s, t) => Rising(s \o t)
         /\ \A u : Before(s, u) /\ Before(t, u) => Before(s \o t, u)
         /\ \A u : Before(u, s) /\ Before(u, t) => Before(u, s \o t)
<1> DEFINE c == s \o t
           l == Len(s)
<1>1. /\ c \in Seq(Frame) /\ l \in Nat /\ DOMAIN s = 1..l /\ Len(t) \in Nat /\ DOMAIN t = 1..Len(t)
      /\ DOMAIN c = 1..l + Len(t)
  BY ConcatProperties, LenProperties
<1>2. \A i \in DOMAIN c : /\ i <= l => i \in DOMAIN s /\ c[i] = s[i]
                          /\ ~(i <= l) => i - l \in DOMAIN t /\ c[i] = t[i - l]
  BY <1>1, ConcatProperties
<1> HIDE DEF c, l
<1>3. ASSUME Rising(s), Rising(t), Before(s, t) PROVE Rising(c)
  <2> SUFFICES ASSUME NEW i \in DOMAIN c, NEW j \in DOMAIN c, i < j, c[i].kind = c[j].kind,
                      c[i].kind \in {"row", "event", "out"}
               PROVE  c[i].n < c[j].n
    BY DEF Rising
  <2>1. CASE j <= l
    <3>1. i <= l
      BY <1>1, <2>1
    <3> QED BY <1>2, <1>3, <2>1, <3>1 DEF Rising
  <2>2. CASE i <= l /\ ~(j <= l)
    BY <1>2, <1>3, <2>2 DEF Before
  <2>3. CASE ~(i <= l)
    <3>1. ~(j <= l) /\ i - l < j - l
      BY <1>1, <2>3
    <3> QED BY <1>2, <1>3, <2>3, <3>1 DEF Rising
  <2> QED BY <2>1, <2>2, <2>3
<1>4. ASSUME NEW u, Before(s, u), Before(t, u) PROVE Before(c, u)
  BY <1>2, <1>4 DEF Before
<1>5. ASSUME NEW u, Before(u, s), Before(u, t) PROVE Before(u, c)
  BY <1>2, <1>5 DEF Before
<1> QED BY <1>1, <1>3, <1>4, <1>5 DEF c

\* Frames in line are delivered in their order.
LEMMA LineInOrder == Typed /\ InLine(Way) => InOrderOnce
<1> SUFFICES ASSUME Typed, InLine(Way) PROVE InOrderOnce
  OBVIOUS
<1>1. /\ recv \in Seq(Frame) /\ net \in Seq(Frame) /\ InFrame \in Seq(Frame)
      /\ hi \in Seq(Frame) /\ lo \in Seq(Frame) /\ batch \in Seq(Frame)
  BY PlaceTypes
<1>2. /\ Rising(recv) /\ Rising(net) /\ Rising(InFrame) /\ Rising(hi) /\ Rising(lo) /\ Rising(batch)
  BY WayPlaces DEF InLine, Place
<1>3. /\ Before(recv, net) /\ Before(recv, InFrame) /\ Before(recv, hi) /\ Before(recv, lo)
      /\ Before(recv, batch)
      /\ Before(net, InFrame) /\ Before(net, hi) /\ Before(net, lo) /\ Before(net, batch)
      /\ Before(InFrame, hi) /\ Before(InFrame, lo) /\ Before(InFrame, batch)
      /\ Before(hi, lo) /\ Before(hi, batch) /\ Before(lo, batch)
  <2>1. \A p, q \in Place : p < q => Before(Way[p], Way[q])
    BY DEF InLine
  <2>2. /\ Before(Way[1], Way[2]) /\ Before(Way[1], Way[3]) /\ Before(Way[1], Way[4])
        /\ Before(Way[1], Way[5]) /\ Before(Way[1], Way[6])
        /\ Before(Way[2], Way[3]) /\ Before(Way[2], Way[4]) /\ Before(Way[2], Way[5])
        /\ Before(Way[2], Way[6])
        /\ Before(Way[3], Way[4]) /\ Before(Way[3], Way[5]) /\ Before(Way[3], Way[6])
        /\ Before(Way[4], Way[5]) /\ Before(Way[4], Way[6]) /\ Before(Way[5], Way[6])
    BY <2>1 DEF Place
  <2> QED BY <2>2, WayPlaces
<1> DEFINE a == net \o InFrame
           b == a \o hi
           c == recv \o b
           d == c \o lo
<1>4. a \in Seq(Frame) /\ Rising(a) /\ Before(recv, a) /\ Before(a, hi) /\ Before(a, lo) /\ Before(a, batch)
  BY <1>1, <1>2, <1>3, ConcatBefore
<1> HIDE DEF a
<1>5. b \in Seq(Frame) /\ Rising(b) /\ Before(recv, b) /\ Before(b, lo) /\ Before(b, batch)
  BY <1>1, <1>2, <1>3, <1>4, ConcatBefore
<1> HIDE DEF b
<1>6. c \in Seq(Frame) /\ Rising(c) /\ Before(c, lo) /\ Before(c, batch)
  BY <1>1, <1>2, <1>3, <1>5, ConcatBefore
<1> HIDE DEF c
<1>7. d \in Seq(Frame) /\ Rising(d) /\ Before(d, batch)
  BY <1>1, <1>2, <1>3, <1>6, ConcatBefore
<1> HIDE DEF d
<1>8. Rising(d \o batch)
  BY <1>1, <1>2, <1>7, ConcatBefore
<1> QED BY <1>8 DEF InOrderOnce, Underway, a, b, c, d

\* Over all its connections the remote gets rows, events and output in their
\* order and none twice.
THEOREM InOrder == Spec => []InOrderOnce
<1>1. Init => Typed /\ InLine(Way)
  BY InitTyped, InitLine
<1>2. Typed /\ InLine(Way) /\ [Next]_vars => (Typed /\ InLine(Way))'
  <2>1. CASE UNCHANGED vars
    BY StepTyped, <2>1 DEF vars, ptyVars, rowVars, wsVars, linkVars, chans, Way, InFrame, Coming, Fresh, InLine
  <2>2. CASE Next
    BY StepTyped, StepLine, <2>2
  <2> QED BY <2>1, <2>2
<1> QED BY <1>1, <1>2, LineInOrder, PTL DEF Spec

-----------------------------------------------------------------------------
(* No gaps.                                                                *)

\* The rows still to be sent, and those on the present connection as well.
Pending == Rows(hi) \cup Rows(batch)
Present == Rows(Current) \cup Rows(net) \cup Rows(InFrame) \cup Pending

\* The last rows of p, all of them if so required.
UpTo(S, p, all) == \E first \in 1..p + 1 : S = first..p /\ (all => first = 1)

\* When there is a connection, and what a broken one has cost.
Linked ==
  /\ link # "none" => WsRuns /\ ws \in {"up", "sending", "taking"}
  /\ WsRuns /\ ws \in {"up", "sending", "taking"} => link # "none"
  /\ link # "open" => net = <<>>
  /\ link = "broken" => breaks # 0

\* No gap among the rows still to be sent, nor, on an open connection, among
\* those and the ones it carries; none is missing while no connection broke.
RowsKept ==
  WsRuns /\ ws # "done" =>
    /\ UpTo(Pending, polled, link = "none" /\ breaks = 0)
    /\ link = "open" => UpTo(Present, polled, breaks = 0)

\* A weaker demand.
LEMMA UpToWeaker ==
  ASSUME NEW S, NEW p \in Nat, NEW w, NEW v, UpTo(S, p, w), v => w
  PROVE  UpTo(S, p, v)
BY DEF UpTo

\* The next k rows.
LEMMA UpToMore ==
  ASSUME NEW S, NEW p \in Nat, NEW w, UpTo(S, p, w), NEW k \in Nat
  PROVE  UpTo(S \cup (p + 1)..(p + k), p + k, w)
<1>1. PICK f \in 1..p + 1 : S = f..p /\ (w => f = 1)
  BY DEF UpTo
<1>2. S \cup (p + 1)..(p + k) = f..(p + k) /\ f \in 1..(p + k) + 1
  BY <1>1
<1> QED BY <1>1, <1>2 DEF UpTo

\* Without the first.
LEMMA UpToLess ==
  ASSUME NEW S, NEW p \in Nat, NEW n \in Nat, UpTo({n} \cup S, p, FALSE), \A m \in S : n < m
  PROVE  UpTo(S, p, FALSE)
<1>1. PICK f \in 1..p + 1 : {n} \cup S = f..p
  BY DEF UpTo
<1>2. n \in f..p
  BY <1>1
<1>3. n + 1 \in 1..p + 1
  BY <1>2
<1>4. S = (n + 1)..p
  <2>1. ASSUME NEW m \in S PROVE m \in (n + 1)..p
    BY <1>1, <1>2
  <2>2. ASSUME NEW m \in (n + 1)..p PROVE m \in S
    <3>1. m \in f..p /\ m # n
      BY <1>2
    <3> QED BY <1>1, <3>1
  <2> QED BY <2>1, <2>2
<1> QED BY <1>3, <1>4 DEF UpTo

\* The rows of sequences put together.
LEMMA ConcatRows ==
  ASSUME NEW s \in Seq(Frame), NEW t \in Seq(Frame)
  PROVE  s \o t \in Seq(Frame) /\ Rows(s \o t) = Rows(s) \cup Rows(t)
<1> DEFINE c == s \o t
           l == Len(s)
<1>1. /\ c \in Seq(Frame) /\ l \in Nat /\ DOMAIN s = 1..l /\ Len(t) \in Nat /\ DOMAIN t = 1..Len(t)
      /\ DOMAIN c = 1..l + Len(t)
  BY ConcatProperties, LenProperties
<1>2. /\ \A i \in DOMAIN s : i \in DOMAIN c /\ c[i] = s[i]
      /\ \A i \in DOMAIN t : l + i \in DOMAIN c /\ c[l + i] = t[i]
      /\ \A i \in DOMAIN c : i \notin DOMAIN s => i - l \in DOMAIN t /\ c[i] = t[i - l]
  BY <1>1, ConcatProperties
<1> HIDE DEF c, l
<1>3. ASSUME NEW n \in Rows(c) PROVE n \in Rows(s) \cup Rows(t)
  BY <1>2 DEF Rows
<1>4. ASSUME NEW n \in Rows(s) PROVE n \in Rows(c)
  BY <1>2 DEF Rows
<1>5. ASSUME NEW n \in Rows(t) PROVE n \in Rows(c)
  BY <1>2 DEF Rows
<1> QED BY <1>1, <1>3, <1>4, <1>5 DEF c

\* What has come before a row.
LEMMA BeforeRows ==
  ASSUME NEW h, NEW t \in Seq(Frame), Before(<<h>>, t), h.kind = "row"
  PROVE  \A m \in Rows(t) : h.n < m
BY SingleBefore DEF Rows

\* The frames of the present connection, before and after one more.
LEMMA CurrentGrows ==
  ASSUME NEW r \in Seq(Frame), NEW x \in Frame, NEW m \in 0..Len(r)
  PROVE  /\ SubSeq(r, m + 1, Len(r)) \in Seq(Frame)
         /\ Rows(SubSeq(Append(r, x), m + 1, Len(Append(r, x)))) =
              Rows(SubSeq(r, m + 1, Len(r))) \cup Rows(<<x>>)
<1> DEFINE a == Append(r, x)
           l == Len(r)
           s == SubSeq(r, m + 1, l)
           t == SubSeq(a, m + 1, l + 1)
<1>1. /\ a \in Seq(Frame) /\ Len(a) = l + 1 /\ l \in Nat /\ m \in Nat /\ m <= l
      /\ DOMAIN a = 1..l + 1 /\ DOMAIN r = 1..l
      /\ \A i \in DOMAIN r : a[i] = r[i]
      /\ a[l + 1] = x
  BY AppendElements
<1> HIDE DEF a, l
<1>2. s \in Seq(Frame) /\ DOMAIN s = 1..l - m /\ \A i \in 1..l - m : s[i] = r[m + i]
  BY <1>1, SubSeqProperties, LenProperties
<1>3. t \in Seq(Frame) /\ DOMAIN t = 1..(l - m) + 1 /\ \A i \in 1..(l - m) + 1 : t[i] = a[m + i]
  BY <1>1, SubSeqProperties, LenProperties
<1> HIDE DEF s, t
<1>4. ASSUME NEW i \in DOMAIN s PROVE i \in DOMAIN t /\ t[i] = s[i]
  <2>1. i \in 1..l - m /\ i \in 1..(l - m) + 1 /\ m + i \in 1..l
    BY <1>1, <1>2
  <2>2. a[m + i] = r[m + i]
    BY <1>1, <2>1
  <2> QED BY <1>2, <1>3, <2>1, <2>2
<1>8. (l - m) + 1 \in DOMAIN t /\ t[(l - m) + 1] = x
  <2>1. (l - m) + 1 \in 1..(l - m) + 1 /\ m + ((l - m) + 1) = l + 1
    BY <1>1
  <2> QED BY <1>1, <1>3, <2>1
<1>9. ASSUME NEW i \in DOMAIN t PROVE i \in DOMAIN s \/ t[i] = x
  <2>1. i \in 1..l - m \/ i = (l - m) + 1
    BY <1>1, <1>3
  <2> QED BY <1>2, <1>8, <2>1
<1>5. DOMAIN <<x>> = {1} /\ <<x>>[1] = x
  OBVIOUS
<1>6. ASSUME NEW n \in Rows(t) PROVE n \in Rows(s) \cup Rows(<<x>>)
  <2>1. PICK i \in DOMAIN t : t[i].kind = "row" /\ t[i].n = n
    BY DEF Rows
  <2>2. CASE i \in DOMAIN s
    BY <1>4, <2>1, <2>2 DEF Rows
  <2>3. CASE t[i] = x
    BY <1>5, <2>1, <2>3 DEF Rows
  <2> QED BY <1>9, <2>2, <2>3
<1>7. ASSUME NEW n \in Rows(s) \cup Rows(<<x>>) PROVE n \in Rows(t)
  BY <1>4, <1>5, <1>8 DEF Rows
<1> QED BY <1>1, <1>2, <1>6, <1>7 DEF a, l, s, t

\* A broken connection is counted.
LEMMA BreakCounts == breaks \in Nat /\ Break => breaks' # 0
BY DEF Break

\* A step leaves the connection as it stands, or is one of the transport's, of
\* the network's or of main's.
LEMMA LinkedStep == breaks \in Nat /\ Linked /\ Next => Linked'
<1> SUFFICES ASSUME breaks \in Nat, Linked, Next PROVE Linked'
  OBVIOUS
<1>1. CASE WsCancelled \/ SelectClosed \/ WsSendFails
  BY <1>1 DEF WsCancelled, SelectClosed, WsSendFails, Selecting, Unlink, Linked, WsRuns, mainVars
<1>2. CASE MainClose
  BY <1>2 DEF MainClose, Unlink, Linked, WsRuns
<1>3. CASE WsConnect
  BY <1>3 DEF WsConnect, Linked, WsRuns, mainVars
<1>4. CASE WsStart \/ WsRefuses \/ WsConnectFails
  BY <1>4 DEF WsStart, WsRefuses, WsConnectFails, Linked, WsRuns, mainVars, linkVars
<1>5. CASE SelectHi \/ SelectLo \/ SelectInbound \/ WsHandOn
  BY <1>5 DEF SelectHi, SelectLo, SelectInbound, WsHandOn, Selecting, Linked, WsRuns, mainVars, linkVars
<1>6. CASE WsSent \/ WsSentInVain
  BY <1>6 DEF WsSent, WsSentInVain, Linked, WsRuns, mainVars, linkVars
<1>7. CASE RemoteRecv \/ RemoteSend
  BY <1>7 DEF RemoteRecv, RemoteSend, Linked, WsRuns, mainVars, wsVars
<1>8. CASE Break
  BY <1>8, BreakCounts DEF Break, Linked, WsRuns, mainVars, wsVars
<1>9. CASE MainStop \/ MainInput \/ ProcessExit \/ Signal
  BY <1>9 DEF MainStop, MainInput, ProcessExit, Signal, Linked, WsRuns, linkVars, wsVars
<1>10. CASE ReadChunk \/ ReadEof \/ Output \/ KillSession \/ DetachOutside \/ ClientExit
  BY <1>10 DEF ReadChunk, ReadEof, Output, KillSession, DetachOutside, ClientExit,
               Linked, WsRuns, linkVars, wsVars, mainVars
<1>11. CASE WatchPoll \/ WatchSend \/ WatchSendFails \/ WatchStop
  BY <1>11 DEF WatchPoll, WatchSend, WatchSendFails, WatchStop,
               Linked, WsRuns, linkVars, wsVars, mainVars
<1> QED BY <1>1, <1>2, <1>3, <1>4, <1>5, <1>6, <1>7, <1>8, <1>9, <1>10, <1>11
        DEF Next, ReaderStep, WatcherStep, WsStep, MainStep, Outside

\* A transport that runs after a step ran before it.
LEMMA StillRuns ==
  ASSUME Next, WsRuns', ws' # "done"
  PROVE  WsRuns /\ ws # "done"
<1>1. WsRuns
  BY MainSteps DEF WsRuns, mainVars, ReadEof, MainInput, MainStop, MainClose, ProcessExit, Signal
<1>2. ws # "done"
  <2>1. CASE UNCHANGED wsVars
    BY <2>1 DEF wsVars
  <2>2. CASE WsStep
    BY <2>2 DEF WsStep, WsStart, WsRefuses, WsCancelled, WsConnect, WsConnectFails, SelectHi, SelectLo,
                SelectInbound, SelectClosed, Selecting, WsSent, WsSentInVain, WsSendFails, WsHandOn
  <2> QED BY <2>1, <2>2, WsSteps
<1> QED BY <1>1, <1>2

\* A frame in one place after another, or in both.
LEMMA RowsOf ==
  ASSUME NEW s \in Seq(Frame), NEW x \in Frame
  PROVE  /\ Rows(Append(s, x)) = Rows(s) \cup Rows(<<x>>)
         /\ x.kind # "row" => Rows(<<x>>) = {}
         /\ s # <<>> => Rows(s) = Rows(<<Head(s)>>) \cup Rows(Tail(s))
<1>1. Rows(Append(s, x)) = Rows(s) \cup Rows(<<x>>)
  BY AppendBefore
<1>2. x.kind # "row" => Rows(<<x>>) = {}
  BY SingleBefore
<1>3. s # <<>> => Rows(s) = Rows(<<Head(s)>>) \cup Rows(Tail(s))
  BY TailBefore
<1> QED BY <1>1, <1>2, <1>3

\* The rows of a poll.
LEMMA PollRows ==
  ASSUME NEW a \in Nat, NEW m \in Nat, NEW q, q = [i \in 1..m |-> F("row", a + i)]
  PROVE  Rows(q) = (a + 1)..(a + m)
<1>1. DOMAIN q = 1..m /\ \A i \in 1..m : q[i].kind = "row" /\ q[i].n = a + i
  BY FrameTypes
<1>2. ASSUME NEW n \in Rows(q) PROVE n \in (a + 1)..(a + m)
  <2>1. PICK i \in 1..m : q[i].n = n
    BY <1>1 DEF Rows
  <2>2. a + i \in (a + 1)..(a + m)
    OBVIOUS
  <2> QED BY <1>1, <2>1, <2>2
<1>3. ASSUME NEW n \in (a + 1)..(a + m) PROVE n \in Rows(q)
  <2>1. n - a \in 1..m /\ a + (n - a) = n
    OBVIOUS
  <2> QED BY <1>1, <2>1 DEF Rows
<1> QED BY <1>2, <1>3

\* What the line says of hi and of the poll.
LEMMA LineHi == InLine(Way) => Rising(hi) /\ Before(hi, batch)
<1> SUFFICES ASSUME InLine(Way) PROVE Rising(hi) /\ Before(hi, batch)
  OBVIOUS
<1>1. Rising(Way[4]) /\ Before(Way[4], Way[6])
  BY DEF InLine, Place
<1> QED BY <1>1, WayPlaces

\* What a step does to the rows still to be sent and to those on the connection.
LEMMA KeptStep ==
  ASSUME Typed, Typed', InLine(Way), Linked, RowsKept, Next
  PROVE  RowsKept'
<1> SUFFICES ASSUME WsRuns', ws' # "done"
             PROVE  /\ UpTo(Pending', polled', link' = "none" /\ breaks' = 0)
                    /\ link' = "open" => UpTo(Present', polled', breaks' = 0)
  BY DEF RowsKept, UpTo
<1>20. WsRuns /\ ws # "done"
  BY StillRuns
<1>21. /\ UpTo(Pending, polled, link = "none" /\ breaks = 0)
       /\ link = "open" => UpTo(Present, polled, breaks = 0)
  BY <1>20 DEF RowsKept
<1>22. polled \in Nat /\ polled' \in Nat /\ breaks \in Nat
  BY Bounds DEF Typed, RowsTyped, LinkTyped
<1>23. /\ recv \in Seq(Frame) /\ net \in Seq(Frame) /\ InFrame \in Seq(Frame)
       /\ hi \in Seq(Frame) /\ lo \in Seq(Frame) /\ batch \in Seq(Frame)
  BY PlaceTypes
<1>24. Rows(<<>>) = {}
  BY EmptyBefore
<1>1. CASE WatchPoll
  <2>1. PICK m \in 1..MaxRows : /\ polled' = polled + m
                                /\ batch' = [i \in 1..m |-> F("row", polled + i)]
    BY <1>1 DEF WatchPoll
  <2>2. batch = <<>> /\ UNCHANGED <<hi, ws, frame, link, net, breaks, recv, mark>>
    BY <1>1 DEF WatchPoll, ptyVars, wsVars, linkVars, chans
  <2>3. m \in Nat
    BY Bounds
  <2>4. Rows(batch') = (polled + 1)..(polled + m)
    BY <1>22, <2>1, <2>3, PollRows
  <2>5. Pending' = Pending \cup (polled + 1)..(polled + m)
    BY <1>24, <2>2, <2>4 DEF Pending
  <2>6. Present' = Present \cup (polled + 1)..(polled + m)
    BY <2>2, <2>5 DEF Present, InFrame, Current
  <2> QED BY <1>21, <1>22, <2>1, <2>2, <2>3, <2>5, <2>6, UpToMore
<1>2. CASE WatchSend
  <2>1. /\ batch # <<>> /\ hi' = Append(hi, Head(batch)) /\ batch' = Tail(batch)
        /\ UNCHANGED <<polled, ws, frame, link, net, breaks, recv, mark>>
    BY <1>2 DEF WatchSend, wsVars, linkVars
  <2>2. Head(batch) \in Frame
    BY <1>23, <2>1, TailElements
  <2>5. Rows(batch) = Rows(<<Head(batch)>>) \cup Rows(batch')
    BY <1>23, <2>1, <2>2, RowsOf
  <2>6. Rows(hi') = Rows(hi) \cup Rows(<<Head(batch)>>)
    BY <1>23, <2>1, <2>2, RowsOf
  <2>3. Pending' = Pending
    BY <2>5, <2>6 DEF Pending
  <2>4. Present' = Present
    BY <2>1, <2>3 DEF Present, InFrame, Current
  <2> QED BY <1>21, <2>1, <2>3, <2>4
<1>3. CASE ReadChunk
  <2>1. /\ hi' \in {hi, Append(hi, F("event", pty[1].n))}
        /\ UNCHANGED <<polled, batch, ws, frame, link, net, breaks, recv, mark>>
    BY <1>3 DEF ReadChunk, TryAdd, rowVars, wsVars, linkVars
  <2>2. F("event", pty[1].n) \in Frame /\ F("event", pty[1].n).kind # "row"
    BY <1>3, ChunkType, FrameTypes DEF ReadChunk, Typed
  <2> DEFINE z == F("event", pty[1].n)
  <2>6. hi' \in {hi, Append(hi, z)} /\ z \in Frame /\ z.kind # "row"
    BY <2>1, <2>2
  <2> HIDE DEF z
  <2>7. Rows(Append(hi, z)) = Rows(hi)
    <3>1. Rows(Append(hi, z)) = Rows(hi) \cup Rows(<<z>>) /\ Rows(<<z>>) = {}
      BY <1>23, <2>6, RowsOf
    <3> QED BY <3>1
  <2>3. Rows(hi') = Rows(hi)
    BY <2>6, <2>7
  <2>4. Pending' = Pending
    BY <2>1, <2>3 DEF Pending
  <2>5. Present' = Present
    BY <2>1, <2>4 DEF Present, InFrame, Current
  <2> QED BY <1>21, <2>1, <2>4, <2>5
<1>4. CASE SelectHi
  <2>1. /\ ws = "up" /\ ws' = "sending" /\ hi # <<>> /\ frame' = Head(hi) /\ hi' = Tail(hi)
        /\ UNCHANGED <<polled, batch, link, net, breaks, recv, mark>>
    BY <1>4 DEF SelectHi, Selecting, rowVars, linkVars
  <2> DEFINE h == Head(hi)
  <2>2. h \in Frame /\ hi' \in Seq(Frame)
    BY <1>23, <2>1, TailElements
  <2>3. Rows(hi) = Rows(<<h>>) \cup Rows(hi')
    BY <1>23, <2>1, <2>2, RowsOf
  <2>4. InFrame = <<>> /\ InFrame' = <<h>>
    BY <2>1 DEF InFrame
  <2>5. link # "none"
    BY <1>20, <2>1 DEF Linked
  <2> HIDE DEF h
  <2>6. Present' = Present
    BY <1>24, <2>1, <2>3, <2>4 DEF Present, Pending, Current
  <2>7. UpTo(Pending', polled, FALSE)
    <3>1. UpTo(Pending, polled, FALSE)
      BY <1>21, <1>22, UpToWeaker
    <3>2. CASE h.kind # "row"
      <4>1. Pending' = Pending
        BY <1>23, <2>1, <2>2, <2>3, <3>2, RowsOf DEF Pending
      <4> QED BY <3>1, <4>1
    <3>3. CASE h.kind = "row"
      <4>1. Rows(<<h>>) = {h.n} /\ h.n \in Nat
        BY <1>23, <2>2, <3>3, SingleBefore DEF Frame
      <4>2. Pending = {h.n} \cup Pending'
        BY <2>1, <2>3, <4>1 DEF Pending
      <4>3. Before(<<h>>, hi') /\ Before(<<h>>, batch)
        BY <1>23, <2>1, TailBefore, LineHi DEF h
      <4>4. \A m \in Pending' : h.n < m
        BY <1>23, <2>1, <2>2, <3>3, <4>3, BeforeRows DEF Pending
      <4> QED BY <1>22, <3>1, <4>1, <4>2, <4>4, UpToLess
    <3> QED BY <3>2, <3>3
  <2> QED BY <1>21, <1>22, <2>1, <2>5, <2>6, <2>7, UpToWeaker
<1>5. CASE SelectLo
  <2>1. /\ ws = "up" /\ ws' = "sending" /\ lo # <<>> /\ frame' = Head(lo)
        /\ UNCHANGED <<polled, hi, batch, link, net, breaks, recv, mark>>
    BY <1>5 DEF SelectLo, Selecting, rowVars, linkVars
  <2>2. lo \in Seq(LoFrame)
    BY DEF Typed, LoTyped
  <2>3. Head(lo) \in LoFrame
    BY <2>1, <2>2, TailElements
  <2>4. Head(lo) \in Frame /\ Head(lo).kind # "row"
    BY <2>3, FrameTypes DEF LoFrame
  <2>5. InFrame = <<>> /\ InFrame' = <<Head(lo)>>
    BY <2>1 DEF InFrame
  <2>6. Rows(InFrame') = Rows(InFrame)
    BY <1>23, <1>24, <2>4, <2>5, RowsOf
  <2>7. Pending' = Pending /\ Present' = Present
    BY <2>1, <2>6 DEF Pending, Present, Current
  <2> QED BY <1>21, <2>1, <2>7
<1>6. CASE WsSent
  <2>1. /\ ws = "sending" /\ ws' = "up" /\ net' = Append(net, frame) /\ frame \in Frame
        /\ UNCHANGED <<polled, hi, batch, link, breaks, recv, mark>>
    BY <1>6 DEF WsSent, rowVars, chans, Typed, WsTyped
  <2>2. InFrame = <<frame>> /\ InFrame' = <<>>
    BY <2>1 DEF InFrame
  <2>6. Rows(net') = Rows(net) \cup Rows(<<frame>>)
    BY <1>23, <2>1, RowsOf
  <2>3. Rows(net') \cup Rows(InFrame') = Rows(net) \cup Rows(InFrame)
    BY <1>24, <2>2, <2>6
  <2>4. Pending' = Pending /\ Rows(Current') = Rows(Current)
    BY <2>1 DEF Pending, Current
  <2>5. Present' = Present
    BY <2>3, <2>4 DEF Present
  <2> QED BY <1>21, <2>1, <2>4, <2>5
<1>7. CASE RemoteRecv
  <2>1. /\ net # <<>> /\ net' = Tail(net)
        /\ recv' = IF Head(net).kind = "more" THEN recv ELSE Append(recv, Head(net))
        /\ UNCHANGED <<polled, hi, batch, ws, frame, link, breaks, mark>>
    BY <1>7 DEF RemoteRecv, rowVars, wsVars, chans
  <2>2. Head(net) \in Frame /\ mark \in 0..Len(recv)
    BY <1>23, <2>1, TailElements DEF Typed, LinkTyped
  <2>3. Rows(Current') = Rows(Current) \cup Rows(<<Head(net)>>)
    <3>1. CASE Head(net).kind = "more"
      BY <1>23, <2>1, <2>2, <3>1, SingleBefore DEF Current
    <3>2. CASE Head(net).kind # "more"
      BY <1>23, <2>1, <2>2, <3>2, CurrentGrows DEF Current
    <3> QED BY <3>1, <3>2
  <2>4. Rows(net) = Rows(<<Head(net)>>) \cup Rows(net')
    BY <1>23, <2>1, <2>2, RowsOf
  <2>5. Pending' = Pending /\ Rows(InFrame') = Rows(InFrame)
    BY <2>1 DEF Pending, InFrame
  <2>6. Present' = Present
    BY <2>3, <2>4, <2>5 DEF Present
  <2> QED BY <1>21, <2>1, <2>5, <2>6
<1>8. CASE WsConnect
  <2>1. /\ ws = "connecting" /\ mark' = Len(recv) /\ link' = "open" /\ (ws' # "sending" \/ frame' = Auth)
        /\ UNCHANGED <<polled, hi, batch, net, breaks, recv>>
    BY <1>8 DEF WsConnect, rowVars, chans
  <2>2. link = "none" /\ net = <<>>
    BY <2>1 DEF Linked, Typed, LinkTyped
  <2>3. Rows(InFrame') = {}
    <3>1. InFrame' = <<>> \/ InFrame' = <<Auth>>
      BY <2>1 DEF InFrame
    <3>2. Auth \in Frame /\ Auth.kind # "row"
      BY FrameTypes
    <3> QED BY <1>23, <1>24, <3>1, <3>2, RowsOf
  <2>4. Current' = <<>>
    <3>1. Len(recv) \in Nat /\ Len(recv') = Len(recv)
      BY <1>23, <2>1, LenProperties
    <3> QED BY <2>1, <3>1, SubSeqEmpty DEF Current
  <2>5. Pending' = Pending
    BY <2>1 DEF Pending
  <2>6. Present' = Pending
    BY <1>24, <2>1, <2>2, <2>3, <2>4, <2>5 DEF Present
  <2>7. UpTo(Pending, polled, breaks = 0)
    BY <1>21, <1>22, <2>2, UpToWeaker
  <2> QED BY <1>22, <2>1, <2>5, <2>6, <2>7, UpToWeaker
<1>9. CASE Break \/ SelectClosed \/ WsSendFails \/ WsSentInVain
  <2>1. link' # "open" /\ breaks' # 0 /\ UNCHANGED <<polled, hi, batch>>
    <3>1. CASE Break
      BY <1>22, <3>1, BreakCounts DEF Break, rowVars, chans
    <3>2. CASE SelectClosed
      BY <3>2 DEF SelectClosed, Unlink, Linked, rowVars, chans
    <3>3. CASE WsSendFails \/ WsSentInVain
      BY <3>3 DEF WsSendFails, WsSentInVain, Unlink, Linked, rowVars, chans, linkVars
    <3> QED BY <1>9, <3>1, <3>2, <3>3
  <2>2. Pending' = Pending
    BY <2>1 DEF Pending
  <2> QED BY <1>21, <1>22, <2>1, <2>2, UpToWeaker
<1>10. CASE WatchSendFails \/ WsRefuses \/ WsCancelled \/ MainClose \/ ProcessExit
  BY <1>10, <1>20 DEF WatchSendFails, WsRefuses, WsCancelled, MainClose, ProcessExit, WsRuns
<1>11. CASE \/ Output \/ KillSession \/ DetachOutside \/ ClientExit \/ ReadEof \/ WatchStop
            \/ WsStart \/ WsConnectFails \/ SelectInbound \/ WsHandOn \/ RemoteSend
            \/ Signal \/ MainInput \/ MainStop
  <2>1. UNCHANGED <<polled, hi, batch, link, net, breaks, recv, mark>>
    <3>1. CASE Output \/ KillSession \/ DetachOutside \/ ClientExit \/ ReadEof \/ WatchStop
      BY <3>1 DEF Output, KillSession, DetachOutside, ClientExit, ReadEof, WatchStop, rowVars, linkVars, chans
    <3>2. CASE WsStart \/ WsConnectFails \/ SelectInbound \/ WsHandOn \/ RemoteSend
      BY <3>2 DEF WsStart, WsConnectFails, SelectInbound, WsHandOn, RemoteSend, rowVars, linkVars, chans
    <3>3. CASE Signal \/ MainInput \/ MainStop
      BY <3>3 DEF Signal, MainInput, MainStop, rowVars, linkVars, chans
    <3> QED BY <1>11, <3>1, <3>2, <3>3
  <2>2. InFrame' = InFrame
    <3>1. CASE Output \/ KillSession \/ DetachOutside \/ ClientExit \/ ReadEof \/ WatchStop
      BY <3>1 DEF Output, KillSession, DetachOutside, ClientExit, ReadEof, WatchStop, wsVars, InFrame
    <3>2. CASE WsStart \/ WsConnectFails \/ SelectInbound \/ WsHandOn \/ RemoteSend
      BY <3>2 DEF WsStart, WsConnectFails, SelectInbound, Selecting, WsHandOn, RemoteSend, wsVars, InFrame
    <3>3. CASE Signal \/ MainInput \/ MainStop
      BY <3>3 DEF Signal, MainInput, MainStop, wsVars, InFrame
    <3> QED BY <1>11, <3>1, <3>2, <3>3
  <2>3. Pending' = Pending
    BY <2>1 DEF Pending
  <2>4. Present' = Present
    BY <2>1, <2>2, <2>3 DEF Present, Current
  <2> QED BY <1>21, <2>1, <2>3, <2>4
<1> QED BY <1>1, <1>2, <1>3, <1>4, <1>5, <1>6, <1>7, <1>8, <1>9, <1>10, <1>11
        DEF Next, ReaderStep, WatcherStep, WsStep, MainStep, Outside

\* Before anything happened no row is missing.
LEMMA InitKept == Init => Linked /\ RowsKept
<1> SUFFICES ASSUME Init PROVE Linked /\ RowsKept
  OBVIOUS
<1>1. Linked
  BY DEF Init, Linked, WsRuns
<1>2. Rows(hi) = {} /\ Rows(batch) = {}
  <2>1. Hello \in Frame /\ Hello.kind # "row" /\ <<>> \in Seq(Frame)
    BY FrameTypes
  <2>2. Rows(<<Hello>>) = {} /\ Rows(<<>>) = {}
    BY <2>1, RowsOf, EmptyBefore
  <2> QED BY <2>2 DEF Init
<1>3. UpTo({}, 0, TRUE)
  BY DEF UpTo
<1>4. UpTo(Pending, polled, link = "none" /\ breaks = 0)
  BY <1>2, <1>3, UpToWeaker DEF Init, Pending
<1> QED BY <1>1, <1>4 DEF RowsKept, Init

\* What is kept is what the remote gets.
LEMMA KeptContiguous == Typed /\ Linked /\ RowsKept => RowsContiguous
<1> SUFFICES ASSUME Typed, Linked, RowsKept, link = "open"
             PROVE  \E first \in 1..polled + 1 :
                      /\ Rows(Current \o Underway(hi) \o batch) = first..polled
                      /\ breaks = 0 => first = 1
  BY DEF RowsContiguous
<1>1. /\ recv \in Seq(Frame) /\ net \in Seq(Frame) /\ InFrame \in Seq(Frame)
      /\ hi \in Seq(Frame) /\ batch \in Seq(Frame)
  BY PlaceTypes
<1>2. Current \in Seq(Frame)
  <2>1. mark \in 0..Len(recv)
    BY DEF Typed, LinkTyped
  <2> QED BY <1>1, <2>1, FrameTypes, CurrentGrows DEF Current
<1>3. net \o InFrame \in Seq(Frame) /\ Rows(net \o InFrame) = Rows(net) \cup Rows(InFrame)
  BY <1>1, ConcatRows
<1>4. Underway(hi) \in Seq(Frame) /\ Rows(Underway(hi)) = Rows(net) \cup Rows(InFrame) \cup Rows(hi)
  BY <1>1, <1>3, ConcatRows DEF Underway
<1>5. /\ Current \o Underway(hi) \in Seq(Frame)
      /\ Rows(Current \o Underway(hi)) = Rows(Current) \cup Rows(Underway(hi))
  BY <1>2, <1>4, ConcatRows
<1>6. Rows(Current \o Underway(hi) \o batch) = Rows(Current \o Underway(hi)) \cup Rows(batch)
  BY <1>1, <1>5, ConcatRows
<1>7. Rows(Current \o Underway(hi) \o batch) = Present
  BY <1>4, <1>5, <1>6 DEF Present, Pending
<1>8. UpTo(Present, polled, breaks = 0)
  BY DEF Linked, RowsKept
<1> QED BY <1>7, <1>8 DEF UpTo

\* While a connection lasts no transcript row is missing between what it has
\* delivered and what the watcher read last.
THEOREM NoGaps == Spec => []RowsContiguous
<1>1. Init => Typed /\ InLine(Way) /\ Linked /\ RowsKept
  BY InitTyped, InitLine, InitKept
<1>2. Typed /\ InLine(Way) /\ Linked /\ RowsKept /\ [Next]_vars
        => (Typed /\ InLine(Way) /\ Linked /\ RowsKept)'
  <2> SUFFICES ASSUME Typed, InLine(Way), Linked, RowsKept, [Next]_vars
               PROVE  (Typed /\ InLine(Way) /\ Linked /\ RowsKept)'
    OBVIOUS
  <2>1. CASE Next
    <3>1. Typed' /\ InLine(Way)'
      BY StepTyped, StepLine, <2>1
    <3>2. Linked'
      BY LinkedStep, <2>1 DEF Typed, LinkTyped
    <3>3. RowsKept'
      BY KeptStep, <2>1, <3>1
    <3> QED BY <3>1, <3>2, <3>3
  <2>2. CASE UNCHANGED vars
    <3>1. Typed' /\ InLine(Way)'
      BY StepTyped, <2>2 DEF vars, ptyVars, rowVars, wsVars, linkVars, chans, Way, InFrame, Coming, Fresh, InLine
    <3>2. Linked'
      BY <2>2 DEF vars, wsVars, linkVars, mainVars, Linked, WsRuns
    <3>3. Pending' = Pending /\ Present' = Present
      BY <2>2 DEF vars, rowVars, wsVars, linkVars, chans, Pending, Present, Current, InFrame
    <3>4. RowsKept'
      BY <2>2, <3>3 DEF vars, rowVars, wsVars, linkVars, mainVars, RowsKept, WsRuns, UpTo
    <3> QED BY <3>1, <3>2, <3>4
  <2> QED BY <2>1, <2>2
<1> QED BY <1>1, <1>2, KeptContiguous, PTL DEF Spec

-----------------------------------------------------------------------------
(* How a connection begins: sequences that hold auth frames or the hello.  *)

OnlyAuth(s) == \A i \in DOMAIN s : s[i] = Auth
NoAuth(s)   == \A i \in DOMAIN s : s[i] # Auth
OneAuth(s)  == s # <<>> /\ \A i \in DOMAIN s : s[i] = Auth <=> i = 1
HasHello(s) == \E i \in DOMAIN s : s[i] = Hello

\* Nothing has neither.
LEMMA EmptyPreamble ==
  OnlyAuth(<<>>) /\ NoAuth(<<>>) /\ ~HasHello(<<>>) /\ HelloLeads(<<>>)
BY DEF OnlyAuth, NoAuth, HasHello, HelloLeads

\* A frame more at the end.
LEMMA AppendPreamble ==
  ASSUME NEW S, NEW s \in Seq(S), NEW x \in S
  PROVE  /\ OnlyAuth(Append(s, x)) <=> OnlyAuth(s) /\ x = Auth
         /\ NoAuth(Append(s, x)) <=> NoAuth(s) /\ x # Auth
         /\ HasHello(Append(s, x)) <=> HasHello(s) \/ x = Hello
         /\ OnlyAuth(s) => HelloLeads(s)
         /\ HelloLeads(s) /\ (HasHello(s) \/ x \in {Auth, Hello}) => HelloLeads(Append(s, x))
         /\ OneAuth(s) /\ x # Auth => OneAuth(Append(s, x))
         /\ s = <<>> /\ x = Auth => OneAuth(Append(s, x))
<1> DEFINE a == Append(s, x)
           l == Len(s) + 1
<1>1. /\ DOMAIN a = DOMAIN s \cup {l} /\ DOMAIN s = 1..Len(s) /\ Len(s) \in Nat
      /\ a[l] = x /\ \A i \in DOMAIN s : a[i] = s[i]
      /\ a # <<>>
  BY AppendElements
<1>2. s = <<>> => Len(s) = 0
  OBVIOUS
<1>3. s # <<>> => Len(s) # 0
  BY EmptySeq
<1>4. 1..l = DOMAIN s \cup {l} /\ l \notin DOMAIN s
  BY <1>1
<1> HIDE DEF a, l
<1>5. \A i \in DOMAIN s : 1..i \subseteq DOMAIN s
  BY <1>1
<1>6. HelloLeads(s) /\ (HasHello(s) \/ x \in {Auth, Hello}) => HelloLeads(a)
  <2> SUFFICES ASSUME HelloLeads(s), HasHello(s) \/ x \in {Auth, Hello}, NEW i \in DOMAIN a, a[i] # Auth
               PROVE  \E j \in 1..i : a[j] = Hello
    BY DEF HelloLeads
  <2>1. CASE i \in DOMAIN s
    <3>1. PICK j \in 1..i : s[j] = Hello
      BY <1>1, <2>1 DEF HelloLeads
    <3> QED BY <1>1, <1>5, <2>1, <3>1
  <2>2. CASE i = l
    BY <1>1, <1>4, <2>2 DEF HasHello
  <2> QED BY <1>1, <2>1, <2>2
<1>10. OnlyAuth(s) => HelloLeads(s)
  BY DEF OnlyAuth, HelloLeads
<1>7. /\ OnlyAuth(a) <=> OnlyAuth(s) /\ x = Auth
      /\ NoAuth(a) <=> NoAuth(s) /\ x # Auth
      /\ HasHello(a) <=> HasHello(s) \/ x = Hello
  BY <1>1 DEF OnlyAuth, NoAuth, HasHello
<1>8. OneAuth(s) /\ x # Auth => OneAuth(a)
  <2>1. s # <<>> => l # 1
    BY <1>1, <1>3 DEF l
  <2> QED BY <1>1, <2>1 DEF OneAuth
<1>9. s = <<>> /\ x = Auth => OneAuth(a)
  <2>1. s = <<>> => DOMAIN s = {} /\ l = 1
    BY <1>2 DEF l
  <2> QED BY <1>1, <2>1 DEF OneAuth
<1> QED BY <1>6, <1>7, <1>8, <1>9, <1>10 DEF a

\* The first frame, and the others.
LEMMA HeadPreamble ==
  ASSUME NEW S, NEW s \in Seq(S), s # <<>>
  PROVE  /\ OnlyAuth(s) => Head(s) = Auth /\ OnlyAuth(Tail(s))
         /\ NoAuth(s) => Head(s) # Auth /\ NoAuth(Tail(s))
         /\ OneAuth(s) => Head(s) = Auth /\ NoAuth(Tail(s))
         /\ HasHello(s) => Head(s) = Hello \/ HasHello(Tail(s))
         /\ HelloLeads(s) => Head(s) \in {Auth, Hello}
         /\ HelloLeads(s) /\ Head(s) = Auth => HelloLeads(Tail(s))
<1> DEFINE t == Tail(s)
<1>1. /\ Head(s) = s[1] /\ 1 \in DOMAIN s
      /\ \A i \in DOMAIN t : i \in Nat \ {0} /\ i + 1 \in DOMAIN s /\ t[i] = s[i + 1]
      /\ \A i \in DOMAIN s : i # 1 => i - 1 \in DOMAIN t /\ s[i] = t[i - 1]
      /\ \A i \in DOMAIN t : 1..i + 1 \subseteq DOMAIN s
  <2>1. /\ Len(s) \in Nat /\ Len(s) # 0 /\ DOMAIN s = 1..Len(s)
        /\ Len(t) = Len(s) - 1 /\ t \in Seq(S) /\ Head(s) = s[1]
        /\ \A i \in 1..Len(t) : t[i] = s[i + 1]
    BY HeadTailProperties, EmptySeq, LenProperties
  <2>2. DOMAIN t = 1..Len(t)
    BY <2>1, LenProperties
  <2> QED BY <2>1, <2>2
<1> HIDE DEF t
<1>2. /\ OnlyAuth(s) => Head(s) = Auth /\ OnlyAuth(t)
      /\ NoAuth(s) => Head(s) # Auth /\ NoAuth(t)
      /\ HasHello(s) => Head(s) = Hello \/ HasHello(t)
  BY <1>1 DEF OnlyAuth, NoAuth, HasHello
<1>3. OneAuth(s) => Head(s) = Auth /\ NoAuth(t)
  BY <1>1 DEF OneAuth, NoAuth
<1>4. HelloLeads(s) => Head(s) \in {Auth, Hello}
  BY <1>1 DEF HelloLeads
<1>5. HelloLeads(s) /\ Head(s) = Auth => HelloLeads(t)
  <2> SUFFICES ASSUME HelloLeads(s), s[1] = Auth, NEW i \in DOMAIN t, t[i] # Auth
               PROVE  \E j \in 1..i : t[j] = Hello
    BY <1>1 DEF HelloLeads
  <2>1. PICK j \in 1..i + 1 : s[j] = Hello
    BY <1>1 DEF HelloLeads
  <2>2. j # 1 /\ j \in DOMAIN s
    BY <1>1, <2>1, FrameTypes
  <2>3. t[j - 1] = Hello /\ j - 1 \in 1..i
    BY <1>1, <2>1, <2>2
  <2> QED BY <2>3
<1> QED BY <1>2, <1>3, <1>4, <1>5 DEF t

\* Nothing the reader, the watcher or the transport's channels hold is an auth
\* frame, and what they are given is no hello.
LEMMA NeitherFrame ==
  /\ Auth # Hello /\ NoFrame # Hello /\ NoFrame # Auth
  /\ Auth \in Frame /\ Hello \in Frame
  /\ \A f \in HiFrame : f # Auth
  /\ \A f \in LoFrame : f # Auth /\ f # Hello
  /\ \A f \in RowFrame : f # Auth /\ f # Hello
  /\ \A n \in Nat : F("event", n) # Hello
BY FrameTypes DEF HiFrame, LoFrame, RowFrame

-----------------------------------------------------------------------------
(* The auth frame.                                                         *)

\* Where the auth frame of a connection is: in the transport's hands, first on the
\* connection, or first of what the remote received over it; and nowhere else.
InHands  == frame = Auth /\ net = <<>> /\ Current = <<>>
OnTheWay == frame # Auth /\ OneAuth(net) /\ Current = <<>>
Arrived  == frame # Auth /\ NoAuth(net) /\ OneAuth(Current)
AuthPlace == setup = "token" /\ link = "open" => InHands \/ OnTheWay \/ Arrived

\* What the remote has received over the connection, with one frame more.
LEMMA CurrentAppend ==
  ASSUME NEW r \in Seq(Frame), NEW x \in Frame, NEW m \in 0..Len(r)
  PROVE  /\ SubSeq(r, m + 1, Len(r)) \in Seq(Frame)
         /\ SubSeq(Append(r, x), m + 1, Len(Append(r, x))) = Append(SubSeq(r, m + 1, Len(r)), x)
<1> DEFINE a == Append(r, x)
           l == Len(r)
           s == SubSeq(r, m + 1, l)
           t == SubSeq(a, m + 1, l + 1)
           u == Append(s, x)
<1>1. /\ a \in Seq(Frame) /\ Len(a) = l + 1 /\ l \in Nat /\ m \in Nat /\ m <= l
      /\ \A i \in 1..l : a[i] = r[i]
      /\ a[l + 1] = x
  BY AppendElements
<1> HIDE DEF a, l
<1>2. s \in Seq(Frame) /\ Len(s) = l - m /\ \A i \in 1..l - m : s[i] = r[m + i]
  BY <1>1, SubSeqProperties DEF l
<1>3. t \in Seq(Frame) /\ Len(t) = (l - m) + 1 /\ \A i \in 1..(l - m) + 1 : t[i] = a[m + i]
  BY <1>1, SubSeqProperties
<1> HIDE DEF s, t
<1>4. /\ u \in Seq(Frame) /\ Len(u) = (l - m) + 1 /\ u[(l - m) + 1] = x
      /\ \A i \in 1..l - m : u[i] = s[i]
  BY <1>2, AppendElements, LenProperties
<1> HIDE DEF u
<1>5. ASSUME NEW i \in 1..(l - m) + 1 PROVE t[i] = u[i]
  <2>1. CASE i \in 1..l - m
    <3>1. m + i \in 1..l
      BY <1>1, <2>1
    <3> QED BY <1>1, <1>2, <1>3, <1>4, <1>5, <2>1, <3>1
  <2>2. CASE i = (l - m) + 1
    <3>1. m + i = l + 1
      BY <1>1, <2>2
    <3> QED BY <1>1, <1>3, <1>4, <1>5, <2>2, <3>1
  <2> QED BY <1>1, <2>1, <2>2
<1>6. t = u
  BY <1>3, <1>4, <1>5, SeqEqual
<1> QED BY <1>1, <1>2, <1>6 DEF a, l, s, t, u

\* The sequences these are about.
LEMMA PreambleTypes ==
  ASSUME Typed
  PROVE  /\ recv \in Seq(Frame) /\ net \in Seq(Frame) /\ hi \in Seq(HiFrame) /\ frame \in Frame
         /\ Current \in Seq(Frame) /\ mark \in 0..Len(recv)
<1>1. recv \in Seq(Frame) /\ mark \in 0..Len(recv)
  BY DEF Typed, LinkTyped
<1>2. Current \in Seq(Frame)
  BY <1>1, NeitherFrame, CurrentAppend DEF Current
<1> QED BY <1>1, <1>2 DEF Typed, LinkTyped, HiTyped, WsTyped

\* A connection is made without anything on it.
LEMMA ConnectAuth == Typed /\ Linked /\ WsConnect => AuthPlace'
<1> SUFFICES ASSUME Typed, Linked, WsConnect, setup = "token" PROVE InHands'
  BY DEF AuthPlace, WsConnect
<1>1. link # "open"
  BY DEF Linked, WsConnect
<1>2. net' = <<>> /\ frame' = Auth
  BY <1>1 DEF Linked, WsConnect
<1>3. Current' = SubSeq(recv, Len(recv) + 1, Len(recv))
  BY DEF Current, WsConnect
<1>4. Current' = <<>>
  <2>1. recv \in Seq(Frame) /\ Len(recv) \in Nat
    BY PreambleTypes, LenProperties
  <2>2. Len(recv) + 1 > Len(recv)
    BY <2>1
  <2> QED BY <1>3, <2>1, <2>2, SubSeqEmpty
<1> QED BY <1>2, <1>4 DEF InHands

\* The remote receives the first frame of the connection.
LEMMA RecvAuth == Typed /\ AuthPlace /\ RemoteRecv => AuthPlace'
<1> SUFFICES ASSUME Typed, AuthPlace, RemoteRecv, setup = "token" PROVE Arrived'
  BY DEF AuthPlace, RemoteRecv, wsVars
<1>1. InHands \/ OnTheWay \/ Arrived
  BY DEF AuthPlace, RemoteRecv
<1>2. net # <<>> /\ net' = Tail(net) /\ frame' = frame
  BY DEF RemoteRecv, wsVars
<1>3. Head(net) \in Frame
  BY <1>2, PreambleTypes, HeadTailProperties
<1>4. Current' = IF Head(net).kind = "more" THEN Current ELSE Append(Current, Head(net))
  <2>1. recv' = (IF Head(net).kind = "more" THEN recv ELSE Append(recv, Head(net))) /\ mark' = mark
    BY DEF RemoteRecv
  <2> QED BY <1>3, <2>1, PreambleTypes, CurrentAppend DEF Current
<1>5. CASE OnTheWay
  BY <1>2, <1>3, <1>4, <1>5, FrameTypes, PreambleTypes, HeadPreamble, AppendPreamble DEF OnTheWay, Arrived
<1>6. CASE Arrived
  BY <1>2, <1>3, <1>4, <1>6, PreambleTypes, HeadPreamble, AppendPreamble DEF Arrived
<1> QED BY <1>1, <1>2, <1>5, <1>6 DEF InHands

\* The transport sends the frame it has.
LEMMA SentAuth == Typed /\ AuthPlace /\ WsSent => AuthPlace'
<1> SUFFICES ASSUME Typed, AuthPlace, WsSent, setup = "token"
             PROVE  OnTheWay' \/ Arrived'
  BY DEF AuthPlace, WsSent
<1>1. InHands \/ OnTheWay \/ Arrived
  BY DEF AuthPlace, WsSent
<1>2. net' = Append(net, frame) /\ frame' # Auth /\ Current' = Current
  BY NeitherFrame DEF WsSent, Current
<1> QED BY <1>1, <1>2, PreambleTypes, AppendPreamble DEF InHands, OnTheWay, Arrived

\* The transport takes up a frame from a channel.
LEMMA SelectAuth == Typed /\ AuthPlace /\ (SelectHi \/ SelectLo) => AuthPlace'
<1> SUFFICES ASSUME Typed, AuthPlace, SelectHi \/ SelectLo, setup = "token", link = "open"
             PROVE  OnTheWay' \/ Arrived'
  BY DEF AuthPlace, SelectHi, SelectLo, linkVars
<1>1. InHands \/ OnTheWay \/ Arrived
  BY DEF AuthPlace
<1>2. net' = net /\ Current' = Current
  BY DEF SelectHi, SelectLo, linkVars, Current
<1>3. frame # Auth
  BY NeitherFrame DEF SelectHi, SelectLo, Selecting, Typed, WsTyped
<1>4. frame' # Auth
  <2>1. CASE SelectHi
    <3>1. frame' = Head(hi) /\ hi # <<>>
      BY <2>1 DEF SelectHi
    <3>2. Head(hi) \in HiFrame
      BY <3>1, HeadTailProperties DEF Typed, HiTyped
    <3> QED BY <3>1, <3>2, NeitherFrame
  <2>2. CASE SelectLo
    <3>1. frame' = Head(lo) /\ lo # <<>>
      BY <2>2 DEF SelectLo
    <3>2. Head(lo) \in LoFrame
      BY <3>1, HeadTailProperties DEF Typed, LoTyped
    <3> QED BY <3>1, <3>2, NeitherFrame
  <2> QED BY <2>1, <2>2
<1> QED BY <1>1, <1>2, <1>3, <1>4 DEF InHands, OnTheWay, Arrived

\* Everything else leaves an open connection and the frame in hand alone.
LEMMA StepAuth == Typed /\ Linked /\ AuthPlace /\ Next => AuthPlace'
<1> SUFFICES ASSUME Typed, Linked, AuthPlace, Next PROVE AuthPlace'
  OBVIOUS
<1>1. CASE WsConnect \/ RemoteRecv \/ WsSent \/ SelectHi \/ SelectLo
  BY <1>1, ConnectAuth, RecvAuth, SentAuth, SelectAuth
<1>2. CASE WsCancelled \/ SelectClosed \/ WsSendFails \/ MainClose \/ Break \/ WsSentInVain
  BY <1>2 DEF WsCancelled, SelectClosed, WsSendFails, MainClose, Break, WsSentInVain, Unlink,
              linkVars, AuthPlace
<1>3. CASE ~(\/ WsConnect \/ RemoteRecv \/ WsSent \/ SelectHi \/ SelectLo
             \/ WsCancelled \/ SelectClosed \/ WsSendFails \/ MainClose \/ Break \/ WsSentInVain)
  <2>1. UNCHANGED <<link, net, recv, mark>>
    BY <1>3, LinkSteps DEF linkVars, SelectInbound, RemoteSend
  <2>2. UNCHANGED <<frame, setup>>
    BY <1>3, WsSteps DEF wsVars, WsStep, WsStart, WsRefuses, WsConnectFails, SelectInbound, WsHandOn
  <2> QED BY <2>1, <2>2 DEF AuthPlace, InHands, OnTheWay, Arrived, Current
<1> QED BY <1>1, <1>2, <1>3

-----------------------------------------------------------------------------
(* The hello.                                                              *)

\* Where the hello is on the first connection, with nothing but auth frames before
\* it: received, on its way, in the transport's hands, or first in hi.
HelloNext == hi # <<>> /\ Head(hi) = Hello
HelloPlace ==
  \/ HasHello(recv)
  \/ OnlyAuth(recv) /\ HelloLeads(net) /\ HasHello(net)
  \/ OnlyAuth(recv) /\ OnlyAuth(net) /\ frame = Hello
  \/ OnlyAuth(recv) /\ OnlyAuth(net) /\ frame \in {Auth, NoFrame} /\ HelloNext
HelloLine ==
  breaks = 0 =>
    /\ HelloLeads(recv)
    /\ link = "open" => HelloPlace
    /\ link = "none" /\ WsRuns /\ ws # "done" => OnlyAuth(recv) /\ HelloNext

\* The remote receives what is first on the connection.
LEMMA RecvHello == Typed /\ HelloLine /\ RemoteRecv => HelloLine'
<1> SUFFICES ASSUME Typed, HelloLine, RemoteRecv, breaks = 0
             PROVE  HelloLeads(recv') /\ HelloPlace' /\ link' = "open"
  BY DEF HelloLine, RemoteRecv
<1>1. /\ net # <<>> /\ net' = Tail(net) /\ link' = "open"
      /\ recv' = IF Head(net).kind = "more" THEN recv ELSE Append(recv, Head(net))
      /\ UNCHANGED <<frame, hi>>
  BY DEF RemoteRecv, wsVars, chans
<1>2. HelloLeads(recv) /\ HelloPlace
  BY DEF HelloLine, RemoteRecv
<1> DEFINE h == Head(net)
           r == Append(recv, h)
<1>3. h \in Frame
  BY <1>1, PreambleTypes, HeadTailProperties
<1>4. h.kind = "more" => h \notin {Auth, Hello}
  BY FrameTypes
<1>5. /\ OnlyAuth(r) <=> OnlyAuth(recv) /\ h = Auth
      /\ HasHello(r) <=> HasHello(recv) \/ h = Hello
      /\ HelloLeads(recv) /\ (HasHello(recv) \/ h \in {Auth, Hello}) => HelloLeads(r)
  BY <1>3, PreambleTypes, AppendPreamble
<1>6. /\ OnlyAuth(net) => h = Auth /\ OnlyAuth(net')
      /\ HelloLeads(net) => h \in {Auth, Hello}
      /\ HelloLeads(net) /\ h = Auth => HelloLeads(net')
      /\ HasHello(net) => h = Hello \/ HasHello(net')
  BY <1>1, PreambleTypes, HeadPreamble
<1>7. HelloNext => HelloNext'
  BY <1>1 DEF HelloNext
<1>8. recv' \in {recv, r} /\ (h \in {Auth, Hello} => recv' = r)
  BY <1>1, <1>4
<1> HIDE DEF h, r
<1> QED BY <1>1, <1>2, <1>5, <1>6, <1>7, <1>8 DEF HelloPlace

\* The transport sends what it has.
LEMMA SentHello == Typed /\ HelloLine /\ WsSent => HelloLine'
<1> SUFFICES ASSUME Typed, HelloLine, WsSent, breaks = 0
             PROVE  HelloLeads(recv') /\ HelloPlace' /\ link' = "open"
  BY DEF HelloLine, WsSent
<1>1. net' = Append(net, frame) /\ frame' = NoFrame /\ frame # NoFrame /\ UNCHANGED <<recv, hi>>
      /\ link' = "open"
  BY DEF WsSent, chans, Typed, WsTyped
<1>2. HelloLeads(recv) /\ HelloPlace
  BY DEF HelloLine, WsSent
<1>3. /\ OnlyAuth(net') <=> OnlyAuth(net) /\ frame = Auth
      /\ HasHello(net') <=> HasHello(net) \/ frame = Hello
      /\ HelloLeads(net) /\ (HasHello(net) \/ frame \in {Auth, Hello}) => HelloLeads(net')
      /\ OnlyAuth(net) => HelloLeads(net)
  BY <1>1, PreambleTypes, AppendPreamble
<1>4. HelloNext => HelloNext'
  BY <1>1 DEF HelloNext
<1> QED BY <1>1, <1>2, <1>3, <1>4 DEF HelloPlace

\* The transport takes up a frame: the hello before anything else.
LEMMA TakeHello == Typed /\ Linked /\ HelloLine /\ (SelectHi \/ SelectLo) => HelloLine'
<1> SUFFICES ASSUME Typed, Linked, HelloLine, SelectHi \/ SelectLo, breaks = 0
             PROVE  HelloLeads(recv') /\ HelloPlace' /\ link' = "open"
  BY DEF HelloLine, SelectHi, SelectLo, linkVars
<1>1. UNCHANGED <<recv, net, link>> /\ ws = "up" /\ WsRuns
  BY DEF SelectHi, SelectLo, Selecting, linkVars
<1>2. link = "open" /\ frame = NoFrame
  BY <1>1 DEF Linked, Typed, LinkTyped, WsTyped
<1>3. HelloLeads(recv) /\ HelloPlace
  BY <1>2 DEF HelloLine
<1>4. HelloNext => frame' = Hello
  BY DEF SelectHi, SelectLo, HelloNext
<1> QED BY <1>1, <1>2, <1>3, <1>4, NeitherFrame DEF HelloPlace

\* A frame is put into hi, behind the hello if that is still there.
LEMMA AddHello == HelloLine /\ Typed /\ (ReadChunk \/ WatchSend) => HelloLine'
<1> SUFFICES ASSUME HelloLine, Typed, ReadChunk \/ WatchSend PROVE HelloLine'
  OBVIOUS
<1>1. UNCHANGED <<recv, net, frame, link, breaks, ws, main>> /\ hi \in Seq(HiFrame)
  BY DEF ReadChunk, WatchSend, linkVars, wsVars, mainVars, Typed, HiTyped
<1>2. hi' = hi \/ \E x \in HiFrame : hi' = Append(hi, x)
  <2>1. CASE ReadChunk
    <3>1. pty # <<>> /\ hi' = IF pty[1].event THEN TryAdd(hi, HiCap, F("event", pty[1].n)) ELSE hi
      BY <2>1 DEF ReadChunk
    <3>2. F("event", pty[1].n) \in HiFrame
      BY <3>1, ChunkType, FrameTypes DEF Typed
    <3> QED BY <3>1, <3>2 DEF TryAdd
  <2>2. CASE WatchSend
    <3>1. batch # <<>> /\ batch \in Seq(RowFrame) /\ hi' = Append(hi, Head(batch))
      BY <2>2 DEF WatchSend, Typed, RowsTyped
    <3>2. Head(batch) \in RowFrame
      BY <3>1, HeadTailProperties
    <3> QED BY <3>1, <3>2, FrameTypes
  <2> QED BY <2>1, <2>2
<1>3. HelloNext => HelloNext'
  <2> SUFFICES ASSUME HelloNext, NEW x \in HiFrame, hi' = Append(hi, x) PROVE HelloNext'
    BY <1>2 DEF HelloNext
  <2>1. hi # <<>> /\ Head(hi) = Hello
    BY DEF HelloNext
  <2>2. Head(hi) = hi[1] /\ 1 \in DOMAIN hi /\ Append(hi, x) \in Seq(HiFrame)
    BY <1>1, <2>1, TailElements, AppendElements
  <2>3. Append(hi, x)[1] = hi[1] /\ Append(hi, x) # <<>>
    BY <1>1, <2>2, AppendElements, AppendProperties
  <2>4. Head(Append(hi, x)) = Append(hi, x)[1]
    BY <2>2, <2>3, TailElements
  <2> QED BY <2>1, <2>2, <2>3, <2>4 DEF HelloNext
<1> QED BY <1>1, <1>3 DEF HelloLine, HelloPlace, WsRuns

\* The first connection is made with the hello still first in hi.
LEMMA ConnectHello == Typed /\ Linked /\ HelloLine /\ WsConnect => HelloLine'
<1> SUFFICES ASSUME Typed, Linked, HelloLine, WsConnect, breaks = 0
             PROVE  HelloLeads(recv') /\ HelloPlace' /\ link' = "open"
  BY DEF HelloLine, WsConnect
<1>1. WsRuns /\ ws = "connecting" /\ frame' \in {frame, Auth} /\ UNCHANGED <<recv, net, hi>> /\ link' = "open"
  BY DEF WsConnect, chans
<1>2. link = "none" /\ net = <<>> /\ frame = NoFrame
  BY <1>1 DEF Linked, Typed, LinkTyped, WsTyped
<1>3. HelloLeads(recv) /\ OnlyAuth(recv) /\ HelloNext
  BY <1>1, <1>2 DEF HelloLine
<1> QED BY <1>1, <1>2, <1>3, EmptyPreamble DEF HelloPlace, HelloNext

\* Every step keeps the hello in its place, or ends the first connection.
LEMMA StepHello == Typed /\ Linked /\ Linked' /\ HelloLine /\ Next => HelloLine'
<1> SUFFICES ASSUME Typed, Linked, Linked', HelloLine, Next PROVE HelloLine'
  OBVIOUS
<1>1. CASE RemoteRecv \/ WsSent \/ SelectHi \/ SelectLo \/ ReadChunk \/ WatchSend \/ WsConnect
  BY <1>1, RecvHello, SentHello, TakeHello, AddHello, ConnectHello
<1>2. CASE Break \/ SelectClosed \/ WsSendFails \/ WsSentInVain
  <2>1. breaks' # 0
    <3>1. CASE Break
      BY <3>1, BreakCounts DEF Typed, LinkTyped
    <3>2. CASE SelectClosed \/ WsSendFails \/ WsSentInVain
      BY <3>2 DEF SelectClosed, WsSendFails, WsSentInVain, Unlink, Linked, linkVars
    <3> QED BY <1>2, <3>1, <3>2
  <2> QED BY <2>1 DEF HelloLine
<1>3. CASE WsCancelled \/ WsRefuses \/ MainClose
  <2>1. breaks' = breaks /\ recv' = recv /\ ~(WsRuns' /\ ws' # "done")
    BY <1>3 DEF WsCancelled, WsRefuses, MainClose, Unlink, WsRuns, linkVars
  <2>2. link' # "open"
    BY <2>1 DEF Linked
  <2> QED BY <2>1, <2>2 DEF HelloLine
<1>4. CASE ~(\/ RemoteRecv \/ WsSent \/ SelectHi \/ SelectLo \/ ReadChunk \/ WatchSend \/ WsConnect
             \/ Break \/ SelectClosed \/ WsSendFails \/ WsSentInVain
             \/ WsCancelled \/ WsRefuses \/ MainClose)
  <2>1. UNCHANGED <<recv, net, link, breaks>>
    BY <1>4, LinkSteps DEF linkVars, SelectInbound, RemoteSend
  <2>2. hi' = hi
    BY <1>4, ChanSteps
  <2>3. frame' = frame
    BY <1>4, WsSteps DEF wsVars, WsStep, WsStart, WsConnectFails, SelectInbound, WsHandOn
  <2>4. HelloNext' = HelloNext
    BY <2>2 DEF HelloNext
  <2>5. HelloPlace' = HelloPlace
    BY <2>1, <2>3, <2>4 DEF HelloPlace
  <2> QED BY <2>1, <2>4, <2>5, StillRuns DEF HelloLine
<1> QED BY <1>1, <1>2, <1>3, <1>4

-----------------------------------------------------------------------------
PInv == Linked /\ AuthPlace /\ HelloLine

\* Before anything happened the hello is alone in hi.
LEMMA InitPreamble == Init => PInv
<1> SUFFICES ASSUME Init PROVE PInv
  OBVIOUS
<1>1. Linked /\ AuthPlace
  BY DEF Init, Linked, WsRuns, AuthPlace
<1>2. <<Hello>> # <<>> /\ Head(<<Hello>>) = Hello
  OBVIOUS
<1>3. HelloLine
  BY <1>2, EmptyPreamble DEF Init, HelloLine, HelloNext
<1> QED BY <1>1, <1>3 DEF PInv

\* The invariant gives the property.
LEMMA PInvPreamble == Typed /\ PInv => Preamble
<1> SUFFICES ASSUME Typed, PInv PROVE Preamble
  OBVIOUS
<1>1. breaks = 0 => HelloLeads(recv)
  BY DEF PInv, HelloLine
<1>2. setup = "token" /\ link = "open" => \A i \in DOMAIN Current : Current[i] = Auth <=> i = 1
  <2>1. Current = <<>> => DOMAIN Current = {}
    OBVIOUS
  <2> QED BY <2>1 DEF PInv, AuthPlace, InHands, OnTheWay, Arrived, OneAuth
<1> QED BY <1>1, <1>2 DEF Preamble

\* With a token every connection begins with the auth frame and has only that one,
\* however connections fail while it is being sent, and the first connection
\* announces the agent before it tells anything else.
THEOREM BeginsProperly == Spec => []Preamble
<1>1. Init => Typed /\ PInv
  BY InitTyped, InitPreamble
<1>2. Typed /\ PInv /\ [Next]_vars => (Typed /\ PInv)'
  <2> SUFFICES ASSUME Typed, PInv, [Next]_vars PROVE (Typed /\ PInv)'
    OBVIOUS
  <2>1. Typed'
    BY StepTyped
  <2>2. CASE Next
    <3>1. Linked'
      BY <2>2, LinkedStep DEF PInv, Typed, LinkTyped
    <3>2. AuthPlace' /\ HelloLine'
      BY <2>2, <3>1, StepAuth, StepHello DEF PInv
    <3> QED BY <2>1, <3>1, <3>2 DEF PInv
  <2>3. CASE UNCHANGED vars
    <3>1. Linked'
      BY <2>3 DEF vars, wsVars, linkVars, mainVars, PInv, Linked, WsRuns
    <3>2. AuthPlace' /\ HelloLine'
      BY <2>3 DEF vars, wsVars, linkVars, mainVars, chans, PInv, AuthPlace, InHands, OnTheWay, Arrived,
                  Current, HelloLine, HelloPlace, HelloNext, WsRuns
    <3> QED BY <2>1, <3>1, <3>2 DEF PInv
  <2> QED BY <2>2, <2>3
<1> QED BY <1>1, <1>2, PInvPreamble, PTL DEF Spec

=============================================================================
