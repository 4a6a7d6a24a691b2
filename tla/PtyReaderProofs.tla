-------------------------- MODULE PtyReaderProofs --------------------------
(***************************************************************************)
(* For every alphabet, every repertoire of items and every size of the     *)
(* read buffer: the reader is well typed, an open sequence never collects  *)
(* what would have ended it, a turn's end is signalled once, and channel 1 *)
(* carries the text of what was read, wherever the reads cut it.           *)
(***************************************************************************)
EXTENDS PtyReader, FiniteSetTheorems, SequenceTheorems, WellFoundedInduction, TLAPS

\* What After makes of a parser is a parser.
LEMMA AfterTyped ==
  ASSUME NEW p \in Parser, NEW b \in Token
  PROVE  After(p, b) \in Parser
<1>1. Fresh \in Parser
  BY DEF Fresh, Parser
<1>2. [st |-> "Osc", buf |-> <<>>] \in Parser /\ [st |-> "Dcs", buf |-> <<>>] \in Parser
  BY DEF Parser
<1>3. [p EXCEPT !.st = "Esc"] \in Parser /\ [p EXCEPT !.st = "Ground"] \in Parser
  BY DEF Parser
<1>4. [p EXCEPT !.buf = Append(@, b)] \in Parser
  BY DEF Parser
<1>5. FromGround(p, b) \in Parser
  BY <1>3 DEF FromGround
<1>6. FromEsc(p, b) \in Parser
  BY <1>2, <1>3 DEF FromEsc
<1>7. InBody(p, b) \in Parser
  BY <1>1, <1>4 DEF InBody
<1> QED
  BY <1>5, <1>6, <1>7 DEF After

\* What the reader sends on channel 3 and remembers is a message and a state.
LEMMA OutgoingTyped ==
  ASSUME NEW e
  PROVE  StateIn(e) \in State \cup {None} /\ Outgoing(e) \in Seq(Message)
<1>1. \A s : StateOf(s) \in State \cup {None}
  BY DEF StateOf
<1>2. StateIn(e) \in State \cup {None}
  BY <1>1 DEF StateIn
<1>3. \A m \in Message : <<m>> \in Seq(Message)
  OBVIOUS
<1>4. "notify" \in Message /\ State \subseteq Message
  BY DEF Message
<1>5. CASE e.t = "bell"
  BY <1>2, <1>3, <1>4, <1>5 DEF Outgoing
<1>6. CASE e.t # "bell" /\ StateIn(e) # None
  BY <1>2, <1>3, <1>4, <1>6 DEF Outgoing
<1>7. CASE e.t # "bell" /\ StateIn(e) = None
  BY <1>2, <1>7 DEF Outgoing
<1> QED
  BY <1>5, <1>6, <1>7

\* A byte that does not end a body leaves it without its end.
LEMMA AppendOpen ==
  ASSUME NEW s \in Seq(Token), NEW b \in Token, NoStIn(s),
         ~(b = "\\" /\ s # <<>> /\ s[Len(s)] = ESC)
  PROVE  NoStIn(Append(s, b))
<1> SUFFICES ASSUME NEW i \in 2..Len(Append(s, b)),
                    Append(s, b)[i] = "\\" /\ Append(s, b)[i - 1] = ESC
             PROVE  FALSE
  BY DEF NoStIn
<1>1. Len(Append(s, b)) = Len(s) + 1 /\ i - 1 \in 1..Len(s) /\ Len(s) \in Nat
  OBVIOUS
<1>2. Append(s, b)[i - 1] = s[i - 1]
  BY <1>1
<1>3. CASE i <= Len(s)
  BY <1>1, <1>2, <1>3 DEF NoStIn
<1>4. CASE i = Len(s) + 1
  BY <1>1, <1>2, <1>4
<1> QED
  BY <1>1, <1>3, <1>4

\* So appending keeps a body open, in an OSC and in a DCS.
LEMMA AfterOpen ==
  ASSUME NEW p \in Parser, NEW b \in Token, Open(p)
  PROVE  Open(After(p, b))
<1>1. Open(Fresh) /\ Open([st |-> "Osc", buf |-> <<>>]) /\ Open([st |-> "Dcs", buf |-> <<>>])
  BY DEF Open, Fresh, NoStIn, NoBelIn
<1>2. Open([p EXCEPT !.st = "Esc"]) /\ Open([p EXCEPT !.st = "Ground"])
  BY DEF Open, Parser
<1>3. ASSUME p.st \in {"Osc", "Dcs"}, ~EndsOsc(p, b), ~EndsDcs(p, b)
      PROVE  Open([p EXCEPT !.buf = Append(@, b)])
  <2>1. p.buf \in Seq(Token) /\ NoStIn(p.buf)
    BY <1>3 DEF Parser, Open
  <2>2. StBegun(p) <=> (p.buf # <<>> /\ p.buf[Len(p.buf)] = ESC)
    BY DEF StBegun, Last
  <2>3. NoStIn(Append(p.buf, b))
    BY <1>3, <2>1, <2>2, AppendOpen DEF EndsOsc, EndsDcs
  <2>4. ASSUME p.st = "Osc" PROVE NoBelIn(Append(p.buf, b))
    BY <1>3, <2>1, <2>4 DEF Open, NoBelIn, EndsOsc
  <2> QED
    BY <1>3, <2>1, <2>3, <2>4 DEF Open, Parser
<1>4. Open(FromGround(p, b)) /\ Open(FromEsc(p, b))
  BY <1>1, <1>2 DEF FromGround, FromEsc
<1>5. ASSUME p.st \in {"Osc", "Dcs"} PROVE Open(InBody(p, b))
  BY <1>1, <1>3, <1>5 DEF InBody
<1> QED
  BY <1>4, <1>5 DEF After, Parser

\* Both parts of the invariant, a step at a time.
LEMMA StepTyped == ASSUME ReaderAssumption, TypeOK, [Next]_vars PROVE TypeOK'
<1> USE DEF TypeOK
<1>1. CASE Write
  <2>1. PICK it \in Item : written' = Append(written, it) /\ unread' = unread \o it.bytes
    BY <1>1 DEF Write
  <2>2. it.bytes \in Seq(Token)
    BY DEF ReaderAssumption
  <2>3. written' \in Seq(Item) /\ unread' \in Seq(Token)
    BY <2>1, <2>2
  <2> QED
    BY <2>3, <1>1 DEF Write
<1>2. CASE Read
  <2>1. PICK n \in 1..Buf : /\ n <= Len(unread)
                            /\ chunk' = SubSeq(unread, 1, n)
                            /\ unread' = SubSeq(unread, n + 1, Len(unread))
    BY <1>2 DEF Read
  <2>2. chunk' \in Seq(Token) /\ unread' \in Seq(Token)
    BY <2>1 DEF ReaderAssumption
  <2> QED
    BY <2>2, <1>2 DEF Read
<1>3. CASE ParseByte
  <2>1. Head(chunk) \in Token /\ Tail(chunk) \in Seq(Token)
    BY <1>3 DEF ParseByte
  <2>2. parser' \in Parser
    BY <1>3, <2>1, AfterTyped DEF ParseByte
  <2> QED
    BY <1>3, <2>1, <2>2 DEF ParseByte
<1>4. CASE Dispatch
  <2>1. /\ StateIn(Head(found)) \in State \cup {None}
        /\ Outgoing(Head(found)) \in Seq(Message)
    BY OutgoingTyped
  <2>2. /\ prev' = IF StateIn(Head(found)) = None THEN prev ELSE StateIn(Head(found))
        /\ refreshes' = IF TurnEnd(prev, StateIn(Head(found))) THEN refreshes + 1 ELSE refreshes
        /\ hi' = hi \o Outgoing(Head(found))
        /\ UNCHANGED <<written, unread, parser, chunk>>
    BY <1>4 DEF Dispatch
  <2>3. hi' \in Seq(Message) /\ refreshes' \in Nat /\ prev' \in State \cup {None}
    BY <2>1, <2>2
  <2> QED
    BY <2>2, <2>3
<1>5. CASE UNCHANGED vars
  BY <1>5 DEF vars
<1> QED
  BY <1>1, <1>2, <1>3, <1>4, <1>5 DEF Next

\* The steps leave an open body without its end.
LEMMA StepOpen == ASSUME TypeOK, BodyOpen, [Next]_vars PROVE BodyOpen'
<1>1. CASE ParseByte
  <2>1. Head(chunk) \in Token /\ parser \in Parser
    BY <1>1 DEF ParseByte, TypeOK
  <2>2. Open(After(parser, Head(chunk)))
    BY <2>1, AfterOpen DEF BodyOpen
  <2> QED
    BY <2>2, <1>1 DEF ParseByte, BodyOpen
<1>2. CASE Write \/ Read \/ Dispatch \/ UNCHANGED vars
  <2>1. parser' = parser
    BY <1>2 DEF Write, Read, Dispatch, vars
  <2> QED
    BY <2>1 DEF BodyOpen
<1> QED
  BY <1>1, <1>2 DEF Next

\* The reader's state is well typed in every behaviour.
THEOREM ReaderTyped == Spec => []TypeOK
<1>1. Init => TypeOK
  BY DEF Init, TypeOK, Fresh, Parser
<1>2. TypeOK /\ [Next]_vars => TypeOK'
  BY StepTyped, ReaderAssumption
<1> QED
  BY <1>1, <1>2, PTL DEF Spec

\* However reads cut the output, an open OSC or DCS never holds its terminator:
\* its end is always noticed at the byte that completes it.
THEOREM EndNoticed == Spec => []BodyOpen
<1>1. Init => BodyOpen
  BY DEF Init, BodyOpen, Open, Fresh
<1>2. TypeOK /\ BodyOpen /\ [Next]_vars => BodyOpen'
  BY StepOpen
<1> QED
  BY <1>1, <1>2, ReaderTyped, PTL DEF Spec

-----------------------------------------------------------------------------
(* The end of a turn.                                                      *)

\* prev_state is the last state sent on channel 3, bells aside.
PrevIsLast ==
  \/ prev = None /\ \A i \in DOMAIN hi : hi[i] = "notify"
  \/ /\ prev \in State
     /\ \E j \in DOMAIN hi : hi[j] = prev /\ \A k \in j + 1..Len(hi) : hi[k] = "notify"

Ends(msgs) == {i \in DOMAIN msgs : EndsTurn(msgs, i)}

\* A message more leaves the turns before it ended as they were.
LEMMA EndsAppended ==
  ASSUME NEW msgs \in Seq(Message), NEW m \in Message
  PROVE  Ends(Append(msgs, m)) =
           Ends(msgs) \cup (IF EndsTurn(Append(msgs, m), Len(msgs) + 1) THEN {Len(msgs) + 1} ELSE {})
<1> PICK more : more = Append(msgs, m)
  OBVIOUS
<1>1. /\ Len(msgs) \in Nat /\ DOMAIN msgs = 1..Len(msgs) /\ DOMAIN more = 1..Len(msgs) + 1
      /\ \A i \in 1..Len(msgs) : more[i] = msgs[i]
  OBVIOUS
<1>2. \A i \in DOMAIN msgs : EndsTurn(more, i) <=> EndsTurn(msgs, i)
  BY <1>1 DEF EndsTurn
<1>3. DOMAIN more = DOMAIN msgs \cup {Len(msgs) + 1}
  BY <1>1
<1> QED BY <1>2, <1>3 DEF Ends

\* The ends of turns are finitely many.
LEMMA EndsFinite ==
  ASSUME NEW msgs \in Seq(Message)
  PROVE  /\ IsFiniteSet(Ends(msgs)) /\ Len(msgs) + 1 \notin Ends(msgs)
         /\ TurnEnds(msgs) = Cardinality(Ends(msgs))
<1>1. Len(msgs) \in Nat /\ Ends(msgs) \in SUBSET (1..Len(msgs))
  BY DEF Ends
<1>2. IsFiniteSet(1..Len(msgs))
  BY <1>1, FS_Interval
<1> QED BY <1>1, <1>2, FS_Subset DEF TurnEnds, Ends

\* The message after which the reader pokes the watcher is the one that ends a
\* turn of what channel 3 says.
LEMMA DispatchSignals ==
  ASSUME TypeOK, PrevIsLast, TurnEndsSignalled, Dispatch
  PROVE  PrevIsLast' /\ TurnEndsSignalled'
<1> PICK e : e = Head(found)
  OBVIOUS
<1> PICK s : s = StateIn(e)
  OBVIOUS
<1>1. /\ prev' = IF s = None THEN prev ELSE s
      /\ refreshes' = IF TurnEnd(prev, s) THEN refreshes + 1 ELSE refreshes
      /\ hi' = hi \o Outgoing(e)
  BY DEF Dispatch
<1>2. /\ s \in State \cup {None} /\ None \notin State /\ "notify" \notin State
      /\ hi \in Seq(Message) /\ Len(hi) \in Nat /\ DOMAIN hi = 1..Len(hi)
      /\ "notify" \in Message /\ State \subseteq Message
  BY OutgoingTyped DEF TypeOK, State, None, Message
<1>3. CASE e.t = "bell" \/ s # None
  <2> PICK m : m = IF e.t = "bell" THEN "notify" ELSE s
    OBVIOUS
  <2>0. e.t = "bell" => s = None
    BY DEF StateIn
  <2>1. Outgoing(e) = <<m>> /\ m \in Message
    BY <1>2, <1>3 DEF Outgoing
  <2>2. hi' = Append(hi, m) /\ hi' \in Seq(Message)
    <3>1. Append(hi, m) = hi \o <<m>> /\ Append(hi, m) \in Seq(Message)
      BY <1>2, <2>1, AppendIsConcat, AppendProperties
    <3> QED BY <1>1, <2>1, <3>1
  <2>3. /\ Len(hi') = Len(hi) + 1 /\ hi'[Len(hi) + 1] = m
        /\ \A i \in 1..Len(hi) : hi'[i] = hi[i]
    BY <1>2, <2>2
  <2>4. EndsTurn(hi', Len(hi) + 1) <=> TurnEnd(prev, s)
    <3>1. CASE m = "notify"
      <4>1. s = None
        BY <1>2, <1>3, <2>0, <3>1
      <4> QED BY <1>2, <2>3, <3>1, <4>1 DEF EndsTurn, TurnEnd, None
    <3>2. CASE m # "notify" /\ prev = None
      <4>1. \A i \in 1..Len(hi) : hi[i] = "notify"
        BY <1>2, <3>2 DEF PrevIsLast
      <4>2. ~TurnEnd(prev, s)
        BY <3>2 DEF TurnEnd, None
      <4>3. ASSUME NEW j \in 1..(Len(hi) + 1) - 1, TurnEnd(hi'[j], hi'[Len(hi) + 1]) PROVE FALSE
        BY <1>2, <2>3, <4>1, <4>3 DEF TurnEnd
      <4> QED BY <4>2, <4>3 DEF EndsTurn
    <3>3. CASE m # "notify" /\ prev # None
      <4>1. m = s
        BY <3>3
      <4>2. PICK j \in DOMAIN hi : hi[j] = prev /\ \A k \in j + 1..Len(hi) : hi[k] = "notify"
        BY <3>3 DEF PrevIsLast
      <4>3. j \in 1..(Len(hi) + 1) - 1 /\ hi'[j] = prev /\ \A k \in j + 1..(Len(hi) + 1) - 1 : hi'[k] = "notify"
        BY <1>2, <2>3, <4>2
      <4>4. ASSUME NEW i \in 1..(Len(hi) + 1) - 1, TurnEnd(hi'[i], s),
                   \A k \in i + 1..(Len(hi) + 1) - 1 : hi'[k] = "notify"
            PROVE  TurnEnd(prev, s)
        <5>1. hi'[i] = "Working"
          BY <4>4 DEF TurnEnd
        <5>2. prev # "notify"
          BY <1>2, <3>3 DEF PrevIsLast
        <5>3. ~(j < i) /\ ~(i < j)
          BY <1>2, <4>3, <4>4, <5>1, <5>2
        <5>4. i = j
          BY <1>2, <5>3
        <5> QED BY <4>3, <4>4, <5>4
      <4>5. TurnEnd(prev, s) => EndsTurn(hi', Len(hi) + 1)
        BY <2>3, <4>1, <4>3 DEF EndsTurn
      <4>6. EndsTurn(hi', Len(hi) + 1) => TurnEnd(prev, s)
        BY <2>3, <4>1, <4>4 DEF EndsTurn
      <4> QED BY <4>5, <4>6
    <3> QED BY <3>1, <3>2, <3>3
  <2>5. TurnEndsSignalled'
    <3>1. /\ IsFiniteSet(Ends(hi)) /\ Len(hi) + 1 \notin Ends(hi)
          /\ TurnEnds(hi) = Cardinality(Ends(hi)) /\ TurnEnds(hi') = Cardinality(Ends(hi'))
      BY <1>2, <2>2, EndsFinite
    <3>2. Ends(hi') = Ends(hi) \cup (IF EndsTurn(hi', Len(hi) + 1) THEN {Len(hi) + 1} ELSE {})
      BY <1>2, <2>1, <2>2, EndsAppended
    <3>3. CASE TurnEnd(prev, s)
      <4>1. Ends(hi') = Ends(hi) \cup {Len(hi) + 1}
        BY <2>4, <3>2, <3>3
      <4>2. Cardinality(Ends(hi')) = Cardinality(Ends(hi)) + 1
        BY <3>1, <4>1, FS_AddElement
      <4> QED BY <1>1, <3>1, <3>3, <4>2 DEF TurnEndsSignalled
    <3>4. CASE ~TurnEnd(prev, s)
      <4>1. Ends(hi') = Ends(hi)
        BY <2>4, <3>2, <3>4
      <4> QED BY <1>1, <3>1, <3>4, <4>1 DEF TurnEndsSignalled
    <3> QED BY <3>3, <3>4
  <2>6. PrevIsLast'
    <3>0. DOMAIN hi' = 1..Len(hi) + 1
      BY <2>2, <2>3
    <3>1. CASE s # None
      <4>1. m = s /\ prev' = s /\ s \in State
        BY <1>1, <1>2, <2>0, <3>1
      <4>2. Len(hi) + 1 \in DOMAIN hi' /\ hi'[Len(hi) + 1] = prev'
            /\ \A k \in (Len(hi) + 1) + 1..Len(hi') : hi'[k] = "notify"
        BY <1>2, <2>3, <3>0, <4>1
      <4> QED BY <4>1, <4>2 DEF PrevIsLast
    <3>2. CASE s = None
      <4>1. m = "notify" /\ prev' = prev
        BY <1>1, <1>3, <3>2
      <4>2. CASE prev = None /\ \A i \in DOMAIN hi : hi[i] = "notify"
        <5>1. \A i \in DOMAIN hi' : hi'[i] = "notify"
          BY <1>2, <2>3, <3>0, <4>1, <4>2
        <5> QED BY <4>1, <4>2, <5>1 DEF PrevIsLast
      <4>3. ASSUME prev \in State, NEW j \in DOMAIN hi,
                   hi[j] = prev, \A k \in j + 1..Len(hi) : hi[k] = "notify"
            PROVE  PrevIsLast'
        <5>1. j \in DOMAIN hi' /\ hi'[j] = prev' /\ \A k \in j + 1..Len(hi') : hi'[k] = "notify"
          BY <1>2, <2>3, <3>0, <4>1, <4>3
        <5> QED BY <4>1, <4>3, <5>1 DEF PrevIsLast
      <4> QED BY <4>2, <4>3 DEF PrevIsLast
    <3> QED BY <3>1, <3>2
  <2> QED BY <2>5, <2>6
<1>4. CASE e.t # "bell" /\ s = None
  <2>1. Outgoing(e) = <<>>
    BY <1>4 DEF Outgoing
  <2>2. hi' = hi /\ prev' = prev
    <3>1. hi \o <<>> = hi
      BY <1>2, ConcatEmptySeq
    <3> QED BY <1>1, <1>4, <2>1, <3>1
  <2>3. ~TurnEnd(prev, s)
    BY <1>4 DEF TurnEnd, None
  <2>4. refreshes' = refreshes
    BY <1>1, <2>3
  <2>5. PrevIsLast'
    BY <2>2 DEF PrevIsLast
  <2>6. TurnEndsSignalled'
    BY <2>2, <2>4 DEF TurnEndsSignalled
  <2> QED BY <2>5, <2>6
<1> QED BY <1>3, <1>4

\* The steps poke the watcher once per turn.
LEMMA StepSignals ==
  ASSUME TypeOK, PrevIsLast, TurnEndsSignalled, [Next]_vars
  PROVE  PrevIsLast' /\ TurnEndsSignalled'
<1>1. CASE Write \/ Read \/ ParseByte \/ UNCHANGED vars
  <2>1. UNCHANGED <<prev, hi, refreshes>>
    BY <1>1 DEF Write, Read, ParseByte, vars
  <2> QED BY <2>1 DEF PrevIsLast, TurnEndsSignalled
<1> QED BY <1>1, DispatchSignals DEF Next

\* The watcher is poked exactly as often as channel 3 says that a turn has ended,
\* with whatever bells and unknown states between.
THEOREM PokedOncePerTurn == Spec => []TurnEndsSignalled
<1>1. Init => PrevIsLast /\ TurnEndsSignalled
  <2> SUFFICES ASSUME Init PROVE PrevIsLast /\ TurnEndsSignalled
    OBVIOUS
  <2>1. hi = <<>> /\ prev = None /\ refreshes = 0
    BY DEF Init
  <2>2. {i \in DOMAIN hi : EndsTurn(hi, i)} = {}
    BY <2>1
  <2> QED BY <2>1, <2>2, FS_EmptySet DEF PrevIsLast, TurnEndsSignalled, TurnEnds
<1>2. TypeOK /\ PrevIsLast /\ TurnEndsSignalled /\ [Next]_vars => (PrevIsLast /\ TurnEndsSignalled)'
  BY StepSignals
<1> QED BY <1>1, <1>2, ReaderTyped, PTL DEF Spec

-----------------------------------------------------------------------------
(* Induction and recursion over the naturals, which are well-founded.      *)

\* A set that has each natural that all smaller ones are in has them all.
LEMMA Induct ==
  ASSUME NEW S, \A n \in Nat : (\A m \in Nat : m < n => m \in S) => n \in S
  PROVE  Nat \subseteq S
<1> SUFFICES ASSUME ~(Nat \subseteq S) PROVE FALSE
  OBVIOUS
<1> DEFINE T == {n \in Nat : n \notin S}
<1>1. IsWellFoundedOn(OpToRel(<, Nat), Nat)
  BY NatLessThanWellFounded
<1>2. PICK n \in T : \A m \in T : ~ (<<m, n>> \in OpToRel(<, Nat))
  <2>1. T \subseteq Nat /\ T # {}
    OBVIOUS
  <2> HIDE DEF T
  <2> QED BY <1>1, <2>1, WFMin
<1>3. \A m \in T : ~(m < n)
  BY <1>2 DEF OpToRel
<1> QED BY <1>2, <1>3

\* A function that is given on the members of Stop, and elsewhere by what it is
\* at a smaller place.
Follows(f, S, Stop, base, next, G) ==
  f = [s \in S |-> IF s \in Stop THEN base[s] ELSE G[s][f[next[s]]]]

\* There is one.
LEMMA Recursion ==
  ASSUME NEW S, NEW V, NEW size \in [S -> Nat], NEW Stop \in SUBSET S, NEW base \in [Stop -> V],
         NEW next \in [S \ Stop -> S], \A s \in S \ Stop : size[next[s]] < size[s],
         NEW G \in [S \ Stop -> [V -> V]]
  PROVE  \E f \in [S -> V] : Follows(f, S, Stop, base, next, G)
<1> DEFINE By(f, s)  == IF s \in Stop THEN base[s] ELSE G[s][f[next[s]]]
           Solves(f, n) == f \in [S -> V] /\ \A s \in S : size[s] < n => f[s] = By(f, s)
<1>0. \A f \in [S -> V], s \in S : By(f, s) \in V
  OBVIOUS
<1>1. ASSUME NEW s0 \in S, NEW n \in Nat PROVE \E f : Solves(f, n)
  <2> DEFINE I == {m \in Nat : \E f : Solves(f, m)}
  <2>1. ASSUME NEW m \in Nat, \A k \in Nat : k < m => k \in I PROVE m \in I
    <3>1. CASE m = 0
      <4>1. PICK v : v \in V
        <5>1. CASE s0 \in Stop
          BY <5>1
        <5>2. CASE s0 \notin Stop
          <6> DEFINE J == {k \in Nat : \A s \in S : size[s] = k => V # {}}
          <6>1. ASSUME NEW k \in Nat, \A l \in Nat : l < k => l \in J PROVE k \in J
            <7> SUFFICES ASSUME NEW s \in S, size[s] = k PROVE V # {}
              OBVIOUS
            <7>1. CASE s \in Stop
              BY <7>1
            <7>2. CASE s \notin Stop
              <8>1. next[s] \in S /\ size[next[s]] \in Nat /\ size[next[s]] < k
                BY <7>2
              <8>2. size[next[s]] \in J
                BY <6>1, <8>1
              <8> QED BY <8>1, <8>2
            <7> QED BY <7>1, <7>2
          <6>2. Nat \subseteq J
            <7> HIDE DEF J
            <7> QED BY <6>1, Induct
          <6> QED BY <6>2
        <5> QED BY <5>1, <5>2
      <4>2. Solves([s \in S |-> v], 0)
        BY <4>1
      <4> QED BY <3>1, <4>2
    <3>2. CASE m # 0
      <4>1. m - 1 \in I
        BY <2>1, <3>2
      <4>2. PICK f : Solves(f, m - 1)
        BY <4>1
      <4> DEFINE g == [s \in S |-> By(f, s)]
      <4>3. g \in [S -> V]
        BY <4>2, <1>0
      <4>4. ASSUME NEW s \in S, size[s] < m PROVE g[s] = By(g, s)
        <5>1. CASE s \in Stop
          BY <5>1
        <5>2. CASE s \notin Stop
          <6>1. next[s] \in S /\ size[next[s]] \in Nat /\ size[s] \in Nat /\ size[next[s]] < size[s]
            BY <5>2
          <6>2. size[next[s]] < m - 1
            BY <6>1, <4>4
          <6>3. f[next[s]] = By(f, next[s])
            BY <4>2, <6>1, <6>2
          <6>4. g[next[s]] = By(f, next[s])
            BY <6>1
          <6>5. g[s] = G[s][f[next[s]]]
            BY <5>2
          <6> QED BY <5>2, <6>3, <6>4, <6>5
        <5> QED BY <5>1, <5>2
      <4>5. Solves(g, m)
        BY <4>3, <4>4
      <4> QED BY <4>5
    <3> QED BY <3>1, <3>2
  <2>2. Nat \subseteq I
    <3> HIDE DEF I
    <3> QED BY <2>1, Induct
  <2> QED BY <2>2
<1>2. ASSUME NEW f, NEW g, NEW n \in Nat, NEW m \in Nat, Solves(f, n), Solves(g, m)
      PROVE  \A s \in S : size[s] < n /\ size[s] < m => f[s] = g[s]
  <2> DEFINE J == {k \in Nat : \A s \in S : size[s] = k /\ k < n /\ k < m => f[s] = g[s]}
  <2>1. ASSUME NEW k \in Nat, \A l \in Nat : l < k => l \in J PROVE k \in J
    <3> SUFFICES ASSUME NEW s \in S, size[s] = k, k < n, k < m PROVE f[s] = g[s]
      OBVIOUS
    <3>1. f[s] = By(f, s) /\ g[s] = By(g, s)
      BY <1>2
    <3>2. CASE s \in Stop
      BY <3>1, <3>2
    <3>3. CASE s \notin Stop
      <4>1. next[s] \in S /\ size[next[s]] \in Nat /\ size[next[s]] < k
        BY <3>3
      <4>2. size[next[s]] \in J
        BY <2>1, <4>1
      <4>3. f[next[s]] = g[next[s]]
        BY <4>1, <4>2
      <4> QED BY <3>1, <3>3, <4>3
    <3> QED BY <3>2, <3>3
  <2>2. Nat \subseteq J
    <3> HIDE DEF J
    <3> QED BY <2>1, Induct
  <2> QED BY <2>2
<1> DEFINE F(n) == CHOOSE f : Solves(f, n)
           h == [s \in S |-> F(size[s] + 1)[s]]
<1>3. ASSUME NEW s \in S PROVE Solves(F(size[s] + 1), size[s] + 1) /\ size[s] \in Nat
  <2>1. size[s] + 1 \in Nat /\ size[s] \in Nat
    OBVIOUS
  <2>2. \E f : Solves(f, size[s] + 1)
    <3> HIDE DEF Solves
    <3> QED BY <1>1, <2>1
  <2>3. Solves(F(size[s] + 1), size[s] + 1)
    <3> HIDE DEF Solves
    <3> QED BY <2>2
  <2> QED BY <2>1, <2>3
<1>4. h \in [S -> V]
  <2>1. \A s \in S : F(size[s] + 1)[s] \in V
    <3> HIDE DEF F
    <3> QED BY <1>3
  <2> HIDE DEF F
  <2> QED BY <2>1
<1>5. ASSUME NEW s \in S PROVE h[s] = By(h, s)
  <2>1. h[s] = By(F(size[s] + 1), s)
    <3> HIDE DEF F
    <3> QED BY <1>3
  <2>2. CASE s \in Stop
    <3> HIDE DEF h, F
    <3> QED BY <2>1, <2>2
  <2>3. CASE s \notin Stop
    <3>1. next[s] \in S /\ size[next[s]] \in Nat /\ size[next[s]] < size[s] /\ size[s] \in Nat
      BY <2>3
    <3>2. Solves(F(size[next[s]] + 1), size[next[s]] + 1) /\ Solves(F(size[s] + 1), size[s] + 1)
      BY <3>1, <1>3
    <3>3. F(size[next[s]] + 1)[next[s]] = F(size[s] + 1)[next[s]]
      <4>1. /\ size[next[s]] + 1 \in Nat /\ size[s] + 1 \in Nat
            /\ size[next[s]] < size[next[s]] + 1 /\ size[next[s]] < size[s] + 1
        BY <3>1
      <4> HIDE DEF F, Solves
      <4> QED BY <3>1, <3>2, <4>1, <1>2
    <3>4. h[next[s]] = F(size[next[s]] + 1)[next[s]]
      <4> HIDE DEF F
      <4> QED BY <3>1
    <3> HIDE DEF h, F
    <3> QED BY <2>1, <2>3, <3>3, <3>4
  <2> QED BY <2>2, <2>3
<1>6. Follows(h, S, Stop, base, next, G)
  <2> HIDE DEF F
  <2>1. h = [s \in S |-> h[s]]
    OBVIOUS
  <2>2. [s \in S |-> h[s]] = [s \in S |-> By(h, s)]
    <3> HIDE DEF h
    <3> QED BY <1>5
  <2> HIDE DEF h
  <2> QED BY <2>1, <2>2 DEF Follows
<1> QED BY <1>4, <1>6

-----------------------------------------------------------------------------
(* Sequences of sequences.                                                 *)

\* Three strings one after another, joined in two ways.
Assoc(x, y, z) == (x \o y) \o z = x \o (y \o z)

\* They are.
LEMMA AssocAlways ==
  ASSUME NEW X
  PROVE  \A x, y, z \in Seq(X) : Assoc(x, y, z)
BY ConcatAssociative DEF Assoc

\* What FlattenSeq is computed through.
Flat(seqs) ==
  CHOOSE f : f = [i \in 1..Len(seqs) |-> IF i = 1 THEN seqs[i] ELSE f[i - 1] \o seqs[i]]

\* It is.
LEMMA FlatIs ==
  ASSUME NEW X, NEW seqs \in Seq(Seq(X)), seqs # <<>>
  PROVE  FlattenSeq(seqs) = Flat(seqs)[Len(seqs)]
<1>1. Len(seqs) # 0
  BY EmptySeq
<1> QED BY <1>1 DEF FlattenSeq, Flat

\* It is the concatenation of ever more of them.
LEMMA FlatSolves ==
  ASSUME NEW X, NEW seqs \in Seq(Seq(X))
  PROVE  /\ Flat(seqs) \in [1..Len(seqs) -> Seq(X)]
         /\ \A i \in 1..Len(seqs) : Flat(seqs)[i] = IF i = 1 THEN seqs[i] ELSE Flat(seqs)[i - 1] \o seqs[i]
<1> DEFINE S == 1..Len(seqs)
           V == Seq(X)
           size == [i \in S |-> i]
           Stop == {i \in S : i = 1}
           base == [i \in Stop |-> seqs[i]]
           next == [i \in S \ Stop |-> i - 1]
           G == [i \in S \ Stop |-> [v \in V |-> v \o seqs[i]]]
<1>0. Len(seqs) \in Nat /\ \A i \in S : seqs[i] \in V /\ i \in Nat
  BY LenProperties, ElementOfSeq
<1>1. /\ size \in [S -> Nat] /\ Stop \in SUBSET S /\ base \in [Stop -> V] /\ next \in [S \ Stop -> S]
      /\ \A i \in S \ Stop : size[next[i]] < size[i]
      /\ G \in [S \ Stop -> [V -> V]]
  BY <1>0
<1> DEFINE Eq(f) == f = [i \in 1..Len(seqs) |-> IF i = 1 THEN seqs[i] ELSE f[i - 1] \o seqs[i]]
<1>2. \E f : Eq(f)
  <2> HIDE DEF S, V, size, Stop, base, next, G
  <2>1. PICK f \in [S -> V] : Follows(f, S, Stop, base, next, G)
    BY <1>1, Recursion
  <2> USE DEF S, V, size, Stop, base, next, G
  <2>2. ASSUME NEW i \in S PROVE f[i] = IF i = 1 THEN seqs[i] ELSE f[i - 1] \o seqs[i]
    <3>1. f[i] = IF i \in Stop THEN base[i] ELSE G[i][f[next[i]]]
      <4> HIDE DEF S, Stop, base, next, G
      <4> QED BY <2>1 DEF Follows
    <3>2. CASE i = 1
      BY <3>1, <3>2
    <3>3. CASE i # 1
      <4>0. i \in S \ Stop /\ i - 1 \in S
        BY <1>0, <3>3
      <4>1. i \in S \ Stop /\ next[i] = i - 1 /\ f[i - 1] \in V
        <5> HIDE DEF V
        <5> QED BY <2>1, <4>0
      <4>2. G[i][f[i - 1]] = f[i - 1] \o seqs[i]
        BY <4>1
      <4> QED BY <3>1, <3>3, <4>1, <4>2
    <3> QED BY <3>2, <3>3
  <2>3. f = [i \in S |-> f[i]]
    BY <2>1
  <2> HIDE DEF S, V, size, Stop, base, next, G
  <2>4. f = [i \in S |-> IF i = 1 THEN seqs[i] ELSE f[i - 1] \o seqs[i]]
    BY <2>2, <2>3
  <2> QED BY <2>4 DEF S
<1>3. Eq(Flat(seqs))
  <2> HIDE DEF Eq
  <2>1. Flat(seqs) = CHOOSE f : Eq(f)
    BY DEF Flat, Eq
  <2> QED BY <1>2, <2>1
<1>4. \A i \in S : Flat(seqs)[i] = IF i = 1 THEN seqs[i] ELSE Flat(seqs)[i - 1] \o seqs[i]
  <2> PICK f : f = Flat(seqs)
    OBVIOUS
  <2>1. Eq(f)
    BY <1>3
  <2> QED BY <2>1
<1> DEFINE J == {k \in Nat : k \in S => Flat(seqs)[k] \in V}
<1>5. ASSUME NEW k \in Nat, \A l \in Nat : l < k => l \in J PROVE k \in J
  <2> SUFFICES ASSUME k \in S PROVE Flat(seqs)[k] \in V
    OBVIOUS
  <2>1. CASE k = 1
    BY <1>0, <1>4, <2>1
  <2>2. CASE k # 1
    <3>1. k - 1 \in S /\ k - 1 \in Nat /\ k - 1 < k
      BY <1>0, <2>2
    <3>2. Flat(seqs)[k - 1] \in V
      BY <1>5, <3>1
    <3>3. Flat(seqs)[k] = Flat(seqs)[k - 1] \o seqs[k]
      BY <1>4, <2>2
    <3> QED BY <1>0, <3>2, <3>3, ConcatProperties
  <2> QED BY <2>1, <2>2
<1>6. Nat \subseteq J
  <2> HIDE DEF J
  <2> QED BY <1>5, Induct
<1>7. \A k \in S : Flat(seqs)[k] \in V
  BY <1>0, <1>6
<1>8. Flat(seqs) = [i \in S |-> Flat(seqs)[i]]
  <2> PICK f : f = Flat(seqs)
    OBVIOUS
  <2>1. Eq(f)
    BY <1>3
  <2>2. DOMAIN f = S
    BY <2>1
  <2>3. f = [i \in DOMAIN f |-> f[i]]
    BY <2>1
  <2> QED BY <2>2, <2>3
<1> QED BY <1>4, <1>7, <1>8

\* One more sequence at the end.
LEMMA FlattenAppend ==
  ASSUME NEW X, NEW seqs \in Seq(Seq(X)), NEW u \in Seq(X)
  PROVE  /\ FlattenSeq(seqs) \in Seq(X)
         /\ FlattenSeq(Append(seqs, u)) = FlattenSeq(seqs) \o u
<1> PICK t : t = Append(seqs, u)
  OBVIOUS
<1> PICK n : n = Len(seqs)
  OBVIOUS
<1>0. /\ t \in Seq(Seq(X)) /\ t # <<>> /\ Len(t) = n + 1 /\ n \in Nat
      /\ \A i \in 1..n : t[i] = seqs[i]
      /\ t[n + 1] = u
  BY AppendProperties, LenProperties
<1>1. FlattenSeq(seqs) = IF seqs = <<>> THEN <<>> ELSE Flat(seqs)[n]
  <2>1. CASE seqs = <<>>
    BY <2>1 DEF FlattenSeq
  <2>2. CASE seqs # <<>>
    BY <2>2, FlatIs
  <2> QED BY <2>1, <2>2
<1>2. FlattenSeq(t) = Flat(t)[n + 1]
  BY <1>0, FlatIs
<1> PICK f : f = Flat(seqs)
  OBVIOUS
<1> PICK g : g = Flat(t)
  OBVIOUS
<1>3. /\ f \in [1..n -> Seq(X)]
      /\ \A i \in 1..n : f[i] = IF i = 1 THEN seqs[i] ELSE f[i - 1] \o seqs[i]
  BY FlatSolves
<1>4. /\ g \in [1..n + 1 -> Seq(X)]
      /\ \A i \in 1..n + 1 : g[i] = IF i = 1 THEN t[i] ELSE g[i - 1] \o t[i]
  <2>1. /\ Flat(t) \in [1..Len(t) -> Seq(X)]
        /\ \A i \in 1..Len(t) : Flat(t)[i] = IF i = 1 THEN t[i] ELSE Flat(t)[i - 1] \o t[i]
    BY <1>0, FlatSolves
  <2> QED BY <1>0, <2>1
<1> DEFINE J == {k \in Nat : k \in 1..n => f[k] = g[k]}
<1>5. ASSUME NEW k \in Nat, \A l \in Nat : l < k => l \in J PROVE k \in J
  <2> SUFFICES ASSUME k \in 1..n PROVE f[k] = g[k]
    OBVIOUS
  <2>0. k \in 1..n + 1
    BY <1>0
  <2>1. CASE k = 1
    BY <1>0, <1>3, <1>4, <2>0, <2>1
  <2>2. CASE k # 1
    <3>1. k - 1 \in 1..n /\ k - 1 \in Nat /\ k - 1 < k
      BY <1>0, <2>2
    <3>2. f[k - 1] = g[k - 1]
      BY <1>5, <3>1
    <3>3. f[k] = f[k - 1] \o seqs[k]
      BY <1>3, <2>2
    <3>4. g[k] = g[k - 1] \o t[k]
      BY <1>4, <2>0, <2>2
    <3> QED BY <1>0, <3>2, <3>3, <3>4
  <2> QED BY <2>1, <2>2
<1>6. Nat \subseteq J
  <2> HIDE DEF J
  <2> QED BY <1>5, Induct
<1>7. \A k \in 1..n : f[k] = g[k]
  BY <1>0, <1>6
<1>8. CASE seqs = <<>>
  <2>1. n = 0 /\ n + 1 \in 1..n + 1
    BY <1>0, <1>8, EmptySeq
  <2>2. FlattenSeq(t) = u
    BY <1>0, <1>2, <1>4, <2>1
  <2> QED BY <1>1, <1>8, <2>2, ConcatEmptySeq, EmptySeq
<1>9. CASE seqs # <<>>
  <2>1. n \in 1..n /\ n + 1 \in 1..n + 1 /\ n + 1 # 1 /\ (n + 1) - 1 = n
    BY <1>0, <1>9, EmptySeq
  <2>2. FlattenSeq(t) = g[n] \o u
    BY <1>0, <1>2, <1>4, <2>1
  <2>3. FlattenSeq(seqs) = f[n] /\ f[n] \in Seq(X) /\ f[n] = g[n]
    BY <1>1, <1>3, <1>7, <1>9, <2>1
  <2> QED BY <2>2, <2>3
<1> QED BY <1>8, <1>9

\* The empty sequence of sequences, and one more at the beginning.
LEMMA FlattenCons ==
  ASSUME NEW X, NEW seqs \in Seq(Seq(X)), NEW u \in Seq(X)
  PROVE  /\ FlattenSeq(<<>>) = <<>>
         /\ FlattenSeq(<<u>> \o seqs) = u \o FlattenSeq(seqs)
<1>1. FlattenSeq(<<>>) = <<>>
  BY DEF FlattenSeq
<1>2. <<u>> = Append(<<>>, u) /\ <<u>> \in Seq(Seq(X)) /\ <<>> \in Seq(Seq(X)) /\ <<>> \in Seq(X)
  OBVIOUS
<1>3. FlattenSeq(<<u>>) = u
  <2>1. FlattenSeq(Append(<<>>, u)) = FlattenSeq(<<>>) \o u
    BY <1>2, FlattenAppend
  <2> QED BY <1>1, <1>2, <2>1, ConcatEmptySeq
<1> DEFINE J == {k \in Nat : \A c \in Seq(Seq(X)) : Len(c) = k =>
                   FlattenSeq(<<u>> \o c) = u \o FlattenSeq(c)}
<1>4. ASSUME NEW k \in Nat, \A l \in Nat : l < k => l \in J PROVE k \in J
  <2> SUFFICES ASSUME NEW c \in Seq(Seq(X)), Len(c) = k
               PROVE  FlattenSeq(<<u>> \o c) = u \o FlattenSeq(c)
    OBVIOUS
  <2>1. CASE c = <<>>
    BY <1>1, <1>2, <1>3, <2>1, ConcatEmptySeq
  <2>2. CASE c # <<>>
    <3>1. PICK d \in Seq(Seq(X)), e \in Seq(X) : c = Append(d, e)
      BY <2>2, SequenceEmptyOrAppend
    <3>2. Len(d) \in Nat /\ Len(d) < k
      BY <3>1, AppendProperties, LenProperties
    <3>3. FlattenSeq(<<u>> \o d) = u \o FlattenSeq(d)
      BY <1>4, <3>2
    <3>4. <<u>> \o c = Append(<<u>> \o d, e) /\ <<u>> \o d \in Seq(Seq(X))
      BY <1>2, <3>1
    <3>5. FlattenSeq(<<u>> \o c) = (u \o FlattenSeq(d)) \o e
      BY <3>3, <3>4, FlattenAppend
    <3>6. FlattenSeq(c) = FlattenSeq(d) \o e /\ FlattenSeq(d) \in Seq(X)
      BY <3>1, FlattenAppend
    <3>7. (u \o FlattenSeq(d)) \o e = u \o (FlattenSeq(d) \o e)
      <4>1. \A x, y, z \in Seq(X) : Assoc(x, y, z)
        BY AssocAlways
      <4>2. Assoc(u, FlattenSeq(d), e)
        BY <3>6, <4>1
      <4> QED BY <4>2 DEF Assoc
    <3> QED BY <3>5, <3>6, <3>7
  <2> QED BY <2>1, <2>2
<1>5. Nat \subseteq J
  <2> HIDE DEF J
  <2> QED BY <1>4, Induct
<1>6. Len(seqs) \in J
  BY <1>5, LenProperties
<1> QED BY <1>1, <1>6

-----------------------------------------------------------------------------
(* The first character of a string.                                        *)

\* Strings of bytes.
Text == Seq(STRING)

\* s without its first u bytes.
From(s, u) == SubSeq(s, u + 1, Len(s))

\* They are the others, in order.
LEMMA FromIs ==
  ASSUME NEW s \in Text, NEW u \in 0..Len(s)
  PROVE  /\ From(s, u) \in Text /\ Len(From(s, u)) = Len(s) - u
         /\ \A i \in 1..Len(s) - u : From(s, u)[i] = s[u + i]
<1>1. Len(s) \in Nat /\ \A i \in 1..Len(s) : s[i] \in STRING
  BY LenProperties, ElementOfSeq DEF Text
<1>2. \A i \in u + 1..Len(s) : s[i] \in STRING
  BY <1>1
<1>3. u + 1 \in Int /\ Len(s) \in Int
  BY <1>1
<1>4. /\ SubSeq(s, u + 1, Len(s)) \in Seq(STRING)
      /\ Len(SubSeq(s, u + 1, Len(s))) = IF u + 1 <= Len(s) THEN Len(s) - (u + 1) + 1 ELSE 0
      /\ \A i \in 1..Len(s) - (u + 1) + 1 : SubSeq(s, u + 1, Len(s))[i] = s[(u + 1) + i - 1]
  BY <1>2, <1>3, SubSeqProperties
<1>5. Len(s) - (u + 1) + 1 = Len(s) - u /\ \A i \in 1..Len(s) - u : (u + 1) + i - 1 = u + i
  BY <1>1
<1>6. (IF u + 1 <= Len(s) THEN Len(s) - (u + 1) + 1 ELSE 0) = Len(s) - u
  BY <1>1
<1> QED BY <1>4, <1>5, <1>6 DEF From, Text

\* The first u bytes of s are its first character, right or wrong.
IsFirst(s, u) ==
  /\ u \in 1..Len(s) /\ u <= Width(s[1])
  /\ \A i \in 2..u : s[i] = "C"
  /\ u < Len(s) /\ u < Width(s[1]) => s[u + 1] # "C"

\* A character has one to four bytes.
LEMMA WidthIs ==
  ASSUME NEW b
  PROVE  Width(b) \in {1, 2, 3, 4} /\ (b = "C" \/ b = "X" => Width(b) = 1)
BY DEF Width

\* There is one, in a string that is not empty.
LEMMA FirstExists ==
  ASSUME NEW s \in Text, s # <<>>
  PROVE  \E u : IsFirst(s, u)
<1>1. Len(s) \in Nat \ {0}
  BY EmptySeq DEF Text
<1>2. Width(s[1]) \in {1, 2, 3, 4}
  BY WidthIs
<1>3. CASE Len(s) = 1 \/ Width(s[1]) = 1 \/ s[2] # "C"
  <2>1. \A i \in 2..1 : s[i] = "C"
    OBVIOUS
  <2>2. 1 < Len(s) /\ 1 < Width(s[1]) => s[1 + 1] # "C"
    BY <1>1, <1>2, <1>3
  <2>3. IsFirst(s, 1)
    BY <1>1, <1>2, <2>1, <2>2 DEF IsFirst
  <2> QED BY <2>3
<1>4. CASE Len(s) >= 2 /\ Width(s[1]) >= 2 /\ s[2] = "C" /\ (Len(s) = 2 \/ Width(s[1]) = 2 \/ s[3] # "C")
  <2>1. \A i \in 2..2 : s[i] = "C"
    BY <1>4
  <2> QED BY <1>1, <1>2, <1>4, <2>1 DEF IsFirst
<1>5. CASE /\ Len(s) >= 3 /\ Width(s[1]) >= 3 /\ s[2] = "C" /\ s[3] = "C"
           /\ Len(s) = 3 \/ Width(s[1]) = 3 \/ s[4] # "C"
  <2>1. \A i \in 2..3 : s[i] = "C"
    BY <1>5
  <2> QED BY <1>1, <1>2, <1>5, <2>1 DEF IsFirst
<1>8. CASE Len(s) >= 4 /\ Width(s[1]) = 4 /\ s[2] = "C" /\ s[3] = "C" /\ s[4] = "C"
  <2>1. \A i \in 2..4 : s[i] = "C"
    BY <1>8
  <2> QED BY <1>1, <1>8, <2>1 DEF IsFirst
<1> PICK w, n : w = Width(s[1]) /\ n = Len(s)
  OBVIOUS
<1>6. n \in Nat \ {0} /\ w \in {1, 2, 3, 4}
  BY <1>1, <1>2
<1>7. n = 1 \/ n = 2 \/ n = 3 \/ n >= 4
  BY <1>6
<1> QED BY <1>3, <1>4, <1>5, <1>6, <1>7, <1>8

\* The bytes of the first character continue it, and what continues a character
\* behind it does not depend on it.
LEMMA ContinuesBehind ==
  ASSUME NEW s \in Text, NEW u, IsFirst(s, u)
  PROVE  /\ ~Continues(s, 1)
         /\ \A i \in 2..u : Continues(s, i)
         /\ \A i \in 1..Len(s) - u : Continues(s, u + i) <=> Continues(From(s, u), i)
<1> PICK t : t = From(s, u)
  OBVIOUS
<1>0. /\ Len(s) \in Nat /\ u \in Nat /\ u >= 1 /\ u <= Len(s) /\ u <= Width(s[1])
      /\ \A i \in 2..u : s[i] = "C"
      /\ u < Len(s) /\ u < Width(s[1]) => s[u + 1] # "C"
      /\ \A b : Width(b) \in {1, 2, 3, 4} /\ Width("C") = 1
      /\ \A i \in 1..Len(s) - u : t[i] = s[u + i]
  <2>1. Len(s) \in Nat
    BY LenProperties DEF Text
  <2>2. u \in 0..Len(s)
    BY <2>1 DEF IsFirst
  <2>3. \A b : Width(b) \in {1, 2, 3, 4} /\ Width("C") = 1
    BY WidthIs
  <2>4. \A i \in 1..Len(s) - u : t[i] = s[u + i]
    BY <2>2, FromIs
  <2>5. u \in Nat /\ u >= 1 /\ u <= Len(s)
    BY <2>1 DEF IsFirst
  <2> QED BY <2>1, <2>3, <2>4, <2>5 DEF IsFirst
<1>1. ~Continues(s, 1)
  BY DEF Continues
<1>2. ASSUME NEW i \in 2..u PROVE Continues(s, i)
  <2>1. 1 \in 1..i - 1 /\ i - 1 < Width(s[1]) /\ \A k \in 1 + 1..i : s[k] = "C"
    BY <1>0
  <2> QED BY <2>1 DEF Continues
<1>3. ASSUME NEW i \in 1..Len(s) - u, Continues(s, u + i) PROVE Continues(t, i)
  <2>1. PICK j \in 1..(u + i) - 1 : (u + i) - j < Width(s[j]) /\ \A k \in j + 1..u + i : s[k] = "C"
    BY <1>3 DEF Continues
  <2>2. s[j] # "C"
    BY <1>0, <2>1
  <2>3. j = 1 \/ j > u
    BY <1>0, <2>1, <2>2
  <2>4. j # 1
    <3> SUFFICES ASSUME j = 1 PROVE FALSE
      OBVIOUS
    <3>1. u < Width(s[1])
      BY <1>0, <2>1
    <3>2. u + 1 \in j + 1..u + i /\ u < Len(s)
      BY <1>0
    <3> QED BY <1>0, <2>1, <3>1, <3>2
  <2>5. j - u \in 1..i - 1 /\ j - u \in 1..Len(s) - u /\ u + (j - u) = j /\ i - (j - u) = (u + i) - j
    BY <1>0, <2>1, <2>3, <2>4
  <2>6. t[j - u] = s[j]
    BY <1>0, <2>5
  <2>7. ASSUME NEW k \in (j - u) + 1..i PROVE t[k] = "C"
    <3>1. k \in 1..Len(s) - u /\ u + k \in j + 1..u + i
      BY <1>0, <2>5
    <3> QED BY <1>0, <2>1, <3>1
  <2> QED BY <2>1, <2>5, <2>6, <2>7 DEF Continues
<1>4. ASSUME NEW i \in 1..Len(s) - u, Continues(t, i) PROVE Continues(s, u + i)
  <2>1. PICK j \in 1..i - 1 : i - j < Width(t[j]) /\ \A k \in j + 1..i : t[k] = "C"
    BY <1>4 DEF Continues
  <2>2. u + j \in 1..(u + i) - 1 /\ (u + i) - (u + j) = i - j /\ j \in 1..Len(s) - u
    BY <1>0
  <2>3. t[j] = s[u + j]
    BY <1>0, <2>2
  <2>4. ASSUME NEW k \in (u + j) + 1..u + i PROVE s[k] = "C"
    <3>1. k - u \in j + 1..i /\ k - u \in 1..Len(s) - u /\ u + (k - u) = k
      BY <1>0
    <3> QED BY <1>0, <2>1, <3>1
  <2> QED BY <2>1, <2>2, <2>3, <2>4 DEF Continues
<1> QED BY <1>1, <1>2, <1>3, <1>4

-----------------------------------------------------------------------------
(* Where characters begin.                                                 *)

\* What Starts is computed through.
StartsUpTo(s) ==
  CHOOSE f : f = [i \in 0..Len(s) |-> IF i = 0 THEN <<>>
                                      ELSE IF Continues(s, i) THEN f[i - 1] ELSE Append(f[i - 1], i)]

\* It is, and grows by the places that continue no character.
LEMMA StartsSolve ==
  ASSUME NEW s \in Text
  PROVE  /\ Starts(s) = StartsUpTo(s)[Len(s)]
         /\ StartsUpTo(s) \in [0..Len(s) -> Seq(1..Len(s))]
         /\ StartsUpTo(s)[0] = <<>>
         /\ \A i \in 1..Len(s) : StartsUpTo(s)[i] = IF Continues(s, i) THEN StartsUpTo(s)[i - 1]
                                                    ELSE Append(StartsUpTo(s)[i - 1], i)
<1> DEFINE S == 0..Len(s)
           V == Seq(1..Len(s))
           size == [i \in S |-> i]
           Stop == {0}
           base == [i \in Stop |-> <<>>]
           next == [i \in S \ Stop |-> i - 1]
           G == [i \in S \ Stop |-> [v \in V |-> IF Continues(s, i) THEN v ELSE Append(v, i)]]
           Eq(f) == f = [i \in 0..Len(s) |-> IF i = 0 THEN <<>>
                                             ELSE IF Continues(s, i) THEN f[i - 1] ELSE Append(f[i - 1], i)]
<1>0. Len(s) \in Nat /\ <<>> \in V /\ \A v \in V, i \in 1..Len(s) : Append(v, i) \in V
  BY LenProperties, AppendProperties DEF Text
<1>1. /\ size \in [S -> Nat] /\ Stop \in SUBSET S /\ base \in [Stop -> V] /\ next \in [S \ Stop -> S]
      /\ \A i \in S \ Stop : size[next[i]] < size[i]
      /\ G \in [S \ Stop -> [V -> V]]
  <2>1. /\ size \in [S -> Nat] /\ Stop \in SUBSET S /\ next \in [S \ Stop -> S]
        /\ \A i \in S \ Stop : size[next[i]] < size[i]
    BY <1>0
  <2>2. base \in [Stop -> V]
    BY <1>0
  <2>3. \A i \in S \ Stop : i \in 1..Len(s)
    BY <1>0
  <2>4. G \in [S \ Stop -> [V -> V]]
    <3> HIDE DEF S, V, Stop
    <3> QED BY <1>0, <2>3
  <2> QED BY <2>1, <2>2, <2>4
<1>2. \E f : Eq(f)
  <2> HIDE DEF S, V, size, Stop, base, next, G
  <2>1. PICK f \in [S -> V] : Follows(f, S, Stop, base, next, G)
    BY <1>1, Recursion
  <2> USE DEF S, V, size, Stop, base, next, G
  <2>2. ASSUME NEW i \in S
        PROVE  f[i] = IF i = 0 THEN <<>> ELSE IF Continues(s, i) THEN f[i - 1] ELSE Append(f[i - 1], i)
    <3>1. f[i] = IF i \in Stop THEN base[i] ELSE G[i][f[next[i]]]
      <4> HIDE DEF S, Stop, base, next, G
      <4> QED BY <2>1 DEF Follows
    <3>2. CASE i = 0
      BY <3>1, <3>2
    <3>3. CASE i # 0
      <4>0. i \in S \ Stop /\ i - 1 \in S
        BY <1>0, <3>3
      <4>1. i \in S \ Stop /\ next[i] = i - 1 /\ f[i - 1] \in V
        <5> HIDE DEF V
        <5> QED BY <2>1, <4>0
      <4>2. G[i][f[i - 1]] = IF Continues(s, i) THEN f[i - 1] ELSE Append(f[i - 1], i)
        <5> HIDE DEF V, S, Stop
        <5> QED BY <4>1
      <4> QED BY <3>1, <3>3, <4>1, <4>2
    <3> QED BY <3>2, <3>3
  <2>3. f = [i \in S |-> f[i]]
    BY <2>1
  <2> QED BY <2>2, <2>3
<1>3. Eq(StartsUpTo(s))
  <2> HIDE DEF Eq
  <2>1. StartsUpTo(s) = CHOOSE f : Eq(f)
    BY DEF StartsUpTo, Eq
  <2> QED BY <1>2, <2>1
<1> PICK f : f = StartsUpTo(s)
  OBVIOUS
<1>4. \A i \in S : f[i] = IF i = 0 THEN <<>> ELSE IF Continues(s, i) THEN f[i - 1] ELSE Append(f[i - 1], i)
  <2>1. Eq(f)
    BY <1>3
  <2> QED BY <2>1
<1> DEFINE J == {k \in Nat : k \in S => f[k] \in V}
<1>5. ASSUME NEW k \in Nat, \A l \in Nat : l < k => l \in J PROVE k \in J
  <2> SUFFICES ASSUME k \in S PROVE f[k] \in V
    OBVIOUS
  <2>1. CASE k = 0
    BY <1>0, <1>4, <2>1
  <2>2. CASE k # 0
    <3>1. k - 1 \in S /\ k - 1 \in Nat /\ k - 1 < k /\ k \in 1..Len(s)
      BY <1>0, <2>2
    <3>2. f[k - 1] \in V
      BY <1>5, <3>1
    <3>3. f[k] = IF Continues(s, k) THEN f[k - 1] ELSE Append(f[k - 1], k)
      BY <1>4, <2>2
    <3> HIDE DEF V
    <3> QED BY <1>0, <3>1, <3>2, <3>3
  <2> QED BY <2>1, <2>2
<1>6. Nat \subseteq J
  <2> HIDE DEF J
  <2> QED BY <1>5, Induct
<1>7. \A k \in S : f[k] \in V
  BY <1>0, <1>6
<1>8. f \in [S -> V]
  <2>1. Eq(f)
    BY <1>3
  <2>2. DOMAIN f = S /\ f = [i \in DOMAIN f |-> f[i]]
    BY <2>1
  <2> QED BY <1>7, <2>2
<1>9. Starts(s) = f[Len(s)]
  BY DEF Starts, StartsUpTo
<1>10. f[0] = <<>>
  BY <1>0, <1>4
<1>11. \A i \in 1..Len(s) : f[i] = IF Continues(s, i) THEN f[i - 1] ELSE Append(f[i - 1], i)
  <2>1. \A i \in 1..Len(s) : i \in S /\ i # 0
    BY <1>0
  <2> HIDE DEF S
  <2> QED BY <1>4, <2>1
<1> QED BY <1>8, <1>9, <1>10, <1>11

\* Behind the first character they are where they are without it.
LEMMA StartsBehind ==
  ASSUME NEW s \in Text, NEW u, IsFirst(s, u)
  PROVE  LET t == From(s, u) IN
         /\ Len(Starts(s)) = 1 + Len(Starts(t)) /\ Starts(s)[1] = 1
         /\ \A n \in 1..Len(Starts(t)) : Starts(s)[n + 1] = u + Starts(t)[n]
<1> PICK t : t = From(s, u)
  OBVIOUS
<1> PICK m : m = Len(s) - u
  OBVIOUS
<1>0. /\ Len(s) \in Nat /\ u \in Nat /\ u >= 1 /\ u <= Len(s) /\ m \in Nat
      /\ t \in Text /\ Len(t) = m
  <2>1. Len(s) \in Nat
    BY LenProperties DEF Text
  <2>2. u \in Nat /\ u >= 1 /\ u <= Len(s) /\ u \in 0..Len(s)
    BY <2>1 DEF IsFirst
  <2>3. t \in Text /\ Len(t) = m
    BY <2>2, FromIs
  <2> QED BY <2>1, <2>2, <2>3
<1> PICK f, g : f = StartsUpTo(s) /\ g = StartsUpTo(t)
  OBVIOUS
<1>1. /\ Starts(s) = f[Len(s)] /\ f[0] = <<>>
      /\ \A i \in 1..Len(s) : f[i] = IF Continues(s, i) THEN f[i - 1] ELSE Append(f[i - 1], i)
  BY StartsSolve
<1>2. /\ Starts(t) = g[m] /\ g[0] = <<>> /\ g \in [0..m -> Seq(1..m)]
      /\ \A i \in 1..m : g[i] = IF Continues(t, i) THEN g[i - 1] ELSE Append(g[i - 1], i)
  <2>1. /\ Starts(t) = g[Len(t)] /\ g[0] = <<>> /\ g \in [0..Len(t) -> Seq(1..Len(t))]
        /\ \A i \in 1..Len(t) : g[i] = IF Continues(t, i) THEN g[i - 1] ELSE Append(g[i - 1], i)
    BY <1>0, StartsSolve
  <2> QED BY <1>0, <2>1
<1>3. /\ ~Continues(s, 1)
      /\ \A i \in 2..u : Continues(s, i)
      /\ \A i \in 1..m : Continues(s, u + i) <=> Continues(t, i)
  BY ContinuesBehind
<1>4. \A i \in 1..u : f[i] = <<1>>
  <2> DEFINE J == {k \in Nat : k \in 1..u => f[k] = <<1>>}
  <2>1. ASSUME NEW k \in Nat, \A l \in Nat : l < k => l \in J PROVE k \in J
    <3> SUFFICES ASSUME k \in 1..u PROVE f[k] = <<1>>
      OBVIOUS
    <3>0. k \in 1..Len(s)
      BY <1>0
    <3>1. CASE k = 1
      <4>1. f[1] = Append(f[1 - 1], 1)
        BY <1>1, <1>3, <3>0, <3>1
      <4>2. f[1 - 1] = <<>> /\ Append(<<>>, 1) = <<1>>
        BY <1>1
      <4> QED BY <3>1, <4>1, <4>2
    <3>2. CASE k # 1
      <4>1. k - 1 \in 1..u /\ k - 1 \in Nat /\ k - 1 < k /\ k \in 2..u
        BY <1>0, <3>2
      <4>2. f[k - 1] = <<1>>
        BY <2>1, <4>1
      <4> QED BY <1>1, <1>3, <3>0, <4>1, <4>2
    <3> QED BY <3>1, <3>2
  <2>2. Nat \subseteq J
    <3> HIDE DEF J
    <3> QED BY <2>1, Induct
  <2> QED BY <1>0, <2>2
<1> DEFINE Shifted(a, b) == /\ a \in Seq(Nat) /\ b \in Seq(Nat)
                            /\ Len(a) = 1 + Len(b) /\ a[1] = 1
                            /\ \A n \in 1..Len(b) : a[n + 1] = u + b[n]
<1>5. ASSUME NEW a, NEW b, NEW i \in Nat, Shifted(a, b)
      PROVE  Shifted(Append(a, u + i), Append(b, i))
  <2>1. Len(a) \in Nat /\ Len(b) \in Nat /\ u + i \in Nat
    BY <1>0, <1>5, LenProperties
  <2>2. /\ Append(a, u + i) \in Seq(Nat) /\ Append(b, i) \in Seq(Nat)
        /\ Len(Append(a, u + i)) = Len(a) + 1 /\ Len(Append(b, i)) = Len(b) + 1
        /\ \A n \in 1..Len(a) : Append(a, u + i)[n] = a[n]
        /\ \A n \in 1..Len(b) : Append(b, i)[n] = b[n]
        /\ Append(a, u + i)[Len(a) + 1] = u + i /\ Append(b, i)[Len(b) + 1] = i
    BY <1>5, <2>1, AppendProperties
  <2>3. ASSUME NEW n \in 1..Len(b) + 1 PROVE Append(a, u + i)[n + 1] = u + Append(b, i)[n]
    <3>1. CASE n <= Len(b)
      <4>1. n \in 1..Len(b) /\ n + 1 \in 1..Len(a)
        BY <1>5, <2>1, <3>1
      <4> QED BY <1>5, <2>2, <4>1
    <3>2. CASE n = Len(b) + 1
      BY <1>5, <2>1, <2>2, <3>2
    <3>3. n <= Len(b) \/ n = Len(b) + 1
      BY <2>1
    <3> QED BY <3>1, <3>2, <3>3
  <2>4. 1 \in 1..Len(a)
    BY <1>5, <2>1
  <2> PICK a2, b2 : a2 = Append(a, u + i) /\ b2 = Append(b, i)
    OBVIOUS
  <2>5. Len(a2) = 1 + Len(b2) /\ a2[1] = 1 /\ Len(b2) = Len(b) + 1
    BY <1>5, <2>1, <2>2, <2>4
  <2>6. \A n \in 1..Len(b2) : a2[n + 1] = u + b2[n]
    BY <2>3, <2>5
  <2>7. Shifted(a2, b2)
    BY <2>2, <2>5, <2>6
  <2> HIDE DEF Shifted
  <2> QED BY <2>7
<1>6. \A i \in 0..m : Shifted(f[u + i], g[i])
  <2> DEFINE J == {k \in Nat : k \in 0..m => Shifted(f[u + k], g[k])}
  <2>1. ASSUME NEW k \in Nat, \A l \in Nat : l < k => l \in J PROVE k \in J
    <3> SUFFICES ASSUME k \in 0..m PROVE Shifted(f[u + k], g[k])
      OBVIOUS
    <3>1. CASE k = 0
      <4>1. f[u + k] = <<1>> /\ g[k] = <<>>
        BY <1>0, <1>2, <1>4, <3>1
      <4>2. Shifted(<<1>>, <<>>)
        OBVIOUS
      <4> QED BY <4>1, <4>2
    <3>2. CASE k # 0
      <4>1. /\ k - 1 \in 0..m /\ k - 1 \in Nat /\ k - 1 < k /\ k \in 1..m
            /\ u + k \in 1..Len(s) /\ (u + k) - 1 = u + (k - 1)
        BY <1>0, <3>2
      <4>2. Shifted(f[u + (k - 1)], g[k - 1])
        <5> HIDE DEF Shifted
        <5> QED BY <2>1, <4>1
      <4>3. f[u + k] = IF Continues(t, k) THEN f[u + (k - 1)] ELSE Append(f[u + (k - 1)], u + k)
        BY <1>1, <1>3, <4>1
      <4>4. g[k] = IF Continues(t, k) THEN g[k - 1] ELSE Append(g[k - 1], k)
        BY <1>2, <4>1
      <4>5. Shifted(Append(f[u + (k - 1)], u + k), Append(g[k - 1], k))
        <5> HIDE DEF Shifted
        <5> QED BY <1>5, <4>2
      <4> HIDE DEF Shifted
      <4> QED BY <4>2, <4>3, <4>4, <4>5
    <3> QED BY <3>1, <3>2
  <2>2. Nat \subseteq J
    <3> HIDE DEF J
    <3> QED BY <2>1, Induct
  <2> HIDE DEF Shifted
  <2> QED BY <1>0, <2>2
<1>7. Shifted(f[u + m], g[m]) /\ u + m = Len(s)
  <2> HIDE DEF Shifted
  <2> QED BY <1>0, <1>6
<1>8. Shifted(Starts(s), Starts(t))
  <2> HIDE DEF Shifted
  <2> QED BY <1>1, <1>2, <1>7
<1> QED BY <1>8

-----------------------------------------------------------------------------
(* Decoding a string a character at a time.                                *)

\* A part of a string.
LEMMA PartIs ==
  ASSUME NEW s \in Text, NEW a \in 1..Len(s) + 1, NEW b \in 0..Len(s)
  PROVE  /\ SubSeq(s, a, b) \in Text
         /\ Len(SubSeq(s, a, b)) = IF a <= b THEN b - a + 1 ELSE 0
         /\ \A i \in 1..b - a + 1 : SubSeq(s, a, b)[i] = s[a + i - 1]
<1>1. Len(s) \in Nat /\ \A i \in 1..Len(s) : s[i] \in STRING
  BY LenProperties, ElementOfSeq DEF Text
<1>2. a \in Int /\ b \in Int /\ \A i \in a..b : s[i] \in STRING
  BY <1>1
<1> QED BY <1>2, SubSeqProperties DEF Text

\* The first n bytes.
LEMMA FrontIs ==
  ASSUME NEW s \in Text, NEW n \in 0..Len(s)
  PROVE  /\ SubSeq(s, 1, n) \in Text /\ Len(SubSeq(s, 1, n)) = n
         /\ \A i \in 1..n : SubSeq(s, 1, n)[i] = s[i]
<1>1. Len(s) \in Nat
  BY LenProperties DEF Text
<1>2. 1 \in 1..Len(s) + 1 /\ n - 1 + 1 = n /\ (IF 1 <= n THEN n - 1 + 1 ELSE 0) = n
      /\ \A i \in 1..n : 1 + i - 1 = i
  BY <1>1
<1>3. /\ SubSeq(s, 1, n) \in Text
      /\ Len(SubSeq(s, 1, n)) = IF 1 <= n THEN n - 1 + 1 ELSE 0
      /\ \A i \in 1..n - 1 + 1 : SubSeq(s, 1, n)[i] = s[1 + i - 1]
  BY <1>2, PartIs
<1> QED BY <1>2, <1>3

\* A part that lies behind the first u bytes.
LEMMA PartBehind ==
  ASSUME NEW s \in Text, NEW u \in 0..Len(s),
         NEW a \in 1..(Len(s) - u) + 1, NEW b \in 0..Len(s) - u
  PROVE  SubSeq(s, u + a, u + b) = SubSeq(From(s, u), a, b)
<1> PICK t : t = From(s, u)
  OBVIOUS
<1>1. Len(s) \in Nat /\ u \in Nat
  BY LenProperties DEF Text
<1>2. t \in Text /\ Len(t) = Len(s) - u /\ \A i \in 1..Len(s) - u : t[i] = s[u + i]
  BY FromIs
<1>3. /\ u + a \in 1..Len(s) + 1 /\ u + b \in 0..Len(s) /\ a \in 1..Len(t) + 1 /\ b \in 0..Len(t)
      /\ (u + b) - (u + a) = b - a /\ (u + a <= u + b <=> a <= b) /\ a \in Nat /\ b \in Nat
  BY <1>1, <1>2
<1> PICK p, q : p = SubSeq(s, u + a, u + b) /\ q = SubSeq(t, a, b)
  OBVIOUS
<1>4. p \in Text /\ Len(p) = (IF a <= b THEN b - a + 1 ELSE 0) /\ \A i \in 1..b - a + 1 : p[i] = s[(u + a) + i - 1]
  <2> PICK x, y : x = u + a /\ y = u + b
    OBVIOUS
  <2>1. /\ SubSeq(s, x, y) \in Text
        /\ Len(SubSeq(s, x, y)) = IF x <= y THEN y - x + 1 ELSE 0
        /\ \A i \in 1..y - x + 1 : SubSeq(s, x, y)[i] = s[x + i - 1]
    BY <1>3, PartIs
  <2>2. y - x = b - a /\ (x <= y <=> a <= b)
    BY <1>3
  <2> QED BY <2>1, <2>2
<1>5. q \in Text /\ Len(q) = (IF a <= b THEN b - a + 1 ELSE 0) /\ \A i \in 1..b - a + 1 : q[i] = t[a + i - 1]
  BY <1>2, <1>3, PartIs
<1>6. ASSUME NEW i \in 1..Len(p) PROVE p[i] = q[i]
  <2>1. i \in 1..b - a + 1 /\ a + i - 1 \in 1..Len(s) - u /\ u + (a + i - 1) = (u + a) + i - 1
    BY <1>1, <1>2, <1>3, <1>4
  <2> QED BY <1>2, <1>4, <1>5, <2>1
<1>7. p = q
  BY <1>4, <1>5, <1>6, SeqEqual DEF Text
<1> QED BY <1>7

\* What becomes of a character.
Char(c) == IF IsChar(c) THEN c ELSE Replacement
Chars   == Text \cup {Replacement}

\* The n-th character, and whether the last one is held back.
UnitOf(s, n) ==
  SubSeq(s, Starts(s)[n], IF n = Len(Starts(s)) THEN Len(s) ELSE Starts(s)[n + 1] - 1)
Held(s) == Starts(s) # <<>> /\ IsCut(UnitOf(s, Len(Starts(s))))
Count(s) == IF Held(s) THEN Len(Starts(s)) - 1 ELSE Len(Starts(s))

\* Decoded, in these words.
LEMMA DecodedIs ==
  ASSUME NEW s
  PROVE  Decoded(s) = [text |-> [n \in 1..Count(s) |-> Char(UnitOf(s, n))],
                       pending |-> IF Held(s) THEN UnitOf(s, Len(Starts(s))) ELSE <<>>]
BY DEF Decoded, Count, Held, UnitOf, Char

\* Of nothing, nothing.
LEMMA DecodedNil ==
  Decoded(<<>>) = [text |-> <<>>, pending |-> <<>>]
<1>1. <<>> \in Text /\ Len(<<>>) = 0
  BY DEF Text
<1>2. Starts(<<>>) = <<>>
  BY <1>1, StartsSolve
<1>3. ~Held(<<>>) /\ Count(<<>>) = 0
  BY <1>1, <1>2 DEF Held, Count
<1>4. [n \in 1..0 |-> Char(UnitOf(<<>>, n))] = <<>>
  OBVIOUS
<1> QED BY <1>3, <1>4, DecodedIs

\* Where there is a byte, a character begins at the first.
LEMMA FirstStart ==
  ASSUME NEW s \in Text
  PROVE  /\ Starts(s) \in Seq(1..Len(s))
         /\ s # <<>> => Len(Starts(s)) >= 1 /\ Starts(s)[1] = 1
         /\ s = <<>> => Starts(s) = <<>>
<1>0. Len(s) \in Nat /\ Len(s) \in 0..Len(s)
  BY LenProperties DEF Text
<1>1. Starts(s) \in Seq(1..Len(s))
  BY <1>0, StartsSolve
<1>2. ASSUME s # <<>> PROVE Len(Starts(s)) >= 1 /\ Starts(s)[1] = 1
  <2>1. PICK u : IsFirst(s, u)
    BY <1>2, FirstExists
  <2>2. Len(Starts(s)) = 1 + Len(Starts(From(s, u))) /\ Starts(s)[1] = 1
    BY <2>1, StartsBehind
  <2>3. From(s, u) \in Text
    BY <1>0, <2>1, FromIs DEF IsFirst
  <2>4. Len(From(s, u)) \in 0..Len(From(s, u))
    BY <2>3, LenProperties DEF Text
  <2>5. Starts(From(s, u)) \in Seq(1..Len(From(s, u)))
    BY <2>3, <2>4, StartsSolve
  <2>6. Len(Starts(From(s, u))) \in Nat
    BY <2>5, LenProperties
  <2> QED BY <2>2, <2>6
<1>3. ASSUME s = <<>> PROVE Starts(s) = <<>>
  <2>1. Len(s) = 0
    BY <1>3, EmptySeq
  <2> QED BY <2>1, StartsSolve
<1> QED BY <1>1, <1>2, <1>3

\* The characters behind the first one are those of what is behind it.
LEMMA UnitsBehind ==
  ASSUME NEW s \in Text, NEW u, IsFirst(s, u)
  PROVE  LET t == From(s, u) IN
         /\ UnitOf(s, 1) = SubSeq(s, 1, u)
         /\ \A n \in 1..Len(Starts(t)) : UnitOf(s, n + 1) = UnitOf(t, n)
<1> PICK t : t = From(s, u)
  OBVIOUS
<1> PICK c : c = Len(Starts(t))
  OBVIOUS
<1>0. /\ Len(s) \in Nat /\ u \in Nat /\ u >= 1 /\ u <= Len(s) /\ u \in 0..Len(s)
      /\ t \in Text /\ Len(t) = Len(s) - u
  <2>1. Len(s) \in Nat
    BY LenProperties DEF Text
  <2>2. u \in Nat /\ u >= 1 /\ u <= Len(s) /\ u \in 0..Len(s)
    BY <2>1 DEF IsFirst
  <2> QED BY <2>1, <2>2, FromIs
<1>1. /\ Len(Starts(s)) = 1 + c /\ Starts(s)[1] = 1
      /\ \A n \in 1..c : Starts(s)[n + 1] = u + Starts(t)[n]
  BY StartsBehind
<1>2. /\ Starts(t) \in Seq(1..Len(t)) /\ c \in Nat /\ \A n \in 1..c : Starts(t)[n] \in 1..Len(t)
      /\ t # <<>> => c >= 1 /\ Starts(t)[1] = 1
      /\ t = <<>> => c = 0
  <2>1. /\ Starts(t) \in Seq(1..Len(t)) /\ (t # <<>> => c >= 1 /\ Starts(t)[1] = 1)
        /\ t = <<>> => Starts(t) = <<>>
    BY <1>0, FirstStart
  <2> QED BY <2>1, LenProperties, ElementOfSeq, EmptySeq
<1>3. UnitOf(s, 1) = SubSeq(s, 1, u)
  <2>1. CASE t = <<>>
    <3>1. c = 0 /\ Len(s) = u
      BY <1>0, <1>2, <2>1, EmptySeq
    <3> QED BY <1>1, <3>1 DEF UnitOf
  <2>2. CASE t # <<>>
    <3>1. 1 # Len(Starts(s)) /\ Starts(s)[1 + 1] = u + 1
      BY <1>1, <1>2, <2>2
    <3>2. (u + 1) - 1 = u
      BY <1>0
    <3> QED BY <1>1, <3>1, <3>2 DEF UnitOf
  <2> QED BY <2>1, <2>2
<1>4. ASSUME NEW n \in 1..c PROVE UnitOf(s, n + 1) = UnitOf(t, n)
  <2> PICK a : a = Starts(t)[n]
    OBVIOUS
  <2> PICK b : b = IF n = c THEN Len(t) ELSE Starts(t)[n + 1] - 1
    OBVIOUS
  <2>1. a \in 1..Len(t) /\ Starts(s)[n + 1] = u + a
    BY <1>1, <1>2
  <2>2. b \in 0..Len(t) /\ u + b = IF n + 1 = Len(Starts(s)) THEN Len(s) ELSE Starts(s)[(n + 1) + 1] - 1
    <3>1. CASE n = c
      BY <1>0, <1>1, <1>2, <3>1
    <3>2. CASE n # c
      <4>1. n + 1 \in 1..c /\ n + 1 # Len(Starts(s))
        BY <1>1, <1>2, <3>2
      <4>2. Starts(t)[n + 1] \in 1..Len(t) /\ Starts(s)[(n + 1) + 1] = u + Starts(t)[n + 1]
        BY <1>1, <1>2, <4>1
      <4> QED BY <1>0, <3>2, <4>1, <4>2
    <3> QED BY <3>1, <3>2
  <2>3. a \in 1..(Len(s) - u) + 1 /\ b \in 0..Len(s) - u
    BY <1>0, <2>1, <2>2
  <2>4. SubSeq(s, u + a, u + b) = SubSeq(t, a, b)
    BY <1>0, <2>3, PartBehind
  <2>5. UnitOf(s, n + 1) = SubSeq(s, u + a, u + b)
    BY <2>1, <2>2 DEF UnitOf
  <2>6. UnitOf(t, n) = SubSeq(t, a, b)
    BY DEF UnitOf
  <2> QED BY <2>4, <2>5, <2>6
<1> QED BY <1>3, <1>4

\* Decoding takes the first character off, unless it is all there is and cut.
LEMMA DecodedFirst ==
  ASSUME NEW s \in Text, NEW u, IsFirst(s, u)
  PROVE  LET t == From(s, u) IN
         Decoded(s) = IF t = <<>> /\ IsCut(s) THEN [text |-> <<>>, pending |-> s]
                      ELSE [text |-> <<Char(SubSeq(s, 1, u))>> \o Decoded(t).text,
                            pending |-> Decoded(t).pending]
<1> PICK t : t = From(s, u)
  OBVIOUS
<1> PICK c : c = Len(Starts(t))
  OBVIOUS
<1>0. /\ Len(s) \in Nat /\ u \in Nat /\ u >= 1 /\ u <= Len(s)
      /\ t \in Text /\ Len(t) = Len(s) - u
  <2>1. Len(s) \in Nat
    BY LenProperties DEF Text
  <2>2. u \in Nat /\ u >= 1 /\ u <= Len(s) /\ u \in 0..Len(s)
    BY <2>1 DEF IsFirst
  <2> QED BY <2>1, <2>2, FromIs
<1>1. Len(Starts(s)) = 1 + c
  BY StartsBehind
<1>2. UnitOf(s, 1) = SubSeq(s, 1, u) /\ \A n \in 1..c : UnitOf(s, n + 1) = UnitOf(t, n)
  BY UnitsBehind
<1>3. c \in Nat /\ Starts(t) \in Seq(1..Len(t)) /\ (t = <<>> <=> c = 0) /\ (t = <<>> => Starts(t) = <<>>)
  <2>1. /\ Starts(t) \in Seq(1..Len(t)) /\ (t # <<>> => c >= 1)
        /\ t = <<>> => Starts(t) = <<>>
    BY <1>0, FirstStart
  <2> QED BY <2>1, LenProperties, EmptySeq
<1>4. Starts(s) # <<>> /\ (Starts(t) # <<>> <=> t # <<>>)
  <2>1. Starts(s) \in Seq(1..Len(s))
    BY FirstStart
  <2> QED BY <1>1, <1>3, <2>1, EmptySeq
<1> PICK ds, dt : ds = Decoded(s) /\ dt = Decoded(t)
  OBVIOUS
<1>5. ds = [text |-> [n \in 1..Count(s) |-> Char(UnitOf(s, n))],
            pending |-> IF Held(s) THEN UnitOf(s, 1 + c) ELSE <<>>]
  BY <1>1, DecodedIs
<1>6. dt = [text |-> [n \in 1..Count(t) |-> Char(UnitOf(t, n))],
            pending |-> IF Held(t) THEN UnitOf(t, c) ELSE <<>>]
  BY DecodedIs
<1>7. CASE t = <<>>
  <2>1. Len(s) = u /\ SubSeq(s, 1, u) = s /\ c = 0
    BY <1>0, <1>3, <1>7, EmptySeq, SubSeqFull DEF Text
  <2>2. UnitOf(s, 1) = s
    BY <1>2, <2>1
  <2>3. Held(s) <=> IsCut(s)
    BY <1>1, <1>4, <2>1, <2>2 DEF Held
  <2>4. dt = [text |-> <<>>, pending |-> <<>>]
    BY <1>7, DecodedNil
  <2>5. CASE IsCut(s)
    <3>1. Count(s) = 0 /\ Held(s)
      BY <1>1, <2>1, <2>3, <2>5 DEF Count
    <3>2. [n \in 1..0 |-> Char(UnitOf(s, n))] = <<>>
      OBVIOUS
    <3> QED BY <1>5, <1>7, <2>1, <2>2, <2>5, <3>1, <3>2
  <2>6. CASE ~IsCut(s)
    <3>1. Count(s) = 1 /\ ~Held(s)
      BY <1>1, <2>1, <2>3, <2>6 DEF Count
    <3>2. [n \in 1..1 |-> Char(UnitOf(s, n))] = <<Char(UnitOf(s, 1))>>
      OBVIOUS
    <3>3. ds = [text |-> <<Char(s)>>, pending |-> <<>>]
      BY <1>5, <2>2, <3>1, <3>2
    <3>4. <<Char(SubSeq(s, 1, u))>> \o dt.text = <<Char(s)>> /\ dt.pending = <<>>
      <4>1. Char(SubSeq(s, 1, u)) = Char(s)
        BY <2>1
      <4>2. \A v : <<v>> \o <<>> = <<v>>
        OBVIOUS
      <4>3. dt.text = <<>> /\ dt.pending = <<>>
        BY <2>4
      <4> QED BY <4>1, <4>2, <4>3
    <3> QED BY <2>6, <3>3, <3>4
  <2> QED BY <2>5, <2>6
<1>8. CASE t # <<>>
  <2>1. c >= 1 /\ c \in 1..c
    BY <1>3, <1>8
  <2>2. UnitOf(s, 1 + c) = UnitOf(t, c)
    BY <1>2, <1>3, <2>1
  <2>3. Held(s) <=> Held(t)
    BY <1>1, <1>4, <1>8, <2>2 DEF Held
  <2>4. Count(s) = 1 + Count(t) /\ Count(t) \in Nat /\ Count(t) <= c
    BY <1>1, <1>3, <2>1, <2>3 DEF Count
  <2>5. ds.pending = dt.pending
    BY <1>5, <1>6, <2>2, <2>3
  <2>6. ds.text = <<Char(SubSeq(s, 1, u))>> \o dt.text
    <3> PICK k : k = Count(t)
      OBVIOUS
    <3> DEFINE X == {Char(UnitOf(s, n)) : n \in 1..1 + k}
    <3> PICK a, b : a = [n \in 1..1 + k |-> Char(UnitOf(s, n))] /\ b = [n \in 1..k |-> Char(UnitOf(t, n))]
      OBVIOUS
    <3>1. \A n \in 1..k : Char(UnitOf(t, n)) = Char(UnitOf(s, n + 1)) /\ n + 1 \in 1..1 + k
      BY <1>2, <1>3, <2>4
    <3>2. a \in Seq(X) /\ Len(a) = 1 + k /\ \A n \in 1..1 + k : a[n] = Char(UnitOf(s, n))
      BY <2>4
    <3>3. b \in Seq(X) /\ Len(b) = k /\ \A n \in 1..k : b[n] = Char(UnitOf(s, n + 1))
      <4>1. \A n \in 1..k : b[n] = Char(UnitOf(s, n + 1)) /\ b[n] \in X
        BY <3>1
      <4>2. b \in [1..k -> X]
        <5> HIDE DEF X
        <5> QED BY <4>1
      <4> HIDE DEF X
      <4> QED BY <2>4, <4>1, <4>2
    <3>4. 1 \in 1..1 + k /\ Char(UnitOf(s, 1)) \in X /\ <<Char(UnitOf(s, 1))>> \in Seq(X)
      <4>1. 1 \in 1..1 + k
        BY <2>4
      <4>2. Char(UnitOf(s, 1)) \in X
        BY <4>1
      <4> HIDE DEF X
      <4> QED BY <4>1, <4>2
    <3> PICK h : h = <<Char(UnitOf(s, 1))>>
      OBVIOUS
    <3> HIDE DEF X
    <3>5. /\ h \o b \in Seq(X) /\ Len(h \o b) = 1 + k
          /\ \A i \in 1..1 + k : (h \o b)[i] = IF i <= 1 THEN h[i] ELSE b[i - 1]
      <4>1. Len(h) = 1 /\ h \in Seq(X)
        BY <3>4
      <4>2. /\ h \o b \in Seq(X) /\ Len(h \o b) = Len(h) + Len(b)
            /\ \A i \in 1..Len(h) + Len(b) : (h \o b)[i] = IF i <= Len(h) THEN h[i] ELSE b[i - Len(h)]
        <5>1. \A x, y \in Seq(X) : /\ x \o y \in Seq(X) /\ Len(x \o y) = Len(x) + Len(y)
                                   /\ \A i \in 1..Len(x) + Len(y) : (x \o y)[i] = IF i <= Len(x) THEN x[i] ELSE y[i - Len(x)]
          BY ConcatProperties
        <5> QED BY <3>3, <4>1, <5>1
      <4>3. Len(h) + Len(b) = 1 + k
        BY <3>3, <4>1
      <4>4. \A i \in 1..1 + k : (h \o b)[i] = IF i <= 1 THEN h[i] ELSE b[i - 1]
        <5>1. \A i \in 1..1 + k : (h \o b)[i] = IF i <= Len(h) THEN h[i] ELSE b[i - Len(h)]
          BY <4>2, <4>3
        <5> QED BY <4>1, <5>1
      <4> QED BY <4>2, <4>3, <4>4
    <3>6. ASSUME NEW i \in 1..Len(a) PROVE a[i] = (h \o b)[i]
      <4>1. CASE i = 1
        BY <3>2, <3>4, <3>5, <4>1
      <4>2. CASE i # 1
        <5>1. i - 1 \in 1..k /\ (i - 1) + 1 = i /\ ~(i <= 1) /\ i \in 1..1 + k
          BY <2>4, <3>2, <4>2
        <5> QED BY <3>2, <3>3, <3>5, <5>1
      <4> QED BY <4>1, <4>2
    <3>7. a = h \o b
      <4>1. \A x, y \in Seq(X) : Len(x) = Len(y) /\ (\A i \in 1..Len(x) : x[i] = y[i]) => x = y
        BY SeqEqual
      <4> QED BY <3>2, <3>5, <3>6, <4>1
    <3>8. ds.text = a /\ dt.text = b
      BY <1>5, <1>6, <2>4
    <3> QED BY <1>2, <3>7, <3>8
  <2>7. ds = [text |-> ds.text, pending |-> ds.pending]
    BY <1>5
  <2> QED BY <1>8, <2>5, <2>6, <2>7
<1> QED BY <1>7, <1>8

\* The fields of what was decoded.
LEMMA Fields ==
  ASSUME NEW d, NEW x, NEW y, d = [text |-> x, pending |-> y]
  PROVE  d.text = x /\ d.pending = y
OBVIOUS

\* Decoding gives characters and bytes held back.
LEMMA DecodedTyped ==
  ASSUME NEW s \in Text
  PROVE  /\ Decoded(s) = [text |-> Decoded(s).text, pending |-> Decoded(s).pending]
         /\ Decoded(s).text \in Seq(Chars) /\ Decoded(s).pending \in Text
<1>1. Decoded(s) = [text |-> Decoded(s).text, pending |-> Decoded(s).pending]
  BY DecodedIs
<1> DEFINE J == {k \in Nat : \A x \in Text : Len(x) = k =>
                   Decoded(x).text \in Seq(Chars) /\ Decoded(x).pending \in Text}
<1>2. ASSUME NEW k \in Nat, \A l \in Nat : l < k => l \in J PROVE k \in J
  <2> SUFFICES ASSUME NEW x \in Text, Len(x) = k
               PROVE  Decoded(x).text \in Seq(Chars) /\ Decoded(x).pending \in Text
    OBVIOUS
  <2>0. <<>> \in Text /\ <<>> \in Seq(Chars)
    BY DEF Text
  <2>1. CASE x = <<>>
    <3>1. Decoded(x).text = <<>> /\ Decoded(x).pending = <<>>
      BY <2>1, DecodedNil
    <3> QED BY <2>0, <3>1
  <2>2. CASE x # <<>>
    <3>1. PICK u : IsFirst(x, u)
      BY <2>2, FirstExists
    <3> PICK t : t = From(x, u)
      OBVIOUS
    <3>2. u \in 1..Len(x) /\ Len(x) \in Nat /\ 1 \in 1..Len(x) + 1 /\ u \in 0..Len(x)
      <4>1. Len(x) \in Nat
        BY LenProperties DEF Text
      <4> QED BY <3>1, <4>1 DEF IsFirst
    <3>3. t \in Text /\ Len(t) \in Nat /\ Len(t) < k
      <4>1. t \in Text /\ Len(t) = Len(x) - u
        BY <3>2, FromIs
      <4> QED BY <3>2, <4>1
    <3>4. Decoded(t).text \in Seq(Chars) /\ Decoded(t).pending \in Text
      BY <1>2, <3>3
    <3>5. Char(SubSeq(x, 1, u)) \in Chars
      <4>1. SubSeq(x, 1, u) \in Text
        BY <3>2, PartIs
      <4> QED BY <4>1 DEF Char, Chars
    <3>6. <<Char(SubSeq(x, 1, u))>> \o Decoded(t).text \in Seq(Chars)
      BY <3>4, <3>5
    <3>7. Decoded(x) = IF t = <<>> /\ IsCut(x) THEN [text |-> <<>>, pending |-> x]
                       ELSE [text |-> <<Char(SubSeq(x, 1, u))>> \o Decoded(t).text,
                             pending |-> Decoded(t).pending]
      BY <3>1, DecodedFirst
    <3> QED BY <2>0, <3>4, <3>6, <3>7
  <2> QED BY <2>1, <2>2
<1>3. Nat \subseteq J
  <2> HIDE DEF J
  <2> QED BY <1>2, Induct
<1>4. Len(s) \in J
  BY <1>3, LenProperties DEF Text
<1> QED BY <1>1, <1>4

\* What follows a string leaves its first character as it is, unless that is
\* all of the string and cut.
LEMMA FirstOfConcat ==
  ASSUME NEW a \in Text, NEW b \in Text, NEW u, IsFirst(a, u), ~(From(a, u) = <<>> /\ IsCut(a))
  PROVE  /\ a \o b \in Text /\ IsFirst(a \o b, u)
         /\ From(a \o b, u) = From(a, u) \o b
         /\ SubSeq(a \o b, 1, u) = SubSeq(a, 1, u)
         /\ ~(From(a \o b, u) = <<>> /\ IsCut(a \o b))
<1> PICK c : c = a \o b
  OBVIOUS
<1>1. /\ Len(a) \in Nat /\ Len(b) \in Nat /\ c \in Text /\ Len(c) = Len(a) + Len(b)
      /\ \A i \in 1..Len(a) + Len(b) : c[i] = IF i <= Len(a) THEN a[i] ELSE b[i - Len(a)]
  BY LenProperties, ConcatProperties DEF Text
<1>2. u \in 1..Len(a) /\ u \in Nat /\ u >= 1 /\ u <= Len(a) /\ u \in 0..Len(a) /\ u \in 0..Len(c) /\ u \in 1..Len(c)
  BY <1>1 DEF IsFirst
<1>3. \A i \in 1..Len(a) : c[i] = a[i]
  BY <1>1
<1> PICK t, r : t = From(a, u) /\ r = From(c, u)
  OBVIOUS
<1>4. t \in Text /\ Len(t) = Len(a) - u /\ \A i \in 1..Len(a) - u : t[i] = a[u + i]
  BY <1>2, FromIs
<1>5. r \in Text /\ Len(r) = Len(c) - u /\ \A i \in 1..Len(c) - u : r[i] = c[u + i]
  BY <1>1, <1>2, FromIs
<1>6. IsFirst(c, u)
  <2>1. c[1] = a[1] /\ \A i \in 2..u : c[i] = "C"
    BY <1>1, <1>2, <1>3 DEF IsFirst
  <2>2. ASSUME u < Len(c), u < Width(a[1]) PROVE c[u + 1] # "C"
    <3>1. CASE u < Len(a)
      <4>1. u + 1 \in 1..Len(a) /\ a[u + 1] # "C"
        BY <1>1, <1>2, <2>2, <3>1 DEF IsFirst
      <4> QED BY <1>3, <4>1
    <3>2. CASE u = Len(a)
      <4>1. t = <<>>
        BY <1>1, <1>4, <3>2, EmptySeq DEF Text
      <4>2. a # <<>> /\ Head(a) = a[1]
        BY <1>1, <1>2, EmptySeq DEF Text
      <4>3. Len(a) < Width(Head(a)) /\ \A i \in 2..Len(a) : a[i] = "C"
        BY <2>2, <3>2, <4>2 DEF IsFirst
      <4>4. IsCut(a)
        BY <4>2, <4>3 DEF IsCut
      <4> QED BY <4>1, <4>4
    <3>3. u < Len(a) \/ u = Len(a)
      BY <1>1, <1>2
    <3> QED BY <3>1, <3>2, <3>3
  <2> QED BY <1>2, <2>1, <2>2 DEF IsFirst
<1>7. r = t \o b
  <2>1. /\ t \o b \in Text /\ Len(t \o b) = Len(t) + Len(b)
        /\ \A i \in 1..Len(t) + Len(b) : (t \o b)[i] = IF i <= Len(t) THEN t[i] ELSE b[i - Len(t)]
    BY <1>4, ConcatProperties DEF Text
  <2>2. Len(r) = Len(t \o b)
    BY <1>1, <1>2, <1>4, <1>5, <2>1
  <2>3. ASSUME NEW i \in 1..Len(r) PROVE r[i] = (t \o b)[i]
    <3>1. i \in 1..Len(c) - u /\ i \in 1..Len(t) + Len(b) /\ u + i \in 1..Len(a) + Len(b)
      BY <1>1, <1>2, <1>4, <1>5
    <3>2. r[i] = IF u + i <= Len(a) THEN a[u + i] ELSE b[(u + i) - Len(a)]
      BY <1>1, <1>5, <3>1
    <3>3. (u + i <= Len(a) <=> i <= Len(t)) /\ (u + i) - Len(a) = i - Len(t)
      BY <1>1, <1>2, <1>4
    <3>4. CASE i <= Len(t)
      <4>1. i \in 1..Len(a) - u
        BY <1>4, <3>1, <3>4
      <4> QED BY <1>4, <2>1, <3>1, <3>2, <3>3, <3>4, <4>1
    <3>5. CASE ~(i <= Len(t))
      BY <2>1, <3>1, <3>2, <3>3, <3>5
    <3> QED BY <3>4, <3>5
  <2> QED BY <1>5, <2>1, <2>2, <2>3, SeqEqual DEF Text
<1>8. SubSeq(c, 1, u) = SubSeq(a, 1, u)
  <2>1. 1 \in 1..Len(a)
    BY <1>1, <1>2
  <2> QED BY <1>2, <2>1, SubSeqOfConcat1 DEF Text
<1>9. ~(r = <<>> /\ IsCut(c))
  <2> SUFFICES ASSUME r = <<>>, IsCut(c) PROVE FALSE
    OBVIOUS
  <2>1. t = <<>> /\ b = <<>>
    <3>1. \A x, y \in Text : x \o y = <<>> => x = <<>> /\ y = <<>>
      BY ConcatEqualIffEmpty DEF Text
    <3> QED BY <1>4, <1>7, <3>1
  <2>2. c = a
    BY <2>1, ConcatEmptySeq DEF Text
  <2> QED BY <2>1, <2>2
<1> QED BY <1>1, <1>6, <1>7, <1>8, <1>9

\* Of a string that goes on, what was decoded stays decoded, and the rest is
\* that of the bytes held back with those that follow.
LEMMA DecodedConcat ==
  ASSUME NEW a \in Text, NEW b \in Text
  PROVE  LET r == Decoded(Decoded(a).pending \o b) IN
         Decoded(a \o b) = [text |-> Decoded(a).text \o r.text, pending |-> r.pending]
<1> DEFINE Joins(x) == LET r == Decoded(Decoded(x).pending \o b) IN
                       Decoded(x \o b) = [text |-> Decoded(x).text \o r.text, pending |-> r.pending]
           J == {k \in Nat : \A x \in Text : Len(x) = k => Joins(x)}
<1>1. ASSUME NEW k \in Nat, \A l \in Nat : l < k => l \in J PROVE k \in J
  <2> SUFFICES ASSUME NEW x \in Text, Len(x) = k PROVE Joins(x)
    OBVIOUS
  <2>0. /\ \A y \in Text : y \o b \in Text /\ <<>> \o b = b
        /\ \A y \in Seq(Chars) : <<>> \o y = y
    <3>1. \A y \in Text : y \o b \in Text /\ <<>> \o b = b
      BY ConcatProperties, ConcatEmptySeq DEF Text
    <3> QED BY <3>1, ConcatEmptySeq
  <2>1. ASSUME Decoded(x) = [text |-> <<>>, pending |-> x] PROVE Joins(x)
    <3>1. Decoded(x).text = <<>> /\ Decoded(x).pending = x
      BY <2>1
    <3> PICK r : r = Decoded(x \o b)
      OBVIOUS
    <3>2. r = [text |-> r.text, pending |-> r.pending] /\ r.text \in Seq(Chars)
      BY <2>0, DecodedTyped
    <3>3. <<>> \o r.text = r.text
      BY <2>0, <3>2
    <3> QED BY <3>1, <3>2, <3>3
  <2>2. CASE x = <<>>
    BY <2>1, <2>2, DecodedNil
  <2>3. CASE x # <<>>
    <3>1. PICK u : IsFirst(x, u)
      BY <2>3, FirstExists
    <3> PICK t : t = From(x, u)
      OBVIOUS
    <3>2. t \in Text /\ Len(t) \in Nat /\ Len(t) < k
      <4>1. Len(x) \in Nat
        BY LenProperties DEF Text
      <4>2. u \in 0..Len(x) /\ u >= 1
        BY <3>1, <4>1 DEF IsFirst
      <4> QED BY <4>1, <4>2, FromIs
    <3>3. Decoded(x) = IF t = <<>> /\ IsCut(x) THEN [text |-> <<>>, pending |-> x]
                       ELSE [text |-> <<Char(SubSeq(x, 1, u))>> \o Decoded(t).text,
                             pending |-> Decoded(t).pending]
      BY <3>1, DecodedFirst
    <3>4. CASE t = <<>> /\ IsCut(x)
      <4> HIDE DEF Joins
      <4> QED BY <2>1, <3>3, <3>4
    <3>5. CASE ~(t = <<>> /\ IsCut(x))
      <4> PICK h : h = <<Char(SubSeq(x, 1, u))>>
        OBVIOUS
      <4> PICK r : r = Decoded(Decoded(t).pending \o b)
        OBVIOUS
      <4>1. Decoded(x).text = h \o Decoded(t).text /\ Decoded(x).pending = Decoded(t).pending
        BY <3>3, <3>5
      <4>2. /\ x \o b \in Text /\ IsFirst(x \o b, u) /\ From(x \o b, u) = t \o b
            /\ SubSeq(x \o b, 1, u) = SubSeq(x, 1, u)
            /\ ~(From(x \o b, u) = <<>> /\ IsCut(x \o b))
        BY <3>1, <3>5, FirstOfConcat
      <4>3. Decoded(x \o b) = [text |-> h \o Decoded(t \o b).text, pending |-> Decoded(t \o b).pending]
        <5>1. Decoded(x \o b) =
                IF From(x \o b, u) = <<>> /\ IsCut(x \o b) THEN [text |-> <<>>, pending |-> x \o b]
                ELSE [text |-> <<Char(SubSeq(x \o b, 1, u))>> \o Decoded(From(x \o b, u)).text,
                      pending |-> Decoded(From(x \o b, u)).pending]
          BY <4>2, DecodedFirst
        <5> QED BY <4>2, <5>1
      <4>4. Decoded(t \o b).text = Decoded(t).text \o r.text /\ Decoded(t \o b).pending = r.pending
        <5>1. Joins(t)
          <6> HIDE DEF Joins
          <6> QED BY <1>1, <3>2
        <5>2. Decoded(t \o b) = [text |-> Decoded(t).text \o r.text, pending |-> r.pending]
          BY <5>1
        <5> QED BY <5>2, Fields
      <4>5. h \o (Decoded(t).text \o r.text) = (h \o Decoded(t).text) \o r.text
        <5>1. Decoded(t).text \in Seq(Chars) /\ Decoded(t).pending \in Text
          BY <3>2, DecodedTyped
        <5>2. r.text \in Seq(Chars)
          BY <2>0, <5>1, DecodedTyped
        <5>3. h \in Seq(Chars)
          <6>1. Len(x) \in Nat
            BY LenProperties DEF Text
          <6>2. 1 \in 1..Len(x) + 1 /\ u \in 0..Len(x)
            BY <3>1, <6>1 DEF IsFirst
          <6>3. SubSeq(x, 1, u) \in Text
            BY <6>2, PartIs
          <6>4. Char(SubSeq(x, 1, u)) \in Chars
            BY <6>3 DEF Char, Chars
          <6> QED BY <6>4
        <5>4. \A p, q, w \in Seq(Chars) : Assoc(p, q, w)
          BY AssocAlways
        <5>5. Assoc(h, Decoded(t).text, r.text)
          BY <5>1, <5>2, <5>3, <5>4
        <5> QED BY <5>5 DEF Assoc
      <4> QED BY <4>1, <4>3, <4>4, <4>5
    <3> QED BY <3>4, <3>5
  <2> QED BY <2>2, <2>3
<1>2. Nat \subseteq J
  <2> HIDE DEF J
  <2> QED BY <1>1, Induct
<1>3. Len(a) \in J
  BY <1>2, LenProperties DEF Text
<1> QED BY <1>3

-----------------------------------------------------------------------------
(* The characters a string begins with.                                    *)

\* How many bytes its first character would have, and whether s begins with none.
LeadWidth(s) == IF s = <<>> THEN 0 ELSE Width(Head(s))
Bare(s) == LeadWidth(s) = 0 \/ LeadWidth(s) > Len(s) \/ ~IsChar(SubSeq(s, 1, LeadWidth(s)))

\* What CharsFrom is defined by.
CharsEq(f) == f = [s \in Seq(STRING) |->
  LET n == IF s = <<>> THEN 0 ELSE Width(Head(s))
  IN  IF n = 0 \/ n > Len(s) \/ ~IsChar(SubSeq(s, 1, n)) THEN <<>>
      ELSE <<SubSeq(s, 1, n)>> \o f[SubSeq(s, n + 1, Len(s))]]

\* The same in the words of this module.
LEMMA CharsEqIs ==
  ASSUME NEW f
  PROVE  CharsEq(f) <=> f = [s \in Text |-> IF Bare(s) THEN <<>>
                                            ELSE <<SubSeq(s, 1, LeadWidth(s))>> \o f[From(s, LeadWidth(s))]]
BY DEF CharsEq, Bare, LeadWidth, From, Text

\* A string that begins with a character has that many bytes.
LEMMA LeadIs ==
  ASSUME NEW s \in Text, ~Bare(s)
  PROVE  /\ LeadWidth(s) \in 1..Len(s) /\ s # <<>> /\ Len(s) \in Nat
         /\ SubSeq(s, 1, LeadWidth(s)) \in Text
         /\ From(s, LeadWidth(s)) \in Text /\ Len(From(s, LeadWidth(s))) = Len(s) - LeadWidth(s)
<1>1. Len(s) \in Nat
  BY LenProperties DEF Text
<1>2. LeadWidth(s) \in {0, 1, 2, 3, 4} /\ (s = <<>> => LeadWidth(s) = 0)
  BY WidthIs DEF LeadWidth
<1>3. LeadWidth(s) \in 1..Len(s) /\ s # <<>>
  BY <1>1, <1>2 DEF Bare
<1>4. 1 \in 1..Len(s) + 1 /\ LeadWidth(s) \in 0..Len(s)
  BY <1>1, <1>3
<1> QED BY <1>1, <1>3, <1>4, PartIs, FromIs

\* It is what it is defined to be.
LEMMA CharsFromIs ==
  /\ CharsFrom \in [Text -> Seq(Text)]
  /\ \A s \in Text : CharsFrom[s] = IF Bare(s) THEN <<>>
                                    ELSE <<SubSeq(s, 1, LeadWidth(s))>> \o CharsFrom[From(s, LeadWidth(s))]
<1> DEFINE S == Text
           V == Seq(Text)
           size == [s \in S |-> Len(s)]
           Stop == {s \in S : Bare(s)}
           base == [s \in Stop |-> <<>>]
           next == [s \in S \ Stop |-> From(s, LeadWidth(s))]
           G == [s \in S \ Stop |-> [v \in V |-> <<SubSeq(s, 1, LeadWidth(s))>> \o v]]
<1>0. /\ <<>> \in V /\ \A s \in S : Len(s) \in Nat
      /\ \A s \in S \ Stop : <<SubSeq(s, 1, LeadWidth(s))>> \in V
      /\ \A x \in V, y \in V : x \o y \in V
  <2>1. \A s \in S : Len(s) \in Nat
    BY LenProperties DEF Text
  <2>2. ASSUME NEW s \in S \ Stop PROVE <<SubSeq(s, 1, LeadWidth(s))>> \in V
    <3>1. SubSeq(s, 1, LeadWidth(s)) \in Text
      BY LeadIs
    <3> HIDE DEF S, Stop
    <3> QED BY <3>1
  <2> HIDE DEF S, Stop
  <2> QED BY <2>1, <2>2, ConcatProperties
<1>1. /\ size \in [S -> Nat] /\ Stop \in SUBSET S /\ base \in [Stop -> V] /\ next \in [S \ Stop -> S]
      /\ \A s \in S \ Stop : size[next[s]] < size[s]
      /\ G \in [S \ Stop -> [V -> V]]
  <2>1. \A s \in S \ Stop : /\ From(s, LeadWidth(s)) \in S /\ Len(From(s, LeadWidth(s))) = Len(s) - LeadWidth(s)
                            /\ LeadWidth(s) \in 1..Len(s) /\ Len(s) \in Nat
    BY LeadIs
  <2>2. size \in [S -> Nat] /\ Stop \in SUBSET S
    BY <1>0
  <2>3. next \in [S \ Stop -> S] /\ \A s \in S \ Stop : size[next[s]] < size[s]
    <3> HIDE DEF S, Stop
    <3> QED BY <2>1
  <2>4. G \in [S \ Stop -> [V -> V]] /\ base \in [Stop -> V]
    <3> HIDE DEF S, Stop, V
    <3> QED BY <1>0
  <2> HIDE DEF S, Stop, V, size, base, next, G
  <2> QED BY <2>2, <2>3, <2>4
<1>2. \E f : CharsEq(f)
  <2> HIDE DEF S, V, size, Stop, base, next, G
  <2>1. PICK f \in [S -> V] : Follows(f, S, Stop, base, next, G)
    BY <1>1, Recursion
  <2>2. ASSUME NEW s \in S
        PROVE  f[s] = IF Bare(s) THEN <<>> ELSE <<SubSeq(s, 1, LeadWidth(s))>> \o f[From(s, LeadWidth(s))]
    <3>1. f[s] = IF s \in Stop THEN base[s] ELSE G[s][f[next[s]]]
      BY <2>1 DEF Follows
    <3>2. s \in Stop <=> Bare(s)
      BY DEF Stop
    <3>3. CASE Bare(s)
      BY <3>1, <3>2, <3>3 DEF base
    <3>4. CASE ~Bare(s)
      <4>1. s \in S \ Stop /\ next[s] = From(s, LeadWidth(s)) /\ next[s] \in S
        BY <1>1, <3>2, <3>4 DEF next
      <4>2. f[next[s]] \in V
        BY <2>1, <4>1
      <4>3. G[s][f[next[s]]] = <<SubSeq(s, 1, LeadWidth(s))>> \o f[next[s]]
        BY <4>1, <4>2 DEF G
      <4> QED BY <3>1, <3>4, <4>1, <4>3
    <3> QED BY <3>3, <3>4
  <2>3. f = [s \in Text |-> f[s]]
    BY <2>1 DEF S
  <2>4. f = [s \in Text |-> IF Bare(s) THEN <<>> ELSE <<SubSeq(s, 1, LeadWidth(s))>> \o f[From(s, LeadWidth(s))]]
    BY <2>2, <2>3 DEF S
  <2> QED BY <2>4, CharsEqIs
<1>3. CharsEq(CharsFrom)
  <2>1. CharsFrom = CHOOSE f : CharsEq(f)
    BY DEF CharsFrom, CharsEq
  <2> QED BY <1>2, <2>1
<1> PICK f : f = CharsFrom
  OBVIOUS
<1>4. f = [s \in Text |-> IF Bare(s) THEN <<>> ELSE <<SubSeq(s, 1, LeadWidth(s))>> \o f[From(s, LeadWidth(s))]]
  BY <1>3, CharsEqIs
<1>5. \A s \in Text : f[s] = IF Bare(s) THEN <<>> ELSE <<SubSeq(s, 1, LeadWidth(s))>> \o f[From(s, LeadWidth(s))]
  BY <1>4
<1> DEFINE J == {k \in Nat : \A s \in Text : Len(s) = k => f[s] \in V}
<1>6. ASSUME NEW k \in Nat, \A l \in Nat : l < k => l \in J PROVE k \in J
  <2> SUFFICES ASSUME NEW s \in Text, Len(s) = k PROVE f[s] \in V
    OBVIOUS
  <2>1. CASE Bare(s)
    BY <1>0, <1>5, <2>1
  <2>2. CASE ~Bare(s)
    <3> PICK t : t = From(s, LeadWidth(s))
      OBVIOUS
    <3>1. t \in Text /\ Len(t) \in Nat /\ Len(t) < k
      <4>1. /\ LeadWidth(s) \in 1..Len(s) /\ Len(s) \in Nat /\ t \in Text
            /\ Len(t) = Len(s) - LeadWidth(s)
        BY <2>2, LeadIs
      <4> QED BY <4>1
    <3>2. f[t] \in V
      BY <1>6, <3>1
    <3>3. <<SubSeq(s, 1, LeadWidth(s))>> \in V
      BY <1>0, <2>2
    <3>4. f[s] = <<SubSeq(s, 1, LeadWidth(s))>> \o f[t]
      BY <1>5, <2>2
    <3> HIDE DEF V
    <3> QED BY <1>0, <3>2, <3>3, <3>4
  <2> QED BY <2>1, <2>2
<1>7. Nat \subseteq J
  <2> HIDE DEF J
  <2> QED BY <1>6, Induct
<1>8. \A s \in Text : f[s] \in V
  BY <1>0, <1>7
<1>9. f \in [Text -> V]
  <2>1. DOMAIN f = Text /\ f = [s \in DOMAIN f |-> f[s]]
    BY <1>4
  <2> QED BY <1>8, <2>1
<1> QED BY <1>5, <1>9

\* It begins with one exactly if its first character is right.
LEMMA CharFirst ==
  ASSUME NEW s \in Text, NEW u, IsFirst(s, u)
  PROVE  /\ ~Bare(s) <=> IsChar(SubSeq(s, 1, u))
         /\ ~Bare(s) => LeadWidth(s) = u
<1>0. Len(s) \in Nat /\ u \in 1..Len(s) /\ u \in 0..Len(s) /\ 1 \in 1..Len(s) + 1
  <2>1. Len(s) \in Nat
    BY LenProperties DEF Text
  <2> QED BY <2>1 DEF IsFirst
<1>1. s # <<>> /\ Head(s) = s[1] /\ LeadWidth(s) = Width(s[1])
  BY <1>0, EmptySeq DEF Text, LeadWidth
<1>2. Width(s[1]) \in {1, 2, 3, 4}
  BY WidthIs
<1>3. ASSUME NEW n \in 1..Len(s)
      PROVE  IsChar(SubSeq(s, 1, n)) <=>
               s[1] \notin {"C", "X"} /\ n = Width(s[1]) /\ \A i \in 2..n : s[i] = "C"
  <2> PICK p : p = SubSeq(s, 1, n)
    OBVIOUS
  <2>1. p \in Text /\ Len(p) = n /\ \A i \in 1..n : p[i] = s[i]
    <3>1. n \in 0..Len(s) /\ 1 <= n /\ n - 1 + 1 = n /\ \A i \in 1..n : 1 + i - 1 = i
      BY <1>0
    <3>2. /\ p \in Text /\ Len(p) = (IF 1 <= n THEN n - 1 + 1 ELSE 0)
          /\ \A i \in 1..n - 1 + 1 : p[i] = s[1 + i - 1]
      BY <1>0, <3>1, PartIs
    <3> QED BY <3>1, <3>2
  <2>2. p # <<>> /\ Head(p) = s[1]
    BY <2>1, EmptySeq DEF Text
  <2>3. \A i \in 2..n : i \in 1..n
    BY <1>0
  <2> QED BY <2>1, <2>2, <2>3 DEF IsChar
<1>4. /\ u <= Width(s[1]) /\ \A i \in 2..u : s[i] = "C"
      /\ u < Len(s) /\ u < Width(s[1]) => s[u + 1] # "C"
  BY DEF IsFirst
<1>5. ASSUME ~Bare(s) PROVE LeadWidth(s) = u /\ IsChar(SubSeq(s, 1, u))
  <2> PICK n : n = LeadWidth(s)
    OBVIOUS
  <2>1. n \in 1..Len(s) /\ n = Width(s[1]) /\ IsChar(SubSeq(s, 1, n))
    BY <1>1, <1>5, LeadIs DEF Bare
  <2>2. \A i \in 2..n : s[i] = "C"
    BY <1>3, <2>1
  <2>3. ~(u < n)
    <3> SUFFICES ASSUME u < n PROVE FALSE
      OBVIOUS
    <3>1. u + 1 \in 2..n /\ u < Len(s) /\ u < Width(s[1])
      BY <1>0, <2>1
    <3> QED BY <1>4, <2>2, <3>1
  <2>4. u = n
    BY <1>0, <1>4, <2>1, <2>3
  <2> QED BY <2>1, <2>4
<1>6. ASSUME IsChar(SubSeq(s, 1, u)) PROVE ~Bare(s)
  <2>1. u = Width(s[1])
    BY <1>0, <1>3, <1>6
  <2> QED BY <1>0, <1>1, <1>6, <2>1 DEF Bare
<1> QED BY <1>5, <1>6

-----------------------------------------------------------------------------
(* What push makes of a string.                                            *)

\* Twice a part cut off the front is one part cut off.
LEMMA FromFrom ==
  ASSUME NEW s \in Text, NEW u \in 0..Len(s), NEW v \in 0..Len(s) - u
  PROVE  From(From(s, u), v) = From(s, u + v)
<1>1. Len(s) \in Nat /\ Len(From(s, u)) = Len(s) - u
  BY LenProperties, FromIs DEF Text
<1>2. v + 1 \in 1..(Len(s) - u) + 1 /\ Len(s) - u \in 0..Len(s) - u
  BY <1>1
<1>3. SubSeq(s, u + (v + 1), u + (Len(s) - u)) = SubSeq(From(s, u), v + 1, Len(s) - u)
  BY <1>2, PartBehind
<1>4. u + (v + 1) = (u + v) + 1 /\ u + (Len(s) - u) = Len(s)
  BY <1>1
<1> QED BY <1>1, <1>3, <1>4 DEF From

\* The valid part is none where no character begins, and otherwise the first
\* character and the valid part behind it.
LEMMA ValidStep ==
  ASSUME NEW s \in Text
  PROVE  /\ ValidUpTo(s) \in Nat
         /\ Bare(s) => CharsFrom[s] = <<>> /\ ValidUpTo(s) = 0
         /\ ~Bare(s) => ValidUpTo(s) = LeadWidth(s) + ValidUpTo(From(s, LeadWidth(s)))
<1>1. \A x \in Text : CharsFrom[x] \in Seq(Text) /\ FlattenSeq(CharsFrom[x]) \in Text
  <2> SUFFICES ASSUME NEW x \in Text PROVE CharsFrom[x] \in Seq(Text) /\ FlattenSeq(CharsFrom[x]) \in Text
    OBVIOUS
  <2> PICK c : c = CharsFrom[x]
    OBVIOUS
  <2>1. c \in Seq(Text)
    BY CharsFromIs
  <2>2. <<>> \in Seq(STRING) /\ c \in Seq(Seq(STRING))
    BY <2>1 DEF Text
  <2>3. FlattenSeq(c) \in Seq(STRING)
    BY <2>2, FlattenAppend
  <2> QED BY <2>1, <2>3 DEF Text
<1>2. \A x \in Text : ValidUpTo(x) = Len(FlattenSeq(CharsFrom[x])) /\ ValidUpTo(x) \in Nat
  BY <1>1, LenProperties DEF ValidUpTo, Text
<1>3. ASSUME Bare(s) PROVE CharsFrom[s] = <<>> /\ ValidUpTo(s) = 0
  <2>1. CharsFrom[s] = <<>>
    BY <1>3, CharsFromIs
  <2>2. FlattenSeq(<<>>) = <<>>
    BY DEF FlattenSeq
  <2> QED BY <1>2, <2>1, <2>2
<1>4. ASSUME ~Bare(s) PROVE ValidUpTo(s) = LeadWidth(s) + ValidUpTo(From(s, LeadWidth(s)))
  <2> PICK w, t, p : w = LeadWidth(s) /\ t = From(s, w) /\ p = SubSeq(s, 1, w)
    OBVIOUS
  <2>1. w \in 1..Len(s) /\ Len(s) \in Nat /\ t \in Text /\ p \in Text
    BY <1>4, LeadIs
  <2>2. Len(p) = w
    <3>1. 1 \in 1..Len(s) + 1 /\ w \in 0..Len(s) /\ 1 <= w /\ w - 1 + 1 = w
      BY <2>1
    <3> QED BY <3>1, PartIs
  <2> PICK c, d : c = CharsFrom[s] /\ d = CharsFrom[t]
    OBVIOUS
  <2>3. c = <<p>> \o d
    BY <1>4, CharsFromIs
  <2>4. d \in Seq(Seq(STRING)) /\ p \in Seq(STRING)
    BY <1>1, <2>1 DEF Text
  <2>5. FlattenSeq(c) = p \o FlattenSeq(d)
    BY <2>3, <2>4, FlattenCons
  <2>6. FlattenSeq(d) \in Text
    BY <1>1, <2>1
  <2>7. Len(p \o FlattenSeq(d)) = Len(p) + Len(FlattenSeq(d))
    BY <2>1, <2>6, ConcatProperties DEF Text
  <2>8. ValidUpTo(s) = Len(FlattenSeq(c)) /\ ValidUpTo(t) = Len(FlattenSeq(d))
    BY <1>2, <2>1
  <2> QED BY <2>2, <2>5, <2>7, <2>8
<1> QED BY <1>2, <1>3, <1>4

\* What is left behind the valid part.
Rest(s) == From(s, ValidUpTo(s))

\* No character begins what is left, and it is the same without the first one.
LEMMA RestIs ==
  ASSUME NEW s \in Text
  PROVE  /\ ValidUpTo(s) \in 0..Len(s) /\ Rest(s) \in Text
         /\ Bare(Rest(s))
         /\ Bare(s) => Rest(s) = s
         /\ ~Bare(s) => Rest(s) = Rest(From(s, LeadWidth(s)))
<1> DEFINE J == {k \in Nat : \A x \in Text : Len(x) = k =>
                   /\ ValidUpTo(x) \in 0..Len(x)
                   /\ Bare(Rest(x))
                   /\ Bare(x) => Rest(x) = x
                   /\ ~Bare(x) => Rest(x) = Rest(From(x, LeadWidth(x)))}
<1>1. ASSUME NEW k \in Nat, \A l \in Nat : l < k => l \in J PROVE k \in J
  <2> SUFFICES ASSUME NEW x \in Text, Len(x) = k
               PROVE  /\ ValidUpTo(x) \in 0..Len(x)
                      /\ Bare(Rest(x))
                      /\ Bare(x) => Rest(x) = x
                      /\ ~Bare(x) => Rest(x) = Rest(From(x, LeadWidth(x)))
    OBVIOUS
  <2>1. CASE Bare(x)
    <3>1. ValidUpTo(x) = 0
      BY <2>1, ValidStep
    <3>2. From(x, 0) = x
      BY SubSeqFull DEF From, Text
    <3>3. Rest(x) = x
      BY <3>1, <3>2 DEF Rest
    <3> QED BY <2>1, <3>1, <3>3
  <2>2. CASE ~Bare(x)
    <3> PICK w, t : w = LeadWidth(x) /\ t = From(x, w)
      OBVIOUS
    <3>1. w \in 1..Len(x) /\ Len(x) \in Nat /\ t \in Text /\ Len(t) = Len(x) - w
      BY <2>2, LeadIs
    <3>2. Len(t) \in Nat /\ Len(t) < k /\ w \in 0..Len(x)
      BY <3>1
    <3>3. ValidUpTo(t) \in 0..Len(t) /\ Bare(Rest(t))
      BY <1>1, <3>1, <3>2
    <3>4. ValidUpTo(x) = w + ValidUpTo(t)
      BY <2>2, ValidStep
    <3>5. ValidUpTo(t) \in 0..Len(x) - w /\ w + ValidUpTo(t) \in 0..Len(x)
      BY <3>1, <3>3
    <3>6. From(t, ValidUpTo(t)) = From(x, w + ValidUpTo(t))
      BY <3>2, <3>5, FromFrom
    <3>7. Rest(x) = Rest(t)
      BY <3>4, <3>6 DEF Rest
    <3> QED BY <2>2, <3>3, <3>4, <3>5, <3>7
  <2> QED BY <2>1, <2>2
<1>2. Nat \subseteq J
  <2> HIDE DEF J
  <2> QED BY <1>1, Induct
<1>3. Len(s) \in J
  BY <1>2, LenProperties DEF Text
<1>4. ValidUpTo(s) \in 0..Len(s)
  BY <1>3
<1>5. Rest(s) \in Text
  BY <1>4, FromIs DEF Rest
<1> QED BY <1>3, <1>4, <1>5

\* A wrong first character is as long as error_len says, unless it may still
\* become a right one.
LEMMA ErrorLenIs ==
  ASSUME NEW s \in Text, NEW u, IsFirst(s, u), Bare(s)
  PROVE  /\ ErrorLen(s) = IF IsCut(s) THEN 0 ELSE u
         /\ IsCut(s) => u = Len(s)
<1>0. Len(s) \in Nat /\ u \in 1..Len(s) /\ 1 \in 1..Len(s) + 1
  <2>1. Len(s) \in Nat
    BY LenProperties DEF Text
  <2> QED BY <2>1 DEF IsFirst
<1>1. s # <<>> /\ Head(s) = s[1]
  BY <1>0, EmptySeq DEF Text
<1>2. Width(s[1]) \in {1, 2, 3, 4} /\ (s[1] \in {"C", "X"} => Width(s[1]) = 1)
  BY WidthIs
<1>3. ASSUME NEW n \in 1..Len(s)
      PROVE  /\ IsCut(SubSeq(s, 1, n)) <=> n < Width(s[1]) /\ \A i \in 2..n : s[i] = "C"
             /\ IsChar(SubSeq(s, 1, n)) <=>
                  s[1] \notin {"C", "X"} /\ n = Width(s[1]) /\ \A i \in 2..n : s[i] = "C"
  <2> PICK p : p = SubSeq(s, 1, n)
    OBVIOUS
  <2>1. p \in Text /\ Len(p) = n /\ \A i \in 1..n : p[i] = s[i]
    <3>1. n \in 0..Len(s) /\ 1 <= n /\ n - 1 + 1 = n /\ \A i \in 1..n : 1 + i - 1 = i
      BY <1>0
    <3>2. /\ p \in Text /\ Len(p) = (IF 1 <= n THEN n - 1 + 1 ELSE 0)
          /\ \A i \in 1..n - 1 + 1 : p[i] = s[1 + i - 1]
      BY <1>0, <3>1, PartIs
    <3> QED BY <3>1, <3>2
  <2>2. p # <<>> /\ Head(p) = s[1]
    BY <2>1, EmptySeq DEF Text
  <2>3. \A i \in 2..n : i \in 1..n
    BY <1>0
  <2> QED BY <2>1, <2>2, <2>3 DEF IsChar, IsCut
<1>4. /\ u <= Width(s[1]) /\ \A i \in 2..u : s[i] = "C"
      /\ u < Len(s) /\ u < Width(s[1]) => s[u + 1] # "C"
  BY DEF IsFirst
<1>5. ~IsChar(SubSeq(s, 1, u))
  BY CharFirst
<1>6. IsCut(s) => u = Len(s)
  <2> SUFFICES ASSUME IsCut(s), u # Len(s) PROVE FALSE
    OBVIOUS
  <2>1. Len(s) < Width(s[1]) /\ \A i \in 2..Len(s) : s[i] = "C"
    BY <1>1 DEF IsCut
  <2>2. u < Len(s) /\ u < Width(s[1]) /\ u + 1 \in 2..Len(s)
    BY <1>0, <1>2, <2>1
  <2> QED BY <1>4, <2>1, <2>2
<1>7. ASSUME ~IsCut(s) PROVE ErrorLen(s) = u
  <2> PICK E : E = {1} \cup {n \in 2..Len(s) : IsCut(SubSeq(s, 1, n))}
    OBVIOUS
  <2>1. u \in E
    <3>1. CASE u = 1
      BY <3>1
    <3>2. CASE u # 1
      <4>1. u \in 2..Len(s)
        BY <1>0, <3>2
      <4>2. u # Width(s[1])
        BY <1>0, <1>2, <1>3, <1>4, <1>5, <3>2
      <4>3. u < Width(s[1])
        BY <1>0, <1>2, <1>4, <4>2
      <4> QED BY <1>0, <1>3, <1>4, <4>1, <4>3
    <3> QED BY <3>1, <3>2
  <2>2. ASSUME NEW n \in E PROVE n \in Nat /\ n <= u
    <3>1. CASE n = 1
      BY <1>0, <3>1
    <3>2. CASE n # 1
      <4>1. n \in 2..Len(s) /\ IsCut(SubSeq(s, 1, n)) /\ n \in 1..Len(s)
        BY <1>0, <3>2
      <4>2. n < Width(s[1]) /\ \A i \in 2..n : s[i] = "C"
        BY <1>3, <4>1
      <4>3. ~(u < n)
        <5> SUFFICES ASSUME u < n PROVE FALSE
          OBVIOUS
        <5>1. u < Len(s) /\ u < Width(s[1]) /\ u + 1 \in 2..n
          BY <1>0, <1>2, <4>1, <4>2
        <5> QED BY <1>4, <4>2, <5>1
      <4> QED BY <1>0, <4>1, <4>3
    <3> QED BY <3>1, <3>2
  <2>3. Max(E) \in E /\ \A y \in E : Max(E) >= y
    <3>1. \E x \in E : \A y \in E : x >= y
      BY <1>0, <2>1, <2>2
    <3>2. Max(E) = CHOOSE x \in E : \A y \in E : x >= y
      BY DEF Max
    <3> QED BY <3>1, <3>2
  <2>4. Max(E) = u
    BY <1>0, <2>1, <2>2, <2>3
  <2> QED BY <1>7, <2>4 DEF ErrorLen
<1>8. IsCut(s) => ErrorLen(s) = 0
  BY DEF ErrorLen
<1> QED BY <1>6, <1>7, <1>8

\* Whether push stops at s, what it goes on with if not, and what it yields.
Stops(s)   == Rest(s) = <<>> \/ ErrorLen(Rest(s)) = 0
Behind(s)  == From(Rest(s), ErrorLen(Rest(s)))
Yield(s, d) == [text |-> CharsFrom[s] \o <<Replacement>> \o d.text, pending |-> d.pending]
Pushed     == [text : Seq(Chars), pending : Text]

\* What Assemble is defined by.
AssembleEq(f) == f = [s \in Seq(STRING) |->
  LET valid == ValidUpTo(s)
      rest  == SubSeq(s, valid + 1, Len(s))
      bad   == ErrorLen(rest)
      next  == f[SubSeq(rest, bad + 1, Len(rest))]
  IN  IF rest = <<>> \/ bad = 0 THEN [text |-> CharsFrom[s], pending |-> rest]
      ELSE [text |-> CharsFrom[s] \o <<Replacement>> \o next.text, pending |-> next.pending]]

\* The same in the words of this module.
LEMMA AssembleEqIs ==
  ASSUME NEW f
  PROVE  AssembleEq(f) <=> f = [s \in Text |-> IF Stops(s) THEN [text |-> CharsFrom[s], pending |-> Rest(s)]
                                               ELSE Yield(s, f[Behind(s)])]
BY DEF AssembleEq, Stops, Behind, Yield, Rest, From, Text

\* What push goes on with is shorter.
LEMMA BehindIs ==
  ASSUME NEW s \in Text, ~Stops(s)
  PROVE  Behind(s) \in Text /\ Len(Behind(s)) \in Nat /\ Len(Behind(s)) < Len(s)
<1> PICK r : r = Rest(s)
  OBVIOUS
<1>1. r \in Text /\ Len(s) \in Nat /\ Len(r) \in Nat /\ Len(r) <= Len(s)
  <2>1. ValidUpTo(s) \in 0..Len(s) /\ r \in Text
    BY RestIs
  <2>2. Len(r) = Len(s) - ValidUpTo(s) /\ Len(s) \in Nat
    BY <2>1, FromIs, LenProperties DEF Rest, Text
  <2> QED BY <2>1, <2>2
<1>2. r # <<>> /\ Bare(r)
  BY RestIs DEF Stops
<1>3. PICK u : IsFirst(r, u)
  BY <1>1, <1>2, FirstExists
<1>4. ErrorLen(r) = u
  <2>1. ErrorLen(r) # 0
    BY DEF Stops
  <2> QED BY <1>1, <1>2, <1>3, <2>1, ErrorLenIs
<1>5. u \in 1..Len(r) /\ u \in 0..Len(r)
  BY <1>1, <1>3 DEF IsFirst
<1>6. Behind(s) = From(r, u)
  BY <1>4 DEF Behind
<1>7. From(r, u) \in Text /\ Len(From(r, u)) = Len(r) - u
  BY <1>1, <1>5, FromIs
<1> QED BY <1>1, <1>5, <1>6, <1>7

\* The values push yields, of the right kind.
LEMMA YieldTyped ==
  ASSUME NEW s \in Text
  PROVE  /\ [text |-> CharsFrom[s], pending |-> Rest(s)] \in Pushed
         /\ \A d \in Pushed : Yield(s, d) \in Pushed
<1>1. CharsFrom[s] \in Seq(Chars)
  <2>1. CharsFrom[s] \in Seq(Text)
    BY CharsFromIs
  <2>2. Text \subseteq Chars
    BY DEF Chars
  <2> HIDE DEF Text
  <2> QED BY <2>1, <2>2
<1>2. Rest(s) \in Text
  BY RestIs
<1>3. \A p, q \in Seq(Chars) : p \o q \in Seq(Chars)
  BY ConcatProperties
<1>4. Replacement \in Chars /\ <<Replacement>> \in Seq(Chars)
  <2>1. Replacement \in Chars
    BY DEF Chars
  <2> QED BY <2>1
<1>5. ASSUME NEW d \in Pushed PROVE Yield(s, d) \in Pushed
  <2>1. d.text \in Seq(Chars) /\ d.pending \in Text
    BY DEF Pushed
  <2>2. CharsFrom[s] \o <<Replacement>> \o d.text \in Seq(Chars)
    BY <1>1, <1>3, <1>4, <2>1
  <2> QED BY <2>1, <2>2 DEF Yield, Pushed
<1> QED BY <1>1, <1>2, <1>5 DEF Pushed

\* Assemble is what it is defined to be.
LEMMA AssembleIs ==
  /\ Assemble \in [Text -> Pushed]
  /\ \A s \in Text : Assemble[s] = IF Stops(s) THEN [text |-> CharsFrom[s], pending |-> Rest(s)]
                                   ELSE Yield(s, Assemble[Behind(s)])
<1> DEFINE S == Text
           V == Pushed
           AtEnd(s) == [text |-> CharsFrom[s], pending |-> Rest(s)]
           size == [s \in S |-> Len(s)]
           Stop == {s \in S : Stops(s)}
           base == [s \in Stop |-> AtEnd(s)]
           next == [s \in S \ Stop |-> Behind(s)]
           G == [s \in S \ Stop |-> [v \in V |-> Yield(s, v)]]
<1>1. /\ size \in [S -> Nat] /\ Stop \in SUBSET S /\ base \in [Stop -> V] /\ next \in [S \ Stop -> S]
      /\ \A s \in S \ Stop : size[next[s]] < size[s]
      /\ G \in [S \ Stop -> [V -> V]]
  <2>0. \A s \in S : Len(s) \in Nat
    BY LenProperties DEF Text
  <2>1. \A s \in S \ Stop : Behind(s) \in S /\ Len(Behind(s)) < Len(s)
    BY BehindIs
  <2>2. \A s \in S : AtEnd(s) \in V /\ \A v \in V : Yield(s, v) \in V
    BY YieldTyped
  <2>3. size \in [S -> Nat] /\ Stop \in SUBSET S
    BY <2>0
  <2> HIDE DEF V, AtEnd
  <2>4. next \in [S \ Stop -> S] /\ \A s \in S \ Stop : size[next[s]] < size[s]
    <3> HIDE DEF S, Stop
    <3> QED BY <2>1
  <2>5. base \in [Stop -> V]
    <3> HIDE DEF S
    <3> QED BY <2>2
  <2>6. G \in [S \ Stop -> [V -> V]]
    <3> HIDE DEF S, Stop
    <3> QED BY <2>2
  <2> HIDE DEF S, Stop, size, base, next, G
  <2> QED BY <2>3, <2>4, <2>5, <2>6
<1>2. \E f : AssembleEq(f)
  <2> HIDE DEF S, V, size, Stop, base, next, G, AtEnd
  <2>1. PICK f \in [S -> V] : Follows(f, S, Stop, base, next, G)
    BY <1>1, Recursion
  <2>2. ASSUME NEW s \in S
        PROVE  f[s] = IF Stops(s) THEN AtEnd(s) ELSE Yield(s, f[Behind(s)])
    <3>1. f[s] = IF s \in Stop THEN base[s] ELSE G[s][f[next[s]]]
      BY <2>1 DEF Follows
    <3>2. s \in Stop <=> Stops(s)
      BY DEF Stop
    <3>3. CASE Stops(s)
      BY <3>1, <3>2, <3>3 DEF base
    <3>4. CASE ~Stops(s)
      <4>1. s \in S \ Stop /\ next[s] = Behind(s) /\ next[s] \in S
        BY <1>1, <3>2, <3>4 DEF next
      <4>2. f[next[s]] \in V
        BY <2>1, <4>1
      <4>3. G[s][f[next[s]]] = Yield(s, f[next[s]])
        BY <4>1, <4>2 DEF G
      <4> QED BY <3>1, <3>4, <4>1, <4>3
    <3> QED BY <3>3, <3>4
  <2>3. f = [s \in Text |-> f[s]]
    BY <2>1 DEF S
  <2>4. f = [s \in Text |-> IF Stops(s) THEN [text |-> CharsFrom[s], pending |-> Rest(s)]
                            ELSE Yield(s, f[Behind(s)])]
    BY <2>2, <2>3 DEF S, AtEnd
  <2> QED BY <2>4, AssembleEqIs
<1>3. AssembleEq(Assemble)
  <2>1. Assemble = CHOOSE f : AssembleEq(f)
    BY DEF Assemble, AssembleEq
  <2> QED BY <1>2, <2>1
<1> PICK f : f = Assemble
  OBVIOUS
<1>4. f = [s \in Text |-> IF Stops(s) THEN [text |-> CharsFrom[s], pending |-> Rest(s)]
                          ELSE Yield(s, f[Behind(s)])]
  BY <1>3, AssembleEqIs
<1>5. \A s \in Text : f[s] = IF Stops(s) THEN [text |-> CharsFrom[s], pending |-> Rest(s)]
                             ELSE Yield(s, f[Behind(s)])
  BY <1>4
<1> DEFINE J == {k \in Nat : \A s \in Text : Len(s) = k => f[s] \in Pushed}
<1>6. ASSUME NEW k \in Nat, \A l \in Nat : l < k => l \in J PROVE k \in J
  <2> SUFFICES ASSUME NEW s \in Text, Len(s) = k PROVE f[s] \in Pushed
    OBVIOUS
  <2>1. CASE Stops(s)
    BY <1>5, <2>1, YieldTyped
  <2>2. CASE ~Stops(s)
    <3>1. Behind(s) \in Text /\ Len(Behind(s)) \in Nat /\ Len(Behind(s)) < k
      BY <2>2, BehindIs
    <3>2. f[Behind(s)] \in Pushed
      BY <1>6, <3>1
    <3> QED BY <1>5, <2>2, <3>2, YieldTyped
  <2> QED BY <2>1, <2>2
<1>7. Nat \subseteq J
  <2> HIDE DEF J
  <2> QED BY <1>6, Induct
<1>8. \A s \in Text : f[s] \in Pushed
  BY <1>7, LenProperties DEF Text
<1>9. f \in [Text -> Pushed]
  <2>1. DOMAIN f = Text /\ f = [s \in DOMAIN f |-> f[s]]
    BY <1>4
  <2> QED BY <1>8, <2>1
<1> QED BY <1>5, <1>9

\* Of nothing, push makes nothing.
LEMMA AssembleNil ==
  Assemble[<<>>] = [text |-> <<>>, pending |-> <<>>]
<1>1. <<>> \in Text /\ Bare(<<>>)
  BY DEF Text, Bare, LeadWidth
<1>2. CharsFrom[<<>>] = <<>> /\ Rest(<<>>) = <<>>
  BY <1>1, ValidStep, RestIs
<1>3. Stops(<<>>)
  BY <1>2 DEF Stops
<1> QED BY <1>1, <1>2, <1>3, AssembleIs

\* The fields of what push yields.
Has(e, x, y) == e.text = x /\ e.pending = y

\* Four strings one after another, joined in two ways.
Joins(a, b, c, d) == ((a \o b) \o c) \o d = a \o ((b \o c) \o d)

\* Both are the same.
LEMMA JoinsAlways ==
  ASSUME NEW X
  PROVE  \A a, b, c, d \in Seq(X) : Joins(a, b, c, d)
<1>1. \A x, y \in Seq(X) : x \o y \in Seq(X)
  BY ConcatProperties
<1>2. \A x, y, z \in Seq(X) : Assoc(x, y, z)
  BY AssocAlways
<1> TAKE a, b, c, d \in Seq(X)
<1>3. b \o c \in Seq(X)
  BY <1>1
<1>4. Assoc(a, b, c) /\ Assoc(a, b \o c, d)
  BY <1>2, <1>3
<1> QED BY <1>4 DEF Joins, Assoc

\* As they are in what push yields.
LEMMA YieldJoins ==
  ASSUME NEW p \in Text, NEW c \in Seq(Text), NEW d \in Seq(Chars)
  PROVE  Joins(<<p>>, c, <<Replacement>>, d)
<1>1. Text \subseteq Chars /\ p \in Chars /\ Replacement \in Chars
  BY DEF Chars
<1>2. c \in Seq(Chars)
  <2> HIDE DEF Text
  <2> QED BY <1>1
<1>3. <<p>> \in Seq(Chars) /\ <<Replacement>> \in Seq(Chars)
  BY <1>1
<1>4. \A x, y, z, w \in Seq(Chars) : Joins(x, y, z, w)
  BY JoinsAlways
<1> QED BY <1>2, <1>3, <1>4

\* push takes the first character and goes on behind it, as Decoded does.
LEMMA AssembleFirst ==
  ASSUME NEW s \in Text, NEW u, IsFirst(s, u)
  PROVE  LET t == From(s, u) IN
         Assemble[s] = IF t = <<>> /\ IsCut(s) THEN [text |-> <<>>, pending |-> s]
                       ELSE [text |-> <<Char(SubSeq(s, 1, u))>> \o Assemble[t].text,
                             pending |-> Assemble[t].pending]
<1> PICK t : t = From(s, u)
  OBVIOUS
<1> PICK p : p = SubSeq(s, 1, u)
  OBVIOUS
<1>0. /\ Len(s) \in Nat /\ u \in Nat /\ u >= 1 /\ u <= Len(s) /\ u \in 0..Len(s)
      /\ t \in Text /\ Len(t) = Len(s) - u /\ s # <<>> /\ p \in Text
  <2>1. Len(s) \in Nat
    BY LenProperties DEF Text
  <2>2. u \in Nat /\ u >= 1 /\ u <= Len(s) /\ u \in 0..Len(s) /\ s # <<>> /\ 1 \in 1..Len(s) + 1
    BY <2>1, EmptySeq DEF IsFirst, Text
  <2> QED BY <2>1, <2>2, FromIs, PartIs
<1> PICK A : A = Assemble
  OBVIOUS
<1>1. A[t] \in Pushed
  BY <1>0, AssembleIs
<1>2. A[s] = IF Stops(s) THEN [text |-> CharsFrom[s], pending |-> Rest(s)]
             ELSE Yield(s, A[Behind(s)])
  BY AssembleIs
<1>3. A[t] = IF Stops(t) THEN [text |-> CharsFrom[t], pending |-> Rest(t)]
             ELSE Yield(t, A[Behind(t)])
  BY <1>0, AssembleIs
<1>4. CASE ~Bare(s)
  <2>1. LeadWidth(s) = u /\ IsChar(p) /\ Char(p) = p
    BY <1>4, CharFirst DEF Char
  <2>2. ~(t = <<>> /\ IsCut(s))
    <3> SUFFICES ASSUME t = <<>>, IsCut(s) PROVE FALSE
      OBVIOUS
    <3>1. Len(s) = u
      BY <1>0, EmptySeq DEF Text
    <3>2. p = s
      BY <3>1, SubSeqFull DEF Text
    <3>3. Len(s) = Width(Head(s)) /\ Len(s) < Width(Head(s))
      BY <2>1, <3>2 DEF IsChar, IsCut
    <3> QED BY <1>0, <3>3
  <2>3. CharsFrom[s] = <<p>> \o CharsFrom[t]
    BY <1>4, <2>1, CharsFromIs
  <2>4. Rest(s) = Rest(t)
    BY <1>4, <2>1, RestIs
  <2>5. (Stops(s) <=> Stops(t)) /\ Behind(s) = Behind(t)
    BY <2>4 DEF Stops, Behind
  <2>6. CASE Stops(t)
    <3>1. A[s] = [text |-> <<p>> \o CharsFrom[t], pending |-> Rest(t)]
      BY <1>2, <2>3, <2>4, <2>5, <2>6
    <3>2. A[t].text = CharsFrom[t] /\ A[t].pending = Rest(t)
      BY <1>3, <2>6
    <3> QED BY <2>1, <2>2, <3>1, <3>2
  <2>7. CASE ~Stops(t)
    <3> PICK d, ct : d = A[Behind(t)] /\ ct = CharsFrom[t]
      OBVIOUS
    <3>0. Behind(t) \in Text
      BY <1>0, <2>7, BehindIs
    <3>1. d \in Pushed
      BY <3>0, AssembleIs
    <3>2. A[s] = [text |-> ((<<p>> \o ct) \o <<Replacement>>) \o d.text, pending |-> d.pending]
      BY <1>2, <2>3, <2>5, <2>7 DEF Yield
    <3>3. A[t] = [text |-> (ct \o <<Replacement>>) \o d.text, pending |-> d.pending]
      BY <1>3, <2>7 DEF Yield
    <3>4. ((<<p>> \o ct) \o <<Replacement>>) \o d.text = <<p>> \o ((ct \o <<Replacement>>) \o d.text)
      <4>1. ct \in Seq(Text)
        BY <1>0, CharsFromIs
      <4>2. d.text \in Seq(Chars)
        BY <3>1 DEF Pushed
      <4>3. Joins(<<p>>, ct, <<Replacement>>, d.text)
        BY <1>0, <4>1, <4>2, YieldJoins
      <4> QED BY <4>3 DEF Joins
    <3>5. A[t].text = (ct \o <<Replacement>>) \o d.text /\ A[t].pending = d.pending
      <4>1. \A e, x, y : e = [text |-> x, pending |-> y] => Has(e, x, y)
        BY Fields DEF Has
      <4>2. Has(A[t], (ct \o <<Replacement>>) \o d.text, d.pending)
        BY <3>3, <4>1
      <4> QED BY <4>2 DEF Has
    <3>6. A[s] = [text |-> <<p>> \o A[t].text, pending |-> A[t].pending]
      BY <3>2, <3>4, <3>5
    <3> QED BY <2>1, <2>2, <3>6
  <2> QED BY <2>6, <2>7
<1>5. CASE Bare(s)
  <2>1. Rest(s) = s /\ CharsFrom[s] = <<>>
    BY <1>5, RestIs, ValidStep
  <2>2. ErrorLen(s) = (IF IsCut(s) THEN 0 ELSE u) /\ (IsCut(s) => u = Len(s))
    BY <1>5, ErrorLenIs
  <2>3. CASE IsCut(s)
    <3>1. Stops(s)
      BY <2>1, <2>2, <2>3 DEF Stops
    <3>2. t = <<>>
      BY <1>0, <2>2, <2>3, EmptySeq DEF Text
    <3> QED BY <1>2, <2>1, <2>3, <3>1, <3>2
  <2>4. CASE ~IsCut(s)
    <3>1. ErrorLen(s) = u /\ u # 0
      BY <1>0, <2>2, <2>4
    <3>2. ~Stops(s) /\ Behind(s) = t
      BY <1>0, <2>1, <3>1 DEF Stops, Behind
    <3>3. Char(p) = Replacement
      BY <1>5, CharFirst DEF Char
    <3>4. A[s] = [text |-> <<>> \o <<Replacement>> \o A[t].text, pending |-> A[t].pending]
      BY <1>2, <2>1, <3>2 DEF Yield
    <3>5. <<>> \o <<Replacement>> = <<Replacement>>
      OBVIOUS
    <3> QED BY <2>4, <3>3, <3>4, <3>5
  <2> QED BY <2>3, <2>4
<1> QED BY <1>4, <1>5

\* So push yields what the bytes say.
LEMMA AssembleDecodes ==
  ASSUME NEW s \in Text
  PROVE  Assemble[s] = Decoded(s)
<1> PICK A : A = Assemble
  OBVIOUS
<1> DEFINE J == {k \in Nat : \A x \in Text : Len(x) = k => A[x] = Decoded(x)}
<1>1. ASSUME NEW k \in Nat, \A l \in Nat : l < k => l \in J PROVE k \in J
  <2> SUFFICES ASSUME NEW x \in Text, Len(x) = k PROVE A[x] = Decoded(x)
    OBVIOUS
  <2>1. CASE x = <<>>
    BY <2>1, AssembleNil, DecodedNil
  <2>2. CASE x # <<>>
    <3>1. PICK u : IsFirst(x, u)
      BY <2>2, FirstExists
    <3> PICK t : t = From(x, u)
      OBVIOUS
    <3>2. t \in Text /\ Len(t) \in Nat /\ Len(t) < k
      <4>1. Len(x) \in Nat
        BY LenProperties DEF Text
      <4>2. u \in 1..Len(x) /\ u \in 0..Len(x)
        BY <3>1, <4>1 DEF IsFirst
      <4>3. t \in Text /\ Len(t) = Len(x) - u
        BY <4>2, FromIs
      <4> QED BY <4>1, <4>2, <4>3
    <3>3. A[t] = Decoded(t)
      BY <1>1, <3>2
    <3>4. Decoded(x) = IF t = <<>> /\ IsCut(x) THEN [text |-> <<>>, pending |-> x]
                       ELSE [text |-> <<Char(SubSeq(x, 1, u))>> \o Decoded(t).text,
                             pending |-> Decoded(t).pending]
      BY <3>1, DecodedFirst
    <3>5. A[x] = IF t = <<>> /\ IsCut(x) THEN [text |-> <<>>, pending |-> x]
                 ELSE [text |-> <<Char(SubSeq(x, 1, u))>> \o A[t].text,
                       pending |-> A[t].pending]
      BY <3>1, AssembleFirst
    <3> QED BY <3>3, <3>4, <3>5
  <2> QED BY <2>1, <2>2
<1>2. Nat \subseteq J
  <2> HIDE DEF J
  <2> QED BY <1>1, Induct
<1>3. Len(s) \in J
  BY <1>2, LenProperties DEF Text
<1> QED BY <1>3

-----------------------------------------------------------------------------
(* What was sent of what was read.                                         *)

\* The bytes of the items.
Pieces(items) == [i \in DOMAIN items |-> items[i].bytes]

\* Strings of bytes, and one more after them.
LEMMA PiecesIs ==
  ASSUME ReaderAssumption, NEW items \in Seq(Item)
  PROVE  /\ Pieces(items) \in Seq(Seq(Token))
         /\ \A it \in Item : it.bytes \in Seq(Token) /\ Pieces(Append(items, it)) = Append(Pieces(items), it.bytes)
<1> PICK m : m = Len(items)
  OBVIOUS
<1>0. /\ m \in Nat /\ DOMAIN items = 1..m /\ \A i \in 1..m : items[i] \in Item
  BY LenProperties, ElementOfSeq
<1>1. \A it \in Item : it.bytes \in Seq(Token)
  BY DEF ReaderAssumption
<1> PICK p : p = Pieces(items)
  OBVIOUS
<1>2. p = [i \in 1..m |-> items[i].bytes]
  BY <1>0 DEF Pieces
<1>3. p \in Seq(Seq(Token)) /\ Len(p) = m
  <2>1. p \in [1..m -> Seq(Token)]
    BY <1>0, <1>1, <1>2
  <2> QED BY <1>0, <1>2, <2>1
<1>4. ASSUME NEW it \in Item PROVE Pieces(Append(items, it)) = Append(p, it.bytes)
  <2> PICK t, q, b : t = Append(items, it) /\ q = Pieces(t) /\ b = it.bytes
    OBVIOUS
  <2>1. /\ t \in Seq(Item) /\ Len(t) = m + 1 /\ t[m + 1] = it
        /\ \A i \in 1..m : t[i] = items[i]
    BY <1>0, AppendProperties
  <2>2. DOMAIN t = 1..m + 1
    BY <2>1, LenProperties
  <2>3. q = [i \in 1..m + 1 |-> t[i].bytes]
    BY <2>2 DEF Pieces
  <2>4. \A i \in 1..m + 1 : t[i] \in Item
    BY <2>1, ElementOfSeq
  <2>5. q \in Seq(Seq(Token)) /\ Len(q) = m + 1
    <3>1. q \in [1..m + 1 -> Seq(Token)]
      BY <1>1, <2>3, <2>4
    <3> QED BY <1>0, <2>3, <3>1
  <2>6. b \in Seq(Token)
    BY <1>1
  <2> PICK a : a = Append(p, b)
    OBVIOUS
  <2>7. /\ a \in Seq(Seq(Token)) /\ Len(a) = m + 1 /\ a[m + 1] = b
        /\ \A i \in 1..m : a[i] = p[i]
    BY <1>3, <2>6, AppendProperties
  <2>8. ASSUME NEW i \in 1..Len(q) PROVE q[i] = a[i]
    <3>1. CASE i = m + 1
      BY <1>0, <2>1, <2>3, <2>7, <3>1
    <3>2. CASE i # m + 1
      <4>1. i \in 1..m /\ i \in 1..m + 1
        BY <1>0, <2>5, <3>2
      <4> QED BY <1>2, <2>1, <2>3, <2>7, <4>1
    <3> QED BY <3>1, <3>2
  <2>9. q = a
    <3>1. \A x, y \in Seq(Seq(Token)) : Len(x) = Len(y) /\ (\A i \in 1..Len(x) : x[i] = y[i]) => x = y
      BY SeqEqual
    <3> QED BY <2>5, <2>7, <2>8, <3>1
  <2> QED BY <2>9
<1> QED BY <1>1, <1>3, <1>4

\* Bytes are strings.
LEMMA TokensAreText == Seq(Token) \subseteq Text
<1>1. Token \subseteq STRING
  BY TokenAssumption DEF TokenAssumption
<1> SUFFICES ASSUME NEW s \in Seq(Token) PROVE s \in Seq(STRING)
  BY DEF Text
<1>2. Len(s) \in Nat /\ s \in [1..Len(s) -> Token]
  BY LenProperties
<1>3. s \in [1..Len(s) -> STRING]
  BY <1>1, <1>2
<1> QED BY <1>2, <1>3

\* What was read and what was not make up what was written, and what was read
\* says what was sent and is held back.
TextInv ==
  \E r \in Seq(Token) :
    /\ FlattenSeq(Pieces(written)) = r \o unread
    /\ Decoded(r) = [text |-> lo, pending |-> pending]

\* The steps keep it.
LEMMA StepText ==
  ASSUME ReaderAssumption, TypeOK, TextInv, [Next]_vars
  PROVE  TextInv'
<1> PICK r \in Seq(Token) : /\ FlattenSeq(Pieces(written)) = r \o unread
                            /\ Decoded(r) = [text |-> lo, pending |-> pending]
  BY DEF TextInv
<1>0. written \in Seq(Item) /\ unread \in Seq(Token)
  BY DEF TypeOK
<1>1. CASE Write
  <2>1. PICK it \in Item : written' = Append(written, it) /\ unread' = unread \o it.bytes
    BY <1>1 DEF Write
  <2>2. /\ Pieces(written) \in Seq(Seq(Token)) /\ it.bytes \in Seq(Token)
        /\ Pieces(written') = Append(Pieces(written), it.bytes)
    BY <1>0, <2>1, PiecesIs
  <2>3. FlattenSeq(Pieces(written')) = FlattenSeq(Pieces(written)) \o it.bytes
    <3> PICK p, b : p = Pieces(written) /\ b = it.bytes
      OBVIOUS
    <3>1. FlattenSeq(Append(p, b)) = FlattenSeq(p) \o b
      BY <2>2, FlattenAppend
    <3> QED BY <2>2, <3>1
  <2>4. (r \o unread) \o it.bytes = r \o (unread \o it.bytes)
    <3>1. \A x, y, z \in Seq(Token) : Assoc(x, y, z)
      BY AssocAlways
    <3> QED BY <1>0, <2>2, <3>1 DEF Assoc
  <2>5. lo' = lo /\ pending' = pending
    BY <1>1 DEF Write
  <2>6. FlattenSeq(Pieces(written')) = r \o unread'
    BY <2>1, <2>3, <2>4
  <2> QED BY <2>5, <2>6 DEF TextInv, Pieces
<1>2. CASE Read
  <2>1. PICK n \in 1..Buf : /\ n <= Len(unread)
                            /\ chunk' = SubSeq(unread, 1, n)
                            /\ unread' = SubSeq(unread, n + 1, Len(unread))
    BY <1>2 DEF Read
  <2> PICK c : c = SubSeq(unread, 1, n)
    OBVIOUS
  <2> PICK v : v = SubSeq(unread, n + 1, Len(unread))
    OBVIOUS
  <2>2. n \in Nat /\ n >= 1 /\ Len(unread) \in Nat
    BY <1>0, <2>1, LenProperties DEF ReaderAssumption
  <2>3. c \in Seq(Token) /\ v \in Seq(Token) /\ c \o v = unread
    <3>1. /\ c \in Seq(Token) /\ Len(c) = n /\ \A i \in 1..n : c[i] = unread[i]
      <4>1. \A i \in 1..n : unread[i] \in Token
        BY <1>0, <2>1, <2>2, ElementOfSeq
      <4>2. 1 \in Int /\ n \in Int /\ 1 <= n /\ n - 1 + 1 = n /\ \A i \in 1..n : 1 + i - 1 = i
        BY <2>2
      <4>3. /\ c \in Seq(Token) /\ Len(c) = (IF 1 <= n THEN n - 1 + 1 ELSE 0)
            /\ \A i \in 1..n - 1 + 1 : c[i] = unread[1 + i - 1]
        BY <4>1, <4>2, SubSeqProperties
      <4> QED BY <4>2, <4>3
    <3>2. unread \in Text /\ n \in 0..Len(unread)
      BY <1>0, <2>1, <2>2, TokensAreText
    <3>3. Len(v) = Len(unread) - n /\ \A i \in 1..Len(unread) - n : v[i] = unread[n + i]
      BY <3>2, FromIs DEF From
    <3>4. v \in Seq(Token)
      <4>1. \A i \in n + 1..Len(unread) : unread[i] \in Token
        BY <1>0, <2>2, ElementOfSeq
      <4> QED BY <2>2, <4>1, SubSeqProperties
    <3>5. /\ c \o v \in Seq(Token) /\ Len(c \o v) = Len(unread)
          /\ \A i \in 1..Len(unread) : (c \o v)[i] = IF i <= n THEN c[i] ELSE v[i - n]
      BY <2>1, <2>2, <3>1, <3>3, <3>4, ConcatProperties
    <3>6. \A i \in 1..Len(unread) : (c \o v)[i] = unread[i]
      <4> SUFFICES ASSUME NEW i \in 1..Len(unread) PROVE (c \o v)[i] = unread[i]
        OBVIOUS
      <4>1. CASE i <= n
        <5>1. (c \o v)[i] = c[i]
          BY <3>5, <4>1
        <5>2. c[i] = unread[i]
          BY <2>2, <3>1, <4>1
        <5> QED BY <5>1, <5>2
      <4>2. CASE ~(i <= n)
        <5>1. i - n \in 1..Len(unread) - n /\ n + (i - n) = i
          BY <2>2, <4>2
        <5> QED BY <3>3, <3>5, <4>2, <5>1
      <4> QED BY <4>1, <4>2
    <3>7. c \o v = unread
      BY <1>0, <3>5, <3>6, SeqEqual
    <3> QED BY <3>1, <3>4, <3>7
  <2>4. r \o unread = (r \o c) \o v /\ r \o c \in Seq(Token)
    <3>1. \A x, y, z \in Seq(Token) : Assoc(x, y, z)
      BY AssocAlways
    <3>2. (r \o c) \o v = r \o (c \o v)
      BY <2>3, <3>1 DEF Assoc
    <3>3. r \o c \in Seq(Token)
      BY <2>3, ConcatProperties
    <3> QED BY <2>3, <3>2, <3>3
  <2>5. r \in Text /\ c \in Text
    BY <2>3, TokensAreText
  <2>6. Decoded(r).text = lo /\ Decoded(r).pending = pending
    <3> PICK d : d = Decoded(r)
      OBVIOUS
    <3>1. d = [text |-> lo, pending |-> pending]
      OBVIOUS
    <3>2. d.text = lo /\ d.pending = pending
      BY <3>1, Fields
    <3> QED BY <3>2
  <2>7. pending \in Text
    BY <2>5, <2>6, DecodedTyped
  <2>8. Push(pending, c) = Decoded(pending \o c)
    <3>1. pending \o c \in Text
      BY <2>5, <2>7, ConcatProperties DEF Text
    <3> QED BY <3>1, AssembleDecodes DEF Push
  <2>9. lo' = lo \o Push(pending, c).text /\ pending' = Push(pending, c).pending
    BY <1>2, <2>1 DEF Read
  <2>10. Decoded(r \o c) = [text |-> Decoded(r).text \o Decoded(Decoded(r).pending \o c).text,
                            pending |-> Decoded(Decoded(r).pending \o c).pending]
    BY <2>5, DecodedConcat
  <2>11. Decoded(r \o c) = [text |-> lo', pending |-> pending']
    BY <2>6, <2>8, <2>9, <2>10
  <2>12. written' = written
    BY <1>2 DEF Read
  <2>13. FlattenSeq(Pieces(written')) = (r \o c) \o unread'
    BY <2>1, <2>4, <2>12
  <2> QED BY <2>4, <2>11, <2>13 DEF TextInv, Pieces
<1>3. CASE UNCHANGED <<written, unread, pending, lo>>
  BY <1>3 DEF TextInv, Pieces
<1>4. CASE ParseByte
  BY <1>3, <1>4 DEF ParseByte
<1>5. CASE Dispatch
  BY <1>3, <1>5 DEF Dispatch
<1>6. CASE UNCHANGED vars
  BY <1>3, <1>6 DEF vars
<1> QED BY <1>1, <1>2, <1>4, <1>5, <1>6 DEF Next

\* The bytes read are those the invariant speaks of.
LEMMA TextHolds ==
  ASSUME ReaderAssumption, TypeOK, TextInv
  PROVE  TextFaithful
<1> PICK r \in Seq(Token) : /\ FlattenSeq(Pieces(written)) = r \o unread
                            /\ Decoded(r) = [text |-> lo, pending |-> pending]
  BY DEF TextInv
<1> PICK all : all = FlattenSeq(Pieces(written))
  OBVIOUS
<1>0. unread \in Seq(Token)
  BY DEF TypeOK
<1>1. /\ Len(r) \in Nat /\ Len(unread) \in Nat
      /\ all \in Seq(Token) /\ Len(all) = Len(r) + Len(unread)
      /\ \A i \in 1..Len(r) + Len(unread) : all[i] = IF i <= Len(r) THEN r[i] ELSE unread[i - Len(r)]
  BY <1>0, ConcatProperties, LenProperties
<1> PICK m : m = Len(r)
  OBVIOUS
<1>2. Len(all) - Len(unread) = m /\ m \in Nat
  BY <1>1
<1>3. SubSeq(all, 1, m) = r
  <2> PICK q : q = SubSeq(all, 1, m)
    OBVIOUS
  <2>1. all \in Text /\ r \in Text /\ 1 \in 1..Len(all) + 1 /\ m \in 0..Len(all)
    <3>1. all \in Text /\ r \in Text
      BY <1>1, TokensAreText
    <3>2. Len(all) = m + Len(unread) /\ m \in Nat /\ Len(unread) \in Nat
      BY <1>1
    <3>3. 1 \in 1..Len(all) + 1 /\ m \in 0..Len(all)
      BY <3>2
    <3> QED BY <3>1, <3>3
  <2>2. q \in Text /\ Len(q) = m /\ \A i \in 1..m : q[i] = all[i]
    BY <2>1, FrontIs
  <2>5. \A i \in 1..m : all[i] = r[i]
    BY <1>1, <1>2
  <2>6. q = r
    BY <2>1, <2>2, <2>5, SeqEqual DEF Text
  <2> QED BY <2>6
<1>4. BytesRead = SubSeq(all, 1, Len(all) - Len(unread))
  BY DEF BytesRead, Pieces
<1>5. BytesRead = r
  BY <1>2, <1>3, <1>4
<1> QED BY <1>5 DEF TextFaithful

\* However the reads cut what the programs write, channel 1 carries its text.
THEOREM TextIsFaithful == Spec => []TextFaithful
<1>1. Init => TextInv
  <2> SUFFICES ASSUME Init PROVE TextInv
    OBVIOUS
  <2>1. written = <<>> /\ unread = <<>> /\ lo = <<>> /\ pending = <<>>
    BY DEF Init
  <2>2. Pieces(<<>>) = <<>>
    BY DEF Pieces
  <2>3. FlattenSeq(<<>>) = <<>>
    BY DEF FlattenSeq
  <2>4. <<>> \in Seq(Token) /\ <<>> = <<>> \o <<>>
    OBVIOUS
  <2> QED BY <2>1, <2>2, <2>3, <2>4, DecodedNil DEF TextInv
<1>2. TypeOK /\ TextInv /\ [Next]_vars => TextInv'
  BY ReaderAssumption, StepText
<1>3. TypeOK /\ TextInv => TextFaithful
  BY ReaderAssumption, TextHolds
<1> QED BY <1>1, <1>2, <1>3, ReaderTyped, PTL DEF Spec

=============================================================================
