----------------------------- MODULE PtyReader -----------------------------
(***************************************************************************)
(* The task that reads the terminal (src/main.rs): bytes arrive in chunks, *)
(* cut anywhere; of each chunk the text goes to channel 1, then the states *)
(* and bells found in it to channel 3, and the end of a turn to the        *)
(* transcript watcher.  The channels have room here (Bridge fills them).   *)
(***************************************************************************)
EXTENDS OscParser, Utf8Tail

CONSTANTS
  Item,     \* what programs write in one piece: its bytes, what channel 3 should
            \* say of it, and whether it leaves an OSC open
  Buf,      \* the most bytes one read returns (8192 in the code)
  MaxItems  \* bound: items written in a behaviour

Message == State \cup {"notify"}
None    == "None"

ASSUME ReaderAssumption ==
  /\ Item \subseteq [bytes : Seq(Token), says : Seq(Message), cut : BOOLEAN]
  /\ Buf \in Nat \ {0} /\ MaxItems \in Nat

VARIABLES
  written,   \* the items written to the terminal
  unread,    \* the bytes not yet read
  parser,    \* the OscParser at depth 0
  pending,   \* the bytes Utf8TailBuffer holds back
  chunk,     \* what the parser has yet to be fed of the chunk read last
  found,     \* the events of that chunk that are not dealt with yet
  prev,      \* prev_state
  lo, hi,    \* the characters sent on channel 1, the messages on channel 3
  refreshes  \* how often the watcher was poked

vars == <<written, unread, parser, pending, chunk, found, prev, lo, hi, refreshes>>

Init ==
  /\ written = <<>> /\ unread = <<>>
  /\ parser = Fresh /\ pending = <<>>
  /\ chunk = <<>> /\ found = <<>> /\ prev = None
  /\ lo = <<>> /\ hi = <<>> /\ refreshes = 0

Write ==
  /\ Len(written) < MaxItems
  /\ \E it \in Item : written' = Append(written, it) /\ unread' = unread \o it.bytes
  /\ UNCHANGED <<parser, pending, chunk, found, prev, lo, hi, refreshes>>

\* read returns; the text of the chunk is sent before the parser sees it.
Read ==
  /\ chunk = <<>> /\ found = <<>>
  /\ \E n \in 1..Buf :
       /\ n <= Len(unread)
       /\ chunk'  = SubSeq(unread, 1, n)
       /\ unread' = SubSeq(unread, n + 1, Len(unread))
  /\ LET push == Push(pending, chunk')
     IN  lo' = lo \o push.text /\ pending' = push.pending
  /\ UNCHANGED <<written, parser, found, prev, hi, refreshes>>

\* One byte of osc.feed.
ParseByte ==
  /\ chunk # <<>>
  /\ parser' = After(parser, Head(chunk))
  /\ found'  = found \o EventsOf(parser, Head(chunk))
  /\ chunk'  = Tail(chunk)
  /\ UNCHANGED <<written, unread, pending, prev, lo, hi, refreshes>>

\* Mutant: any text is a state.
StateOf_AnyText(status) == IF status # <<>> THEN Head(status) ELSE None

\* state_from_status, which looks at the beginning only (spaces, which it trims
\* first, are not among the tokens).
StateOf(status) == IF status # <<>> /\ Head(status) \in State THEN Head(status) ELSE None

StateIn(e) == IF e.t = "tab" THEN StateOf(e.status) ELSE None

\* osc_to_outgoing; titles, progress and unknown states are not surfaced.
Outgoing(e) ==
  IF e.t = "bell" THEN <<"notify">> ELSE IF StateIn(e) # None THEN <<StateIn(e)>> ELSE <<>>

TurnEnd(from, to) == from = "Working" /\ to \in {"Idle", "Waiting"}

\* Mutant: an event without a state makes the reader forget the last one.
Dispatch_Forgets ==
  /\ chunk = <<>> /\ found # <<>>
  /\ LET s == StateIn(Head(found))
     IN  /\ prev' = s
         /\ refreshes' = IF TurnEnd(prev, s) THEN refreshes + 1 ELSE refreshes
  /\ hi'    = hi \o Outgoing(Head(found))
  /\ found' = Tail(found)
  /\ UNCHANGED <<written, unread, parser, pending, chunk, lo>>

\* The body of the loop over the events of a chunk.
Dispatch ==
  /\ chunk = <<>> /\ found # <<>>
  /\ LET s == StateIn(Head(found))
     IN  /\ prev' = IF s = None THEN prev ELSE s
         /\ refreshes' = IF TurnEnd(prev, s) THEN refreshes + 1 ELSE refreshes
  /\ hi'    = hi \o Outgoing(Head(found))
  /\ found' = Tail(found)
  /\ UNCHANGED <<written, unread, parser, pending, chunk, lo>>

Next == Write \/ Read \/ ParseByte \/ Dispatch

Spec == Init /\ [][Next]_vars

-----------------------------------------------------------------------------
(* What the terminal's output means, read as a whole *)

BytesRead ==
  LET all == FlattenSeq([i \in DOMAIN written |-> written[i].bytes])
  IN  SubSeq(all, 1, Len(all) - Len(unread))

\* s[i] continues the character that the nearest other byte before it starts.
Continues(s, i) ==
  \E j \in 1..i - 1 : i - j < Width(s[j]) /\ \A k \in j + 1..i : s[k] = "C"

\* Where the characters of s begin, right or wrong, in order.
Starts(s) ==
  LET upTo[i \in 0..Len(s)] ==
        IF i = 0 THEN <<>> ELSE IF Continues(s, i) THEN upTo[i - 1] ELSE Append(upTo[i - 1], i)
  IN  upTo[Len(s)]

\* The characters of s, a wrong one replaced, and the unfinished one it ends in.
Decoded(s) ==
  LET starts == Starts(s)
      end(n) == IF n = Len(starts) THEN Len(s) ELSE starts[n + 1] - 1
      unit(n) == SubSeq(s, starts[n], end(n))
      held   == starts # <<>> /\ IsCut(unit(Len(starts)))
  IN  [text |-> [n \in 1..IF held THEN Len(starts) - 1 ELSE Len(starts) |->
                   IF IsChar(unit(n)) THEN unit(n) ELSE Replacement],
       pending |-> IF held THEN unit(Len(starts)) ELSE <<>>]

\* An item ends an OSC left open before it when it holds a terminator.
Terminates(it) ==
  \E i \in DOMAIN it.bytes :
    \/ it.bytes[i] = BEL
    \/ i > 1 /\ it.bytes[i] = "\\" /\ it.bytes[i - 1] = ESC

\* What channel 3 says of the items: an OSC left open costs the next item that
\* has a terminator, and nothing more.
Said(items) ==
  FoldLeft(LAMBDA acc, it :
             IF acc.open THEN [acc EXCEPT !.open = ~Terminates(it)]
             ELSE [open |-> it.cut, out |-> acc.out \o it.says],
           [open |-> FALSE, out |-> <<>>], items).out

AllRead == unread = <<>> /\ chunk = <<>> /\ found = <<>>

\* The message at i ends a turn: with the state before it, bells between them.
EndsTurn(msgs, i) ==
  \E j \in 1..i - 1 : TurnEnd(msgs[j], msgs[i]) /\ \A k \in j + 1..i - 1 : msgs[k] = "notify"

TurnEnds(msgs) == Cardinality({i \in DOMAIN msgs : EndsTurn(msgs, i)})

-----------------------------------------------------------------------------
\* The state is well typed.
TypeOK ==
  /\ written \in Seq(Item) /\ unread \in Seq(Token) /\ chunk \in Seq(Token)
  /\ parser \in Parser
  /\ prev \in State \cup {None}
  /\ hi \in Seq(Message) /\ refreshes \in Nat

\* Wherever the reads cut the bytes, channel 1 carries the text of all of them,
\* with U+FFFD for each longest wrong run, and holds back only the beginning of
\* a character that may still be finished (output.rs, Utf8TailBuffer::push).
TextFaithful == Decoded(BytesRead) = [text |-> lo, pending |-> pending]

\* Wherever the reads cut the bytes, channel 3 reports the states and bells of
\* the items in their order, each ended and wrapped as its item says, whatever
\* text, CSI or invalid bytes lie between, and an unfinished OSC costs one item
\* (osc.rs, OscParser::feed; claude.rs, osc_to_outgoing).
StatusFaithful ==
  /\ IsPrefix(hi, Said(written))
  /\ AllRead => hi = Said(written)

\* The watcher is poked exactly once for each turn that ends, however the states
\* and bells reach the reader and whatever unknown states come between
\* (main.rs, the reader's loop).
TurnEndsSignalled == refreshes = TurnEnds(hi)

NoStIn(s)  == \A i \in 2..Len(s) : ~(s[i] = "\\" /\ s[i - 1] = ESC)
NoBelIn(s) == \A i \in 1..Len(s) : s[i] # BEL

Open(p) ==
  /\ p.st \in {"Osc", "Dcs"} => NoStIn(p.buf)
  /\ p.st = "Osc" => NoBelIn(p.buf)

\* The body an open sequence has collected never contains what would have ended
\* it, wherever the chunks were cut (osc.rs, OscParser::step).
BodyOpen == Open(parser)

=============================================================================
