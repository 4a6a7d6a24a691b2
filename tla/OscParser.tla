----------------------------- MODULE OscParser -----------------------------
(***************************************************************************)
(* The OSC/DCS state machine of channel 3 (src/channels/osc.rs) as a       *)
(* function from a parser and one byte to a parser and the events it       *)
(* yields.  Bytes that only ever stand together (a command number, a key,  *)
(* a status word, the prefix "tmux;") are one token: nothing in the parser *)
(* depends on where they are cut, it only collects them.                   *)
(***************************************************************************)
EXTENDS Naturals, Sequences, SequencesExt, FiniteSetsExt

CONSTANT Token     \* what a byte of the terminal's output may be

ESC == "ESC"
BEL == "BEL"
Command == {"0", "2", "9", "21337"}
State   == {"Working", "Waiting", "Idle"}

ASSUME TokenAssumption ==
  /\ Token \subseteq STRING
  /\ {ESC, BEL, "]", "P", "\\", ";", "=", "tmux;", "status"} \cup Command \cup State \subseteq Token

\* An OscEvent; a tab status keeps the one field that anything reads.
TabStatus(s) == [t |-> "tab", status |-> s]
Title    == [t |-> "title"]
Progress == [t |-> "progress"]
Bell     == [t |-> "bell"]

\* A parser between two bytes: its state and the body it is collecting.
Parser == [st : {"Ground", "Esc", "Osc", "Dcs"}, buf : Seq(Token)]
Fresh  == [st |-> "Ground", buf |-> <<>>]

-----------------------------------------------------------------------------
(* Bodies *)

\* The status field among the fields that split(';') leaves, the last one if
\* there are several; <<>> stands for one that is absent as well as for an empty
\* one, which no caller tells apart. Escaped characters (osc.rs:204) do not occur
\* in the states, which are all that is read of the field.
StatusField(data) ==
  LET given  == {i \in 1..Len(data) - 1 : /\ i = 1 \/ data[i - 1] = ";"
                                         /\ data[i] = "status" /\ data[i + 1] = "="}
      from   == Max(given) + 2
      ending == {k \in from..Len(data) : data[k] = ";"}
  IN  IF given = {} THEN <<>>
      ELSE SubSeq(data, from, IF ending = {} THEN Len(data) ELSE Min(ending) - 1)

\* The event of a finished OSC, if it is of a command that is recognised.
BodyEvents(body) ==
  LET semi == SelectInSeq(body, LAMBDA b : b = ";")
      cmd  == IF semi = 0 THEN body ELSE SubSeq(body, 1, semi - 1)
      data == IF semi = 0 THEN <<>> ELSE SubSeq(body, semi + 1, Len(body))
  IN  CASE cmd \in {<<"0">>, <<"2">>} -> <<Title>>
        [] cmd = <<"9">> /\ data # <<>> /\ data[1] = "4" /\ (Len(data) = 1 \/ data[2] = ";") -> <<Progress>>
        [] cmd = <<"21337">> -> <<TabStatus(StatusField(data))>>
        [] OTHER -> <<>>

\* An ESC that stands on an even place in a run of them is the second of a pair.
SecondOfPair(s, i) ==
  /\ s[i] = ESC
  /\ \E j \in 1..i - 1 : /\ \A k \in j..i : s[k] = ESC
                         /\ j = 1 \/ s[j - 1] # ESC
                         /\ (i - j) % 2 = 1

\* The n-th of a set of places.
NthOf(places, n) == CHOOSE i \in places : Cardinality({j \in places : j <= i}) = n

UndoubleEsc(s) ==
  LET kept == {i \in DOMAIN s : ~SecondOfPair(s, i)}
  IN  [n \in 1..Cardinality(kept) |-> s[NthOf(kept, n)]]

\* What a finished DCS wraps: tmux doubles every ESC, screen wraps as it is.
Unwrapped(body) ==
  IF body # <<>> /\ Head(body) = "tmux;" THEN UndoubleEsc(Tail(body)) ELSE body

-----------------------------------------------------------------------------
(* Bytes *)

\* The body so far ends in the first half of ST.
StBegun(p) == p.buf # <<>> /\ Last(p.buf) = ESC

\* Mutant: only BEL ends an OSC.
EndsOsc_BelOnly(p, b) == p.st = "Osc" /\ b = BEL

EndsOsc(p, b) == p.st = "Osc" /\ (b = BEL \/ (b = "\\" /\ StBegun(p)))

EndsDcs(p, b) == p.st = "Dcs" /\ b = "\\" /\ StBegun(p)

\* The body when b ends it: without the ESC of an ST.
Finished(p, b) == IF b = BEL THEN p.buf ELSE Front(p.buf)

FromGround(p, b) == IF b = ESC THEN [p EXCEPT !.st = "Esc"] ELSE p

\* A CSI, like anything else that opens neither an OSC nor a DCS, is skipped.
FromEsc(p, b) ==
  CASE b = "]" -> [st |-> "Osc", buf |-> <<>>]
    [] b = "P" -> [st |-> "Dcs", buf |-> <<>>]
    [] b = ESC -> p
    [] OTHER   -> [p EXCEPT !.st = "Ground"]

InBody(p, b) ==
  IF EndsOsc(p, b) \/ EndsDcs(p, b) THEN Fresh ELSE [p EXCEPT !.buf = Append(@, b)]

\* The parser after the byte b.
After(p, b) ==
  CASE p.st = "Ground" -> FromGround(p, b)
    [] p.st = "Esc" -> FromEsc(p, b)
    [] OTHER -> InBody(p, b)

\* The events that b yields; Refeed is what becomes of the inside of a DCS.
Yields(p, b, Refeed(_)) ==
  CASE p.st = "Ground" /\ b = BEL -> <<Bell>>
    [] EndsOsc(p, b) -> BodyEvents(Finished(p, b))
    [] EndsDcs(p, b) -> Refeed(Unwrapped(Finished(p, b)))
    [] OTHER -> <<>>

\* A parser of its own reads s from the start; what it has not finished is lost.
FeedFresh(s, Refeed(_)) ==
  FoldLeft(LAMBDA acc, b : [p  |-> After(acc.p, b), ev |-> acc.ev \o Yields(acc.p, b, Refeed)],
           [p |-> Fresh, ev |-> <<>>], s).ev

\* The parser fed from the terminal is at depth 0; a DCS that ends at depth 2 is ignored.
FeedDepth2(s) == FeedFresh(s, LAMBDA inner : <<>>)
\* Mutant: the guard is one level too low.
FeedDepth1_Guarded(s) == <<>>

FeedDepth1(s) == FeedFresh(s, FeedDepth2)
EventsOf(p, b) == Yields(p, b, FeedDepth1)

=============================================================================
