------------------------------ MODULE Utf8Tail ------------------------------
(***************************************************************************)
(* Utf8TailBuffer (src/channels/output.rs): text out of bytes that arrive  *)
(* in pieces.  A byte is told apart only by its part in UTF-8: the first   *)
(* of two (L2), three (L3) or four (L4), a continuation (C), one that      *)
(* occurs in no character (X), and everything else, which is a character   *)
(* by itself.  That the second byte after E0, ED, F0 and F4 is restricted  *)
(* further is left out: L3 and L4 are the other first bytes.               *)
(***************************************************************************)
EXTENDS Naturals, Sequences, SequencesExt, FiniteSetsExt

Replacement == <<"U+FFFD">>

\* How many bytes a character that starts with b has.
Width(b) == CASE b = "L2" -> 2 [] b = "L3" -> 3 [] b = "L4" -> 4 [] OTHER -> 1

IsChar(s) ==
  /\ s # <<>> /\ Head(s) \notin {"C", "X"}
  /\ Len(s) = Width(Head(s))
  /\ \A i \in 2..Len(s) : s[i] = "C"

\* s begins a character and does not finish it.
IsCut(s) ==
  /\ s # <<>> /\ Len(s) < Width(Head(s))
  /\ \A i \in 2..Len(s) : s[i] = "C"

\* std::str::from_utf8: the characters s begins with, each by itself.
CharsFrom[s \in Seq(STRING)] ==
  LET n == IF s = <<>> THEN 0 ELSE Width(Head(s))
  IN  IF n = 0 \/ n > Len(s) \/ ~IsChar(SubSeq(s, 1, n)) THEN <<>>
      ELSE <<SubSeq(s, 1, n)>> \o CharsFrom[SubSeq(s, n + 1, Len(s))]

\* valid_up_to, and what is left behind it.
ValidUpTo(s) == Len(FlattenSeq(CharsFrom[s]))

\* Mutant: every wrong byte is replaced by itself.
ErrorLen_One(s) == IF IsCut(s) THEN 0 ELSE 1

\* error_len of a string that starts with a wrong byte; 0 is None: it may still
\* become a character.
ErrorLen(s) ==
  IF IsCut(s) THEN 0
  ELSE Max({1} \cup {n \in 2..Len(s) : IsCut(SubSeq(s, 1, n))})

\* The loop of push on the bytes pending: the text it yields and what it keeps.
Assemble[s \in Seq(STRING)] ==
  LET valid == ValidUpTo(s)
      rest  == SubSeq(s, valid + 1, Len(s))
      bad   == ErrorLen(rest)
      next  == Assemble[SubSeq(rest, bad + 1, Len(rest))]
  IN  IF rest = <<>> \/ bad = 0 THEN [text |-> CharsFrom[s], pending |-> rest]
      ELSE [text |-> CharsFrom[s] \o <<Replacement>> \o next.text, pending |-> next.pending]

Push(pending, bytes) == Assemble[pending \o bytes]

=============================================================================
