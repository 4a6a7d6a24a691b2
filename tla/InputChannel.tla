---------------------------- MODULE InputChannel ----------------------------
(***************************************************************************)
(* What the encrypted session of a dashboard promises for the frames it    *)
(* sends to the controller.  A session opens at the dashboard (half: the   *)
(* controller has yet to authenticate it), may become full, and may die at *)
(* the controller's end without the dashboard knowing; the dashboard may   *)
(* start over at any time.  Frames are received only in a full session,    *)
(* only after they were sent, in order and once each.                      *)
(***************************************************************************)
EXTENDS Naturals

CONSTANT Dash

VARIABLES
  st,    \* "none", "half", "full", "dead"
  sent,  \* frames the dashboard has sent in the session
  got    \* frames of it the controller has received

vars == <<st, sent, got>>

Init ==
  /\ st   = [c \in Dash |-> "none"]
  /\ sent = [c \in Dash |-> 0]
  /\ got  = [c \in Dash |-> 0]

\* The dashboard's first frame, its request for the transcript, goes out with
\* the message that opens the session.
Open(c) ==
  /\ st[c] = "none"
  /\ \E s \in {"half", "dead"} : st' = [st EXCEPT ![c] = s]
  /\ sent' = [sent EXCEPT ![c] = 1]
  /\ UNCHANGED got

Admit(c) ==
  /\ st[c] = "half"
  /\ st' = [st EXCEPT ![c] = "full"]
  /\ UNCHANGED <<sent, got>>

Transmit(c) ==
  /\ st[c] # "none"
  /\ sent' = [sent EXCEPT ![c] = @ + 1]
  /\ UNCHANGED <<st, got>>

Receive(c) ==
  /\ st[c] = "full" /\ got[c] < sent[c]
  /\ got' = [got EXCEPT ![c] = @ + 1]
  /\ UNCHANGED <<st, sent>>

\* The controller loses its end of some sessions at once.
Lose(S) ==
  /\ \A c \in S : st[c] \in {"half", "full"}
  /\ st'  = [c \in Dash |-> IF c \in S THEN "dead" ELSE st[c]]
  /\ got' = [c \in Dash |-> IF c \in S THEN 0 ELSE got[c]]
  /\ UNCHANGED sent

Restart(c) ==
  /\ st'   = [st EXCEPT ![c] = "none"]
  /\ sent' = [sent EXCEPT ![c] = 0]
  /\ got'  = [got EXCEPT ![c] = 0]

Next ==
  \/ \E c \in Dash : Open(c) \/ Admit(c) \/ Transmit(c) \/ Receive(c) \/ Restart(c)
  \/ \E S \in SUBSET Dash : Lose(S)

Spec == Init /\ [][Next]_vars

=============================================================================
