---------------------------- MODULE DeviceTable ----------------------------
(***************************************************************************)
(* The authorized-device table (AuthorizedDevices in src/e2ee.rs) as the   *)
(* relay client uses it (src/relay_client.rs): loaded once per connection, *)
(* consulted and, in pairing mode, extended when a handshake ends, saved   *)
(* by truncating the file and writing it anew.  An operator removes keys   *)
(* from the file; the process may die at any point.                        *)
(***************************************************************************)
EXTENDS Naturals, FiniteSets

CONSTANTS
  Key,   \* static public keys of devices
  Nobody \* no key is being saved

ASSUME TableAssumption == Nobody \notin Key

VARIABLES
  pairing,   \* CPC_ALLOW_ENROLL, fixed for a process; a restart with another
             \* setting is a new behaviour, from the file as it is then
  file,      \* what authorized_devices.json holds: absent, a list, or torn
  mem,       \* the table of the current connection
  up,        \* connected, with the table loaded
  saving,    \* the key being enrolled, while add has not returned
  stage,     \* where save is: "idle", "open", "write"
  accepted,  \* keys with a ready session on this connection
  enrolled,  \* history: keys add has saved and no one has removed since
  revoked,   \* history: keys the operator removed, not enrolled since
  stale      \* history: the keys of revoked that were so at the last load

vars == <<pairing, file, mem, up, saving, stage, accepted, enrolled, revoked, stale>>

Absent     == [kind |-> "absent", keys |-> {}]
Torn       == [kind |-> "torn", keys |-> {}]
Listing(S) == [kind |-> "list", keys |-> S]

Init ==
  /\ pairing \in BOOLEAN
  /\ \E S \in SUBSET Key : file \in {Absent, Listing(S)} /\ enrolled = file.keys
  /\ mem = {} /\ up = FALSE
  /\ saving = Nobody /\ stage = "idle"
  /\ accepted = {} /\ revoked = {} /\ stale = {}

\* Mutant: what an earlier connection knew is kept.
Loaded_Cached == mem \cup file.keys

\* load: an absent file is an empty table; a torn one does not parse, and the
\* connection attempt fails (every attempt, until someone repairs the file).
Loaded == file.keys

Connect ==
  /\ ~up /\ file.kind # "torn"
  /\ up' = TRUE
  /\ mem' = Loaded
  /\ accepted' = {}
  /\ stale' = revoked
  /\ UNCHANGED <<pairing, file, saving, stage, enrolled, revoked>>

\* Mutant: the connection is dropped in the middle of a save.
Disconnect_Cancels ==
  /\ up
  /\ up' = FALSE
  /\ accepted' = {}
  /\ UNCHANGED <<pairing, file, mem, saving, stage, enrolled, revoked, stale>>

\* Not while a save runs: it does not await.
Disconnect ==
  /\ up /\ stage = "idle"
  /\ up' = FALSE
  /\ accepted' = {}
  /\ UNCHANGED <<pairing, file, mem, saving, stage, enrolled, revoked, stale>>

\* A handshake ends with key k: known keys are accepted.
Known(k) ==
  /\ up /\ stage = "idle" /\ k \in mem
  /\ accepted' = accepted \cup {k}
  /\ UNCHANGED <<pairing, file, mem, up, saving, stage, enrolled, revoked, stale>>

\* In pairing mode an unknown key is added: first in memory.
Enroll(k) ==
  /\ up /\ stage = "idle" /\ k \notin mem /\ pairing
  /\ mem' = mem \cup {k}
  /\ saving' = k /\ stage' = "open"
  /\ UNCHANGED <<pairing, file, up, accepted, enrolled, revoked, stale>>

\* save: the file is opened and truncated.
SaveOpen ==
  /\ stage = "open"
  /\ file' = Torn /\ stage' = "write"
  /\ UNCHANGED <<pairing, mem, up, saving, accepted, enrolled, revoked, stale>>

\* Mutant: the new key alone is written.
Written_Appended == Listing({saving})

\* The whole table in memory is written.
Written == Listing(mem)

SaveWrite ==
  /\ stage = "write"
  /\ file' = Written
  /\ saving' = Nobody /\ stage' = "idle"
  /\ accepted' = accepted \cup {saving}
  /\ enrolled' = enrolled \cup {saving}
  /\ revoked' = revoked \ {saving}
  /\ UNCHANGED <<pairing, mem, up, stale>>

\* add returns an error: the handshake is refused, though the key stays in
\* memory.  A failed write leaves the truncated file.
SaveFails ==
  /\ stage \in {"open", "write"}
  /\ saving' = Nobody /\ stage' = "idle"
  /\ UNCHANGED <<pairing, file, mem, up, accepted, enrolled, revoked, stale>>

Crash ==
  /\ up' = FALSE /\ mem' = {} /\ accepted' = {}
  /\ saving' = Nobody /\ stage' = "idle"
  /\ UNCHANGED <<pairing, file, enrolled, revoked, stale>>

\* External: the operator takes a key out of the file.
OperatorRemoves(k) ==
  /\ file.kind = "list" /\ k \in file.keys
  /\ file' = Listing(file.keys \ {k})
  /\ enrolled' = enrolled \ {k}
  /\ revoked' = revoked \cup {k}
  /\ UNCHANGED <<pairing, mem, up, saving, stage, accepted, stale>>

Next ==
  \/ Connect \/ Disconnect \/ SaveOpen \/ SaveWrite \/ SaveFails \/ Crash
  \/ \E k \in Key : Known(k) \/ Enroll(k) \/ OperatorRemoves(k)

Spec == Init /\ [][Next]_vars

-----------------------------------------------------------------------------
\* The state is well typed; the file is torn only while a save is between its
\* two steps, or once a save was cut short; nothing is accepted or being
\* saved while disconnected.
TypeOK ==
  /\ pairing \in BOOLEAN
  /\ file \in {Absent, Torn} \cup {Listing(S) : S \in SUBSET Key}
  /\ mem \subseteq Key /\ accepted \subseteq Key
  /\ enrolled \subseteq Key /\ revoked \subseteq Key /\ stale \subseteq Key
  /\ up \in BOOLEAN
  /\ saving \in Key \cup {Nobody} /\ stage \in {"idle", "open", "write"}
  /\ (saving = Nobody) <=> (stage = "idle")
  /\ ~up => accepted = {} /\ stage = "idle"

\* An enrollment that was reported as done outlives restarts, reconnects and
\* later enrollments, until the operator removes it: whenever the file holds a
\* list it holds every such key (load at 96, add and save in e2ee.rs).
EnrollmentSurvives == file.kind = "list" => enrolled \subseteq file.keys

\* Outside pairing mode a key removed before the current connection loaded
\* the table gets no session on it. (One removed later still does.)
RevokedBeforeLoadRejected == ~pairing => accepted \cap stale = {}

=============================================================================
