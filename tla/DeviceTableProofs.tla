------------------------- MODULE DeviceTableProofs -------------------------
(***************************************************************************)
(* For any set of devices: the state of DeviceTable is well typed, an      *)
(* enrollment survives crashes and failing saves, and outside pairing mode *)
(* a key revoked before the table was loaded gets no session.              *)
(***************************************************************************)
EXTENDS DeviceTable, TLAPS

\* TypeOK with the file's shape spelled out.
FileType == [kind : {"absent", "list", "torn"}, keys : SUBSET Key]

Typed ==
  /\ pairing \in BOOLEAN
  /\ file \in FileType
  /\ mem \in SUBSET Key /\ accepted \in SUBSET Key
  /\ enrolled \in SUBSET Key /\ revoked \in SUBSET Key /\ stale \in SUBSET Key
  /\ up \in BOOLEAN
  /\ saving \in Key \cup {Nobody} /\ stage \in {"idle", "open", "write"}
  /\ (saving = Nobody) <=> (stage = "idle")
  /\ file.kind # "list" => file.keys = {}
  /\ ~up => accepted = {} /\ stage = "idle"

\* What reporting an enrollment as done rests on: the file, unless torn, and
\* the memory of a live connection both hold every enrolled key, and the key
\* being saved is already in memory.
Kept ==
  /\ file.kind # "torn" => enrolled \subseteq file.keys
  /\ up => enrolled \subseteq mem
  /\ saving # Nobody => saving \in mem

EInv == Typed /\ Kept

\* Outside pairing mode no save runs, so what the operator removed stays
\* removed and the loaded table has nothing that was revoked by then.
Locked ==
  ~pairing =>
    /\ stage = "idle"
    /\ file.keys \cap revoked = {}
    /\ up => mem \cap stale = {}
    /\ accepted \subseteq mem

LInv == Typed /\ Locked

USE DEF Listing, Absent, Torn, FileType

\* The invariants hold in every initial state.
LEMMA InitTyped == ASSUME TableAssumption, Init PROVE Typed /\ Kept /\ Locked
<1>1. PICK S \in SUBSET Key : file \in {Absent, Listing(S)} /\ enrolled = file.keys
  BY DEF Init
<1>2. file \in FileType /\ (file.kind # "list" => file.keys = {})
  BY <1>1
<1>3. Typed
  BY <1>1, <1>2 DEF Init, Typed, TableAssumption
<1>4. Kept /\ Locked
  BY <1>1, <1>2 DEF Init, Kept, Locked
<1> QED BY <1>3, <1>4

\* Every step keeps the state well typed.
LEMMA NextTyped == ASSUME TableAssumption, Typed, [Next]_vars PROVE Typed'
<1> USE DEF Typed, TableAssumption
<1>1. CASE Connect    BY <1>1 DEF Connect, Loaded
<1>2. CASE Disconnect BY <1>2 DEF Disconnect
<1>3. CASE SaveOpen   BY <1>3 DEF SaveOpen
<1>4. CASE SaveWrite  BY <1>4 DEF SaveWrite, Written
<1>5. CASE SaveFails  BY <1>5 DEF SaveFails
<1>6. CASE Crash      BY <1>6 DEF Crash
<1>7. ASSUME NEW k \in Key, Known(k) PROVE Typed'
  BY <1>7 DEF Known
<1>8. ASSUME NEW k \in Key, Enroll(k) PROVE Typed'
  BY <1>8 DEF Enroll
<1>9. ASSUME NEW k \in Key, OperatorRemoves(k) PROVE Typed'
  BY <1>9 DEF OperatorRemoves
<1>10. CASE UNCHANGED vars BY <1>10 DEF vars
<1> QED BY <1>1, <1>2, <1>3, <1>4, <1>5, <1>6, <1>7, <1>8, <1>9, <1>10 DEF Next

\* No step, a failed or interrupted save included, loses an enrollment that
\* was reported as done.
LEMMA NextKept == ASSUME TableAssumption, EInv, [Next]_vars PROVE Kept'
<1> USE DEF EInv, Typed, Kept, TableAssumption
<1>1. CASE Connect    BY <1>1 DEF Connect, Loaded
<1>2. CASE Disconnect BY <1>2 DEF Disconnect
<1>3. CASE SaveOpen   BY <1>3 DEF SaveOpen
<1>4. CASE SaveWrite  BY <1>4 DEF SaveWrite, Written
<1>5. CASE SaveFails  BY <1>5 DEF SaveFails
<1>6. CASE Crash      BY <1>6 DEF Crash
<1>7. ASSUME NEW k \in Key, Known(k) PROVE Kept'
  BY <1>7 DEF Known
<1>8. ASSUME NEW k \in Key, Enroll(k) PROVE Kept'
  BY <1>8 DEF Enroll
<1>9. ASSUME NEW k \in Key, OperatorRemoves(k) PROVE Kept'
  BY <1>9 DEF OperatorRemoves
<1>10. CASE UNCHANGED vars BY <1>10 DEF vars
<1> QED BY <1>1, <1>2, <1>3, <1>4, <1>5, <1>6, <1>7, <1>8, <1>9, <1>10 DEF Next

\* Outside pairing mode no step accepts a key revoked before the table was
\* loaded.
LEMMA NextLocked == ASSUME TableAssumption, LInv, [Next]_vars PROVE Locked'
<1> USE DEF LInv, Typed, Locked, TableAssumption
<1>1. CASE Connect    BY <1>1 DEF Connect, Loaded
<1>2. CASE Disconnect BY <1>2 DEF Disconnect
<1>3. CASE SaveOpen   BY <1>3 DEF SaveOpen
<1>4. CASE SaveWrite  BY <1>4 DEF SaveWrite
<1>5. CASE SaveFails  BY <1>5 DEF SaveFails
<1>6. CASE Crash      BY <1>6 DEF Crash
<1>7. ASSUME NEW k \in Key, Known(k) PROVE Locked'
  BY <1>7 DEF Known
<1>8. ASSUME NEW k \in Key, Enroll(k) PROVE Locked'
  BY <1>8 DEF Enroll
<1>9. ASSUME NEW k \in Key, OperatorRemoves(k) PROVE Locked'
  BY <1>9 DEF OperatorRemoves
<1>10. CASE UNCHANGED vars BY <1>10 DEF vars
<1> QED BY <1>1, <1>2, <1>3, <1>4, <1>5, <1>6, <1>7, <1>8, <1>9, <1>10 DEF Next

\* The inductive form implies the type invariant that is checked.
LEMMA TypedIsTypeOK == ASSUME Typed PROVE TypeOK
  BY DEF Typed, TypeOK

\* The type invariant, for any set of devices (every step of load, add, save
\* and the relay client's use of them).
THEOREM TypeCorrect == ASSUME TableAssumption PROVE Spec => []TypeOK
<1>1. Init => Typed BY InitTyped
<1>2. Typed /\ [Next]_vars => Typed' BY NextTyped
<1>3. Typed => TypeOK BY TypedIsTypeOK
<1> QED BY <1>1, <1>2, <1>3, PTL DEF Spec

\* An enrollment that was reported as done is in the file whenever the file
\* can be read, whatever crashes, failing saves, reconnects and later
\* enrollments follow (add and save in e2ee.rs, load in relay_client.rs).
THEOREM EnrollmentsSurvive == ASSUME TableAssumption PROVE Spec => []EnrollmentSurvives
<1>1. Init => EInv BY InitTyped DEF EInv
<1>2. EInv /\ [Next]_vars => EInv' BY NextTyped, NextKept DEF EInv
<1>3. EInv => EnrollmentSurvives BY DEF EInv, Kept, EnrollmentSurvives
<1> QED BY <1>1, <1>2, <1>3, PTL DEF Spec

\* Outside pairing mode a key the operator removed before the current
\* connection loaded the table gets no session on it (relay_client.rs:179).
THEOREM RevokedStayOut == ASSUME TableAssumption PROVE Spec => []RevokedBeforeLoadRejected
<1>1. Init => LInv BY InitTyped DEF LInv
<1>2. LInv /\ [Next]_vars => LInv' BY NextTyped, NextLocked DEF LInv
<1>3. LInv => RevokedBeforeLoadRejected
  BY DEF LInv, Locked, Typed, RevokedBeforeLoadRejected
<1> QED BY <1>1, <1>2, <1>3, PTL DEF Spec

=============================================================================
