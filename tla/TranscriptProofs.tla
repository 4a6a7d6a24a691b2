-------------------------- MODULE TranscriptProofs --------------------------
(***************************************************************************)
(* Theorems about channel 2 (Transcript): for any files, channel           *)
(* capacities and bounds, rows come under their own session and, on the    *)
(* dashboard that does not clear its view, none is missed.                 *)
(***************************************************************************)
EXTENDS Transcript, SequenceTheorems, FiniteSetTheorems, TLAPS

-----------------------------------------------------------------------------
(* Induction over the naturals, from their being well-founded.             *)

\* A nonempty set of naturals has a least element.
LEMMA Least ==
  ASSUME NEW T, T \subseteq Nat, T # {}
  PROVE  \E n \in T : \A m \in T : n <= m
<1>1. IsWellFoundedOn(OpToRel(<, Nat), Nat)
  BY NatLessThanWellFounded
<1>2. PICK n \in T : \A m \in T : ~ (<<m, n>> \in OpToRel(<, Nat))
  BY <1>1, WFMin
<1>3. \A m \in T : ~(m < n)
  BY <1>2 DEF OpToRel
<1>4. \A m \in T : n <= m
  BY <1>3
<1> QED BY <1>4

\* A set with 0 that is closed under successor has every natural.
LEMMA Induct ==
  ASSUME NEW S, 0 \in S, \A n \in Nat : n \in S => n + 1 \in S
  PROVE  Nat \subseteq S
<1> SUFFICES ASSUME ~(Nat \subseteq S) PROVE FALSE
  OBVIOUS
<1> DEFINE T == {n \in Nat : n \notin S}
<1>1. PICK n \in T : \A m \in T : n <= m
  BY Least
<1>2. n # 0 /\ n \in Nat /\ n - 1 \in Nat /\ n - 1 \in S
  BY <1>1
<1> QED BY <1>1, <1>2

-----------------------------------------------------------------------------
(* The messages of the rows that are read.                                 *)

\* What Messages is computed through, for the first n rows.
UpTo(rows) ==
  CHOOSE f : f = [n \in 0..Len(rows) |->
                    IF n = 0 THEN <<>>
                    ELSE IF rows[n].kind = "message" THEN Append(f[n - 1], Entry(rows[n]))
                    ELSE f[n - 1]]

LEMMA MessagesUpTo ==
  ASSUME NEW rows
  PROVE  Messages(rows) = UpTo(rows)[Len(rows)]
BY DEF Messages, UpTo

\* The recursion has a solution: it can be built one row at a time.
LEMMA UpToSolves ==
  ASSUME NEW rows \in Seq(Row)
  PROVE  /\ UpTo(rows)[0] = <<>>
         /\ \A n \in 1..Len(rows) : UpTo(rows)[n] =
              IF rows[n].kind = "message" THEN Append(UpTo(rows)[n - 1], Entry(rows[n]))
              ELSE UpTo(rows)[n - 1]
<1> DEFINE Next1(s, n) == IF rows[n].kind = "message" THEN Append(s, Entry(rows[n])) ELSE s
           Solves(g, n) == g = [k \in 0..n |-> IF k = 0 THEN <<>> ELSE Next1(g[k - 1], k)]
           S == {n \in Nat : \E g : Solves(g, n)}
<1>1. 0 \in S
  <2>1. Solves([k \in 0..0 |-> <<>>], 0)
    OBVIOUS
  <2> QED BY <2>1
<1>2. ASSUME NEW n \in Nat, n \in S PROVE n + 1 \in S
  <2>1. PICK g : Solves(g, n)
    BY <1>2
  <2> HIDE DEF Next1
  <2> PICK h : h = [k \in 0..(n + 1) |-> IF k = n + 1 THEN Next1(g[n], k) ELSE g[k]]
    OBVIOUS
  <2>2. \A k \in 0..(n + 1) : h[k] = IF k = 0 THEN <<>> ELSE Next1(h[k - 1], k)
    <3> TAKE k \in 0..(n + 1)
    <3>1. CASE k = n + 1
      <4>1. n \in 0..(n + 1) /\ n # n + 1 /\ k - 1 = n /\ k # 0
        BY <3>1
      <4>2. h[k] = Next1(g[n], k) /\ h[k - 1] = g[n]
        BY <3>1, <4>1
      <4> QED BY <4>1, <4>2
    <3>2. CASE k # n + 1
      <4>1. k \in 0..n /\ h[k] = g[k]
        BY <3>2
      <4>2. g[k] = IF k = 0 THEN <<>> ELSE Next1(g[k - 1], k)
        BY <2>1, <4>1
      <4>3. k # 0 => k - 1 \in 0..(n + 1) /\ k - 1 # n + 1 /\ h[k - 1] = g[k - 1]
        BY <3>2
      <4> QED BY <4>1, <4>2, <4>3
    <3> QED BY <3>1, <3>2
  <2>3. Solves(h, n + 1)
    BY <2>2
  <2> QED BY <2>3
<1> PICK m : m = Len(rows)
  OBVIOUS
<1>3. m \in S
  <2>1. m \in Nat
    BY LenProperties
  <2> HIDE DEF S
  <2> QED BY <1>1, <1>2, <2>1, Induct
<1>4. PICK g : Solves(g, m)
  BY <1>3
<1>5. Solves(UpTo(rows), m)
  BY <1>4 DEF UpTo
<1>6. m \in Nat
  BY LenProperties
<1>7. \A k \in 0..m : UpTo(rows)[k] = IF k = 0 THEN <<>> ELSE Next1(UpTo(rows)[k - 1], k)
  <2> HIDE DEF Next1
  <2> PICK f : f = UpTo(rows)
    OBVIOUS
  <2>1. f = [k \in 0..m |-> IF k = 0 THEN <<>> ELSE Next1(f[k - 1], k)]
    BY <1>5
  <2> QED BY <2>1
<1>8. 0 \in 0..m /\ \A n \in 1..m : n \in 0..m /\ n # 0
  BY <1>6
<1> QED BY <1>7, <1>8

\* Entries are messages, one for each row that has a uuid and for no other row.
LEMMA MessagesAre ==
  ASSUME NEW rows \in Seq(Row)
  PROVE  /\ Messages(rows) \in Seq(Message)
         /\ \A i \in DOMAIN Messages(rows) : \E j \in DOMAIN rows :
              rows[j].kind = "message" /\ Messages(rows)[i] = Entry(rows[j])
         /\ \A j \in DOMAIN rows : rows[j].kind = "message" =>
              \E i \in DOMAIN Messages(rows) : Messages(rows)[i] = Entry(rows[j])
<1> PICK m, u : m = Len(rows) /\ u = UpTo(rows)
  OBVIOUS
<1>1. m \in Nat /\ DOMAIN rows = 1..m /\ Messages(rows) = u[m]
  BY LenProperties, MessagesUpTo
<1>2. /\ u[0] = <<>>
      /\ \A n \in 1..m : u[n] = IF rows[n].kind = "message" THEN Append(u[n - 1], Entry(rows[n])) ELSE u[n - 1]
  BY UpToSolves
<1>3. \A n \in 1..m : Entry(rows[n]) \in Message
  BY <1>1, ElementOfSeq DEF Entry, Message
<1> DEFINE Fits(n) ==
             /\ u[n] \in Seq(Message)
             /\ \A i \in DOMAIN u[n] : \E j \in 1..n : rows[j].kind = "message" /\ u[n][i] = Entry(rows[j])
             /\ \A j \in 1..n : rows[j].kind = "message" =>
                  \E i \in DOMAIN u[n] : u[n][i] = Entry(rows[j])
           S == {n \in Nat : n <= m => Fits(n)}
<1>4. 0 \in S
  <2>1. u[0] \in Seq(Message) /\ DOMAIN u[0] = {} /\ 1..0 = {}
    BY <1>2
  <2> QED BY <2>1
<1>5. ASSUME NEW n \in Nat, n \in S PROVE n + 1 \in S
  <2> SUFFICES ASSUME n + 1 <= m PROVE Fits(n + 1)
    OBVIOUS
  <2>1. Fits(n) /\ n + 1 \in 1..m /\ (n + 1) - 1 = n
    BY <1>1, <1>5
  <2> PICK s, e : s = u[n] /\ e = Entry(rows[n + 1])
    OBVIOUS
  <2>2. u[n + 1] = IF rows[n + 1].kind = "message" THEN Append(s, e) ELSE s
    BY <1>2, <2>1
  <2>3. /\ s \in Seq(Message) /\ e \in Message
        /\ \A i \in DOMAIN s : \E j \in 1..n : rows[j].kind = "message" /\ s[i] = Entry(rows[j])
        /\ \A j \in 1..n : rows[j].kind = "message" => \E i \in DOMAIN s : s[i] = Entry(rows[j])
        /\ \A j \in 1..n : j \in 1..(n + 1)
        /\ \A j \in 1..(n + 1) : j \in 1..n \/ j = n + 1
    BY <1>3, <2>1
  <2> HIDE DEF S
  <2>4. CASE rows[n + 1].kind = "message"
    <3> PICK t : t = Append(s, e)
      OBVIOUS
    <3>1. u[n + 1] = t
      BY <2>2, <2>4
    <3>2. /\ t \in Seq(Message) /\ Len(t) = Len(s) + 1 /\ Len(s) \in Nat
          /\ DOMAIN s = 1..Len(s) /\ DOMAIN t = 1..(Len(s) + 1)
          /\ t[Len(s) + 1] = e /\ \A i \in 1..Len(s) : t[i] = s[i]
      <4>1. /\ t \in Seq(Message) /\ Len(t) = Len(s) + 1
            /\ \A i \in 1..Len(s) : t[i] = s[i]
            /\ t[Len(s) + 1] = e
        BY <2>3, AppendProperties
      <4> QED BY <2>3, <4>1, LenProperties
    <3>3. ASSUME NEW i \in DOMAIN t PROVE \E j \in 1..(n + 1) : rows[j].kind = "message" /\ t[i] = Entry(rows[j])
      <4>1. CASE i = Len(s) + 1
        BY <2>3, <2>4, <3>2, <4>1
      <4>2. CASE i # Len(s) + 1
        <5>1. i \in DOMAIN s /\ t[i] = s[i]
          BY <3>2, <4>2
        <5> QED BY <2>3, <5>1
      <4> QED BY <4>1, <4>2
    <3>4. ASSUME NEW j \in 1..(n + 1), rows[j].kind = "message" PROVE \E i \in DOMAIN t : t[i] = Entry(rows[j])
      <4>1. CASE j = n + 1
        <5>1. Len(s) + 1 \in DOMAIN t
          BY <3>2
        <5> QED BY <3>2, <4>1, <5>1
      <4>2. CASE j # n + 1
        <5>1. PICK i \in DOMAIN s : s[i] = Entry(rows[j])
          BY <2>3, <3>4, <4>2
        <5>2. i \in DOMAIN t /\ t[i] = s[i]
          BY <3>2
        <5> QED BY <5>1, <5>2
      <4> QED BY <4>1, <4>2
    <3>5. t \in Seq(Message)
      BY <3>2
    <3> HIDE DEF Fits
    <3>6. Fits(n + 1) <=> /\ t \in Seq(Message)
                          /\ \A i \in DOMAIN t : \E j \in 1..(n + 1) : rows[j].kind = "message" /\ t[i] = Entry(rows[j])
                          /\ \A j \in 1..(n + 1) : rows[j].kind = "message" => \E i \in DOMAIN t : t[i] = Entry(rows[j])
      BY <3>1 DEF Fits
    <3> QED BY <3>3, <3>4, <3>5, <3>6
  <2>5. CASE rows[n + 1].kind # "message"
    <3>1. u[n + 1] = s
      BY <2>2, <2>5
    <3>2. \A j \in 1..(n + 1) : rows[j].kind = "message" => j \in 1..n
      BY <2>3, <2>5
    <3> QED BY <2>3, <3>1, <3>2
  <2> QED BY <2>4, <2>5
<1>6. m \in S
  <2> HIDE DEF S
  <2> QED BY <1>1, <1>4, <1>5, Induct
<1>7. Fits(m)
  BY <1>1, <1>6
<1>8. /\ u[m] \in Seq(Message)
      /\ \A i \in DOMAIN u[m] : \E j \in 1..m : rows[j].kind = "message" /\ u[m][i] = Entry(rows[j])
      /\ \A j \in 1..m : rows[j].kind = "message" => \E i \in DOMAIN u[m] : u[m][i] = Entry(rows[j])
  BY <1>7
<1> HIDE DEF Fits, S
<1> PICK q : q = Messages(rows)
  OBVIOUS
<1>9. q = u[m] /\ DOMAIN rows = 1..m
  BY <1>1
<1>10. /\ q \in Seq(Message)
       /\ \A i \in DOMAIN q : \E j \in 1..m : rows[j].kind = "message" /\ q[i] = Entry(rows[j])
       /\ \A j \in 1..m : rows[j].kind = "message" => \E i \in DOMAIN q : q[i] = Entry(rows[j])
  BY <1>8, <1>9
<1>11. /\ \A i \in DOMAIN q : \E j \in DOMAIN rows : rows[j].kind = "message" /\ q[i] = Entry(rows[j])
       /\ \A j \in DOMAIN rows : rows[j].kind = "message" => \E i \in DOMAIN q : q[i] = Entry(rows[j])
  BY <1>9, <1>10, Zenon
<1> QED BY <1>10, <1>11, Zenon

-----------------------------------------------------------------------------
(* The files.                                                              *)

Existing == {g \in File : Exists(g)}

\* No inode number beyond this has been given to a file.
High == replaced + Cardinality(Existing)

FileState == [ino : Nat, rows : Seq(Row), half : BOOLEAN]

\* Of the files there are finitely many and their inodes are as numbered; a row is
\* in the file it names; what is newest exists.
FilesGrounded ==
  /\ IsFiniteSet(Existing)
  /\ \A f \in File :
       /\ file[f].ino <= High
       /\ file[f].half => Exists(f) /\ written # 0
       /\ \A i \in DOMAIN file[f].rows : file[f].rows[i].of = f
  /\ newest # NoFile => Exists(newest)

\* The watcher is on a file that exists, once there is one, and knows an inode
\* that was given.
TailGrounded ==
  /\ path # NoFile => Exists(path) /\ newest # NoFile
  /\ pc \in {"stat", "len", "read"} => path # NoFile
  /\ inode <= High

LEMMA HighType == ASSUME TypeOK, FilesGrounded PROVE High \in Nat
BY FS_CardinalityType DEF TypeOK, FilesGrounded, High

\* What a step of the agent does to its files: one of them is kept and may grow by
\* a row, or is a new one, with a new inode.
AgentMoves(f) ==
  /\ file' \in [File -> FileState] /\ written' \in 0..MaxRows /\ replaced' \in 0..MaxReplace
  /\ newest' = f /\ \A g \in File : g # f => file'[g] = file[g]
  /\ High' \in Nat /\ High' >= High /\ IsFiniteSet(Existing)'
  /\ \A i \in DOMAIN file'[f].rows : file'[f].rows[i].of = f
  /\ file'[f].ino # 0 /\ file'[f].ino <= High' /\ written' >= written
  /\ file'[f].half => written' # 0
  /\ \/ /\ file'[f].ino = file[f].ino
        /\ \/ file'[f].rows = file[f].rows
           \/ \E r \in Row : file'[f].rows = Append(file[f].rows, r)
     \/ file'[f].ino > High

\* A file's state with one part replaced.
LEMMA FileParts ==
  ASSUME NEW z \in FileState
  PROVE  /\ \A x : [z EXCEPT !.half = x] = [ino |-> z.ino, rows |-> z.rows, half |-> x]
         /\ \A x : [z EXCEPT !.ino = x] = [ino |-> x, rows |-> z.rows, half |-> z.half]
         /\ \A x : [z EXCEPT !.rows = x] = [ino |-> z.ino, rows |-> x, half |-> z.half]
BY DEF FileState

LEMMA StartRowMoves ==
  ASSUME TypeOK, FilesGrounded, NEW f \in File, StartRow(f)
  PROVE  AgentMoves(f)
<1>1. /\ IsFiniteSet(Existing) /\ Cardinality(Existing) \in Nat /\ High = replaced + Cardinality(Existing)
      /\ replaced \in Nat /\ written \in Nat /\ MaxRows \in Nat /\ High \in Nat
  BY HighType, FS_CardinalityType, TranscriptAssumption DEF FilesGrounded, TypeOK, High
<1> PICK z, n : z = file[f] /\ n = Ino(f)
  OBVIOUS
<1>2. z.ino \in Nat /\ z.rows \in Seq(Row) /\ z.half \in BOOLEAN /\ z \in FileState
  BY DEF TypeOK, FileState
<1>3. n = IF z.ino # 0 THEN z.ino ELSE High + 1
  BY <1>1 DEF Ino, Exists, Existing
<1>4. n \in Nat /\ n # 0
  BY <1>1, <1>2, <1>3
<1> PICK y : y = [ino |-> n, rows |-> z.rows, half |-> TRUE]
  OBVIOUS
<1>5. y \in FileState /\ y.ino = n /\ y.rows = z.rows /\ y.half = TRUE
  BY <1>2, <1>4 DEF FileState
<1>6. file'[f] = y /\ file' \in [File -> FileState] /\ \A g \in File : g # f => file'[g] = file[g]
  <2>1. file \in [File -> FileState]
    BY DEF TypeOK, FileState
  <2>2. file' = [file EXCEPT ![f] = y]
    <3>1. file' = [file EXCEPT ![f].half = TRUE, ![f].ino = n]
      BY DEF StartRow
    <3>2. file' = [file EXCEPT ![f] = [[z EXCEPT !.half = TRUE] EXCEPT !.ino = n]]
      BY <2>1, <3>1
    <3>3. [[z EXCEPT !.half = TRUE] EXCEPT !.ino = n] = y
      <4> PICK w : w = [z EXCEPT !.half = TRUE]
        OBVIOUS
      <4>1. w = [ino |-> z.ino, rows |-> z.rows, half |-> TRUE]
        BY <1>2, FileParts
      <4>2. w \in FileState /\ w.ino = z.ino /\ w.rows = z.rows /\ w.half = TRUE
        BY <1>2, <4>1 DEF FileState
      <4>3. [w EXCEPT !.ino = n] = [ino |-> n, rows |-> w.rows, half |-> w.half]
        BY <4>2, FileParts
      <4> QED BY <4>2, <4>3
    <3> QED BY <3>2, <3>3
  <2> QED BY <1>5, <2>1, <2>2
<1>7. Existing' = Existing \cup {f}
  BY <1>4, <1>5, <1>6 DEF Existing, Exists
<1>8. /\ IsFiniteSet(Existing)'
      /\ Cardinality(Existing)' = IF f \in Existing THEN Cardinality(Existing) ELSE Cardinality(Existing) + 1
  BY <1>1, <1>7, FS_AddElement
<1>9. f \in Existing <=> z.ino # 0
  BY DEF Existing, Exists
<1>10. High' = IF z.ino # 0 THEN High ELSE High + 1
  BY <1>1, <1>8, <1>9 DEF StartRow, High
<1>11. z.ino <= High /\ \A i \in DOMAIN z.rows : z.rows[i].of = f
  BY DEF FilesGrounded
<1>12. written' = written + 1 /\ written < MaxRows /\ replaced' = replaced /\ newest' = f
  BY DEF StartRow
<1>13. replaced' \in 0..MaxReplace /\ written' \in 0..MaxRows /\ written' # 0 /\ written' >= written
  BY <1>1, <1>12 DEF TypeOK
<1>14. High' \in Nat /\ High' >= High /\ n <= High' /\ (n = z.ino \/ n > High)
  BY <1>1, <1>2, <1>3, <1>10, <1>11
<1> QED BY <1>4, <1>5, <1>6, <1>8, <1>11, <1>12, <1>13, <1>14 DEF AgentMoves

LEMMA FinishRowMoves ==
  ASSUME TypeOK, FilesGrounded, NEW f \in File, FinishRow(f)
  PROVE  AgentMoves(f)
<1>1. IsFiniteSet(Existing) /\ High \in Nat /\ written \in 1..MaxRows /\ MaxRows \in Nat
  <2>1. IsFiniteSet(Existing) /\ High \in Nat
    BY HighType DEF FilesGrounded
  <2>2. written \in 0..MaxRows /\ MaxRows \in Nat
    BY TranscriptAssumption DEF TypeOK
  <2>3. file[f].half /\ written # 0
    BY DEF FilesGrounded, FinishRow
  <2> QED BY <2>1, <2>2, <2>3
<1> PICK z : z = file[f]
  OBVIOUS
<1>2. z.ino \in Nat /\ z.ino # 0 /\ z.rows \in Seq(Row) /\ z \in FileState /\ z.half
  BY DEF TypeOK, FileState, FinishRow, FilesGrounded, Exists
<1>3. PICK k \in Kinds :
        file' = [file EXCEPT ![f].half = FALSE,
                            ![f].rows = Append(@, [of |-> f, id |-> written, ino |-> file[f].ino, kind |-> k])]
  BY DEF FinishRow
<1> PICK r : r = [of |-> f, id |-> written, ino |-> z.ino, kind |-> k]
  OBVIOUS
<1>4. r \in Row /\ r.of = f
  BY <1>1, <1>2 DEF Row
<1> PICK s : s = Append(z.rows, r)
  OBVIOUS
<1>5. /\ s \in Seq(Row)
      /\ \A i \in DOMAIN s : s[i] = r \/ (i \in DOMAIN z.rows /\ s[i] = z.rows[i])
  BY <1>2, <1>4
<1> PICK y : y = [ino |-> z.ino, rows |-> s, half |-> FALSE]
  OBVIOUS
<1>6. y \in FileState /\ y.ino = z.ino /\ y.rows = s /\ y.half = FALSE
  BY <1>2, <1>5 DEF FileState
<1>7. file'[f] = y /\ file' \in [File -> FileState] /\ \A g \in File : g # f => file'[g] = file[g]
  <2>1. file \in [File -> FileState]
    BY DEF TypeOK, FileState
  <2>2. file' = [file EXCEPT ![f] = y]
    <3>1. file' = [file EXCEPT ![f].half = FALSE, ![f].rows = Append(@, r)]
      BY <1>3
    <3>2. file' = [file EXCEPT ![f] = [[z EXCEPT !.half = FALSE] EXCEPT !.rows = s]]
      BY <2>1, <3>1
    <3>3. [[z EXCEPT !.half = FALSE] EXCEPT !.rows = s] = y
      <4> PICK w : w = [z EXCEPT !.half = FALSE]
        OBVIOUS
      <4>1. w = [ino |-> z.ino, rows |-> z.rows, half |-> FALSE]
        BY <1>2, FileParts
      <4>2. w \in FileState /\ w.ino = z.ino /\ w.rows = z.rows /\ w.half = FALSE
        BY <1>2, <4>1 DEF FileState
      <4>3. [w EXCEPT !.rows = s] = [ino |-> w.ino, rows |-> s, half |-> w.half]
        <5>1. \A x : [w EXCEPT !.rows = x] = [ino |-> w.ino, rows |-> x, half |-> w.half]
          BY <4>2, FileParts
        <5> QED BY <5>1
      <4> QED BY <4>2, <4>3
    <3> QED BY <3>2, <3>3
  <2> QED BY <1>6, <2>1, <2>2
<1>8. Existing' = Existing /\ High' = High
  <2>1. Existing' = Existing
    BY <1>2, <1>6, <1>7 DEF Existing, Exists
  <2> QED BY <2>1 DEF High, FinishRow
<1>9. z.ino <= High /\ \A i \in DOMAIN z.rows : z.rows[i].of = f
  BY DEF FilesGrounded
<1>10. \A i \in DOMAIN s : s[i].of = f
  BY <1>4, <1>5, <1>9
<1>11. UNCHANGED <<written, replaced>> /\ newest' = f
  BY DEF FinishRow
<1>12. written' \in 0..MaxRows /\ replaced' \in 0..MaxReplace /\ written' >= written
  BY <1>1, <1>11 DEF TypeOK
<1> QED BY <1>1, <1>2, <1>4, <1>6, <1>7, <1>8, <1>9, <1>10, <1>11, <1>12 DEF AgentMoves

LEMMA ReplaceFileMoves ==
  ASSUME TypeOK, FilesGrounded, NEW f \in File, ReplaceFile(f)
  PROVE  AgentMoves(f)
<1>1. /\ IsFiniteSet(Existing) /\ Cardinality(Existing) \in Nat /\ High = replaced + Cardinality(Existing)
      /\ replaced \in Nat /\ written \in 0..MaxRows /\ MaxRows \in Nat /\ MaxReplace \in Nat /\ High \in Nat
  BY HighType, FS_CardinalityType, TranscriptAssumption DEF FilesGrounded, TypeOK, High
<1> PICK ino : ino = High + 1
  OBVIOUS
<1>2. /\ replaced' = replaced + 1 /\ replaced < MaxReplace /\ newest' = f /\ Exists(f)
      /\ ino = replaced' + Cardinality({g \in File : Exists(g)})
  BY <1>1 DEF ReplaceFile, Existing
<1>3. PICK n \in 0..(MaxRows - written) :
        /\ written' = written + n
        /\ file' = [file EXCEPT ![f] =
             [ino |-> ino, half |-> FALSE,
              rows |-> [i \in 1..n |-> [of |-> f, id |-> written + i, ino |-> ino, kind |-> "message"]]]]
  BY <1>2 DEF ReplaceFile
<1> PICK s : s = [i \in 1..n |-> [of |-> f, id |-> written + i, ino |-> ino, kind |-> "message"]]
  OBVIOUS
<1>4. s \in Seq(Row) /\ \A i \in DOMAIN s : s[i].of = f
  <2>1. \A i \in 1..n : [of |-> f, id |-> written + i, ino |-> ino, kind |-> "message"] \in Row
    BY <1>1 DEF Row, Kinds
  <2>0. n \in Nat
    BY <1>1
  <2>2. s \in [1..n -> Row]
    BY <2>1
  <2>3. s \in Seq(Row)
    BY <2>0, <2>2
  <2> QED BY <2>3
<1> PICK y : y = [ino |-> ino, half |-> FALSE, rows |-> s]
  OBVIOUS
<1>5. y \in FileState /\ y.ino = ino /\ y.rows = s /\ y.half = FALSE /\ ino # 0
  <2>1. ino \in Nat /\ ino # 0
    BY <1>1
  <2> QED BY <1>4, <2>1 DEF FileState
<1>6. file'[f] = y /\ file' \in [File -> FileState] /\ \A g \in File : g # f => file'[g] = file[g]
  <2>1. file \in [File -> FileState] /\ file' = [file EXCEPT ![f] = y]
    BY <1>3 DEF TypeOK, FileState
  <2> QED BY <1>5, <2>1
<1>7. Existing' = Existing
  BY <1>1, <1>2, <1>5, <1>6 DEF Existing, Exists
<1>8. High' = High + 1
  BY <1>1, <1>2, <1>7 DEF High
<1>9. written' \in 0..MaxRows /\ replaced' \in 0..MaxReplace /\ written' >= written
  BY <1>1, <1>2, <1>3
<1>10. High' \in Nat /\ High' >= High /\ ino # 0 /\ ino <= High' /\ ino > High
  BY <1>1, <1>8
<1>11. IsFiniteSet(Existing)'
  BY <1>1, <1>7
<1> QED BY <1>2, <1>4, <1>5, <1>6, <1>9, <1>10, <1>11 DEF AgentMoves

-----------------------------------------------------------------------------
(* Types.                                                                  *)

FilesTyped ==
  /\ file \in [File -> FileState] /\ newest \in File \cup {NoFile}
  /\ written \in 0..MaxRows /\ replaced \in 0..MaxReplace
TailTyped ==
  /\ path \in File \cup {NoFile} /\ sid \in {NoFile, path}
  /\ inode \in Nat /\ offset \in Nat
BatchTyped ==
  /\ pc \in {"idle", "stat", "len", "read", "send"} /\ (pc = "send" <=> batch # <<>>)
  /\ batch \in Seq(Message)
HiTyped == hi \in Seq(Message) /\ Len(hi) <= HiCap /\ announced \in File \cup {NoFile}
RefreshTyped == refresh \in Seq(BOOLEAN) /\ Len(refresh) <= RefreshCap /\ missed \in BOOLEAN
DashTyped ==
  /\ linked \in BOOLEAN /\ want \in BOOLEAN /\ joins \in 0..MaxJoins
  /\ seen \subseteq Row /\ view \in Seq(Row)

LEMMA TypeParts ==
  TypeOK <=> FilesTyped /\ TailTyped /\ BatchTyped /\ HiTyped /\ RefreshTyped /\ DashTyped
BY DEF TypeOK, FilesTyped, TailTyped, BatchTyped, HiTyped, RefreshTyped, DashTyped, FileState

\* Each part changes only with its variables.
LEMMA PartsKept ==
  ASSUME TypeOK
  PROVE  /\ UNCHANGED agentVars => FilesTyped'
         /\ UNCHANGED tailVars => TailTyped'
         /\ UNCHANGED <<pc, batch>> => BatchTyped'
         /\ UNCHANGED <<hi, announced>> => HiTyped'
         /\ UNCHANGED <<refresh, missed>> => RefreshTyped'
         /\ UNCHANGED dashVars => DashTyped'
<1>1. UNCHANGED agentVars => FilesTyped'
  BY TypeParts DEF FilesTyped, agentVars
<1>2. UNCHANGED tailVars => TailTyped'
  BY TypeParts DEF TailTyped, tailVars
<1>3. UNCHANGED <<pc, batch>> => BatchTyped'
  BY TypeParts DEF BatchTyped
<1>4. UNCHANGED <<hi, announced>> => HiTyped'
  BY TypeParts DEF HiTyped
<1>5. UNCHANGED <<refresh, missed>> => RefreshTyped'
  BY TypeParts DEF RefreshTyped
<1>6. UNCHANGED dashVars => DashTyped'
  BY TypeParts DEF DashTyped, dashVars
<1> QED BY <1>1, <1>2, <1>3, <1>4, <1>5, <1>6

LEMMA PartsMake ==
  FilesTyped' /\ TailTyped' /\ BatchTyped' /\ HiTyped' /\ RefreshTyped' /\ DashTyped' => TypeOK'
BY DEF TypeOK, FilesTyped, TailTyped, BatchTyped, HiTyped, RefreshTyped, DashTyped, FileState

LEMMA FilesKept ==
  ASSUME FilesGrounded, UNCHANGED agentVars
  PROVE  /\ FilesGrounded' /\ Existing' = Existing /\ High' = High
         /\ \A f \in File : Exists(f)' = Exists(f)
<1>1. file' = file /\ newest' = newest /\ written' = written /\ replaced' = replaced
  BY DEF agentVars
<1>2. Existing' = Existing /\ \A f \in File : Exists(f)' = Exists(f)
  BY <1>1 DEF Existing, Exists
<1>3. High' = High
  BY <1>1, <1>2 DEF High
<1>4. IsFiniteSet(Existing)' = IsFiniteSet(Existing)
  BY <1>2
<1> QED BY <1>1, <1>2, <1>3, <1>4 DEF FilesGrounded, Exists

Grounded == FilesGrounded /\ TailGrounded

LEMMA AgentGrounded ==
  ASSUME TypeOK, Grounded, NEW f \in File, AgentMoves(f), UNCHANGED <<pc, tailVars, batch, hi, refresh, dashVars, missed, announced>>
  PROVE  TypeOK' /\ Grounded'
<1>1. High \in Nat
  BY HighType DEF Grounded
<1>2. FilesTyped'
  BY DEF AgentMoves, FilesTyped
<1>3. TypeOK'
  BY <1>2, PartsKept, PartsMake
<1>4. \A g \in File : file[g].ino <= High /\ file[g].ino \in Nat
  BY DEF Grounded, FilesGrounded, TypeOK
<1>5. \A g \in File : Exists(g) => Exists(g)'
  BY DEF Exists, AgentMoves
<1>6. \A g \in File : file'[g].ino <= High'
  BY <1>1, <1>4 DEF AgentMoves
<1>7. ASSUME NEW g \in File, file'[g].half PROVE Exists(g)' /\ written' # 0
  <2>1. CASE g = f
    BY <1>7, <2>1 DEF AgentMoves, Exists
  <2>2. CASE g # f
    <3>1. file[g].half
      BY <1>7, <2>2 DEF AgentMoves
    <3>2. Exists(g) /\ written # 0 /\ written \in Nat
      BY <3>1 DEF Grounded, FilesGrounded, TypeOK
    <3>3. written' \in Nat /\ written' >= written
      BY TranscriptAssumption DEF AgentMoves
    <3> QED BY <1>5, <3>2, <3>3
  <2> QED BY <2>1, <2>2
<1>8. \A g \in File : \A i \in DOMAIN file'[g].rows : file'[g].rows[i].of = g
  <2> TAKE g \in File
  <2>1. CASE g = f
    BY <2>1 DEF AgentMoves
  <2>2. CASE g # f
    BY <2>2 DEF AgentMoves, Grounded, FilesGrounded
  <2> QED BY <2>1, <2>2
<1>9. FilesGrounded'
  <2>1. IsFiniteSet(Existing)' /\ newest' = f /\ Exists(f)'
    BY DEF AgentMoves, Exists
  <2> QED BY <1>6, <1>7, <1>8, <2>1 DEF FilesGrounded
<1>10. TailGrounded'
  <2>1. path' = path /\ pc' = pc /\ inode' = inode /\ newest' = f /\ f # NoFile
    BY TranscriptAssumption DEF tailVars, AgentMoves
  <2>2. inode \in Nat /\ inode <= High /\ High' \in Nat /\ High' >= High
    BY DEF Grounded, TailGrounded, AgentMoves, TypeOK
  <2>3. path # NoFile => Exists(path) /\ path \in File
    BY DEF Grounded, TailGrounded, TypeOK
  <2>5. inode' <= High'
    BY <1>1, <2>1, <2>2
  <2>6. Exists(path)' <=> file'[path].ino # 0
    BY <2>1 DEF Exists
  <2>7. path' # NoFile => Exists(path)'
    BY <2>1, <2>3, <1>5, <2>6 DEF Exists
  <2>8. pc' \in {"stat", "len", "read"} => path' # NoFile
    BY <2>1 DEF Grounded, TailGrounded
  <2> QED BY <2>1, <2>5, <2>7, <2>8 DEF TailGrounded
<1> QED BY <1>3, <1>9, <1>10 DEF Grounded

\* A poll begins on a file that exists.
LEMMA DiscoverGrounded ==
  ASSUME TypeOK, Grounded, NEW full \in BOOLEAN, Discover(full), pc = "idle",
         UNCHANGED <<agentVars, batch>>
  PROVE  TailTyped' /\ BatchTyped' /\ Grounded'
<1>1. FilesGrounded' /\ High' = High /\ \A f \in File : Exists(f)' = Exists(f)
  BY FilesKept DEF Grounded
<1>2. newest' = newest /\ batch' = batch /\ file' = file
  BY DEF agentVars
<1>3. batch = <<>> /\ batch \in Seq(Message)
  BY DEF TypeOK
<1>4. CASE newest = NoFile
  <2>1. pc' = "idle" /\ UNCHANGED tailVars
    BY <1>4 DEF Discover, Active
  <2>2. path' = path /\ inode' = inode /\ path = NoFile
    BY <1>4, <2>1 DEF tailVars, Grounded, TailGrounded
  <2>3. TailTyped' /\ BatchTyped'
    BY <1>2, <1>3, <2>1, PartsKept DEF BatchTyped
  <2>4. TailGrounded'
    BY <1>1, <2>1, <2>2 DEF Grounded, TailGrounded
  <2> QED BY <1>1, <2>3, <2>4 DEF Grounded
<1>5. CASE newest # NoFile
  <2>1. /\ pc' = "stat" /\ path' = newest
        /\ inode' = file[newest].ino \/ inode' = inode
        /\ offset' = 0 \/ offset' = offset
        /\ sid' = IF newest # path THEN NoFile ELSE sid
    BY <1>5 DEF Discover, Active
  <2>2. newest \in File /\ file[newest].ino \in Nat /\ file[newest].ino <= High /\ Exists(newest)
    BY <1>5 DEF TypeOK, Grounded, FilesGrounded
  <2>3. TailTyped'
    BY <2>1, <2>2 DEF TypeOK, TailTyped
  <2>4. BatchTyped'
    BY <1>2, <1>3, <2>1 DEF BatchTyped
  <2>5. inode' <= High'
    BY <1>1, <2>1, <2>2 DEF Grounded, TailGrounded
  <2>6. Exists(path)'
    BY <1>2, <2>1, <2>2 DEF Exists
  <2>7. TailGrounded'
    BY <1>2, <1>5, <2>1, <2>5, <2>6 DEF TailGrounded
  <2> QED BY <1>1, <2>3, <2>4, <2>7 DEF Grounded
<1> QED BY <1>4, <1>5

\* The lines read are rows of the file.
LEMMA LinesRead ==
  ASSUME TypeOK, Grounded, NEW cut \in BOOLEAN, pc = "read"
  PROVE  /\ Lines(cut) \in Seq(Row)
         /\ \A i \in DOMAIN Lines(cut) : \E j \in DOMAIN file[path].rows : Lines(cut)[i] = file[path].rows[j]
         /\ ~cut => \A j \in DOMAIN file[path].rows : j > (offset + 1) \div 2 =>
              \E i \in DOMAIN Lines(cut) : Lines(cut)[i] = file[path].rows[j]
<1> PICK rows, n : rows = file[path].rows /\ n = Len(rows)
  OBVIOUS
<1>0. PICK first : first = (offset + 1) \div 2 + 1 + (IF cut /\ offset > 0 THEN 1 ELSE 0)
  OBVIOUS
<1>1. rows \in Seq(Row) /\ n \in Nat /\ DOMAIN rows = 1..n /\ offset \in Nat
  <2>1. path \in File
    BY DEF TypeOK, Grounded, TailGrounded
  <2> QED BY <2>1, LenProperties DEF TypeOK
<1>2. first \in Nat /\ first >= 1 /\ (~cut => first = (offset + 1) \div 2 + 1) /\ (offset + 1) \div 2 \in Nat
  BY <1>0, <1>1
<1> PICK s : s = SubSeq(rows, first, n)
  OBVIOUS
<1>3. Lines(cut) = s
  BY <1>0 DEF Lines
<1>4. \A i \in first..n : i \in 1..n /\ rows[i] \in Row
  BY <1>1, <1>2, ElementOfSeq
<1>5. /\ s \in Seq(Row) /\ Len(s) = IF first <= n THEN n - first + 1 ELSE 0
      /\ \A i \in 1..(n - first + 1) : s[i] = rows[first + i - 1]
  BY <1>1, <1>2, <1>4, SubSeqProperties
<1>6. DOMAIN s = 1..(IF first <= n THEN n - first + 1 ELSE 0)
  BY <1>5, LenProperties
<1>7. ASSUME NEW i \in DOMAIN s PROVE \E j \in DOMAIN rows : s[i] = rows[j]
  <2>1. i \in 1..(n - first + 1) /\ first + i - 1 \in 1..n
    <3>1. first <= n /\ i \in 1..(n - first + 1)
      BY <1>6, <1>7
    <3> QED BY <1>1, <1>2, <3>1
  <2> QED BY <1>1, <1>5, <2>1
<1>8. ASSUME ~cut, NEW j \in DOMAIN rows, j > (offset + 1) \div 2 PROVE \E i \in DOMAIN s : s[i] = rows[j]
  <2>1. j \in 1..n /\ j >= first /\ first <= n
    BY <1>1, <1>2, <1>8
  <2> PICK i : i = j - first + 1
    OBVIOUS
  <2>2. i \in 1..(n - first + 1) /\ first + i - 1 = j
    <3>1. j \in Nat /\ first \in Nat /\ n \in Nat /\ j <= n
      BY <1>1, <1>2, <2>1
    <3> QED BY <2>1, <3>1
  <2>3. s[i] = rows[j] /\ i \in DOMAIN s
    BY <1>5, <1>6, <2>1, <2>2
  <2> QED BY <2>3
<1> QED BY <1>3, <1>5, <1>7, <1>8

\* A row that has a uuid has a sessionId.
LEMMA NamedIfAny ==
  ASSUME TypeOK, Grounded, WatcherRead
  PROVE  \A cut \in BOOLEAN : Messages(Lines(cut)) # <<>> => Identified(Lines(cut))
<1> SUFFICES ASSUME NEW cut \in BOOLEAN, Messages(Lines(cut)) # <<>>
             PROVE  Identified(Lines(cut))
  OBVIOUS
<1> PICK rows, m : rows = Lines(cut) /\ m = Messages(rows)
  OBVIOUS
<1>1. rows \in Seq(Row)
  BY LinesRead DEF WatcherRead
<1>2. m \in Seq(Message) /\ \A i \in DOMAIN m : \E j \in DOMAIN rows : rows[j].kind = "message" /\ m[i] = Entry(rows[j])
  BY <1>1, MessagesAre
<1> QED BY <1>1, <1>2 DEF Identified

\* What is read is put in the batch, after a boundary if the session is new.
LEMMA BatchRead ==
  ASSUME TypeOK, Grounded, WatcherRead
  PROVE  \E cut \in BOOLEAN :
           /\ cut => file[path].ino # inode
           /\ path \in File /\ batch = <<>> /\ Messages(Lines(cut)) \in Seq(Message)
           /\ batch' = IF sid # path /\ Identified(Lines(cut))
                       THEN <<Session(path)>> \o Messages(Lines(cut)) ELSE Messages(Lines(cut))
           /\ sid' = IF Identified(Lines(cut)) THEN path ELSE sid
           /\ pc' = IF batch' = <<>> THEN "idle" ELSE "send"
           /\ batch' \in Seq(Message)
<1>1. PICK cut \in {FALSE} \cup (IF file[path].ino # inode THEN {TRUE} ELSE {}) :
       /\ batch' = Outbound(Lines(cut))
       /\ sid' = IF Identified(Lines(cut)) THEN path ELSE sid
       /\ pc' = IF batch' = <<>> THEN "idle" ELSE "send"
  BY DEF WatcherRead
<1> PICK m, named : m = Messages(Lines(cut)) /\ named = Identified(Lines(cut))
  OBVIOUS
<1>2. cut \in BOOLEAN /\ pc = "read" /\ (cut => file[path].ino # inode)
  BY <1>1 DEF WatcherRead
<1>3. path \in File /\ batch = <<>>
  BY <1>2 DEF TypeOK, Grounded, TailGrounded
<1>4. m \in Seq(Message) /\ <<>> \o m = m
  <2>1. Lines(cut) \in Seq(Row)
    BY <1>2, LinesRead
  <2> QED BY <2>1, MessagesAre, ConcatEmptySeq
<1>5. batch' = IF sid # path /\ named THEN <<Session(path)>> \o m ELSE m
  <2>1. batch' = (IF sid # path /\ named THEN <<Session(path)>> ELSE <<>>) \o m
    BY <1>1 DEF Outbound
  <2> QED BY <1>4, <2>1
<1>6. batch' \in Seq(Message)
  <2>1. Session(path) \in Message
    BY <1>3 DEF Session, Message
  <2>2. <<Session(path)>> \in Seq(Message)
    BY <2>1
  <2> QED BY <1>4, <1>5, <2>2, ConcatProperties
<1> QED BY <1>1, <1>2, <1>3, <1>4, <1>5, <1>6

LEMMA WatcherGrounded ==
  ASSUME TypeOK, Grounded, WatcherStat \/ WatcherLen \/ WatcherRead \/ WatcherSend
  PROVE  TypeOK' /\ Grounded'
<1>0. UNCHANGED agentVars /\ refresh' = refresh /\ UNCHANGED dashVars /\ missed' = missed
      /\ announced' = announced /\ path' = path
  BY DEF WatcherStat, WatcherLen, WatcherRead, WatcherSend, tailVars
<1>1. FilesGrounded' /\ High' = High /\ newest' = newest /\ file' = file
  BY <1>0, FilesKept DEF Grounded, agentVars
<1>2. FilesTyped' /\ RefreshTyped' /\ DashTyped'
  BY <1>0, PartsKept
<1>3. ASSUME pc' \in {"stat", "len", "read"} => path # NoFile, inode' <= High
      PROVE  Grounded'
  <2>1. path' # NoFile => Exists(path)'
    BY <1>0, <1>1 DEF Exists, Grounded, TailGrounded
  <2> QED BY <1>0, <1>1, <1>3, <2>1 DEF Grounded, TailGrounded
<1>4. CASE WatcherStat
  <2>1. path \in File /\ path # NoFile
    BY <1>4, TranscriptAssumption DEF WatcherStat, TypeOK, Grounded, TailGrounded
  <2>2. file[path].ino \in Nat /\ file[path].ino <= High
    BY <2>1 DEF TypeOK, Grounded, FilesGrounded
  <2>3. inode' = file[path].ino /\ offset' \in {0, offset} /\ sid' = sid /\ pc' = "len" /\ batch' = batch /\ hi' = hi
    BY <1>4 DEF WatcherStat
  <2>4. TailTyped' /\ BatchTyped' /\ HiTyped'
    <3>1. TailTyped'
      BY <1>0, <2>2, <2>3 DEF TailTyped, TypeOK
    <3>2. BatchTyped'
      BY <1>4, <2>3 DEF BatchTyped, TypeOK, WatcherStat
    <3> QED BY <1>0, <2>3, <3>1, <3>2, PartsKept
  <2>5. Grounded'
    BY <1>3, <2>1, <2>2, <2>3
  <2> QED BY <1>2, <2>4, <2>5, PartsMake
<1>5. CASE WatcherLen
  <2>1. /\ inode' = inode /\ offset' \in {0, offset} /\ sid' = sid /\ pc' \in {"idle", "read"}
        /\ batch' = batch /\ hi' = hi /\ pc = "len"
    BY <1>5 DEF WatcherLen
  <2>2. TailTyped' /\ BatchTyped' /\ HiTyped'
    <3>1. TailTyped'
      BY <1>0, <2>1 DEF TailTyped, TypeOK
    <3>2. BatchTyped'
      BY <2>1 DEF BatchTyped, TypeOK
    <3> QED BY <1>0, <2>1, <3>1, <3>2, PartsKept
  <2>3. Grounded'
    BY <1>3, <2>1 DEF Grounded, TailGrounded
  <2> QED BY <1>2, <2>2, <2>3, PartsMake
<1>6. CASE WatcherRead
  <2>1. /\ path \in File /\ batch' \in Seq(Message) /\ sid' \in {path, sid}
        /\ pc' = IF batch' = <<>> THEN "idle" ELSE "send"
    BY <1>6, BatchRead
  <2>2. inode' = inode /\ offset' = Consumed /\ hi' = hi
    BY <1>6 DEF WatcherRead
  <2>3. Consumed \in Nat
    <3>1. Len(file[path].rows) \in Nat
      BY <2>1, LenProperties DEF TypeOK
    <3> QED BY <3>1 DEF Consumed, TypeOK
  <2>4. TailTyped'
    BY <1>0, <2>1, <2>2, <2>3 DEF TailTyped, TypeOK
  <2>5. BatchTyped'
    BY <2>1 DEF BatchTyped
  <2>6. HiTyped'
    BY <1>0, <2>2, PartsKept
  <2>7. Grounded'
    BY <1>3, <2>1, <2>2 DEF Grounded, TailGrounded
  <2> QED BY <1>2, <2>4, <2>5, <2>6, <2>7, PartsMake
<1>7. CASE WatcherSend
  <2>1. /\ pc = "send" /\ Len(hi) < HiCap /\ hi' = Append(hi, Head(batch)) /\ batch' = Tail(batch)
        /\ pc' = (IF Len(batch) = 1 THEN "idle" ELSE "send") /\ UNCHANGED tailVars
    BY <1>7 DEF WatcherSend
  <2>2. batch \in Seq(Message) /\ batch # <<>> /\ hi \in Seq(Message) /\ HiCap \in Nat
    BY <2>1, TranscriptAssumption DEF TypeOK
  <2>3. HiTyped'
    <3>1. Head(batch) \in Message
      BY <2>2
    <3>2. hi' \in Seq(Message) /\ Len(hi') = Len(hi) + 1
      BY <2>1, <2>2, <3>1
    <3> QED BY <1>0, <2>1, <2>2, <3>2 DEF HiTyped, TypeOK
  <2>4. BatchTyped'
    <3>1. Tail(batch) \in Seq(Message) /\ Len(Tail(batch)) = Len(batch) - 1
      BY <2>2, HeadTailProperties
    <3>2. Tail(batch) = <<>> <=> Len(batch) = 1
      <4>1. Len(batch) \in Nat
        BY <2>2, LenProperties
      <4>2. Tail(batch) = <<>> <=> Len(Tail(batch)) = 0
        BY <3>1, EmptySeq
      <4> QED BY <3>1, <4>1, <4>2
    <3> QED BY <2>1, <3>1, <3>2 DEF BatchTyped
  <2>5. TailTyped' /\ inode' = inode
    BY <2>1, PartsKept DEF tailVars
  <2>6. Grounded'
    BY <1>3, <2>1, <2>5 DEF Grounded, TailGrounded
  <2> QED BY <1>2, <2>3, <2>4, <2>5, <2>6, PartsMake
<1> QED BY <1>4, <1>5, <1>6, <1>7

LEMMA SignalTyped ==
  ASSUME TypeOK, NEW full \in BOOLEAN, Signal(full)
  PROVE  RefreshTyped'
<1>1. refresh \in Seq(BOOLEAN) /\ Len(refresh) <= RefreshCap /\ missed \in BOOLEAN /\ Len(refresh) \in Nat
      /\ RefreshCap \in Nat
  BY TranscriptAssumption, LenProperties DEF TypeOK
<1>2. CASE Len(refresh) < RefreshCap
  <2>1. refresh' = Append(refresh, full) /\ missed' = missed
    BY <1>2 DEF Signal
  <2>2. refresh' \in Seq(BOOLEAN) /\ Len(refresh') = Len(refresh) + 1
    BY <1>1, <2>1, AppendProperties
  <2> QED BY <1>1, <1>2, <2>1, <2>2 DEF RefreshTyped
<1>3. CASE ~(Len(refresh) < RefreshCap)
  <2>1. refresh' = refresh /\ missed' = (missed \/ full)
    BY <1>3 DEF Signal
  <2> QED BY <1>1, <2>1 DEF RefreshTyped
<1> QED BY <1>2, <1>3

\* A step that leaves the files and the tailer alone leaves them grounded.
LEMMA GroundedKept ==
  ASSUME Grounded, UNCHANGED <<agentVars, pc, tailVars>>
  PROVE  Grounded'
<1>1. FilesGrounded' /\ High' = High
  BY FilesKept DEF Grounded
<1>2. path' = path /\ pc' = pc /\ inode' = inode /\ newest' = newest /\ file' = file
  BY DEF agentVars, tailVars
<1> QED BY <1>1, <1>2 DEF Grounded, TailGrounded, Exists

LEMMA DeliverTyped ==
  ASSUME TypeOK, Deliver
  PROVE  HiTyped' /\ DashTyped'
<1> PICK m : m = Head(hi)
  OBVIOUS
<1>1. hi \in Seq(Message) /\ hi # <<>> /\ hi' = Tail(hi) /\ HiCap \in Nat /\ Len(hi) <= HiCap
  BY TranscriptAssumption DEF TypeOK, Deliver
<1>2. m \in Message /\ Tail(hi) \in Seq(Message) /\ Len(Tail(hi)) = Len(hi) - 1 /\ Len(hi) \in Nat
  BY <1>1, HeadTailProperties, LenProperties
<1>3. (m.t = "session" => m.of \in File) /\ (m.t = "transcript" => m.row \in Row)
  BY <1>2 DEF Message
<1>4. announced' = IF m.t = "session" THEN m.of ELSE announced
  BY DEF Deliver
<1>5. HiTyped'
  <2>1. announced' \in File \cup {NoFile}
    BY <1>3, <1>4 DEF TypeOK
  <2>2. Len(hi') <= HiCap
    BY <1>1, <1>2
  <2> QED BY <1>1, <1>2, <2>1, <2>2 DEF HiTyped
<1>6. \/ UNCHANGED <<seen, view>>
      \/ view' = (IF Page THEN <<>> ELSE view) /\ seen' = seen
      \/ m.t = "transcript" /\ seen' = seen \cup {m.row} /\ view' = Append(view, m.row)
  BY DEF Deliver
<1>7. seen \subseteq Row /\ view \in Seq(Row)
  BY DEF TypeOK
<1>8. seen' \subseteq Row /\ view' \in Seq(Row)
  <2>1. CASE UNCHANGED <<seen, view>> \/ (view' = (IF Page THEN <<>> ELSE view) /\ seen' = seen)
    <3>1. seen' = seen /\ (view' = view \/ view' = <<>>) /\ <<>> \in Seq(Row)
      BY <2>1
    <3> QED BY <1>7, <3>1
  <2>2. CASE m.t = "transcript" /\ seen' = seen \cup {m.row} /\ view' = Append(view, m.row)
    BY <1>3, <1>7, <2>2, AppendProperties
  <2> QED BY <1>6, <2>1, <2>2
<1>9. linked' = linked /\ want' = want /\ joins' = joins
  BY DEF Deliver
<1> QED BY <1>5, <1>8, <1>9 DEF TypeOK, DashTyped

\* The state stays well typed and grounded.
LEMMA StepType ==
  ASSUME TypeOK, Grounded, [Next]_vars
  PROVE  TypeOK' /\ Grounded'
<1>1. CASE Agent
  <2>1. PICK f \in File : StartRow(f) \/ FinishRow(f) \/ ReplaceFile(f)
    BY <1>1 DEF Agent
  <2>2. AgentMoves(f)
    BY <2>1, StartRowMoves, FinishRowMoves, ReplaceFileMoves DEF Grounded
  <2>3. UNCHANGED <<pc, tailVars, batch, hi, refresh, dashVars, missed, announced>>
    BY <2>1 DEF StartRow, FinishRow, ReplaceFile
  <2> QED BY <2>2, <2>3, AgentGrounded
<1>2. CASE WatcherTick
  <2>1. TailTyped' /\ BatchTyped' /\ Grounded'
    BY <1>2, DiscoverGrounded DEF WatcherTick
  <2>2. FilesTyped' /\ HiTyped' /\ RefreshTyped' /\ DashTyped'
    BY <1>2, PartsKept DEF WatcherTick
  <2> QED BY <2>1, <2>2, PartsMake
<1>3. CASE WatcherRefresh
  <2>0. refresh \in Seq(BOOLEAN) /\ refresh # <<>> /\ Len(refresh) <= RefreshCap /\ RefreshCap \in Nat
    BY <1>3, TranscriptAssumption DEF WatcherRefresh, TypeOK
  <2>1. /\ Head(refresh) \in BOOLEAN /\ Tail(refresh) \in Seq(BOOLEAN)
        /\ Len(Tail(refresh)) = Len(refresh) - 1 /\ Len(refresh) \in Nat
    BY <2>0, HeadTailProperties, LenProperties
  <2>2. TailTyped' /\ BatchTyped' /\ Grounded'
    BY <1>3, <2>1, DiscoverGrounded DEF WatcherRefresh
  <2>3. FilesTyped' /\ HiTyped' /\ DashTyped'
    BY <1>3, PartsKept DEF WatcherRefresh
  <2>4. RefreshTyped'
    <3>1. refresh' = Tail(refresh) /\ missed' = missed
      BY <1>3 DEF WatcherRefresh
    <3>2. Len(Tail(refresh)) <= RefreshCap
      BY <2>0, <2>1
    <3> QED BY <2>1, <3>1, <3>2 DEF RefreshTyped, TypeOK
  <2> QED BY <2>2, <2>3, <2>4, PartsMake
<1>4. CASE Watcher
  BY <1>4, WatcherGrounded DEF Watcher
<1>5. CASE TurnEnd
  <2>1. RefreshTyped'
    BY <1>5, SignalTyped DEF TurnEnd
  <2>2. FilesTyped' /\ TailTyped' /\ BatchTyped' /\ HiTyped' /\ DashTyped'
    BY <1>5, PartsKept DEF TurnEnd
  <2> QED BY <1>5, <2>1, <2>2, PartsMake, GroundedKept DEF TurnEnd
<1>6. CASE Join
  <2>1. FilesTyped' /\ TailTyped' /\ BatchTyped' /\ HiTyped' /\ RefreshTyped'
    BY <1>6, PartsKept DEF Join
  <2>2. DashTyped'
    <3>1. /\ linked' = TRUE /\ want' = TRUE /\ joins' = joins + 1 /\ joins < MaxJoins
          /\ seen' \in {seen, {}} /\ view' \in {view, <<>>}
      BY <1>6 DEF Join
    <3>2. joins' \in 0..MaxJoins
      BY <3>1, TranscriptAssumption DEF TypeOK
    <3>3. <<>> \in Seq(Row)
      OBVIOUS
    <3> QED BY <3>1, <3>2, <3>3 DEF DashTyped, TypeOK
  <2> QED BY <1>6, <2>1, <2>2, PartsMake, GroundedKept DEF Join
<1>7. CASE Leave
  <2>1. FilesTyped' /\ TailTyped' /\ BatchTyped' /\ HiTyped' /\ RefreshTyped'
    BY <1>7, PartsKept DEF Leave
  <2>2. DashTyped'
    BY <1>7 DEF Leave, DashTyped, TypeOK
  <2> QED BY <1>7, <2>1, <2>2, PartsMake, GroundedKept DEF Leave
<1>8. CASE RefreshArrives
  <2>1. FilesTyped' /\ TailTyped' /\ BatchTyped' /\ HiTyped'
    BY <1>8, PartsKept DEF RefreshArrives
  <2>2. DashTyped'
    BY <1>8 DEF RefreshArrives, DashTyped, TypeOK
  <2>3. RefreshTyped'
    BY <1>8, SignalTyped DEF RefreshArrives
  <2> QED BY <1>8, <2>1, <2>2, <2>3, PartsMake, GroundedKept DEF RefreshArrives
<1>9. CASE Deliver
  <2>1. FilesTyped' /\ TailTyped' /\ BatchTyped' /\ RefreshTyped'
    BY <1>9, PartsKept DEF Deliver
  <2> QED BY <1>9, <2>1, DeliverTyped, PartsMake, GroundedKept DEF Deliver
<1>10. CASE UNCHANGED vars
  BY <1>10, PartsKept, PartsMake, GroundedKept DEF vars
<1> QED BY <1>1, <1>2, <1>3, <1>4, <1>5, <1>6, <1>7, <1>8, <1>9, <1>10 DEF Next

\* At first no file exists and nothing is anywhere.
LEMMA InitType == Init => TypeOK /\ Grounded
<1> SUFFICES ASSUME Init PROVE TypeOK /\ Grounded
  OBVIOUS
<1>1. \A f \in File : file[f].ino = 0 /\ file[f].rows = <<>> /\ ~file[f].half
  BY DEF Init
<1>2. Existing = {}
  BY <1>1 DEF Existing, Exists
<1>3. IsFiniteSet(Existing) /\ High = 0
  BY <1>2, FS_EmptySet DEF High, Init
<1>4. FilesTyped
  <2>1. [ino |-> 0, rows |-> <<>>, half |-> FALSE] \in FileState
    BY DEF FileState
  <2> QED BY <2>1, TranscriptAssumption DEF Init, FilesTyped
<1>5. TailTyped /\ BatchTyped /\ HiTyped /\ RefreshTyped /\ DashTyped
  <2>1. <<>> \in Seq(Message) /\ <<>> \in Seq(BOOLEAN) /\ <<>> \in Seq(Row) /\ Len(<<>>) = 0
    OBVIOUS
  <2>2. TailTyped /\ BatchTyped
    BY <2>1 DEF Init, TailTyped, BatchTyped
  <2>0. HiCap \in Nat /\ RefreshCap \in Nat /\ MaxJoins \in Nat
    BY TranscriptAssumption
  <2>3. HiTyped
    <3>1. hi = <<>> /\ announced = NoFile
      BY DEF Init
    <3>2. Len(hi) = 0
      BY <3>1
    <3> QED BY <2>0, <2>1, <3>1, <3>2 DEF HiTyped
  <2>4. RefreshTyped
    <3>1. refresh = <<>> /\ missed = FALSE
      BY DEF Init
    <3>2. Len(refresh) = 0
      BY <3>1
    <3>3. refresh \in Seq(BOOLEAN)
      BY <2>1, <3>1
    <3>4. missed \in BOOLEAN
      BY <3>1
    <3>5. Len(refresh) <= RefreshCap
      BY <2>0, <3>2
    <3> QED BY <3>3, <3>4, <3>5 DEF RefreshTyped
  <2>5. DashTyped
    <3>1. linked = FALSE /\ want = FALSE /\ seen = {} /\ view = <<>> /\ joins = 0
      BY DEF Init
    <3>2. linked \in BOOLEAN /\ want \in BOOLEAN
      BY <3>1
    <3>3. seen \subseteq Row /\ joins \in 0..MaxJoins
      BY <2>0, <3>1
    <3>4. view \in Seq(Row)
      BY <2>1, <3>1
    <3> QED BY <3>2, <3>3, <3>4 DEF DashTyped
  <2> QED BY <2>2, <2>3, <2>4, <2>5
<1>6. FilesGrounded
  BY <1>1, <1>3 DEF FilesGrounded, Init
<1>7. TailGrounded
  BY <1>3 DEF TailGrounded, Init
<1> QED BY <1>4, <1>5, <1>6, <1>7, TypeParts DEF Grounded

\* The state is well typed and the channels stay within their capacity.
THEOREM TranscriptTypeCorrect == Spec => []TypeOK
<1>1. TypeOK /\ Grounded /\ [Next]_vars => TypeOK' /\ Grounded'
  BY StepType
<1> QED BY <1>1, InitType, PTL DEF Spec

-----------------------------------------------------------------------------
(* Rows come under their own session.                                      *)

\* After the first i messages of s the session is f, if it was a before them.
Under(s, a, f, i) ==
  \/ (\A j \in 1..i : s[j].t # "session") /\ a = f
  \/ \E j \in 1..i : s[j] = Session(f) /\ \A k \in 1..i : k > j => s[k].t # "session"

Marked(s, a) == \A i \in DOMAIN s : s[i].t = "transcript" => Under(s, a, s[i].row.of, i)

\* SessionFirst, and the tailer's session is the one in force at the end of what is
\* on its way.
SessionsMarked ==
  /\ Marked(hi \o batch, announced)
  /\ sid # NoFile => Under(hi \o batch, announced, sid, Len(hi \o batch))

\* The last boundary is the one the property speaks of.
LEMMA MarkedFirst ==
  ASSUME TypeOK, SessionsMarked
  PROVE  SessionFirst
<1> DEFINE s == hi \o batch
<1> SUFFICES ASSUME NEW i \in DOMAIN s, s[i].t = "transcript"
             PROVE  LET b == {j \in 1..i : s[j].t = "session"}
                    IN  (IF b = {} THEN announced ELSE s[CHOOSE j \in b : \A k \in b : k <= j].of) = s[i].row.of
  BY DEF SessionFirst
<1> DEFINE b == {j \in 1..i : s[j].t = "session"}
           f == s[i].row.of
<1>1. s \in Seq(Message)
  BY ConcatProperties DEF TypeOK
<1>2. Under(s, announced, f, i)
  BY DEF SessionsMarked, Marked
<1>0. \A j : j \in b <=> j \in 1..i /\ s[j].t = "session"
  OBVIOUS
<1> HIDE DEF s, b, f
<1>3. ASSUME \A j \in 1..i : s[j].t # "session"
      PROVE  b = {}
  BY <1>0, <1>3
<1>4. ASSUME NEW j \in 1..i, s[j] = Session(f), \A k \in 1..i : k > j => s[k].t # "session"
      PROVE  b # {} /\ s[CHOOSE n \in b : \A k \in b : k <= n].of = f
  <2>1. i \in Nat /\ s[j].t = "session" /\ s[j].of = f
    BY <1>1, <1>4, LenProperties DEF Session
  <2>2. j \in b /\ \A k \in b : k <= j
    BY <1>0, <1>4, <2>1
  <2>3. \A n \in b : (\A k \in b : k <= n) => n = j
    <3> TAKE n \in b
    <3> HAVE \A k \in b : k <= n
    <3>1. j <= n /\ n <= j /\ n \in Int /\ j \in Int
      BY <1>0, <2>2
    <3> QED BY <3>1
  <2>4. (CHOOSE n \in b : \A k \in b : k <= n) = j
    BY <2>2, <2>3
  <2> QED BY <2>1, <2>2, <2>4
<1>5. (IF b = {} THEN announced ELSE s[CHOOSE j \in b : \A k \in b : k <= j].of) = f
  <2>1. CASE (\A j \in 1..i : s[j].t # "session") /\ announced = f
    BY <1>3, <2>1
  <2>2. CASE \E j \in 1..i : s[j] = Session(f) /\ \A k \in 1..i : k > j => s[k].t # "session"
    BY <1>4, <2>2
  <2> QED BY <1>2, <2>1, <2>2 DEF Under
<1> QED BY <1>5 DEF s, b, f

\* More messages at the end leave the sessions before them as they were.
LEMMA UnderPrefix ==
  ASSUME NEW s \in Seq(Message), NEW m \in Seq(Message), NEW a, NEW f, NEW i \in 0..Len(s), Under(s, a, f, i)
  PROVE  Under(s \o m, a, f, i)
<1>1. \A j \in 1..i : (s \o m)[j] = s[j]
  <2>1. Len(s) \in Nat /\ Len(m) \in Nat
    BY LenProperties
  <2>2. \A j \in 1..i : j \in 1..(Len(s) + Len(m)) /\ j <= Len(s)
    BY <2>1
  <2> QED BY <2>2, ConcatProperties
<1> QED BY <1>1 DEF Under

\* Messages that are no boundaries leave the session in force.
LEMMA UnderExtend ==
  ASSUME NEW s \in Seq(Message), NEW m \in Seq(Message), NEW a, NEW f, Under(s, a, f, Len(s)),
         \A i \in DOMAIN m : m[i].t # "session",
         NEW n \in Len(s)..(Len(s) + Len(m))
  PROVE  Under(s \o m, a, f, n)
<1> PICK t, l : t = s \o m /\ l = Len(s)
  OBVIOUS
<1>1. l \in Nat /\ Len(m) \in Nat /\ DOMAIN m = 1..Len(m) /\ n \in Nat /\ l <= n
  BY LenProperties
<1>2. \A j \in 1..n : (j <= l => j \in 1..l /\ t[j] = s[j]) /\ (~(j <= l) => t[j].t # "session")
  <2> TAKE j \in 1..n
  <2>1. t[j] = IF j <= l THEN s[j] ELSE m[j - l]
    <3>1. j \in 1..(l + Len(m))
      BY <1>1
    <3> QED BY <3>1, ConcatProperties
  <2>2. ~(j <= l) => j - l \in 1..Len(m)
    BY <1>1
  <2> QED BY <1>1, <2>1, <2>2
<1>3. CASE (\A j \in 1..l : s[j].t # "session") /\ a = f
  <2>1. \A j \in 1..n : t[j].t # "session"
    BY <1>2, <1>3
  <2> QED BY <1>3, <2>1 DEF Under
<1>4. ASSUME NEW j \in 1..l, s[j] = Session(f), \A k \in 1..l : k > j => s[k].t # "session"
      PROVE  Under(t, a, f, n)
  <2>1. j \in 1..n /\ t[j] = Session(f)
    BY <1>1, <1>2, <1>4
  <2>2. \A k \in 1..n : k > j => t[k].t # "session"
    BY <1>2, <1>4
  <2> QED BY <2>1, <2>2 DEF Under
<1> QED BY <1>3, <1>4 DEF Under

\* A boundary puts its session in force.
LEMMA UnderBoundary ==
  ASSUME NEW s \in Seq(Message), NEW a, NEW f \in File
  PROVE  Under(s \o <<Session(f)>>, a, f, Len(s) + 1)
<1> PICK e, t, n : e = Session(f) /\ t = s \o <<e>> /\ n = Len(s) + 1
  OBVIOUS
<1>1. <<e>> \in Seq(Message) /\ Len(<<e>>) = 1 /\ <<e>>[1] = e
  BY DEF Message, Session
<1>2. Len(s) \in Nat /\ n \in 1..(Len(s) + Len(<<e>>)) /\ ~(n <= Len(s)) /\ n - Len(s) = 1 /\ n \in 1..n
  BY <1>1, LenProperties
<1>3. t[n] = e
  BY <1>1, <1>2, ConcatProperties
<1>4. \A k \in 1..n : ~(k > n)
  BY <1>2
<1> QED BY <1>2, <1>3, <1>4 DEF Under

\* The boundary taken first is remembered.
LEMMA UnderTail ==
  ASSUME NEW s \in Seq(Message), s # <<>>, NEW a, NEW f, NEW i \in 1..Len(s), Under(s, a, f, i),
         NEW a2, a2 = IF Head(s).t = "session" THEN Head(s).of ELSE a
  PROVE  Under(Tail(s), a2, f, i - 1)
<1> PICK t : t = Tail(s)
  OBVIOUS
<1>1. /\ Len(s) \in Nat /\ i \in Nat /\ Head(s) = s[1]
      /\ Len(t) = Len(s) - 1 /\ \A j \in 1..Len(t) : t[j] = s[j + 1]
  BY HeadTailProperties, LenProperties
<1>2. \A j \in 1..(i - 1) : t[j] = s[j + 1] /\ j + 1 \in 1..i
  BY <1>1
<1>3. 1 \in 1..i /\ \A j \in 1..i : j # 1 => j - 1 \in 1..(i - 1) /\ t[j - 1] = s[j]
  <2>1. \A j \in 1..i : j # 1 => j - 1 \in 1..(i - 1) /\ (j - 1) + 1 = j
    BY <1>1
  <2> QED BY <1>1, <1>2, <2>1
<1>4. CASE (\A j \in 1..i : s[j].t # "session") /\ a = f
  <2>1. a2 = f /\ \A j \in 1..(i - 1) : t[j].t # "session"
    BY <1>1, <1>2, <1>3, <1>4
  <2> QED BY <2>1 DEF Under
<1>5. ASSUME NEW j \in 1..i, s[j] = Session(f), \A k \in 1..i : k > j => s[k].t # "session"
      PROVE  Under(t, a2, f, i - 1)
  <2>1. CASE j = 1
    <3>1. a2 = f
      BY <1>1, <1>5, <2>1 DEF Session
    <3>2. \A k \in 1..(i - 1) : t[k].t # "session"
      <4> TAKE k \in 1..(i - 1)
      <4>1. t[k] = s[k + 1] /\ k + 1 \in 1..i /\ k + 1 > 1
        BY <1>2
      <4> QED BY <1>5, <2>1, <4>1
    <3> QED BY <3>1, <3>2 DEF Under
  <2>2. CASE j # 1
    <3>1. j - 1 \in 1..(i - 1) /\ t[j - 1] = Session(f)
      BY <1>3, <1>5, <2>2
    <3>2. \A k \in 1..(i - 1) : k > j - 1 => t[k].t # "session"
      <4> TAKE k \in 1..(i - 1)
      <4> HAVE k > j - 1
      <4>1. t[k] = s[k + 1] /\ k + 1 \in 1..i /\ k + 1 > j
        BY <1>1, <1>2
      <4> QED BY <1>5, <4>1
    <3> QED BY <3>1, <3>2 DEF Under
  <2> QED BY <2>1, <2>2
<1> QED BY <1>4, <1>5 DEF Under

\* The sessions are in order in s, after a, and d is the one in force at its end.
Ordered(s, a, d) ==
  /\ Marked(s, a)
  /\ d # NoFile => Under(s, a, d, Len(s))

\* Rows of the session in force may follow.
LEMMA OrderedRun ==
  ASSUME NEW s \in Seq(Message), NEW m \in Seq(Message), NEW a, NEW f,
         Marked(s, a), Under(s, a, f, Len(s)),
         \A i \in DOMAIN m : m[i].t = "transcript" /\ m[i].row.of = f
  PROVE  Ordered(s \o m, a, f)
<1> PICK t, l : t = s \o m /\ l = Len(s)
  OBVIOUS
<1>1. /\ l \in Nat /\ Len(m) \in Nat /\ Len(t) = l + Len(m) /\ DOMAIN t = 1..Len(t)
      /\ DOMAIN s = 1..l /\ DOMAIN m = 1..Len(m) /\ t \in Seq(Message)
  BY ConcatProperties, LenProperties
<1>2. \A i \in 1..Len(t) : t[i] = IF i <= l THEN s[i] ELSE m[i - l]
  BY <1>1, ConcatProperties
<1>3. ASSUME NEW n \in l..(l + Len(m)) PROVE Under(t, a, f, n)
  BY UnderExtend
<1>4. ASSUME NEW i \in DOMAIN t, t[i].t = "transcript" PROVE Under(t, a, t[i].row.of, i)
  <2>1. i \in 1..Len(t) /\ i \in Nat
    BY <1>1
  <2>2. CASE i <= l
    <3>1. i \in 0..l /\ i \in DOMAIN s /\ t[i] = s[i]
      BY <1>1, <1>2, <2>1, <2>2
    <3>2. Under(s, a, t[i].row.of, i)
      BY <1>4, <3>1 DEF Marked
    <3> QED BY <3>1, <3>2, UnderPrefix
  <2>3. CASE ~(i <= l)
    <3>1. i - l \in DOMAIN m /\ t[i] = m[i - l] /\ i \in l..(l + Len(m))
      BY <1>1, <1>2, <2>1, <2>3
    <3> QED BY <1>3, <3>1
  <2> QED BY <2>2, <2>3
<1>5. Len(t) \in l..(l + Len(m))
  BY <1>1
<1> QED BY <1>3, <1>4, <1>5 DEF Ordered, Marked

\* A boundary may follow.
LEMMA OrderedBoundary ==
  ASSUME NEW s \in Seq(Message), NEW a, NEW f \in File, Marked(s, a)
  PROVE  Ordered(s \o <<Session(f)>>, a, f)
<1> PICK e, t, l : e = Session(f) /\ t = s \o <<e>> /\ l = Len(s)
  OBVIOUS
<1>1. <<e>> \in Seq(Message) /\ Len(<<e>>) = 1 /\ <<e>>[1] = e /\ e.t = "session"
  BY DEF Message, Session
<1>2. /\ l \in Nat /\ t \in Seq(Message) /\ Len(t) = l + 1 /\ DOMAIN t = 1..(l + 1) /\ DOMAIN s = 1..l
  BY <1>1, ConcatProperties, LenProperties
<1>3. \A i \in 1..(l + 1) : t[i] = IF i <= l THEN s[i] ELSE <<e>>[i - l]
  BY <1>1, <1>2, ConcatProperties
<1>4. ASSUME NEW i \in DOMAIN t, t[i].t = "transcript" PROVE Under(t, a, t[i].row.of, i)
  <2>1. CASE i <= l
    <3>1. i \in 0..l /\ i \in DOMAIN s /\ t[i] = s[i]
      BY <1>2, <1>3, <2>1
    <3>2. Under(s, a, t[i].row.of, i)
      BY <1>4, <3>1 DEF Marked
    <3> QED BY <1>1, <3>1, <3>2, UnderPrefix
  <2>2. CASE ~(i <= l)
    <3>1. i - l = 1 /\ i \in 1..(l + 1)
      BY <1>2, <2>2
    <3>2. t[i] = e
      BY <1>1, <1>3, <2>2, <3>1
    <3> QED BY <1>1, <1>4, <3>2
  <2> QED BY <2>1, <2>2
<1>5. Under(t, a, f, Len(t))
  BY <1>2, UnderBoundary
<1> QED BY <1>4, <1>5 DEF Ordered, Marked

\* So may what the watcher reads.
LEMMA OrderedRead ==
  ASSUME NEW s \in Seq(Message), NEW m \in Seq(Message), NEW a, NEW d, NEW f \in File, NEW n, NEW named,
         Ordered(s, a, d),
         \A i \in DOMAIN m : m[i].t = "transcript" /\ m[i].row.of = f,
         m # <<>> => named,
         n = IF d # f /\ named THEN <<Session(f)>> \o m ELSE m
  PROVE  Ordered(s \o n, a, IF named THEN f ELSE d)
<1>1. f # NoFile
  BY TranscriptAssumption
<1>2. CASE m = <<>> /\ (~named \/ d = f)
  <2>1. s \o n = s
    BY <1>2, ConcatEmptySeq
  <2> QED BY <1>2, <2>1
<1>3. CASE m # <<>> /\ d = f
  <2>1. Marked(s, a) /\ Under(s, a, f, Len(s)) /\ n = m
    BY <1>1, <1>3 DEF Ordered
  <2> QED BY <1>3, <2>1, OrderedRun
<1>4. CASE named /\ d # f
  <2> PICK b, t : b = <<Session(f)>> /\ t = s \o b
    OBVIOUS
  <2>1. b \in Seq(Message) /\ t \in Seq(Message) /\ s \o n = t \o m
    <3>1. Session(f) \in Message
      BY DEF Session, Message
    <3>2. b \in Seq(Message) /\ n = b \o m
      BY <1>4, <3>1
    <3> QED BY <3>2, ConcatProperties, ConcatAssociative
  <2>2. Ordered(t, a, f)
    BY OrderedBoundary DEF Ordered
  <2>3. Ordered(t \o m, a, f)
    <3>1. CASE m = <<>>
      <4>1. t \o m = t
        BY <2>1, <3>1, ConcatEmptySeq
      <4> QED BY <2>2, <4>1
    <3>2. CASE m # <<>>
      BY <1>1, <2>1, <2>2, <3>2, OrderedRun DEF Ordered
    <3> QED BY <3>1, <3>2
  <2> QED BY <1>4, <2>1, <2>3
<1> QED BY <1>2, <1>3, <1>4

\* The first message may be taken.
LEMMA OrderedTail ==
  ASSUME NEW s \in Seq(Message), s # <<>>, NEW a, NEW d, Ordered(s, a, d),
         NEW a2, a2 = IF Head(s).t = "session" THEN Head(s).of ELSE a
  PROVE  Ordered(Tail(s), a2, d)
<1> PICK t, l : t = Tail(s) /\ l = Len(s)
  OBVIOUS
<1>1. /\ l \in Nat /\ l # 0 /\ t \in Seq(Message) /\ Len(t) = l - 1 /\ \A j \in 1..Len(t) : t[j] = s[j + 1]
      /\ DOMAIN t = 1..(l - 1) /\ DOMAIN s = 1..l
  BY HeadTailProperties, LenProperties, EmptySeq
<1>2. ASSUME NEW f, NEW i \in 1..l, Under(s, a, f, i) PROVE Under(t, a2, f, i - 1)
  BY <1>2, UnderTail
<1>3. ASSUME NEW i \in DOMAIN t, t[i].t = "transcript" PROVE Under(t, a2, t[i].row.of, i)
  <2>1. i + 1 \in DOMAIN s /\ i + 1 \in 1..l /\ t[i] = s[i + 1] /\ (i + 1) - 1 = i
    BY <1>1
  <2>2. Under(s, a, t[i].row.of, i + 1)
    BY <1>3, <2>1 DEF Ordered, Marked
  <2>3. Under(t, a2, t[i].row.of, (i + 1) - 1)
    BY <1>2, <2>1, <2>2
  <2> QED BY <2>1, <2>3
<1>4. d # NoFile => Under(t, a2, d, Len(t))
  <2>1. l \in 1..l /\ Len(t) = l - 1
    BY <1>1
  <2> QED BY <1>2, <2>1 DEF Ordered
<1> QED BY <1>3, <1>4 DEF Ordered, Marked

\* The stream and what is known of it are as they were, or only the tailer's session
\* is forgotten.
LEMMA OrderedKept ==
  ASSUME SessionsMarked, hi' = hi, batch' = batch, announced' = announced, sid' \in {NoFile, sid}
  PROVE  SessionsMarked'
<1>1. (hi \o batch)' = hi \o batch
  OBVIOUS
<1>2. Marked(hi \o batch, announced)' <=> Marked(hi \o batch, announced)
  BY <1>1 DEF Marked, Under
<1>3. \A f, i : Under(hi \o batch, announced, f, i)' <=> Under(hi \o batch, announced, f, i)
  BY <1>1 DEF Under
<1>4. sid' # NoFile => Under((hi \o batch)', announced', sid', Len((hi \o batch)'))
  BY <1>1 DEF SessionsMarked
<1> QED BY <1>1, <1>2, <1>4 DEF SessionsMarked

\* Every step leaves the sessions in their order.
LEMMA StepMarked ==
  ASSUME TypeOK, Grounded, SessionsMarked, [Next]_vars
  PROVE  SessionsMarked'
<1>0. Ordered(hi \o batch, announced, sid)
  BY DEF SessionsMarked, Ordered
<1>1. ASSUME NEW s, NEW a, NEW d, Ordered(s, a, d), s = (hi \o batch)', a = announced', d = sid'
      PROVE  SessionsMarked'
  <2>1. Marked(s, a) /\ (d # NoFile => Under(s, a, d, Len(s)))
    BY <1>1 DEF Ordered
  <2>2. Marked((hi \o batch)', announced')
    BY <1>1, <2>1
  <2>3. sid' # NoFile => Under((hi \o batch)', announced', sid', Len((hi \o batch)'))
    BY <1>1, <2>1
  <2> QED BY <2>2, <2>3 DEF SessionsMarked
<1>2. hi \in Seq(Message) /\ batch \in Seq(Message)
  BY DEF TypeOK
<1>3. CASE Agent \/ TurnEnd \/ Join \/ Leave \/ RefreshArrives \/ WatcherStat \/ WatcherLen \/ UNCHANGED vars
  <2>1. hi' = hi /\ batch' = batch /\ announced' = announced /\ sid' = sid
    BY <1>3 DEF Agent, StartRow, FinishRow, ReplaceFile, TurnEnd, Join, Leave, RefreshArrives,
                WatcherStat, WatcherLen, vars, tailVars
  <2> QED BY <2>1, OrderedKept
<1>4. CASE WatcherTick \/ WatcherRefresh
  <2>1. hi' = hi /\ batch' = batch /\ announced' = announced
    BY <1>4 DEF WatcherTick, WatcherRefresh
  <2>2. sid' \in {NoFile, sid}
    <3>1. PICK full : Discover(full)
      BY <1>4 DEF WatcherTick, WatcherRefresh
    <3> QED BY <3>1 DEF Discover, tailVars
  <2> QED BY <2>1, <2>2, OrderedKept
<1>5. CASE WatcherRead
  <2>1. PICK cut \in BOOLEAN :
           /\ path \in File /\ batch = <<>> /\ Messages(Lines(cut)) \in Seq(Message)
           /\ batch' = IF sid # path /\ Identified(Lines(cut))
                       THEN <<Session(path)>> \o Messages(Lines(cut)) ELSE Messages(Lines(cut))
           /\ sid' = IF Identified(Lines(cut)) THEN path ELSE sid
    BY <1>5, BatchRead
  <2> PICK m, named : m = Messages(Lines(cut)) /\ named = Identified(Lines(cut))
    OBVIOUS
  <2>2. \A i \in DOMAIN m : m[i].t = "transcript" /\ m[i].row.of = path
    <3> TAKE i \in DOMAIN m
    <3>1. /\ Lines(cut) \in Seq(Row)
          /\ \A j \in DOMAIN Lines(cut) : \E k \in DOMAIN file[path].rows : Lines(cut)[j] = file[path].rows[k]
      BY <1>5, LinesRead DEF WatcherRead
    <3>2. PICK j \in DOMAIN Lines(cut) : m[i] = Entry(Lines(cut)[j])
      BY <3>1, MessagesAre
    <3>3. PICK k \in DOMAIN file[path].rows : Lines(cut)[j] = file[path].rows[k]
      BY <3>1
    <3>4. Lines(cut)[j].of = path
      BY <2>1, <3>3 DEF Grounded, FilesGrounded
    <3> QED BY <3>2, <3>4 DEF Entry
  <2>3. hi \o batch = hi
    BY <1>2, <2>1, ConcatEmptySeq
  <2>6. m # <<>> => named
    BY <1>5, NamedIfAny
  <2>4. hi' = hi /\ announced' = announced
    BY <1>5 DEF WatcherRead
  <2>5. Ordered(hi \o batch', announced, sid')
    <3>1. Ordered(hi, announced, sid)
      BY <1>0, <2>3
    <3>2. Ordered(hi \o batch', announced, IF named THEN path ELSE sid)
      BY <1>2, <2>1, <2>2, <2>6, <3>1, OrderedRead
    <3> QED BY <2>1, <3>2
  <2> QED BY <1>1, <2>4, <2>5
<1>6. CASE WatcherSend
  <2>1. /\ batch # <<>> /\ hi' = Append(hi, Head(batch)) /\ batch' = Tail(batch)
        /\ sid' = sid /\ announced' = announced
    BY <1>6 DEF WatcherSend, tailVars, TypeOK
  <2>2. Append(hi, Head(batch)) \o Tail(batch) = hi \o batch
    <3>1. Head(batch) \in Message /\ Tail(batch) \in Seq(Message) /\ batch = <<Head(batch)>> \o Tail(batch)
      BY <1>2, <2>1
    <3>2. Append(hi, Head(batch)) = hi \o <<Head(batch)>> /\ <<Head(batch)>> \in Seq(Message)
      BY <1>2, <3>1, AppendIsConcat
    <3> QED BY <1>2, <3>1, <3>2, ConcatAssociative
  <2>3. hi' \o batch' = hi \o batch
    BY <2>1, <2>2
  <2> QED BY <1>0, <1>1, <2>1, <2>3
<1>7. CASE Deliver
  <2>1. /\ hi # <<>> /\ hi' = Tail(hi) /\ batch' = batch /\ sid' = sid
        /\ announced' = IF Head(hi).t = "session" THEN Head(hi).of ELSE announced
    BY <1>7 DEF Deliver, tailVars
  <2> PICK s : s = hi \o batch
    OBVIOUS
  <2>2. /\ s \in Seq(Message) /\ s # <<>> /\ Head(s) = Head(hi) /\ Tail(s) = Tail(hi) \o batch
    BY <1>2, <2>1
  <2>3. Ordered(Tail(s), announced', sid)
    BY <1>0, <2>1, <2>2, OrderedTail
  <2>4. (hi \o batch)' = Tail(s)
    BY <2>1, <2>2
  <2> QED BY <1>1, <2>1, <2>3, <2>4
<1> QED BY <1>3, <1>4, <1>5, <1>6, <1>7 DEF Next, Watcher

\* A row is never sent under the wrong session: the last boundary before it in
\* the stream is that of its file (session.rs, 59-77).
THEOREM RowsUnderSession == Spec => []SessionFirst
<1>1. Init => SessionsMarked
  <2> SUFFICES ASSUME Init PROVE SessionsMarked
    OBVIOUS
  <2>1. hi = <<>> /\ batch = <<>> /\ sid = NoFile
    BY DEF Init
  <2>2. hi \o batch = <<>>
    BY <2>1
  <2>3. DOMAIN (hi \o batch) = {}
    BY <2>2
  <2> QED BY <2>1, <2>3 DEF SessionsMarked, Marked
<1>2. TypeOK /\ Grounded /\ SessionsMarked /\ [Next]_vars => TypeOK' /\ Grounded' /\ SessionsMarked'
  BY StepType, StepMarked
<1>3. TypeOK /\ SessionsMarked => SessionFirst
  BY MarkedFirst
<1> QED BY <1>1, <1>2, <1>3, InitType, PTL DEF Spec

-----------------------------------------------------------------------------
(* What the cursor has passed is shown or on its way.                      *)

\* r is in the dashboard's set, on its way there, or will be sent again: a
\* refresh:full is on its way, unless it was dropped or nobody is there.
Safe(r) ==
  \/ ~linked \/ want \/ missed
  \/ \E i \in DOMAIN refresh : refresh[i]
  \/ r \in seen
  \/ \E i \in DOMAIN hi : hi[i] = Entry(r)
  \/ \E i \in DOMAIN batch : batch[i] = Entry(r)

\* The cursor stands at a row's end, and no message row it has passed was lost, as
\* long as the watched file is the one the tailer knows.
Cursor ==
  /\ \E k \in Nat : offset = 2 * k
  /\ path # NoFile /\ inode = file[path].ino =>
       /\ offset <= 2 * Len(file[path].rows)
       /\ \A i \in DOMAIN file[path].rows :
            2 * i <= offset /\ file[path].rows[i].kind = "message" => Safe(file[path].rows[i])

SafeStays == \A r \in Row : Safe(r) => Safe(r)'

\* At the end, with all of it settled, every message row is shown.
LEMMA SettledShown ==
  ASSUME TypeOK, Cursor, seen = Shown
  PROVE  CaughtUp
<1> SUFFICES ASSUME Settled, NEW r \in Wanted PROVE r \in Shown
  BY DEF CaughtUp
<1>1. /\ linked /\ ~want /\ ~missed /\ pc = "idle" /\ hi = <<>> /\ newest # NoFile /\ path = newest
      /\ \A i \in DOMAIN refresh : ~refresh[i]
      /\ inode = file[newest].ino /\ offset = 2 * Len(file[newest].rows)
  BY DEF Settled
<1>2. batch = <<>>
  BY <1>1 DEF TypeOK
<1>3. PICK i \in DOMAIN file[newest].rows : file[newest].rows[i] = r /\ r.kind = "message"
  BY <1>1 DEF Wanted
<1>4. 2 * i <= offset
  <2>1. file[newest].rows \in Seq(Row)
    BY <1>1 DEF TypeOK
  <2>2. i \in 1..Len(file[newest].rows) /\ Len(file[newest].rows) \in Nat
    BY <1>3, <2>1, LenProperties
  <2> QED BY <1>1, <2>2
<1>5. Safe(r)
  BY <1>1, <1>3, <1>4 DEF Cursor
<1>6. DOMAIN hi = {} /\ DOMAIN batch = {}
  BY <1>1, <1>2
<1> QED BY <1>1, <1>5, <1>6 DEF Safe

\* From the start of the file nothing has been passed.
LEMMA CursorReset ==
  ASSUME TypeOK', offset' = 0
  PROVE  Cursor'
<1>1. offset' = 2 * 0
  BY DEF TypeOK
<1>2. ASSUME path' # NoFile, NEW rows, rows = file'[path'].rows
      PROVE  0 <= 2 * Len(rows) /\ \A i \in DOMAIN rows : ~(2 * i <= 0)
  <2>1. rows \in Seq(Row)
    BY <1>2 DEF TypeOK
  <2> QED BY <2>1, LenProperties
<1> QED BY <1>1, <1>2 DEF Cursor

\* A step that leaves the tailer and its file alone, and loses nothing.
LEMMA CursorKept ==
  ASSUME TypeOK, Cursor, SafeStays, UNCHANGED <<path, inode, offset>>,
         path # NoFile => file'[path] = file[path]
  PROVE  Cursor'
<1>1. path # NoFile => path \in File /\ file[path].rows \in Seq(Row)
  BY DEF TypeOK
<1>2. ASSUME path # NoFile, inode = file[path].ino, NEW i \in DOMAIN file[path].rows, 2 * i <= offset,
             file[path].rows[i].kind = "message"
      PROVE  Safe(file[path].rows[i])'
  <2>1. file[path].rows[i] \in Row
    BY <1>1, <1>2, ElementOfSeq, LenProperties
  <2>2. Safe(file[path].rows[i])
    BY <1>2 DEF Cursor
  <2>3. file'[path'].rows[i] = file[path].rows[i]
    BY <1>2
  <2>4. ASSUME NEW r \in Row, r = file[path].rows[i] PROVE Safe(r)'
    BY <2>2, <2>4 DEF SafeStays
  <2> QED BY <2>1, <2>3, <2>4
<1> QED BY <1>2 DEF Cursor

\* The agent's step grows the watched file, or replaces it by one the tailer does
\* not know.
LEMMA AgentCursor ==
  ASSUME TypeOK, Grounded, Cursor, NEW f \in File, AgentMoves(f),
         UNCHANGED <<pc, tailVars, batch, hi, refresh, dashVars, missed, announced>>
  PROVE  Cursor'
<1>1. path' = path /\ inode' = inode /\ offset' = offset /\ SafeStays
  BY DEF tailVars, dashVars, SafeStays, Safe
<1>2. TypeOK'
  BY AgentGrounded
<1>3. CASE path # f
  <2>1. path # NoFile => file'[path] = file[path]
    BY <1>3 DEF AgentMoves, TypeOK
  <2> QED BY <1>1, <1>2, <2>1, CursorKept
<1>4. CASE path = f
  <2>1. f # NoFile /\ inode <= High /\ inode \in Nat /\ High \in Nat
    BY HighType, TranscriptAssumption DEF Grounded, TailGrounded, TypeOK
  <2>2. CASE file'[f].ino > High
    <3>1. file'[f].ino # inode
      BY <2>1, <2>2
    <3> QED BY <1>1, <1>4, <3>1 DEF Cursor
  <2>3. CASE /\ file'[f].ino = file[f].ino
             /\ file'[f].rows = file[f].rows \/ \E r \in Row : file'[f].rows = Append(file[f].rows, r)
    <3> PICK p, q : p = file[f].rows /\ q = file'[f].rows
      OBVIOUS
    <3>1. p \in Seq(Row) /\ (q = p \/ \E r \in Row : q = Append(p, r))
      BY <2>3 DEF TypeOK
    <3>2. /\ Len(p) \in Nat /\ DOMAIN p = 1..Len(p) /\ q \in Seq(Row) /\ DOMAIN q = 1..Len(q) /\ Len(q) \in Nat
          /\ Len(p) <= Len(q) /\ \A i \in 1..Len(p) : q[i] = p[i]
      <4>1. CASE q = p
        BY <3>1, <4>1, LenProperties
      <4>2. ASSUME NEW r \in Row, q = Append(p, r) PROVE <3>2!1
        BY <3>1, <4>2, LenProperties, AppendProperties
      <4> QED BY <3>1, <4>1, <4>2
    <3>3. ASSUME inode = file[f].ino
          PROVE  /\ offset <= 2 * Len(q)
                 /\ \A i \in DOMAIN q : 2 * i <= offset /\ q[i].kind = "message" => Safe(q[i])'
      <4>1. offset <= 2 * Len(p) /\ offset \in Nat
        BY <1>4, <2>1, <3>3 DEF Cursor, TypeOK
      <4>2. ASSUME NEW i \in DOMAIN q, 2 * i <= offset, q[i].kind = "message" PROVE Safe(q[i])'
        <5>1. i \in DOMAIN p /\ q[i] = p[i]
          BY <3>2, <4>1, <4>2
        <5>2. Safe(p[i])
          BY <1>4, <2>1, <3>3, <4>2, <5>1 DEF Cursor
        <5>3. p[i] \in Row
          BY <3>1, <5>1, ElementOfSeq, LenProperties
        <5> QED BY <1>1, <5>1, <5>2, <5>3 DEF SafeStays
      <4> QED BY <3>2, <4>1, <4>2
    <3> QED BY <1>1, <1>4, <2>3, <3>3 DEF Cursor
  <2> QED BY <2>2, <2>3 DEF AgentMoves
<1> QED BY <1>3, <1>4

\* The watcher's look at the inode and at the length keeps the place or starts over.
LEMMA LookCursor ==
  ASSUME TypeOK, Grounded, Cursor, WatcherStat \/ WatcherLen
  PROVE  Cursor'
<1>1. TypeOK'
  BY WatcherGrounded
<1>2. /\ path' = path /\ file' = file /\ SafeStays
  BY DEF WatcherStat, WatcherLen, agentVars, tailVars, dashVars, SafeStays, Safe
<1>3. offset' = 0 \/ (offset' = offset /\ inode' = inode)
  BY DEF WatcherStat, WatcherLen
<1> QED BY <1>1, <1>2, <1>3, CursorReset, CursorKept

\* Every message row that a read passes is put in the batch.
LEMMA ReadCursor ==
  ASSUME TypeOK, Grounded, Cursor, WatcherRead
  PROVE  Cursor'
<1>1. PICK cut \in BOOLEAN :
         /\ cut => file[path].ino # inode
         /\ path \in File /\ batch = <<>> /\ Messages(Lines(cut)) \in Seq(Message)
         /\ batch' = IF sid # path /\ Identified(Lines(cut))
                     THEN <<Session(path)>> \o Messages(Lines(cut)) ELSE Messages(Lines(cut))
  BY BatchRead
<1>2. /\ path' = path /\ inode' = inode /\ file' = file /\ offset' = Consumed /\ hi' = hi /\ pc = "read"
      /\ refresh' = refresh /\ linked' = linked /\ want' = want /\ missed' = missed /\ seen' = seen
  BY DEF WatcherRead, agentVars, dashVars
<1> PICK rows, m, l : rows = file[path].rows /\ m = Messages(Lines(cut)) /\ l = Len(rows)
  OBVIOUS
<1>3. rows \in Seq(Row) /\ l \in Nat /\ DOMAIN rows = 1..l /\ offset \in Nat
  BY <1>1, LenProperties DEF TypeOK
<1>4. \A r : Safe(r) => Safe(r)'
  <2>1. DOMAIN batch = {}
    BY <1>1
  <2> QED BY <1>2, <2>1 DEF Safe
<1>5. PICK k \in Nat : offset = 2 * k
  BY DEF Cursor
<1>6. Consumed = (IF 2 * l > offset THEN 2 * l ELSE offset)
  BY DEF Consumed
<1>7. \E n \in Nat : offset' = 2 * n
  BY <1>2, <1>3, <1>5, <1>6
<1>8. ASSUME inode = file[path].ino
      PROVE  /\ offset' <= 2 * l
             /\ \A i \in DOMAIN rows : rows[i].kind = "message" => Safe(rows[i])'
  <2>1. offset <= 2 * l /\ \A i \in DOMAIN rows : 2 * i <= offset /\ rows[i].kind = "message" => Safe(rows[i])
    <3>1. path # NoFile
      BY <1>1, TranscriptAssumption
    <3> QED BY <1>8, <3>1 DEF Cursor
  <2>2. offset' <= 2 * l
    BY <1>2, <1>3, <1>6, <2>1
  <2>3. (offset + 1) \div 2 = k
    BY <1>5
  <2>4. /\ Lines(cut) \in Seq(Row)
        /\ \A j \in DOMAIN rows : j > k => \E i \in DOMAIN Lines(cut) : Lines(cut)[i] = rows[j]
    BY <1>1, <1>2, <1>8, <2>3, LinesRead
  <2>5. ASSUME NEW j \in DOMAIN rows, rows[j].kind = "message", j > k PROVE Safe(rows[j])'
    <3>1. PICK i \in DOMAIN Lines(cut) : Lines(cut)[i] = rows[j]
      BY <2>4, <2>5
    <3>2. PICK n \in DOMAIN m : m[n] = Entry(rows[j])
      BY <2>4, <2>5, <3>1, MessagesAre
    <3>3. \E n2 \in DOMAIN batch' : batch'[n2] = Entry(rows[j])
      <4>1. CASE batch' = m
        BY <3>2, <4>1
      <4>2. CASE batch' = <<Session(path)>> \o m
        <5> PICK b : b = <<Session(path)>>
          OBVIOUS
        <5>1. b \in Seq(Message) /\ Len(b) = 1
          BY <1>1 DEF Session, Message
        <5>2. m \in Seq(Message) /\ n \in 1..Len(m) /\ Len(m) \in Nat
          BY <1>1, <3>2, LenProperties
        <5>3. n + 1 \in 1..(Len(b) + Len(m)) /\ ~(n + 1 <= Len(b)) /\ (n + 1) - Len(b) = n
          BY <5>1, <5>2
        <5>4. n + 1 \in DOMAIN batch' /\ batch'[n + 1] = m[n]
          BY <4>2, <5>1, <5>2, <5>3, ConcatProperties, LenProperties
        <5> QED BY <3>2, <5>4
      <4> QED BY <1>1, <4>1, <4>2
    <3> QED BY <3>3 DEF Safe
  <2>6. ASSUME NEW j \in DOMAIN rows, rows[j].kind = "message" PROVE Safe(rows[j])'
    <3>1. j \in Nat
      BY <1>3
    <3>2. CASE j > k
      BY <2>5, <2>6, <3>2
    <3>3. CASE ~(j > k)
      <4>1. 2 * j <= offset
        BY <1>5, <3>1, <3>3
      <4> QED BY <1>4, <2>1, <2>6, <4>1
    <3> QED BY <3>2, <3>3
  <2> QED BY <2>2, <2>6
<1> QED BY <1>2, <1>7, <1>8 DEF Cursor

\* The other steps lose nothing.
LEMMA SendSafe ==
  ASSUME TypeOK, WatcherSend
  PROVE  SafeStays
<1>1. /\ batch # <<>> /\ hi' = Append(hi, Head(batch)) /\ batch' = Tail(batch)
      /\ refresh' = refresh /\ linked' = linked /\ want' = want /\ missed' = missed /\ seen' = seen
      /\ hi \in Seq(Message) /\ batch \in Seq(Message)
  BY DEF WatcherSend, TypeOK, dashVars
<1> PICK h, b : h = hi' /\ b = batch'
  OBVIOUS
<1>2. /\ Len(hi) \in Nat /\ DOMAIN hi = 1..Len(hi) /\ h \in Seq(Message) /\ Len(h) = Len(hi) + 1
      /\ DOMAIN h = 1..(Len(hi) + 1) /\ h[Len(hi) + 1] = Head(batch) /\ \A i \in 1..Len(hi) : h[i] = hi[i]
  <2>1. Head(batch) \in Message
    BY <1>1
  <2> QED BY <1>1, <2>1, AppendProperties, LenProperties
<1>3. /\ Len(batch) \in Nat /\ DOMAIN batch = 1..Len(batch) /\ DOMAIN b = 1..(Len(batch) - 1)
      /\ Head(batch) = batch[1] /\ \A i \in 1..(Len(batch) - 1) : b[i] = batch[i + 1]
  BY <1>1, HeadTailProperties, LenProperties
<1>4. ASSUME NEW r, NEW i \in DOMAIN hi, hi[i] = Entry(r) PROVE Safe(r)'
  <2>1. i \in DOMAIN h /\ h[i] = Entry(r)
    BY <1>2, <1>4
  <2> QED BY <2>1 DEF Safe
<1>5. ASSUME NEW r, NEW i \in DOMAIN batch, batch[i] = Entry(r) PROVE Safe(r)'
  <2>1. CASE i = 1
    <3>1. Len(hi) + 1 \in DOMAIN h /\ h[Len(hi) + 1] = Entry(r)
      BY <1>2, <1>3, <1>5, <2>1
    <3> QED BY <3>1 DEF Safe
  <2>2. CASE i # 1
    <3>1. i - 1 \in 1..(Len(batch) - 1) /\ (i - 1) + 1 = i
      BY <1>3, <2>2
    <3>2. i - 1 \in DOMAIN b /\ b[i - 1] = Entry(r)
      BY <1>3, <1>5, <3>1
    <3> QED BY <3>2 DEF Safe
  <2> QED BY <2>1, <2>2
<1> QED BY <1>1, <1>4, <1>5 DEF Safe, SafeStays

LEMMA SignalSafe ==
  ASSUME TypeOK, NEW full \in BOOLEAN, Signal(full)
  PROVE  /\ (\E i \in DOMAIN refresh : refresh[i]) => (\E i \in DOMAIN refresh' : refresh'[i])
         /\ missed => missed'
         /\ full => missed' \/ \E i \in DOMAIN refresh' : refresh'[i]
<1>1. refresh \in Seq(BOOLEAN)
  BY DEF TypeOK
<1>2. CASE Len(refresh) < RefreshCap
  <2> PICK q : q = Append(refresh, full)
    OBVIOUS
  <2>1. refresh' = q /\ missed' = missed
    BY <1>2 DEF Signal
  <2>2. /\ Len(refresh) \in Nat /\ DOMAIN refresh = 1..Len(refresh) /\ DOMAIN q = 1..(Len(refresh) + 1)
        /\ q[Len(refresh) + 1] = full /\ \A i \in 1..Len(refresh) : q[i] = refresh[i]
    BY <1>1, AppendProperties, LenProperties
  <2>3. ASSUME NEW i \in DOMAIN refresh, refresh[i] PROVE \E j \in DOMAIN q : q[j]
    <3>1. i \in DOMAIN q /\ q[i] = refresh[i]
      BY <2>2
    <3> QED BY <2>3, <3>1
  <2>4. full => \E j \in DOMAIN q : q[j]
    <3>1. Len(refresh) + 1 \in DOMAIN q
      BY <2>2
    <3> QED BY <2>2, <3>1
  <2> QED BY <2>1, <2>3, <2>4
<1>3. CASE ~(Len(refresh) < RefreshCap)
  <2>1. refresh' = refresh /\ missed' = (missed \/ full)
    BY <1>3 DEF Signal
  <2> QED BY <2>1
<1> QED BY <1>2, <1>3

\* A message taken is shown, unless there is nobody to show it to.
LEMMA DeliverSafe ==
  ASSUME TypeOK, Deliver
  PROVE  SafeStays
<1>1. /\ hi \in Seq(Message) /\ hi # <<>> /\ hi' = Tail(hi) /\ batch' = batch
      /\ refresh' = refresh /\ linked' = linked /\ want' = want /\ missed' = missed
  BY DEF Deliver, TypeOK
<1> PICK h : h = Tail(hi)
  OBVIOUS
<1>2. /\ Len(hi) \in Nat /\ DOMAIN hi = 1..Len(hi) /\ DOMAIN h = 1..(Len(hi) - 1)
      /\ Head(hi) = hi[1] /\ \A i \in 1..(Len(hi) - 1) : h[i] = hi[i + 1]
  BY <1>1, HeadTailProperties, LenProperties
<1>3. seen \subseteq seen'
  BY DEF Deliver
<1>4. ASSUME NEW r, NEW i \in DOMAIN hi, hi[i] = Entry(r) PROVE Safe(r)'
  <2>1. CASE i = 1
    <3>1. Head(hi).t = "transcript" /\ Head(hi).row = r
      BY <1>2, <1>4, <2>1 DEF Entry
    <3>2. ~linked \/ r \in seen'
      BY <3>1 DEF Deliver
    <3> QED BY <1>1, <3>2 DEF Safe
  <2>2. CASE i # 1
    <3>1. i - 1 \in 1..(Len(hi) - 1) /\ (i - 1) + 1 = i
      BY <1>2, <2>2
    <3>2. i - 1 \in DOMAIN h /\ h[i - 1] = Entry(r)
      BY <1>2, <1>4, <3>1
    <3> QED BY <1>1, <3>2 DEF Safe
  <2> QED BY <2>1, <2>2
<1> QED BY <1>1, <1>3, <1>4 DEF Safe, SafeStays

\* The start of a poll keeps the place or starts over; a refresh:full makes it start
\* over.
LEMMA DiscoverCursor ==
  ASSUME TypeOK, Grounded, Cursor, TypeOK', NEW full \in BOOLEAN, Discover(full),
         UNCHANGED <<agentVars, batch, hi, dashVars, missed, announced>>,
         ~full => \/ refresh' = refresh
                  \/ (\E i \in DOMAIN refresh : refresh[i]) => (\E i \in DOMAIN refresh' : refresh'[i])
  PROVE  Cursor'
<1>1. file' = file /\ (~full => SafeStays)
  BY DEF agentVars, dashVars, Safe, SafeStays
<1>2. CASE newest = NoFile
  <2>1. path' = NoFile
    BY <1>2 DEF Discover, Active, tailVars, Grounded, TailGrounded
  <2>2. offset' = offset
    BY <1>2 DEF Discover, Active, tailVars
  <2> QED BY <2>1, <2>2 DEF Cursor
<1>3. CASE newest # NoFile /\ (newest # path \/ full)
  <2>1. offset' = 0
    BY <1>3 DEF Discover, Active
  <2> QED BY <2>1, CursorReset
<1>4. CASE newest # NoFile /\ newest = path /\ ~full
  <2>1. path' = path /\ inode' = inode /\ offset' = offset
    BY <1>4 DEF Discover, Active
  <2> QED BY <1>1, <1>4, <2>1, CursorKept
<1> QED BY <1>2, <1>3, <1>4

\* The terminal client shows just what it has seen.
LEMMA SeenKept ==
  ASSUME TypeOK, ~Page, seen = Shown, [Next]_vars
  PROVE  (seen = Shown)'
<1>1. CASE UNCHANGED <<seen, view>>
  BY <1>1 DEF Shown
<1>2. CASE Join
  <2>1. CASE seen' = {} /\ view' = <<>>
    <3>1. DOMAIN view' = {}
      BY <2>1
    <3> QED BY <2>1, <3>1 DEF Shown
  <2> QED BY <1>1, <1>2, <2>1 DEF Join
<1>3. CASE Deliver
  <2>1. UNCHANGED <<seen, view>> \/ \E r \in Row : seen' = seen \cup {r} /\ view' = Append(view, r)
    <3>1. Head(hi) \in Message
      BY <1>3, HeadTailProperties DEF Deliver, TypeOK
    <3>2. Head(hi).t = "transcript" => Head(hi).row \in Row
      BY <3>1 DEF Message
    <3> QED BY <1>3, <3>2 DEF Deliver
  <2>2. ASSUME NEW r \in Row, seen' = seen \cup {r}, view' = Append(view, r)
        PROVE  (seen = Shown)'
    <3> PICK v, l : v = view' /\ l = Len(view)
      OBVIOUS
    <3>1. /\ l \in Nat /\ DOMAIN view = 1..l /\ DOMAIN v = 1..(l + 1)
          /\ v[l + 1] = r /\ \A i \in 1..l : v[i] = view[i]
      BY <2>2, AppendProperties, LenProperties DEF TypeOK
    <3>2. {v[i] : i \in DOMAIN v} = {view[i] : i \in DOMAIN view} \cup {r}
      <4>1. \A i \in 1..(l + 1) : i \in 1..l \/ i = l + 1
        BY <3>1
      <4>2. l + 1 \in 1..(l + 1) /\ \A i \in 1..l : i \in 1..(l + 1)
        BY <3>1
      <4> QED BY <3>1, <4>1, <4>2
    <3> QED BY <2>2, <3>2 DEF Shown
  <2> QED BY <1>1, <2>1, <2>2
<1> QED BY <1>1, <1>2, <1>3
    DEF Next, Agent, StartRow, FinishRow, ReplaceFile, WatcherTick, WatcherRefresh, Watcher, WatcherStat,
        WatcherLen, WatcherRead, WatcherSend, TurnEnd, Leave, RefreshArrives, vars, dashVars

\* Every step keeps the cursor's promise.
LEMMA StepCursor ==
  ASSUME TypeOK, Grounded, Cursor, [Next]_vars
  PROVE  Cursor'
<1>0. TypeOK'
  BY StepType
<1>1. CASE Agent
  <2>1. PICK f \in File : StartRow(f) \/ FinishRow(f) \/ ReplaceFile(f)
    BY <1>1 DEF Agent
  <2>2. AgentMoves(f)
    BY <2>1, StartRowMoves, FinishRowMoves, ReplaceFileMoves DEF Grounded
  <2>3. UNCHANGED <<pc, tailVars, batch, hi, refresh, dashVars, missed, announced>>
    BY <2>1 DEF StartRow, FinishRow, ReplaceFile
  <2> QED BY <2>2, <2>3, AgentCursor
<1>2. CASE WatcherTick
  <2>1. Discover(FALSE) /\ refresh' = refresh
    BY <1>2 DEF WatcherTick
  <2> QED BY <1>0, <1>2, <2>1, DiscoverCursor DEF WatcherTick
<1>3. CASE WatcherRefresh
  <2>1. refresh \in Seq(BOOLEAN) /\ refresh # <<>> /\ refresh' = Tail(refresh) /\ Discover(Head(refresh))
    BY <1>3 DEF WatcherRefresh, TypeOK
  <2> PICK q : q = Tail(refresh)
    OBVIOUS
  <2>2. /\ Head(refresh) \in BOOLEAN /\ Len(refresh) \in Nat /\ DOMAIN refresh = 1..Len(refresh)
        /\ Head(refresh) = refresh[1] /\ DOMAIN q = 1..(Len(refresh) - 1)
        /\ \A i \in 1..(Len(refresh) - 1) : q[i] = refresh[i + 1]
    BY <2>1, HeadTailProperties, LenProperties
  <2>3. ASSUME ~Head(refresh), NEW i \in DOMAIN refresh, refresh[i] PROVE \E j \in DOMAIN q : q[j]
    <3>1. i # 1
      BY <2>2, <2>3
    <3>2. i - 1 \in 1..(Len(refresh) - 1) /\ (i - 1) + 1 = i
      BY <2>2, <3>1
    <3>3. i - 1 \in DOMAIN q /\ q[i - 1] = refresh[i]
      BY <2>2, <3>2
    <3> QED BY <2>3, <3>3
  <2>4. ~Head(refresh) => ((\E i \in DOMAIN refresh : refresh[i]) => (\E i \in DOMAIN refresh' : refresh'[i]))
    BY <2>1, <2>3
  <2>5. UNCHANGED <<agentVars, batch, hi, dashVars, missed, announced>>
    BY <1>3 DEF WatcherRefresh
  <2> QED BY <1>0, <2>1, <2>2, <2>4, <2>5, DiscoverCursor
<1>4. CASE WatcherStat \/ WatcherLen
  BY <1>4, LookCursor
<1>5. CASE WatcherRead
  BY <1>5, ReadCursor
<1>6. ASSUME SafeStays, UNCHANGED <<agentVars, tailVars>> PROVE Cursor'
  BY <1>0, <1>6, CursorKept DEF agentVars, tailVars
<1>7. CASE WatcherSend
  BY <1>6, <1>7, SendSafe DEF WatcherSend
<1>8. CASE Deliver
  BY <1>6, <1>8, DeliverSafe DEF Deliver
<1>9. CASE TurnEnd \/ RefreshArrives
  <2>1. PICK full \in BOOLEAN : Signal(full) /\ (want => want' \/ full)
    <3>1. CASE TurnEnd
      <4>1. Signal(FALSE) /\ want' = want
        BY <3>1 DEF TurnEnd, dashVars
      <4> QED BY <4>1
    <3>2. CASE RefreshArrives
      <4>1. Signal(TRUE)
        BY <3>2 DEF RefreshArrives
      <4> QED BY <4>1
    <3> QED BY <1>9, <3>1, <3>2
  <2>2. UNCHANGED <<agentVars, tailVars, batch, hi, linked, seen>>
    BY <1>9 DEF TurnEnd, RefreshArrives, dashVars
  <2>3. /\ (\E i \in DOMAIN refresh : refresh[i]) => (\E i \in DOMAIN refresh' : refresh'[i])
        /\ missed => missed'
        /\ full => missed' \/ \E i \in DOMAIN refresh' : refresh'[i]
    BY <2>1, SignalSafe
  <2>4. SafeStays
    BY <2>1, <2>2, <2>3 DEF SafeStays, Safe
  <2> QED BY <1>6, <2>2, <2>4
<1>10. CASE Join
  <2>1. want'
    BY <1>10 DEF Join
  <2>2. SafeStays
    BY <2>1 DEF SafeStays, Safe
  <2> QED BY <1>6, <1>10, <2>2 DEF Join
<1>11. CASE Leave
  <2>1. ~linked'
    BY <1>11 DEF Leave
  <2>2. SafeStays
    BY <2>1 DEF SafeStays, Safe
  <2> QED BY <1>6, <1>11, <2>2 DEF Leave
<1>12. CASE UNCHANGED vars
  <2>1. SafeStays
    BY <1>12 DEF SafeStays, Safe, vars, dashVars
  <2> QED BY <1>6, <1>12, <2>1 DEF vars
<1> QED BY <1>1, <1>2, <1>3, <1>4, <1>5, <1>7, <1>8, <1>9, <1>10, <1>11, <1>12 DEF Next, Watcher

\* Once the watcher has read all there is and all of it was taken, the terminal
\* client has every message row of the active file, whatever half-written rows,
\* replaced files, switches and lost sessions came before (transcript.rs, 137-176).
\* The page does not: it forgets what it shows at a boundary and not what it has seen.
THEOREM NothingPassed == ASSUME ~Page PROVE Spec => []CaughtUp
<1>1. Init => Cursor /\ seen = Shown
  <2> SUFFICES ASSUME Init PROVE Cursor /\ seen = Shown
    OBVIOUS
  <2>1. path = NoFile /\ offset = 2 * 0 /\ seen = {} /\ view = <<>>
    BY DEF Init
  <2>2. DOMAIN view = {}
    BY <2>1
  <2> QED BY <2>1, <2>2 DEF Cursor, Shown
<1>2. ASSUME TypeOK, Grounded, Cursor, seen = Shown, [Next]_vars
      PROVE  TypeOK' /\ Grounded' /\ Cursor' /\ (seen = Shown)'
  BY <1>2, StepType, StepCursor, SeenKept
<1>3. TypeOK /\ Cursor /\ seen = Shown => CaughtUp
  BY SettledShown
<1> QED BY <1>1, <1>2, <1>3, InitType, PTL DEF Spec

=============================================================================
