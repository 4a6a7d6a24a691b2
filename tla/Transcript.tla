----------------------------- MODULE Transcript -----------------------------
(***************************************************************************)
(* Channel 2, from the agent's JSONL files to a dashboard's view: the      *)
(* agent (external) appends rows, in pieces, and replaces files; the       *)
(* watcher task (src/main.rs, src/session.rs) discovers the active file,   *)
(* tails it (src/channels/transcript.rs) and puts messages on the hi       *)
(* channel; the client sends them on, or loses them while no dashboard has *)
(* a session; the dashboard drops rows it has seen.  The watcher's system  *)
(* calls are separate steps: files change between them.                    *)
(*                                                                         *)
(* Bytes are counted in half rows: a row is 2, a row still being written 1. *)
(***************************************************************************)
EXTENDS Naturals, Sequences, FiniteSets

CONSTANTS
  File,        \* the transcript files <uuid>.jsonl of the project directory
  NoFile,
  HiCap,       \* capacity of the hi channel (1024)
  RefreshCap,  \* capacity of the refresh channel (64)
  MaxRows,     \* bound: rows the agent writes
  MaxReplace,  \* bound: files replaced
  MaxJoins,    \* bound: sessions the dashboard gets
  Page         \* TRUE: dashboard/index.html, FALSE: dashboard/cli.mjs

ASSUME TranscriptAssumption ==
  /\ NoFile \notin File
  /\ HiCap \in Nat \ {0} /\ RefreshCap \in Nat \ {0}
  /\ MaxRows \in Nat /\ MaxReplace \in Nat /\ MaxJoins \in Nat /\ Page \in BOOLEAN

VARIABLES
  file,      \* per file: inode (0: absent), complete rows, whether half a row follows
  newest,    \* the file modified last
  written,   \* rows started so far: the next row's identity
  replaced,  \* files replaced so far: the next inode
  pc,        \* the watcher: "idle", "stat", "len", "read", "send"
  path, inode, offset, sid,  \* its TranscriptWatcher and JsonlTailer
  batch,     \* messages it has yet to put on hi
  hi,        \* the hi channel
  refresh,   \* the refresh channel: TRUE for full
  linked,    \* the dashboard has a session
  want,      \* its refresh:full is on its way
  seen, view,\* the dashboard's dedup set and what it shows, in order
  joins,     \* sessions so far
  missed,    \* history: a refresh:full found its channel full
  announced  \* history: the last session boundary taken from hi

agentVars   == <<file, newest, written, replaced>>
tailVars    == <<path, inode, offset, sid>>
dashVars    == <<linked, want, seen, view, joins>>
vars == <<agentVars, pc, tailVars, batch, hi, refresh, dashVars, missed, announced>>

Kinds == {"message", "mode", "snapshot"}   \* with uuid and sessionId, with sessionId only, with neither

Session(f) == [t |-> "session", of |-> f]
Entry(r)   == [t |-> "transcript", row |-> r]

Init ==
  /\ file = [f \in File |-> [ino |-> 0, rows |-> <<>>, half |-> FALSE]]
  /\ newest = NoFile /\ written = 0 /\ replaced = 0
  /\ pc = "idle" /\ path = NoFile /\ inode = 0 /\ offset = 0 /\ sid = NoFile
  /\ batch = <<>> /\ hi = <<>> /\ refresh = <<>>
  /\ linked = FALSE /\ want = FALSE /\ seen = {} /\ view = <<>> /\ joins = 0
  /\ missed = FALSE /\ announced = NoFile

-----------------------------------------------------------------------------
(* The agent (external).                                                   *)

Exists(f) == file[f].ino # 0
Ino(f) == IF Exists(f) THEN file[f].ino ELSE replaced + Cardinality({g \in File : Exists(g)}) + 1

\* A row's first half is flushed; the file is created if need be.
StartRow(f) ==
  /\ written < MaxRows /\ ~file[f].half
  /\ file' = [file EXCEPT ![f].half = TRUE, ![f].ino = Ino(f)]
  /\ written' = written + 1
  /\ newest' = f
  /\ UNCHANGED <<replaced, pc, tailVars, batch, hi, refresh, dashVars, missed, announced>>

\* The rest of the row and its newline.
FinishRow(f) ==
  /\ file[f].half
  /\ \E k \in Kinds :
       file' = [file EXCEPT ![f].half = FALSE,
                            ![f].rows = Append(@, [of |-> f, id |-> written, ino |-> file[f].ino, kind |-> k])]
  /\ newest' = f
  /\ UNCHANGED <<written, replaced, pc, tailVars, batch, hi, refresh, dashVars, missed, announced>>

\* Another file takes the place of f: a new inode, some rows.
ReplaceFile(f) ==
  /\ Exists(f) /\ replaced < MaxReplace
  /\ replaced' = replaced + 1
  /\ LET ino == replaced' + Cardinality({g \in File : Exists(g)})
     IN  \E n \in 0..(MaxRows - written) :
           /\ written' = written + n
           /\ file' = [file EXCEPT ![f] =
                [ino |-> ino, half |-> FALSE,
                 rows |-> [i \in 1..n |-> [of |-> f, id |-> written + i, ino |-> ino, kind |-> "message"]]]]
  /\ newest' = f
  /\ UNCHANGED <<pc, tailVars, batch, hi, refresh, dashVars, missed, announced>>

-----------------------------------------------------------------------------
(* The watcher.                                                            *)

Length(f) == 2 * Len(file[f].rows) + (IF file[f].half THEN 1 ELSE 0)

\* Mutant: once locked on a file the watcher never looks again.
Active_Sticky == IF path # NoFile THEN path ELSE newest

Active == newest

\* Mutant: a switch keeps the session of the file before.
Discover_KeepsSid(full) ==
  IF Active = NoFile
  THEN pc' = "idle" /\ UNCHANGED tailVars
  ELSE /\ pc' = "stat"
       /\ path' = Active
       /\ inode'  = IF Active # path \/ full THEN file[Active].ino ELSE inode
       /\ offset' = IF Active # path \/ full THEN 0 ELSE offset
       /\ UNCHANGED sid

\* poll begins: the most recently modified file, locked onto afresh if it is
\* not the current one; full starts over.
Discover(full) ==
  IF Active = NoFile
  THEN /\ pc' = "idle"
       /\ UNCHANGED tailVars
  ELSE /\ pc' = "stat"
       /\ path' = Active
       /\ inode'  = IF Active # path \/ full THEN file[Active].ino ELSE inode
       /\ offset' = IF Active # path \/ full THEN 0 ELSE offset
       /\ sid'    = IF Active # path THEN NoFile ELSE sid

WatcherTick ==
  /\ pc = "idle"
  /\ Discover(FALSE)
  /\ UNCHANGED <<agentVars, batch, hi, refresh, dashVars, missed, announced>>

WatcherRefresh ==
  /\ pc = "idle" /\ refresh # <<>>
  /\ Discover(Head(refresh))
  /\ refresh' = Tail(refresh)
  /\ UNCHANGED <<agentVars, batch, hi, dashVars, missed, announced>>

\* Re-anchor on a changed inode.
WatcherStat ==
  /\ pc = "stat"
  /\ pc' = "len"
  /\ inode' = file[path].ino
  /\ offset' = IF file[path].ino # inode THEN 0 ELSE offset
  /\ UNCHANGED <<agentVars, path, sid, batch, hi, refresh, dashVars, missed, announced>>

\* A shorter file was truncated; an equal one has nothing new.
WatcherLen ==
  /\ pc = "len"
  /\ LET from == IF Length(path) < offset THEN 0 ELSE offset
     IN  /\ offset' = from
         /\ pc' = IF Length(path) <= from THEN "idle" ELSE "read"
  /\ UNCHANGED <<agentVars, path, inode, sid, batch, hi, refresh, dashVars, missed, announced>>

\* Mutant: the cursor goes to the end of the file.
Consumed_ToEnd == Length(path)

\* The cursor goes just past the last newline.
Consumed == IF 2 * Len(file[path].rows) > offset THEN 2 * Len(file[path].rows) ELSE offset

\* The lines read: those that begin at or after the cursor.  Of a file put
\* there since the inode was checked the first one may be cut.
Lines(cut) ==
  LET rows == file[path].rows
      first == (offset + 1) \div 2 + 1 + (IF cut /\ offset > 0 THEN 1 ELSE 0)
  IN  SubSeq(rows, first, Len(rows))

\* A message for each of the rows that has a uuid, in their order.
Messages(rows) ==
  LET upTo[n \in 0..Len(rows)] ==
        IF n = 0 THEN <<>>
        ELSE IF rows[n].kind = "message" THEN Append(upTo[n - 1], Entry(rows[n]))
        ELSE upTo[n - 1]
  IN  upTo[Len(rows)]

\* Some row has a sessionId: a file's rows carry its own name.
Identified(rows) == \E i \in DOMAIN rows : rows[i].kind # "snapshot"

\* Mutant: the boundary is sent when the rows are through.
Outbound_Late(rows) ==
  Messages(rows) \o (IF sid # path /\ Identified(rows) THEN << Session(path) >> ELSE <<>>)

\* A session boundary at the first row that shows another sessionId, which comes
\* before the rows with a uuid as these have both, then a message for each of them.
Outbound(rows) ==
  (IF sid # path /\ Identified(rows) THEN << Session(path) >> ELSE <<>>) \o Messages(rows)

WatcherRead ==
  /\ pc = "read"
  /\ \E cut \in {FALSE} \cup (IF file[path].ino # inode THEN {TRUE} ELSE {}) :
       /\ batch' = Outbound(Lines(cut))
       /\ sid' = IF Identified(Lines(cut)) THEN path ELSE sid
       /\ pc' = IF batch' = <<>> THEN "idle" ELSE "send"
  /\ offset' = Consumed
  /\ UNCHANGED <<agentVars, path, inode, hi, refresh, dashVars, missed, announced>>

\* send awaits room on hi.
WatcherSend ==
  /\ pc = "send" /\ Len(hi) < HiCap
  /\ hi' = Append(hi, Head(batch))
  /\ batch' = Tail(batch)
  /\ pc' = IF Len(batch) = 1 THEN "idle" ELSE "send"
  /\ UNCHANGED <<agentVars, tailVars, refresh, dashVars, missed, announced>>

-----------------------------------------------------------------------------
(* Refresh signals, and the dashboard.                                     *)

\* try_send: a full channel drops the signal.
Signal(full) ==
  IF Len(refresh) < RefreshCap
  THEN refresh' = Append(refresh, full) /\ UNCHANGED missed
  ELSE UNCHANGED refresh /\ missed' = (missed \/ full)

\* The reader sees the agent's turn end.
TurnEnd ==
  /\ Signal(FALSE)
  /\ UNCHANGED <<agentVars, pc, tailVars, batch, hi, dashVars, announced>>

\* The session comes up and the dashboard asks for the transcript.  A cli that
\* starts has nothing; a page whose user connects again forgets what it has
\* seen and keeps what it shows; after the controller's reconnect neither
\* forgets anything.
Join ==
  /\ ~linked /\ joins < MaxJoins
  /\ linked' = TRUE /\ want' = TRUE /\ joins' = joins + 1
  /\ \/ UNCHANGED <<seen, view>>
     \/ seen' = {} /\ view' = (IF Page THEN view ELSE <<>>)
  /\ UNCHANGED <<agentVars, pc, tailVars, batch, hi, refresh, missed, announced>>

Leave ==
  /\ linked
  /\ linked' = FALSE /\ want' = FALSE
  /\ UNCHANGED <<agentVars, pc, tailVars, batch, hi, refresh, seen, view, joins, missed, announced>>

\* The inbound loop gets the refresh.
RefreshArrives ==
  /\ want
  /\ want' = FALSE
  /\ Signal(TRUE)
  /\ UNCHANGED <<agentVars, pc, tailVars, batch, hi, linked, seen, view, joins, announced>>

\* The client takes a message from hi, for the dashboard or, without one, for
\* no one.
Deliver ==
  /\ hi # <<>>
  /\ LET m == Head(hi)
     IN  /\ announced' = IF m.t = "session" THEN m.of ELSE announced
         /\ \/ /\ ~linked
               /\ UNCHANGED <<seen, view>>
            \/ /\ linked /\ m.t = "session"
               /\ view' = IF Page THEN <<>> ELSE view
               /\ UNCHANGED seen
            \/ /\ linked /\ m.t = "transcript" /\ m.row \in seen
               /\ UNCHANGED <<seen, view>>
            \/ /\ linked /\ m.t = "transcript" /\ m.row \notin seen
               /\ seen' = seen \cup {m.row}
               /\ view' = Append(view, m.row)
  /\ hi' = Tail(hi)
  /\ UNCHANGED <<agentVars, pc, tailVars, batch, refresh, linked, want, joins, missed>>

-----------------------------------------------------------------------------
Agent == \E f \in File : StartRow(f) \/ FinishRow(f) \/ ReplaceFile(f)
Watcher == WatcherStat \/ WatcherLen \/ WatcherRead \/ WatcherSend

Next == Agent \/ WatcherTick \/ WatcherRefresh \/ Watcher \/ TurnEnd
        \/ Join \/ Leave \/ RefreshArrives \/ Deliver

Spec == Init /\ [][Next]_vars

\* The interval ticks, select serves both of its sources, and the tasks run.
Fairness ==
  WF_vars(WatcherTick) /\ SF_vars(WatcherRefresh) /\ WF_vars(Watcher)
  /\ WF_vars(RefreshArrives) /\ WF_vars(Deliver)

FairSpec == Spec /\ Fairness

-----------------------------------------------------------------------------
Shown == {view[i] : i \in DOMAIN view}

\* The message rows of the active file that are complete.
Wanted == IF newest = NoFile THEN {}
          ELSE {r \in {file[newest].rows[i] : i \in DOMAIN file[newest].rows} : r.kind = "message"}

Row == [of : File, id : 1..MaxRows, ino : Nat, kind : Kinds]
Message == [t : {"session"}, of : File] \cup [t : {"transcript"}, row : Row]

\* The state is well typed, and the channels stay within their capacity.
TypeOK ==
  /\ file \in [File -> [ino : Nat, rows : Seq(Row), half : BOOLEAN]]
  /\ newest \in File \cup {NoFile} /\ path \in File \cup {NoFile} /\ sid \in {NoFile, path}
  /\ written \in 0..MaxRows /\ replaced \in 0..MaxReplace /\ joins \in 0..MaxJoins
  /\ pc \in {"idle", "stat", "len", "read", "send"} /\ (pc = "send" <=> batch # <<>>)
  /\ inode \in Nat /\ offset \in Nat
  /\ batch \in Seq(Message) /\ hi \in Seq(Message) /\ Len(hi) <= HiCap
  /\ refresh \in Seq(BOOLEAN) /\ Len(refresh) <= RefreshCap
  /\ linked \in BOOLEAN /\ want \in BOOLEAN /\ missed \in BOOLEAN
  /\ seen \subseteq Row /\ view \in Seq(Row)
  /\ announced \in File \cup {NoFile}

\* The watcher has read all there is and all of it has been taken, and the
\* dashboard's refresh has been answered.
Settled ==
  /\ linked /\ ~want /\ ~missed
  /\ pc = "idle" /\ hi = <<>> /\ \A i \in DOMAIN refresh : ~refresh[i]
  /\ newest # NoFile /\ path = newest /\ inode = file[newest].ino
  /\ offset = 2 * Len(file[newest].rows)

\* Then the dashboard has every message row of the active file, whatever
\* half-written rows, replaced files, switches and lost sessions came before:
\* the cursor never passes a row that was not forwarded (poll, 137-176).
CaughtUp == Settled => Wanted \subseteq Shown

\* A row is never sent under the wrong session: the last boundary before it in
\* the stream is that of its file (session.rs, 59-77).
SessionFirst ==
  LET s == hi \o batch
      Boundary(i) == LET b == {j \in 1..i : s[j].t = "session"}
                     IN  IF b = {} THEN announced ELSE s[CHOOSE j \in b : \A k \in b : k <= j].of
  IN  \A i \in DOMAIN s : s[i].t = "transcript" => Boundary(i) = s[i].row.of

\* A dashboard that keeps its session ends up with the whole of the transcript
\* that is active in the end.
EventuallyShown == <>[](linked /\ ~missed => Wanted \subseteq Shown)

\* refresh:full is there for a newly attached or disordered dashboard to
\* rebuild the conversation (ARCHITECTURE.md:146): once it is answered, the
\* active file's rows are all shown, in their order.
Rebuilt ==
  Settled =>
    SelectSeq(view, LAMBDA r : r \in Wanted)
      = SelectSeq(file[newest].rows, LAMBDA r : r.kind = "message")

=============================================================================
