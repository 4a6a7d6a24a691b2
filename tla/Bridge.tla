------------------------------- MODULE Bridge -------------------------------
(***************************************************************************)
(* The controller as the tasks of src/main.rs over the direct transport of *)
(* src/ws.rs: the terminal's reader and the transcript watcher fill two    *)
(* bounded channels, one task carries them over a connection that fails    *)
(* and is made again, what the remote sends goes through a third channel   *)
(* to the task that writes the terminal, and a signal, the end of the tmux *)
(* client or of the tmux session brings all of them down.                  *)
(***************************************************************************)
EXTENDS Naturals, Sequences, SequencesExt

CONSTANTS
  HiCap, LoCap, InCap,  \* capacities of the channels (1024, 256, 256 in the code)
  NetCap,               \* frames a connection holds in one direction
  MaxOut, MaxRows, MaxInputs, \* bounds: chunks of output, transcript rows, inputs
  Endless,              \* output goes on, unnumbered, after MaxOut chunks
  MaxBreaks,            \* bound: connections that break
  Setup,                \* bound: the configurations started with
  Stops                 \* bound: what may bring the process down

ASSUME BridgeAssumption ==
  /\ {HiCap, LoCap, InCap, NetCap} \subseteq Nat \ {0}
  /\ {MaxOut, MaxRows, MaxInputs, MaxBreaks} \subseteq Nat /\ Endless \in BOOLEAN
  /\ Setup \subseteq {"bad", "open", "token"} /\ Stops \subseteq {"kill", "detach", "signal"}

\* Frames are numbered within their kind: the terminal's chunks as output and,
\* where a chunk holds a state or a bell, as event; the transcript's rows. Output
\* beyond MaxOut chunks has no number and no event.
Kind  == {"auth", "hello", "row", "event", "out", "more"}
Frame == [kind : Kind, n : Nat]
F(k, n) == [kind |-> k, n |-> n]
NoFrame == F("auth", 0)
Auth    == F("auth", 1)
Hello   == F("hello", 1)
More    == [n |-> 0, event |-> FALSE]
OutFrame(chunk) == IF chunk = More THEN F("more", 0) ELSE F("out", chunk.n)

VARIABLES
  session,   \* the tmux session: "alive" or "gone"
  client,    \* the tmux client in the controller's pty: "attached", "leaving", "exited"
  made,      \* chunks of output so far
  pty,       \* chunks not yet read: [n, event]
  reader,    \* "on" or "done"
  polled,    \* rows the watcher has taken from the transcript
  batch,     \* rows it has yet to send, from one poll
  watcher,   \* "on" or "done"
  hi, lo, inq, \* the channels
  ws,        \* the transport task: "down", "connecting", "up" (in its select),
             \* "sending" or "taking" (awaiting room), "done"
  frame,     \* the frame it is sending
  taken,     \* the input it is handing on, 0 if none
  setup,     \* REMOTE_URL and CONTROL_TOKEN: "bad" (no request can be made), "open", "token"
  link,      \* "none", "open", "broken"
  net, down, \* what the connection holds in each direction
  breaks,
  recv,      \* frames the remote has received, over all connections; unnumbered output
             \* is not recorded
  mark,      \* how many of them on earlier connections
  sentIn,    \* inputs the remote has sent
  typed,     \* inputs written to the terminal
  main,      \* "run", "closing", "waiting" (for the reader), "exited"
  cancel     \* the cancellation token

ptyVars  == <<session, client, made, pty, reader>>
rowVars  == <<polled, batch, watcher>>
wsVars   == <<ws, frame, taken, setup>>
linkVars == <<link, net, down, breaks, recv, mark, sentIn>>
mainVars == <<typed, main, cancel>>
chans    == <<hi, lo, inq>>
vars     == <<ptyVars, rowVars, wsVars, linkVars, mainVars, chans>>

\* The hello is in hi before any task starts.
Init ==
  /\ session = "alive" /\ client = "attached" /\ made = 0 /\ pty = <<>> /\ reader = "on"
  /\ polled = 0 /\ batch = <<>> /\ watcher = "on"
  /\ hi = <<Hello>> /\ lo = <<>> /\ inq = <<>>
  /\ ws = "down" /\ frame = NoFrame /\ taken = 0 /\ setup \in Setup
  /\ link = "none" /\ net = <<>> /\ down = <<>> /\ breaks = 0
  /\ recv = <<>> /\ mark = 0 /\ sentIn = 0
  /\ typed = <<>> /\ main = "run" /\ cancel = FALSE

\* Mutant: there is always room.
TryAdd_Unbounded(q, cap, x) == IF ws # "done" THEN Append(q, x) ELSE q

\* try_send to the transport: nothing is added to a full or to a closed channel.
TryAdd(q, cap, x) == IF ws # "done" /\ Len(q) < cap THEN Append(q, x) ELSE q

-----------------------------------------------------------------------------
(* tmux and the agent *)

Output ==
  /\ client = "attached" /\ session = "alive" /\ pty = <<>>
  /\ \/ /\ made < MaxOut
        /\ made' = made + 1
        /\ \E e \in BOOLEAN : pty' = <<[n |-> made + 1, event |-> e]>>
     \/ /\ Endless /\ made = MaxOut
        /\ pty' = <<More>>
        /\ UNCHANGED made
  /\ UNCHANGED <<session, client, reader, rowVars, wsVars, linkVars, mainVars, chans>>

KillSession ==
  /\ "kill" \in Stops /\ session = "alive" /\ session' = "gone"
  /\ UNCHANGED <<client, made, pty, reader, rowVars, wsVars, linkVars, mainVars, chans>>

\* Somebody else detaches the client.
DetachOutside ==
  /\ "detach" \in Stops /\ client = "attached" /\ client' = "leaving"
  /\ UNCHANGED <<session, made, pty, reader, rowVars, wsVars, linkVars, mainVars, chans>>

ClientExit ==
  /\ client = "leaving" \/ (client = "attached" /\ session = "gone")
  /\ client' = "exited"
  /\ UNCHANGED <<session, made, pty, reader, rowVars, wsVars, linkVars, mainVars, chans>>

-----------------------------------------------------------------------------
(* The reader and the watcher *)

\* Mutant: the reader awaits room in lo.
ReadChunk_Awaits ==
  /\ reader = "on" /\ pty # <<>> /\ Len(lo) < LoCap
  /\ pty' = <<>>
  /\ lo' = Append(lo, OutFrame(pty[1]))
  /\ hi' = IF pty[1].event THEN TryAdd(hi, HiCap, F("event", pty[1].n)) ELSE hi
  /\ UNCHANGED <<session, client, made, reader, rowVars, wsVars, linkVars, mainVars, inq>>

ReadChunk ==
  /\ reader = "on" /\ pty # <<>>
  /\ pty' = <<>>
  /\ lo' = TryAdd(lo, LoCap, OutFrame(pty[1]))
  /\ hi' = IF pty[1].event THEN TryAdd(hi, HiCap, F("event", pty[1].n)) ELSE hi
  /\ UNCHANGED <<session, client, made, reader, rowVars, wsVars, linkVars, mainVars, inq>>

\* Mutant: the reader ends without telling anyone.
ReadEof_Quiet ==
  /\ reader = "on" /\ pty = <<>> /\ client = "exited"
  /\ reader' = "done"
  /\ UNCHANGED <<session, client, made, pty, rowVars, wsVars, linkVars, mainVars, chans>>

ReadEof ==
  /\ reader = "on" /\ pty = <<>> /\ client = "exited"
  /\ reader' = "done" /\ cancel' = TRUE
  /\ UNCHANGED <<session, client, made, pty, rowVars, wsVars, linkVars, typed, main, chans>>

\* One poll finds the rows appended since the last.
WatchPoll ==
  /\ watcher = "on" /\ batch = <<>> /\ main \in {"run", "closing"}
  /\ \E k \in 1..MaxRows :
       /\ polled + k <= MaxRows
       /\ polled' = polled + k
       /\ batch'  = [i \in 1..k |-> F("row", polled + i)]
  /\ UNCHANGED <<watcher, ptyVars, wsVars, linkVars, mainVars, chans>>

\* Mutant: rows are offered like output.
WatchSend_Offers ==
  /\ watcher = "on" /\ batch # <<>> /\ main \in {"run", "closing"}
  /\ hi' = TryAdd(hi, HiCap, Head(batch))
  /\ batch' = Tail(batch)
  /\ UNCHANGED <<polled, watcher, ptyVars, wsVars, linkVars, mainVars, lo, inq>>

\* hi_tx.send waits for room.
WatchSend ==
  /\ watcher = "on" /\ batch # <<>> /\ main \in {"run", "closing"}
  /\ ws # "done" /\ Len(hi) < HiCap
  /\ hi' = Append(hi, Head(batch))
  /\ batch' = Tail(batch)
  /\ UNCHANGED <<polled, watcher, ptyVars, wsVars, linkVars, mainVars, lo, inq>>

\* Nobody will receive: the rest of the poll is dropped.
WatchSendFails ==
  /\ watcher = "on" /\ batch # <<>> /\ main \in {"run", "closing"}
  /\ ws = "done" /\ batch' = <<>>
  /\ UNCHANGED <<polled, watcher, ptyVars, wsVars, linkVars, mainVars, chans>>

WatchStop ==
  /\ watcher = "on" /\ batch = <<>> /\ cancel /\ main \in {"run", "closing"}
  /\ watcher' = "done"
  /\ UNCHANGED <<polled, batch, ptyVars, wsVars, linkVars, mainVars, chans>>

-----------------------------------------------------------------------------
(* The transport *)

\* The task runs until main returns and the runtime drops it.
WsRuns == main \in {"run", "closing"}

\* The connection is dropped, and with the task what it received from.
Unlink == link' = "none" /\ net' = <<>> /\ down' = <<>> /\ UNCHANGED <<breaks, recv, mark, sentIn>>

\* At the top of its loop and while it backs off the task looks at the token.
WsStart ==
  /\ WsRuns /\ ws = "down" /\ ~cancel
  /\ setup # "bad" /\ ws' = "connecting"
  /\ UNCHANGED <<frame, taken, setup, ptyVars, rowVars, linkVars, mainVars, chans>>

\* A request that cannot be built is not tried again.
WsRefuses ==
  /\ WsRuns /\ ws = "down" /\ ~cancel
  /\ setup = "bad" /\ ws' = "done" /\ hi' = <<>> /\ lo' = <<>>
  /\ UNCHANGED <<frame, taken, setup, inq, ptyVars, rowVars, linkVars, mainVars>>

WsCancelled ==
  /\ WsRuns /\ ws \in {"down", "up"} /\ cancel
  /\ ws' = "done" /\ hi' = <<>> /\ lo' = <<>> /\ Unlink
  /\ UNCHANGED <<frame, taken, setup, inq, ptyVars, rowVars, mainVars>>

\* Mutant: no auth frame.
WsConnect_Straight ==
  /\ WsRuns /\ ws = "connecting"
  /\ link' = "open" /\ mark' = Len(recv)
  /\ ws' = "up"
  /\ UNCHANGED <<net, down, breaks, recv, sentIn, frame, taken, setup, ptyVars, rowVars, mainVars, chans>>

WsConnect ==
  /\ WsRuns /\ ws = "connecting"
  /\ link' = "open" /\ mark' = Len(recv)
  /\ IF setup = "token" THEN ws' = "sending" /\ frame' = Auth ELSE ws' = "up" /\ UNCHANGED frame
  /\ UNCHANGED <<net, down, breaks, recv, sentIn, taken, setup, ptyVars, rowVars, mainVars, chans>>

WsConnectFails ==
  /\ WsRuns /\ ws = "connecting"
  /\ ws' = "down"
  /\ UNCHANGED <<frame, taken, setup, ptyVars, rowVars, linkVars, mainVars, chans>>

\* The select is biased: the token, then hi, then lo, then the remote.
Selecting == WsRuns /\ ws = "up" /\ ~cancel

\* Mutant: frames are saved up until the channel is full.
SelectHi_Batches ==
  /\ Selecting /\ Len(hi) = HiCap
  /\ ws' = "sending" /\ frame' = Head(hi) /\ hi' = Tail(hi)
  /\ UNCHANGED <<taken, setup, lo, inq, ptyVars, rowVars, linkVars, mainVars>>

SelectHi ==
  /\ Selecting /\ hi # <<>>
  /\ ws' = "sending" /\ frame' = Head(hi) /\ hi' = Tail(hi)
  /\ UNCHANGED <<taken, setup, lo, inq, ptyVars, rowVars, linkVars, mainVars>>

SelectLo ==
  /\ Selecting /\ hi = <<>> /\ lo # <<>>
  /\ ws' = "sending" /\ frame' = Head(lo) /\ lo' = Tail(lo)
  /\ UNCHANGED <<taken, setup, hi, inq, ptyVars, rowVars, linkVars, mainVars>>

SelectInbound ==
  /\ Selecting /\ hi = <<>> /\ lo = <<>> /\ down # <<>>
  /\ ws' = "taking" /\ taken' = Head(down) /\ down' = Tail(down)
  /\ UNCHANGED <<frame, setup, link, net, breaks, recv, mark, sentIn, ptyVars, rowVars, mainVars, chans>>

SelectClosed ==
  /\ Selecting /\ hi = <<>> /\ lo = <<>> /\ down = <<>> /\ link = "broken"
  /\ ws' = "down" /\ Unlink
  /\ UNCHANGED <<frame, taken, setup, ptyVars, rowVars, mainVars, chans>>

\* sink.send waits for room in the connection; nothing else is looked at meanwhile.
WsSent ==
  /\ WsRuns /\ ws = "sending" /\ link = "open" /\ Len(net) < NetCap
  /\ net' = Append(net, frame)
  /\ ws' = "up" /\ frame' = NoFrame
  /\ UNCHANGED <<taken, setup, link, down, breaks, recv, mark, sentIn, ptyVars, rowVars, mainVars, chans>>

\* On a broken connection the frame is lost, and the task may not notice yet.
WsSentInVain ==
  /\ WsRuns /\ ws = "sending" /\ link = "broken"
  /\ ws' = "up" /\ frame' = NoFrame
  /\ UNCHANGED <<taken, setup, linkVars, ptyVars, rowVars, mainVars, chans>>

\* Mutant: the frame goes back into its channel, behind the others.
WsSendFails_Requeue ==
  /\ WsRuns /\ ws = "sending" /\ link = "broken"
  /\ ws' = "down" /\ frame' = NoFrame /\ Unlink
  /\ hi' = IF frame.kind \in {"row", "event"} THEN TryAdd(hi, HiCap, frame) ELSE hi
  /\ lo' = IF frame.kind \in {"out", "more"} THEN TryAdd(lo, LoCap, frame) ELSE lo
  /\ UNCHANGED <<taken, setup, ptyVars, rowVars, mainVars, inq>>

WsSendFails ==
  /\ WsRuns /\ ws = "sending" /\ link = "broken"
  /\ ws' = "down" /\ frame' = NoFrame /\ Unlink
  /\ UNCHANGED <<taken, setup, ptyVars, rowVars, mainVars, chans>>

\* Mutant: input is offered to the channel.
WsHandOn_Offers ==
  /\ WsRuns /\ ws = "taking"
  /\ inq' = TryAdd(inq, InCap, taken)
  /\ ws' = "up" /\ taken' = 0
  /\ UNCHANGED <<frame, setup, hi, lo, ptyVars, rowVars, linkVars, mainVars>>

\* in_tx.send waits for room; no frame leaves meanwhile.
WsHandOn ==
  /\ WsRuns /\ ws = "taking" /\ Len(inq) < InCap
  /\ inq' = Append(inq, taken)
  /\ ws' = "up" /\ taken' = 0
  /\ UNCHANGED <<frame, setup, hi, lo, ptyVars, rowVars, linkVars, mainVars>>

-----------------------------------------------------------------------------
(* The remote and the network *)

RemoteRecv ==
  /\ link = "open" /\ net # <<>>
  /\ recv' = IF Head(net).kind = "more" THEN recv ELSE Append(recv, Head(net))
  /\ net' = Tail(net)
  /\ UNCHANGED <<link, down, breaks, mark, sentIn, ptyVars, rowVars, wsVars, mainVars, chans>>

RemoteSend ==
  /\ link = "open" /\ sentIn < MaxInputs /\ Len(down) < NetCap
  /\ sentIn' = sentIn + 1 /\ down' = Append(down, sentIn + 1)
  /\ UNCHANGED <<link, net, breaks, recv, mark, ptyVars, rowVars, wsVars, mainVars, chans>>

\* What was under way to the remote is lost; what had arrived may still be read.
Break ==
  /\ link = "open" /\ breaks < MaxBreaks
  /\ link' = "broken" /\ breaks' = breaks + 1
  /\ net' = <<>> /\ down' \in {down, <<>>}
  /\ UNCHANGED <<recv, mark, sentIn, ptyVars, rowVars, wsVars, mainVars, chans>>

-----------------------------------------------------------------------------
(* The inbound loop and shutdown *)

Signal ==
  /\ "signal" \in Stops /\ main = "run" /\ ~cancel /\ cancel' = TRUE
  /\ UNCHANGED <<typed, main, ptyVars, rowVars, wsVars, linkVars, chans>>

\* A write to a terminal whose client has gone fails, which is ignored.
MainInput ==
  /\ main = "run" /\ inq # <<>>
  /\ typed' = IF client # "exited" THEN Append(typed, Head(inq)) ELSE typed
  /\ inq' = Tail(inq)
  /\ UNCHANGED <<main, cancel, hi, lo, ptyVars, rowVars, wsVars, linkVars>>

\* The loop ends with the token or with the transport task, which owns in_tx.
MainStop ==
  /\ main = "run"
  /\ cancel \/ (ws = "done" /\ inq = <<>>)
  /\ main' = "closing"
  /\ UNCHANGED <<typed, cancel, ptyVars, rowVars, wsVars, linkVars, chans>>

\* Mutant: the process leaves without detaching.
MainClose_Leaves ==
  /\ main = "closing" /\ main' = "waiting"
  /\ Unlink
  /\ UNCHANGED <<typed, cancel, ptyVars, rowVars, wsVars, chans>>

\* A session that is alive is left to itself; main returns and the tasks are dropped.
MainClose ==
  /\ main = "closing" /\ main' = "waiting"
  /\ client' = IF session = "alive" /\ client = "attached" THEN "leaving" ELSE client
  /\ Unlink
  /\ UNCHANGED <<typed, cancel, session, made, pty, reader, rowVars, wsVars, chans>>

\* The runtime waits for its blocking threads, and so for the reader.
ProcessExit ==
  /\ main = "waiting" /\ reader = "done" /\ main' = "exited"
  /\ UNCHANGED <<typed, cancel, ptyVars, rowVars, wsVars, linkVars, chans>>

-----------------------------------------------------------------------------
ReaderStep == ReadChunk \/ ReadEof
WatcherStep == WatchPoll \/ WatchSend \/ WatchSendFails \/ WatchStop
WsStep ==
  \/ WsStart \/ WsRefuses \/ WsCancelled \/ WsConnect \/ WsConnectFails
  \/ SelectHi \/ SelectLo \/ SelectInbound \/ SelectClosed
  \/ WsSent \/ WsSentInVain \/ WsSendFails \/ WsHandOn
MainStep == MainInput \/ MainStop \/ MainClose \/ ProcessExit
Outside ==
  \/ Output \/ KillSession \/ DetachOutside \/ ClientExit
  \/ RemoteRecv \/ RemoteSend \/ Break \/ Signal

Next == ReaderStep \/ WatcherStep \/ WsStep \/ MainStep \/ Outside

\* Every task and thread is scheduled, a client told to leave leaves, a remote
\* reads; nobody has to write, to send, to break or to interrupt anything.
Fairness ==
  /\ WF_vars(ReaderStep)
  /\ WF_vars(WatchSend \/ WatchSendFails \/ WatchStop)
  /\ WF_vars(WsStep) /\ WF_vars(MainStep)
  /\ WF_vars(ClientExit) /\ WF_vars(RemoteRecv)

Spec == Init /\ [][Next]_vars /\ Fairness

-----------------------------------------------------------------------------
InFrame == IF ws = "sending" THEN <<frame>> ELSE <<>>

\* What the present connection has delivered and all that is on its way to it.
Current  == SubSeq(recv, mark + 1, Len(recv))
Underway(chan) == net \o InFrame \o chan
Rows(s) == {s[i].n : i \in {j \in DOMAIN s : s[j].kind = "row"}}

\* Frames of a kind that is numbered come in the order of their numbers.
Rising(s) ==
  \A i, j \in DOMAIN s :
    i < j /\ s[i].kind = s[j].kind /\ s[i].kind \in {"row", "event", "out"} => s[i].n < s[j].n

\* The state is well typed, no channel exceeds its capacity, and a task holds a
\* frame or an input exactly while it waits to pass it on.
TypeOK ==
  /\ session \in {"alive", "gone"} /\ client \in {"attached", "leaving", "exited"}
  /\ made \in 0..MaxOut /\ pty \in Seq([n : 0..MaxOut, event : BOOLEAN]) /\ reader \in {"on", "done"}
  /\ polled \in 0..MaxRows /\ batch \in Seq(Frame) /\ watcher \in {"on", "done"}
  /\ hi \in Seq(Frame) /\ Len(hi) <= HiCap
  /\ lo \in Seq(Frame) /\ Len(lo) <= LoCap
  /\ inq \in Seq(1..MaxInputs) /\ Len(inq) <= InCap
  /\ ws \in {"down", "connecting", "up", "sending", "taking", "done"}
  /\ frame \in Frame /\ (frame # NoFrame <=> ws = "sending")
  /\ taken \in 0..MaxInputs /\ (taken # 0 <=> ws = "taking")
  /\ setup \in Setup
  /\ link \in {"none", "open", "broken"}
  /\ net \in Seq(Frame) /\ Len(net) <= NetCap
  /\ down \in Seq(1..MaxInputs) /\ Len(down) <= NetCap
  /\ breaks \in 0..MaxBreaks /\ recv \in Seq(Frame) /\ mark \in 0..Len(recv)
  /\ sentIn \in 0..MaxInputs /\ typed \in Seq(1..MaxInputs)
  /\ main \in {"run", "closing", "waiting", "exited"} /\ cancel \in BOOLEAN

\* While a connection lasts no transcript row is missing between what it has
\* delivered and what the watcher read last, whatever output, events and full
\* channels come between; only the end of a connection loses rows (main.rs, the
\* watcher's hi_tx.send; ws.rs, run).
RowsContiguous ==
  link = "open" => \E first \in 1..polled + 1 :
    /\ Rows(Current \o Underway(hi) \o batch) = first..polled
    /\ breaks = 0 => first = 1

\* Over all its connections the remote gets rows, events and output in their
\* order and none twice: what a failing connection swallowed is not sent again
\* (ws.rs, run).
InOrderOnce == Rising(recv \o Underway(hi) \o lo \o batch)

\* Nothing but auth frames comes before the first hello.
HelloLeads(s) == \A i \in DOMAIN s : s[i] # Auth => \E j \in 1..i : s[j] = Hello

\* With a token every connection begins with the auth frame and has only that
\* one; the first connection announces the agent before it tells anything else
\* (ws.rs, run; main.rs, hello). Of the hello on later connections nothing is
\* said: main.rs:75 queues it once, where proto.rs:34 has it sent on connect.
Preamble ==
  /\ setup = "token" /\ link = "open" => \A i \in DOMAIN Current : Current[i] = Auth <=> i = 1
  /\ breaks = 0 => HelloLeads(recv)

\* The terminal is always read on, connected or not, whatever is full: nothing
\* the remote or the network does stalls the agent (main.rs, the reader).
NeverStalls == pty # <<>> ~> pty = <<>>

\* A signal ends the process: the detach makes the client leave, which ends the
\* reader, for which the runtime waits (main.rs, shutdown).
ExitsOnCancel == cancel ~> main = "exited"

\* So does, without a signal, the end of the session or of the client, even while
\* the transport waits for a remote, and a URL that no request can be made from,
\* which ends the transport and with it the inbound channel (main.rs, ws.rs).
ExitsWithClient ==
  session = "gone" \/ client = "exited" \/ setup = "bad" ~> main = "exited"

Received(n) == taken = n \/ Contains(inq, n)

\* Once the terminal falls quiet every input that has arrived is read, unless its
\* connection breaks first or the process is going down; an input that was read
\* is typed whatever the terminal does (ws.rs, the biased select; main.rs, the
\* inbound loop). While output goes on without a pause an input may wait for ever,
\* as the select prefers to send (ws.rs:66).
InputTyped ==
  \A n \in 1..MaxInputs :
    /\ <>[](pty = <<>>) =>
         (Contains(down, n) ~> Received(n) \/ Contains(typed, n) \/ link # "open" \/ cancel)
    /\ Received(n) ~> Contains(typed, n) \/ cancel \/ client = "exited"

\* If a connection lasts, everything the watcher has read and the reader has
\* queued gets to the remote.
Delivered ==
  <>[](link = "open" /\ ~cancel) => <>[](batch = <<>> /\ Underway(hi) \o lo = <<>>)

=============================================================================
