# claude-pty-controller: TLA+ models, checks and proofs

The repository is a Rust program that runs an interactive agent inside tmux and
bridges it to remote dashboards, either over one authenticated WebSocket
(`ws.rs`) or through a zero-knowledge relay (`bin/relay.rs`, `relay_client.rs`)
with an end-to-end Noise session per dashboard (`e2ee.rs`, `dashboard/`). The
modules here model its concurrent and stateful parts, TLC checks them on small
instances, and TLAPS proves the core invariants for every instance.

## Inventory

| Part | Source | State | Operations | Interacts with |
|---|---|---|---|---|
| Relay | `bin/relay.rs`, `relay_proto.rs` | rooms (controller slot, dashboards by name), a bounded queue and a writer task per connection | join, refuse, route, cleanup, write | relay client, dashboards (envelopes over WebSocket) |
| Relay client | `relay_client.rs` | per connection: peers by name (handshaking or ready), loaded device table | connect, presence notices, handshake, decrypt, fan-out, reconnect | relay, device table, `hi`/`lo`/`in` channels |
| End-to-end encryption | `e2ee.rs`, `dashboard/noise*.mjs` | handshake state, transport nonces, static keys | write/read message 1-3, encrypt, decrypt | relay client, dashboards |
| Device table | `e2ee.rs` (`AuthorizedDevices`), `relay_client.rs` | list in memory per connection, file on disk | load, contains, add, remove, save | relay client, operator |
| Rendezvous | `e2ee.rs` (`room_id`), `main.rs`, `noise.mjs` | epoch of the clock | derive the room name | relay |
| Dashboards | `dashboard/index.html`, `dashboard/cli.mjs` | `hs`, `up`, `seen`, the view | handle an envelope, send input | relay |
| Direct WebSocket bridge | `ws.rs` | connection, backoff | connect, authenticate, forward, reconnect | channels, remote server |
| Channels and tasks | `main.rs` | `hi` 1024, `lo` 256, `in` 256, `refresh` 64, shutdown token | PTY reader, watcher, inbound loop, shutdown | all of the above |
| Transcript watcher | `session.rs`, `channels/transcript.rs` | active file, offset, inode, session id | discover, tail, replay | agent's JSONL files, `hi` |
| OSC parser | `channels/osc.rs`, `adapter/claude.rs` | parser state, buffer | feed bytes, emit events | PTY reader |
| UTF-8 assembler | `channels/output.rs` | bytes of an incomplete character | push bytes | PTY reader |
| Instance lock | `singleton.rs` | `flock`, PID in the file | acquire | operator, systemd |
| Watchdog | `watchdog.rs` | last beats | beat, stale, notify | systemd |
| tmux host | `pty/tmux.rs` | tmux session, client | spawn, resize, write, detach | agent |
| Configuration, proto | `config.rs`, `proto.rs` | none | parse, serialise | all |

### What is hard here

* **The relay's two-step routing.** A handler clones the recipient's sender half
  under the registry lock and uses it after the lock is released
  (`relay.rs:145-156`). Joins, leaves and name takeovers happen in between.
* **Names outlive connections.** A dashboard that reconnects under its name
  replaces the registration of a connection whose cleanup has not run yet; that
  cleanup then works by name.
* **Waits without a limit.** The relay waits for a connection's first and next frames
  for as long as it takes (`relay.rs:83`, `:139`), also of a client that is no more.
* **A session is a pair of counters.** Noise transport frames decrypt only at the
  reader's next nonce: one lost, repeated or overtaken frame ends a session without
  either side noticing. Frames of old sessions may still be delivered to new ones.
* **Reconnection.** The controller's end forgets its peers, the relay does not
  forget the frames; nothing but a `PeerJoin` starts a handshake.
* **Files under the feet of their readers.** The device table is truncated and
  rewritten, the transcript appended to and replaced, between any two system calls.
* **Bounded channels, some of which drop and some of which wait.** Relay queues,
  output and refresh signals drop; `hi` makes the watcher wait and drops the reader's events;
  the inbound channel makes the transport wait, which then sends nothing.
* **A biased select.** The transport looks at the remote only when it has nothing to send
  (`ws.rs:66`), and takes a frame out of its channel before it knows that it can send it.
* **Shutdown through three parties.** Main returns, but the runtime waits for the blocking
  reader, which ends only when the tmux client does (`main.rs:223`).
* **Bytes cut anywhere.** A read of the terminal may end inside a character, an escape
  sequence, its terminator or a multiplexer's wrapping of it.

### What makes each part correct

| Part | Properties |
|---|---|
| Relay | the registry agrees with the live handlers; a client's picture of who is present is exact; ack first; messages stay in their room, carry their sender's id, come once, in order, and within the announced presence |
| Session | a ready session is authentic; nonces on both ends match the frames in between; every enrolled dashboard the relay links to the controller gets a session; inputs arrive once, in order, without gaps |
| Device table | what was reported as enrolled stays; what was revoked stays out; the file can always be loaded (of the last two not all that is documented holds) |
| Transcript | no complete row of the active file is missed; no row is shown under the wrong session; the view catches up; a replay restores the order |
| Rendezvous | controller and dashboards that run together meet in one room |
| Bridge, channels | no row is missing within a connection, nothing is out of order or doubled over all of them; the agent never waits for the remote; inputs are typed; every way to stop ends the process |
| OSC parser, UTF-8 assembler | text, states and turn ends do not depend on how bytes are cut into chunks, and are those of a reader of whole sequences |
| Instance lock | one controller per session; the PID named is the holder's |
| Watchdog | pets only while every gated component is alive (real time: not modelled) |

## Modules and how they correspond to the code

`PROJECT.json` maps every definition to the lines it stands for.

* **`RelayServer`**: the relay process. A handler is in `phase` joining, refused,
  routing, leaving or gone; `controller` and `dashboards` are the two fields of a
  `Room`; `pending` is the sender half and envelope a handler holds between lookup and
  send; `queue`, `writer` and `socket` are a connection's bounded channel, its writer
  task and what that has written. A critical section of the registry mutex is one
  action: `JoinController`, `JoinDashboard` and `Cleanup` change the registry and queue
  every notice together. The clients are left open.
* **`Relay`** = `RelayServer` and arbitrary clients: any join, any message to any
  name, a stream that ends or a socket that breaks at any time.
* **`RelaySession`** = `RelayServer` and the clients this repository has: the
  controller's relay client (one `Ctl` action per arm of `handle`, plus `fanout`,
  connecting and disconnecting) and dashboards (one `Dash` action per branch of the
  message handler). The same relay actions run in both compositions, so what is proved of
  them is about the relay the sessions run over.
* **`InputChannel`**: what a session promises for the frames a dashboard sends.
  `RelaySession` is shown to implement it: a session that both ends are in maps to
  `full`, one the controller has lost to `dead`, the nonces to `sent` and `got`.
* **`DeviceTable`**: `authorized_devices.json` and its in-memory copy; the save is
  two steps (truncate, write), either may fail, the process may die between them, and an
  operator removes keys at any time.
* **`Transcript`**: agent, watcher, `hi`, refresh signals and one dashboard. A poll is
  four steps (discover, inode, length, read), as its system calls are.
* **`Bridge`**: the process over the direct transport. `hi`, `lo` and `inq` are the
  channels of `main.rs`; `ws` is where the transport task stands in `run` (`sending` and
  `taking` are its two awaits inside a select arm), `main` where `main` stands; the
  connection, the remote, tmux and the agent are around them. One action per arm of the
  select, per outcome of an await and per way out of a loop.
* **`OscParser`**, **`Utf8Tail`**: the escape-sequence parser and the character
  assembler as operators: `After` and `EventsOf` are one byte of `OscParser::step`, `Push` is
  `Utf8TailBuffer::push`. **`PtyReader`** puts both into the reader's loop: a read of any
  length, the text of it, then byte by byte its events and their dispatch. It says
  how a chunk becomes messages; `Bridge` takes a chunk as one output and perhaps one event,
  and says what becomes of those.
* **`RelayServerProofs`, `RelayProofs`, `SessionProofs`, `HandshakeProofs`, `TranscriptProofs`,
  `DeviceTableProofs`, `PtyReaderProofs`, `BridgeProofs`**: theorems. `RelayServerProofs` has the
  lemmas about the relay's own steps, for any set `E` of envelopes; `RelayProofs` uses
  them with the envelopes of arbitrary clients, `SessionProofs` with those a session allows, and
  `HandshakeProofs`, over the latter, says when handshakes succeed.
  **`MC*`**: instances for TLC.

Definitions whose comment begins with "Mutant" are plausible wrong versions of the
definition that follows; they are used by nothing, and the `mutants` of
`PROJECT.json` say which property notices each.

### Abstractions

* *Relay.* Payloads are opaque. The notices of one critical section are queued at
  once; only a connection that is just joining is offered more than one, and its queue is
  empty, so its writer draining meanwhile amounts to a larger `Cap`. Rejections of a first
  frame (no Join, wrong token, an end before it) are one action: what follows is the same.
  Nothing limits the wait for that frame (`relay.rs:83`), nor for any later one (`relay.rs:139`).
* *Session.* Noise is symbolic: a frame names its maker, session and nonce, and a read
  succeeds exactly if they fit. A client's part of the relay queue and its socket are one
  FIFO. The relay never ends a connection its client holds open. A client may go away without
  the relay ever hearing of it: those in `HalfOpen`. Dashboards go by other names than the
  controller's, as `cli.mjs` and `index.html` do (`dash-cli`, `web-...`), which `SessionAssumption`
  says; `Relay`, whose clients are arbitrary, has both. A failed save of
  the table leaves the file as it was here (`DeviceTable` has the torn file). Each message
  handler of a dashboard is one step, which is right for `cli.mjs` (synchronous up to
  its last send) and not for `index.html`, whose handler awaits: see the plan.
* *Device table.* The pairing setting is fixed in a behaviour; a restart with another
  setting begins a new one from the file as it is. Saves run to their end unless they
  fail or the process dies, because they do not await.
* *Transcript.* A row is two half rows, so that a poll may see a row being written.
  The agent appends and replaces files; it does not rewrite them in place or reuse an
  inode. A row has a `uuid` and a `sessionId`, a `sessionId` only, or neither, the forms that
  `docs/ARCHITECTURE.md:124` lists; one with a `uuid` and no `sessionId`, which `claude.rs:17-18` would
  forward without a boundary, is said not to occur. A row's `sessionId` is its file's name. Output, status
  events and the parts of a row are left out.
* *Bridge.* Frames are numbered within their kind and have no other content. An arm of
  the biased select and the look at the arms before it are one step, as nothing is awaited
  in between. Frames from the remote that are not text or do not parse are ignored by the code
  and absent here. A poll of the watcher takes all rows appended since the last; what a poll does in
  between, and the refresh channel, are `Transcript`'s. The terminal holds one chunk. With
  `Endless`, output goes on after the last numbered chunk, as frames without a number, of which
  only the presence matters, so that a busy terminal is a finite graph. tmux
  answers `has-session` and carries out `detach-client`. A backoff is any delay.
* *Terminal.* Bytes that only ever stand together are one token (`tmux;`, a command's
  digits, a state's name); the values of titles, progress and indicators are left out, as are
  escaped characters in a field (`osc.rs:204`), spaces around a state (`claude.rs:70`) and other ways to
  write a command's number (`00`, `+9`). The channels the reader offers to have room: `Bridge` has
  the full ones. `Utf8Tail` knows bytes by their class: the first of a two-, three- or four-byte character,
  a continuation, a byte of no character, anything else; that E0, ED, F0 and F4 restrict the second byte is
  left out.

## Runs

| Run | Asks | Bounds | Result |
|---|---|---|---|
| `relay` | registry, reachability, presence, ack, routing, order and announced presence | 3 connections, 2 rooms, 3 names, the controller's among them, queue of 3, 1 message, one broken socket at a time | holds |
| `relay_shared_name` | does `PeerLeave` mean that the dashboard left? | 3 connections | violated |
| `session_setup` | does every linked enrolled dashboard get its session, in the end and whenever all is quiet, and no other; is a slot freed by a connection whose end the relay hears of? | 1 controller connection, 2 dashboards (one not enrolled), whose ends may stay unheard, 1 fanned-out frame | holds |
| `session_reconnect` | nonces, authenticity, first handshakes, and the refinement of `InputChannel` | 2 controller connections, 1 dashboard, 2 outbound frames, 1 input besides the refresh | holds |
| `session_recovery` | does every dashboard recover when the controller reconnects? | 2 controller connections, 1 dashboard | violated |
| `device_table` | enrollments survive, keys revoked before the load stay out | 3 keys | holds |
| `transcript_view` | nothing missed, right session, catches up | 2 files, 2 rows, 1 replacement, 2 sessions, channels of one place | holds |
| `transcript_rebuilt` | does a refresh restore the order? | 2 files, 3 rows, 1 session | violated |
| `bridge_delivery` | nothing missing, doubled or out of order over a connection that breaks; what is queued gets out | `hi` of 2, other channels of 1; 2 outputs with or without events, 2 rows, 1 input, 1 break; with and without a token, bad URL | holds |
| `bridge_shutdown` | is the terminal always read, does every stop end the process, is an input that was read typed, and one that arrived read once the terminal pauses? | channels of 1, 1 numbered output and output without end, 2 inputs; killed session, outside detach and signal at any point | holds |
| `pty_reader` | are text, states and turn ends those of the whole stream? | 17 items, 3 in a row, reads of 1 to 3 bytes | holds |
| `pty_tmux_st` | is a state that ends in ST and is wrapped by tmux reported? | that item, reads of 1 to 3 bytes | violated |

**Why the bounds are enough.** The relay's hazards are races of two connections over one
name or slot with a third that watches or sends: three connections in any mixture of two
roles, two names and two rooms show each, and the controller's name is one more that a dashboard may take. One message is enough to overtake a notice or to
reach the wrong connection; a queue of 3 overflows, the greeting being up to three
envelopes long. In a session, two controller connections
are what it takes for frames to outlive one, and a dashboard that is not enrolled for one to be refused. Names
that several dashboards share, and pairing, are not in the session runs: the theorems about sessions
cover both. `Cap = 8` is not reached there, as overflow is the relay run's business (a lost
frame ends a session for good, which `NonceSync` says by excluding it). The table's
histories involve a key saved, a key removed and a bystander. In the transcript, one
replaced file, two files to switch between, two sessions and rows seen half-written
are each hazard once, with channels full after one message. In the bridge two frames of
a kind are what it takes to be out of order or to leave a gap; `hi` has two places so that rows
and events, or the hello, share it, every other channel is full after one frame, and one
broken connection leaves a second to compare with. `bridge_shutdown` has
attempts to connect that fail and no connection that breaks; its output may go on for
ever, so that what it says of inputs is said of a terminal that falls quiet or not, and its two
inputs through a channel of one make the transport wait for room. The 17 items of `pty_reader` are
one of each kind the parser tells apart and reads as the repository says (the one it does not is
`pty_tmux_st`'s); three in a row put each between two others, and reads of up to three bytes
cut every one of them everywhere. The proofs then remove the bounds from
the properties they prove.
`CHECK_DEADLOCK FALSE` is given where connections, bytes or inputs are used up and the bounded
behaviour may stop. Connections, rooms and the names other than the controller's are symmetric in the
relay runs, keys in the table run; no run with a liveness property uses symmetry.

**Fairness.** Only what the tasks' scheduling gives: in `RelaySession` weak fairness of
each relay handler with something to do (of a half-open connection whose client is gone, only for what
the handler has begun: that its end be noticed is not assumed), of the controller's receive branch and of each dashboard's message
handler, since tokio and the JavaScript event loop run a task that has work. Nobody is
made to connect, hang up, type or fan out. In `Transcript` weak fairness of the tick, the
watcher's next system call, delivery from `hi` and the arrival of a refresh; strong
fairness of taking a refresh signal, because the watcher's `select!` chooses at random
among its ready branches, so a signal that is there again and again is taken. The
agent is free to stop. In `Bridge` weak fairness of the reader, of the watcher's sends, of the
transport, of main, of a tmux client told to leave and of the remote's reading: tasks and a
thread of their own, each of which continues when what it waits for is there. No
poll, output, input, break, signal or end is required to happen, and connection attempts
may fail for ever.

## What the code does not live up to

Each of these is a run that ends in a violation, with what the repository says of the case quoted
in `PROJECT.json`.

* **`relay_shared_name`**: cleanup removes a dashboard by name even if a newer
  connection holds it (`relay.rs:173`), and tells the controller that it left. `cli.mjs`
  joins under the fixed name `dash-cli`, so a restart that overtakes the cleanup of its
  predecessor leaves the new process unreachable.
* **`session_recovery`**: the message 1 of a handshake begun with the controller's previous connection is
  delivered to the new one, which takes it for the beginning of this dashboard's handshake and answers
  it, as a message 1 is not bound to a connection. The message 1 that the dashboard then really sends
  arrives where message 3 is awaited and fails (`relay_client.rs:173`); the peer is dropped, the
  dashboard cannot read the answer to the old message, and nothing starts another handshake.
* **`transcript_rebuilt`**: rows that arrive ahead of a replay are dropped from it as
  duplicates (`index.html:118`), and the rebuilt conversation is out of order.
* **`pty_tmux_st`**: an OSC that ends in ST and is wrapped by tmux is lost: the doubled ESC of its ST
  ends the wrapping (`osc.rs:104`), though `osc.rs:6-8` lists both terminators and that wrapping.

Seen in the code and in the models, and not given a run of their own. The properties that hold are
stated so that none of these is asserted as right:

* A dashboard may join under the name `controller` (`relay.rs:122-123`), and what is then sent to
  it goes to the slot (`relay.rs:148`). The `relay` run has that name among its dashboards';
  a shared name and this one are, by `ReachableUnlessShared`, the only ways to become unreachable.
* The relay awaits the next frame without a ping or a limit (`relay.rs:139`). A controller connection
  lost without a word may keep the slot for ever, and each later one is refused (`relay.rs:108`), where
  `docs/ARCHITECTURE.md:379` has a reconnect. The fairness leaves such connections out
  (`HalfOpen`), and `SlotFreed` is about those whose end is heard of.
* A removal of a key is not noticed by a connection that has loaded the table
  (`relay_client.rs:96`), and its next enrollment writes the key back (`e2ee.rs:190`);
  `docs/ARCHITECTURE.md:459` says that a removal revokes. `RevokedBeforeLoadRejected` is the part of that
  promise that is kept.
* A crash between truncating and writing the table (`e2ee.rs:135`) leaves a file on which
  every later connection attempt fails (`e2ee.rs:163`), where `docs/ARCHITECTURE.md:382` wants a restart to take
  over. `EnrollmentSurvives` speaks of files that can be read.
* The hello is queued once per process (`main.rs:75`), so connections after the first do not
  begin with one, where `proto.rs:34` has it sent on connect. `Preamble` speaks of the hello on
  the first connection only, and holds of code that sends it on each.
* One biased select sends and receives (`ws.rs:66`): while there is always something to send nothing is
  received, where `docs/ARCHITECTURE.md:47-48` has a task for each direction. `bridge_shutdown` has output
  without end, and `InputTyped` promises what is left: an input is read once the terminal falls
  quiet, and typed once it is read.
* A full `lo` drops the newest chunk (`main.rs:155`); `docs/ARCHITECTURE.md:302` says the
  oldest. `InOrderOnce` and `NeverStalls` hold with either.
* A frame that a full relay queue drops ends a session that neither side gives up, and a notice dropped leaves
  a client with a wrong picture: `NonceSync`, `PresenceExact` and `AnnouncedBeforeDelivered` exclude
  connections that lost an envelope, since nothing in the repository promises more.
* The controller computes its room once, at start (`main.rs:83`), where `e2ee.rs:65`
  speaks of one window to each side: it and a dashboard that starts an epoch later do not meet.
* Only ctrl-c is caught (`main.rs:46`): a process ended by SIGTERM does not detach.

## Proofs

The theorems hold for every value of the constants that satisfies the named
assumptions.

* **`RelayProofs!TypeCorrect`**, `Spec => []TypeOK`. Assumes `RelayAssumption`
  (`NoConn` is no connection, there is a room,
  finitely many names, a positive capacity) and `BoundsAssumption`. `TypeOK` is
  inductive as it stands because it says that a stopped writer's queue is empty: without
  it the capacity bound could not be carried through a socket that breaks. The weight is
  in `AcceptedType` (a queue takes no more than it has room for) and `WalkType` (the walk
  of a finite map in any order is a sequence of names).
* **`RelayProofs!RegistryAgrees`**, `Spec => []RegistryConsistent`. Given type
  correctness it is inductive, in two parts: `SlotOwned` (the slot holds a connection if
  and only if that is a live controller of the room) and `NamesLive` (a registered name
  stands for a live dashboard that joined under it). The equivalence in the first
  is what makes a cleanup right: a leaving controller is the one in the slot. The second
  holds although cleanups remove by name: what they remove is their own entry or a
  newer one, never leaving their own behind.
* **`RelayProofs!Reachable`**, `Spec => []ReachableUnlessShared`: what is sent to the name of a live
  connection goes to it, unless another joined the room under that name or a dashboard took the
  controller's. Nothing is assumed of the names dashboards choose. It needs two facts
  besides registry and types: `NamedByRole` (a controller goes by the controller's name) and
  `DashboardsKept` (a live dashboard whose room no one else joined under its name is
  registered). For a controller the slot is exact already, by `SlotOwned`, and routing
  looks there first.
* **`RelayProofs!MessagesFaithful`**, `Spec => []RoutedFaithfully`. What a client is
  delivered passed a queue, and before that the hands of a handler that had let go of
  the lock, so the invariant `RInv` speaks of all three places: `QueuedFaithful`,
  `SocketFaithful` and `PendingFaithful`, with `Named` for the sender's name. The last is
  the interesting one: it survives the recipient's departure and its replacement,
  because what is held is the connection and not the name.
* **`RelayProofs!AcksFirst`**, `Spec => []AckFirst`, from `RegistryAgrees`: whoever is in
  the registry was answered in the critical section that put it there, and only who is in
  the registry, or was when looked up, is sent anything.
* **`RelayProofs!AtMostOnce`**, `Spec => []DeliveredOnce`. Between the lookup and the send a
  handler holds the message with the lock released, so the invariant has it too: what is held is
  the handler's own client's (`HeldIsOwn`) and in no stream (`HeldIsApart`), and no stream has a
  number not read yet (`NumbersRead`), so what is read next is new. By `MessagesMove` a step
  adds to the messages of a stream only what one handler held, at its end.
* **`RelayProofs!PresenceTold`**, `Spec => []PresenceExact`. A client whose socket works and
  whose queue never overflowed is `Clear`; for such a client a step only ever adds to its
  stream (`Told`), so what it believes is a function of the registry: `ControllersTold` and
  `DashboardsTold` say which, and every step that changes the registry queues the notice that
  keeps them true, in the same critical section (`StepPresence`). `ToldExact` gets the property.
* **`RelayProofs!Announced`**, `Spec => []AnnouncedBeforeDelivered`. The message is sent after
  the lock is released, so the invariant needs the message in hand: `HeldAnnounced`
  says that who is about to send is announced to the recipient and has not left. It holds because
  a handler that holds a message is itself the one that would leave: a cleanup is
  always another's (`LeaverIsOther`).
* **`SessionProofs!SessionTypeCorrect`** and **`ReadyAuthentic`**, `Spec => []TypeOK` and
  `Spec => []ReadyIsAuthentic`, from one invariant, `SessionInv`. What a frame says holds of the
  dashboard its session is with (`Sound`): it has begun that handshake, and a frame that needs
  message 2 was made by one that had read it, with its own key. No step of anyone makes a sound
  frame unsound, so soundness is carried through the relay like a type: the lemmas of
  `RelayServerProofs`, which say that the relay's steps keep its state typed over any set of
  envelopes, are used with the sound ones. Assume `SessionAssumption` and
  `RelayAssumption`; names may be shared.
* **`SessionProofs!OpenedOnce`**, `Spec => []OneOpening`: of a handshake's first two messages at
  most one is under way, in one place, and none once the dashboard has read the second.
  Not a property of a run: what is under way has four kinds of place and the theorem
  is about every handshake. The refinement needs it: a message 1 that came twice would make
  the controller answer twice and lose the session it has.
* **`SessionProofs!ChannelImplemented`**, `Spec => ImplementsInputChannel`: initial states map
  to initial states and every step of the relay, the controller and the dashboards is a
  step of `InputChannel` for at most one dashboard, or a stutter (`ChannelStep` lists the
  cases, one lemma per action that is not a stutter). So of what a dashboard sends in a
  session the controller's inbound loop gets a prefix, in order, each frame once, for any number
  of connections, lost frames and reconnects.
* **`SessionProofs!NoncesInStep`**, `Spec => []NonceSync`. Two parts. `LinkInv` says what a link
  between two ends rests on: registry and handlers agree, what a handler holds is its own
  client's frame for someone who has joined (`HeldOwn`), and a dashboard that shares its name with
  nobody is the one registered under it (`Registered`), so that while both ends are there every frame of
  theirs finds the other. `UnderWay` then splits a direction into the three places a frame passes,
  the reader's queue, the relay's hand and the sender's wire, each with a `Run` of nonces that ends
  where the next begins; together they go from the oldest nonce not read to the
  next one to write. A step of the relay moves a frame over one of the two borders; a step of a client
  is, for each direction, one of three things (`UpMove`, `DownMove`): nothing, the reader taking the
  head of its queue, the writer saying more. A session begins with nothing under way, since
  no frame of it is sound before (`SessionOpens`).
* **`HandshakeProofs!FirstHandshakeEstablishes`**, `Spec => []FirstEstablished`. A dashboard
  that has been told of a controller at most once, and lost nothing, has its session as
  soon as nothing is on its way, whatever controllers and other dashboards did before. Only a
  first handshake is that safe: `session_recovery` shows one that a frame of its predecessor
  destroys. The invariant has four parts. `PlaceInv`: what waits for a connection is meant for
  it, whom the controller has as a peer has joined, who has begun a handshake has joined,
  enrolled keys stay. `Told`: a dashboard linked to a controller has been told of it or has
  the notice in its queue. `Staged`: for such a dashboard the handshake is at one of five stages,
  `Begins`, `Asked`, `AnswerDue`, `ProofDue`, `Settled`, and the frame the next stage takes
  is on its way, ahead of all others its reader would take for it (`Ahead`, over queue, relay's hand
  and wire); `Clear` and `Meeting` say that no notice is about to undo the peer and that
  the one that inserts it is read before any frame. When all is quiet nothing can be due, which leaves
  `Settled`. `RelayAhead` carries `Ahead` through the relay, and one lemma per client action
  takes it from a stage to the next.
* **`HandshakeProofs!SteadyLinksEstablish`**, `Spec => [](Steady => EstablishedWhenQuiet)`.
  `Steady`: one controller connection, a name per dashboard, pairing off, nothing lost so far, which
  is the instance `session_setup` checks, of any size. `OnceIntroduced` says that every
  handshake is then a first one, `KeysClosed` that the authorized keys are the enrolled ones, and
  the theorem above does the rest.
* **`TranscriptProofs!TranscriptTypeCorrect`**, `Spec => []TypeOK`, with `Grounded`: a row is in the
  file it names, the watcher is on a file that exists, no inode was given twice.
* **`TranscriptProofs!RowsUnderSession`**, `Spec => []SessionFirst`. `SessionsMarked` says that
  the stream from `hi` and the batch is in order after the last boundary taken, and that the
  tailer's session, if it has one, is the one in force at the stream's end; the second part is
  what makes it right to send no boundary.
* **`TranscriptProofs!NothingPassed`**, `Spec => []CaughtUp` for the terminal client (`~Page`).
  `Cursor`: as long as the file is the one whose inode the tailer knows, every message row
  that the offset has passed is `Safe`: in the dashboard's set, in `hi` or the batch, or to be sent
  again because a refresh:full is on its way. The offset may be wrong for a file put there
  since: its inode is then greater than any given before, and the next look starts over.
  Of the page the property is false: it clears what it shows at a boundary and not what it
  has seen, so the rows of a session it comes back to are dropped.
* **`BridgeProofs!TypeCorrect`**, `Spec => []TypeOK`, assuming `BridgeAssumption`. `Typed` is
  `TypeOK` with the kinds of frame each channel may hold.
* **`BridgeProofs!InOrder`**, `Spec => []InOrderOnce`. A frame passes seven places in turn:
  the watcher's batch or the reader, `hi` or `lo`, the transport's hands, the connection, the
  remote. `InLine(Way)` says that within each place, and from each to every later one,
  numbers of a kind rise, with `Coming` (the next of each kind) as the last place. Every step
  then moves the first frame of a place to the end of an earlier one, empties a place or a part of it,
  or replaces what is to come: `Moved`, `Lost` and `Extended` prove those once, and `StepLine`
  applies them.
* **`BridgeProofs!NoGaps`**, `Spec => []RowsContiguous`. `RowsKept` says that what is present of
  rows is always an interval that ends at the last one polled, also without a
  connection, when only `hi` and the batch count; `Linked` ties the connection to the state
  of the task. That taking the head of `hi` leaves an interval takes `InLine`: the head is the
  least row pending.
* **`BridgeProofs!BeginsProperly`**, `Spec => []Preamble`. `AuthPlace`: while a connection is
  open its auth frame is in the transport's hands with nothing sent, or first on the way, or first
  received. `HelloLine`, as long as no connection broke: the hello is somewhere between `hi`
  and the remote, first but for auth frames, and everything nearer to the remote is an auth frame. That it
  is sent first takes the order of `hi` and the select's preference for `hi` over `lo`.
* **`PtyReaderProofs!ReaderTyped`**, `Spec => []TypeOK`, and **`EndNoticed`**, `Spec =>
  []BodyOpen`: whatever the terminal sends and wherever it is cut, the parser is in one of its
  four states and the body it holds has no terminator of its own in it. Assume
  `TokenAssumption` and `ReaderAssumption` (what a token must at least be, what an item is).
* **`PtyReaderProofs!PokedOncePerTurn`**, `Spec => []TurnEndsSignalled`, with `PrevIsLast`: the
  state the reader compares with is the last known one it has sent.
* **`PtyReaderProofs!TextIsFaithful`**, `Spec => []TextFaithful`. `TextInv`: what was written is
  some `r` followed by what is unread, and `r` decodes to what channel 1 has carried and what is
  held back. Reading a chunk `c` keeps it by two facts about strings of any length. `DecodedConcat`:
  decoding `r \o c` is decoding `r`, then what `r` holds back followed by `c`.
  `AssembleDecodes`: `push` yields what `Decoded` says. `Decoded` finds all places where
  characters begin and cuts there; `push` goes from a valid part to the wrong run behind it
  and on. Both are shown to obey the same recursion over the first character (`DecodedFirst`,
  `AssembleFirst`, with `ErrorLenIs` for how long a wrong one is), and both facts follow
  by induction over the length.
* **`DeviceTableProofs!EnrollmentsSurvive`**, `Spec => []EnrollmentSurvives`. The
  property is not inductive: the file is rewritten from memory. `EInv` = `Typed /\ Kept`
  adds that the memory of a live connection holds every enrolled key, that the key being
  saved is in it, and that only a torn file may lack one.
* **`DeviceTableProofs!RevokedStayOut`**, `Spec => []RevokedBeforeLoadRejected`. `LInv`
  = `Typed /\ Locked`: outside pairing mode nothing is saved, so no removed key is in the
  file, and none that was removed before the load is in memory.
* **`DeviceTableProofs!TypeCorrect`**, by `Typed`, `TypeOK` with the file's shape
  spelled out. All three assume only `TableAssumption` (`Nobody` is no key).

Induction over data is done where a proof needs it without an operator parameter: `Induct` is
induction over a set of numbers, in `TranscriptProofs` from `Least`, in `PtyReaderProofs` from the
naturals being well-founded. A recursive function is a `CHOOSE`, so before its equation can be used it
must be shown to have a solution: `TranscriptProofs!MessagesAre` does so for `Messages`, and
`PtyReaderProofs!Recursion` once for every recursion to smaller arguments, from which
`FlatSolves`, `StartsSolve`, `CharsFromIs` and `AssembleIs` get theirs. For these
`TokenAssumption` says that tokens are strings, as `Utf8Tail` takes them to be.

**Only model-checked:** of `PtyReader`, `StatusFaithful`: `says` and `cut` are what an item is
declared to mean, so that the property holds of items that are declared rightly, which for
those of `MCPtyReader` is what TLC finds out; of `RelaySession`, `EstablishedWhenQuiet` outside
`Steady` (with two controller connections it is false, as `session_recovery` shows); and every
liveness property, since fairness and `ENABLED` are beyond the prover. No module declares a
`RECURSIVE` operator, so each can be proved about later.

## Not modelled

* Cryptography; real time (backoff delays, the watchdog's
  ages); what tmux and the agent do inside; what the dashboards draw; the parsing
  of configuration and the serialisation of messages; deployment files.
* *Rendezvous*: a function of the clock; its one hazard is described above.
* *Instance lock*: the kernel's `flock` does the work; what is left is the PID in a refusal's
  message, which may be that of a holder that has not written it yet (`singleton.rs:39`).
  The lock is per session while the device table is per home, so controllers of two sessions
  share a table: `DeviceTable` has one controller.
* *Watchdog*: gated components are alive as of their last beat (`watchdog.rs:48`); time only.
* *The page*: its handler awaits between reading message 2 and setting up the session
  (`index.html:96`), where `RelaySession` has one step.
* *Configuration of tmux*: spawning, resizing and options change only tmux's own state.

Behaviour seen in the code that no property speaks of: the relay client's backoff is never
reset (`relay_client.rs:68`); its session loop waits for room in the inbound channel
(`relay_client.rs:212`), as `Bridge` has it for the direct transport; rows appended to a file after the
last poll before a switch are not sent (`session.rs:41`); a file rewritten in place and
longer than the cursor is not noticed (`transcript.rs:148`); a BEL after a lone ESC is
swallowed (`osc.rs:88`); a `;` inside a status ends it (`osc.rs:189`).

## Plan

Done, in this order, the part all others hang on first: `RelayServer` and `Relay` with
`RelayProofs`; `RelaySession` over the same relay, with `InputChannel`; `DeviceTable`
with `DeviceTableProofs`; `Transcript`; `OscParser`, `Utf8Tail` and `PtyReader` with
`PtyReaderProofs`; `Bridge` with `BridgeProofs`; `SessionProofs` over
`RelayServerProofs`, with the refinement; `TranscriptProofs`; `HandshakeProofs`; the text of
the terminal in `PtyReaderProofs`.

Left, modelling:

1. **`DashboardPage`**: `index.html` with its handlers split at each `await`, over
   the relay's view of one connection; what `RelaySession` assumes of a handler, checked.
2. **`Rendezvous`** and **`InstanceLock`**: epochs and the controller's fixed room; processes
   that start and die around one lock file. Both are small.

Left, proving: `StatusFaithful`, for items that are parsed from `Ground` as they are declared and
that an open sequence swallows whole: by induction over the items, with `DecodedConcat` as the pattern.
