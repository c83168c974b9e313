# 0pty: a TLA+ development

0pty keeps a program running in a pseudo-terminal behind a TCP server, so that
clients can attach, detach and reconnect without losing output.  This directory
models the program (the C code under `src/`), model-checks the models with TLC
and proves their main properties with TLAPS.

## 1. The system

| Component | Code | State | Operations |
|---|---|---|---|
| Output ring | `ring.c` | circular buffer, `base_seq`, `next_seq` | append, snapshot of a window |
| Attach and broadcast | `server.c` | client list, per-client `refs`, `dead`, `authenticated`, `live_seq`, `write_mu`; `clients_mu` | accept, intro, WELCOME/REPLAY, broadcast of a chunk, drop, finish |
| Server lifecycle | `server.c` | `listen_fd`, `g_shutdown_requested`, `child_reaped`, `child_mu` | signals, stop request, escalation, reaping, exit |
| PTY and child | `server.c` | `master_fd`, `pty_mu`, child process | read, write, resize |
| Wire protocol | `protocol.c` | the rest of an iovec, the part of a frame read | encode, send, receive, parse a frame |
| Client session | `client.c` | `last_seq`, terminal mode, socket | intro, event loop, reconnect with `--retry` |
| Named sessions | `client.c` | session files, ports, control tokens | start, restart, stop, list, connect |
| Session files | `client.c` | one file per session | save and load with escapes |
| Terminal, options, endpoints | `client.c`, `common.c` | termios, argv | raw mode, parsing |

Interaction.  The server runs a main thread (accept loop, signals), one PTY
thread (reads the child's output, appends it to the ring, sends it to every
attached client) and one thread per connection (authenticates it, sends it the
replay, then reads its input).  They share `struct server` and the `struct
client`s under `clients_mu`, `write_mu` (one per client), `pty_mu`, `child_mu`,
`fds_mu` and the ring's own mutex.  Client and server exchange frames over TCP.
The `0pty` command shares session files with other invocations of itself and
talks to servers through their ports.

What is hard.  The attach of a client runs concurrently with broadcasts, and
must join replay and live output without a gap; three threads drop references
to a client; sends block with a mutex held; a client may go away at any moment;
shutdown is requested by signals, by a control connection and by the end of the
child, at the same time; positions survive reconnects and server restarts;
commands race on session files and ports; every hop between a keyboard and the
program has a bounded buffer and a sender that blocks; a write may be cut off by
a signal, a crash or a power failure.  `PROJECT.json` lists these hazards at
their lines.

What makes each part correct.  Ring: a snapshot is what an unbounded log would
return.  Attach and broadcast: each client receives a contiguous, unaltered
stream; no client is used after it is freed, or leaked; the PTY thread never
hangs on a mutex.  Lifecycle: a request to stop ends the child and the server; a
reaped pid is never signalled.  Protocol: decoding inverts encoding whatever
the partial reads and writes.  Client: `last_seq` is the position after the
last byte shown.  Sessions: a record describes the server it names, and a stop reaches no other
session.  Session files: whatever fails, the file says what one start wrote.

## 2. Modules

| Module | Models | Depends on |
|---|---|---|
| `RingOps` | the operations of `ring.c` as operators on a record | |
| `OutputLog` | abstract: an append-only log of which the last `Cap` bytes can be read | |
| `Ring` | `ring.c` as a state machine | `RingOps`, refines `OutputLog` |
| `Fanout` | attach, broadcast, references and locks of `server.c` | `RingOps` |
| `Lifecycle` | signals, stop requests, escalation, reaping and exit of `server.c` | |
| `Reconnect` | `run_client_endpoint` and `run_session` of `client.c`, over many connections and server runs | `RingOps` |
| `Sessions` | `start`, `restart`, `stop`, `connect` of `client.c`, as processes that race | |
| `Messages` | the layout of every message of `protocol.c`, and its parsers, as operators | |
| `FrameChannel` | abstract: one direction of a connection as a queue of whole messages | |
| `Wire` | `opty_send_frame` and `opty_recv_frame_limited`, byte by byte | `Messages`, refines `FrameChannel` |
| `Flow` | where clients, the server's threads and the program block on each other | |
| `SessionFile` | `opty_write_session` and `opty_read_session_info`, with crashes | |
| `RingOpsProofs`, `RingProofs` | proofs about the ring | |
| `FanoutProofs` | proofs about `Fanout` | `RingOpsProofs` |
| `LifecycleProofs` | proofs about `Lifecycle` | |
| `SessionsProofs` | proofs about `Sessions` | |
| `ReconnectProofs` | proofs about `Reconnect` | `RingOpsProofs` |
| `SessionFileProofs` | proofs about `SessionFile` | |
| `WireProofs` | proofs about `Messages` and `Wire` | |
| `MC*` | instances for TLC | |

**RingOps, Ring.**  A ring is a record `buf`, `base_seq`, `next_seq`; `ring->mu`
makes every call one step.  `CopyIn` and `CopyOut` are the two `memcpy` pairs
around the end of the buffer.  A slot that was never written holds `Garbage`.
`stream` is a ghost, the whole output; `Log == INSTANCE OutputLog WITH ...` maps
it, the last request and the last answer to the abstract log.  Positions are unbounded:
a `uint64_t` does not overflow in practice.

**Fanout.**  One action per stretch of code between two points where a thread
can block or be overtaken.  `cpc` is the program counter of a connection's
thread (and of `main` on its behalf until the thread runs), `ppc` that of the
PTY thread, `mpc` that of the accept loop.  `clients_mu` and each `write_mu`
are variables.  A thread in `"pty"` is in `server_write_pty` or
`server_resize_pty`, a thread in `"intro"` receives the first frame and does what
it asks for (a resize, or a whole stop request up to the child's end), and the
PTY thread in `"wait"` is in `server_wait_child_blocking`: `pty_mu` and the child
belong to `Lifecycle`, so how long these last is left open here.  `sent[c]` is the sequence of the frames written to `c`.  A send
either writes the whole frame or fails, after which the connection is dropped;
how long it blocks is left to fairness.  The byte printed at position `p` is
`p`, so a wrong byte shows.  A client's `live_seq` is always the end of a chunk,
so the branch of the broadcast that cuts off the front of a chunk is never
taken with a nonzero offset smaller than the chunk; the model has it, as the
code does.

**Lifecycle.**  `pc[t]` is where `main`, the PTY thread or a connection's
thread stands; `level[t]` counts the signals its `server_request_shutdown` has
gone through.  `child_mu` and `pty_mu` are variables because a thread can block
in `waitpid` or `write` with them held.  The child is a small automaton: it may
exit at any time, and, where `Habits` allows it, stop reading its terminal,
close it and live on, or leave a background process that keeps it open.

**Reconnect.**  The server is reduced to what `Fanout` establishes: an intro is
answered by WELCOME and a REPLAY clipped to the ring's window, then every chunk
follows.  A break of the connection loses any suffix of what is under way.
`epoch` numbers the runs of the server, so that bytes of different runs are
told apart.  `shown` is what the user saw.

**Sessions.**  `cmd[c]` is the local state of one process running a command;
between any two of its steps any other process or server may act.  A record is
the pair of port and control token; tokens are numbers never drawn twice, as
128 random bits practically are.  A server is its listener with the name and
token it was started with.  `raced` is a history variable: the sessions of which
two starts or restarts have overlapped since they last had no server.

**Messages, Wire.**  A byte is a digit of base `Base`, and the widths and limits
of the code are constants, so that their relations (`WidthAssumption`) are
explicit and small values reach every limit; `Power[n]` is the number of values
that `n` bytes hold.  `FirstMessage` and `LaterMessage` are everything `opty_send_*`
can be called with, and `MessageAssumption` says that an instance's messages are
among them.  `Wire` is one direction of one connection.  `iov[t]` is what a thread's `writev` loop has still to write,
`chan` the bytes in the sockets, `want` and `buf` the progress of
`opty_recv_frame_limited`; a write or a read moves any number of bytes.  The
connection may be closed, when what was written still arrives, or reset.  The
sender may have another `OPTY_VERSION`.  The refinement mapping takes `sent` and
`got` as they are, every end but an end of file to "lost", and `half` to `Half`,
whether a frame is, or was left, partly written.  `Fanout` and `Reconnect` build on the
result: there a frame is sent in one step or not at all.

**Flow.**  Only what threads wait for: buffers are counters (a queue of frame
types towards the server), and a step that would overfill one is not enabled.
`cpc` is where the client's one thread is: in `poll`, in the send of an ACK, in
the send of input.  Output is written to the terminal before its ACK is sent, so
a window that is closed fails the write (`WriteStdoutFails`, a step from `poll`)
but frees no client that is blocked in a send.  `tpc` is the thread of its connection, `todo` the clients
the PTY thread has still to send its chunk to, the first being the one it is
blocked on.  `Program` says whether the program reads on while its output is
blocked.

**SessionFile.**  A file is a sequence of key and value lines, a value a
sequence of characters out of those that the escapes treat differently.  `tmp`
is the temporary file of each process, `synced` whether `fsync` has returned,
`disk` the contents the file may have after a power failure: until it is written
back, the old ones and the new ones, and parts of the new ones if they were not
synced.  `opty_read_session_info` is the fold of its loop over the lines, `Valid`
the tests after the loop, `Understood` what `restart` and `stop` make of the file.
`escaped` is 0 or 1, as the C `int` is.

## 3. Runs

| Run | Properties | Bounds |
|---|---|---|
| `ring` | `WindowContents`, `ReplyFaithful`, `ImplementsLog` | capacity 3, output 8, chunks of 0 to 5 bytes: empty, exactly full, wrapping and longer than the ring |
| `fanout` | `StreamFaithful`, `StreamContiguous`, `ReplayFirst`, `NoLaggard`; `RefCounts`, `NoUseAfterFree`, `NoLeak`, `DeadStaysDead` | 2 connections, capacity 2, output 3, so that replays are clipped and chunks overrun the ring |
| `fanout_liveness` | `BroadcastEnds`, `DroppedIsFreed`, `EofEnds` | 2 connections, 1 chunk, the broadcast's allocation may fail |
| `lifecycle` | `ListenerLast`, `NoOrphan`, `NoStaleSignal`; `StopCompletesIf`, `EndsWithProgram`, `SignalServed` | 2 connections (two stops at once), 1 signal, every habit of the child |
| `lifecycle_stuck_input` | violation, section 5 | a child that stops reading its terminal |
| `reconnect` | `ShownOnce`, `NoGap`, `EventuallyCurrent` | `--retry`, two server runs, capacity 2, output 4 per run, 3 breaks: a client can fall behind the window and come back twice |
| `reconnect_stale` | violation, section 5 | two server runs |
| `sessions` | `StopsOwn`, `RecordMatches`, `CommandsEnd` | two processes, 2 names, 2 ports (a dead session's port goes to the other one), 2 starts, slow servers |
| `session_file` | `RecordWhole`, `NoLeftover`; `RoundTrip` as an assumption TLC evaluates | two processes, 2 starts, seven argument lists that are hard on the escapes; `RoundTrip` on all texts of up to 4 characters |
| `wire` | `NeverRefused`, `ImplementsChannel`, `Arrives` | two threads, 3 messages, a socket of 3 bytes (less than a frame), frames of at most 8; a message of every layout, at every limit and one beyond |
| `flow` | `InputServed`, `OutputServed`, `DetachEnds` | two clients, buffers of one unit, so that every hop blocks at once; one user closes the window |
| `flow_detach` | violation, section 5 | the same with a program that prints before it reads on |

The runs check the type invariants too, except in `Wire` and `Flow`, which state
none: a frame with a wrong shape would break `ImplementsChannel`, and a buffer's
limit is its guard.  `WindowBounds` (`Ring`) and `KillIsLast` (`Lifecycle`) are
proved for every instance and not model-checked as well.  Two
connections are enough for `Fanout` because a connection's code never looks at
another connection except through the client list and its mutex, where a third
one behaves as the second does; the theorems of section 4 do not depend on the
number.  The `reconnect` runs say `CHECK_DEADLOCK FALSE`: the client's exit is the
end of the story; so does `flow_detach`, where everybody waits.  Every property has a mutant in `PROJECT.json`: a plausible
mistake in the modelled code that makes TLC refute it.

*Fairness.*  `Fanout`: a runnable thread runs, a mutex is handed on, and a
blocking send ends, because the peer drains its socket or goes away.  The last
is an assumption on the network and the clients: a connected client that never
reads stops the broadcast for everybody (hazard `server.c:423`).  A thread
in its frame loop is only sure to leave it once its socket is shut down (strong
fairness: it may have to serve the frames received before).  `main` is only sure
to leave its loop once the listener is closed and the child reaped, because a
stop request it serves waits for the child (strong fairness: signals may keep
sending it back to the test).  Nothing is assumed of calls on the PTY, of what a
first frame asks for, or of the child's end, so a thread may stand in `"pty"`,
`"intro"` or `"wait"` for good: `shutdown()` of a socket wakes none of them.
`DroppedIsFreed` and `EofEnds` except exactly the thread that stays in `"pty"`
and the PTY thread that stays in `"wait"`.  `Lifecycle`: threads run, deadlines pass, SIGKILL kills, and a thread waiting
for `pty_mu` gets it at some point when it is free again and again (strong
fairness, since attached clients may keep taking it).  `Reconnect`: the client
runs and a listening server answers an intro.  `Sessions`: commands and
starting servers run.  `Wire`: a sender and the receiver go on when they can.
`Flow`: the client, the server's threads and the program run when they can, and
a thread that waits for `pty_mu` gets it some time (strong fairness, as the
other clients' threads keep taking it).  Nothing is ever assumed of the program's output, of
users, of signals, or of servers ending.  What must happen again and again is written `[]<>`: "P is
answered by Q" is the absence of a suffix in which P is pending for good.

`StopCompletesIf`, `EndsWithProgram` and `SignalServed` speak of a child that
cooperates (`Cooperates`): it reads its input, and only it has its terminal
open.  They are checked with a child that may have any habit, and change it.

## 4. Theorems

All are for every value of the constants that satisfies the named `ASSUME`s.
They are weak: bounds are naturals, a byte can be a position (`ByteAssumption`;
in `Fanout` and `Reconnect` the byte printed at `p` is `p`), and the value `None`
is no value of the kind it stands in for (`NoneAssumption`).

*Ring* (`RingProofs`).  The inductive invariant `RingInv` joins the type, the
bounds of the window and its contents, slot by slot.  The lemmas of
`RingOpsProofs` say what the copies do: two positions less than `Cap` apart
never share a slot (`ModUnique`), `CopyIn` puts the last `Cap` new bytes in
their slots (`CopyInNew`) and spares the others (`CopyInOld`), `CopyOut`
returns the window's bytes (`CopyOutExact`).  `Faithful` says of a ring record
that every slot of its window holds the byte printed at its position; an append
keeps it and a window shows it (`AppendFaithful`, `WindowFaithful`), which
`Fanout` and `Reconnect` both use.  From it `RingImplementsLog`: the
ring with its modulo arithmetic implements the log without.

*Lifetime* (`FanoutProofs`).  `RefCounts` alone is not inductive: what
each action decrements depends on who is in the list, in the PTY thread's
snapshot and in `write_mu`.  `LifeInv` adds that a linked client has its thread
(`Linked`), when the snapshot is empty and that the client being served is in
it (`Snapshots`), who holds `write_mu` where (`Writers`), and that a descriptor
is closed exactly when the count reaches zero (`Descriptors`).  `DeadStaysDead`
needs `DeadShut` besides: marking a client dead and shutting its socket down are
one critical section, so that no later send can succeed.

*Stream* (`FanoutProofs`, on top of both).  The key is `Position`: a
linked, authenticated client has been sent everything up to `ring.next_seq`, or
lacks exactly the chunk in the PTY thread's hands, which that thread has still
to offer it.  The attach establishes it because `clients_mu` is held from the
window to the publication (`Attaching`).  Assumption: `"snapshot_clients"
\notin AllocFails`, without which the theorem is false (section 5).  `TypeOK` is
proved without it.

*Lifecycle* (`LifecycleProofs`).  `LInv` says that a thread between its test of
`child_reaped` and its `kill`, or in `waitpid`, holds `child_mu`
(`ChildMutex`), what a thread knows of the child from where it stands
(`Knows`), that a dead child has no terminal, and that a request that has
reached a level has sent its signals unless the child is reaped (`Escalated`).
Most actions are instances of two lemmas on a step of one thread.

*Sessions* (`SessionsProofs`).  `StopsOwn` is not inductive: a stop carries a
token that was read long before.  `Tokens` says that whatever holds a token (a
record, a server, a process that has no listener yet, a command) holds it for
the one session it was drawn for, and that no token beyond `tokens` is held by
anything; `Quiet`, that a port without a server has no stop under way.
`RecordMatches` needs `Unraced`, for every session outside `raced`: one launch at
a time (`OneLaunch`), which works with the port and token of the record
(`LaunchRecord`) while no server of the session runs (`LaunchAlone`), and every
server is the one described (`Described`).  A launch may go on when it finds the
recorded port dead because by `Described` there is no server elsewhere.

*Reconnect* (`ReconnectProofs`).  Neither `ShownOnce` nor `NoGap` is inductive:
what will be shown is in frames that were sent in answer to a position the
client no longer stands at, perhaps by a server that is gone.  `ReconnectInv`
follows the frames under way: each carries what its run printed at its positions
and lies after everything shown of that run (`FrameOK`), they are in order and of
one run (`InOrder`), consecutive from the REPLAY on (`Queue`), and the first of
them continues what is shown or begins as early as the ring allowed (`Joined`).
`Attached` says that a live client has been sent everything, `Session` what each
place in the code implies of the connection, and `Shown` how `last_seq` bounds
what is shown.  A break keeps a prefix of the frames, for which all of this is
stable (`LinkEnds`); a restart moves `epoch` on.

*Session files* (`SessionFileProofs`).  The escapes and the reader are loops over
data.  They are written as recursive functions, and `Induction` and `Recursion`
are stated over sets and functions (`S \subseteq Nat` that has 0 and is closed
under successor is `Nat`), which the provers can instantiate; they rest on the
well-foundedness of the naturals.  `EscapedValue` runs the decoder along the
escaped text: after the escapes of `k` characters it has produced those `k` and
is between escapes.  From it `ValueRoundTrip`, for texts of any length where the
run's `RoundTrip` has those of at most 4 characters, and `RecordReadBack`, a walk along
the lines of a record (`ReadNext`).  `SInv` says where each process stands with
its job and that a temporary file is a prefix of the job's record; `Leftovers`
sharpens `NoLeftover` to the two places that have such a file.  `RInv` adds that
what is about to be renamed is complete and synced (`Ready`) and that the file
and every content it may have after a power failure is a whole record
(`Recorded`).  Hypothesis of `RecordWhole`: `\A c \in Cwd : Plain(c)`, no newline
in a directory and no carriage return at its end, without which it is false
(section 5).

*Wire* (`WireProofs`).  The assumptions are relations between constants that the
code's values satisfy: a message type and a token's length fit a byte, an input's
length fits its field, the longest RECONNECT is no longer than the longest
CONTROL_SHUTDOWN, that and a WELCOME fit a frame (`WidthAssumption`), and a
frame's length fits its prefix (`PrefixAssumption`).  `Put`, `Get`, the iovec's
`Before` and `Flat` are recursions over lengths, solved once by the induction
over sets of `SessionFileProofs`.  `GetPut` says that `Get` inverts `Put` for every width, and
`RoundTrip` that `Parse` inverts `Payload` for every message that is let through:
each layout is a concatenation of fields, and a field is found again at its
offset.  `AdvanceFacts` is about the loop over the iovec: after a write of `n`
bytes, at whatever place in whatever part, what is left are exactly the bytes
after the first `n`.

Neither `NeverRefused` nor the refinement is inductive: what a receiver parses was
written by steps long past, of threads that may have failed since.  `WireInv`
describes the connection by the stream of bytes `S` that it carries: whole frames of
messages `fs` (`IsStream`), which are `sent` and, while a frame is being written
or after it was cut off, one more; the receiver has read `S` up to `r` and holds
of the frame it is in what its field says (`Reads`); the socket has the bytes
from `r` to `w` (`Carries`); the owner of `write_mu` has the bytes from `w` to
the end (`Holds`), and `Half` says that `w` is inside a frame (`Writes`).
`IntroFirst` is needed for the limit on a first frame, `MaxUnauth`: a client has
one send under way at a time, the first of them its intro.  After a reset none of this is claimed, for
nothing more is read.  Every action is shown to keep `WireInv` and to be one of
the few things a step can be to the queue of messages (`QueueStep`), from which
follow `NothingRefused` and the refinement `WireImplementsChannel`: an end of file is
reported at `r = w` at the start of a frame, so everything sent was received and
nothing was cut off.

*Only model-checked*: all liveness properties, because TLAPS does not reason about
`ENABLED`; that includes everything about `Flow`, which has no other.

## 5. Where code and documentation disagree

`PROJECT.json` has the quotations; each is a run that TLC refutes.

- `lifecycle_stuck_input`: a stop with graceful input hangs in the write when
  the program does not read, so the escalation never begins (`server.c:268`).
- `reconnect_stale`: after a restart of the server a reconnecting client misses
  what the new run printed (`client.c:314`).
- `flow_detach`: a client that is sending input to a program which prints before
  it reads on waits for the server's thread, that for the program, that for the
  PTY thread and that for the client; closing the client's window does not end
  it, because `opty_writev_full` repeats an interrupted write (`client.c:450`,
  `protocol.c:120`).

More limits that the models show at other bounds or without a condition:

- With `"snapshot_clients" \in AllocFails`, `StreamContiguous` fails: a failed
  `calloc` in the broadcast skips a chunk silently for everybody, because
  `server.c:402` tests the count before the pointer and the `return -1` at
  `server.c:407` is never reached.
- A client that is connected and never reads its socket stops the broadcast, and
  so the output of all clients (`server.c:423`); every liveness property of
  `Fanout` assumes that there is none.
- Without its first alternative, `EofEnds` fails, and without `Cooperates` so does
  `StopCompletesIf`: when the child closes its terminal and lives on, the PTY
  thread waits for it with `child_mu` held, for as long as it lives, and a stop
  waits for `child_mu` and sends no signal (`server.c:192`).
- Without its first alternative, `DroppedIsFreed` fails: a connection's thread
  that is blocked in a write to the PTY, or behind one for `pty_mu`, is not woken
  by the `shutdown()` of its socket, and its client is not freed (`server.c:464`).
- A signal between the test of `g_shutdown_requested` and `accept()` is served
  when the next connection comes (`server.c:998`); `SignalServed` excepts it.
- With `Cap > MaxData` a full window does not fit its REPLAY frame and no client
  can attach any more: a ring above 16 MB (`-r`, `server.c:848`, `server.c:509`).
- Without `Cooperates`, `EndsWithProgram` fails: a background process that keeps
  the terminal open keeps the server running after the program's exit
  (`server.c:647`).
- Without its condition on `raced`, `RecordMatches` fails: two starts of one
  session, or one that comes while a slow server is still starting, can leave a
  server that no record describes, and that no `stop` can reach (`client.c:2019`).
- With a newline in `Cwd`, or a carriage return at its end, `RecordWhole` fails:
  the directory is written without escapes (`client.c:946`), so `restart` goes
  to another one, or nowhere.
- The temporary file of a process that was killed stays, and a later start with
  its pid fails on it (`client.c:902`); `NoLeftover` excepts it.
- A new start of a session writes the default `graceful_input` over an edited
  one (`client.c:927`).
- A dead session whose port was given to another one is attached to that one by
  `start` and `connect` (`client.c:2019`; `ROADMAP.md:73` names it).  `StopsOwn`
  shows that the control token keeps `stop` safe from this.
- `connect` without a name counts dead records too (`client.c:1987`), where
  `README.md:120` speaks of exactly one alive session.

## 6. Not modelled

Terminal modes, window sizes (`Wire` has their messages), the scrollback log,
option and endpoint parsing (no shared state, or pure string handling); the
retry intervals and other durations (choices of when a timeout fires); a failing
`pthread_mutex_lock` (the mutexes are initialised and never destroyed while
used); the token of an attach (its comparison has no state).
`opty_load_session_entries` reads and probes all records in one step.  `Flow` has
no client that joins and no stop request: with `clients_mu` and `pty_mu` in one
model the state space is beyond TLC's reach; the locks are in `Fanout` and
`Lifecycle`.  Session files of older versions (without `argv_encoding`, token or
argv) are read by the model of `opty_read_session_info` but never written.

## 7. What could follow

Every safety invariant and both refinements that the runs check are proved.  The
next step would be `Fanout` and `Lifecycle` composed at their common point, the
shutdown of the clients, so that the exit of the server is shown with blocked
sends.
