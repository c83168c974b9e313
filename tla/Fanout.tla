------------------------------- MODULE Fanout -------------------------------
(***************************************************************************)
(* The output path of 0pty-server (src/server.c): one PTY thread reads the *)
(* child's output, appends it to the ring and sends it to every attached   *)
(* client; one thread per connection attaches its client (WELCOME, REPLAY, *)
(* then live STDOUT) and ends it; the main thread accepts connections.     *)
(*                                                                         *)
(* Threads share struct server and the struct clients.  clients_mu and the *)
(* write_mu of each client are modelled, because a thread can wait for one *)
(* while it holds the other, or stand in a blocking send with write_mu     *)
(* held; a critical section that takes clients_mu, does not block and      *)
(* gives it back is one step guarded by the mutex being free.  ring.mu is  *)
(* always the innermost lock: see RingOps.                                 *)
(*                                                                         *)
(* The code never looks at a byte of PTY output, so the byte printed at    *)
(* position p is represented by p: a byte lost, repeated or misplaced on   *)
(* the way to a client is visible in what the client was sent.             *)
(***************************************************************************)
EXTENDS RingOps, FiniteSets

CONSTANTS
    Conn,       \* connections; each is one accept() and one struct client
    None,       \* the owner of a mutex nobody holds
    Pty,        \* the PTY thread
    MaxRead,    \* the most bytes one read() of the PTY returns (sizeof buf)
    MaxData,    \* the most bytes a stream frame can carry: OPTY_MAX_FRAME - 9
    MaxSeq,     \* bound on the output of one run
    Requests,   \* the positions a client may ask for
    AllocFails  \* the allocations that may fail, see the two uses

ASSUME ThreadAssumption == None # Pty /\ None \notin Conn /\ Pty \notin Conn
ASSUME BoundsAssumption == MaxRead \in Nat /\ MaxData \in Nat /\ MaxSeq \in Nat
ASSUME RequestsAssumption == Requests \subseteq Nat
ASSUME ByteAssumption == 0 .. MaxSeq - 1 \subseteq Byte
ASSUME AllocAssumption == AllocFails \subseteq {"window", "snapshot_clients"}

VARIABLES
    listening,      \* srv->listen_fd >= 0
    mpc,            \* where the main thread stands in its accept loop
    ring,           \* srv->ring
    clients_mu,     \* the thread that holds srv->clients_mu, or None
    in_list,        \* the fields of struct client; srv->clients is the set
    dead,           \* of the connections whose in_list is set
    authenticated,
    live_seq,
    refs,
    write_mu,       \* the thread that holds c->write_mu, or None
    fd,             \* c->fd: "none", "open", "shut" (SHUT_RDWR) or "closed"
    sent,           \* the frames written to the connection so far
    cpc,            \* where the thread of a connection stands
    req,            \* its requested_seq
    window,         \* its snapshot of the ring
    ppc,            \* where the PTY thread stands
    chunk,          \* the bytes it read last, and their start_seq
    snap,           \* its snapshot of the client list
    todo,           \* the part of the snapshot it has still to serve
    cur             \* the client it is serving

ring_vars   == <<ring, chunk>>
client_vars == <<in_list, dead, authenticated, live_seq, refs>>
net_vars    == <<fd, sent>>
thread_vars == <<cpc, req, window>>
pty_vars    == <<ppc, snap, todo, cur>>
lock_vars   == <<clients_mu, write_mu>>

main_vars   == <<listening, mpc>>

vars == <<main_vars, ring_vars, client_vars, net_vars, thread_vars, pty_vars, lock_vars>>

NoWindow == [base_seq |-> 0, from_seq |-> 0, next_seq |-> 0, data |-> << >>]

Init ==
    /\ listening = TRUE
    /\ mpc = "accept"
    /\ ring = opty_ring_init
    /\ clients_mu = None
    /\ in_list = [c \in Conn |-> FALSE]
    /\ dead = [c \in Conn |-> FALSE]
    /\ authenticated = [c \in Conn |-> FALSE]
    /\ live_seq = [c \in Conn |-> 0]
    /\ refs = [c \in Conn |-> 0]
    /\ write_mu = [c \in Conn |-> None]
    /\ fd = [c \in Conn |-> "none"]
    /\ sent = [c \in Conn |-> << >>]
    /\ cpc = [c \in Conn |-> "none"]
    /\ req = [c \in Conn |-> 0]
    /\ window = [c \in Conn |-> NoWindow]
    /\ ppc = "read"
    /\ chunk = [seq |-> 0, data |-> << >>]
    /\ snap = {}
    /\ todo = {}
    /\ cur = None

-----------------------------------------------------------------------------
(***************************************************************************)
(* Frames and sends.                                                       *)
(***************************************************************************)

Welcome(base_seq, next_seq)  == [type |-> "WELCOME", seq |-> base_seq, data |-> <<next_seq>>]
Stdout(seq, data) == [type |-> "STDOUT", seq |-> seq, data |-> data]
Replay(seq, data) == [type |-> "REPLAY", seq |-> seq, data |-> data]
Error == [type |-> "ERROR", seq |-> 0, data |-> << >>]

\* A blocking write of a whole frame succeeds when TCP has taken all of it.
\* It cannot on a socket that was shut down, and it can fail on any other,
\* because the peer may vanish, or malloc fail, at any moment.
CanWrite(c) == fd[c] = "open"

\* shutdown(c->fd, SHUT_RDWR)
Shut(f) == IF f = "open" THEN "shut" ELSE f

-----------------------------------------------------------------------------
(***************************************************************************)
(* Reference counts.  Both are called with clients_mu held.                *)
(***************************************************************************)

\* server_mark_dead_locked, then client_release_many_locked of own references
\* and, if the client was still linked, of the list's: the client is marked
\* dead and unlinked, its socket shut down, and at zero references it is freed
\* and its descriptor closed.
DropRefs(c, own, shut) ==
    LET n     == own + (IF in_list[c] THEN 1 ELSE 0)
        freed == refs[c] > 0 /\ n >= refs[c]
    IN  /\ dead' = [dead EXCEPT ![c] = TRUE]
        /\ in_list' = [in_list EXCEPT ![c] = FALSE]
        /\ refs' = [refs EXCEPT ![c] = IF n >= @ THEN 0 ELSE @ - n]
        /\ fd' = [fd EXCEPT ![c] = IF freed THEN "closed"
                                   ELSE IF dead[c] THEN @ ELSE shut]

\* Faulty variant: no shutdown() of the socket.
MarkDead_NoShutdown(c, own) == DropRefs(c, own, fd[c])

MarkDeadAndRelease(c, own) == DropRefs(c, own, Shut(fd[c]))

\* server_release_snapshot: one reference of every client of the snapshot.
ReleaseSnapshot ==
    /\ refs' = [c \in Conn |-> IF c \in snap /\ refs[c] > 0 THEN refs[c] - 1 ELSE refs[c]]
    /\ fd' = [c \in Conn |-> IF c \in snap /\ refs[c] = 1 THEN "closed" ELSE fd[c]]

\* server_shutdown_clients
ShutdownClients == fd' = [c \in Conn |-> IF in_list[c] THEN Shut(fd[c]) ELSE fd[c]]

-----------------------------------------------------------------------------
(***************************************************************************)
(* The main thread: accept() and server_add_client.                        *)
(***************************************************************************)

AcceptConn(c) ==
    /\ mpc = "accept"
    /\ listening
    /\ cpc[c] = "none"
    /\ mpc' = "add"
    /\ fd' = [fd EXCEPT ![c] = "open"]
    /\ cpc' = [cpc EXCEPT ![c] = "new"]
    /\ UNCHANGED <<listening, ring_vars, client_vars, sent, req, window, pty_vars, lock_vars>>

\* The new client enters the list with two references: the list's and its
\* thread's.
AddClient(c) ==
    /\ cpc[c] = "new"
    /\ clients_mu = None
    /\ refs' = [refs EXCEPT ![c] = 2]
    /\ in_list' = [in_list EXCEPT ![c] = TRUE]
    /\ cpc' = [cpc EXCEPT ![c] = "added"]
    /\ UNCHANGED <<main_vars, ring_vars, dead, authenticated, live_seq, net_vars, req, window,
                   pty_vars, lock_vars>>

\* calloc or pthread_mutex_init fails before the client is linked.
AddClientFails(c) ==
    /\ cpc[c] = "new"
    /\ fd' = [fd EXCEPT ![c] = "closed"]
    /\ mpc' = "accept"
    /\ cpc' = [cpc EXCEPT ![c] = "done"]
    /\ UNCHANGED <<listening, ring_vars, client_vars, sent, req, window, pty_vars, lock_vars>>

StartThread(c) ==
    /\ cpc[c] = "added"
    /\ mpc' = "accept"
    /\ cpc' = [cpc EXCEPT ![c] = "intro"]
    /\ UNCHANGED <<listening, ring_vars, client_vars, net_vars, req, window, pty_vars, lock_vars>>

\* pthread_create fails: main drops the thread's reference and the list's.
StartThreadFails(c) ==
    /\ cpc[c] = "added"
    /\ clients_mu = None
    /\ MarkDeadAndRelease(c, 1)
    /\ mpc' = "accept"
    /\ cpc' = [cpc EXCEPT ![c] = "done"]
    /\ UNCHANGED <<listening, ring_vars, authenticated, live_seq, sent, req, window,
                   pty_vars, lock_vars>>

-----------------------------------------------------------------------------
(***************************************************************************)
(* The thread of a connection: client_thread_main.                         *)
(***************************************************************************)

\* Steps that only move the thread.
Goto(c, from, to) ==
    /\ cpc[c] = from
    /\ cpc' = [cpc EXCEPT ![c] = to]

\* In "intro" the thread receives the first frame and does what it asks for up
\* to the first step that concerns the output path: it may wait there for the
\* frame, for pty_mu in server_resize_pty, or for the child in
\* server_request_shutdown.

\* The first frame cannot be received (reset, oversized, no memory), or it is
\* answered with an ERROR: it is of another type (an end of file included), is
\* malformed, fails authentication, or the resize it asks for fails.
IntroFails(c) ==
    /\ Goto(c, "intro", "finish") \/ Goto(c, "intro", "error")
    /\ UNCHANGED <<main_vars, ring_vars, client_vars, net_vars, req, window, pty_vars, lock_vars>>

\* A valid HELLO asks for position 0, a valid RECONNECT for its last_seq.
IntroAccepted(c, seq) ==
    /\ Goto(c, "intro", "lock")
    /\ req' = [req EXCEPT ![c] = seq]
    /\ UNCHANGED <<main_vars, ring_vars, client_vars, net_vars, window, pty_vars, lock_vars>>

\* A valid CONTROL_SHUTDOWN: server_request_shutdown, which ends, once the
\* child is gone, with server_close_listener and server_shutdown_clients.
IntroControl(c) ==
    /\ Goto(c, "intro", "control")
    /\ listening' = FALSE
    /\ UNCHANGED <<mpc, ring_vars, client_vars, net_vars, req, window, pty_vars, lock_vars>>

ControlShutdownClients(c) ==
    /\ Goto(c, "control", "finish")
    /\ clients_mu = None
    /\ ShutdownClients
    /\ UNCHANGED <<main_vars, ring_vars, client_vars, sent, req, window, pty_vars, lock_vars>>

\* server_send_welcome_and_replay takes clients_mu ...
AttachLock(c) ==
    /\ Goto(c, "lock", "snapshot")
    /\ clients_mu = None
    /\ clients_mu' = c
    /\ UNCHANGED <<main_vars, ring_vars, client_vars, net_vars, req, window, pty_vars, write_mu>>

\* ... then write_mu, then a window of the ring ...
TakeWindow(c, holder) ==
    /\ Goto(c, "snapshot", "publish")
    /\ write_mu[c] = None
    /\ write_mu' = [write_mu EXCEPT ![c] = holder]
    /\ window' = [window EXCEPT ![c] = opty_ring_snapshot_window(ring, req[c])]
    /\ req' = [req EXCEPT ![c] = 0]
    /\ UNCHANGED <<main_vars, ring_vars, client_vars, net_vars, pty_vars>>

\* Faulty variants: write_mu is not taken; clients_mu is given back before
\* the client is published.
AttachSnapshot_NoLock(c) == TakeWindow(c, None) /\ UNCHANGED clients_mu
AttachSnapshot_EarlyUnlock(c) == TakeWindow(c, c) /\ clients_mu' = None

AttachSnapshot(c) == TakeWindow(c, c) /\ UNCHANGED clients_mu

\* ... (or finds no memory for it, and gives both locks back) ...
AttachNoMemory(c) ==
    /\ "window" \in AllocFails
    /\ Goto(c, "snapshot", "error")
    /\ write_mu[c] = None
    /\ FromSeq(ring, req[c]) # ring.next_seq
    /\ clients_mu' = None
    /\ req' = [req EXCEPT ![c] = 0]
    /\ UNCHANGED <<main_vars, ring_vars, client_vars, net_vars, window, pty_vars, write_mu>>

\* ... and publishes the client, with the position that the PTY thread will
\* send from, before it lets others at the list again.
Publish(c, seq) ==
    /\ Goto(c, "publish", "welcome")
    /\ authenticated' = [authenticated EXCEPT ![c] = TRUE]
    /\ live_seq' = [live_seq EXCEPT ![c] = seq]
    /\ clients_mu' = None
    /\ UNCHANGED <<main_vars, ring_vars, in_list, dead, refs, net_vars, req, window, pty_vars, write_mu>>

\* Faulty variants: live_seq is the last byte sent and not the one after it;
\* live_seq is not set.
AttachPublish_LastSent(c) == Publish(c, window[c].next_seq - 1)
AttachPublish_NoLiveSeq(c) == Publish(c, live_seq[c])

AttachPublish(c) == Publish(c, window[c].next_seq)

SendWelcome(c) ==
    /\ Goto(c, "welcome", "replay")
    /\ CanWrite(c)
    /\ sent' = [sent EXCEPT ![c] = Append(@, Welcome(window[c].base_seq, window[c].next_seq))]
    /\ UNCHANGED <<main_vars, ring_vars, client_vars, fd, req, window, pty_vars, lock_vars>>

SendReplay(c) ==
    /\ Goto(c, "replay", "loop")
    /\ CanWrite(c)
    /\ Len(window[c].data) <= MaxData
    /\ sent' = [sent EXCEPT ![c] = Append(@, Replay(window[c].from_seq, window[c].data))]
    /\ write_mu' = [write_mu EXCEPT ![c] = None]
    /\ window' = [window EXCEPT ![c] = NoWindow]
    /\ UNCHANGED <<main_vars, ring_vars, client_vars, fd, req, pty_vars, clients_mu>>

\* WELCOME or REPLAY cannot be sent: "bad intro".
AttachFails(c) ==
    /\ \/ Goto(c, "welcome", "error")
       \/ Goto(c, "replay", "error")
    /\ write_mu' = [write_mu EXCEPT ![c] = None]
    /\ window' = [window EXCEPT ![c] = NoWindow]
    /\ UNCHANGED <<main_vars, ring_vars, client_vars, net_vars, req, pty_vars, clients_mu>>

\* The frame loop receives a STDIN or a RESIZE and calls server_write_pty or
\* server_resize_pty: the thread then waits for pty_mu, or for the program to
\* read its input, and a shutdown of its socket does not wake it.
LoopFrame(c) ==
    /\ Goto(c, "loop", "pty")
    /\ UNCHANGED <<main_vars, ring_vars, client_vars, net_vars, req, window, pty_vars, lock_vars>>

\* The call succeeds, or it fails and ends the loop.
PtyCallReturns(c) ==
    /\ Goto(c, "pty", "loop") \/ Goto(c, "pty", "finish")
    /\ UNCHANGED <<main_vars, ring_vars, client_vars, net_vars, req, window, pty_vars, lock_vars>>

\* The frame loop ends: end of file or a frame it does not accept.  An ACK
\* changes nothing.
LoopEnds(c) ==
    /\ Goto(c, "loop", "finish")
    /\ UNCHANGED <<main_vars, ring_vars, client_vars, net_vars, req, window, pty_vars, lock_vars>>

\* server_send_error
ErrorLock(c) ==
    /\ Goto(c, "error", "senderr")
    /\ write_mu[c] = None
    /\ write_mu' = [write_mu EXCEPT ![c] = c]
    /\ UNCHANGED <<main_vars, ring_vars, client_vars, net_vars, req, window, pty_vars, clients_mu>>

SendError(c) ==
    /\ Goto(c, "senderr", "finish")
    /\ \/ CanWrite(c) /\ sent' = [sent EXCEPT ![c] = Append(@, Error)]
       \/ UNCHANGED sent
    /\ write_mu' = [write_mu EXCEPT ![c] = None]
    /\ UNCHANGED <<main_vars, ring_vars, client_vars, fd, req, window, pty_vars, clients_mu>>

\* server_finish_client
Finish(c, own) ==
    /\ Goto(c, "finish", "done")
    /\ clients_mu = None
    /\ MarkDeadAndRelease(c, own)
    /\ UNCHANGED <<main_vars, ring_vars, authenticated, live_seq, sent, req, window, pty_vars, lock_vars>>

\* Faulty variant: the thread's own reference is forgotten.
FinishClient_KeepsRef(c) == Finish(c, 0)

FinishClient(c) == Finish(c, 1)

-----------------------------------------------------------------------------
(***************************************************************************)
(* Shutdown from the main thread: a SIGTERM or SIGINT, or a failing        *)
(* accept(), makes it call server_request_shutdown, which comes to its     *)
(* last two steps once the child is gone.                                  *)
(***************************************************************************)

MainCloseListener ==
    /\ mpc = "accept"
    /\ listening' = FALSE
    /\ mpc' = "shutall"
    /\ UNCHANGED <<ring_vars, client_vars, net_vars, thread_vars, pty_vars, lock_vars>>

MainShutdownClients ==
    /\ mpc = "shutall"
    /\ clients_mu = None
    /\ ShutdownClients
    /\ mpc' = "accept"
    /\ UNCHANGED <<listening, ring_vars, client_vars, sent, thread_vars, pty_vars, lock_vars>>

\* accept() on a closed listener ends the loop; main waits for the PTY
\* thread.
MainLeaves ==
    /\ mpc = "accept"
    /\ ~listening
    /\ mpc' = "join"
    /\ UNCHANGED <<listening, ring_vars, client_vars, net_vars, thread_vars, pty_vars, lock_vars>>

-----------------------------------------------------------------------------
(***************************************************************************)
(* The PTY thread: pty_thread_main and server_broadcast_stdout.            *)
(***************************************************************************)

\* read() returns n bytes, which go into the ring.
PtyRead(n) ==
    /\ ppc = "read"
    /\ ring.next_seq + n <= MaxSeq
    /\ LET data == Positions(ring.next_seq, n)
       IN  /\ ring' = opty_ring_append(ring, data)
           /\ chunk' = [seq |-> ring.next_seq, data |-> data]
    /\ ppc' = "snapshot"
    /\ UNCHANGED <<main_vars, client_vars, net_vars, thread_vars, snap, todo, cur, lock_vars>>

\* server_snapshot_clients: the clients that will get this chunk, each with
\* one more reference.
Receivers == {c \in Conn : in_list[c] /\ authenticated[c] /\ ~dead[c]}

SnapshotClients(own) ==
    /\ ppc = "snapshot"
    /\ clients_mu = None
    /\ snap' = Receivers
    /\ todo' = Receivers
    /\ refs' = [c \in Conn |-> IF c \in Receivers THEN refs[c] + own ELSE refs[c]]
    /\ ppc' = IF Receivers = {} THEN "read" ELSE "send"
    /\ UNCHANGED <<main_vars, ring_vars, in_list, dead, authenticated, live_seq, net_vars, thread_vars,
                   cur, lock_vars>>

\* Faulty variant: no reference is taken.
PtySnapshot_NoRef == SnapshotClients(0)

PtySnapshot == SnapshotClients(1)

\* Without memory for the snapshot its count stays 0, which
\* server_broadcast_stdout reads as "no clients": the chunk is sent to nobody.
PtySnapshotNoMemory ==
    /\ "snapshot_clients" \in AllocFails
    /\ ppc = "snapshot"
    /\ clients_mu = None
    /\ Receivers # {}
    /\ ppc' = "read"
    /\ UNCHANGED <<main_vars, ring_vars, client_vars, net_vars, thread_vars, snap, todo, cur, lock_vars>>

\* The next client of the snapshot; the thread then waits for its write_mu.
PtyNext(c) ==
    /\ ppc = "send"
    /\ c \in todo
    /\ cur' = c
    /\ ppc' = "lock"
    /\ UNCHANGED <<main_vars, ring_vars, client_vars, net_vars, thread_vars, snap, todo, lock_vars>>

PtyLock ==
    /\ ppc = "lock"
    /\ write_mu[cur] = None
    /\ write_mu' = [write_mu EXCEPT ![cur] = Pty]
    /\ ppc' = "write"
    /\ UNCHANGED <<main_vars, ring_vars, client_vars, net_vars, thread_vars, snap, todo, cur, clients_mu>>

\* The part of the chunk that the client has not been sent, as a frame.
EndSeq == chunk.seq + Len(chunk.data)
Offset(c) == IF live_seq[c] > chunk.seq THEN live_seq[c] - chunk.seq ELSE 0
Rest(c) == Stdout(chunk.seq + Offset(c),
                  [i \in 1 .. Len(chunk.data) - Offset(c) |-> chunk.data[Offset(c) + i]])

\* Both ends of a write to the current client release its write_mu.
Unlock(to) ==
    /\ ppc = "write"
    /\ ppc' = to
    /\ write_mu' = [write_mu EXCEPT ![cur] = None]

\* The replay already carried the whole chunk.
PtySkip ==
    /\ Unlock("send")
    /\ live_seq[cur] >= EndSeq
    /\ todo' = todo \ {cur}
    /\ cur' = None
    /\ UNCHANGED <<main_vars, ring_vars, client_vars, net_vars, thread_vars, snap, clients_mu>>

PtyWrite ==
    /\ Unlock("send")
    /\ live_seq[cur] < EndSeq
    /\ CanWrite(cur)
    /\ Len(Rest(cur).data) <= MaxData
    /\ sent' = [sent EXCEPT ![cur] = Append(@, Rest(cur))]
    /\ live_seq' = [live_seq EXCEPT ![cur] = EndSeq]
    /\ todo' = todo \ {cur}
    /\ cur' = None
    /\ UNCHANGED <<main_vars, ring_vars, in_list, dead, authenticated, refs, fd, thread_vars,
                   snap, clients_mu>>

PtyWriteFails ==
    /\ Unlock("drop")
    /\ live_seq[cur] < EndSeq
    /\ UNCHANGED <<main_vars, ring_vars, client_vars, net_vars, thread_vars, snap, todo, cur, clients_mu>>

\* The client is marked dead and unlinked; the snapshot's reference keeps it.
DropCur(own, done) ==
    /\ ppc = "drop"
    /\ clients_mu = None
    /\ MarkDeadAndRelease(cur, own)
    /\ todo' = todo \ done
    /\ cur' = None
    /\ ppc' = "send"
    /\ UNCHANGED <<main_vars, ring_vars, authenticated, live_seq, sent, thread_vars, snap, lock_vars>>

\* Faulty variants: the snapshot's reference is dropped as well; the loop over
\* the snapshot does not advance.
PtyDrop_OwnRef == DropCur(1, {cur})
PtyDrop_Again == DropCur(0, {})

PtyDrop == DropCur(0, {cur})

PtyRelease ==
    /\ ppc = "send"
    /\ todo = {}
    /\ clients_mu = None
    /\ ReleaseSnapshot
    /\ snap' = {}
    /\ ppc' = "read"
    /\ UNCHANGED <<main_vars, ring_vars, in_list, dead, authenticated, live_seq, sent, thread_vars,
                   todo, cur, lock_vars>>

\* Faulty variant: the listener is left open.
PtyEof_KeepsListener ==
    /\ ppc = "read"
    /\ ppc' = "shutall"
    /\ UNCHANGED <<main_vars, ring_vars, client_vars, net_vars, thread_vars, snap, todo, cur, lock_vars>>

\* read() fails or reports the end: the listener is closed, then the clients
\* are shut down, then the child is waited for.
PtyEof ==
    /\ ppc = "read"
    /\ listening' = FALSE
    /\ ppc' = "shutall"
    /\ UNCHANGED <<mpc, ring_vars, client_vars, net_vars, thread_vars, snap, todo, cur, lock_vars>>

PtyShutdownClients ==
    /\ ppc = "shutall"
    /\ clients_mu = None
    /\ ShutdownClients
    /\ ppc' = "wait"
    /\ UNCHANGED <<main_vars, ring_vars, client_vars, sent, thread_vars, snap, todo, cur, lock_vars>>

\* server_wait_child_blocking: the child has ended and is reaped.  One that
\* closed its terminal and lives on keeps the thread here.
PtyReaps ==
    /\ ppc = "wait"
    /\ ppc' = "exit"
    /\ UNCHANGED <<main_vars, ring_vars, client_vars, net_vars, thread_vars, snap, todo, cur, lock_vars>>

\* main has joined the PTY thread and returns: the process is gone, whatever
\* the other threads were doing.
Exited ==
    /\ mpc = "join"
    /\ ppc = "exit"
    /\ UNCHANGED vars

-----------------------------------------------------------------------------
AcceptNext(c) == \/ AcceptConn(c) \/ AddClient(c) \/ AddClientFails(c)
                 \/ StartThread(c) \/ StartThreadFails(c)

IntroNext(c) == \/ IntroFails(c) \/ IntroControl(c)
                \/ \E seq \in Requests : IntroAccepted(c, seq)

AttachNext(c) == \/ AttachLock(c) \/ AttachSnapshot(c) \/ AttachNoMemory(c)
                 \/ AttachPublish(c) \/ SendWelcome(c) \/ SendReplay(c)
                 \/ AttachFails(c)

LoopNext(c) == LoopFrame(c) \/ PtyCallReturns(c) \/ LoopEnds(c)

EndNext(c) == \/ ControlShutdownClients(c) \/ ErrorLock(c) \/ SendError(c)
              \/ FinishClient(c)

SendNext == \/ PtySnapshot \/ PtySnapshotNoMemory
            \/ \E c \in Conn : PtyNext(c)
            \/ PtyLock
            \/ PtySkip \/ PtyWrite \/ PtyWriteFails \/ PtyDrop \/ PtyRelease

Next == \/ \E c \in Conn : AcceptNext(c) \/ IntroNext(c) \/ AttachNext(c)
                           \/ LoopNext(c) \/ EndNext(c)
        \/ MainCloseListener \/ MainShutdownClients \/ MainLeaves
        \/ \E n \in 1 .. MaxRead : PtyRead(n)
        \/ SendNext
        \/ PtyEof \/ PtyShutdownClients \/ PtyReaps
        \/ Exited

Spec == Init /\ [][Next]_vars

(***************************************************************************)
(* Fairness.  A runnable thread runs, a mutex is handed on, and a peer     *)
(* drains its socket or goes away, so every send ends.  A thread in its    *)
(* frame loop is only sure to leave it once its socket is shut down: a     *)
(* finite number of frames were received before.  main is only sure to     *)
(* leave its loop when the listener is closed and the child reaped, since  *)
(* server_request_shutdown waits for the child, and unless signals never   *)
(* cease.  Nothing else is assumed: not of signals, of the child's output  *)
(* or its end, of new connections, of what clients send, and not that a    *)
(* call on the PTY, or what a first frame asks for, ever comes to its end. *)
(***************************************************************************)
ThreadRuns(c) == AttachNext(c) \/ EndNext(c)

ThreadLeavesLoop(c) == fd[c] = "shut" /\ LoopEnds(c)

MainRuns == \/ \E c \in Conn : AddClient(c) \/ StartThread(c) \/ StartThreadFails(c)
            \/ MainShutdownClients

Fairness == /\ WF_vars(SendNext \/ PtyShutdownClients)
            /\ WF_vars(MainRuns)
            /\ SF_vars(ppc = "exit" /\ MainLeaves)
            /\ \A c \in Conn : WF_vars(ThreadRuns(c)) /\ SF_vars(ThreadLeavesLoop(c))

FairSpec == Spec /\ Fairness

-----------------------------------------------------------------------------
(***************************************************************************)
(* Properties.                                                             *)
(***************************************************************************)
Frames == [type : {"WELCOME", "REPLAY", "STDOUT", "ERROR"}, seq : Nat,
           data : Seq(Nat \cup Byte \cup {Garbage})]
Windows == [base_seq : Nat, from_seq : Nat, next_seq : Nat, data : Seq(Byte \cup {Garbage})]

Owners == Conn \cup {None, Pty}

\* The shapes of struct server, of the struct clients and of the threads'
\* local variables.
TypeOK ==
    /\ listening \in BOOLEAN
    /\ mpc \in {"accept", "add", "shutall", "join"}
    /\ ring \in Rings
    /\ chunk \in [seq : Nat, data : Seq(Byte)]
    /\ clients_mu \in Owners
    /\ write_mu \in [Conn -> Owners]
    /\ in_list \in [Conn -> BOOLEAN]
    /\ dead \in [Conn -> BOOLEAN]
    /\ authenticated \in [Conn -> BOOLEAN]
    /\ live_seq \in [Conn -> Nat]
    /\ refs \in [Conn -> Nat]
    /\ fd \in [Conn -> {"none", "open", "shut", "closed"}]
    /\ sent \in [Conn -> Seq(Frames)]
    /\ cpc \in [Conn -> {"none", "new", "added", "intro", "lock", "snapshot", "publish", "welcome",
                         "replay", "loop", "pty", "control", "error", "senderr", "finish", "done"}]
    /\ req \in [Conn -> Nat]
    /\ window \in [Conn -> Windows]
    /\ ppc \in {"read", "snapshot", "send", "lock", "write", "drop", "shutall", "wait",
               "exit"}
    /\ snap \subseteq Conn
    /\ todo \subseteq snap
    /\ cur \in Conn \cup {None}

\* Who may follow a pointer to the struct of a connection.
ThreadOwns(c) == cpc[c] \notin {"none", "new", "done"}
One(b) == IF b THEN 1 ELSE 0

\* c->refs is, at every moment, the number of holders the code has in mind:
\* the connection's thread (or main on its behalf), the client list, and the
\* PTY thread's snapshot.
RefCounts == \A c \in Conn :
    refs[c] = One(ThreadOwns(c)) + One(in_list[c]) + One(c \in snap)

\* client_free never runs under someone who still holds the pointer, walks
\* the list over it, or stands in its write_mu.
NoUseAfterFree == \A c \in Conn :
    ThreadOwns(c) \/ in_list[c] \/ c \in snap \/ write_mu[c] # None => fd[c] \in {"open", "shut"}

\* A connection whose thread is through is closed as soon as the PTY thread
\* has let go of it: no failure path forgets a reference.
NoLeak == \A c \in Conn :
    cpc[c] = "done" /\ c \notin snap => fd[c] = "closed"

\* Every byte a client is sent is the byte printed at the position the frame
\* claims for it, however the ring wrapped and whatever part of a chunk the
\* broadcast cut off.
StreamFaithful == \A c \in Conn : \A i \in DOMAIN sent[c] :
    sent[c][i].type \in {"REPLAY", "STDOUT"} =>
        sent[c][i].data = Positions(sent[c][i].seq, Len(sent[c][i].data))

FrameEnd(f) == f.seq + Len(f.data)
Carries(c, i, type) == i \in DOMAIN sent[c] /\ sent[c][i].type = type
Replayed(c) == Carries(c, 2, "REPLAY")

\* "A replay frame followed by live output": once its REPLAY is out, a client
\* gets STDOUT frames only, and each begins where the frame before it ended,
\* although the attach and the broadcast run in different threads.
StreamContiguous == \A c \in Conn : Replayed(c) =>
    /\ sent[c][1].type = "WELCOME"
    /\ sent[c][1].data = <<FrameEnd(sent[c][2])>>
    /\ \A i \in 3 .. Len(sent[c]) :
          sent[c][i].type = "STDOUT" /\ sent[c][i].seq = FrameEnd(sent[c][i - 1])

\* No live output overtakes the replay, except on a connection whose attach
\* has failed and that will be told so.
ReplayFirst == \A c \in Conn : \A i \in DOMAIN sent[c] :
    Carries(c, i, "STDOUT") => Replayed(c) \/ cpc[c] \in {"error", "senderr", "finish", "done"}

\* Between two reads of the PTY every attached client that is still served
\* has been sent the output up to its very last byte: an attach that races
\* with a chunk gets it by replay or by broadcast.
NoLaggard == \A c \in Conn :
    ppc = "read" /\ cpc[c] \in {"loop", "pty"} /\ ~dead[c] =>
        FrameEnd(sent[c][Len(sent[c])]) = ring.next_seq

\* A connection marked dead or closed is never written to again, and a
\* closed one is not closed or counted a second time.
DeadStaysDead == [][\A c \in Conn :
    /\ dead[c] => dead'[c] /\ sent'[c] = sent[c]
    /\ fd[c] = "closed" => UNCHANGED <<fd[c], refs[c], sent[c], in_list[c]>>]_vars

\* Every broadcast ends and the PTY is read again (or the server winds up):
\* the PTY thread is never stuck behind a mutex that is not released.
BroadcastEnds == []<>(ppc \in {"read", "wait", "exit"})

\* A client that was dropped is eventually freed, by whichever of its thread
\* and the PTY thread lets go last, unless its thread never returns from a call
\* on the PTY.
DroppedIsFreed == \A c \in Conn :
    <>[](cpc[c] = "pty") \/ []<>(dead[c] => fd[c] = "closed")

\* The end of the program's output ends the process, although connections are
\* accepted, attach and are sent output while the list is being shut down: one
\* that enters the list just afterwards delays nothing.  Only a child that
\* lives on without its terminal keeps the process.
EofEnds == \/ <>[](ppc = "wait")
           \/ []<>(ppc \in {"shutall", "wait", "exit"} => mpc = "join" /\ ppc = "exit")
=============================================================================
