-------------------------------- MODULE Flow --------------------------------
(***************************************************************************)
(* Back pressure between attached clients, the server and the program.     *)
(* Every hop has a buffer of limited size and every sender blocks while it *)
(* is full: the client (one thread: run_session of src/client.c) when it   *)
(* sends input or an ACK, the thread of a connection when it writes input  *)
(* to the PTY (holding pty_mu), the program when it prints, and the PTY    *)
(* thread when it sends output to one client after the other (src/server.c)*)
(*                                                                         *)
(*   user -> client -c2s-> connection's thread -tty_in-> program           *)
(*   user <- client <-s2c- PTY thread <-tty_out- program                   *)
(*                                                                         *)
(* A frame or a chunk is one unit, as large as is needed to fill a slot of *)
(* its buffer; only what the threads wait for matters here, the bytes are  *)
(* the subject of Fanout and Wire.  The clients have been welcomed, none   *)
(* joins, and their windows keep their size.  The user's terminal takes    *)
(* all output.                                                             *)
(***************************************************************************)
EXTENDS Naturals, Sequences, Functions

CONSTANTS
    List,       \* srv->clients, the attached clients
    None,       \* the owner of pty_mu when nobody holds it
    C2S, S2C,   \* the sizes of the socket buffers, in frames
    TtyIn, TtyOut,  \* the sizes of the terminal's buffers
    MaxTyped,   \* bound on the keystrokes waiting in a client's terminal
    Users,      \* what the user of a client may do: "type" or "close" the window
    Program     \* "reader": the program reads its input whatever becomes of
                \* its output; "echoer": it prints before it reads on

Client == Range(List)

ASSUME ListAssumption == IsInjective(List)
ASSUME SizesAssumption == {C2S, S2C, TtyIn, TtyOut, MaxTyped} \subseteq Nat \ {0}
ASSUME ProgramAssumption == Program \in {"reader", "echoer"}
ASSUME UsersAssumption == Users \in [Client -> SUBSET {"type", "close"}]
ASSUME NoneAssumption == None \notin Client

VARIABLES
    cpc,        \* where a client stands in its loop
    typed,      \* the keystrokes it has not read
    stdin_ready, \* whether poll() has reported its stdin
    hungup,     \* its terminal was closed (SIGHUP: g_terminate_pending)
    c2s,        \* the frames under way to the server
    s2c,        \* how many STDOUT frames are under way to the client
    tpc,        \* where the connection's thread stands
    attached,   \* the connections the PTY thread sends to
    pty_mu,
    tty_in, tty_out,    \* how full the terminal's buffers are
    prog,       \* "idle", or "reply" when the program has something to print
    todo        \* whom the PTY thread has to send a chunk to: the first is
                \* being served, and the thread reads when none is left

client_vars == <<cpc, typed, stdin_ready, hungup>>
thread_vars == <<tpc, pty_mu>>
pty_vars    == <<todo, attached>>
vars == <<client_vars, c2s, s2c, thread_vars, tty_in, tty_out, prog, pty_vars>>

Init ==
    /\ cpc = [c \in Client |-> "poll"]
    /\ typed = [c \in Client |-> 0]
    /\ stdin_ready = [c \in Client |-> FALSE]
    /\ hungup = [c \in Client |-> FALSE]
    /\ c2s = [c \in Client |-> << >>]
    /\ s2c = [c \in Client |-> 0]
    /\ tpc = [c \in Client |-> "recv"]
    /\ attached = Client
    /\ pty_mu = None
    /\ tty_in = 0
    /\ tty_out = 0
    /\ prog = "idle"
    /\ todo = << >>

Goto(c, from, to) == cpc[c] = from /\ cpc' = [cpc EXCEPT ![c] = to]

-----------------------------------------------------------------------------
(***************************************************************************)
(* run_session.  poll() is where its loop waits for something to do, the   *)
(* other places are blocking sends.                                        *)
(***************************************************************************)

\* The top of the loop: the test of g_terminate_pending, then poll().
LoopTop(c, from) == Goto(c, from, IF hungup[c] THEN "gone" ELSE "poll")

\* The rest of the loop, which does not block: stdin is read if poll() has
\* reported it (after a hangup it is at its end), and what was read is sent.
Rest(c, from, ready) ==
    /\ \/ ready /\ Goto(c, from, IF typed[c] = 0 THEN "gone" ELSE "send")
       \/ ~ready /\ LoopTop(c, from)
    /\ typed' = [typed EXCEPT ![c] = IF ready /\ @ > 0 THEN @ - 1 ELSE @]
    /\ stdin_ready' = [stdin_ready EXCEPT ![c] = FALSE]
    /\ UNCHANGED hungup

\* Faulty variant: stdin is left for later while more output is waiting.
ReadStdin_OutputFirst(c, from, ready) == Rest(c, from, ready /\ s2c[c] = 0)

ReadStdin(c, from, ready) == Rest(c, from, ready)

\* poll() reports stdin when there is input, and POLLHUP after a hangup.
Readable(c) == typed[c] > 0 \/ hungup[c]

\* poll() reports the socket: a frame is received and written to the terminal
\* (write_stdout_bytes); after that its ACK is sent.  If poll() reports stdin as
\* well, that is read in the same round.
PollSocket(c) ==
    /\ s2c[c] > 0
    /\ Goto(c, "poll", "ack")
    /\ stdin_ready' = [stdin_ready EXCEPT ![c] = Readable(c)]
    /\ s2c' = [s2c EXCEPT ![c] = @ - 1]
    /\ UNCHANGED <<typed, hungup, c2s, thread_vars, tty_in, tty_out, prog, pty_vars>>

\* The window is closed after poll() has reported the socket and before the
\* frame is written: a closed terminal refuses it, no ACK is sent, and the
\* session ends.
WriteStdoutFails(c) ==
    /\ "close" \in Users[c]
    /\ s2c[c] > 0
    /\ Goto(c, "poll", "gone")
    /\ hungup' = [hungup EXCEPT ![c] = TRUE]
    /\ typed' = [typed EXCEPT ![c] = 0]
    /\ s2c' = [s2c EXCEPT ![c] = @ - 1]
    /\ UNCHANGED <<stdin_ready, c2s, thread_vars, tty_in, tty_out, prog, pty_vars>>

PollStdin(c) ==
    /\ s2c[c] = 0 /\ Readable(c)
    /\ ReadStdin(c, "poll", TRUE)
    /\ UNCHANGED <<c2s, s2c, thread_vars, tty_in, tty_out, prog, pty_vars>>

\* A blocking send of a frame to the server.
SendFrame(c, f) ==
    /\ Len(c2s[c]) < C2S
    /\ c2s' = [c2s EXCEPT ![c] = Append(@, f)]

SendAck(c) ==
    /\ SendFrame(c, "ACK")
    /\ ReadStdin(c, "ack", stdin_ready[c])
    /\ UNCHANGED <<s2c, thread_vars, tty_in, tty_out, prog, pty_vars>>

SendStdin(c) ==
    /\ SendFrame(c, "STDIN")
    /\ LoopTop(c, "send")
    /\ UNCHANGED <<typed, stdin_ready, hungup, s2c, thread_vars, tty_in, tty_out, prog, pty_vars>>

-----------------------------------------------------------------------------
(***************************************************************************)
(* The user.  A signal interrupts a poll() that waits, and the loop starts *)
(* over; opty_read_full, opty_write_full and opty_writev_full repeat a     *)
(* call that it interrupts.                                                *)
(***************************************************************************)
Types(c) ==
    /\ "type" \in Users[c]
    /\ ~hungup[c] /\ cpc[c] # "gone"
    /\ typed[c] < MaxTyped
    /\ typed' = [typed EXCEPT ![c] = @ + 1]
    /\ UNCHANGED <<cpc, stdin_ready, hungup, c2s, s2c,
                   thread_vars, tty_in, tty_out, prog, pty_vars>>

\* The terminal window is closed: SIGHUP sets g_terminate_pending, and the
\* terminal is at its end, which poll() reports as well.
ClosesWindow(c) ==
    /\ "close" \in Users[c]
    /\ ~hungup[c]
    /\ hungup' = [hungup EXCEPT ![c] = TRUE]
    /\ typed' = [typed EXCEPT ![c] = 0]
    /\ cpc' = IF cpc[c] = "poll" THEN [cpc EXCEPT ![c] = "gone"] ELSE cpc
    /\ UNCHANGED <<stdin_ready, c2s, s2c,
                   thread_vars, tty_in, tty_out, prog, pty_vars>>

-----------------------------------------------------------------------------
(***************************************************************************)
(* The thread of a connection: the loop of client_thread_main.             *)
(***************************************************************************)
ThreadGoto(c, from, to) == tpc[c] = from /\ tpc' = [tpc EXCEPT ![c] = to]

\* An ACK is ignored; input needs pty_mu.
Recv(c, rest) ==
    /\ c2s[c] # << >>
    /\ ThreadGoto(c, "recv", IF Head(c2s[c]) = "ACK" THEN "recv" ELSE "lock")
    /\ c2s' = [c2s EXCEPT ![c] = rest]
    /\ UNCHANGED <<client_vars, s2c, pty_mu, tty_in, tty_out, prog, pty_vars>>

\* Faulty variant: an ACK is looked at and left in the socket.
ThreadRecv_Peeks(c) == Recv(c, SelectSeq(c2s[c], LAMBDA f : f = "ACK"))

ThreadRecv(c) == Recv(c, Tail(c2s[c]))

\* server_write_pty
ThreadLock(c) ==
    /\ pty_mu = None
    /\ ThreadGoto(c, "lock", "write")
    /\ pty_mu' = c
    /\ UNCHANGED <<client_vars, c2s, s2c, tty_in, tty_out, prog, pty_vars>>

ThreadWrite(c) ==
    /\ tty_in < TtyIn
    /\ ThreadGoto(c, "write", "recv")
    /\ tty_in' = tty_in + 1
    /\ pty_mu' = None
    /\ UNCHANGED <<client_vars, c2s, s2c, tty_out, prog, pty_vars>>

\* The client has closed its socket: what it had sent may or may not be read
\* first.  server_finish_client takes the connection off the list.
ThreadEnds(c) ==
    /\ cpc[c] = "gone"
    /\ ThreadGoto(c, "recv", "done")
    /\ c2s' = [c2s EXCEPT ![c] = << >>]
    /\ attached' = attached \ {c}
    /\ UNCHANGED <<client_vars, s2c, pty_mu, tty_in, tty_out, prog, todo>>

-----------------------------------------------------------------------------
(***************************************************************************)
(* The program and the PTY thread.                                         *)
(***************************************************************************)
ProgReads ==
    /\ prog = "idle"
    /\ tty_in > 0
    /\ tty_in' = tty_in - 1
    /\ prog' = IF Program = "echoer" THEN "reply" ELSE "idle"
    /\ UNCHANGED <<client_vars, c2s, s2c, thread_vars, tty_out, pty_vars>>

\* A reply, or output of its own accord.
ProgPrints ==
    /\ tty_out < TtyOut
    /\ tty_out' = tty_out + 1
    /\ prog' = "idle"
    /\ UNCHANGED <<client_vars, c2s, s2c, thread_vars, tty_in, pty_vars>>

\* server_snapshot_clients, and server_broadcast_stdout from one to the next.
PtyRead ==
    /\ todo = << >>
    /\ tty_out > 0
    /\ tty_out' = tty_out - 1
    /\ todo' = SelectSeq(List, LAMBDA c : c \in attached)
    /\ UNCHANGED <<client_vars, c2s, s2c, thread_vars, tty_in, prog, attached>>

PtySend ==
    /\ todo # << >>
    /\ cpc[Head(todo)] # "gone" /\ s2c[Head(todo)] < S2C
    /\ s2c' = [s2c EXCEPT ![Head(todo)] = @ + 1]
    /\ todo' = Tail(todo)
    /\ UNCHANGED <<client_vars, c2s, thread_vars, tty_in, tty_out, prog, attached>>

\* The client has gone: it is dropped and the loop goes on.
PtyDrops(rest) ==
    /\ todo # << >>
    /\ cpc[Head(todo)] = "gone"
    /\ attached' = attached \ {Head(todo)}
    /\ todo' = rest
    /\ UNCHANGED <<client_vars, c2s, s2c, thread_vars, tty_in, tty_out, prog>>

\* Faulty variant: the send is tried again.
PtySendFails_Retries == PtyDrops(todo)

PtySendFails == PtyDrops(Tail(todo))

-----------------------------------------------------------------------------
ClientStep(c) == PollSocket(c) \/ PollStdin(c) \/ SendAck(c) \/ SendStdin(c)

ThreadStep(c) == ThreadRecv(c) \/ ThreadLock(c) \/ ThreadWrite(c) \/ ThreadEnds(c)

PtyStep == PtyRead \/ PtySend \/ PtySendFails

ProgStep == ProgReads \/ (prog = "reply" /\ ProgPrints)

Next == \/ \E c \in Client : \/ Types(c) \/ ClosesWindow(c) \/ WriteStdoutFails(c)
                             \/ ClientStep(c) \/ ThreadStep(c)
        \/ ProgReads \/ ProgPrints
        \/ PtyStep

Spec == Init /\ [][Next]_vars

\* Fairness: every thread runs when it can, one that waits for pty_mu gets it
\* some time when it is free, and the program reads its input and prints what
\* it has to.  Users need do nothing.
FairSpec == /\ Spec
            /\ WF_vars(PtyStep) /\ WF_vars(ProgStep)
            /\ \A c \in Client : WF_vars(ClientStep(c)) /\ SF_vars(ThreadStep(c))

-----------------------------------------------------------------------------
(***************************************************************************)
(* Properties.                                                             *)
(***************************************************************************)

\* However much the program prints and however many clients there are, each
\* client's input is read, sent and written to the terminal: no thread waits
\* in a circle, and output does not starve input in the client's one loop.
InputServed == \A c \in Client :
    /\ []<>(typed[c] = 0 \/ cpc[c] \in {"send", "gone"})
    /\ []<>(cpc[c] # "send")
    /\ []<>(tpc[c] \notin {"lock", "write"})

\* A chunk gets to every attached client: a client that is busy sending, or
\* that goes away, holds the broadcast up only for a while.
OutputServed == []<>(todo = << >>)

\* "close the terminal window running the client": wherever it stands, the
\* client then ends.
DetachEnds == \A c \in Client : []<>(hungup[c] => cpc[c] = "gone")
=============================================================================
