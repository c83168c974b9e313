----------------------------- MODULE Reconnect -----------------------------
(***************************************************************************)
(* The client of src/client.c from connection to connection:               *)
(* run_client_endpoint, which connects, retries and remembers last_seq,    *)
(* and run_session, which sends the intro and shows what the server sends. *)
(*                                                                         *)
(* The server is what Fanout shows of it: an intro is answered by WELCOME  *)
(* and a REPLAY that starts at the requested position, clipped to the      *)
(* window, and from then on every chunk is sent as a STDOUT frame.  It may *)
(* refuse, drop the client, exit, and be started again, with its positions *)
(* starting at 0 again.  A byte is identified by the server run ("epoch")  *)
(* that printed it and by its position.                                    *)
(*                                                                         *)
(* The connection delivers frames in order until it breaks; then any of    *)
(* the frames still under way may be lost.  What the client sends after    *)
(* its intro (ACK, RESIZE, STDIN) the server does not answer, so only the  *)
(* failure of those sends matters.  Waiting times are not modelled.        *)
(***************************************************************************)
EXTENDS RingOps

CONSTANTS
    Retry,      \* the --retry option
    MaxChunk,   \* the most bytes printed at once
    MaxSeq,     \* bound on the output of one server run
    MaxEpoch,   \* bound on the server runs
    MaxBreaks   \* bound on the connections that break or that the server ends

ASSUME RetryAssumption == Retry \in BOOLEAN
ASSUME BoundsAssumption == {MaxChunk, MaxSeq, MaxBreaks} \subseteq Nat /\ MaxEpoch \in Nat \ {0}
ASSUME ByteAssumption == 0 .. MaxSeq - 1 \subseteq Byte

VARIABLES
    up,         \* whether a server listens
    epoch,      \* the number of its run
    ring,       \* its ring
    srv,        \* its thread for the client: "none", "intro" or "live"
    link,       \* the connection: "none", "open", "eof" or "broken"
    s2c,        \* the frames under way to the client
    request,    \* the requested_seq under way to the server, in a sequence
    breaks,     \* how many connections broke or were ended
    cpc,        \* where the client stands
    last_seq,
    have_connected_once,
    g_terminate_pending,
    status,     \* the client's exit status
    shown,      \* the bytes written to stdout
    replayed    \* the REPLAY frame of this session, once it was shown

server_vars == <<up, epoch, ring>>
net_vars    == <<srv, link, s2c, request, breaks>>
user_vars   == <<last_seq, shown>>
client_vars == <<cpc, have_connected_once, g_terminate_pending, status, user_vars, replayed>>
vars == <<server_vars, net_vars, client_vars>>

NoFrame == [type |-> "none"]

Init ==
    /\ up = TRUE
    /\ epoch = 1
    /\ ring = opty_ring_init
    /\ srv = "none"
    /\ link = "none"
    /\ s2c = << >>
    /\ request = << >>
    /\ breaks = 0
    /\ cpc = "connect"
    /\ last_seq = 0
    /\ have_connected_once = FALSE
    /\ g_terminate_pending = FALSE
    /\ status = 1
    /\ shown = << >>
    /\ replayed = NoFrame

-----------------------------------------------------------------------------
(***************************************************************************)
(* The server and the network.                                             *)
(***************************************************************************)
Welcome == [type |-> "WELCOME"]
Error   == [type |-> "ERROR"]

\* A frame of output; base is the position the server's window began at.
Stream(type, seq, data, base) ==
    [type |-> type, seq |-> seq, data |-> data, base |-> base, epoch |-> epoch]

Deliver(frames) == s2c' = IF link = "open" THEN s2c \o frames ELSE s2c

ServerAttaches ==
    /\ srv = "intro"
    /\ request # << >>
    /\ LET w == opty_ring_snapshot_window(ring, request[1])
       IN  Deliver(<<Welcome, Stream("REPLAY", w.from_seq, w.data, w.base_seq)>>)
    /\ srv' = "live"
    /\ request' = << >>
    /\ UNCHANGED <<server_vars, link, breaks, client_vars>>

ServerPrints(n) ==
    /\ up
    /\ ring.next_seq + n <= MaxSeq
    /\ LET data == Positions(ring.next_seq, n)
       IN  /\ ring' = opty_ring_append(ring, data)
           /\ IF srv = "live" THEN Deliver(<<Stream("STDOUT", ring.next_seq, data, ring.base_seq)>>)
                              ELSE UNCHANGED s2c
    /\ UNCHANGED <<up, epoch, srv, link, request, breaks, client_vars>>

\* The server ends this connection: with an ERROR, because a send to it
\* failed, or because the server exits.
Disconnect(frames) ==
    /\ Deliver(frames)
    /\ srv' = "none"
    /\ request' = << >>
    /\ link' = IF link = "open" THEN "eof" ELSE link

CountBreak == breaks < MaxBreaks /\ breaks' = breaks + 1

ServerRejects ==
    /\ srv = "intro"
    /\ request # << >>
    /\ CountBreak
    /\ Disconnect(<<Error>>)
    /\ UNCHANGED <<server_vars, client_vars>>

ServerDrops ==
    /\ srv = "live"
    /\ CountBreak
    /\ Disconnect(<< >>)
    /\ UNCHANGED <<server_vars, client_vars>>

ServerExits ==
    /\ up
    /\ up' = FALSE
    /\ Disconnect(<< >>)
    /\ UNCHANGED <<epoch, ring, breaks, client_vars>>

\* The supervisor of systemd/0pty-server.service, or "0pty restart".
ServerRestarts ==
    /\ ~up
    /\ epoch < MaxEpoch
    /\ up' = TRUE
    /\ epoch' = epoch + 1
    /\ ring' = opty_ring_init
    /\ UNCHANGED <<net_vars, client_vars>>

LinkBreaks ==
    /\ link \in {"open", "eof"}
    /\ CountBreak
    /\ link' = "broken"
    /\ \E k \in 0 .. Len(s2c) : s2c' = SubSeq(s2c, 1, k)
    /\ request' = << >>
    /\ srv' = "none"
    /\ UNCHANGED <<server_vars, client_vars>>

-----------------------------------------------------------------------------
(***************************************************************************)
(* run_client_endpoint.                                                    *)
(***************************************************************************)
ExitWith(code) == cpc' = "exit" /\ status' = code

\* A failed connect() or session: again, or give up.
RetryOrExit == IF Retry THEN cpc' = "connect" /\ UNCHANGED status ELSE ExitWith(1)

Terminated ==
    /\ cpc = "connect"
    /\ g_terminate_pending
    /\ ExitWith(0)
    /\ UNCHANGED <<server_vars, net_vars, have_connected_once, g_terminate_pending, user_vars, replayed>>

Connect ==
    /\ cpc = "connect"
    /\ ~g_terminate_pending
    /\ up
    /\ link' = "open"
    /\ srv' = "intro"
    /\ cpc' = "intro"
    /\ UNCHANGED <<server_vars, s2c, request, breaks, have_connected_once, g_terminate_pending, status,
                   user_vars, replayed>>

ConnectFails ==
    /\ cpc = "connect"
    /\ ~g_terminate_pending
    /\ ~up
    /\ RetryOrExit
    /\ UNCHANGED <<server_vars, net_vars, have_connected_once, g_terminate_pending, user_vars, replayed>>

\* run_session returned and the socket is closed.
SessionOver ==
    /\ have_connected_once' = TRUE
    /\ link' = "none"
    /\ s2c' = << >>
    /\ request' = << >>
    /\ srv' = "none"
    /\ replayed' = NoFrame
    /\ UNCHANGED <<server_vars, breaks, g_terminate_pending, user_vars>>

\* session_rc == 0 and session_rc > 0; session_rc < 0 is ShowError.
SessionDone == ExitWith(0) /\ SessionOver
SessionFailed ==
    /\ IF g_terminate_pending THEN ExitWith(0) ELSE RetryOrExit
    /\ SessionOver

-----------------------------------------------------------------------------
(***************************************************************************)
(* run_session and process_server_frame.                                   *)
(***************************************************************************)
OnTerminate ==
    /\ cpc # "exit"
    /\ g_terminate_pending' = TRUE
    /\ UNCHANGED <<server_vars, net_vars, cpc, have_connected_once, status, user_vars, replayed>>

\* HELLO asks for everything, RECONNECT for what follows last_seq.
Ask(seq) ==
    /\ cpc = "intro"
    /\ request' = IF link = "open" THEN <<seq>> ELSE << >>
    /\ cpc' = "poll"
    /\ UNCHANGED <<server_vars, srv, link, s2c, breaks, have_connected_once, g_terminate_pending, status,
                   user_vars, replayed>>

\* Faulty variant: HELLO every time.
SendIntro_AlwaysHello == Ask(0)

SendIntro == Ask(IF have_connected_once THEN last_seq ELSE 0)

\* The intro, a RESIZE or STDIN cannot be sent.
SendFails ==
    /\ cpc \in {"intro", "poll"}
    /\ link \in {"eof", "broken"}
    /\ SessionFailed

\* End of standard input, or a pending termination.
Detach ==
    /\ cpc = "poll"
    /\ SessionDone

ReceiveWelcome ==
    /\ cpc = "poll"
    /\ s2c # << >>
    /\ Head(s2c).type = "WELCOME"
    /\ s2c' = Tail(s2c)
    /\ UNCHANGED <<server_vars, srv, link, request, breaks, client_vars>>

FrameEnd(f) == f.seq + Len(f.data)

\* The data is shown, last_seq advanced, and only then the ACK is sent.
Show(f, seq) ==
    /\ shown' = shown \o [i \in 1 .. Len(f.data) |-> <<f.epoch, f.data[i]>>]
    /\ last_seq' = IF seq > last_seq THEN seq ELSE last_seq

ReceiveStream(seq) ==
    /\ cpc = "poll"
    /\ s2c # << >>
    /\ Head(s2c).type \in {"REPLAY", "STDOUT"}
    /\ Show(Head(s2c), seq)
    /\ replayed' = IF Head(s2c).type = "REPLAY" THEN Head(s2c) ELSE replayed
    /\ s2c' = Tail(s2c)
    /\ cpc' = "ack"
    /\ UNCHANGED <<server_vars, srv, link, request, breaks, have_connected_once, g_terminate_pending,
                   status>>

\* Faulty variants: last_seq is the position of the frame, or one too far.
ShowFrame_Start == ReceiveStream(Head(s2c).seq)
ShowFrame_Beyond == ReceiveStream(FrameEnd(Head(s2c)) + 1)

ShowFrame == ReceiveStream(FrameEnd(Head(s2c)))

SendAck ==
    /\ cpc = "ack"
    /\ cpc' = "poll"
    /\ UNCHANGED <<server_vars, net_vars, have_connected_once, g_terminate_pending, status, user_vars,
                   replayed>>

\* The test of g_terminate_pending is left to run_client_endpoint.
AckFails ==
    /\ cpc = "ack"
    /\ link \in {"eof", "broken"}
    /\ RetryOrExit
    /\ SessionOver

\* An ERROR frame, or output that cannot be written.
ShowError ==
    /\ cpc = "poll"
    /\ s2c # << >>
    /\ Head(s2c).type # "WELCOME"
    /\ ExitWith(IF g_terminate_pending THEN 0 ELSE 1)
    /\ SessionOver

\* A clean end of file is the end of the client, also with --retry.
ReceiveEof ==
    /\ cpc = "poll"
    /\ s2c = << >>
    /\ link = "eof"
    /\ SessionDone

\* Faulty variant: an error of the connection is taken for EINTR.
ReceiveFails_Again == cpc = "poll" /\ s2c = << >> /\ link = "broken" /\ UNCHANGED vars

ReceiveFails ==
    /\ cpc = "poll"
    /\ s2c = << >>
    /\ link = "broken"
    /\ SessionFailed

-----------------------------------------------------------------------------
ServerAnswers == ServerAttaches \/ ServerRejects

ClientStep == \/ Terminated \/ Connect \/ ConnectFails \/ SendIntro
              \/ ReceiveWelcome \/ ShowFrame \/ SendAck \/ ShowError
              \/ ReceiveEof \/ ReceiveFails

Next == \/ ServerAnswers
        \/ \E n \in 1 .. MaxChunk : ServerPrints(n)
        \/ ServerDrops \/ ServerExits \/ ServerRestarts \/ LinkBreaks
        \/ ClientStep \/ SendFails \/ AckFails \/ Detach \/ OnTerminate

Spec == Init /\ [][Next]_vars

(***************************************************************************)
(* Fairness: the client runs, a listening server answers an intro.         *)
(* Nothing is assumed of the program, the network, the user or the         *)
(* supervisor.                                                             *)
(***************************************************************************)
FairSpec == Spec /\ WF_vars(ClientStep) /\ WF_vars(ServerAnswers)

-----------------------------------------------------------------------------
(***************************************************************************)
(* Properties.                                                             *)
(***************************************************************************)

\* The shape of the client, with last_seq never beyond what a server printed.
TypeOK ==
    /\ up \in BOOLEAN
    /\ epoch \in 1 .. MaxEpoch
    /\ ring \in Rings
    /\ srv \in {"none", "intro", "live"}
    /\ link \in {"none", "open", "eof", "broken"}
    /\ Len(request) <= 1
    /\ breaks \in 0 .. MaxBreaks
    /\ cpc \in {"connect", "intro", "poll", "ack", "exit"}
    /\ last_seq \in 0 .. MaxSeq
    /\ have_connected_once \in BOOLEAN
    /\ g_terminate_pending \in BOOLEAN
    /\ status \in {0, 1}

\* However often the connection breaks, and wherever in the stream, no byte
\* of output is shown twice.
ShownOnce == \A i, j \in DOMAIN shown : shown[i] = shown[j] => i = j

\* "Sends that on reconnect": while it is the output of one server run, what
\* is shown next is what follows, except where a reconnect came so late that
\* the ring had dropped the bytes between.
NoGap == [][shown' # shown =>
    LET f == Head(s2c)
        OneRun == \A i \in DOMAIN shown : shown[i][1] = f.epoch
    IN  OneRun => \/ f.seq = last_seq
                  \/ f.type = "REPLAY" /\ f.seq = f.base /\ last_seq < f.base]_vars

\* "Reconnecting clients can catch up on recent output": once the replay is
\* shown, so is everything that the server's ring held, now or earlier.
CatchesUp == replayed # NoFrame =>
    \A p \in replayed.base .. FrameEnd(replayed) - 1 :
        \E i \in DOMAIN shown : shown[i] = <<replayed.epoch, p>>

\* A client that stays gets to the end of the output while there is a server
\* (beyond it, if it has seen more of an earlier run).
EventuallyCurrent == <>[](cpc = "exit" \/ ~up \/ last_seq >= ring.next_seq)
=============================================================================
