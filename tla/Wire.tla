-------------------------------- MODULE Wire --------------------------------
(***************************************************************************)
(* Frames on a TCP connection (src/protocol.c): opty_send_frame writes a   *)
(* length prefix, a type and a payload with as many writev() calls as the  *)
(* socket makes necessary, opty_recv_frame_limited collects them with as   *)
(* many read() calls.  One direction of one connection is modelled, from   *)
(* the client to the server or from the server to the client, in bytes and *)
(* with a socket buffer that takes and gives as many of them as it likes.  *)
(*                                                                         *)
(* Two threads of the server send on a connection, which is what write_mu  *)
(* is for; the client has one thread.  The connection may be closed (what  *)
(* was written still arrives) or reset (it does not) between any two bytes.*)
(* A read() or write() that a signal interrupts is repeated: no step.      *)
(*                                                                         *)
(* Fanout and Reconnect use what this module shows: a frame is sent in one *)
(* step or not at all, and frames arrive whole and in order.               *)
(***************************************************************************)
EXTENDS Messages, FiniteSets

CONSTANTS
    PrefixLen,  \* the bytes of a frame's length: 4
    Thread,     \* the sending threads
    None,       \* the owner of the mutex when nobody holds it
    ToServer,   \* the messages a client may send after its first one
    Intro,      \* the messages a client may begin with
    ToClient,   \* the messages a server may send
    SockCap,    \* what the socket buffers hold
    MaxSends    \* bound on the messages of a connection

ASSUME PrefixAssumption == PrefixLen \in Nat /\ MaxFrame < Power[PrefixLen]
ASSUME ThreadAssumption == None \notin Thread /\ Thread # {}
ASSUME BoundsAssumption == SockCap \in Nat \ {0} /\ MaxSends \in Nat

ASSUME MessageAssumption == Intro \subseteq FirstMessage /\ ToServer \cup ToClient \subseteq LaterMessage

Message == ToServer \cup Intro \cup ToClient

ASSUME NoneAssumption == None \notin Message

OPTY_VERSION == 1

VARIABLES
    sender,     \* "client" or "server"
    version,    \* the sender's OPTY_VERSION, of which the receiver's is 1
    iov,        \* what a thread's writev() loop has still to write
    msg,        \* the message it is sending, or None
    write_mu,   \* the thread that holds the connection's write_mu, or None
    begun,      \* how many sends were begun
    conn,       \* "open", "closed" or "reset"
    chan,       \* the bytes written and not read
    want,       \* what the receiver reads: "prefix", "type" or "payload"
    len,        \* wire_len - 1, once the prefix is read
    type,       \* the type, once it is read
    buf,        \* what opty_read_full has read so far
    sent,       \* the messages whose send has succeeded
    cut,        \* ghost: whether a send has failed in the middle of its frame
    got,        \* the messages received
    ended       \* "open", then how the receiver left: at the end of file,
                \* "lost", or because of a frame that is too long ("refused"),
                \* that no parser takes ("malformed"), or for want of memory

send_vars == <<iov, msg, write_mu, begun, sent, cut>>
recv_vars == <<want, len, type, buf, got, ended>>
vars == <<sender, version, send_vars, conn, chan, recv_vars>>

Init ==
    /\ sender \in {"client", "server"}
    /\ version \in {OPTY_VERSION, OPTY_VERSION + 1}
    /\ iov = [t \in Thread |-> << >>]
    /\ msg = [t \in Thread |-> None]
    /\ write_mu = None
    /\ begun = 0
    /\ conn = "open"
    /\ chan = << >>
    /\ want = "prefix"
    /\ len = 0
    /\ type = 0
    /\ buf = << >>
    /\ sent = << >>
    /\ cut = FALSE
    /\ got = << >>
    /\ ended = "open"

-----------------------------------------------------------------------------
(***************************************************************************)
(* opty_send_frame and opty_writev_full.                                   *)
(***************************************************************************)

\* What a sender may send next.  The client's first message is its intro.
Sends == IF sender = "server" THEN ToClient ELSE IF begun = 0 THEN Intro ELSE ToServer

\* opty_send_* is called.  A message that is too long is refused before
\* anything is written, so it is as if it had not been sent.
BeginSend(t, m) ==
    /\ conn = "open"
    /\ begun < MaxSends
    /\ msg[t] = None
    /\ sender = "client" => \A u \in Thread : msg[u] = None
    /\ Sendable(version, m)
    /\ msg' = [msg EXCEPT ![t] = m]
    /\ begun' = begun + 1
    /\ UNCHANGED <<sender, version, iov, write_mu, sent, cut, conn, chan, recv_vars>>

\* The three (two, if the payload is empty) parts that writev() is given.
Iov(m) == LET p == Payload(version, m)
          IN  <<Put(PrefixLen, Len(p) + 1), <<m.type>>>> \o (IF p = << >> THEN << >> ELSE <<p>>)

\* write_mu is taken and writev() is called for the first time.
SendLock(t) ==
    /\ msg[t] # None
    /\ iov[t] = << >>
    /\ write_mu = None
    /\ write_mu' = t
    /\ iov' = [iov EXCEPT ![t] = Iov(msg[t])]
    /\ UNCHANGED <<sender, version, msg, begun, sent, cut, conn, chan, recv_vars>>

\* How many bytes the first k parts have, and all parts together.
Before(v, k) == LET size[i \in 0 .. Len(v)] == IF i = 0 THEN 0 ELSE size[i - 1] + Len(v[i])
                IN  size[k]
Total(v) == Before(v, Len(v))

\* The bytes of the parts, and the first n of them.
Flat(v) == LET all[i \in 0 .. Len(v)] == IF i = 0 THEN << >> ELSE all[i - 1] \o v[i]
           IN  all[Len(v)]
Gather(v, n) == SubSeq(Flat(v), 1, n)

\* After writev() has taken n bytes: the parts that are through are skipped
\* and the one it stopped in is shortened.
Advance(v, n) ==
    LET through == {k \in 0 .. Len(v) : Before(v, k) <= n}
        done    == CHOOSE k \in through : \A j \in through : j <= k
    IN  IF done = Len(v) THEN << >>
        ELSE <<From(v[done + 1], n - Before(v, done))>> \o SubSeq(v, done + 2, Len(v))

\* writev() takes n bytes.  With the last of them the send has succeeded and
\* the mutex is given back.
Write(t, n, after) ==
    /\ iov[t] # << >>
    /\ conn = "open"
    /\ n <= Total(iov[t])
    /\ Len(chan) + n <= SockCap
    /\ chan' = chan \o Gather(iov[t], n)
    /\ iov' = [iov EXCEPT ![t] = Advance(@, n)]
    /\ IF iov'[t] = << >>
       THEN /\ sent' = Append(sent, msg[t])
            /\ msg' = [msg EXCEPT ![t] = None]
            /\ write_mu' = after
       ELSE UNCHANGED <<sent, msg, write_mu>>
    /\ UNCHANGED <<sender, version, begun, cut, conn, recv_vars>>

\* Faulty variant: the mutex is kept.
Writev_KeepsMutex(t, n) == Write(t, n, t)

Writev(t, n) == Write(t, n, None)

\* Part of the thread's frame is written.
HalfSent(t) == iov[t] # << >> /\ Total(iov[t]) < Total(Iov(msg[t]))

\* A frame is partly written, or was left so.
Half == cut \/ \E t \in Thread : HalfSent(t)

\* The connection is gone: the send fails, now or after the mutex was taken.
WriteFails(t) ==
    /\ conn # "open"
    /\ msg[t] # None
    /\ iov' = [iov EXCEPT ![t] = << >>]
    /\ msg' = [msg EXCEPT ![t] = None]
    /\ write_mu' = IF write_mu = t THEN None ELSE write_mu
    /\ cut' = (cut \/ HalfSent(t))
    /\ UNCHANGED <<sender, version, begun, sent, conn, chan, recv_vars>>

-----------------------------------------------------------------------------
(***************************************************************************)
(* The connection.                                                         *)
(***************************************************************************)

\* shutdown() by another thread, or the sender's process ends.
Close ==
    /\ conn = "open"
    /\ conn' = "closed"
    /\ UNCHANGED <<sender, version, send_vars, chan, recv_vars>>

Reset ==
    /\ conn # "reset"
    /\ conn' = "reset"
    /\ chan' = << >>
    /\ UNCHANGED <<sender, version, send_vars, recv_vars>>

-----------------------------------------------------------------------------
(***************************************************************************)
(* opty_recv_frame_limited and opty_read_full.                             *)
(***************************************************************************)

\* The server takes a first frame of at most MaxUnauth bytes.
PayloadCap == IF sender = "client" /\ got = << >> THEN MaxUnauth ELSE MaxFrame - 1

Need == CASE want = "prefix" -> PrefixLen
          [] want = "type" -> 1
          [] want = "payload" -> len

\* read() returns n bytes.
Read(n) ==
    /\ ended = "open"
    /\ n <= Len(chan) /\ Len(buf) + n <= Need
    /\ chan' = From(chan, n)
    /\ UNCHANGED <<sender, version, send_vars>>

Bytes(n) == buf \o SubSeq(chan, 1, n)

\* The receiver gives up and closes its socket.
Leave(how) ==
    /\ ended' = how
    /\ conn' = "reset"
    /\ UNCHANGED got

ReadPart(n) ==
    /\ Read(n)
    /\ Len(Bytes(n)) < Need
    /\ buf' = Bytes(n)
    /\ UNCHANGED <<conn, want, len, type, got, ended>>

TooLong(wire_len) == wire_len < 1 \/ wire_len > MaxFrame \/ wire_len - 1 > PayloadCap

ReadPrefix(n) ==
    /\ want = "prefix"
    /\ Read(n)
    /\ Len(Bytes(n)) = Need
    /\ buf' = << >>
    /\ IF TooLong(Get(Bytes(n)))
       THEN Leave("refused") /\ UNCHANGED <<want, len>>
       ELSE /\ want' = "type"
            /\ len' = Get(Bytes(n)) - 1
            /\ UNCHANGED <<conn, got, ended>>
    /\ UNCHANGED type

\* A frame is complete; run_session or client_thread_main parses it.
Deliver(t, p) ==
    LET m == Parse(OPTY_VERSION, t, p)
    IN  /\ want' = "prefix" /\ len' = 0 /\ type' = 0 /\ buf' = << >>
        /\ IF m = Malformed THEN Leave("malformed")
           ELSE got' = Append(got, m) /\ UNCHANGED <<conn, ended>>

ReadType ==
    /\ want = "type"
    /\ Read(1)
    /\ \/ len = 0 /\ Deliver(chan[1], << >>)
       \/ /\ len > 0
          /\ want' = "payload"
          /\ type' = chan[1]
          /\ UNCHANGED <<conn, len, buf, got, ended>>
       \/ len > 0 /\ Leave("no_memory") /\ UNCHANGED <<want, len, type, buf>>

ReadPayload(n) ==
    /\ want = "payload"
    /\ Read(n)
    /\ Len(Bytes(n)) = Need
    /\ Deliver(type, Bytes(n))

\* read() returns 0.  Nothing of a frame may have been read for this to be
\* the end of the session and not a lost connection.
AtEof(clean) ==
    /\ ended = "open"
    /\ conn = "closed"
    /\ chan = << >>
    /\ Leave(IF clean THEN "eof" ELSE "lost")
    /\ UNCHANGED <<sender, version, send_vars, chan, want, len, type, buf>>

\* Faulty variant: the 0 that opty_read_full returns for the type or the
\* payload is taken for the end of the session as well.
ReadEof_AnyField == AtEof(buf = << >>)

ReadEof == AtEof(want = "prefix" /\ buf = << >>)

ReadFails ==
    /\ ended = "open"
    /\ conn = "reset"
    /\ Leave("lost")
    /\ UNCHANGED <<sender, version, send_vars, chan, want, len, type, buf>>

-----------------------------------------------------------------------------
Received == \/ \E n \in 1 .. SockCap : ReadPart(n) \/ ReadPrefix(n) \/ ReadPayload(n)
            \/ ReadType \/ ReadEof \/ ReadFails

Sending(t) == \/ SendLock(t) \/ WriteFails(t)
              \/ \E n \in 1 .. SockCap : Writev(t, n)

\* The receiver is through and no send is left.
Over == ended # "open" /\ (\A t \in Thread : msg[t] = None) /\ UNCHANGED vars

Next == \/ \E t \in Thread : Sending(t) \/ \E m \in Sends : BeginSend(t, m)
        \/ Close \/ Reset
        \/ Received
        \/ Over

Spec == Init /\ [][Next]_vars

\* Fairness: a thread that is sending goes on, and so does the receiver.
\* Nobody has to send, and the connection may stay open.
FairSpec == Spec /\ WF_vars(Received) /\ \A t \in Thread : WF_vars(Sending(t))

-----------------------------------------------------------------------------
(***************************************************************************)
(* Properties.                                                             *)
(***************************************************************************)

\* Sender and receiver agree on every limit and layout: what opty_send_* lets
\* through, opty_recv_frame_limited and opty_parse_* accept, the longest first
\* frame and the longest frame included.  Only another version is turned away.
NeverRefused == ended \in {"refused", "malformed"} => version # OPTY_VERSION

\* The frames implement the queue of messages, although both ends go byte by
\* byte, two threads send, and the connection may end in the middle of a
\* frame: nothing is torn, mixed, reordered or repeated, and an end of file
\* is only reported to a receiver that has everything.
Outcome == IF ended \in {"open", "eof"} THEN ended ELSE "lost"
Channel == INSTANCE FrameChannel
              WITH Message <- Message, sent <- sent, got <- got, outcome <- Outcome,
                   half <- Half
ImplementsChannel == Channel!ChannelSpec

\* A message whose send has begun arrives, unless the connection is lost: a
\* full socket or a wait for write_mu holds it up, never for good.
Arrives == \A k \in 1 .. MaxSends :
    begun >= k ~> Len(got) >= k \/ conn # "open"
=============================================================================
