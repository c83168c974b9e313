-------------------------- MODULE ReconnectProofs --------------------------
(***************************************************************************)
(* What a client shows across its connections, for every size of the ring, *)
(* any number of breaks and restarts and any output: nothing twice, and    *)
(* nothing left out of one server run but what the ring has dropped.       *)
(*                                                                         *)
(* The invariant relates the three places a byte can be in: the ring, the  *)
(* frames under way and what is shown.  Frames are in order and of one     *)
(* server run (InOrder, Queue), each begins behind everything of its run   *)
(* that is shown (FramesOK), and last_seq, with which the client asks for  *)
(* the rest, is behind all that is shown and not behind the ring's end as  *)
(* long as the client has seen one run only (Shown).                       *)
(***************************************************************************)
EXTENDS Reconnect, RingOpsProofs

StreamFrames == [type : {"REPLAY", "STDOUT"}, seq : Nat, data : Seq(Nat), base : Nat, epoch : Nat]
Frames == {Welcome, Error} \cup StreamFrames

IsStream(f) == f.type \in {"REPLAY", "STDOUT"}

\* Nothing of another server run is shown.
OneRun(e) == \A i \in DOMAIN shown : shown[i][1] = e

FrameType ==
    /\ s2c \in Seq(Frames)
    /\ request \in Seq(Nat)
    /\ shown \in Seq(Nat \X Nat)

RingFaithful == Faithful(ring, MaxSeq)

\* What a frame carries, and that it comes after what is shown of its run.
FrameOK(f) ==
    /\ f.epoch \in 1 .. epoch
    /\ f.data = Positions(f.seq, Len(f.data))
    /\ FrameEnd(f) <= MaxSeq
    /\ f.epoch = epoch => FrameEnd(f) <= ring.next_seq
    /\ f.base < FrameEnd(f) \/ FrameEnd(f) = 0
    /\ \A i \in DOMAIN shown :
          shown[i][1] <= f.epoch /\ (shown[i][1] = f.epoch => shown[i][2] < f.seq)

FramesOK == \A k \in DOMAIN s2c : IsStream(s2c[k]) => FrameOK(s2c[k])

InOrder == \A j, k \in DOMAIN s2c :
    j < k /\ IsStream(s2c[j]) /\ IsStream(s2c[k]) =>
        s2c[j].epoch = s2c[k].epoch /\ FrameEnd(s2c[j]) <= s2c[k].seq

\* WELCOME, REPLAY, STDOUT, STDOUT, ..., of which a first part is received.
Queue == \A k \in DOMAIN s2c : k > 1 =>
    /\ IsStream(s2c[k])
    /\ s2c[k].type = "STDOUT" => IsStream(s2c[k - 1]) /\ FrameEnd(s2c[k - 1]) = s2c[k].seq
    /\ s2c[k].type = "REPLAY" => s2c[k - 1].type = "WELCOME"

\* The first frame of output to be shown continues what is shown, or begins
\* as early as the ring allows.
Joins(f) == OneRun(f.epoch) =>
    f.seq = last_seq \/ (f.type = "REPLAY" /\ f.seq = f.base /\ last_seq < f.base)

Joined == \A k \in DOMAIN s2c :
    IsStream(s2c[k]) /\ (k > 1 => s2c[k - 1].type = "WELCOME") => Joins(s2c[k])

\* An attached client has been sent all the output, and shown what is not
\* under way.
Attached == srv = "live" =>
    /\ link = "open"
    /\ s2c = << >> => (OneRun(epoch) => last_seq = ring.next_seq)
    /\ s2c # << >> => /\ IsStream(s2c[Len(s2c)])
                      /\ s2c[Len(s2c)].epoch = epoch
                      /\ FrameEnd(s2c[Len(s2c)]) = ring.next_seq

Session ==
    /\ srv = "intro" => link = "open" /\ s2c = << >>
    /\ request # << >> => srv = "intro" /\ request[1] = last_seq
    /\ link = "none" => s2c = << >> /\ srv = "none"
    /\ link = "open" => srv # "none"
    /\ srv # "none" => up
    /\ cpc \in {"connect", "exit"} => link = "none"
    /\ cpc = "intro" => s2c = << >> /\ request = << >> /\ srv # "live"
    /\ cpc \in {"connect", "intro"} /\ ~have_connected_once => last_seq = 0

Shown ==
    /\ \A i \in DOMAIN shown :
          /\ shown[i][1] <= epoch
          /\ shown[i][2] < last_seq
          /\ shown[i][1] = epoch => shown[i][2] < ring.next_seq
    /\ OneRun(epoch) => last_seq <= ring.next_seq
    /\ shown = << >> => last_seq = 0

ReconnectInv ==
    /\ TypeOK /\ FrameType /\ RingFaithful /\ FramesOK /\ InOrder /\ Queue /\ Joined
    /\ Attached /\ Session /\ Shown /\ ShownOnce

OutputInv == RingFaithful /\ FramesOK /\ InOrder /\ Queue /\ Joined /\ Shown /\ ShownOnce

-----------------------------------------------------------------------------
\* Nothing is printed and nothing shown.
LEMMA ReconnectInit == Init => ReconnectInv
<1> SUFFICES ASSUME Init PROVE ReconnectInv
  OBVIOUS
<1>1. ring \in Rings /\ RingFaithful /\ ring.next_seq = 0
  BY InitFaithful, BoundsAssumption DEF Init, RingFaithful
<1>2. FrameType /\ Len(s2c) = 0 /\ DOMAIN s2c = {} /\ DOMAIN shown = {}
  BY DEF Init, FrameType
<1>3. TypeOK
  <2>1. 1 \in 1 .. MaxEpoch /\ 0 \in 0 .. MaxBreaks /\ 0 \in 0 .. MaxSeq
    BY BoundsAssumption
  <2>2. {up, have_connected_once, g_terminate_pending} \subseteq BOOLEAN
    BY Zenon DEF Init
  <2>3. Len(request) <= 1
    BY DEF Init
  <2> QED
    BY <1>1, <2>1, <2>2, <2>3, Zenon DEF Init, TypeOK
<1> QED
  BY <1>1, <1>2, <1>3 DEF Init, ReconnectInv, FramesOK, InOrder, Queue, Joined, Attached, Session,
       Shown, ShownOnce

\* The client goes on in the queue by a WELCOME, or the connection loses the
\* end of the queue, or all of it: what is left is in order.
LEMMA FramesKept ==
  ASSUME ReconnectInv, UNCHANGED <<epoch, ring, shown, last_seq>>, NEW d \in {0, 1},
         d = 1 => s2c[1].type = "WELCOME",
         s2c' \in Seq(Frames), Len(s2c') + d <= Len(s2c),
         \A k \in 1 .. Len(s2c') : s2c'[k] = s2c[k + d]
  PROVE  OutputInv'
<1>1. /\ s2c \in Seq(Frames) /\ DOMAIN s2c = 1 .. Len(s2c) /\ Len(s2c) \in Nat
      /\ DOMAIN s2c' = 1 .. Len(s2c') /\ Len(s2c') \in Nat
  BY DEF ReconnectInv, FrameType
<1>2. \A k \in DOMAIN s2c' : k + d \in DOMAIN s2c /\ s2c'[k] = s2c[k + d]
  BY <1>1, SMTT(30)
<1>3. RingFaithful' /\ Shown' /\ ShownOnce'
  BY DEF ReconnectInv, RingFaithful, Faithful, Shown, ShownOnce, OneRun
<1>4. FramesOK'
  BY <1>2 DEF ReconnectInv, FramesOK, FrameOK, IsStream, FrameEnd
<1>5. InOrder'
  <2> SUFFICES ASSUME NEW j \in DOMAIN s2c', NEW k \in DOMAIN s2c', j < k,
                      IsStream(s2c'[j]), IsStream(s2c'[k])
               PROVE  s2c'[j].epoch = s2c'[k].epoch /\ FrameEnd(s2c'[j]) <= s2c'[k].seq
    BY DEF InOrder, IsStream, FrameEnd
  <2>1. j + d < k + d
    BY <1>1
  <2> QED
    BY <1>2, <2>1 DEF ReconnectInv, InOrder
<1>6. Queue'
  <2> SUFFICES ASSUME NEW k \in DOMAIN s2c', k > 1
               PROVE  /\ IsStream(s2c'[k])
                      /\ s2c'[k].type = "STDOUT" =>
                            IsStream(s2c'[k - 1]) /\ FrameEnd(s2c'[k - 1]) = s2c'[k].seq
                      /\ s2c'[k].type = "REPLAY" => s2c'[k - 1].type = "WELCOME"
    BY DEF Queue, IsStream, FrameEnd
  <2>1. /\ k - 1 \in DOMAIN s2c' /\ (k - 1) + d = (k + d) - 1 /\ k + d > 1
    BY <1>1
  <2>2. s2c'[k - 1] = s2c[(k + d) - 1]
    BY <1>2, <2>1
  <2> QED
    BY <1>2, <2>1, <2>2 DEF ReconnectInv, Queue
<1>7. Joined'
  <2> SUFFICES ASSUME NEW k \in DOMAIN s2c', IsStream(s2c'[k]), k > 1 => s2c'[k - 1].type = "WELCOME"
               PROVE  Joins(s2c[k + d])
    BY <1>2 DEF Joined, Joins, OneRun, IsStream
  <2>1. k > 1 => k - 1 \in DOMAIN s2c' /\ (k - 1) + d = (k + d) - 1
    BY <1>1
  <2>2. k + d > 1 => s2c[(k + d) - 1].type = "WELCOME"
    <3>1. CASE k > 1
      BY <1>2, <2>1, <3>1
    <3>2. CASE k = 1
      <4>1. d = 1 => (k + d) - 1 = 1
        BY <3>2
      <4> QED BY <3>2, <4>1
    <3> QED BY <1>1, <3>1, <3>2
  <2> QED
    BY <1>2, <2>2 DEF ReconnectInv, Joined
<1> QED
  BY <1>3, <1>4, <1>5, <1>6, <1>7 DEF OutputInv

\* run_session is over and its socket closed.
LEMMA SessionOverInv ==
  ASSUME ReconnectInv, SessionOver, cpc' \in {"connect", "exit"}, status' \in {0, 1}
  PROVE  ReconnectInv'
<1> USE DEF SessionOver, server_vars, user_vars
<1>1. s2c' \in Seq(Frames) /\ Len(s2c') = 0 /\ request' \in Seq(Nat) /\ Len(request') = 0
  OBVIOUS
<1>2. OutputInv'
  <2>1. Len(s2c) \in Nat
    BY DEF ReconnectInv, FrameType
  <2>2. Len(s2c') + 0 <= Len(s2c) /\ \A k \in 1 .. Len(s2c') : s2c'[k] = s2c[k + 0]
    BY <1>1, <2>1
  <2> QED
    BY <1>1, <2>2, FramesKept
<1>3. TypeOK' /\ FrameType'
  BY <1>1 DEF ReconnectInv, TypeOK, FrameType
<1>4. Attached' /\ Session'
  BY DEF Attached, Session
<1> QED
  BY <1>2, <1>3, <1>4 DEF ReconnectInv, OutputInv

\* The sessions that end: the connection failed or was ended, the user left,
\* or the output cannot be shown.
LEMMA SessionEnds ==
  ASSUME ReconnectInv,
         SendFails \/ AckFails \/ Detach \/ ShowError \/ ReceiveEof \/ ReceiveFails
  PROVE  ReconnectInv'
<1>1. SessionOver
  BY DEF SendFails, AckFails, Detach, ShowError, ReceiveEof, ReceiveFails, SessionDone, SessionFailed
<1>2. cpc' \in {"connect", "exit"} /\ (status' = status \/ status' \in {0, 1})
  BY DEF SendFails, AckFails, Detach, ShowError, ReceiveEof, ReceiveFails, SessionDone, SessionFailed,
       RetryOrExit, ExitWith
<1>3. status' \in {0, 1}
  BY <1>2 DEF ReconnectInv, TypeOK
<1> QED
  BY <1>1, <1>2, <1>3, SessionOverInv

\* A step that leaves the queue and the output alone.
LEMMA QueueKept ==
  ASSUME ReconnectInv, UNCHANGED <<epoch, ring, shown, last_seq, s2c>>
  PROVE  OutputInv' /\ s2c' \in Seq(Frames) /\ shown' \in Seq(Nat \X Nat)
<1>1. s2c' \in Seq(Frames) /\ shown' \in Seq(Nat \X Nat) /\ Len(s2c) \in Nat
  BY DEF ReconnectInv, FrameType
<1>2. Len(s2c') + 0 <= Len(s2c) /\ \A k \in 1 .. Len(s2c') : s2c'[k] = s2c[k + 0]
  BY <1>1
<1> QED
  BY <1>1, <1>2, FramesKept

\* The steps between sessions, and the signals.
LEMMA ControlSteps ==
  ASSUME ReconnectInv, Terminated \/ Connect \/ ConnectFails \/ OnTerminate \/ SendAck
  PROVE  ReconnectInv'
<1> USE DEF server_vars, net_vars, user_vars
<1>1. UNCHANGED <<epoch, ring, shown, last_seq, s2c, request, up, breaks, have_connected_once>>
  BY DEF Terminated, Connect, ConnectFails, OnTerminate, SendAck
<1>2. OutputInv' /\ FrameType'
  BY <1>1, QueueKept DEF ReconnectInv, FrameType
<1>3. /\ cpc' \in {"connect", "intro", "poll", "ack", "exit"} /\ status' \in {0, 1}
      /\ g_terminate_pending' \in BOOLEAN
      /\ srv' \in {"none", "intro", "live"} /\ link' \in {"none", "open", "eof", "broken"}
  BY DEF Terminated, Connect, ConnectFails, OnTerminate, SendAck, ExitWith, RetryOrExit, ReconnectInv,
       TypeOK
<1>4. TypeOK'
  BY <1>1, <1>3 DEF ReconnectInv, TypeOK
<1>5. Attached' /\ Session'
  <2>1. CASE Connect
    BY <1>1, <2>1 DEF Connect, ReconnectInv, Attached, Session
  <2>2. CASE Terminated \/ ConnectFails \/ OnTerminate \/ SendAck
    <3>1. UNCHANGED <<srv, link>>
      BY <2>2 DEF Terminated, ConnectFails, OnTerminate, SendAck
    <3>2. Attached'
      BY <1>1, <3>1 DEF ReconnectInv, Attached, OneRun, IsStream, FrameEnd
    <3>3. \/ cpc' = cpc
          \/ cpc = "connect" /\ cpc' \in {"connect", "exit"}
          \/ cpc = "ack" /\ cpc' = "poll"
      BY <2>2 DEF Terminated, ConnectFails, OnTerminate, SendAck, ExitWith, RetryOrExit
    <3>4. Session'
      BY <1>1, <3>1, <3>3 DEF ReconnectInv, Session
    <3> QED BY <3>2, <3>4
  <2> QED
    BY <2>1, <2>2
<1> QED
  BY <1>2, <1>4, <1>5 DEF ReconnectInv, OutputInv

\* The client asks for what follows last_seq, which is 0 the first time.
LEMMA SendIntroInv == ASSUME ReconnectInv, SendIntro PROVE ReconnectInv'
<1> USE DEF server_vars, user_vars
<1>1. /\ cpc = "intro" /\ cpc' = "poll"
      /\ request' = IF link = "open" THEN <<last_seq>> ELSE << >>
      /\ UNCHANGED <<epoch, ring, shown, last_seq, s2c, up, srv, link, breaks, have_connected_once,
                     g_terminate_pending, status>>
  BY DEF SendIntro, Ask, ReconnectInv, Session
<1>2. request' \in Seq(Nat) /\ Len(request') <= 1
  BY <1>1 DEF ReconnectInv, TypeOK
<1>3. OutputInv' /\ FrameType'
  BY <1>1, <1>2, QueueKept DEF FrameType
<1>4. TypeOK'
  BY <1>1, <1>2 DEF ReconnectInv, TypeOK
<1>5. Attached'
  BY <1>1 DEF ReconnectInv, Session, Attached
<1>6. Session'
  <2>1. link = "open" => srv = "intro"
    BY <1>1 DEF ReconnectInv, TypeOK, Session
  <2> QED
    BY <1>1, <2>1 DEF ReconnectInv, Session
<1> QED
  BY <1>3, <1>4, <1>5, <1>6 DEF ReconnectInv, OutputInv

\* The WELCOME is taken from the queue.
LEMMA ReceiveWelcomeInv == ASSUME ReconnectInv, ReceiveWelcome PROVE ReconnectInv'
<1> USE DEF server_vars, user_vars, client_vars
<1>1. /\ cpc = "poll" /\ s2c # << >> /\ s2c \in Seq(Frames)
      /\ s2c[1].type = "WELCOME" /\ s2c' = Tail(s2c)
      /\ UNCHANGED <<epoch, ring, shown, last_seq, up, srv, link, request, breaks, cpc,
                     have_connected_once, g_terminate_pending, status>>
  BY DEF ReceiveWelcome, ReconnectInv, FrameType
<1>2. /\ s2c' \in Seq(Frames) /\ Len(s2c') + 1 = Len(s2c) /\ Len(s2c') \in Nat
      /\ \A k \in 1 .. Len(s2c') : s2c'[k] = s2c[k + 1]
  BY <1>1
<1>3. OutputInv'
  BY <1>1, <1>2, FramesKept
<1>4. TypeOK' /\ FrameType'
  BY <1>1, <1>2 DEF ReconnectInv, TypeOK, FrameType
<1>5. Session'
  BY <1>1, <1>2 DEF ReconnectInv, Session
<1>6. Attached'
  <2> SUFFICES ASSUME srv = "live" PROVE Attached'
    BY <1>1 DEF Attached
  <2>1. link = "open" /\ IsStream(s2c[Len(s2c)])
        /\ s2c[Len(s2c)].epoch = epoch /\ FrameEnd(s2c[Len(s2c)]) = ring.next_seq
    BY <1>1 DEF ReconnectInv, Attached
  <2>2. Len(s2c) # 1
    BY <1>1, <2>1 DEF IsStream
  <2>3. s2c' # << >> /\ s2c'[Len(s2c')] = s2c[Len(s2c)]
    BY <1>2, <2>2
  <2> QED
    BY <1>1, <2>1, <2>3 DEF Attached, IsStream, FrameEnd
<1> QED
  BY <1>3, <1>4, <1>5, <1>6 DEF ReconnectInv, OutputInv

\* The connection is ended, by the server or on the way: the server's thread
\* is gone and the request lost.
LEMMA LinkEnds ==
  ASSUME ReconnectInv, ServerDrops \/ ServerExits \/ LinkBreaks
  PROVE  ReconnectInv'
<1> USE DEF server_vars, user_vars, client_vars
<1>1. /\ srv' = "none" /\ request' = << >> /\ link' \in {"none", "eof", "broken"}
      /\ link' = "none" <=> link = "none"
      /\ UNCHANGED <<epoch, ring, shown, last_seq, cpc, have_connected_once, g_terminate_pending, status>>
  BY DEF ServerDrops, ServerExits, LinkBreaks, Disconnect, ReconnectInv, TypeOK
<1>a. up' \in BOOLEAN
  BY Zenon DEF ServerDrops, ServerExits, LinkBreaks, ReconnectInv, TypeOK
<1>b. breaks' \in 0 .. MaxBreaks
  BY BoundsAssumption DEF ServerDrops, ServerExits, LinkBreaks, CountBreak, ReconnectInv, TypeOK
<1>2. s2c \in Seq(Frames) /\ Len(s2c) \in Nat
  BY DEF ReconnectInv, FrameType
<1>3. PICK n \in 0 .. Len(s2c) : s2c' = SubSeq(s2c, 1, n)
  <2>1. CASE LinkBreaks
    BY <2>1 DEF LinkBreaks
  <2>2. CASE ServerDrops \/ ServerExits
    <3>1. s2c' = s2c
      BY <1>2, <2>2 DEF ServerDrops, ServerExits, Disconnect, Deliver
    <3>2. SubSeq(s2c, 1, Len(s2c)) = s2c
      BY <1>2
    <3>3. Len(s2c) \in 0 .. Len(s2c)
      BY <1>2
    <3> QED BY <3>1, <3>2, <3>3, Zenon
  <2> QED BY <2>1, <2>2
<1>4. /\ s2c' \in Seq(Frames) /\ Len(s2c') = n
      /\ \A k \in 1 .. Len(s2c') : s2c'[k] = s2c[k]
      /\ s2c = << >> => s2c' = << >>
  BY <1>2, <1>3
<1>5. OutputInv'
  <2>1. Len(s2c') + 0 <= Len(s2c) /\ \A k \in 1 .. Len(s2c') : s2c'[k] = s2c[k + 0]
    BY <1>2, <1>3, <1>4
  <2> QED BY <1>1, <1>4, <2>1, FramesKept
<1>6. TypeOK' /\ FrameType'
  BY <1>1, <1>a, <1>b, <1>4 DEF ReconnectInv, TypeOK, FrameType
<1>7. Session' /\ Attached'
  BY <1>1, <1>4 DEF ReconnectInv, Session, Attached
<1> QED
  BY <1>5, <1>6, <1>7 DEF ReconnectInv, OutputInv

\* The server answers the intro with an ERROR.
LEMMA ServerRejectsInv == ASSUME ReconnectInv, ServerRejects PROVE ReconnectInv'
<1> USE DEF server_vars, user_vars, client_vars
<1>1. /\ srv = "intro" /\ srv' = "none" /\ request' = << >> /\ link' = "eof"
      /\ cpc # "intro" /\ cpc \notin {"connect", "exit"}
      /\ s2c' = << >> \o <<Error>>
      /\ breaks' \in 0 .. MaxBreaks
      /\ UNCHANGED <<up, epoch, ring, shown, last_seq, cpc, have_connected_once, g_terminate_pending, status>>
  BY BoundsAssumption DEF ServerRejects, Disconnect, Deliver, CountBreak, ReconnectInv, TypeOK, Session
<1>2. s2c' = <<Error>> /\ Len(s2c') = 1 /\ DOMAIN s2c' = {1} /\ s2c'[1].type = "ERROR"
      /\ s2c' \in Seq(Frames)
  <2>1. Error \in Frames /\ Error.type = "ERROR"
    BY DEF Frames, Error
  <2> QED BY <1>1, <2>1
<1>3. FramesOK' /\ InOrder' /\ Queue' /\ Joined'
  BY <1>2 DEF FramesOK, InOrder, Queue, Joined, IsStream
<1>4. RingFaithful' /\ Shown' /\ ShownOnce'
  BY <1>1 DEF ReconnectInv, RingFaithful, Faithful, Shown, ShownOnce, OneRun
<1>5. TypeOK' /\ FrameType'
  BY <1>1, <1>2 DEF ReconnectInv, TypeOK, FrameType
<1>6. Session' /\ Attached'
  BY <1>1 DEF ReconnectInv, Session, Attached
<1> QED
  BY <1>3, <1>4, <1>5, <1>6 DEF ReconnectInv

\* A new server run begins: no connection is open, what is under way and what
\* is shown is of earlier runs.
LEMMA ServerRestartsInv == ASSUME ReconnectInv, ServerRestarts PROVE ReconnectInv'
<1> USE DEF net_vars, user_vars, client_vars
<1>1. /\ ~up /\ up' = TRUE /\ epoch' = epoch + 1 /\ epoch' \in 1 .. MaxEpoch /\ epoch \in 1 .. MaxEpoch
      /\ ring' = opty_ring_init
      /\ UNCHANGED <<srv, link, s2c, request, breaks, shown, last_seq, cpc, have_connected_once,
                     g_terminate_pending, status>>
  BY BoundsAssumption DEF ServerRestarts, ReconnectInv, TypeOK
<1>2. ring' \in Rings /\ Faithful(ring', MaxSeq) /\ ring'.next_seq = 0
  BY <1>1, InitFaithful, BoundsAssumption
<1>3. srv = "none" /\ link # "open" /\ request = << >>
  BY <1>1 DEF ReconnectInv, Session
<1>4. TypeOK' /\ FrameType'
  BY <1>1, <1>2 DEF ReconnectInv, TypeOK, FrameType
<1>5. Session' /\ Attached'
  BY <1>1, <1>3 DEF ReconnectInv, Session, Attached
<1>6. InOrder' /\ Queue' /\ Joined' /\ ShownOnce'
  BY <1>1 DEF ReconnectInv, InOrder, Queue, Joined, Joins, OneRun, ShownOnce, IsStream, FrameEnd
<1>7. FramesOK'
  <2> SUFFICES ASSUME NEW k \in DOMAIN s2c, IsStream(s2c[k])
               PROVE  FrameOK(s2c[k])'
    BY <1>1 DEF FramesOK, IsStream
  <2>1. FrameOK(s2c[k])
    BY DEF ReconnectInv, FramesOK
  <2>2. s2c[k].epoch \in 1 .. epoch' /\ s2c[k].epoch # epoch'
    BY <1>1, <2>1 DEF FrameOK
  <2> QED
    BY <1>1, <2>1, <2>2 DEF FrameOK, FrameEnd
<1>8. Shown'
  <2>1. \A i \in DOMAIN shown : shown[i] \in Nat \X Nat /\ shown[i][1] <= epoch /\ shown[i][2] < last_seq
    BY DEF ReconnectInv, Shown, FrameType
  <2>2. \A i \in DOMAIN shown : shown[i][1] <= epoch' /\ shown[i][1] # epoch'
    BY <1>1, <2>1
  <2>3. OneRun(epoch)' => last_seq = 0
    <3> SUFFICES ASSUME OneRun(epoch)' PROVE last_seq = 0
      OBVIOUS
    <3>1. DOMAIN shown = {}
      BY <1>1, <2>2 DEF OneRun
    <3>2. shown = << >>
      BY <3>1 DEF ReconnectInv, FrameType
    <3> QED BY <3>2 DEF ReconnectInv, Shown
  <2>4. shown = << >> => last_seq = 0
    BY DEF ReconnectInv, Shown
  <2> QED
    BY <1>1, <1>2, <2>1, <2>2, <2>3, <2>4 DEF Shown
<1> QED
  BY <1>2, <1>4, <1>5, <1>6, <1>7, <1>8 DEF ReconnectInv, RingFaithful

\* The intro is answered: the REPLAY begins at the position asked for, or at
\* the nearest one the ring holds.
LEMMA ServerAttachesInv == ASSUME ReconnectInv, ServerAttaches PROVE ReconnectInv'
<1> USE DEF server_vars, user_vars, client_vars
<1>1. /\ srv = "intro" /\ srv' = "live" /\ request' = << >> /\ request[1] = last_seq
      /\ link = "open" /\ s2c = << >> /\ up
      /\ cpc \notin {"connect", "intro", "exit"}
      /\ UNCHANGED <<up, epoch, ring, link, breaks, shown, last_seq, cpc, have_connected_once,
                     g_terminate_pending, status>>
  BY DEF ServerAttaches, ReconnectInv, Session
<1>0. PICK next, base, from, data :
        /\ next = ring.next_seq /\ base = ring.base_seq /\ from = FromSeq(ring, last_seq)
        /\ data = Positions(from, next - from)
  BY Zenon
<1>2. /\ last_seq \in Nat /\ ring \in Rings /\ Faithful(ring, MaxSeq) /\ next \in Nat /\ base \in Nat
      /\ epoch \in Nat /\ epoch \in 1 .. epoch /\ next <= MaxSeq /\ MaxSeq \in Nat
      /\ base < next \/ (next = 0 /\ base = 0)
  BY <1>0, BoundsAssumption DEF ReconnectInv, TypeOK, RingFaithful, Rings, Faithful
<1>3. /\ from \in base .. next
      /\ opty_ring_snapshot_window(ring, last_seq) =
           [base_seq |-> base, from_seq |-> from, next_seq |-> next, data |-> data]
  BY <1>0, <1>2, WindowFaithful, ByteAssumption, Zenon
<1>4. from \in Nat /\ next - from \in Nat /\ data \in Seq(Nat) /\ Len(data) = next - from
      /\ from + Len(data) = next
  <2>1. from \in Nat /\ next - from \in Nat
    BY <1>2, <1>3
  <2>2. data \in Seq(Nat) /\ Len(data) = next - from
    BY <1>0, <2>1, PositionsFacts, Zenon
  <2> QED BY <1>2, <2>1, <2>2
<1>a. PICK R : R = Stream("REPLAY", from, data, base)
  BY Zenon
<1>5. s2c' = << >> \o <<Welcome, R>>
  BY <1>1, <1>3, <1>a DEF ServerAttaches, Deliver, Stream
<1>6. /\ R.type = "REPLAY" /\ R.seq = from /\ R.data = data /\ R.base = base /\ R.epoch = epoch
      /\ R \in StreamFrames
  BY <1>2, <1>4, <1>a DEF Stream, StreamFrames
<1>7. FrameEnd(R) = next
  BY <1>4, <1>6 DEF FrameEnd
<1>8. \A i \in DOMAIN shown :
         shown[i][1] <= epoch /\ (shown[i][1] = epoch => shown[i][2] < from)
  <2> SUFFICES ASSUME NEW i \in DOMAIN shown
               PROVE  shown[i][1] <= epoch /\ (shown[i][1] = epoch => shown[i][2] < from)
    OBVIOUS
  <2>1. shown[i] \in Nat \X Nat /\ shown[i][1] <= epoch /\ shown[i][2] < last_seq
        /\ (shown[i][1] = epoch => shown[i][2] < next)
    BY <1>0 DEF ReconnectInv, Shown, FrameType
  <2> QED
    BY <1>0, <1>2, <2>1 DEF FromSeq
<1>9. OneRun(epoch) => from = last_seq \/ (from = base /\ last_seq < base)
  <2>1. OneRun(epoch) => last_seq <= next
    BY <1>0 DEF ReconnectInv, Shown
  <2> QED
    BY <1>0, <1>2, <2>1 DEF FromSeq
<1>10. FrameOK(R)
  <2>1. R.data = Positions(R.seq, Len(R.data))
    BY <1>0, <1>4, <1>6
  <2> QED
    BY <1>0, <1>2, <1>6, <1>7, <1>8, <2>1 DEF FrameOK
<1>11. Joins(R)
  BY <1>6, <1>9 DEF Joins
<1>12. /\ s2c' \in Seq(Frames) /\ Len(s2c') = 2 /\ DOMAIN s2c' = {1, 2}
       /\ s2c'[1] = Welcome /\ s2c'[2] = R
  <2>1. Welcome \in Frames /\ R \in Frames
    BY <1>6 DEF Frames
  <2>2. s2c' = <<Welcome, R>>
    BY <1>5, <2>1
  <2> QED BY <2>1, <2>2
<1>13. ~IsStream(Welcome) /\ IsStream(R) /\ Welcome.type = "WELCOME"
  BY <1>6 DEF IsStream, Welcome
<1>14. TypeOK' /\ FrameType'
  <2>1. Len(request') <= 1 /\ request' \in Seq(Nat)
    BY <1>1
  <2> QED
    BY <1>1, <1>12, <2>1 DEF ReconnectInv, TypeOK, FrameType
<1>15. FramesOK' /\ Joined'
  <2>1. FrameOK(R)' /\ Joins(R)'
    BY <1>1, <1>10, <1>11 DEF FrameOK, Joins, OneRun, FrameEnd
  <2> QED
    BY <1>12, <1>13, <2>1 DEF FramesOK, Joined, FrameOK, Joins, OneRun, FrameEnd, IsStream
<1>16. InOrder' /\ Queue'
  BY <1>6, <1>12, <1>13 DEF InOrder, Queue, IsStream, FrameEnd
<1>17. RingFaithful' /\ Shown' /\ ShownOnce'
  BY <1>1 DEF ReconnectInv, RingFaithful, Faithful, Shown, ShownOnce, OneRun
<1>18. Attached'
  <2>1. s2c' # << >> /\ s2c'[Len(s2c')] = R
    BY <1>12
  <2> QED
    BY <1>0, <1>1, <1>6, <1>7, <1>13, <2>1 DEF Attached, IsStream, FrameEnd
<1>19. Session'
  BY <1>1, <1>12 DEF ReconnectInv, Session
<1> QED
  BY <1>14, <1>15, <1>16, <1>17, <1>18, <1>19 DEF ReconnectInv

\* A chunk is printed: the ring keeps it, and an attached client is sent it
\* behind all it was sent before.
LEMMA ServerPrintsInv ==
  ASSUME ReconnectInv, NEW n \in 1 .. MaxChunk, ServerPrints(n)
  PROVE  ReconnectInv'
<1> USE DEF server_vars, user_vars, client_vars
<1>0. PICK next, base, data :
        next = ring.next_seq /\ base = ring.base_seq /\ data = Positions(next, n)
  BY Zenon
<1>1. /\ next + n <= MaxSeq /\ ring' = opty_ring_append(ring, data)
      /\ UNCHANGED <<up, epoch, srv, link, request, breaks, shown, last_seq, cpc, have_connected_once,
                     g_terminate_pending, status>>
  BY <1>0 DEF ServerPrints
<1>2. /\ ring \in Rings /\ Faithful(ring, MaxSeq) /\ next \in Nat /\ base \in Nat
      /\ epoch \in Nat /\ epoch \in 1 .. epoch /\ MaxSeq \in Nat /\ n \in Nat /\ n > 0
      /\ base <= next /\ last_seq \in Nat
  BY <1>0, BoundsAssumption DEF ReconnectInv, TypeOK, RingFaithful, Rings, Faithful
<1>3. ring' \in Rings /\ Faithful(ring', MaxSeq) /\ ring'.next_seq = next + n
  BY <1>0, <1>1, <1>2, AppendFaithful, ByteAssumption, Zenon
<1>4. data \in Seq(Nat) /\ Len(data) = n
  BY <1>0, <1>2, PositionsFacts, Zenon
<1>5. /\ s2c \in Seq(Frames) /\ Len(s2c) \in Nat /\ DOMAIN s2c = 1 .. Len(s2c)
      /\ \A i \in DOMAIN shown : shown[i] \in Nat \X Nat
  BY DEF ReconnectInv, FrameType
<1>6. Shown' /\ ShownOnce' /\ RingFaithful'
  <2>1. \A i \in DOMAIN shown : shown[i][1] = epoch => shown[i][2] < next + n
    BY <1>0, <1>2, <1>5 DEF ReconnectInv, Shown
  <2>2. OneRun(epoch) => last_seq <= next + n
    BY <1>0, <1>2 DEF ReconnectInv, Shown
  <2> QED
    BY <1>1, <1>3, <2>1, <2>2 DEF ReconnectInv, Shown, ShownOnce, RingFaithful, OneRun
<1>7. \A k \in DOMAIN s2c : IsStream(s2c[k]) => s2c[k] \in StreamFrames /\ FrameEnd(s2c[k]) \in Nat
  BY <1>5 DEF Frames, StreamFrames, IsStream, FrameEnd, Welcome, Error
<1>8. \A f \in StreamFrames : FrameOK(f) => FrameOK(f)'
  <2> SUFFICES ASSUME NEW f \in StreamFrames, FrameOK(f)
               PROVE  FrameOK(f)'
    OBVIOUS
  <2>1. FrameEnd(f) \in Nat
    BY DEF StreamFrames, FrameEnd
  <2>2. f.epoch = epoch => FrameEnd(f) <= next + n
    BY <1>0, <1>2, <2>1 DEF FrameOK
  <2> QED
    BY <1>1, <1>3, <2>2 DEF FrameOK, FrameEnd
<1>9. TypeOK'
  BY <1>1, <1>3 DEF ReconnectInv, TypeOK
<1>10. CASE srv # "live"
  <2>1. s2c' = s2c
    BY <1>10 DEF ServerPrints
  <2>2. FramesOK'
    BY <1>7, <1>8, <2>1 DEF ReconnectInv, FramesOK, IsStream
  <2>3. InOrder' /\ Queue' /\ Joined' /\ FrameType'
    BY <1>1, <2>1 DEF ReconnectInv, InOrder, Queue, Joined, Joins, OneRun, FrameType, IsStream, FrameEnd
  <2>4. Attached' /\ Session'
    BY <1>1, <1>10, <2>1 DEF ReconnectInv, Attached, Session
  <2> QED
    BY <1>3, <1>6, <1>9, <2>2, <2>3, <2>4 DEF ReconnectInv
<1>11. CASE srv = "live"
  <2> DEFINE L == Len(s2c)
  <2>1. PICK F : F = Stream("STDOUT", next, data, base)
    BY Zenon
  <2>2. /\ F.type = "STDOUT" /\ F.seq = next /\ F.data = data /\ F.base = base /\ F.epoch = epoch
        /\ F \in StreamFrames /\ F \in Frames /\ IsStream(F) /\ FrameEnd(F) = next + n
    BY <1>2, <1>4, <2>1 DEF Stream, StreamFrames, Frames, IsStream, FrameEnd
  <2>3. link = "open" /\ s2c' = s2c \o <<F>>
    BY <1>0, <1>11, <2>1 DEF ServerPrints, Deliver, ReconnectInv, Attached
  <2>4. /\ s2c' \in Seq(Frames) /\ Len(s2c') = L + 1 /\ DOMAIN s2c' = 1 .. L + 1
        /\ \A k \in 1 .. L : s2c'[k] = s2c[k]
        /\ s2c'[L + 1] = F /\ s2c' # << >>
    BY <1>5, <2>2, <2>3
  <2>5. L > 0 => /\ L \in DOMAIN s2c /\ IsStream(s2c[L])
                 /\ s2c[L].epoch = epoch /\ FrameEnd(s2c[L]) = next
    BY <1>0, <1>5, <1>11 DEF ReconnectInv, Attached
  <2>6. FrameOK(F)'
    <3>1. F.data = Positions(F.seq, Len(F.data))
      BY <1>0, <1>4, <2>2
    <3>2. F.base < FrameEnd(F) /\ FrameEnd(F) <= MaxSeq /\ FrameEnd(F) <= next + n
      BY <1>1, <1>2, <2>2
    <3>3. \A i \in DOMAIN shown : shown[i][1] <= epoch /\ (shown[i][1] = epoch => shown[i][2] < next)
      BY <1>0 DEF ReconnectInv, Shown
    <3> QED
      BY <1>1, <1>2, <1>3, <2>2, <3>1, <3>2, <3>3 DEF FrameOK, FrameEnd
  <2>7. FramesOK'
    <3> SUFFICES ASSUME NEW k \in 1 .. L + 1, IsStream(s2c'[k])
                 PROVE  FrameOK(s2c[k])'
      BY <2>4 DEF FramesOK, IsStream
    <3>1. CASE k = L + 1
      BY <2>4, <2>6, <3>1 DEF FrameOK, FrameEnd
    <3>2. CASE k \in 1 .. L
      <4>1. s2c'[k] = s2c[k] /\ s2c[k] \in StreamFrames /\ FrameOK(s2c[k])
        BY <1>5, <1>7, <2>4, <3>2 DEF IsStream, ReconnectInv, FramesOK
      <4>2. PICK f \in StreamFrames : f = s2c[k]
        BY <4>1
      <4>3. FrameOK(f)'
        BY <1>8, <4>1, <4>2
      <4> QED BY <4>1, <4>2, <4>3 DEF FrameOK, FrameEnd
    <3> QED BY <1>5, <3>1, <3>2
  <2>8. \A j \in 1 .. L : IsStream(s2c[j]) => s2c[j].epoch = epoch /\ FrameEnd(s2c[j]) <= next
    <3> SUFFICES ASSUME NEW j \in 1 .. L, IsStream(s2c[j])
                 PROVE  s2c[j].epoch = epoch /\ FrameEnd(s2c[j]) <= next
      OBVIOUS
    <3>1. CASE j = L
      BY <1>2, <1>5, <2>5, <3>1
    <3>2. CASE j < L
      <4>1. s2c[j].epoch = s2c[L].epoch /\ FrameEnd(s2c[j]) <= s2c[L].seq
        BY <1>5, <2>5, <3>2 DEF ReconnectInv, InOrder
      <4>2. L > 0 /\ s2c[L] \in StreamFrames /\ FrameEnd(s2c[j]) \in Nat
        BY <1>5, <1>7, <2>5, <3>2
      <4>3. s2c[L].seq \in Nat /\ s2c[L].seq <= FrameEnd(s2c[L])
        BY <4>2 DEF StreamFrames, FrameEnd
      <4>4. s2c[L].epoch = epoch /\ FrameEnd(s2c[L]) = next
        BY <2>5, <4>2
      <4>5. FrameEnd(s2c[j]) <= next
        BY <1>2, <4>1, <4>2, <4>3, <4>4
      <4> QED BY <4>1, <4>4, <4>5
    <3>3. j = L \/ j < L
      <4>1. Len(s2c) \in Nat
        BY <1>5
      <4>2. j \in Nat /\ j <= Len(s2c)
        BY <4>1
      <4> QED BY <4>1, <4>2
    <3> QED BY <3>1, <3>2, <3>3
  <2>9. InOrder'
    <3> SUFFICES ASSUME NEW j \in 1 .. L + 1, NEW k \in 1 .. L + 1, j < k,
                        IsStream(s2c'[j]), IsStream(s2c'[k])
                 PROVE  s2c'[j].epoch = s2c'[k].epoch /\ FrameEnd(s2c'[j]) <= s2c'[k].seq
      BY <2>4 DEF InOrder, IsStream, FrameEnd
    <3>1. j \in 1 .. L /\ s2c'[j] = s2c[j]
      BY <1>5, <2>4
    <3>2. CASE k = L + 1
      BY <2>2, <2>4, <2>8, <3>1, <3>2
    <3>3. CASE k \in 1 .. L
      BY <1>5, <2>4, <3>1, <3>3 DEF ReconnectInv, InOrder
    <3> QED BY <1>5, <3>2, <3>3
  <2>10. Queue'
    <3> SUFFICES ASSUME NEW k \in 1 .. L + 1, k > 1
                 PROVE  /\ IsStream(s2c'[k])
                        /\ s2c'[k].type = "STDOUT" =>
                              IsStream(s2c'[k - 1]) /\ FrameEnd(s2c'[k - 1]) = s2c'[k].seq
                        /\ s2c'[k].type = "REPLAY" => s2c'[k - 1].type = "WELCOME"
      BY <2>4 DEF Queue, IsStream, FrameEnd
    <3>1. k - 1 \in 1 .. L /\ s2c'[k - 1] = s2c[k - 1]
      BY <1>5, <2>4
    <3>2. CASE k = L + 1
      <4>1. k - 1 = L /\ L > 0
        BY <1>5, <3>2
      <4> QED BY <2>2, <2>4, <2>5, <3>1, <3>2, <4>1
    <3>3. CASE k \in 1 .. L
      BY <1>5, <2>4, <3>1, <3>3 DEF ReconnectInv, Queue
    <3> QED BY <1>5, <3>2, <3>3
  <2>11. Joined'
    <3> SUFFICES ASSUME NEW k \in 1 .. L + 1, IsStream(s2c'[k]), k > 1 => s2c'[k - 1].type = "WELCOME"
                 PROVE  Joins(s2c'[k])
      BY <1>1, <2>4 DEF Joined, IsStream, Joins, OneRun
    <3>1. CASE k = L + 1
      <4>1. L = 0
        <5> SUFFICES ASSUME L > 0 PROVE FALSE
          BY <1>5
        <5>1. k - 1 = L /\ k > 1 /\ s2c'[k - 1] = s2c[L]
          BY <1>5, <2>4, <3>1
        <5> QED BY <2>5, <5>1 DEF IsStream
      <4>2. OneRun(epoch) => last_seq = next
        BY <1>0, <1>5, <1>11, <4>1 DEF ReconnectInv, Attached
      <4> QED BY <2>2, <2>4, <3>1, <4>2 DEF Joins
    <3>2. CASE k \in 1 .. L
      <4>1. s2c'[k] = s2c[k] /\ (k > 1 => s2c[k - 1].type = "WELCOME")
        BY <1>5, <2>4, <3>2
      <4> QED BY <1>5, <3>2, <4>1 DEF ReconnectInv, Joined
    <3> QED BY <1>5, <3>1, <3>2
  <2>12. Attached'
    BY <1>1, <1>3, <2>2, <2>3, <2>4 DEF Attached, IsStream, FrameEnd
  <2>13. Session' /\ FrameType'
    BY <1>1, <1>11, <2>3, <2>4 DEF ReconnectInv, Session, FrameType
  <2> QED
    BY <1>3, <1>6, <1>9, <2>7, <2>9, <2>10, <2>11, <2>12, <2>13 DEF ReconnectInv
<1> QED
  BY <1>10, <1>11

\* The elements of a concatenation.
LEMMA ConcatFacts ==
  ASSUME NEW T, NEW s \in Seq(T), NEW t \in Seq(T)
  PROVE  /\ s \o t \in Seq(T) /\ DOMAIN (s \o t) = 1 .. Len(s) + Len(t)
         /\ \A i \in 1 .. Len(s) + Len(t) :
               (s \o t)[i] = IF i <= Len(s) THEN s[i] ELSE t[i - Len(s)]
  OBVIOUS

\* The next frame of output is shown.
LEMMA ShowFrameInv == ASSUME ReconnectInv, ShowFrame PROVE ReconnectInv'
<1> USE DEF server_vars
<1>0. PICK f : f = s2c[1]
  BY Zenon
<1>1. /\ s2c \in Seq(Frames) /\ s2c # << >> /\ Len(s2c) \in Nat /\ DOMAIN s2c = 1 .. Len(s2c)
      /\ Head(s2c) = f /\ Len(s2c) > 0 /\ 1 \in DOMAIN s2c
  BY <1>0 DEF ShowFrame, ReceiveStream, ReconnectInv, FrameType
<1>2. /\ cpc = "poll" /\ cpc' = "ack" /\ IsStream(f) /\ s2c' = Tail(s2c)
      /\ shown' = shown \o [i \in 1 .. Len(f.data) |-> <<f.epoch, f.data[i]>>]
      /\ last_seq' = IF FrameEnd(f) > last_seq THEN FrameEnd(f) ELSE last_seq
      /\ UNCHANGED <<up, epoch, ring, srv, link, request, breaks, have_connected_once,
                     g_terminate_pending, status>>
  BY <1>1 DEF ShowFrame, ReceiveStream, Show, IsStream
<1>3. /\ f \in StreamFrames /\ f.seq \in Nat /\ f.data \in Seq(Nat) /\ f.base \in Nat /\ f.epoch \in Nat
  BY <1>0, <1>1, <1>2 DEF Frames, StreamFrames, IsStream, Welcome, Error
<1>4. FrameOK(f) /\ Joins(f)
  <2>1. ~ (1 > 1)
    OBVIOUS
  <2> QED
    BY <1>0, <1>1, <1>2, <2>1 DEF ReconnectInv, FramesOK, Joined
<1>5. PICK D, S, E : D = Len(f.data) /\ S = Len(shown) /\ E = FrameEnd(f)
  BY Zenon
<1>6. /\ D \in Nat /\ S \in Nat /\ E \in Nat /\ E = f.seq + D /\ last_seq \in Nat /\ epoch \in Nat
      /\ shown \in Seq(Nat \X Nat) /\ DOMAIN shown = 1 .. S
      /\ E <= MaxSeq /\ MaxSeq \in Nat /\ last_seq <= MaxSeq
      /\ \A i \in 1 .. D : f.data[i] = f.seq + i - 1
  <2>1. D \in Nat /\ S \in Nat /\ E \in Nat /\ E = f.seq + D /\ last_seq \in Nat /\ epoch \in Nat
        /\ shown \in Seq(Nat \X Nat) /\ DOMAIN shown = 1 .. S
        /\ E <= MaxSeq /\ MaxSeq \in Nat /\ last_seq <= MaxSeq
    BY <1>3, <1>4, <1>5, BoundsAssumption, SMTT(30) DEF FrameEnd, FrameOK, ReconnectInv, TypeOK, FrameType
  <2>2. f.data = Positions(f.seq, D)
    BY <1>4, <1>5 DEF FrameOK
  <2>3. \A i \in 1 .. D : Positions(f.seq, D)[i] = f.seq + i - 1
    BY <1>3, <2>1, PositionsFacts, Zenon
  <2> QED
    BY <2>1, <2>2, <2>3
<1>7. /\ shown' \in Seq(Nat \X Nat) /\ DOMAIN shown' = 1 .. S + D
      /\ \A i \in 1 .. S : shown'[i] = shown[i]
      /\ \A i \in S + 1 .. S + D : shown'[i] = <<f.epoch, f.seq + (i - S) - 1>>
  <2>1. PICK new : new = [i \in 1 .. D |-> <<f.epoch, f.data[i]>>]
    BY Zenon
  <2>2. \A i \in 1 .. D : f.data[i] = f.seq + i - 1 /\ f.data[i] \in Nat
                          /\ <<f.epoch, f.data[i]>> \in Nat \X Nat
    <3>1. \A i \in 1 .. D : f.data[i] = f.seq + i - 1 /\ f.seq + i - 1 \in Nat
      BY <1>3, <1>6
    <3> QED BY <1>3, <3>1
  <2>3. new \in Seq(Nat \X Nat) /\ Len(new) = D
    BY <1>6, <2>1, <2>2
  <2>4. \A i \in 1 .. D : new[i] = <<f.epoch, f.seq + i - 1>>
    BY <2>1, <2>2
  <2>5. shown' = shown \o new
    BY <1>2, <1>5, <2>1
  <2>6. /\ shown' \in Seq(Nat \X Nat) /\ DOMAIN shown' = 1 .. S + D
        /\ \A i \in 1 .. S + D : shown'[i] = IF i <= S THEN shown[i] ELSE new[i - S]
    <3>1. /\ shown \o new \in Seq(Nat \X Nat) /\ DOMAIN (shown \o new) = 1 .. Len(shown) + Len(new)
          /\ \A i \in 1 .. Len(shown) + Len(new) :
                (shown \o new)[i] = IF i <= Len(shown) THEN shown[i] ELSE new[i - Len(shown)]
      BY <1>6, <2>3, ConcatFacts, Zenon
    <3> QED BY <1>5, <2>3, <2>5, <3>1, Zenon
  <2>7. \A i \in S + 1 .. S + D : i - S \in 1 .. D /\ i \in 1 .. S + D /\ ~(i <= S)
    BY <1>6
  <2>8. \A i \in 1 .. S : i \in 1 .. S + D /\ i <= S
    BY <1>6
  <2>9. \A i \in S + 1 .. S + D : shown'[i] = new[i - S]
    BY <2>6, <2>7
  <2> QED BY <2>4, <2>6, <2>7, <2>8, <2>9, Zenon
<1>8. \A i \in S + 1 .. S + D : shown'[i][1] = f.epoch /\ shown'[i][2] = f.seq + (i - S) - 1
                               /\ shown'[i][2] \in Nat /\ shown'[i][2] >= f.seq /\ shown'[i][2] < E
  <2> SUFFICES ASSUME NEW i \in S + 1 .. S + D
               PROVE  shown'[i][1] = f.epoch /\ shown'[i][2] = f.seq + (i - S) - 1
                      /\ shown'[i][2] \in Nat /\ shown'[i][2] >= f.seq /\ shown'[i][2] < E
    OBVIOUS
  <2>1. shown'[i][1] = f.epoch /\ shown'[i][2] = f.seq + (i - S) - 1
    BY <1>7
  <2> QED BY <1>3, <1>6, <2>1, SMTT(30)
<1>9. \A i \in DOMAIN shown' : (i \in 1 .. S \/ i \in S + 1 .. S + D) /\ shown'[i] \in Nat \X Nat
  BY <1>6, <1>7
<1>10. \A i \in 1 .. S : shown[i] \in Nat \X Nat /\ shown[i][1] <= f.epoch
                        /\ (shown[i][1] = f.epoch => shown[i][2] < f.seq)
  <2>1. \A i \in 1 .. S : shown[i] \in Nat \X Nat
    BY <1>5, <1>6
  <2> QED BY <1>4, <1>6, <2>1 DEF FrameOK
<1>11. /\ last_seq' \in Nat /\ last_seq' >= E /\ last_seq' >= last_seq
       /\ last_seq' = E \/ last_seq' = last_seq
  BY <1>2, <1>5, <1>6
<1>12. \A e : OneRun(e)' => OneRun(e)
  BY <1>6, <1>7, <1>9 DEF OneRun
<1>13. OneRun(f.epoch) => last_seq' = E /\ last_seq <= f.seq
  <2>1. OneRun(f.epoch) => last_seq <= f.seq
    BY <1>3, <1>4, <1>6 DEF Joins
  <2> QED BY <1>2, <1>3, <1>5, <1>6, <2>1
<1>14. /\ s2c' \in Seq(Frames) /\ Len(s2c') = Len(s2c) - 1 /\ DOMAIN s2c' = 1 .. Len(s2c) - 1
       /\ \A k \in DOMAIN s2c' : s2c'[k] = s2c[k + 1] /\ k + 1 \in DOMAIN s2c /\ k + 1 > 1 /\ k \in Nat
  BY <1>1, <1>2
<1>15. shown = << >> /\ D = 0 => E = 0
  <2> SUFFICES ASSUME shown = << >>, D = 0 PROVE E = 0
    OBVIOUS
  <2>1. OneRun(f.epoch) /\ last_seq = 0
    BY DEF OneRun, ReconnectInv, Shown
  <2>2. f.seq = 0 \/ f.seq = f.base
    BY <1>4, <2>1 DEF Joins
  <2>3. f.base < E \/ E = 0
    BY <1>4, <1>5 DEF FrameOK
  <2> QED BY <1>3, <1>6, <2>2, <2>3
<1>16. ShownOnce'
  <2> SUFFICES ASSUME NEW i \in DOMAIN shown', NEW j \in DOMAIN shown', shown'[i] = shown'[j]
               PROVE  i = j
    BY DEF ShownOnce
  <2>1. CASE i \in 1 .. S /\ j \in 1 .. S
    BY <1>6, <1>7, <2>1 DEF ReconnectInv, ShownOnce
  <2>2. CASE i \in S + 1 .. S + D /\ j \in S + 1 .. S + D
    <3>1. f.seq + (i - S) - 1 = f.seq + (j - S) - 1
      BY <1>8, <2>2
    <3>2. i \in Nat /\ j \in Nat /\ S \in Nat /\ f.seq \in Nat
      BY <1>3, <1>6, <2>2
    <3> QED BY <3>1, <3>2
  <2>3. ASSUME NEW a \in 1 .. S, NEW b \in S + 1 .. S + D, shown'[a] = shown'[b] PROVE FALSE
    <3>1. shown[a][1] = f.epoch /\ shown[a][2] = shown'[b][2] /\ shown[a][2] \in Nat
      BY <1>7, <1>8, <1>10, <2>3
    <3>2. shown[a][2] < f.seq /\ shown[a][2] >= f.seq
      BY <1>8, <1>10, <3>1
    <3> QED BY <1>3, <3>1, <3>2
  <2> QED
    BY <1>9, <2>1, <2>2, <2>3
<1>17. \A k \in DOMAIN s2c' : /\ IsStream(s2c'[k]) /\ s2c'[k] \in StreamFrames
                            /\ s2c'[k].epoch = f.epoch /\ E <= s2c'[k].seq
  <2> SUFFICES ASSUME NEW k \in DOMAIN s2c'
               PROVE  /\ IsStream(s2c[k + 1]) /\ s2c[k + 1] \in StreamFrames
                      /\ s2c[k + 1].epoch = f.epoch /\ E <= s2c[k + 1].seq
    BY <1>14 DEF IsStream
  <2>1. k + 1 \in DOMAIN s2c /\ k + 1 > 1 /\ 1 < k + 1
    BY <1>14
  <2>2. IsStream(s2c[k + 1])
    BY <2>1 DEF ReconnectInv, Queue
  <2>3. s2c[k + 1] \in StreamFrames
    BY <1>1, <2>1, <2>2 DEF Frames, IsStream, Welcome, Error
  <2>4. s2c[1].epoch = s2c[k + 1].epoch /\ FrameEnd(s2c[1]) <= s2c[k + 1].seq
    BY <1>0, <1>1, <1>2, <2>1, <2>2 DEF ReconnectInv, InOrder
  <2> QED BY <1>0, <1>5, <2>2, <2>3, <2>4
<1>18. FramesOK'
  <2> SUFFICES ASSUME NEW k \in DOMAIN s2c'
               PROVE  FrameOK(s2c[k])'
    BY DEF FramesOK
  <2>1. PICK g \in StreamFrames : g = s2c'[k] /\ g.epoch = f.epoch /\ E <= g.seq
    BY <1>17
  <2>2. FrameOK(g)
    <3>1. k + 1 \in DOMAIN s2c /\ g = s2c[k + 1] /\ IsStream(s2c[k + 1])
      BY <1>14, <1>17, <2>1
    <3> QED BY <3>1 DEF ReconnectInv, FramesOK
  <2>3. ASSUME NEW i \in DOMAIN shown'
        PROVE  shown'[i][1] <= g.epoch /\ (shown'[i][1] = g.epoch => shown'[i][2] < g.seq)
    <3>1. g.seq \in Nat /\ g.epoch \in Nat
      BY DEF StreamFrames
    <3>2. CASE i \in 1 .. S
      BY <1>6, <1>7, <2>2, <3>2 DEF FrameOK
    <3>3. CASE i \in S + 1 .. S + D
      BY <1>6, <1>8, <2>1, <3>1, <3>3, SMTT(30)
    <3> QED BY <1>9, <2>3, <3>2, <3>3
  <2>4. FrameOK(g)'
    BY <1>2, <2>2, <2>3 DEF FrameOK, FrameEnd
  <2> QED BY <2>1, <2>4 DEF FrameOK, FrameEnd
<1>19. InOrder'
  <2> SUFFICES ASSUME NEW j \in DOMAIN s2c', NEW k \in DOMAIN s2c', j < k,
                      IsStream(s2c'[j]), IsStream(s2c'[k])
               PROVE  s2c'[j].epoch = s2c'[k].epoch /\ FrameEnd(s2c'[j]) <= s2c'[k].seq
    BY DEF InOrder, IsStream, FrameEnd
  <2>1. j + 1 < k + 1
    BY <1>14
  <2> QED
    BY <1>14, <2>1 DEF ReconnectInv, InOrder
<1>20. Queue'
  <2> SUFFICES ASSUME NEW k \in DOMAIN s2c', k > 1
               PROVE  /\ IsStream(s2c'[k])
                      /\ s2c'[k].type = "STDOUT" =>
                            IsStream(s2c'[k - 1]) /\ FrameEnd(s2c'[k - 1]) = s2c'[k].seq
                      /\ s2c'[k].type = "REPLAY" => s2c'[k - 1].type = "WELCOME"
    BY DEF Queue, IsStream, FrameEnd
  <2>1. k - 1 \in DOMAIN s2c' /\ (k - 1) + 1 = (k + 1) - 1
    BY <1>1, <1>14
  <2>2. s2c'[k - 1] = s2c[(k + 1) - 1]
    BY <1>14, <2>1
  <2> QED
    BY <1>14, <2>1, <2>2 DEF ReconnectInv, Queue
<1>21. Joined'
  <2> SUFFICES ASSUME NEW k \in DOMAIN s2c', k > 1 => s2c'[k - 1].type = "WELCOME"
               PROVE  Joins(s2c[k])'
    BY DEF Joined
  <2>1. k = 1
    <3> SUFFICES ASSUME k # 1 PROVE FALSE
      OBVIOUS
    <3>1. k > 1 /\ k - 1 \in DOMAIN s2c'
      BY <1>1, <1>14
    <3> QED BY <1>17, <3>1 DEF IsStream
  <2>2. PICK g : g = s2c'[1] /\ g.epoch = f.epoch /\ IsStream(g)
    BY <1>17, <2>1
  <2>3. g.seq = E
    <3>1. 2 \in DOMAIN s2c /\ g = s2c[2] /\ 2 > 1 /\ s2c[2 - 1] = f
      BY <1>0, <1>14, <2>1, <2>2
    <3>2. /\ g.type = "STDOUT" => FrameEnd(f) = g.seq
          /\ g.type = "REPLAY" => f.type = "WELCOME"
      BY <3>1 DEF ReconnectInv, Queue
    <3> QED BY <1>2, <1>5, <2>2, <3>2 DEF IsStream
  <2>4. OneRun(g.epoch)' => g.seq = last_seq'
    BY <1>12, <1>13, <2>2, <2>3
  <2> QED BY <2>1, <2>2, <2>4 DEF Joins, OneRun
<1>22. Shown'
  <2>1. ASSUME NEW i \in DOMAIN shown'
        PROVE  /\ shown'[i][1] <= epoch
               /\ shown'[i][2] < last_seq'
               /\ shown'[i][1] = epoch => shown'[i][2] < ring.next_seq
    <3>1. CASE i \in 1 .. S
      <4>1. shown'[i] = shown[i] /\ shown[i] \in Nat \X Nat
        BY <1>7, <1>10, <3>1
      <4>2. shown[i][1] <= epoch /\ shown[i][2] < last_seq
            /\ (shown[i][1] = epoch => shown[i][2] < ring.next_seq)
        BY <1>6, <3>1 DEF ReconnectInv, Shown
      <4> QED BY <1>6, <1>11, <4>1, <4>2
    <3>2. CASE i \in S + 1 .. S + D
      <4>1. f.epoch <= epoch /\ (f.epoch = epoch => E <= ring.next_seq) /\ ring.next_seq \in Nat
        BY <1>4, <1>5, <1>6 DEF FrameOK, ReconnectInv, TypeOK, Rings
      <4>2. shown'[i][1] = f.epoch /\ shown'[i][2] \in Nat /\ shown'[i][2] < E
        BY <1>8, <3>2
      <4>3. shown'[i][2] < last_seq'
        BY <1>6, <1>11, <4>2
      <4>4. f.epoch = epoch => shown'[i][2] < ring.next_seq
        BY <1>6, <4>1, <4>2
      <4> QED BY <4>1, <4>2, <4>3, <4>4
    <3> QED BY <1>9, <2>1, <3>1, <3>2
  <2>2. shown' = << >> => last_seq' = 0
    <3> SUFFICES ASSUME shown' = << >> PROVE last_seq' = 0
      OBVIOUS
    <3>1. S = 0 /\ D = 0
      <4>1. 1 .. S + D = {}
        BY <1>7
      <4>2. ~(1 \in 1 .. S + D)
        BY <4>1
      <4> QED BY <1>6, <4>2
    <3>2. shown = << >> /\ last_seq = 0
      BY <1>5, <1>6, <3>1 DEF ReconnectInv, Shown
    <3> QED BY <1>11, <1>15, <3>1, <3>2
  <2>3. OneRun(epoch)' => last_seq' <= ring.next_seq
    <3> SUFFICES ASSUME OneRun(epoch)' PROVE last_seq' <= ring.next_seq
      OBVIOUS
    <3>1. OneRun(epoch) /\ ring.next_seq \in Nat /\ last_seq <= ring.next_seq
      <4>1. OneRun(epoch)
        <5>1. \A i \in DOMAIN shown' : shown'[i][1] = epoch
          BY <1>2 DEF OneRun
        <5>2. \A i \in DOMAIN shown : i \in DOMAIN shown' /\ shown'[i] = shown[i]
          BY <1>6, <1>7
        <5> QED BY <5>1, <5>2 DEF OneRun
      <4> QED BY <4>1 DEF ReconnectInv, Shown, TypeOK, Rings
    <3>2. CASE f.epoch = epoch
      BY <1>4, <1>5, <1>11, <3>1, <3>2 DEF FrameOK
    <3>3. CASE f.epoch # epoch
      <4>1. f.epoch < epoch
        BY <1>3, <1>4, <1>6, <3>3 DEF FrameOK
      <4>2. S = 0 /\ shown = << >>
        <5> SUFFICES ASSUME S # 0 PROVE FALSE
          BY <1>5, <1>6
        <5>1. 1 \in 1 .. S
          BY <1>6
        <5>2. shown[1][1] = epoch /\ shown[1][1] <= f.epoch
          BY <1>6, <1>10, <3>1, <5>1 DEF OneRun
        <5> QED BY <1>3, <1>6, <4>1, <5>2
      <4>3. D = 0
        <5> SUFFICES ASSUME D # 0 PROVE FALSE
          OBVIOUS
        <5>1. S + 1 \in S + 1 .. S + D /\ S + 1 \in DOMAIN shown'
          BY <1>6, <1>7, SMTT(30)
        <5>2. shown'[S + 1][1] = f.epoch /\ shown'[S + 1][1] = epoch
          BY <1>2, <1>8, <5>1 DEF OneRun
        <5> QED BY <3>3, <5>2
      <4>4. E = 0
        BY <1>15, <4>2, <4>3
      <4> QED BY <1>6, <1>11, <3>1, <4>4
    <3> QED BY <3>2, <3>3
  <2> QED
    BY <1>2, <2>1, <2>2, <2>3 DEF Shown, OneRun
<1>23. Attached'
  <2> SUFFICES ASSUME srv = "live" PROVE Attached'
    BY <1>2 DEF Attached
  <2>1. link = "open" /\ IsStream(s2c[Len(s2c)])
        /\ s2c[Len(s2c)].epoch = epoch /\ FrameEnd(s2c[Len(s2c)]) = ring.next_seq
    BY <1>1 DEF ReconnectInv, Attached
  <2>2. CASE s2c' = << >>
    <3>1. Len(s2c) = 1
      BY <1>1, <1>14, <2>2
    <3>2. f.epoch = epoch /\ E = ring.next_seq
      BY <1>0, <1>5, <2>1, <3>1
    <3>3. OneRun(epoch)' => last_seq' = ring.next_seq
      BY <1>2, <1>12, <1>13, <3>2
    <3> QED BY <1>2, <2>1, <2>2, <3>3 DEF Attached
  <2>3. CASE s2c' # << >>
    <3>1. s2c'[Len(s2c')] = s2c[Len(s2c)]
      <4>1. Len(s2c') \in DOMAIN s2c' /\ Len(s2c') + 1 = Len(s2c)
        BY <1>1, <1>14, <2>3
      <4> QED BY <1>14, <4>1
    <3> QED BY <1>2, <2>1, <2>3, <3>1 DEF Attached, IsStream, FrameEnd
  <2> QED BY <2>2, <2>3
<1>24. Session'
  <2>1. request = << >> /\ srv # "intro" /\ link # "none"
    BY <1>1 DEF ReconnectInv, Session
  <2> QED BY <1>2, <2>1 DEF ReconnectInv, Session
<1>25. TypeOK' /\ FrameType'
  <2>1. last_seq' \in 0 .. MaxSeq
    BY <1>6, <1>11
  <2> QED BY <1>2, <1>7, <1>14, <2>1 DEF ReconnectInv, TypeOK, FrameType
<1> QED
  BY <1>2, <1>16, <1>18, <1>19, <1>20, <1>21, <1>22, <1>23, <1>24, <1>25
     DEF ReconnectInv, RingFaithful, Faithful

\* Every step keeps the invariant.
LEMMA ReconnectStep == ReconnectInv /\ [Next]_vars => ReconnectInv'
<1> SUFFICES ASSUME ReconnectInv, [Next]_vars PROVE ReconnectInv'
  OBVIOUS
<1>1. CASE ServerAnswers
  BY <1>1, ServerAttachesInv, ServerRejectsInv, Zenon DEF ServerAnswers
<1>2. CASE \E n \in 1 .. MaxChunk : ServerPrints(n)
  BY <1>2, ServerPrintsInv, Zenon
<1>3. CASE ServerDrops \/ ServerExits \/ LinkBreaks
  BY <1>3, LinkEnds, Zenon
<1>4. CASE ServerRestarts
  BY <1>4, ServerRestartsInv, Zenon
<1>5. CASE ClientStep \/ SendFails \/ AckFails \/ Detach \/ OnTerminate
  BY <1>5, ControlSteps, SendIntroInv, ReceiveWelcomeInv, ShowFrameInv, SessionEnds, Zenon DEF ClientStep
<1>6. CASE UNCHANGED vars
  <2> USE DEF vars, server_vars, net_vars, client_vars, user_vars
  <2>1. UNCHANGED <<up, epoch, ring, srv, link, s2c, request, breaks, cpc, last_seq, have_connected_once,
                    g_terminate_pending, status, shown>>
    BY <1>6
  <2>2. OutputInv'
    BY <2>1, QueueKept
  <2>3. TypeOK' /\ FrameType' /\ Session'
    BY <2>1 DEF ReconnectInv, TypeOK, FrameType, Session
  <2>4. Attached'
    BY <2>1 DEF ReconnectInv, Attached, OneRun, IsStream, FrameEnd
  <2> QED BY <2>2, <2>3, <2>4 DEF ReconnectInv, OutputInv
<1> QED
  BY <1>1, <1>2, <1>3, <1>4, <1>5, <1>6, Zenon DEF Next

\* The invariant, in every state of every run.
THEOREM ReconnectInvariant == Spec => []ReconnectInv
  BY ReconnectInit, ReconnectStep, PTL DEF Spec

\* The client's state keeps its shape: in particular one request at most is
\* under way, and last_seq is never beyond what one server run can print.
THEOREM ReconnectTypeOK == Spec => []TypeOK
<1>1. ReconnectInv => TypeOK
  BY DEF ReconnectInv
<1> QED
  BY <1>1, ReconnectInvariant, PTL

\* No byte of output is shown twice, however often the connection breaks,
\* whatever is lost with it and however often the server is started again.
THEOREM ReconnectShowsOnce == Spec => []ShownOnce
<1>1. ReconnectInv => ShownOnce
  BY DEF ReconnectInv
<1> QED
  BY <1>1, ReconnectInvariant, PTL

\* What a step shows continues what is shown of the server run, unless the
\* ring has dropped the bytes between.
LEMMA ShowsNext ==
  ASSUME ReconnectInv, [Next]_vars, shown' # shown
  PROVE  LET f == Head(s2c)
         IN  OneRun(f.epoch) => \/ f.seq = last_seq
                                \/ f.type = "REPLAY" /\ f.seq = f.base /\ last_seq < f.base
<1> USE DEF server_vars, net_vars, user_vars, client_vars
<1>1. ShowFrame
  <2>1. UNCHANGED vars => shown' = shown
    BY DEF vars
  <2>2. ServerAnswers => shown' = shown
    BY DEF ServerAnswers, ServerAttaches, ServerRejects
  <2>3. (\E n \in 1 .. MaxChunk : ServerPrints(n)) => shown' = shown
    BY DEF ServerPrints
  <2>4. ServerDrops \/ ServerExits \/ ServerRestarts \/ LinkBreaks => shown' = shown
    BY DEF ServerDrops, ServerExits, ServerRestarts, LinkBreaks
  <2>5. SendFails \/ AckFails \/ Detach \/ OnTerminate \/ ShowError \/ ReceiveEof \/ ReceiveFails
           => shown' = shown
    BY DEF SendFails, AckFails, Detach, OnTerminate, ShowError, ReceiveEof, ReceiveFails, SessionDone,
         SessionFailed, SessionOver
  <2>6. Terminated \/ Connect \/ ConnectFails \/ SendIntro \/ ReceiveWelcome \/ SendAck => shown' = shown
    BY DEF Terminated, Connect, ConnectFails, SendIntro, Ask, ReceiveWelcome, SendAck
  <2> QED
    BY <2>1, <2>2, <2>3, <2>4, <2>5, <2>6, Zenon DEF Next, ClientStep
<1>2. /\ s2c \in Seq(Frames) /\ 1 \in DOMAIN s2c /\ Head(s2c) = s2c[1] /\ IsStream(s2c[1]) /\ ~(1 > 1)
  BY <1>1 DEF ShowFrame, ReceiveStream, IsStream, ReconnectInv, FrameType
<1>3. Joins(s2c[1])
  BY <1>2 DEF ReconnectInv, Joined
<1> QED
  BY <1>2, <1>3 DEF Joins

\* "Sends that on reconnect": within one server run the client shows the
\* output without a gap, but for bytes the ring has dropped meanwhile.
THEOREM ReconnectNoGap == Spec => NoGap
<1>1. ReconnectInv /\ [Next]_vars =>
        [shown' # shown =>
            LET f == Head(s2c)
                One == \A i \in DOMAIN shown : shown[i][1] = f.epoch
            IN  One => \/ f.seq = last_seq
                       \/ f.type = "REPLAY" /\ f.seq = f.base /\ last_seq < f.base]_vars
  BY ShowsNext DEF OneRun
<1> QED
  BY <1>1, ReconnectInvariant, PTL DEF Spec, NoGap
=============================================================================
