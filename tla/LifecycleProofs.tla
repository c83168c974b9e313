-------------------------- MODULE LifecycleProofs --------------------------
(***************************************************************************)
(* Proofs about Lifecycle: for any number of connections and any child, no *)
(* reaped pid is signalled, SIGKILL comes last, the listener outlives the  *)
(* child's hold on its terminal, and the server reaps its child before it  *)
(* exits.                                                                  *)
(***************************************************************************)
EXTENDS Lifecycle, TLAPS

Requesters == Conn \cup {Main}

\* The part of TypeOK that the argument needs.
LifecycleType ==
    /\ DOMAIN pc = Threads
    /\ level \in [Requesters -> Nat]
    /\ child \in {"running", "zombie", "reaped"}
    /\ child_mu \in Threads \cup {None}

\* The PTY thread never runs a shutdown request.
PtyPlaces == pc[Pty] \in {"read", "reap", "waitpid", "exit"}

\* Who has tested child_reaped, or waits for the child, holds child_mu.
ChildMutex == \A t \in Threads : pc[t] \in {"kill", "waitpid"} => child_mu = t

\* What a thread knows of the child from where it stands.
Knows == \A t \in Threads :
    /\ pc[t] = "kill" => child # "reaped"
    /\ pc[t] \in {"close", "exit", "exited"} => child = "reaped"

\* A dead child has no terminal.
DeadHasNoTty == child # "running" => "child" \notin tty

\* A request that has gone through a level has sent its signal, unless it
\* found the child reaped.
Escalated == child # "reaped" => \A t \in Requesters :
    /\ level[t] >= 1 => "SIGHUP" \in sigs
    /\ level[t] >= 2 => "SIGTERM" \in sigs

LInv == /\ LifecycleType /\ PtyPlaces /\ ChildMutex /\ Knows /\ DeadHasNoTty /\ Escalated
        /\ KillIsLast /\ ListenerLast

\* Every initial state of the server satisfies the invariant.
LEMMA LInvInit == Init => LInv
<1> SUFFICES ASSUME Init PROVE LInv
  OBVIOUS
<1>1. LifecycleType
  <2>1. DOMAIN pc = Threads
    BY DEF Init
  <2> QED
    BY <2>1 DEF Init, LifecycleType, Requesters
<1>2. \A t \in Threads : pc[t] \in {"check", "read", "none"}
  BY DEF Init, Threads
<1>3. PtyPlaces
  BY ThreadAssumption DEF Init, PtyPlaces, Threads
<1>4. ChildMutex /\ Knows
  BY <1>2 DEF ChildMutex, Knows
<1>5. Escalated
  BY DEF Init, Escalated, Requesters
<1>6. DeadHasNoTty /\ KillIsLast /\ ListenerLast
  BY DEF Init, DeadHasNoTty, KillIsLast, ListenerLast
<1> QED
  BY <1>1, <1>3, <1>4, <1>5, <1>6 DEF LInv

\* What a step of one thread must respect for the invariant's parts about
\* threads and the child to survive it: a thread takes child_mu where it must,
\* from nobody else, and reaps only while nobody else holds it.
LEMMA ThreadStep ==
  ASSUME LInv, NEW t \in Threads, NEW from, NEW to, Goto(t, from, to),
         level' \in [Requesters -> Nat],
         child_mu' \in {child_mu, None, t},
         child_mu' # child_mu => child_mu \in {None, t},
         to \in {"kill", "waitpid"} => child_mu' = t,
         to = "kill" => child' # "reaped",
         to \in {"close", "exit", "exited"} => child' = "reaped",
         t = Pty => to \in {"read", "reap", "waitpid", "exit"},
         \/ child' = child
         \/ child' = "reaped" /\ child # "running" /\ child_mu \in {None, t},
         UNCHANGED tty
  PROVE  (LifecycleType /\ PtyPlaces /\ ChildMutex /\ Knows /\ DeadHasNoTty)'
<1> USE DEF LInv
<1>1. /\ DOMAIN pc' = Threads
      /\ pc'[t] = to
      /\ \A u \in Threads : u # t => pc'[u] = pc[u]
  BY DEF LifecycleType, Goto
<1>2. LifecycleType'
  BY <1>1 DEF LifecycleType
<1>3. PtyPlaces'
  BY <1>1 DEF PtyPlaces, Threads
<1>4. ChildMutex'
  BY <1>1, ThreadAssumption DEF ChildMutex, Threads
<1>5. Knows'
  <2> SUFFICES ASSUME NEW u \in Threads
               PROVE  /\ pc'[u] = "kill" => child' # "reaped"
                      /\ pc'[u] \in {"close", "exit", "exited"} => child' = "reaped"
    BY DEF Knows
  <2>1. CASE u = t
    BY <1>1, <2>1
  <2>2. CASE u # t
    BY <1>1, <2>2, ThreadAssumption DEF Knows, ChildMutex, Threads
  <2> QED
    BY <2>1, <2>2
<1>6. DeadHasNoTty'
  BY DEF DeadHasNoTty
<1> QED
  BY <1>2, <1>3, <1>4, <1>5, <1>6

\* A step that leaves the listener, the terminal and the signals alone, and
\* raises no level, cannot disturb the rest of the invariant.
LEMMA QuietStep ==
  ASSUME LInv, UNCHANGED <<listening, tty, sigs>>,
         child' = child \/ child' = "reaped",
         child' # "reaped" => \A r \in Requesters : level'[r] = level[r] \/ level'[r] = 0
  PROVE  (Escalated /\ KillIsLast /\ ListenerLast)'
  BY DEF LInv, Escalated, KillIsLast, ListenerLast

\* Both: a step of one thread that leaves the listener and the signals alone.
LEMMA QuietThreadStep ==
  ASSUME LInv, NEW t \in Threads, NEW from, NEW to, Goto(t, from, to),
         level' \in [Requesters -> Nat],
         \A r \in Requesters : level'[r] = level[r] \/ level'[r] = 0,
         child_mu' \in {child_mu, None, t},
         child_mu' # child_mu => child_mu \in {None, t},
         to \in {"kill", "waitpid"} => child_mu' = t,
         to = "kill" => child' # "reaped",
         to \in {"close", "exit", "exited"} => child' = "reaped",
         t = Pty => to \in {"read", "reap", "waitpid", "exit"},
         \/ child' = child
         \/ child' = "reaped" /\ child # "running" /\ child_mu \in {None, t},
         UNCHANGED <<listening, tty, sigs>>
  PROVE  LInv'
<1>1. (LifecycleType /\ PtyPlaces /\ ChildMutex /\ Knows /\ DeadHasNoTty)'
  BY ThreadStep
<1>2. (Escalated /\ KillIsLast /\ ListenerLast)'
  BY QuietStep
<1> QED
  BY <1>1, <1>2 DEF LInv

\* A thread that only moves, between places the invariant does not speak of,
\* preserves it.
LEMMA Moves ==
  ASSUME LInv, NEW t \in Threads, NEW from, NEW to, Goto(t, from, to),
         to \notin {"kill", "waitpid", "close", "exit", "exited"},
         t # Pty,
         UNCHANGED <<listening, child_mu, child, tty, sigs>>,
         level' \in [Requesters -> Nat],
         \A r \in Requesters : level'[r] = level[r] \/ level'[r] = 0
  PROVE  LInv'
  BY QuietThreadStep

\* The common case of it.
LEMMA JustMoves ==
  ASSUME LInv, NEW t \in Threads, NEW from, NEW to, Goto(t, from, to),
         to \notin {"kill", "waitpid", "close", "exit", "exited"},
         t # Pty,
         UNCHANGED <<level, listening, child_mu, child, tty, sigs>>
  PROVE  LInv'
<1>1. level' \in [Requesters -> Nat]
  BY DEF LInv, LifecycleType
<1> QED
  BY <1>1, Moves

\* The steps of the child, which leave the threads alone.
LEMMA ChildSteps == LInv /\ ChildStep => LInv'
<1> SUFFICES ASSUME LInv, ChildStep PROVE LInv'
  OBVIOUS
<1> USE DEF LInv, LifecycleType, PtyPlaces, ChildMutex, Knows, DeadHasNoTty, Escalated, KillIsLast,
        ListenerLast, main_vars, lock_vars
<1>1. CASE ChildExits
  BY <1>1 DEF ChildExits
<1>2. CASE ChildLeavesTty
  BY <1>2 DEF ChildLeavesTty
<1>3. CASE BackgroundStarts
  BY <1>3 DEF BackgroundStarts
<1>4. CASE BackgroundEnds
  BY <1>4 DEF BackgroundEnds
<1>5. CASE ReadingChanges
  BY <1>5 DEF ReadingChanges
<1> QED
  BY <1>1, <1>2, <1>3, <1>4, <1>5 DEF ChildStep

\* A shutdown request's steps.
LEMMA RequestSteps ==
  ASSUME NEW t \in Requesters, LInv, RequestStep(t)
  PROVE  LInv'
<1>0. t \in Threads /\ t # Pty
  BY ThreadAssumption DEF Threads, Requesters
<1>a. /\ level \in [Requesters -> Nat] /\ level[t] \in Nat
      /\ child \in {"running", "zombie", "reaped"}
  BY DEF LInv, LifecycleType
<1> DEFINE to == IF level[t] + 1 >= 3 THEN "reap" ELSE "poll"
<1>b. to \in {"reap", "poll"}
  OBVIOUS
<1> HIDE DEF to
<1>1. CASE PollDone(t)
  <2>1. /\ Goto(t, "poll", "close")
        /\ UNCHANGED <<level, listening, child_mu, tty, sigs>>
        /\ child_mu = None /\ child # "running" /\ child' = "reaped"
    BY <1>1 DEF PollDone, main_vars, lock_vars
  <2>2. level' \in [Requesters -> Nat]
    BY <2>1, <1>a
  <2> QED
    BY <1>0, <2>1, <2>2, QuietThreadStep
<1>2. CASE PollTimeout(t)
  <2>1. /\ Goto(t, "poll", "signal")
        /\ UNCHANGED <<level, listening, child_mu, child, tty, sigs>>
    BY <1>2 DEF PollTimeout, main_vars, lock_vars, child_vars
  <2> QED
    BY <1>0, <2>1, JustMoves
<1>3. CASE SignalLock(t)
  <2>1. /\ Goto(t, "signal", "kill")
        /\ UNCHANGED <<level, listening, child, tty, sigs>>
        /\ child_mu = None /\ child_mu' = t /\ child # "reaped"
    BY <1>3 DEF SignalLock, SignalTest, main_vars, child_vars
  <2>2. level' \in [Requesters -> Nat]
    BY <2>1, <1>a
  <2> QED
    BY <1>0, <2>1, <2>2, QuietThreadStep
<1>4. CASE SignalReaped(t)
  <2>1. /\ Goto(t, "signal", to)
        /\ UNCHANGED <<listening, child_mu, child, tty, sigs>>
        /\ level' = [level EXCEPT ![t] = @ + 1]
        /\ child = "reaped"
    BY <1>4 DEF SignalReaped, Escalate, EscalateTo, main_vars, lock_vars, child_vars, to
  <2>2. level' \in [Requesters -> Nat]
    BY <2>1, <1>a
  <2>3. (LifecycleType /\ PtyPlaces /\ ChildMutex /\ Knows /\ DeadHasNoTty)'
    BY <1>0, <1>b, <2>1, <2>2, ThreadStep
  <2>4. (Escalated /\ KillIsLast /\ ListenerLast)'
    BY <2>1, QuietStep
  <2> QED
    BY <2>3, <2>4 DEF LInv
<1>5. CASE SignalChild(t)
  <2>1. /\ Goto(t, "kill", to)
        /\ UNCHANGED <<listening, child, tty>>
        /\ level' = [level EXCEPT ![t] = @ + 1]
        /\ sigs' = sigs \cup {Signals[level[t] + 1]}
        /\ child_mu' = None
    BY <1>5 DEF SignalChild, SendSignal, Escalate, EscalateTo, main_vars, child_vars, to
  <2>2. /\ level' \in [Requesters -> Nat]
        /\ level'[t] = level[t] + 1
        /\ \A r \in Requesters : r # t => level'[r] = level[r]
    BY <2>1, <1>a
  <2>3. child # "reaped" /\ child_mu = t
    BY <1>0, <2>1 DEF LInv, Knows, ChildMutex, Goto
  <2>4. (LifecycleType /\ PtyPlaces /\ ChildMutex /\ Knows /\ DeadHasNoTty)'
    BY <1>0, <1>b, <2>1, <2>2, <2>3, ThreadStep
  <2>5. /\ level[t] = 0 => sigs' = sigs \cup {"SIGHUP"}
        /\ level[t] = 1 => sigs' = sigs \cup {"SIGTERM"}
        /\ sigs \subseteq sigs'
    BY <2>1 DEF Signals
  <2>6. Escalated'
    <3> SUFFICES ASSUME NEW r \in Requesters
                 PROVE  /\ level'[r] >= 1 => "SIGHUP" \in sigs'
                        /\ level'[r] >= 2 => "SIGTERM" \in sigs'
      BY DEF Escalated
    <3>1. CASE r # t
      BY <3>1, <2>2, <2>3, <2>5 DEF LInv, Escalated
    <3>2. CASE r = t
      BY <3>2, <1>a, <2>2, <2>3, <2>5 DEF LInv, Escalated
    <3> QED
      BY <3>1, <3>2
  <2>7. KillIsLast'
    <3>1. CASE level[t] >= 2
      BY <3>1, <1>a, <2>3, <2>5 DEF LInv, Escalated, KillIsLast
    <3>2. CASE level[t] < 2
      BY <3>2, <1>a, <2>5 DEF LInv, KillIsLast
    <3> QED
      BY <3>1, <3>2, <1>a
  <2> QED
    BY <2>1, <2>4, <2>6, <2>7 DEF LInv, ListenerLast
<1>6. CASE ReapLock(t)
  <2>1. /\ Goto(t, "reap", "waitpid")
        /\ UNCHANGED <<level, listening, child, tty, sigs>>
        /\ child_mu = None /\ child_mu' = t
    BY <1>6 DEF ReapLock, main_vars, child_vars
  <2>2. level' \in [Requesters -> Nat]
    BY <2>1, <1>a
  <2> QED
    BY <1>0, <2>1, <2>2, QuietThreadStep
<1>7. CASE ReapChild(t, "close")
  <2>1. /\ Goto(t, "waitpid", "close")
        /\ UNCHANGED <<level, listening, tty, sigs>>
        /\ child_mu' = None /\ child # "running" /\ child' = "reaped"
    BY <1>7 DEF ReapChild, ReapAndLeave, main_vars
  <2>2. level' \in [Requesters -> Nat] /\ child_mu = t
    BY <1>0, <2>1, <1>a DEF LInv, ChildMutex, Goto
  <2> QED
    BY <1>0, <2>1, <2>2, QuietThreadStep
<1>8. CASE CloseListener(t)
  <2> DEFINE back == IF t # Main THEN "done" ELSE IF status = 1 THEN "join" ELSE "check"
  <2>1. /\ Goto(t, "close", back)
        /\ UNCHANGED <<level, child_mu, child, tty, sigs>>
    BY <1>8 DEF CloseListener, lock_vars, child_vars
  <2>2. back \in {"done", "join", "check"}
    OBVIOUS
  <2> HIDE DEF back
  <2>3. child = "reaped" /\ level' \in [Requesters -> Nat]
    BY <1>0, <1>a, <2>1 DEF LInv, Knows, Goto
  <2>4. (LifecycleType /\ PtyPlaces /\ ChildMutex /\ Knows /\ DeadHasNoTty)'
    BY <1>0, <2>1, <2>2, <2>3, ThreadStep
  <2> QED
    BY <2>1, <2>3, <2>4 DEF LInv, Escalated, KillIsLast, ListenerLast
<1> QED
  BY <1>1, <1>2, <1>3, <1>4, <1>5, <1>6, <1>7, <1>8 DEF RequestStep

\* The main thread's steps.
LEMMA MainSteps ==
  ASSUME LInv, MainStep \/ Signal \/ AcceptFails
  PROVE  LInv'
<1>0. Main \in Threads /\ Main # Pty /\ Main \in Requesters /\ Pty \in Threads
  BY ThreadAssumption DEF Threads, Requesters
<1>a. level \in [Requesters -> Nat]
  BY DEF LInv, LifecycleType
<1>1. ASSUME NEW from, RequestShutdown(Main, from),
             UNCHANGED <<child_mu, child, tty, sigs, listening>>
      PROVE  LInv'
  <2>1. Goto(Main, from, "poll") /\ level' = [level EXCEPT ![Main] = 0]
    BY <1>1 DEF RequestShutdown
  <2>2. /\ level' \in [Requesters -> Nat]
        /\ \A r \in Requesters : level'[r] = level[r] \/ level'[r] = 0
    BY <1>0, <1>a, <2>1
  <2> QED
    BY <1>0, <1>1, <2>1, <2>2, Moves
<1>2. CASE MainServesSignal
  <2>1. RequestShutdown(Main, "check") /\ UNCHANGED <<child_mu, child, tty, sigs, listening>>
    BY <1>2 DEF MainServesSignal, ServeSignal, lock_vars, child_vars
  <2> QED
    BY <2>1, <1>1
<1>3. CASE AcceptFails
  <2>1. RequestShutdown(Main, "accept") /\ UNCHANGED <<child_mu, child, tty, sigs, listening>>
    BY <1>3 DEF AcceptFails, lock_vars, child_vars
  <2> QED
    BY <2>1, <1>1
<1>4. CASE MainChecks \/ MainEnters \/ MainLeaves
  <2>1. /\ UNCHANGED <<level, listening, child_mu, child, tty, sigs>>
        /\ \/ Goto(Main, "check", "enter") \/ Goto(Main, "enter", "accept")
           \/ Goto(Main, "accept", "join")
    BY <1>4 DEF MainChecks, MainEnters, MainLeaves, main_vars, lock_vars, child_vars
  <2> QED
    BY <1>0, <2>1, JustMoves
<1>5. CASE MainExits
  <2>1. /\ Goto(Main, "join", "exited") /\ pc[Pty] = "exit"
        /\ UNCHANGED <<level, listening, child_mu, child, tty, sigs>>
    BY <1>5 DEF MainExits, main_vars, lock_vars, child_vars
  <2>2. child' = "reaped" /\ level' \in [Requesters -> Nat]
    BY <1>0, <1>a, <2>1 DEF LInv, Knows
  <2> QED
    BY <1>0, <2>1, <2>2, QuietThreadStep
<1>6. CASE Signal
  <2>1. UNCHANGED <<level, listening, child_mu, child, tty, sigs>>
    BY <1>6 DEF Signal, lock_vars, child_vars
  <2>2. CASE pc[Main] = "accept"
    <3>1. Goto(Main, "accept", "check")
      BY <1>6, <2>2 DEF Signal, Goto
    <3> QED
      BY <1>0, <2>1, <3>1, JustMoves
  <2>3. CASE pc[Main] # "accept"
    <3>1. pc' = pc
      BY <1>6, <2>3 DEF Signal
    <3> QED
      BY <2>1, <3>1 DEF LInv, LifecycleType, PtyPlaces, ChildMutex, Knows, DeadHasNoTty,
                        Escalated, KillIsLast, ListenerLast
  <2> QED
    BY <2>2, <2>3
<1> QED
  BY <1>2, <1>3, <1>4, <1>5, <1>6 DEF MainStep

\* A connection is accepted: the one step that moves two threads.
LEMMA AcceptStep ==
  ASSUME LInv, NEW c \in Conn, AcceptConn(c)
  PROVE  LInv'
<1>0. Main \in Threads /\ c \in Threads /\ Main # Pty /\ c # Pty /\ c # Main
  BY ThreadAssumption DEF Threads
<1>1. UNCHANGED <<level, listening, child_mu, child, tty, sigs>>
  BY DEF AcceptConn, main_vars, lock_vars, child_vars
<1>2. PICK to \in {"intro", "done"} : pc' = [pc EXCEPT ![Main] = "check", ![c] = to]
  BY DEF AcceptConn
<1>3. /\ DOMAIN pc' = Threads
      /\ pc'[Main] = "check" /\ pc'[c] = to
      /\ \A u \in Threads : u \notin {Main, c} => pc'[u] = pc[u]
  BY <1>0, <1>2 DEF LInv, LifecycleType
<1>4. \A u \in Threads : pc'[u] = pc[u] \/ pc'[u] \in {"check", "intro", "done"}
  BY <1>2, <1>3
<1>5. pc'[Pty] = pc[Pty]
  BY <1>0, <1>3 DEF Threads
<1>6. (LifecycleType /\ PtyPlaces)'
  BY <1>1, <1>3, <1>5 DEF LInv, LifecycleType, PtyPlaces
<1>7. (ChildMutex /\ Knows)'
  BY <1>1, <1>4 DEF LInv, ChildMutex, Knows
<1> QED
  BY <1>1, <1>6, <1>7 DEF LInv, DeadHasNoTty, Escalated, KillIsLast, ListenerLast

\* The other steps of a connection's thread.
LEMMA ConnSteps ==
  ASSUME LInv, NEW c \in Conn,
         ControlShutdown(c) \/ ConnectionEnds(c) \/ Intro(c) \/ StdinFrame(c) \/ ConnStep(c)
  PROVE  LInv'
<1>0. c \in Threads /\ c # Pty /\ c \in Requesters
  BY ThreadAssumption DEF Threads, Requesters
<1>a. level \in [Requesters -> Nat]
  BY DEF LInv, LifecycleType
<1>1. CASE ControlShutdown(c)
  <2>1. UNCHANGED <<child_mu, child, tty, sigs, listening>>
    BY <1>1 DEF ControlShutdown, main_vars, lock_vars, child_vars
  <2>2. CASE Goto(c, "intro", "input") /\ UNCHANGED level
    BY <1>0, <2>1, <2>2, JustMoves
  <2>3. CASE RequestShutdown(c, "intro")
    <3>1. Goto(c, "intro", "poll") /\ level' = [level EXCEPT ![c] = 0]
      BY <2>3 DEF RequestShutdown
    <3>2. /\ level' \in [Requesters -> Nat]
          /\ \A r \in Requesters : level'[r] = level[r] \/ level'[r] = 0
      BY <1>0, <1>a, <3>1
    <3> QED
      BY <1>0, <2>1, <3>1, <3>2, Moves
  <2> QED
    BY <1>1, <2>2, <2>3 DEF ControlShutdown
<1>2. CASE ConnectionEnds(c) \/ Intro(c) \/ StdinFrame(c)
  <2>1. /\ UNCHANGED <<level, listening, child_mu, child, tty, sigs>>
        /\ \/ Goto(c, "intro", "done") \/ Goto(c, "loop", "done") \/ Goto(c, "intro", "loop")
           \/ Goto(c, "loop", "stdin")
    BY <1>2 DEF ConnectionEnds, Intro, StdinFrame, main_vars, lock_vars, child_vars
  <2> QED
    BY <1>0, <2>1, JustMoves
<1>3. CASE ConnStep(c)
  <2>1. /\ UNCHANGED <<level, listening, child_mu, child, tty, sigs>>
        /\ \/ Goto(c, "stdin", "stdin_write") \/ Goto(c, "stdin_write", "loop")
           \/ Goto(c, "stdin_write", "done") \/ Goto(c, "input", "input_write")
           \/ Goto(c, "input_write", "poll")
    BY <1>3 DEF ConnStep, StdinLock, StdinEnds, InputLock, InputEnds, WriteLock, WriteEnds,
                main_vars, child_vars
  <2> QED
    BY <1>0, <2>1, JustMoves
<1> QED
  BY <1>1, <1>2, <1>3

\* The PTY thread's steps.
LEMMA PtySteps ==
  ASSUME LInv, PtyStep
  PROVE  LInv'
<1>0. Pty \in Threads
  BY DEF Threads
<1>a. level \in [Requesters -> Nat]
  BY DEF LInv, LifecycleType
<1>1. CASE PtyEof
  <2>1. /\ Goto(Pty, "read", "reap") /\ tty = {}
        /\ UNCHANGED <<level, child_mu, child, tty, sigs>>
    BY <1>1 DEF PtyEof, PtyEnds, lock_vars, child_vars
  <2>2. level' \in [Requesters -> Nat]
    BY <1>a, <2>1
  <2>3. (LifecycleType /\ PtyPlaces /\ ChildMutex /\ Knows /\ DeadHasNoTty)'
    BY <1>0, <2>1, <2>2, ThreadStep
  <2> QED
    BY <2>1, <2>3 DEF LInv, Escalated, KillIsLast, ListenerLast
<1>2. CASE ReapLock(Pty)
  <2>1. /\ Goto(Pty, "reap", "waitpid")
        /\ UNCHANGED <<level, listening, child, tty, sigs>>
        /\ child_mu = None /\ child_mu' = Pty
    BY <1>2 DEF ReapLock, main_vars, child_vars
  <2>2. level' \in [Requesters -> Nat]
    BY <1>a, <2>1
  <2> QED
    BY <1>0, <2>1, <2>2, QuietThreadStep
<1>3. CASE ReapChild(Pty, "exit")
  <2>1. /\ Goto(Pty, "waitpid", "exit")
        /\ UNCHANGED <<level, listening, tty, sigs>>
        /\ child_mu' = None /\ child # "running" /\ child' = "reaped"
    BY <1>3 DEF ReapChild, ReapAndLeave, main_vars
  <2>2. level' \in [Requesters -> Nat] /\ child_mu = Pty
    BY <1>0, <1>a, <2>1 DEF LInv, ChildMutex, Goto
  <2> QED
    BY <1>0, <2>1, <2>2, QuietThreadStep
<1> QED
  BY <1>1, <1>2, <1>3 DEF PtyStep

\* The invariant is inductive.
LEMMA LInvNext == LInv /\ [Next]_vars => LInv'
<1> SUFFICES ASSUME LInv, [Next]_vars PROVE LInv'
  OBVIOUS
<1>1. CASE UNCHANGED vars
  BY <1>1 DEF vars, main_vars, lock_vars, child_vars, LInv, LifecycleType, PtyPlaces, ChildMutex,
              Knows, DeadHasNoTty, Escalated, KillIsLast, ListenerLast
<1>2. CASE MainStep \/ Signal \/ AcceptFails
  BY <1>2, MainSteps
<1>3. CASE PtyStep
  BY <1>3, PtySteps
<1>4. CASE ChildStep
  BY <1>4, ChildSteps
<1>5. CASE \E c \in Conn : \/ AcceptConn(c) \/ ControlShutdown(c) \/ ConnectionEnds(c)
                           \/ Intro(c) \/ StdinFrame(c) \/ ConnStep(c)
  BY <1>5, AcceptStep, ConnSteps
<1>6. CASE \E t \in Conn \cup {Main} : RequestStep(t)
  BY <1>6, RequestSteps DEF Requesters
<1> QED
  BY <1>1, <1>2, <1>3, <1>4, <1>5, <1>6 DEF Next

-----------------------------------------------------------------------------
(***************************************************************************)
(* The theorems.                                                           *)
(***************************************************************************)

\* The invariant holds in every state of every run of the server.
THEOREM LifecycleInvariant == Spec => []LInv
  BY LInvInit, LInvNext, PTL DEF Spec

\* server_signal_child sends SIGKILL only after SIGHUP and SIGTERM, however
\* many threads run server_request_shutdown at once.
THEOREM KillIsLastHolds == Spec => []KillIsLast
<1>1. LInv => KillIsLast
  BY DEF LInv
<1> QED
  BY <1>1, LifecycleInvariant, PTL

\* server_close_listener runs only once the child is reaped or its terminal is
\* closed.
THEOREM ListenerLastHolds == Spec => []ListenerLast
<1>1. LInv => ListenerLast
  BY DEF LInv
<1> QED
  BY <1>1, LifecycleInvariant, PTL

\* main returns only after some waitpid() has reaped the child.
THEOREM NoOrphanHolds == Spec => []NoOrphan
<1>1. LInv => NoOrphan
  BY DEF LInv, Knows, NoOrphan, Exited, Threads
<1> QED
  BY <1>1, LifecycleInvariant, PTL

\* The kill() of server_signal_child never reaches a pid that was reaped: the
\* test of child_reaped and the kill are under one hold of child_mu, and so is
\* every waitpid().
THEOREM NoStaleSignalHolds == Spec => NoStaleSignal
<1> DEFINE Quiet == child = "reaped" => UNCHANGED sigs
<1>1. LInv /\ [Next]_vars => [Quiet]_vars
  <2> SUFFICES ASSUME LInv, [Next]_vars, child = "reaped" PROVE UNCHANGED sigs
    BY DEF vars
  <2> USE DEF main_vars, lock_vars, child_vars
  <2>1. CASE UNCHANGED vars
    BY <2>1 DEF vars
  <2>2. CASE MainStep \/ Signal \/ AcceptFails \/ PtyStep \/ ChildStep
    BY <2>2 DEF MainStep, MainServesSignal, ServeSignal, MainChecks, MainEnters, MainLeaves,
                MainExits, Signal, AcceptFails, PtyStep, PtyEof, PtyEnds, ReapLock, ReapChild,
                ReapAndLeave, ChildStep, ChildExits, ChildLeavesTty, BackgroundStarts,
                BackgroundEnds, ReadingChanges
  <2>3. CASE \E c \in Conn : \/ AcceptConn(c) \/ ControlShutdown(c) \/ ConnectionEnds(c)
                             \/ Intro(c) \/ StdinFrame(c) \/ ConnStep(c)
    BY <2>3 DEF AcceptConn, ControlShutdown, ConnectionEnds, Intro, StdinFrame, ConnStep,
                StdinLock, StdinEnds, InputLock, InputEnds, WriteLock, WriteEnds
  <2>4. CASE \E t \in Conn \cup {Main} : RequestStep(t)
    <3> PICK t \in Conn \cup {Main} : RequestStep(t)
      BY <2>4
    <3>1. ~SignalChild(t)
      <4> SUFFICES ASSUME SignalChild(t) PROVE FALSE
        OBVIOUS
      <4>1. pc[t] = "kill"
        BY DEF SignalChild, SendSignal, Escalate, EscalateTo, Goto
      <4> QED
        BY <4>1 DEF LInv, Knows, Threads
    <3> QED
      BY <3>1 DEF RequestStep, PollDone, PollTimeout, SignalLock, SignalTest, SignalReaped,
                  ReapLock, ReapChild, ReapAndLeave, CloseListener
  <2> QED
    BY <2>1, <2>2, <2>3, <2>4 DEF Next
<1> QED
  BY <1>1, LifecycleInvariant, PTL DEF Spec, NoStaleSignal

-----------------------------------------------------------------------------
(***************************************************************************)
(* Type correctness.  That no request goes beyond the third signal needs   *)
(* Escalation: a level of 3 belongs to a request that is past its signals  *)
(* (and the next request starts at 0 again).                               *)
(***************************************************************************)
Past == {"reap", "waitpid", "close", "done", "check", "enter", "accept", "join", "exited"}
Places == Requests \cup {"check", "enter", "accept", "join", "exited", "read", "exit", "none", "intro",
                        "loop", "stdin", "stdin_write", "input", "input_write", "done"}

Escalation ==
    /\ pc \in [Threads -> Places]
    /\ level \in [Requesters -> 0 .. 3]
    /\ \A t \in Requesters : level[t] = 3 => pc[t] \in Past

Shapes ==
    /\ listening \in BOOLEAN
    /\ status \in {0, 1}
    /\ g_shutdown_requested \in BOOLEAN
    /\ signals \in 0 .. MaxSignals
    /\ pty_mu \in Conn \cup {None}
    /\ tty \subseteq {"child", "background"}
    /\ reading \in BOOLEAN
    /\ sigs \subseteq {"SIGHUP", "SIGTERM", "SIGKILL"}

\* A thread moves and the levels stay.
LEMMA EscalationMove ==
  ASSUME Escalation, NEW t \in Threads, NEW from, NEW to \in Places, Goto(t, from, to), UNCHANGED level,
         from \in Past => to \in Past
  PROVE  Escalation'
  BY DEF Escalation, Goto, Requesters, Threads

\* A request begins.
LEMMA EscalationBegins ==
  ASSUME Escalation, NEW t \in Requesters, NEW from, RequestShutdown(t, from)
  PROVE  Escalation'
  BY DEF Escalation, RequestShutdown, Goto, Requesters, Threads, Places, Requests

\* A request goes on to its next signal, or past the last one.
LEMMA EscalationGoesOn ==
  ASSUME Escalation, NEW t \in Requesters, NEW from \in {"signal", "kill"}, Escalate(t, from, 1)
  PROVE  Escalation'
<1> USE DEF Escalate, EscalateTo, Goto
<1>1. level[t] \in 0 .. 2
  BY DEF Escalation, Past
<1>2. level'[t] = level[t] + 1 /\ \A u \in Requesters : u # t => level'[u] = level[u]
  BY DEF Escalation
<1>3. level' \in [Requesters -> 0 .. 3]
  BY <1>1, <1>2 DEF Escalation
<1>4. t \in Threads
  BY DEF Requesters, Threads
<1>5. pc'[t] = (IF level[t] + 1 >= 3 THEN "reap" ELSE "poll") /\ \A u \in Threads : u # t => pc'[u] = pc[u]
  BY <1>4 DEF Escalation
<1>6. pc' \in [Threads -> Places]
  BY <1>4 DEF Escalation, Places, Requests
<1>7. level'[t] = 3 => pc'[t] \in Past
  BY <1>1, <1>2, <1>5 DEF Past
<1> QED
  BY <1>2, <1>3, <1>5, <1>6, <1>7 DEF Escalation, Requesters, Threads

\* Every step keeps the levels and places in order.
LEMMA EscalationStep == Escalation /\ [Next]_vars => Escalation'
<1> SUFFICES ASSUME Escalation, [Next]_vars PROVE Escalation'
  OBVIOUS
<1>0. Main \in Threads /\ Pty \in Threads /\ Main \in Requesters
      /\ (\A c \in Conn : c \in Threads /\ c \in Requesters)
      /\ \A t \in Requesters : t \in Threads
  BY DEF Threads, Requesters
<1>1. CASE UNCHANGED vars \/ ChildStep
  <2>1. UNCHANGED <<pc, level>>
    BY <1>1 DEF vars, ChildStep, ChildExits, ChildLeavesTty, BackgroundStarts, BackgroundEnds, ReadingChanges
  <2> QED BY <2>1 DEF Escalation
<1>2. CASE MainServesSignal \/ AcceptFails
  <2>1. \E from \in {"check", "accept"} : RequestShutdown(Main, from)
    BY <1>2 DEF MainServesSignal, ServeSignal, AcceptFails
  <2> QED BY <1>0, <2>1, EscalationBegins
<1>3. CASE MainChecks \/ MainEnters \/ MainLeaves \/ MainExits
  <2>1. /\ UNCHANGED level
        /\ \E from \in Places :
           \E to \in {"enter", "accept", "join", "exited"} : Goto(Main, from, to)
    BY <1>3 DEF MainChecks, MainEnters, MainLeaves, MainExits, Places
  <2>2. {"enter", "accept", "join", "exited"} \subseteq Past /\ Past \subseteq Places
    BY DEF Past, Places, Requests
  <2> QED BY <1>0, <2>1, <2>2, EscalationMove
<1>4. CASE Signal
  <2>1. CASE pc' = pc
    BY <1>4, <2>1 DEF Signal, Escalation
  <2>2. CASE pc[Main] = "accept" /\ pc' = [pc EXCEPT ![Main] = "check"]
    BY <1>0, <1>4, <2>2, EscalationMove DEF Signal, Goto, Past, Places
  <2> QED BY <1>4, <2>1, <2>2 DEF Signal
<1>5. CASE PtyStep
  <2>1. /\ UNCHANGED level
        /\ \E from \in {"read", "reap", "waitpid"} :
           \E to \in {"reap", "waitpid", "exit"} : Goto(Pty, from, to)
    BY <1>5 DEF PtyStep, PtyEof, PtyEnds, ReapLock, ReapChild, ReapAndLeave
  <2>2. pc' \in [Threads -> Places]
    BY <1>0, <2>1 DEF Escalation, Goto, Places, Requests
  <2>3. \A t \in Requesters : pc'[t] = pc[t]
    BY <1>0, <2>1, ThreadAssumption DEF Escalation, Goto, Requesters
  <2> QED BY <2>1, <2>2, <2>3 DEF Escalation
<1>6. ASSUME NEW c \in Conn, AcceptConn(c) PROVE Escalation'
  <2>1. PICK to \in {"intro", "done"} : pc' = [pc EXCEPT ![Main] = "check", ![c] = to]
    BY <1>6 DEF AcceptConn
  <2>2. UNCHANGED level /\ pc[c] = "none"
    BY <1>6 DEF AcceptConn
  <2>3. level[c] # 3
    BY <1>0, <2>2 DEF Escalation, Past
  <2>4. pc' \in [Threads -> Places] /\ pc'[Main] \in {"check", to}
        /\ \A t \in Requesters \ {c, Main} : pc'[t] = pc[t]
    BY <1>0, <2>1 DEF Escalation, Places, Requests
  <2>5. Main # c
    BY ThreadAssumption
  <2>6. pc'[Main] = "check"
    BY <1>0, <2>1, <2>5 DEF Escalation
  <2> QED BY <2>2, <2>3, <2>4, <2>6 DEF Escalation, Past
<1>7. ASSUME NEW c \in Conn,
             ControlShutdown(c) \/ ConnectionEnds(c) \/ Intro(c) \/ StdinFrame(c) \/ ConnStep(c)
      PROVE  Escalation'
  <2>1. \/ RequestShutdown(c, "intro")
        \/ /\ UNCHANGED level
           /\ \E from \in {"intro", "loop", "stdin", "stdin_write", "input", "input_write"} :
              \E to \in {"input", "done", "loop", "stdin", "stdin_write", "input_write", "poll"} : Goto(c, from, to)
    BY <1>7 DEF ControlShutdown, ConnectionEnds, Intro, StdinFrame, ConnStep, StdinLock, StdinEnds,
         InputLock, InputEnds, WriteLock, WriteEnds
  <2>2. {"input", "done", "loop", "stdin", "stdin_write", "input_write", "poll"} \subseteq Places
    BY DEF Places, Requests
  <2>3. {"intro", "loop", "stdin", "stdin_write", "input", "input_write"} \cap Past = {}
    BY DEF Past
  <2> QED BY <1>0, <2>1, <2>2, <2>3, EscalationMove, EscalationBegins
<1>8. ASSUME NEW t \in Requesters, RequestStep(t) PROVE Escalation'
  <2>1. CASE SignalReaped(t) \/ SignalChild(t)
    <3>1. \E from \in {"signal", "kill"} : Escalate(t, from, 1)
      BY <2>1 DEF SignalReaped, SignalChild, SendSignal
    <3> QED BY <3>1, EscalationGoesOn
  <2>2. CASE PollDone(t) \/ PollTimeout(t) \/ SignalLock(t)
    <3>1. /\ UNCHANGED level
          /\ \E from \in {"poll", "signal"} :
             \E to \in {"close", "signal", "kill"} : Goto(t, from, to)
      BY <2>2 DEF PollDone, PollTimeout, SignalLock, SignalTest
    <3>2. {"close", "signal", "kill"} \subseteq Places /\ {"poll", "signal"} \cap Past = {}
      BY DEF Places, Requests, Past
    <3> QED BY <1>0, <3>1, <3>2, EscalationMove
  <2>3. CASE ReapLock(t) \/ ReapChild(t, "close") \/ CloseListener(t)
    <3>1. /\ UNCHANGED level
          /\ \E from \in Past :
             \E to \in {"waitpid", "close", "done", "join", "check"} : Goto(t, from, to)
      BY <2>3 DEF ReapLock, ReapChild, ReapAndLeave, CloseListener, Past
    <3>2. {"waitpid", "close", "done", "join", "check"} \subseteq Past /\ Past \subseteq Places
      BY DEF Places, Requests, Past
    <3> QED BY <1>0, <3>1, <3>2, EscalationMove
  <2> QED BY <1>8, <2>1, <2>2, <2>3 DEF RequestStep
<1> QED
  BY <1>1, <1>2, <1>3, <1>4, <1>5, <1>6, <1>7, <1>8, Zenon DEF Next, MainStep, Requesters

\* The other variables keep their shapes.
LEMMA ShapesStep == Shapes /\ Escalation /\ [Next]_vars => Shapes'
<1> SUFFICES ASSUME Shapes, Escalation, [Next]_vars PROVE Shapes'
  OBVIOUS
<1> USE DEF main_vars, lock_vars, child_vars
<1>1. CASE UNCHANGED vars
  BY <1>1 DEF vars, Shapes
<1>2. CASE MainStep \/ Signal \/ AcceptFails \/ PtyStep
  <2>1. /\ UNCHANGED <<pty_mu, tty, reading, sigs>>
        /\ listening' = listening \/ listening' = FALSE
        /\ status' = status \/ status' = 1
        /\ g_shutdown_requested' = g_shutdown_requested \/ g_shutdown_requested' = TRUE
              \/ g_shutdown_requested' = FALSE
        /\ signals' = signals \/ (signals > 0 /\ signals' = signals - 1)
    BY <1>2 DEF MainStep, MainServesSignal, ServeSignal, MainChecks, MainEnters, MainLeaves, MainExits, Signal,
         AcceptFails, PtyStep, PtyEof, PtyEnds, ReapLock, ReapChild, ReapAndLeave
  <2>2. signals' \in 0 .. MaxSignals
    BY <2>1, BoundAssumption DEF Shapes
  <2>3. listening' \in BOOLEAN /\ g_shutdown_requested' \in BOOLEAN /\ reading' \in BOOLEAN
    BY <2>1, Zenon DEF Shapes
  <2> QED BY <2>1, <2>2, <2>3 DEF Shapes
<1>3. CASE ChildStep
  <2>1. /\ UNCHANGED <<listening, status, g_shutdown_requested, signals, pty_mu, sigs>>
        /\ tty' \subseteq tty \cup {"background"}
    BY <1>3 DEF ChildStep, ChildExits, ChildLeavesTty, BackgroundStarts, BackgroundEnds, ReadingChanges
  <2>2. reading' = reading \/ reading' = ~reading
    BY <1>3, Zenon DEF ChildStep, ChildExits, ChildLeavesTty, BackgroundStarts, BackgroundEnds, ReadingChanges
  <2>3. reading' \in BOOLEAN
    BY <2>2, Zenon DEF Shapes
  <2> QED BY <2>1, <2>3 DEF Shapes
<1>4. ASSUME NEW c \in Conn,
             \/ AcceptConn(c) \/ ControlShutdown(c) \/ ConnectionEnds(c)
             \/ Intro(c) \/ StdinFrame(c) \/ ConnStep(c)
      PROVE  Shapes'
  <2>1. /\ UNCHANGED <<listening, status, g_shutdown_requested, signals, tty, reading, sigs>>
        /\ pty_mu' \in {pty_mu, c, None}
    BY <1>4 DEF AcceptConn, ControlShutdown, ConnectionEnds, Intro, StdinFrame, ConnStep, StdinLock,
         StdinEnds, InputLock, InputEnds, WriteLock, WriteEnds
  <2> QED BY <2>1 DEF Shapes
<1>5. ASSUME NEW t \in Conn \cup {Main}, RequestStep(t) PROVE Shapes'
  <2>1. /\ UNCHANGED <<status, g_shutdown_requested, signals, pty_mu, tty, reading>>
        /\ listening' = listening \/ listening' = FALSE
    BY <1>5 DEF RequestStep, PollDone, PollTimeout, SignalLock, SignalTest, SignalReaped, SignalChild, SendSignal,
         ReapLock, ReapChild, ReapAndLeave, CloseListener
  <2>2. sigs' = sigs \/ SignalChild(t)
    BY <1>5 DEF RequestStep, PollDone, PollTimeout, SignalLock, SignalTest, SignalReaped,
         ReapLock, ReapChild, ReapAndLeave, CloseListener
  <2>3. sigs' \subseteq {"SIGHUP", "SIGTERM", "SIGKILL"}
    <3>1. CASE SignalChild(t)
      <4>1. level[t] \in 0 .. 2
        BY <3>1 DEF SignalChild, SendSignal, Escalate, EscalateTo, Goto, Escalation, Past, Requesters
      <4>2. Signals[level[t] + 1] \in {"SIGHUP", "SIGTERM", "SIGKILL"}
        <5>1. level[t] + 1 \in {1, 2, 3}
          BY <4>1
        <5> QED BY <5>1 DEF Signals
      <4> QED BY <3>1, <4>2 DEF SignalChild, SendSignal, Shapes
    <3> QED BY <2>2, <3>1 DEF Shapes
  <2>4. listening' \in BOOLEAN
    BY <2>1, Zenon DEF Shapes
  <2> QED BY <2>1, <2>3, <2>4 DEF Shapes
<1> QED
  BY <1>1, <1>2, <1>3, <1>4, <1>5, Zenon DEF Next

\* The server's threads, locks and child stay in their states; in particular
\* no request signals beyond SIGKILL.
THEOREM LifecycleTypeOKHolds == Spec => []TypeOK
<1>1. Init => Escalation /\ Shapes
  <2> SUFFICES ASSUME Init PROVE Escalation /\ Shapes
    OBVIOUS
  <2>1. Escalation
    <3>1. level \in [Requesters -> 0 .. 3] /\ \A t \in Requesters : level[t] # 3
      BY DEF Init, Requesters
    <3>2. pc \in [Threads -> Places]
      BY DEF Init, Places
    <3> QED BY <3>1, <3>2 DEF Escalation
  <2>2. signals \in 0 .. MaxSignals
    BY BoundAssumption DEF Init
  <2>3. listening \in BOOLEAN /\ g_shutdown_requested \in BOOLEAN /\ reading \in BOOLEAN
    BY Zenon DEF Init
  <2> QED BY <2>1, <2>2, <2>3 DEF Init, Shapes
<1>2. LInv /\ Escalation /\ Shapes => TypeOK
  BY DEF LInv, LifecycleType, Escalation, Shapes, TypeOK, Requesters, Places
<1> QED
  BY <1>1, <1>2, EscalationStep, ShapesStep, LifecycleInvariant, PTL DEF Spec
=============================================================================
