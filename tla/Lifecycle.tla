----------------------------- MODULE Lifecycle -----------------------------
(***************************************************************************)
(* How 0pty-server (src/server.c) stops.  A signal, a CONTROL_SHUTDOWN     *)
(* frame or a failing accept() makes a thread run server_request_shutdown, *)
(* which writes the graceful input to the PTY, waits, and escalates from   *)
(* SIGHUP to SIGKILL; the end of the PTY makes the PTY thread close the    *)
(* listener and reap the child; main leaves when the listener is closed    *)
(* and the PTY thread has ended.                                           *)
(*                                                                         *)
(* pty_mu and child_mu are modelled because a thread can block with them   *)
(* held: in a write() to a PTY that nobody reads, in a waitpid() for a     *)
(* child that does not die.  The deadlines of server_wait_child_deadline   *)
(* (2000, 1000 and 1000 ms) are choices: a poll that finds the child alive *)
(* is followed by another one or by the timeout.  server_shutdown_clients  *)
(* and what it does to the clients' threads is part of Fanout.             *)
(***************************************************************************)
EXTENDS Naturals, FiniteSets

CONSTANTS
    Conn,   \* connections, each with a thread
    Main,   \* the main thread
    Pty,    \* the PTY thread
    None,   \* the owner of a mutex nobody holds
    MaxSignals, \* bound on the signals the server gets
    Habits  \* what the child may do: "ignores_input" (it stops reading its
            \* terminal), "leaves_tty" (it closes it and lives on),
            \* "background" (its descendants keep the terminal open)

ASSUME ThreadAssumption == /\ Main # Pty /\ {Main, Pty} \cap Conn = {}
                           /\ None \notin Conn \cup {Main, Pty}
ASSUME BoundAssumption == MaxSignals \in Nat
ASSUME HabitsAssumption == Habits \subseteq {"ignores_input", "leaves_tty", "background"}

VARIABLES
    pc,         \* where each thread stands
    level,      \* the signals a shutdown request has gone through: 0 .. 3
    listening,  \* srv->listen_fd >= 0
    status,     \* main's exit status
    g_shutdown_requested,
    signals,    \* how many signals may still come
    child_mu,
    pty_mu,
    child,      \* "running", "zombie" or "reaped": srv->child_reaped is set
    tty,        \* who has the terminal's slave side open
    reading,    \* whether the terminal's input is being read
    sigs        \* the signals that were sent to srv->child_pid

child_vars == <<child, tty, reading>>
main_vars  == <<listening, status, g_shutdown_requested, signals>>
lock_vars  == <<child_mu, pty_mu>>
vars == <<pc, level, main_vars, lock_vars, child_vars, sigs>>

Threads == Conn \cup {Main, Pty}

\* The order of server_request_shutdown.
Signals == <<"SIGHUP", "SIGTERM", "SIGKILL">>

Init ==
    /\ pc = [t \in Threads |-> IF t = Main THEN "check" ELSE IF t = Pty THEN "read" ELSE "none"]
    /\ level = [t \in Conn \cup {Main} |-> 0]
    /\ listening = TRUE
    /\ status = 0
    /\ g_shutdown_requested = FALSE
    /\ signals = MaxSignals
    /\ child_mu = None
    /\ pty_mu = None
    /\ child = "running"
    /\ tty = {"child"}
    /\ reading = TRUE
    /\ sigs = {}

Goto(t, from, to) == pc[t] = from /\ pc' = [pc EXCEPT ![t] = to]

-----------------------------------------------------------------------------
(***************************************************************************)
(* The child.                                                              *)
(***************************************************************************)
ChildExits ==
    /\ child = "running"
    /\ child' = "zombie"
    /\ tty' = tty \ {"child"}
    /\ UNCHANGED <<pc, level, main_vars, lock_vars, reading, sigs>>

\* SIGKILL cannot be ignored.
ChildKilled == "SIGKILL" \in sigs /\ ChildExits

ChildLeavesTty ==
    /\ "leaves_tty" \in Habits
    /\ child = "running"
    /\ tty' = tty \ {"child"}
    /\ UNCHANGED <<pc, level, main_vars, lock_vars, child, reading, sigs>>

BackgroundStarts ==
    /\ "background" \in Habits
    /\ "child" \in tty
    /\ tty' = tty \cup {"background"}
    /\ UNCHANGED <<pc, level, main_vars, lock_vars, child, reading, sigs>>

BackgroundEnds ==
    /\ "background" \in tty
    /\ tty' = tty \ {"background"}
    /\ UNCHANGED <<pc, level, main_vars, lock_vars, child, reading, sigs>>

ReadingChanges ==
    /\ "ignores_input" \in Habits
    /\ reading' = ~reading
    /\ UNCHANGED <<pc, level, main_vars, lock_vars, child, tty, sigs>>

-----------------------------------------------------------------------------
(***************************************************************************)
(* The main thread.                                                        *)
(***************************************************************************)

\* on_shutdown_signal.  It interrupts accept(), but not the code before it,
\* nor the waits of server_request_shutdown and pthread_join, which go on.
Signal ==
    /\ signals > 0
    /\ signals' = signals - 1
    /\ g_shutdown_requested' = TRUE
    /\ pc' = IF pc[Main] = "accept" THEN [pc EXCEPT ![Main] = "check"] ELSE pc
    /\ UNCHANGED <<level, listening, status, lock_vars, child_vars, sigs>>

\* server_request_shutdown without input.
RequestShutdown(t, from) ==
    /\ Goto(t, from, "poll")
    /\ level' = [level EXCEPT ![t] = 0]

ServeSignal(flag) ==
    /\ g_shutdown_requested
    /\ g_shutdown_requested' = flag
    /\ RequestShutdown(Main, "check")
    /\ UNCHANGED <<listening, status, signals, lock_vars, child_vars, sigs>>

\* Faulty variant: the flag is not reset.
MainServesSignal_NoReset == ServeSignal(TRUE)

MainServesSignal == ServeSignal(FALSE)

\* The flag was not set; a signal from here on finds main on its way to
\* accept().
MainChecks ==
    /\ ~g_shutdown_requested
    /\ Goto(Main, "check", "enter")
    /\ UNCHANGED <<level, main_vars, lock_vars, child_vars, sigs>>

MainEnters ==
    /\ Goto(Main, "enter", "accept")
    /\ UNCHANGED <<level, main_vars, lock_vars, child_vars, sigs>>

\* accept() returns a connection and server_add_client gives it a thread, or
\* cannot (the connection is then closed).
AcceptConn(c) ==
    /\ listening
    /\ pc[Main] = "accept"
    /\ pc[c] = "none"
    /\ \E to \in {"intro", "done"} : pc' = [pc EXCEPT ![Main] = "check", ![c] = to]
    /\ UNCHANGED <<level, main_vars, lock_vars, child_vars, sigs>>

\* EBADF or EINVAL
MainLeaves ==
    /\ ~listening
    /\ Goto(Main, "accept", "join")
    /\ UNCHANGED <<level, main_vars, lock_vars, child_vars, sigs>>

\* An error that is not one of those accept() is retried after.
AcceptFails ==
    /\ listening
    /\ status' = 1
    /\ RequestShutdown(Main, "accept")
    /\ UNCHANGED <<listening, g_shutdown_requested, signals, lock_vars, child_vars, sigs>>

\* pthread_join, then return from main.
MainExits ==
    /\ pc[Pty] = "exit"
    /\ Goto(Main, "join", "exited")
    /\ UNCHANGED <<level, main_vars, lock_vars, child_vars, sigs>>

-----------------------------------------------------------------------------
(***************************************************************************)
(* Writes to the PTY, with pty_mu held until all is written.               *)
(***************************************************************************)
WriteLock(t, from, to) ==
    /\ pty_mu = None
    /\ pty_mu' = t
    /\ Goto(t, from, to)
    /\ UNCHANGED <<level, main_vars, child_mu, child_vars, sigs>>

\* All is written, or the terminal is gone.
WriteEnds(t, from, done, failed) ==
    /\ \/ reading /\ tty # {} /\ Goto(t, from, done)
       \/ tty = {} /\ Goto(t, from, failed)
    /\ pty_mu' = None
    /\ UNCHANGED <<level, main_vars, child_mu, child_vars, sigs>>

-----------------------------------------------------------------------------
(***************************************************************************)
(* The thread of a connection.                                             *)
(***************************************************************************)

\* A valid HELLO or RECONNECT: server_resize_pty takes pty_mu for a moment.
Intro(c) ==
    /\ pty_mu = None
    /\ Goto(c, "intro", "loop")
    /\ UNCHANGED <<level, main_vars, lock_vars, child_vars, sigs>>

\* A valid CONTROL_SHUTDOWN, without or with graceful input.
ControlShutdown(c) ==
    /\ \/ RequestShutdown(c, "intro")
       \/ Goto(c, "intro", "input") /\ UNCHANGED level
    /\ UNCHANGED <<main_vars, lock_vars, child_vars, sigs>>

\* Any other first frame, or none; in the loop, the end of the frames.
ConnectionEnds(c) ==
    /\ Goto(c, "intro", "done") \/ Goto(c, "loop", "done")
    /\ UNCHANGED <<level, main_vars, lock_vars, child_vars, sigs>>

\* A RESIZE frame needs pty_mu too; the size itself is not modelled.
StdinFrame(c) ==
    /\ Goto(c, "loop", "stdin")
    /\ UNCHANGED <<level, main_vars, lock_vars, child_vars, sigs>>

StdinLock(c) == WriteLock(c, "stdin", "stdin_write")
StdinEnds(c) == WriteEnds(c, "stdin_write", "loop", "done")
InputLock(c) == WriteLock(c, "input", "input_write")
InputEnds(c) == WriteEnds(c, "input_write", "poll", "poll")

-----------------------------------------------------------------------------
(***************************************************************************)
(* server_request_shutdown, from its first wait on.                        *)
(***************************************************************************)

\* server_poll_child_locked finds the child dead and reaps it ...
PollDone(t) ==
    /\ child_mu = None
    /\ child # "running"
    /\ child' = "reaped"
    /\ Goto(t, "poll", "close")
    /\ UNCHANGED <<level, main_vars, lock_vars, tty, reading, sigs>>

\* ... or finds it alive when the deadline has passed.
PollTimeout(t) ==
    /\ child_mu = None
    /\ child = "running"
    /\ Goto(t, "poll", "signal")
    /\ UNCHANGED <<level, main_vars, lock_vars, child_vars, sigs>>

\* server_signal_child: the test of child_reaped, then the kill(), both with
\* child_mu held.
SignalTest(t, holder) ==
    /\ child_mu = None
    /\ child # "reaped"
    /\ child_mu' = holder
    /\ Goto(t, "signal", "kill")
    /\ UNCHANGED <<level, main_vars, pty_mu, child_vars, sigs>>

\* Faulty variant: child_mu is not held.
SignalLock_NoMutex(t) == SignalTest(t, None)

SignalLock(t) == SignalTest(t, t)

\* After SIGKILL, server_wait_child_blocking; after the others, a wait with a
\* deadline.
EscalateTo(t, from, step, last) ==
    /\ Goto(t, from, IF level[t] + step >= 3 THEN last ELSE "poll")
    /\ level' = [level EXCEPT ![t] = @ + step]

\* Faulty variant: after SIGKILL the child is not waited for.
Escalate_NoWait(t, from, step) == EscalateTo(t, from, step, "close")

Escalate(t, from, step) == EscalateTo(t, from, step, "reap")

SignalReaped(t) ==
    /\ child_mu = None
    /\ child = "reaped"
    /\ Escalate(t, "signal", 1)
    /\ UNCHANGED <<main_vars, lock_vars, child_vars, sigs>>

SendSignal(t, step) ==
    /\ Escalate(t, "kill", step)
    /\ sigs' = sigs \cup {Signals[level[t] + 1]}
    /\ child_mu' = None
    /\ UNCHANGED <<main_vars, pty_mu, child_vars>>

\* Faulty variant: two levels at once.
SignalChild_Skips(t) == SendSignal(t, 2)

SignalChild(t) == SendSignal(t, 1)

\* server_wait_child_blocking: child_mu is held in waitpid().
ReapLock(t) ==
    /\ child_mu = None
    /\ child_mu' = t
    /\ Goto(t, "reap", "waitpid")
    /\ UNCHANGED <<level, main_vars, pty_mu, child_vars, sigs>>

ReapAndLeave(t, to, holder) ==
    /\ child # "running"
    /\ child' = "reaped"
    /\ child_mu' = holder
    /\ Goto(t, "waitpid", to)
    /\ UNCHANGED <<level, main_vars, pty_mu, tty, reading, sigs>>

\* Faulty variant: child_mu is not given back.
ReapChild_KeepsMutex(t, to) == ReapAndLeave(t, to, t)

ReapChild(t, to) == ReapAndLeave(t, to, None)

\* server_close_listener, server_shutdown_clients, and the return to the
\* caller: main accepts again unless accept() had failed.
CloseListener(t) ==
    /\ listening' = FALSE
    /\ Goto(t, "close", IF t # Main THEN "done" ELSE IF status = 1 THEN "join" ELSE "check")
    /\ UNCHANGED <<level, status, g_shutdown_requested, signals, lock_vars, child_vars, sigs>>

-----------------------------------------------------------------------------
(***************************************************************************)
(* The PTY thread: read() fails once nobody has the slave side open.  The  *)
(* broadcasts before that are modelled in Fanout.                          *)
(***************************************************************************)
PtyEnds(to, open) ==
    /\ tty = {}
    /\ Goto(Pty, "read", to)
    /\ listening' = open
    /\ UNCHANGED <<level, status, g_shutdown_requested, signals, lock_vars, child_vars, sigs>>

\* Faulty variants: the child is not waited for; the listener stays open.
PtyEof_NoWait == PtyEnds("exit", FALSE)
PtyEof_KeepsListener == PtyEnds("reap", listening)

PtyEof == PtyEnds("reap", FALSE)

-----------------------------------------------------------------------------
MainStep == \/ MainServesSignal \/ MainChecks \/ MainEnters \/ MainLeaves \/ MainExits

RequestStep(t) == \/ PollDone(t) \/ PollTimeout(t) \/ SignalLock(t) \/ SignalReaped(t)
                  \/ SignalChild(t) \/ ReapLock(t) \/ ReapChild(t, "close")
                  \/ CloseListener(t)

ConnStep(c) == \/ StdinLock(c) \/ StdinEnds(c) \/ InputLock(c) \/ InputEnds(c)

PtyStep == PtyEof \/ ReapLock(Pty) \/ ReapChild(Pty, "exit")

ChildStep == \/ ChildExits \/ ChildLeavesTty \/ BackgroundStarts \/ BackgroundEnds
             \/ ReadingChanges

Exited == pc[Main] = "exited"

Next == \/ /\ ~Exited
           /\ \/ MainStep \/ Signal \/ AcceptFails \/ PtyStep \/ ChildStep
              \/ \E c \in Conn : \/ AcceptConn(c) \/ ControlShutdown(c) \/ ConnectionEnds(c)
                                 \/ Intro(c) \/ StdinFrame(c) \/ ConnStep(c)
              \/ \E t \in Conn \cup {Main} : RequestStep(t)
        \/ Exited /\ UNCHANGED vars

Spec == Init /\ [][Next]_vars

(***************************************************************************)
(* Fairness: a thread that can run runs, deadlines pass and SIGKILL works. *)
(* A thread that waits for pty_mu, which attached clients may take again   *)
(* and again, gets it some time when it is free.  Nothing is assumed of    *)
(* clients, signals or of what else the child does.                        *)
(***************************************************************************)
Fairness == /\ WF_vars(~Exited /\ MainStep)
            /\ WF_vars(~Exited /\ PtyStep)
            /\ WF_vars(~Exited /\ ChildKilled)
            /\ \A t \in Conn \cup {Main} : WF_vars(~Exited /\ RequestStep(t))
            /\ \A c \in Conn : SF_vars(~Exited /\ ConnStep(c))

FairSpec == Spec /\ Fairness

-----------------------------------------------------------------------------
(***************************************************************************)
(* Properties.                                                             *)
(***************************************************************************)
Requests == {"poll", "signal", "kill", "reap", "waitpid", "close"}

\* The shape of the process, its threads and its child.
TypeOK ==
    /\ pc \in [Threads -> Requests \cup {"check", "enter", "accept", "join", "exited", "read",
                  "exit", "none", "intro", "loop", "stdin", "stdin_write", "input",
                  "input_write", "done"}]
    /\ level \in [Conn \cup {Main} -> 0 .. 3]
    /\ listening \in BOOLEAN
    /\ status \in {0, 1}
    /\ g_shutdown_requested \in BOOLEAN
    /\ signals \in 0 .. MaxSignals
    /\ child_mu \in Threads \cup {None}
    /\ pty_mu \in Conn \cup {None}
    /\ child \in {"running", "zombie", "reaped"}
    /\ tty \subseteq {"child", "background"}
    /\ reading \in BOOLEAN
    /\ sigs \subseteq {"SIGHUP", "SIGTERM", "SIGKILL"}

\* No signal goes to a pid that was reaped, which may be another process's by
\* then, although several threads signal and reap.
NoStaleSignal == [][child = "reaped" => UNCHANGED sigs]_vars

\* However many requests overlap, the child is only killed after it was asked
\* by SIGHUP and by SIGTERM.
KillIsLast == "SIGKILL" \in sigs => {"SIGHUP", "SIGTERM"} \subseteq sigs

\* A closed listener, which is what "0pty stop" waits for, means that the
\* child is reaped or has given up its terminal.
ListenerLast == ~listening => child = "reaped" \/ tty = {}

\* The server does not exit before it has reaped its child.
NoOrphan == Exited => child = "reaped"

\* A shutdown request, once begun, ends with the server's exit, whatever the
\* child does about the signals and whoever else is stopping, signalling or
\* writing.
Stopping == \E t \in Conn \cup {Main} : pc[t] \in Requests \cup {"input", "input_write"}
StopCompletes == []<>(Stopping \/ ~listening => Exited)

\* The program reads its input and has not left a terminal behind, neither by
\* closing it and living on nor by keeping it open in the background.
Cooperates == reading /\ "background" \notin tty /\ (child = "running" => "child" \in tty)

\* The same for a program that from some time on cooperates, whatever it did
\* before.
StopCompletesIf == []<>(Stopping \/ ~listening => Exited \/ ~Cooperates)

\* "The server process and PTY stay alive until the program exits": then they
\* end, when nothing in the background keeps the terminal.
EndsWithProgram == []<>(child # "running" => Exited \/ ~Cooperates)

\* A signal is acted upon, unless main had already passed the test (it then
\* sits in accept() until the next connection) or is about to exit.
SignalServed == []<>(~g_shutdown_requested \/ pc[Main] \in {"accept", "join", "exited"}
                     \/ ~Cooperates)
=============================================================================
