------------------------------ MODULE Sessions ------------------------------
(***************************************************************************)
(* The named sessions of src/client.c: the commands start, restart, stop   *)
(* and connect, run by any number of processes over the session files in   *)
(* ~/.0pty/sessions and the ports of localhost.  Nothing locks a session:  *)
(* a command reads the record, probes the port, and acts on what it found. *)
(*                                                                         *)
(* A record is what stop and restart use of a session file: the port and   *)
(* the control token.  Replacing the file is atomic (rename).  A server is *)
(* modelled by its listener: the session it was started for and the token  *)
(* in its environment.  Tokens are numbers; opty_generate_control_token    *)
(* draws a new one for every start.                                        *)
(***************************************************************************)
EXTENDS Naturals, FiniteSets

CONSTANTS
    Cmd,        \* the processes that run 0pty commands, one after the other
    Name,       \* session names
    MaxPort,    \* the ports are 1 .. MaxPort
    MaxToken,   \* bound on the starts that get as far as a token
    Slow,       \* whether a server may need longer than a start waits (3 s)
    None

ASSUME BoundsAssumption == MaxPort \in Nat /\ MaxToken \in Nat
ASSUME SlowAssumption == Slow \in BOOLEAN
ASSUME NoneAssumption == None \notin Name /\ None \notin [name : Name, token : Nat]
                         /\ None \notin [port : Nat, token : Nat]

Port == 1 .. MaxPort

VARIABLES
    record,     \* the session file of a name, or None
    server,     \* the server that listens on a port, or None
    stopping,   \* the name given to the stop that the server has accepted
    tokens,     \* how many tokens were drawn
    spawned,    \* the server processes that have no listener yet
    cmd,        \* the state of a command: where it stands (pc), its session
                \* (name), endpoint (port) and control token
    raced       \* history: the sessions of which two launches have overlapped
                \* since they last had no server

files == <<record, tokens>>
net == <<server, stopping, spawned>>
vars == <<files, net, cmd, raced>>

\* No command is running.
Idle == [pc |-> "idle", name |-> None, port |-> 0, token |-> 0]

Init ==
    /\ record = [n \in Name |-> None]
    /\ server = [p \in Port |-> None]
    /\ stopping = [p \in Port |-> None]
    /\ tokens = 0
    /\ spawned = {}
    /\ cmd = [c \in Cmd |-> Idle]
    /\ raced = {}

\* A command goes on; when it is over, nothing of it is left.
Become(c, from, to, new) ==
    /\ cmd[c].pc = from
    /\ cmd' = [cmd EXCEPT ![c] = IF to = "idle" THEN Idle ELSE [new EXCEPT !.pc = to]]

Goto(c, from, to) == Become(c, from, to, cmd[c])

\* A TCP probe of the endpoint the command has in mind.
Accepts(p) == p \in Port /\ server[p] # None

\* opty_read_session_endpoint or opty_read_session_info of an existing record.
Read(c, n, from, to) ==
    Become(c, from, to, [Idle EXCEPT !.name = n, !.port = record[n].port, !.token = record[n].token])

\* A start or restart of n is under way, or a server that one has given up
\* waiting for.
Launching(n) ==
    \/ \E c \in Cmd : cmd[c].name = n /\ cmd[c].pc \in {"probe", "reprobe", "pick", "write", "spawn", "wait"}
    \/ \E s \in spawned : s.name = n

\* A launch that begins meanwhile overlaps it; one that begins with no server
\* left makes good for what was before.
BeginsLaunch(n) ==
    raced' = CASE Launching(n) -> raced \cup {n}
               [] ~Launching(n) /\ (\E p \in Port : server[p] # None /\ server[p].name = n) -> raced
               [] OTHER -> raced \ {n}

-----------------------------------------------------------------------------
(***************************************************************************)
(* run_named_start.                                                        *)
(***************************************************************************)
StartNew(c, n) ==
    /\ record[n] = None
    /\ Become(c, "idle", "pick", [Idle EXCEPT !.name = n])
    /\ BeginsLaunch(n)
    /\ UNCHANGED <<files, net>>

StartAgain(c, n) ==
    /\ record[n] # None
    /\ Read(c, n, "idle", "probe")
    /\ BeginsLaunch(n)
    /\ UNCHANGED <<files, net>>

StartProbes(c) ==
    /\ Goto(c, "probe", IF Accepts(cmd[c].port) THEN "attach" ELSE "pick")
    /\ UNCHANGED <<files, net, raced>>

\* opty_pick_session_endpoint, the first port that can be bound (the probe
\* socket is closed again), and opty_generate_control_token.
Bindable(p) == server[p] = None

Pick(c, below) ==
    /\ tokens < MaxToken
    /\ \E p \in Port :
          /\ Bindable(p)
          /\ \A q \in Port : q < p => ~Bindable(q)
          /\ Become(c, "pick", "write", [cmd[c] EXCEPT !.port = p - below, !.token = tokens + 1])
    /\ tokens' = tokens + 1
    /\ UNCHANGED <<record, net, raced>>

\* Faulty variant: the port before the one that was tried.
StartPicks_Below(c) == Pick(c, 1)

StartPicks(c) == Pick(c, 0)

\* No port, no random bytes, or a record that cannot be written.
StartGivesUp(c) ==
    /\ Goto(c, "pick", "idle") \/ Goto(c, "write", "idle")
    /\ UNCHANGED <<files, net, raced>>

Write(c, tok) ==
    /\ Goto(c, "write", "spawn")
    /\ record' = [record EXCEPT ![cmd[c].name] = [port |-> cmd[c].port, token |-> tok]]
    /\ UNCHANGED <<net, tokens, raced>>

\* Faulty variant: the token of the record before is kept.
StartWrites_OldToken(c) ==
    Write(c, IF record[cmd[c].name] = None THEN cmd[c].token ELSE record[cmd[c].name].token)

\* opty_write_session
StartWrites(c) == Write(c, cmd[c].token)

-----------------------------------------------------------------------------
(***************************************************************************)
(* opty_spawn_server, and the server up to its listener.                   *)
(***************************************************************************)
OwnServer(c) == [cmd |-> c, name |-> cmd[c].name, port |-> cmd[c].port, token |-> cmd[c].token]

Spawn(c) ==
    /\ Goto(c, "spawn", "wait")
    /\ spawned' = spawned \cup {OwnServer(c)}
    /\ UNCHANGED <<files, server, stopping, raced>>

SpawnFails(c) ==
    /\ Goto(c, "spawn", "idle")
    /\ UNCHANGED <<files, net, raced>>

\* server_create_listener
ServerBinds(s) ==
    /\ server[s.port] = None
    /\ server' = [server EXCEPT ![s.port] = [name |-> s.name, token |-> s.token]]
    /\ spawned' = spawned \ {s}
    /\ UNCHANGED <<files, stopping, cmd, raced>>

\* The port is taken by now, or something else fails (exec, openpty).
ServerFails(s) ==
    /\ spawned' = spawned \ {s}
    /\ UNCHANGED <<files, server, stopping, cmd, raced>>

\* opty_wait_for_server: the probe comes before the look at the own server.
WaitAccepts(c) ==
    /\ Accepts(cmd[c].port)
    /\ Goto(c, "wait", "attach")
    /\ UNCHANGED <<files, net, raced>>

\* The own server has exited, or 60 probes were refused.
WaitFails(c) ==
    /\ ~Accepts(cmd[c].port)
    /\ OwnServer(c) \notin spawned \/ Slow
    /\ Goto(c, "wait", "idle")
    /\ UNCHANGED <<files, net, raced>>

-----------------------------------------------------------------------------
(***************************************************************************)
(* run_named_restart and run_named_connect.                                *)
(***************************************************************************)
Restart(c, n) ==
    /\ record[n] # None
    /\ Read(c, n, "idle", "reprobe")
    /\ BeginsLaunch(n)
    /\ UNCHANGED <<files, net>>

\* An endpoint that accepts is an alive session; the stored cwd may be gone.
RestartProbes(c) ==
    /\ \/ ~Accepts(cmd[c].port) /\ Goto(c, "reprobe", "spawn")
       \/ Goto(c, "reprobe", "idle")
    /\ UNCHANGED <<files, net, raced>>

Connect(c, n) ==
    /\ record[n] # None
    /\ Read(c, n, "idle", "attach")
    /\ UNCHANGED <<files, net, raced>>

\* run_connect_auto: all records are read and their endpoints probed (at once
\* here; opty_load_session_entries needs a moment).  With more than one record,
\* or a dead session, it only prints a message.
Recorded == {n \in Name : record[n] # None}
Alive == {n \in Recorded : Accepts(record[n].port)}

ConnectAuto(c) ==
    /\ Cardinality(Recorded) = 1 /\ Alive = Recorded
    /\ \E n \in Alive : Become(c, "idle", "named", [Idle EXCEPT !.name = n])
    /\ UNCHANGED <<files, net, raced>>

\* run_named_connect, which reads the record again.
ConnectFound(c) ==
    /\ Read(c, cmd[c].name, "named", "attach")
    /\ UNCHANGED <<files, net, raced>>

\* run_client_endpoint, for as long as the user stays.
Attach(c) ==
    /\ Goto(c, "attach", IF Accepts(cmd[c].port) THEN "attached" ELSE "idle")
    /\ UNCHANGED <<files, net, raced>>

Detach(c) ==
    /\ Goto(c, "attached", "idle")
    /\ UNCHANGED <<files, net, raced>>

-----------------------------------------------------------------------------
(***************************************************************************)
(* run_named_stop, and the server's side of it.                            *)
(***************************************************************************)
Stop(c, n) ==
    /\ record[n] # None
    /\ Read(c, n, "idle", "stopprobe")
    /\ UNCHANGED <<files, net, raced>>

\* "Already dead", or on to connect().
StopProbes(c) ==
    /\ Goto(c, "stopprobe", IF Accepts(cmd[c].port) THEN "stop" ELSE "idle")
    /\ UNCHANGED <<files, net, raced>>

Ask(c, ok) ==
    /\ \/ /\ Accepts(cmd[c].port) /\ ok
          /\ stopping' = [stopping EXCEPT ![cmd[c].port] = cmd[c].name]
          /\ Goto(c, "stop", "stopwait")
       \/ /\ ~Accepts(cmd[c].port) \/ ~ok
          /\ Goto(c, "stop", "idle")
          /\ UNCHANGED stopping
    /\ UNCHANGED <<files, server, spawned, raced>>

\* Faulty variant: any token will do.
StopSends_AnyToken(c) == Ask(c, TRUE)

\* CONTROL_SHUTDOWN, which the server accepts if the token is its own.
StopSends(c) == Ask(c, Accepts(cmd[c].port) => server[cmd[c].port].token = cmd[c].token)

\* The connection ends, then the endpoint refuses: "stopped".  Or time runs
\* out.
StopSucceeds(c) ==
    /\ ~Accepts(cmd[c].port)
    /\ Goto(c, "stopwait", "idle")
    /\ UNCHANGED <<files, net, raced>>

\* Faulty variant: no limit on the wait.
StopTimesOut_Never(c) == FALSE /\ UNCHANGED vars

StopTimesOut(c) ==
    /\ Accepts(cmd[c].port)
    /\ Goto(c, "stopwait", "idle")
    /\ UNCHANGED <<files, net, raced>>

\* A server closes its listener: it was asked to, or its program ended.
ServerEnds(p) ==
    /\ server[p] # None
    /\ server' = [server EXCEPT ![p] = None]
    /\ stopping' = [stopping EXCEPT ![p] = None]
    /\ UNCHANGED <<files, spawned, cmd, raced>>

-----------------------------------------------------------------------------
Begin(c) == \/ \E n \in Name : StartNew(c, n) \/ StartAgain(c, n) \/ Restart(c, n)
                               \/ Connect(c, n) \/ Stop(c, n)
            \/ ConnectAuto(c)

Continue(c) == \/ StartProbes(c) \/ StartPicks(c) \/ StartGivesUp(c) \/ StartWrites(c)
               \/ Spawn(c) \/ SpawnFails(c) \/ WaitAccepts(c) \/ WaitFails(c)
               \/ RestartProbes(c) \/ ConnectFound(c) \/ Attach(c)
               \/ StopProbes(c) \/ StopSends(c) \/ StopSucceeds(c) \/ StopTimesOut(c)

Launch == \E s \in spawned : ServerBinds(s) \/ ServerFails(s)

Next == \/ \E c \in Cmd : Begin(c) \/ Continue(c) \/ Detach(c)
        \/ Launch
        \/ \E p \in Port : ServerEnds(p)

Spec == Init /\ [][Next]_vars

\* Fairness: commands and starting servers run.  Users need not detach, and
\* servers need not end.
FairSpec == Spec /\ WF_vars(Launch) /\ \A c \in Cmd : WF_vars(Continue(c))

-----------------------------------------------------------------------------
(***************************************************************************)
(* Properties.                                                             *)
(***************************************************************************)
Servers == [name : Name, token : 1 .. MaxToken]

\* The shape of the session directory, the ports and the commands.
TypeOK ==
    /\ record \in [Name -> [port : Port, token : 1 .. MaxToken] \cup {None}]
    /\ server \in [Port -> Servers \cup {None}]
    /\ stopping \in [Port -> Name \cup {None}]
    /\ tokens \in 0 .. MaxToken
    /\ spawned \subseteq [cmd : Cmd, name : Name, port : Port, token : 1 .. MaxToken]
    /\ raced \subseteq Name
    /\ \A c \in Cmd :
          /\ cmd[c].pc = "idle" => cmd[c] = Idle
          /\ cmd[c].name \in Name \cup {None}
          /\ cmd[c].port \in Port \cup {0}
          /\ cmd[c].token \in 0 .. MaxToken

\* "The control_token in that file is the authority for 0pty stop": a server
\* only ever accepts a stop of its own session, although a stale record may
\* name its port and any commands may run at the same time.
StopsOwn == \A p \in Port :
    server[p] # None /\ stopping[p] # None => stopping[p] = server[p].name

\* Every running server is the one that its session's record describes, with
\* the token that stops it: in particular a session has one server.  Unless two
\* launches of the session overlapped, which nothing prevents; commands on
\* other sessions, connects and stops do not count.
RecordMatches == \A p \in Port :
    server[p] # None /\ server[p].name \notin raced =>
        record[server[p].name] = [port |-> p, token |-> server[p].token]

\* Every command ends, or has its user attached.
CommandsEnd == \A c \in Cmd :
    []<>(cmd[c].pc \in {"idle", "attached"})
=============================================================================
