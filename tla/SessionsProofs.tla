--------------------------- MODULE SessionsProofs ---------------------------
(***************************************************************************)
(* Theorems about Sessions, for any number of processes, names, ports and  *)
(* starts: which server a stop reaches, and which one a record describes.  *)
(***************************************************************************)
EXTENDS Sessions, TLAPS

PCs == {"idle", "probe", "reprobe", "pick", "write", "spawn", "wait",
        "named", "attach", "attached", "stopprobe", "stop", "stopwait"}
LaunchPCs == {"probe", "reprobe", "pick", "write", "spawn", "wait"}

Records == [port : Port, token : 1 .. MaxToken]
Spawning == [cmd : Cmd, name : Name, port : Port, token : 1 .. MaxToken]
CmdStates == [pc : PCs, name : Name \cup {None}, port : 0 .. MaxPort, token : 0 .. MaxToken]

Types == /\ record \in [Name -> Records \cup {None}]
         /\ server \in [Port -> Servers \cup {None}]
         /\ stopping \in [Port -> Name \cup {None}]
         /\ tokens \in 0 .. MaxToken
         /\ spawned \in SUBSET Spawning
         /\ raced \in SUBSET Name
         /\ cmd \in [Cmd -> CmdStates]

\* What a command's local state holds at each point.
LocalOK(st) ==
    /\ st.pc = "idle" => st = Idle
    /\ st.pc # "idle" => st.name \in Name
    /\ st.pc \notin {"idle", "pick", "named"} => st.port \in Port /\ st.token \in 1 .. MaxToken
    /\ st.pc = "named" => record[st.name] # None

Locals == \A c \in Cmd : LocalOK(cmd[c])

\* Session n has token t in its file, in a server or in a command's hands.
Holds(n, t) ==
    \/ record[n] # None /\ record[n].token = t
    \/ \E p \in Port : server[p] # None /\ server[p].name = n /\ server[p].token = t
    \/ \E s \in spawned : s.name = n /\ s.token = t
    \/ \E c \in Cmd : cmd[c].name = n /\ cmd[c].token = t

\* A token was drawn for one session and stays with it.
Tokens == \A n \in Name, t \in 1 .. MaxToken : Holds(n, t) =>
    /\ t <= tokens
    /\ \A k \in Name : Holds(k, t) => k = n

\* A port without a server has no stop under way.
Quiet == \A p \in Port : server[p] = None => stopping[p] = None

\* A command that launches session n, and that n has a server.
Launches(c, n) == cmd[c].name = n /\ cmd[c].pc \in LaunchPCs
Runs(n) == \E p \in Port : server[p] # None /\ server[p].name = n

\* Only one launch of n is under way; it works with n's record and no server
\* of n runs beside it.
OneLaunch(n) ==
    /\ \A c, d \in Cmd : Launches(c, n) /\ Launches(d, n) => c = d
    /\ \A c \in Cmd, s \in spawned : Launches(c, n) /\ s.name = n => cmd[c].pc = "wait"
    /\ \A s, r \in spawned : s.name = n /\ r.name = n => s = r
LaunchRecord(n) ==
    /\ \A c \in Cmd : cmd[c].name = n /\ cmd[c].pc \in {"probe", "reprobe", "spawn"} =>
          record[n] = [port |-> cmd[c].port, token |-> cmd[c].token]
    /\ \A s \in spawned : s.name = n =>
          record[n] = [port |-> s.port, token |-> s.token] /\ ~Runs(n)
LaunchAlone(n) ==
    \A c \in Cmd : cmd[c].name = n /\ cmd[c].pc \in {"pick", "write", "spawn"} => ~Runs(n)
Described(n) == \A p \in Port :
    server[p] # None /\ server[p].name = n => record[n] = [port |-> p, token |-> server[p].token]

Unraced == \A n \in Name \ raced :
    OneLaunch(n) /\ LaunchRecord(n) /\ LaunchAlone(n) /\ Described(n)

TokenInv == Types /\ Locals /\ Tokens /\ Quiet /\ StopsOwn
SessionsInv == TokenInv /\ Unraced

-----------------------------------------------------------------------------
(***************************************************************************)
(* Steps of one command that leave files and servers alone.                *)
(***************************************************************************)
Still == UNCHANGED <<record, server, stopping, tokens, spawned>>

\* A command's new state respects the ownership of tokens when its token is
\* one that its session has.
LEMMA LocalStep ==
  ASSUME TokenInv, NEW c \in Cmd, NEW st \in CmdStates, Still,
         cmd' = [cmd EXCEPT ![c] = st], raced' \in SUBSET Name,
         LocalOK(st), st.token # 0 => Holds(st.name, st.token)
  PROVE  TokenInv'
  <1>1. Types'
    BY DEF TokenInv, Types, Still
  <1>2. Locals'
    BY DEF TokenInv, Types, Still, Locals, LocalOK
  <1>3. \A n \in Name, t \in 1 .. MaxToken : Holds(n, t)' => Holds(n, t)
    BY DEF TokenInv, Types, Still, Holds
  <1>4. Tokens'
    BY <1>3 DEF TokenInv, Tokens, Still
  <1>5. Quiet' /\ StopsOwn'
    BY DEF TokenInv, Quiet, StopsOwn, Still
  <1> QED BY <1>1, <1>2, <1>4, <1>5 DEF TokenInv

\* What Goto and Become do to a command.
LEMMA BecomeIs ==
  ASSUME Types, NEW c \in Cmd, NEW from \in PCs, NEW to \in PCs, NEW st \in CmdStates,
         Become(c, from, to, st)
  PROVE  /\ cmd[c].pc = from
         /\ to = "idle" => cmd' = [cmd EXCEPT ![c] = Idle]
         /\ to # "idle" => cmd' = [cmd EXCEPT ![c] = [st EXCEPT !.pc = to]]
  BY DEF Become, Types

\* The idle state is one of the states, and holds no token.
LEMMA IdleState == Idle \in CmdStates /\ LocalOK(Idle) /\ Idle.token = 0 /\ Idle.pc = "idle"
  BY BoundsAssumption DEF Idle, CmdStates, PCs, LocalOK

\* A command's state is known by its fields, and Goto changes one of them.
LEMMA SameState ==
  ASSUME NEW r \in CmdStates, NEW q \in CmdStates,
         r.pc = q.pc, r.name = q.name, r.port = q.port, r.token = q.token
  PROVE  r = q
  BY DEF CmdStates

LEMMA WithPc ==
  ASSUME NEW r \in CmdStates, NEW to \in PCs
  PROVE  LET q == [r EXCEPT !.pc = to]
         IN q \in CmdStates /\ q.pc = to /\ q.name = r.name /\ q.port = r.port /\ q.token = r.token
  BY DEF CmdStates

\* A command that goes on with its own session and token.
LEMMA GotoStep ==
  ASSUME TokenInv, NEW c \in Cmd, NEW from \in PCs, NEW to \in PCs,
         Goto(c, from, to), Still, UNCHANGED raced,
         from # "idle", to # "named",
         from \in {"pick", "named"} => to \in {"idle", "pick"}
  PROVE  TokenInv'
  <1>1. cmd[c] \in CmdStates /\ LocalOK(cmd[c]) /\ raced \in SUBSET Name
    BY DEF TokenInv, Types, Locals
  <1>2. CASE to = "idle"
    BY <1>1, <1>2, IdleState, BecomeIs, LocalStep DEF TokenInv, Goto
  <1>3. CASE to # "idle"
    <2> DEFINE st == [cmd[c] EXCEPT !.pc = to]
    <2>1. cmd' = [cmd EXCEPT ![c] = st] /\ cmd[c].pc = from
      BY <1>1, <1>3, BecomeIs DEF TokenInv, Goto
    <2>2. /\ st \in CmdStates /\ st.pc = to /\ st.name = cmd[c].name
          /\ st.port = cmd[c].port /\ st.token = cmd[c].token
      BY <1>1 DEF CmdStates
    <2>3. LocalOK(st)
      BY <1>1, <1>3, <2>1, <2>2 DEF LocalOK
    <2>4. st.token # 0 => Holds(st.name, st.token)
      BY <2>2 DEF Holds
    <2> QED BY <1>1, <2>1, <2>2, <2>3, <2>4, LocalStep
  <1> QED BY <1>2, <1>3

\* A command's state after it has read the record of n.
FromRecord(n, to) == [pc |-> to, name |-> n, port |-> record[n].port, token |-> record[n].token]

LEMMA RecordState ==
  ASSUME Types, NEW n \in Name, record[n] # None, NEW to \in PCs
  PROVE  /\ FromRecord(n, to) \in CmdStates
         /\ FromRecord(n, to).pc = to /\ FromRecord(n, to).name = n
         /\ record[n] = [port |-> FromRecord(n, to).port, token |-> FromRecord(n, to).token]
  <1>1. record[n] \in Records
    BY DEF Types
  <1> QED BY <1>1, BoundsAssumption DEF FromRecord, CmdStates, Records, Port

\* A command that takes port and token from its session's record.
LEMMA ReadStep ==
  ASSUME TokenInv, NEW c \in Cmd, NEW n \in Name, NEW from \in PCs, NEW to \in PCs,
         Read(c, n, from, to), record[n] # None, Still, raced' \in SUBSET Name,
         to \notin {"idle", "named"}
  PROVE  TokenInv' /\ cmd' = [cmd EXCEPT ![c] = FromRecord(n, to)] /\ cmd[c].pc = from
  <1> DEFINE st == [pc |-> to, name |-> n, port |-> record[n].port, token |-> record[n].token]
  <1>1. record[n] \in Records
    BY DEF TokenInv, Types
  <1>2. st \in CmdStates
    BY <1>1, BoundsAssumption DEF CmdStates, Records, Port
  <1> DEFINE new == [Idle EXCEPT !.name = n, !.port = record[n].port, !.token = record[n].token]
  <1>3. cmd' = [cmd EXCEPT ![c] = st]
    <2>1. new \in CmdStates /\ new.name = n /\ new.port = record[n].port
          /\ new.token = record[n].token
      BY <1>2, IdleState DEF CmdStates
    <2> HIDE DEF new
    <2>3. [new EXCEPT !.pc = to] = st
      <3> DEFINE q == [new EXCEPT !.pc = to]
      <3>1. /\ q \in CmdStates /\ q.pc = to /\ q.name = new.name
            /\ q.port = new.port /\ q.token = new.token
        BY <2>1, WithPc
      <3>2. /\ st.pc = to /\ st.name = n /\ st.port = record[n].port
            /\ st.token = record[n].token
        OBVIOUS
      <3> HIDE DEF q, st
      <3>3. q = st
        BY <1>2, <2>1, <3>1, <3>2, SameState
      <3> QED BY <3>3 DEF q
    <2>2. cmd' = [cmd EXCEPT ![c] = [new EXCEPT !.pc = to]]
      BY Zenon DEF Read, Become, new
    <2> QED BY <2>2, <2>3
  <1>4. LocalOK(st)
    BY <1>1 DEF LocalOK, Records
  <1>5. Holds(st.name, st.token)
    BY DEF Holds
  <1>6. cmd[c].pc = from
    BY DEF Read, Become
  <1>8. TokenInv'
    <2> HIDE DEF st
    <2> QED BY <1>2, <1>3, <1>4, <1>5, LocalStep
  <1> QED BY <1>3, <1>6, <1>8 DEF FromRecord

\* A command that begins with nothing but the name of its session.
Named(n, to) == [[Idle EXCEPT !.name = n] EXCEPT !.pc = to]

LEMMA NamedState ==
  ASSUME NEW n \in Name, NEW to \in PCs
  PROVE  /\ Named(n, to) \in CmdStates /\ Named(n, to).pc = to
         /\ Named(n, to).name = n /\ Named(n, to).token = 0
  <1> DEFINE new == [Idle EXCEPT !.name = n]
  <1>1. new \in CmdStates /\ new.name = n /\ new.token = 0
    BY IdleState DEF CmdStates
  <1> HIDE DEF new
  <1>2. LET st == [new EXCEPT !.pc = to]
        IN st \in CmdStates /\ st.pc = to /\ st.name = n /\ st.token = 0
    BY <1>1, WithPc
  <1> QED BY <1>2 DEF new, Named
\* A step of one command that does not begin a launch keeps what is known of
\* the sessions without a race.
LEMMA UnracedStep ==
  ASSUME SessionsInv, NEW c \in Cmd, NEW st \in CmdStates, Still,
         cmd' = [cmd EXCEPT ![c] = st], raced' = raced,
         st.pc \in LaunchPCs => cmd[c].pc \in LaunchPCs \ {"wait"} /\ st.name = cmd[c].name,
         st.pc \in {"probe", "reprobe", "spawn"} /\ st.name \notin raced =>
             record[st.name] = [port |-> st.port, token |-> st.token],
         st.pc \in {"pick", "write", "spawn"} /\ st.name \notin raced => ~Runs(st.name)
  PROVE  Unraced'
  <1> SUFFICES ASSUME NEW n \in Name, n \notin raced
               PROVE  OneLaunch(n)' /\ LaunchRecord(n)' /\ LaunchAlone(n)' /\ Described(n)'
    BY DEF Unraced
  <1>1. OneLaunch(n) /\ LaunchRecord(n) /\ LaunchAlone(n) /\ Described(n)
    BY DEF SessionsInv, Unraced
  <1>2. \A d \in Cmd : cmd'[d] = IF d = c THEN st ELSE cmd[d]
    BY DEF SessionsInv, TokenInv, Types
  <1>3. \A d \in Cmd : Launches(d, n)' => Launches(d, n) /\ (d = c => cmd[c].pc # "wait")
    BY <1>2 DEF Launches
  <1>4. Runs(n)' <=> Runs(n)
    BY DEF Runs, Still
  <1>5. OneLaunch(n)'
    BY <1>1, <1>2, <1>3 DEF OneLaunch, Still
  <1>6. LaunchRecord(n)'
    BY <1>1, <1>2, <1>4 DEF LaunchRecord, Still
  <1>7. LaunchAlone(n)'
    BY <1>1, <1>2, <1>4 DEF LaunchAlone
  <1>8. Described(n)'
    BY <1>1 DEF Described, Still
  <1> QED BY <1>5, <1>6, <1>7, <1>8

\* The beginning of a launch: it is a race, or it is alone.
LEMMA LaunchBegins ==
  ASSUME SessionsInv, NEW c \in Cmd, NEW st \in CmdStates, NEW n \in Name, Still,
         cmd' = [cmd EXCEPT ![c] = st], cmd[c].pc = "idle", BeginsLaunch(n),
         st.name = n, st.pc \in {"probe", "reprobe", "pick"},
         st.pc = "pick" => record[n] = None,
         st.pc # "pick" => record[n] = [port |-> st.port, token |-> st.token]
  PROVE  Unraced'
  <1> SUFFICES ASSUME NEW k \in Name, k \notin raced'
               PROVE  OneLaunch(k)' /\ LaunchRecord(k)' /\ LaunchAlone(k)' /\ Described(k)'
    BY DEF Unraced
  <1>1. \A d \in Cmd : cmd'[d] = IF d = c THEN st ELSE cmd[d]
    BY DEF SessionsInv, TokenInv, Types
  <1>2. Runs(k)' <=> Runs(k)
    BY DEF Runs, Still
  <1>3. CASE k # n
    <2>1. k \notin raced
      BY <1>3 DEF BeginsLaunch
    <2>2. OneLaunch(k) /\ LaunchRecord(k) /\ LaunchAlone(k) /\ Described(k)
      BY <2>1 DEF SessionsInv, Unraced
    <2>3. \A d \in Cmd : Launches(d, k)' => Launches(d, k)
      BY <1>1, <1>3 DEF Launches
    <2>4. OneLaunch(k)'
      BY <1>1, <1>3, <2>2, <2>3 DEF OneLaunch, Still, Launches
    <2>5. LaunchRecord(k)'
      BY <1>1, <1>2, <1>3, <2>2 DEF LaunchRecord, Still
    <2>6. LaunchAlone(k)' /\ Described(k)'
      BY <1>1, <1>2, <1>3, <2>2 DEF LaunchAlone, Described, Still
    <2> QED BY <2>4, <2>5, <2>6
  <1>4. CASE k = n
    <2>1. ~Launching(n)
      BY <1>4 DEF BeginsLaunch
    <2>2. \A d \in Cmd : ~Launches(d, n)
      BY <2>1 DEF Launching, Launches, LaunchPCs
    <2>3. \A s \in spawned : s.name # n
      BY <2>1 DEF Launching
    <2>4. Runs(n) => n \notin raced
      BY <1>4, <2>1 DEF BeginsLaunch, Runs
    <2>5. Described(n)
      BY <2>4 DEF SessionsInv, Unraced, Runs, Described
    <2>6. OneLaunch(n)'
      BY <1>1, <2>2, <2>3 DEF OneLaunch, Launches, LaunchPCs, Still
    <2>7. LaunchRecord(n)'
      BY <1>1, <2>2, <2>3 DEF LaunchRecord, Launches, LaunchPCs, Still
    <2>8. st.pc = "pick" => ~Runs(n)
      BY <2>5, NoneAssumption DEF Runs, Described, SessionsInv, TokenInv, Types, Servers, Port
    <2>9. LaunchAlone(n)'
      BY <1>1, <1>2, <1>4, <2>2, <2>8 DEF LaunchAlone, Launches, LaunchPCs
    <2>10. Described(n)'
      BY <2>5 DEF Described, Still
    <2> QED BY <1>4, <2>6, <2>7, <2>9, <2>10
  <1> QED BY <1>3, <1>4
\* A command that goes on with its own session, for all of the invariant.
LEMMA GotoInv ==
  ASSUME SessionsInv, NEW c \in Cmd, NEW from \in PCs, NEW to \in PCs,
         Goto(c, from, to), Still, UNCHANGED raced,
         from # "idle", to # "named",
         from \in {"pick", "named"} => to \in {"idle", "pick"},
         to \in LaunchPCs => from \in LaunchPCs \ {"wait"},
         to \in {"probe", "reprobe", "spawn"} /\ cmd[c].name \notin raced =>
             record[cmd[c].name] = [port |-> cmd[c].port, token |-> cmd[c].token],
         to \in {"pick", "write", "spawn"} /\ cmd[c].name \notin raced => ~Runs(cmd[c].name)
  PROVE  SessionsInv'
  <1>1. TokenInv'
    BY GotoStep DEF SessionsInv
  <1>2. cmd[c] \in CmdStates
    BY DEF SessionsInv, TokenInv, Types
  <1>3. CASE to = "idle"
    <2>1. cmd' = [cmd EXCEPT ![c] = Idle]
      BY <1>2, <1>3, BecomeIs DEF SessionsInv, TokenInv, Goto
    <2> QED BY <1>1, <2>1, IdleState, UnracedStep DEF SessionsInv, LaunchPCs
  <1>4. CASE to # "idle"
    <2> DEFINE st == [cmd[c] EXCEPT !.pc = to]
    <2>1. cmd' = [cmd EXCEPT ![c] = st] /\ cmd[c].pc = from
      BY <1>2, <1>4, BecomeIs DEF SessionsInv, TokenInv, Goto
    <2>2. /\ st \in CmdStates /\ st.pc = to /\ st.name = cmd[c].name
          /\ st.port = cmd[c].port /\ st.token = cmd[c].token
      BY <1>2, WithPc
    <2> HIDE DEF st
    <2>3. Unraced'
      BY <2>1, <2>2, UnracedStep
    <2> QED BY <1>1, <2>3 DEF SessionsInv
  <1> QED BY <1>3, <1>4

\* The steps of a command that leave files and servers alone and follow from
\* GotoInv.
Steps(c) == \/ StartProbes(c) \/ StartGivesUp(c) \/ SpawnFails(c) \/ WaitAccepts(c)
            \/ WaitFails(c) \/ RestartProbes(c) \/ Attach(c) \/ Detach(c)
            \/ StopProbes(c) \/ StopSucceeds(c) \/ StopTimesOut(c)

LEMMA StepsInv ==
  ASSUME SessionsInv, NEW c \in Cmd, Steps(c)
  PROVE  SessionsInv'
  <1>1. Still /\ UNCHANGED raced
    BY DEF Steps, StartProbes, StartGivesUp, SpawnFails, WaitAccepts, WaitFails, RestartProbes,
           Attach, Detach, StopProbes, StopSucceeds, StopTimesOut, Still, files, net
  <1>2. cmd[c] \in CmdStates /\ LocalOK(cmd[c])
    BY DEF SessionsInv, TokenInv, Types, Locals
  \* A launch that finds the port of its record dead has no server.
  <1>3. ASSUME cmd[c].pc \in {"probe", "reprobe"}, ~Accepts(cmd[c].port), cmd[c].name \notin raced
        PROVE  ~Runs(cmd[c].name) /\ record[cmd[c].name] = [port |-> cmd[c].port, token |-> cmd[c].token]
    <2>1. cmd[c].name \in Name /\ cmd[c].port \in Port
      BY <1>2, <1>3 DEF LocalOK
    <2>2. record[cmd[c].name] = [port |-> cmd[c].port, token |-> cmd[c].token]
      BY <1>3, <2>1 DEF SessionsInv, Unraced, LaunchRecord
    <2>3. ~Runs(cmd[c].name)
      <3> SUFFICES ASSUME NEW p \in Port, server[p] # None, server[p].name = cmd[c].name
                   PROVE  FALSE
        BY DEF Runs
      <3>1. Described(cmd[c].name)
        BY <1>3, <2>1 DEF SessionsInv, Unraced
      <3>2. record[cmd[c].name] = [port |-> p, token |-> server[p].token]
        BY <3>1 DEF Described
      <3>3. p = cmd[c].port
        BY <2>2, <3>2
      <3> QED BY <1>3, <3>3 DEF Accepts
    <2> QED BY <2>2, <2>3
  <1> USE DEF PCs, LaunchPCs
  <1>4. CASE StartProbes(c)
    <2>1. CASE Accepts(cmd[c].port)
      <3>1. Goto(c, "probe", "attach")
        BY <1>4, <2>1 DEF StartProbes
      <3> QED BY <1>1, <3>1, GotoInv
    <2>2. CASE ~Accepts(cmd[c].port)
      <3>1. Goto(c, "probe", "pick") /\ cmd[c].pc = "probe"
        BY <1>4, <2>2 DEF StartProbes, Goto, Become
      <3>2. cmd[c].name \notin raced => ~Runs(cmd[c].name)
        BY <1>3, <2>2, <3>1
      <3> QED BY <1>1, <3>1, <3>2, GotoInv
    <2> QED BY <2>1, <2>2
  <1>5. CASE StartGivesUp(c)
    <2>1. Goto(c, "pick", "idle") \/ Goto(c, "write", "idle")
      BY <1>5 DEF StartGivesUp
    <2> QED BY <1>1, <2>1, GotoInv
  <1>6. CASE SpawnFails(c)
    <2>1. Goto(c, "spawn", "idle")
      BY <1>6 DEF SpawnFails
    <2> QED BY <1>1, <2>1, GotoInv
  <1>7. CASE WaitAccepts(c) \/ WaitFails(c)
    <2>1. Goto(c, "wait", "attach") \/ Goto(c, "wait", "idle")
      BY <1>7 DEF WaitAccepts, WaitFails
    <2> QED BY <1>1, <2>1, GotoInv
  <1>8. CASE RestartProbes(c)
    <2>1. CASE Goto(c, "reprobe", "idle")
      BY <1>1, <2>1, GotoInv
    <2>2. CASE ~Accepts(cmd[c].port) /\ Goto(c, "reprobe", "spawn")
      <3>1. cmd[c].pc = "reprobe"
        BY <2>2 DEF Goto, Become
      <3>2. cmd[c].name \notin raced =>
               ~Runs(cmd[c].name) /\ record[cmd[c].name] = [port |-> cmd[c].port, token |-> cmd[c].token]
        BY <1>3, <2>2, <3>1
      <3> QED BY <1>1, <2>2, <3>2, GotoInv
    <2> QED BY <1>8, <2>1, <2>2 DEF RestartProbes
  <1>9. CASE Attach(c) \/ Detach(c)
    <2>1. Goto(c, "attach", "attached") \/ Goto(c, "attach", "idle") \/ Goto(c, "attached", "idle")
      BY <1>9 DEF Attach, Detach
    <2> QED BY <1>1, <2>1, GotoInv
  <1>10. CASE StopProbes(c)
    <2>1. Goto(c, "stopprobe", "stop") \/ Goto(c, "stopprobe", "idle")
      BY <1>10 DEF StopProbes
    <2> QED BY <1>1, <2>1, GotoInv
  <1>11. CASE StopSucceeds(c) \/ StopTimesOut(c)
    <2>1. Goto(c, "stopwait", "idle")
      BY <1>11 DEF StopSucceeds, StopTimesOut
    <2> QED BY <1>1, <2>1, GotoInv
  <1> QED BY <1>4, <1>5, <1>6, <1>7, <1>8, <1>9, <1>10, <1>11 DEF Steps
-----------------------------------------------------------------------------
(***************************************************************************)
(* The other steps of a command.                                           *)
(***************************************************************************)
\* A command begins, or finds the session's record again.
Begins(c) == \/ \E n \in Name : StartNew(c, n) \/ StartAgain(c, n) \/ Restart(c, n)
                               \/ Connect(c, n) \/ Stop(c, n)
             \/ ConnectAuto(c) \/ ConnectFound(c)

LEMMA BeginsInv ==
  ASSUME SessionsInv, NEW c \in Cmd, Begins(c)
  PROVE  SessionsInv'
  <1>1. TokenInv /\ Types
    BY DEF SessionsInv, TokenInv
  \* The steps that read it and begin a launch, or do not.
  <1>3. ASSUME NEW n \in Name, NEW to \in {"probe", "reprobe"},
               Read(c, n, "idle", to), record[n] # None, Still, BeginsLaunch(n)
        PROVE  SessionsInv'
    <2> DEFINE st == FromRecord(n, to)
    <2>1. raced' \in SUBSET Name
      BY <1>1, <1>3 DEF BeginsLaunch, Types
    <2>2. /\ TokenInv' /\ cmd' = [cmd EXCEPT ![c] = st] /\ cmd[c].pc = "idle"
          /\ st \in CmdStates /\ st.name = n /\ st.pc = to
          /\ record[n] = [port |-> st.port, token |-> st.token]
      <3>1. "idle" \in PCs /\ to \in PCs /\ to \notin {"idle", "named"}
        BY DEF PCs
      <3>2. TokenInv' /\ cmd' = [cmd EXCEPT ![c] = st] /\ cmd[c].pc = "idle"
        BY <1>1, <1>3, <2>1, <3>1, ReadStep
      <3> QED BY <1>1, <1>3, <3>1, <3>2, RecordState
    <2> HIDE DEF st
    <2>6. Unraced'
      BY <1>3, <2>2, LaunchBegins
    <2> QED BY <2>2, <2>6 DEF SessionsInv
  <1>4. ASSUME NEW n \in Name, NEW from \in {"idle", "named"}, NEW to \in {"attach", "stopprobe"},
               Read(c, n, from, to), record[n] # None, Still, UNCHANGED raced
        PROVE  SessionsInv'
    <2> DEFINE st == FromRecord(n, to)
    <2>1. raced' \in SUBSET Name
      BY <1>1, <1>4 DEF Types
    <2>2. TokenInv' /\ cmd' = [cmd EXCEPT ![c] = st] /\ st \in CmdStates /\ st.pc = to
      <3>1. from \in PCs /\ to \in PCs /\ to \notin {"idle", "named"}
        BY DEF PCs
      <3>2. TokenInv' /\ cmd' = [cmd EXCEPT ![c] = st]
        BY <1>1, <1>4, <2>1, <3>1, ReadStep
      <3>3. /\ st \in CmdStates /\ st.name = n /\ st.pc = to
            /\ record[n] = [port |-> st.port, token |-> st.token]
        BY <1>1, <1>4, <3>1, RecordState
      <3> QED BY <3>2, <3>3
    <2> HIDE DEF st
    <2>4. Unraced'
      BY <1>4, <2>2, UnracedStep DEF LaunchPCs
    <2> QED BY <2>2, <2>4 DEF SessionsInv
  <1>5. ASSUME NEW n \in Name, StartNew(c, n)
        PROVE  SessionsInv'
    <2> DEFINE st == Named(n, "pick")
    <2>1. cmd' = [cmd EXCEPT ![c] = st] /\ cmd[c].pc = "idle" /\ Still
      BY <1>5 DEF StartNew, Become, Named, Still, files, net
    <2>2. raced' \in SUBSET Name /\ BeginsLaunch(n) /\ record[n] = None
      BY <1>1, <1>5 DEF StartNew, BeginsLaunch, Types
    <2>3. st \in CmdStates /\ st.token = 0 /\ st.name = n /\ st.pc = "pick"
      BY NamedState DEF PCs
    <2> HIDE DEF st
    <2>4. TokenInv'
      <3>1. LocalOK(st)
        BY <2>3 DEF LocalOK
      <3> QED BY <1>1, <2>1, <2>2, <2>3, <3>1, LocalStep
    <2>5. Unraced'
      BY <2>1, <2>2, <2>3, LaunchBegins
    <2> QED BY <2>4, <2>5 DEF SessionsInv
  <1>6. ASSUME ConnectAuto(c)
        PROVE  SessionsInv'
    <2>1. PICK n \in Alive : Become(c, "idle", "named", [Idle EXCEPT !.name = n])
      BY <1>6 DEF ConnectAuto
    <2>2. n \in Name /\ record[n] # None
      BY DEF Alive, Recorded
    <2> DEFINE st == Named(n, "named")
    <2>3. cmd' = [cmd EXCEPT ![c] = st] /\ cmd[c].pc = "idle"
      BY <2>1 DEF Become, Named
    <2>4. raced' = raced /\ raced' \in SUBSET Name /\ Still
      BY <1>1, <1>6 DEF ConnectAuto, Types, Still, files, net
    <2>5. st \in CmdStates /\ st.token = 0 /\ st.pc = "named" /\ st.name = n
      BY <2>2, NamedState DEF PCs
    <2> HIDE DEF st
    <2>6. TokenInv'
      <3>1. LocalOK(st)
        BY <2>2, <2>5 DEF LocalOK
      <3> QED BY <1>1, <2>3, <2>4, <2>5, <3>1, LocalStep
    <2>7. Unraced'
      BY <2>3, <2>4, <2>5, UnracedStep DEF LaunchPCs
    <2> QED BY <2>6, <2>7 DEF SessionsInv
  <1>7. ASSUME ConnectFound(c)
        PROVE  SessionsInv'
    <2>1. Read(c, cmd[c].name, "named", "attach") /\ Still /\ UNCHANGED raced
      BY <1>7 DEF ConnectFound, Still, files, net
    <2>2. cmd[c].name \in Name /\ record[cmd[c].name] # None
      BY <2>1 DEF Read, Become, SessionsInv, TokenInv, Locals, LocalOK
    <2> QED BY <1>4, <2>1, <2>2
  <1>8. ASSUME NEW n \in Name, StartAgain(c, n) \/ Restart(c, n)
        PROVE  SessionsInv'
    BY <1>3, <1>8 DEF StartAgain, Restart, Still, files, net
  <1>9. ASSUME NEW n \in Name, Connect(c, n) \/ Stop(c, n)
        PROVE  SessionsInv'
    BY <1>4, <1>9 DEF Connect, Stop, Still, files, net
  <1> QED BY <1>5, <1>6, <1>7, <1>8, <1>9 DEF Begins
\* opty_pick_session_endpoint and opty_generate_control_token: the token is new.
LEMMA StartPicksInv ==
  ASSUME SessionsInv, NEW c \in Cmd, StartPicks(c)
  PROVE  SessionsInv'
  <1>1. TokenInv /\ Types /\ LocalOK(cmd[c]) /\ cmd[c] \in CmdStates
    BY DEF SessionsInv, TokenInv, Locals, Types
  <1>2. PICK p \in Port : Become(c, "pick", "write", [cmd[c] EXCEPT !.port = p - 0, !.token = tokens + 1])
    BY DEF StartPicks, Pick
  <1>3. /\ tokens' = tokens + 1 /\ tokens + 1 \in 1 .. MaxToken
        /\ UNCHANGED <<record, server, stopping, spawned, raced>>
    BY <1>1, BoundsAssumption DEF StartPicks, Pick, Types, net
  <1> DEFINE new == [cmd[c] EXCEPT !.port = p - 0, !.token = tokens + 1]
             st == [new EXCEPT !.pc = "write"]
  <1>4. new \in CmdStates /\ new.name = cmd[c].name /\ new.port = p /\ new.token = tokens + 1
    <2>1. p - 0 = p /\ p - 0 \in 0 .. MaxPort /\ tokens + 1 \in 0 .. MaxToken
      BY <1>3, BoundsAssumption DEF Port
    <2> DEFINE q == p - 0
               t == tokens + 1
               r == cmd[c]
    <2>2. r \in CmdStates /\ q \in 0 .. MaxPort /\ t \in 0 .. MaxToken
      BY <1>1, <2>1
    <2> HIDE DEF q, t, r
    <2>3. LET w == [r EXCEPT !.port = q, !.token = t]
          IN w \in CmdStates /\ w.name = r.name /\ w.port = q /\ w.token = t
      BY <2>2 DEF CmdStates
    <2> QED BY <2>1, <2>3 DEF q, t, r
  <1>5. cmd[c].pc = "pick" /\ cmd' = [cmd EXCEPT ![c] = st]
    BY <1>2 DEF Become
  <1>6. cmd[c].name \in Name
    BY <1>1, <1>5 DEF LocalOK
  <1>7. /\ st \in CmdStates /\ st.pc = "write" /\ st.name = cmd[c].name
        /\ st.port = p /\ st.token = tokens + 1
    <2> HIDE DEF new
    <2> QED BY <1>4, WithPc DEF PCs
  <1> HIDE DEF st, new
  <1>8. \A d \in Cmd : cmd'[d] = IF d = c THEN st ELSE cmd[d]
    BY <1>1, <1>5 DEF Types
  <1>9. Types'
    BY <1>1, <1>3, <1>5, <1>7 DEF Types
  <1>10. Locals'
    BY <1>3, <1>6, <1>7, <1>8 DEF Locals, LocalOK, SessionsInv, TokenInv
  <1>11. \A n \in Name, t \in 1 .. MaxToken :
            Holds(n, t)' => Holds(n, t) \/ (n = cmd[c].name /\ t = tokens + 1)
    BY <1>3, <1>7, <1>8 DEF Holds
  <1>12. \A n \in Name : ~Holds(n, tokens + 1)
    BY <1>1, <1>3 DEF TokenInv, Tokens, Types
  <1>13. Tokens'
    BY <1>1, <1>3, <1>11, <1>12 DEF TokenInv, Tokens, Types
  <1>14. Quiet' /\ StopsOwn'
    BY <1>1, <1>3 DEF TokenInv, Quiet, StopsOwn
  <1>15. ASSUME NEW n \in Name, n \notin raced
         PROVE  OneLaunch(n)' /\ LaunchRecord(n)' /\ LaunchAlone(n)' /\ Described(n)'
    <2>1. OneLaunch(n) /\ LaunchRecord(n) /\ LaunchAlone(n) /\ Described(n)
      BY <1>15 DEF SessionsInv, Unraced
    <2>2. Runs(n)' <=> Runs(n)
      BY <1>3 DEF Runs
    <2>3. \A d \in Cmd : Launches(d, n)' => Launches(d, n) /\ (d = c => cmd[c].pc # "wait")
      BY <1>5, <1>7, <1>8 DEF Launches, LaunchPCs
    <2>4. OneLaunch(n)'
      BY <1>3, <1>8, <2>1, <2>3 DEF OneLaunch
    <2>5. LaunchRecord(n)' /\ Described(n)'
      BY <1>3, <1>7, <1>8, <2>1, <2>2 DEF LaunchRecord, Described
    <2>6. LaunchAlone(n)'
      BY <1>5, <1>7, <1>8, <2>1, <2>2 DEF LaunchAlone
    <2> QED BY <2>4, <2>5, <2>6
  <1> QED BY <1>3, <1>9, <1>10, <1>13, <1>14, <1>15 DEF SessionsInv, TokenInv, Unraced
\* A command that goes on while files or servers change: its local state.
LEMMA GotoState ==
  ASSUME Types, NEW c \in Cmd, NEW from \in PCs, NEW to \in PCs, to # "idle", Goto(c, from, to)
  PROVE  /\ cmd[c].pc = from /\ cmd' \in [Cmd -> CmdStates]
         /\ cmd'[c].pc = to /\ cmd'[c].name = cmd[c].name
         /\ cmd'[c].port = cmd[c].port /\ cmd'[c].token = cmd[c].token
         /\ \A d \in Cmd \ {c} : cmd'[d] = cmd[d]
  <1> DEFINE st == [cmd[c] EXCEPT !.pc = to]
  <1>1. cmd[c] \in CmdStates
    BY DEF Types
  <1>2. cmd[c].pc = from /\ cmd' = [cmd EXCEPT ![c] = st]
    BY <1>1, BecomeIs DEF Goto
  <1>3. /\ st \in CmdStates /\ st.pc = to /\ st.name = cmd[c].name
        /\ st.port = cmd[c].port /\ st.token = cmd[c].token
    BY <1>1, WithPc
  <1> HIDE DEF st
  <1> QED BY <1>2, <1>3 DEF Types

\* opty_write_session: the record gets the token its session has drawn.
LEMMA StartWritesInv ==
  ASSUME SessionsInv, NEW c \in Cmd, StartWrites(c)
  PROVE  SessionsInv'
  <1>1. TokenInv /\ Types /\ LocalOK(cmd[c]) /\ cmd[c] \in CmdStates
    BY DEF SessionsInv, TokenInv, Locals, Types
  <1> DEFINE n == cmd[c].name
             rec == [port |-> cmd[c].port, token |-> cmd[c].token]
  <1>2. Goto(c, "write", "spawn") /\ record' = [record EXCEPT ![n] = rec]
    BY DEF StartWrites, Write
  <1>3. UNCHANGED <<server, stopping, spawned, tokens, raced>>
    BY DEF StartWrites, Write, net
  <1>4. /\ cmd[c].pc = "write" /\ cmd' \in [Cmd -> CmdStates]
        /\ cmd'[c].pc = "spawn" /\ cmd'[c].name = n
        /\ cmd'[c].port = cmd[c].port /\ cmd'[c].token = cmd[c].token
        /\ \A d \in Cmd \ {c} : cmd'[d] = cmd[d]
    BY <1>1, <1>2, GotoState DEF PCs
  <1>5. n \in Name /\ rec \in Records /\ cmd[c].token \in 1 .. MaxToken /\ cmd[c].port \in Port
    BY <1>1, <1>4 DEF LocalOK, Records
  <1>6. rec # None /\ rec.token = cmd[c].token /\ rec.port = cmd[c].port
    BY <1>5, NoneAssumption DEF Port
  <1>7. \A k \in Name : record'[k] = IF k = n THEN rec ELSE record[k]
    BY <1>1, <1>2 DEF Types
  <1>8. Types'
    BY <1>1, <1>2, <1>3, <1>4, <1>5 DEF Types
  <1> HIDE DEF rec
  <1>9. Locals'
    <2> SUFFICES ASSUME NEW d \in Cmd PROVE LocalOK(cmd[d])'
      BY DEF Locals
    <2>1. LocalOK(cmd[d])
      BY <1>1 DEF TokenInv, Locals
    <2>2. CASE d = c
      BY <1>4, <1>5, <2>2 DEF LocalOK
    <2>3. CASE d # c
      BY <1>4, <1>6, <1>7, <2>1, <2>3 DEF LocalOK
    <2> QED BY <2>2, <2>3
  <1>10. \A k \in Name, t \in 1 .. MaxToken : Holds(k, t)' => Holds(k, t)
    BY <1>3, <1>4, <1>6, <1>7 DEF Holds
  <1>11. Tokens' /\ Quiet' /\ StopsOwn'
    BY <1>1, <1>3, <1>10 DEF TokenInv, Tokens, Quiet, StopsOwn
  <1>12. ASSUME NEW k \in Name, k \notin raced
         PROVE  OneLaunch(k)' /\ LaunchRecord(k)' /\ LaunchAlone(k)' /\ Described(k)'
    <2>1. OneLaunch(k) /\ LaunchRecord(k) /\ LaunchAlone(k) /\ Described(k)
      BY <1>12 DEF SessionsInv, Unraced
    <2>2. Runs(k)' <=> Runs(k)
      BY <1>3 DEF Runs
    <2>3. \A d \in Cmd : Launches(d, k)' <=> Launches(d, k)
      BY <1>4 DEF Launches, LaunchPCs
    <2>4. OneLaunch(k)'
      BY <1>3, <1>4, <2>1, <2>3 DEF OneLaunch, Launches
    <2>5. k = n => ~Runs(k) /\ \A s \in spawned : s.name # k
      BY <1>4, <2>1 DEF OneLaunch, LaunchAlone, Launches, LaunchPCs
    <2>6. \A d \in Cmd : d # c /\ k = n => ~Launches(d, k)
      BY <1>4, <2>1 DEF OneLaunch, Launches, LaunchPCs
    <2>7. LaunchRecord(k)'
      <3>1. \A d \in Cmd : cmd'[d].name = k /\ cmd'[d].pc \in {"probe", "reprobe", "spawn"} =>
               record'[k] = [port |-> cmd'[d].port, token |-> cmd'[d].token]
        BY <1>4, <1>7, <2>1, <2>6 DEF LaunchRecord, Launches, LaunchPCs, rec
      <3>2. \A s \in spawned : s.name = k =>
               record'[k] = [port |-> s.port, token |-> s.token] /\ ~Runs(k)'
        BY <1>7, <2>1, <2>2, <2>5 DEF LaunchRecord
      <3> QED BY <1>3, <3>1, <3>2 DEF LaunchRecord
    <2>8. LaunchAlone(k)'
      BY <1>4, <2>1, <2>2, <2>5 DEF LaunchAlone
    <2>9. Described(k)'
      BY <1>3, <1>7, <2>1, <2>5 DEF Described, Runs
    <2> QED BY <2>4, <2>7, <2>8, <2>9
  <1> QED BY <1>3, <1>8, <1>9, <1>11, <1>12 DEF SessionsInv, TokenInv, Unraced

\* opty_spawn_server: the server process has the session's record.
LEMMA SpawnInv ==
  ASSUME SessionsInv, NEW c \in Cmd, Spawn(c)
  PROVE  SessionsInv'
  <1>1. TokenInv /\ Types /\ LocalOK(cmd[c]) /\ cmd[c] \in CmdStates
    BY DEF SessionsInv, TokenInv, Locals, Types
  <1> DEFINE n == cmd[c].name
  <1>2. /\ Goto(c, "spawn", "wait") /\ spawned' = spawned \cup {OwnServer(c)}
        /\ UNCHANGED <<record, tokens, server, stopping, raced>>
    BY DEF Spawn, files
  <1>4. /\ cmd[c].pc = "spawn" /\ cmd' \in [Cmd -> CmdStates]
        /\ cmd'[c].pc = "wait" /\ cmd'[c].name = n
        /\ cmd'[c].port = cmd[c].port /\ cmd'[c].token = cmd[c].token
        /\ \A d \in Cmd \ {c} : cmd'[d] = cmd[d]
    BY <1>1, <1>2, GotoState DEF PCs
  <1>5. n \in Name /\ cmd[c].token \in 1 .. MaxToken /\ cmd[c].port \in Port
    BY <1>1, <1>4 DEF LocalOK
  <1>6. /\ OwnServer(c) \in Spawning /\ OwnServer(c).name = n
        /\ OwnServer(c).port = cmd[c].port /\ OwnServer(c).token = cmd[c].token
    BY <1>5 DEF OwnServer, Spawning
  <1>8. Types'
    BY <1>1, <1>2, <1>4, <1>6 DEF Types
  <1>9. Locals'
    <2> SUFFICES ASSUME NEW d \in Cmd PROVE LocalOK(cmd[d])'
      BY DEF Locals
    <2>1. LocalOK(cmd[d])
      BY <1>1 DEF TokenInv, Locals
    <2> QED BY <1>2, <1>4, <1>5, <2>1 DEF LocalOK
  <1>10. \A k \in Name, t \in 1 .. MaxToken : Holds(k, t)' => Holds(k, t)
    BY <1>2, <1>4, <1>6 DEF Holds
  <1>11. Tokens' /\ Quiet' /\ StopsOwn'
    BY <1>1, <1>2, <1>10 DEF TokenInv, Tokens, Quiet, StopsOwn
  <1>12. ASSUME NEW k \in Name, k \notin raced
         PROVE  OneLaunch(k)' /\ LaunchRecord(k)' /\ LaunchAlone(k)' /\ Described(k)'
    <2>1. OneLaunch(k) /\ LaunchRecord(k) /\ LaunchAlone(k) /\ Described(k)
      BY <1>12 DEF SessionsInv, Unraced
    <2>2. Runs(k)' <=> Runs(k)
      BY <1>2 DEF Runs
    <2>3. \A d \in Cmd : Launches(d, k)' <=> Launches(d, k)
      BY <1>4 DEF Launches, LaunchPCs
    <2>5. k = n => ~Runs(k) /\ \A s \in spawned : s.name # k
      BY <1>4, <2>1 DEF OneLaunch, LaunchAlone, Launches, LaunchPCs
    <2>6. \A d \in Cmd : d # c /\ k = n => ~Launches(d, k)
      BY <1>4, <2>1 DEF OneLaunch, Launches, LaunchPCs
    <2>4. OneLaunch(k)'
      BY <1>2, <1>4, <1>6, <2>1, <2>3, <2>5, <2>6 DEF OneLaunch, Launches
    <2>7. LaunchRecord(k)'
      <3>1. k = n => record[k] = [port |-> cmd[c].port, token |-> cmd[c].token]
        BY <1>4, <2>1 DEF LaunchRecord
      <3>2. \A d \in Cmd : cmd'[d].name = k /\ cmd'[d].pc \in {"probe", "reprobe", "spawn"} =>
               record[k] = [port |-> cmd'[d].port, token |-> cmd'[d].token]
        BY <1>4, <2>1 DEF LaunchRecord
      <3>3. \A s \in spawned' : s.name = k =>
               record[k] = [port |-> s.port, token |-> s.token] /\ ~Runs(k)
        BY <1>2, <1>6, <2>1, <2>5, <3>1 DEF LaunchRecord
      <3> QED BY <1>2, <2>2, <3>2, <3>3 DEF LaunchRecord
    <2>8. LaunchAlone(k)' /\ Described(k)'
      BY <1>2, <1>4, <2>1, <2>2 DEF LaunchAlone, Described
    <2> QED BY <2>4, <2>7, <2>8
  <1> QED BY <1>2, <1>8, <1>9, <1>11, <1>12 DEF SessionsInv, TokenInv, Unraced
\* CONTROL_SHUTDOWN: a token that is the server's own is of the server's
\* session, because tokens have one owner.
LEMMA StopSendsInv ==
  ASSUME SessionsInv, NEW c \in Cmd, StopSends(c)
  PROVE  SessionsInv'
  <1>1. TokenInv /\ Types /\ LocalOK(cmd[c]) /\ cmd[c] \in CmdStates
    BY DEF SessionsInv, TokenInv, Locals, Types
  <1> DEFINE p == cmd[c].port
  <1>2. UNCHANGED <<record, tokens, server, spawned, raced>>
    BY DEF StopSends, Ask, files
  <1>3. CASE Goto(c, "stop", "idle") /\ UNCHANGED stopping
    BY <1>2, <1>3, GotoInv DEF Still, PCs, LaunchPCs
  <1>4. CASE /\ Accepts(p) /\ server[p].token = cmd[c].token
             /\ stopping' = [stopping EXCEPT ![p] = cmd[c].name]
             /\ Goto(c, "stop", "stopwait")
    <2>1. /\ cmd[c].pc = "stop" /\ cmd' \in [Cmd -> CmdStates]
          /\ cmd'[c].pc = "stopwait" /\ cmd'[c].name = cmd[c].name
          /\ cmd'[c].port = cmd[c].port /\ cmd'[c].token = cmd[c].token
          /\ \A d \in Cmd \ {c} : cmd'[d] = cmd[d]
      BY <1>1, <1>4, GotoState DEF PCs
    <2>2. cmd[c].name \in Name /\ cmd[c].token \in 1 .. MaxToken /\ p \in Port
      BY <1>1, <2>1 DEF LocalOK
    <2>3. server[p] # None /\ server[p].name \in Name
      BY <1>1, <1>4, <2>2 DEF Accepts, Types, Servers
    <2>4. Holds(cmd[c].name, cmd[c].token) /\ Holds(server[p].name, cmd[c].token)
      BY <1>4, <2>2, <2>3 DEF Holds
    <2>5. server[p].name = cmd[c].name
      BY <1>1, <2>2, <2>3, <2>4 DEF TokenInv, Tokens
    <2>6. Types'
      BY <1>1, <1>2, <1>4, <2>1, <2>2 DEF Types
    <2>7. Locals'
      <3> SUFFICES ASSUME NEW d \in Cmd PROVE LocalOK(cmd[d])'
        BY DEF Locals
      <3>1. LocalOK(cmd[d])
        BY <1>1 DEF TokenInv, Locals
      <3> QED BY <1>2, <2>1, <2>2, <3>1 DEF LocalOK
    <2>8. \A k \in Name, t \in 1 .. MaxToken : Holds(k, t)' => Holds(k, t)
      BY <1>2, <2>1 DEF Holds
    <2>9. Tokens'
      BY <1>1, <1>2, <2>8 DEF TokenInv, Tokens
    <2>10. Quiet' /\ StopsOwn'
      BY <1>1, <1>2, <1>4, <2>2, <2>3, <2>5 DEF TokenInv, Quiet, StopsOwn, Types
    <2>11. ASSUME NEW k \in Name, k \notin raced
           PROVE  OneLaunch(k)' /\ LaunchRecord(k)' /\ LaunchAlone(k)' /\ Described(k)'
      <3>1. OneLaunch(k) /\ LaunchRecord(k) /\ LaunchAlone(k) /\ Described(k)
        BY <2>11 DEF SessionsInv, Unraced
      <3>2. Runs(k)' <=> Runs(k)
        BY <1>2 DEF Runs
      <3>3. \A d \in Cmd : Launches(d, k)' => Launches(d, k) /\ d # c
        BY <2>1 DEF Launches, LaunchPCs
      <3>4. OneLaunch(k)'
        BY <1>2, <2>1, <3>1, <3>3 DEF OneLaunch
      <3>5. LaunchRecord(k)'
        BY <1>2, <2>1, <3>1, <3>2 DEF LaunchRecord
      <3>6. LaunchAlone(k)' /\ Described(k)'
        BY <1>2, <2>1, <3>1, <3>2 DEF LaunchAlone, Described
      <3> QED BY <3>4, <3>5, <3>6
    <2> QED BY <1>2, <2>6, <2>7, <2>9, <2>10, <2>11 DEF SessionsInv, TokenInv, Unraced
  <1> QED BY <1>3, <1>4 DEF StopSends, Ask

-----------------------------------------------------------------------------
(***************************************************************************)
(* Steps of the servers.                                                   *)
(***************************************************************************)
LEMMA ServerBindsInv ==
  ASSUME SessionsInv, NEW s \in spawned, ServerBinds(s)
  PROVE  SessionsInv'
  <1>1. TokenInv /\ Types /\ Locals /\ s \in Spawning
    BY DEF SessionsInv, TokenInv, Types
  <1> DEFINE own == [name |-> s.name, token |-> s.token]
  <1>2. /\ server[s.port] = None /\ server' = [server EXCEPT ![s.port] = own]
        /\ spawned' = spawned \ {s} /\ UNCHANGED <<record, tokens, stopping, cmd, raced>>
    BY DEF ServerBinds, files
  <1>3. /\ s.port \in Port /\ s.name \in Name /\ s.token \in 1 .. MaxToken
        /\ own \in Servers /\ own.name = s.name /\ own.token = s.token
    BY <1>1 DEF Spawning, Servers
  <1>4. own # None
    BY <1>3, NoneAssumption DEF Servers
  <1> HIDE DEF own
  <1>5. \A p \in Port : server'[p] = IF p = s.port THEN own ELSE server[p]
    BY <1>1, <1>2 DEF Types
  <1>6. Types' /\ Locals'
    BY <1>1, <1>2, <1>3 DEF Types, Locals, LocalOK
  <1>7. \A k \in Name, t \in 1 .. MaxToken : Holds(k, t)' => Holds(k, t)
    BY <1>2, <1>3, <1>5 DEF Holds
  <1>8. Tokens'
    BY <1>1, <1>2, <1>7 DEF TokenInv, Tokens
  <1>9. Quiet' /\ StopsOwn'
    BY <1>1, <1>2, <1>3, <1>4, <1>5 DEF TokenInv, Quiet, StopsOwn
  <1>10. ASSUME NEW k \in Name, k \notin raced
         PROVE  OneLaunch(k)' /\ LaunchRecord(k)' /\ LaunchAlone(k)' /\ Described(k)'
    <2>1. OneLaunch(k) /\ LaunchRecord(k) /\ LaunchAlone(k) /\ Described(k)
      BY <1>10 DEF SessionsInv, Unraced
    <2>2. k # s.name => (Runs(k)' <=> Runs(k))
      BY <1>2, <1>3, <1>5 DEF Runs
    <2>3. \A d \in Cmd : Launches(d, k)' <=> Launches(d, k)
      BY <1>2 DEF Launches
    <2>4. OneLaunch(k)'
      BY <1>2, <2>1, <2>3 DEF OneLaunch
    <2>5. k = s.name => \A r \in spawned' : r.name # k
      BY <1>2, <2>1 DEF OneLaunch
    <2>6. LaunchRecord(k)'
      BY <1>2, <2>1, <2>2, <2>5 DEF LaunchRecord
    <2>7. LaunchAlone(k)'
      BY <1>2, <2>1, <2>2 DEF LaunchAlone, OneLaunch, Launches, LaunchPCs
    <2>8. Described(k)'
      BY <1>2, <1>3, <1>5, <2>1 DEF Described, LaunchRecord, Runs
    <2> QED BY <2>4, <2>6, <2>7, <2>8
  <1> QED BY <1>2, <1>6, <1>8, <1>9, <1>10 DEF SessionsInv, TokenInv, Unraced

LEMMA ServerFailsInv ==
  ASSUME SessionsInv, NEW s \in spawned, ServerFails(s)
  PROVE  SessionsInv'
  <1>1. TokenInv /\ Types /\ Locals
    BY DEF SessionsInv, TokenInv
  <1>2. spawned' = spawned \ {s} /\ UNCHANGED <<record, tokens, server, stopping, cmd, raced>>
    BY DEF ServerFails, files
  <1>3. Types' /\ Locals'
    BY <1>1, <1>2 DEF Types, Locals, LocalOK
  <1>4. \A k \in Name, t \in 1 .. MaxToken : Holds(k, t)' => Holds(k, t)
    BY <1>2 DEF Holds
  <1>5. Tokens' /\ Quiet' /\ StopsOwn'
    BY <1>1, <1>2, <1>4 DEF TokenInv, Tokens, Quiet, StopsOwn
  <1>6. ASSUME NEW k \in Name, k \notin raced
        PROVE  OneLaunch(k)' /\ LaunchRecord(k)' /\ LaunchAlone(k)' /\ Described(k)'
    <2>1. OneLaunch(k) /\ LaunchRecord(k) /\ LaunchAlone(k) /\ Described(k)
      BY <1>6 DEF SessionsInv, Unraced
    <2>2. (Runs(k)' <=> Runs(k)) /\ \A d \in Cmd : Launches(d, k)' <=> Launches(d, k)
      BY <1>2 DEF Runs, Launches
    <2>3. OneLaunch(k)'
      BY <1>2, <2>1, <2>2 DEF OneLaunch
    <2>4. LaunchRecord(k)' /\ LaunchAlone(k)' /\ Described(k)'
      BY <1>2, <2>1, <2>2 DEF LaunchRecord, LaunchAlone, Described
    <2> QED BY <2>3, <2>4
  <1> QED BY <1>2, <1>3, <1>5, <1>6 DEF SessionsInv, TokenInv, Unraced

LEMMA ServerEndsInv ==
  ASSUME SessionsInv, NEW p \in Port, ServerEnds(p)
  PROVE  SessionsInv'
  <1>1. TokenInv /\ Types /\ Locals
    BY DEF SessionsInv, TokenInv
  <1>2. /\ server' = [server EXCEPT ![p] = None] /\ stopping' = [stopping EXCEPT ![p] = None]
        /\ UNCHANGED <<record, tokens, spawned, cmd, raced>>
    BY DEF ServerEnds, files
  <1>3. \A q \in Port : /\ server'[q] = IF q = p THEN None ELSE server[q]
                        /\ stopping'[q] = IF q = p THEN None ELSE stopping[q]
    BY <1>1, <1>2 DEF Types
  <1>4. Types' /\ Locals'
    BY <1>1, <1>2 DEF Types, Locals, LocalOK
  <1>5. \A k \in Name, t \in 1 .. MaxToken : Holds(k, t)' => Holds(k, t)
    BY <1>2, <1>3 DEF Holds
  <1>6. Tokens' /\ Quiet' /\ StopsOwn'
    BY <1>1, <1>2, <1>3, <1>5 DEF TokenInv, Tokens, Quiet, StopsOwn
  <1>7. ASSUME NEW k \in Name, k \notin raced
        PROVE  OneLaunch(k)' /\ LaunchRecord(k)' /\ LaunchAlone(k)' /\ Described(k)'
    <2>1. OneLaunch(k) /\ LaunchRecord(k) /\ LaunchAlone(k) /\ Described(k)
      BY <1>7 DEF SessionsInv, Unraced
    <2>2. (Runs(k)' => Runs(k)) /\ \A d \in Cmd : Launches(d, k)' <=> Launches(d, k)
      BY <1>2, <1>3 DEF Runs, Launches
    <2>3. OneLaunch(k)'
      BY <1>2, <2>1, <2>2 DEF OneLaunch
    <2>4. LaunchRecord(k)' /\ LaunchAlone(k)'
      BY <1>2, <2>1, <2>2 DEF LaunchRecord, LaunchAlone
    <2>5. Described(k)'
      BY <1>2, <1>3, <2>1 DEF Described
    <2> QED BY <2>3, <2>4, <2>5
  <1> QED BY <1>2, <1>4, <1>6, <1>7 DEF SessionsInv, TokenInv, Unraced

-----------------------------------------------------------------------------
\* The invariant holds at first: no record, no server, no command.
LEMMA SessionsInit == Init => SessionsInv
  <1> SUFFICES ASSUME Init PROVE SessionsInv
    OBVIOUS
  <1>1. \A c \in Cmd : cmd[c] = Idle
    BY DEF Init
  <1>2. Types
    BY IdleState, BoundsAssumption DEF Init, Types
  <1>3. Locals
    BY <1>1, IdleState DEF Locals
  <1>4. \A n \in Name, t \in 1 .. MaxToken : ~Holds(n, t)
    BY <1>1, IdleState DEF Init, Holds
  <1>5. Tokens /\ Quiet /\ StopsOwn
    BY <1>4 DEF Init, Tokens, Quiet, StopsOwn
  <1>6. Unraced
    BY <1>1, IdleState DEF Init, Unraced, OneLaunch, LaunchRecord, LaunchAlone, Described, Launches, LaunchPCs
  <1> QED BY <1>2, <1>3, <1>5, <1>6 DEF SessionsInv, TokenInv

\* Every step keeps it.
LEMMA SessionsStep == SessionsInv /\ [Next]_vars => SessionsInv'
  <1> SUFFICES ASSUME SessionsInv, [Next]_vars PROVE SessionsInv'
    OBVIOUS
  <1>1. ASSUME NEW c \in Cmd, Begin(c) \/ Continue(c) \/ Detach(c)
        PROVE  SessionsInv'
    <2>1. CASE Begins(c)
      BY <2>1, BeginsInv
    <2>2. CASE Steps(c)
      BY <2>2, StepsInv
    <2>3. CASE StartPicks(c) \/ StartWrites(c) \/ Spawn(c) \/ StopSends(c)
      BY <2>3, StartPicksInv, StartWritesInv, SpawnInv, StopSendsInv
    <2> QED BY <1>1, <2>1, <2>2, <2>3 DEF Begin, Continue, Begins, Steps
  <1>2. CASE Launch
    BY <1>2, ServerBindsInv, ServerFailsInv DEF Launch
  <1>3. CASE \E p \in Port : ServerEnds(p)
    BY <1>3, ServerEndsInv
  <1>4. CASE UNCHANGED vars
    <2>1. UNCHANGED <<record, tokens, server, stopping, spawned, cmd, raced>>
      BY <1>4 DEF vars, files, net
    <2>2. TokenInv'
      BY <2>1 DEF SessionsInv, TokenInv, Types, Locals, LocalOK, Tokens, Holds, Quiet, StopsOwn
    <2>3. Unraced'
      BY <2>1 DEF SessionsInv, Unraced, OneLaunch, LaunchRecord, LaunchAlone, Described, Launches, Runs
    <2> QED BY <2>2, <2>3 DEF SessionsInv
  <1> QED BY <1>1, <1>2, <1>3, <1>4 DEF Next

\* The inductive invariant of the session commands: every token stays with the
\* session it was drawn for, and a session whose launches never overlapped has
\* one launch at a time, which works with its record and beside no server.
THEOREM SessionsInvariant == Spec => []SessionsInv
  BY SessionsInit, SessionsStep, PTL DEF Spec

\* Whatever commands run_named_start, run_named_restart and run_named_stop are
\* interleaved, ports, records and servers keep their shape.
THEOREM TypeOKHolds == Spec => []TypeOK
  <1>1. SessionsInv => TypeOK
    <2> SUFFICES ASSUME SessionsInv PROVE TypeOK
      OBVIOUS
    <2>1. Types /\ Locals
      BY DEF SessionsInv, TokenInv
    <2>2. \A c \in Cmd : cmd[c] \in CmdStates /\ (cmd[c].pc = "idle" => cmd[c] = Idle)
      BY <2>1 DEF Types, Locals, LocalOK
    <2>3. 0 .. MaxPort \subseteq Port \cup {0}
      BY BoundsAssumption DEF Port
    <2>4. \A c \in Cmd : /\ cmd[c].name \in Name \cup {None}
                         /\ cmd[c].port \in Port \cup {0}
                         /\ cmd[c].token \in 0 .. MaxToken
      BY <2>2, <2>3 DEF CmdStates
    <2> QED BY <2>1, <2>2, <2>4 DEF TypeOK, Types, Records, Spawning
  <1> QED BY SessionsInvariant, <1>1, PTL

\* The control token of run_named_stop protects every other session: whatever
\* commands race and whoever got the port by now, a server only ever accepts a
\* stop of its own session.
THEOREM StopsOwnHolds == Spec => []StopsOwn
  <1>1. SessionsInv => StopsOwn
    BY DEF SessionsInv, TokenInv
  <1> QED BY SessionsInvariant, <1>1, PTL

\* As long as no two launches of a session overlap, its record describes its
\* one server, through run_named_start, run_named_restart and every failure of
\* theirs.
THEOREM RecordMatchesHolds == Spec => []RecordMatches
  <1>1. SessionsInv => RecordMatches
    <2> SUFFICES ASSUME SessionsInv, NEW p \in Port, server[p] # None, server[p].name \notin raced
                 PROVE  record[server[p].name] = [port |-> p, token |-> server[p].token]
      BY DEF RecordMatches
    <2>1. server[p].name \in Name
      BY DEF SessionsInv, TokenInv, Types, Servers
    <2> QED BY <2>1 DEF SessionsInv, Unraced, Described
  <1> QED BY SessionsInvariant, <1>1, PTL
=============================================================================
