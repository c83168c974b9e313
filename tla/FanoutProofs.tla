---------------------------- MODULE FanoutProofs ----------------------------
(***************************************************************************)
(* Proofs about Fanout: first the lifetime of a struct client, then what   *)
(* an attached client is sent.                                             *)
(***************************************************************************)
EXTENDS Fanout, RingOpsProofs, TLAPS

-----------------------------------------------------------------------------
(***************************************************************************)
(* Who may use a struct client, for any number of connections: the         *)
(* reference count is exact, so client_free runs exactly when the last     *)
(* holder lets go.                                                         *)
(*                                                                         *)
(* RefCounts alone is not inductive: releasing is only right because a     *)
(* linked client still has its thread (Linked), because a snapshot is only *)
(* held between PtySnapshot and PtyRelease and covers the client being     *)
(* served (Snapshots), and because write_mu is only held by a thread that  *)
(* also holds a reference (Writers).                                       *)
(***************************************************************************)

Holds(c) == ThreadOwns(c) \/ in_list[c] \/ c \in snap

LifeType ==
    /\ in_list \in [Conn -> BOOLEAN]
    /\ dead \in [Conn -> BOOLEAN]
    /\ refs \in [Conn -> Nat]
    /\ fd \in [Conn -> {"none", "open", "shut", "closed"}]
    /\ cpc \in [Conn -> {"none", "new", "added", "intro", "lock", "snapshot", "publish", "welcome",
                         "replay", "loop", "pty", "control", "error", "senderr", "finish", "done"}]
    /\ write_mu \in [Conn -> Owners]
    /\ snap \subseteq Conn
    /\ todo \subseteq snap
    /\ ppc \in {"read", "snapshot", "send", "lock", "write", "drop", "shutall", "wait", "exit"}

Linked == \A c \in Conn : in_list[c] => ThreadOwns(c)

Snapshots ==
    /\ ppc \in {"read", "snapshot", "shutall", "wait", "exit"} => snap = {}
    /\ ppc \in {"lock", "write", "drop"} => cur \in todo
    /\ \A c \in snap : cpc[c] \notin {"none", "new"}

Writers == \A c \in Conn :
    /\ write_mu[c] = Pty <=> ppc = "write" /\ cur = c
    /\ write_mu[c] \in Conn => write_mu[c] = c
    /\ write_mu[c] = c <=> cpc[c] \in {"publish", "welcome", "replay", "senderr"}

Descriptors == \A c \in Conn :
    /\ fd[c] = "none" <=> cpc[c] = "none"
    /\ cpc[c] = "new" => fd[c] = "open"
    /\ refs[c] > 0 => fd[c] \in {"open", "shut"}
    /\ cpc[c] = "done" /\ refs[c] = 0 => fd[c] = "closed"

LifeInv == LifeType /\ RefCounts /\ Linked /\ Snapshots /\ Writers /\ Descriptors

life_vars == <<in_list, dead, refs, fd, cpc, write_mu, snap, todo, ppc, cur>>

\* The initial state has no clients.
LEMMA LifeInit == Init => LifeInv
  BY ThreadAssumption DEF Init, LifeInv, LifeType, RefCounts, Linked, Snapshots, Writers, Descriptors,
     ThreadOwns, One, Owners

\* Steps that leave the list, the counts and the descriptors alone and only
\* move a thread between points at which it owns its client.
LEMMA LifeMove ==
    ASSUME LifeInv, NEW c \in Conn, NEW to,
           ThreadOwns(c), cpc' = [cpc EXCEPT ![c] = to],
           to \in {"intro", "lock", "snapshot", "publish", "welcome", "replay", "loop", "pty", "control",
                   "error", "senderr", "finish"},
           UNCHANGED <<in_list, dead, refs, fd, snap, todo, ppc, cur>>,
           IF to \in {"publish", "welcome", "replay", "senderr"}
             THEN /\ write_mu[c] \in {None, c}
                  /\ write_mu' = [write_mu EXCEPT ![c] = c]
             ELSE \/ write_mu[c] # c /\ write_mu' = write_mu
                  \/ write_mu[c] = c /\ write_mu' = [write_mu EXCEPT ![c] = None]
    PROVE  LifeInv'
  <1>1. LifeType'
    BY DEF LifeInv, LifeType, Owners
  <1>2. RefCounts'
    BY DEF LifeInv, LifeType, RefCounts, ThreadOwns, One
  <1>3. Linked' /\ Snapshots' /\ Descriptors'
    BY DEF LifeInv, LifeType, Linked, Snapshots, Descriptors, ThreadOwns
  <1>4. Writers'
    BY ThreadAssumption DEF LifeInv, LifeType, Writers, Owners
  <1> QED BY <1>1, <1>2, <1>3, <1>4 DEF LifeInv

\* Letting go of a client on the way out: the thread of a connection (or main,
\* when the thread could not be started) gives up its own reference and the
\* list's.
LEMMA LifeFinish ==
    ASSUME LifeInv, NEW c \in Conn, ThreadOwns(c), write_mu[c] # c,
           cpc' = [cpc EXCEPT ![c] = "done"],
           MarkDeadAndRelease(c, 1),
           UNCHANGED <<write_mu, snap, todo, ppc, cur>>
    PROVE  LifeInv'
  <1> USE DEF MarkDeadAndRelease, DropRefs, Shut
  <1>1. LifeType'
    BY DEF LifeInv, LifeType
  <1>2. RefCounts'
    BY DEF LifeInv, LifeType, RefCounts, ThreadOwns, One
  <1>3. Linked' /\ Snapshots'
    BY DEF LifeInv, LifeType, Linked, Snapshots, ThreadOwns
  <1>4. Writers'
    BY DEF LifeInv, LifeType, Writers
  <1>5. Descriptors'
    BY DEF LifeInv, LifeType, Descriptors, RefCounts, ThreadOwns, One
  <1> QED BY <1>1, <1>2, <1>3, <1>4, <1>5 DEF LifeInv

\* The PTY thread drops a client it could not write to: only the list's
\* reference goes, and the snapshot's keeps the client.
LEMMA LifeDrop == LifeInv /\ PtyDrop => LifeInv'
  <1> SUFFICES ASSUME LifeInv, PtyDrop PROVE LifeInv'
    OBVIOUS
  <1> USE DEF PtyDrop, DropCur, MarkDeadAndRelease, DropRefs, Shut, lock_vars, thread_vars
  <1>0. cur \in snap /\ cur \in Conn
    BY DEF LifeInv, LifeType, Snapshots
  <1>1. LifeType'
    BY <1>0 DEF LifeInv, LifeType
  <1>2. RefCounts'
    BY <1>0 DEF LifeInv, LifeType, RefCounts, ThreadOwns, One
  <1>3. Linked' /\ Snapshots'
    BY <1>0 DEF LifeInv, LifeType, Linked, Snapshots, ThreadOwns
  <1>4. Writers'
    BY <1>0 DEF LifeInv, LifeType, Writers
  <1>5. Descriptors'
    <2>1. refs[cur] \in Nat /\ refs[cur] >= One(in_list[cur]) + 1
      BY <1>0 DEF LifeInv, LifeType, RefCounts, One
    <2>2. ~(refs[cur] > 0 /\ 0 + One(in_list[cur]) >= refs[cur])
      BY <2>1 DEF One
    <2>3. fd[cur] \in {"open", "shut"}
      BY <1>0, <2>1 DEF LifeInv, LifeType, Descriptors, One
    <2>4. fd'[cur] \in {"open", "shut"}
      BY <1>0, <2>2, <2>3 DEF LifeInv, LifeType, One
    <2>5. refs'[cur] > 0
      BY <1>0, <2>1 DEF LifeInv, LifeType, One
    <2>6. \A c \in Conn \ {cur} : fd'[c] = fd[c] /\ refs'[c] = refs[c]
      BY <1>0 DEF LifeInv, LifeType
    <2>7. cpc[cur] \notin {"none", "new"}
      BY <1>0 DEF LifeInv, Snapshots
    <2> QED
      BY <1>0, <2>4, <2>5, <2>6, <2>7 DEF LifeInv, LifeType, Descriptors
  <1> QED BY <1>1, <1>2, <1>3, <1>4, <1>5 DEF LifeInv

\* Taking the snapshot adds one reference for every client in it ...
LEMMA LifeSnapshot == LifeInv /\ PtySnapshot => LifeInv'
  <1> SUFFICES ASSUME LifeInv, PtySnapshot PROVE LifeInv'
    OBVIOUS
  <1> USE DEF PtySnapshot, SnapshotClients, net_vars, lock_vars, thread_vars
  <1>0. Receivers \subseteq Conn /\ snap = {}
    BY DEF LifeInv, LifeType, Snapshots, Receivers
  <1>1. LifeType'
    BY <1>0 DEF LifeInv, LifeType
  <1>2. RefCounts'
    BY <1>0 DEF LifeInv, LifeType, RefCounts, ThreadOwns, One
  <1>3. Linked' /\ Snapshots'
    BY <1>0 DEF LifeInv, LifeType, Linked, Snapshots, ThreadOwns, Receivers
  <1>4. Writers'
    BY DEF LifeInv, LifeType, Writers
  <1>5. Descriptors'
    BY <1>0 DEF LifeInv, LifeType, Descriptors, RefCounts, Linked, Receivers, ThreadOwns, One
  <1> QED BY <1>1, <1>2, <1>3, <1>4, <1>5 DEF LifeInv

\* ... and giving it back removes it, freeing the clients that have no other.
LEMMA LifeRelease == LifeInv /\ PtyRelease => LifeInv'
  <1> SUFFICES ASSUME LifeInv, PtyRelease PROVE LifeInv'
    OBVIOUS
  <1> USE DEF PtyRelease, ReleaseSnapshot, lock_vars, thread_vars
  <1>1. LifeType'
    BY DEF LifeInv, LifeType
  <1>2. RefCounts'
    BY DEF LifeInv, LifeType, RefCounts, ThreadOwns, One
  <1>3. Linked' /\ Snapshots'
    BY DEF LifeInv, LifeType, Linked, Snapshots, ThreadOwns
  <1>4. Writers'
    BY DEF LifeInv, LifeType, Writers
  <1>5. Descriptors'
    BY DEF LifeInv, LifeType, Descriptors, RefCounts, ThreadOwns, One, Snapshots
  <1> QED BY <1>1, <1>2, <1>3, <1>4, <1>5 DEF LifeInv

\* Shutting sockets down changes no count.
LEMMA LifeShutdown ==
    ASSUME LifeInv, ShutdownClients,
           UNCHANGED <<in_list, dead, refs, write_mu, snap, todo, cur>>,
           \/ UNCHANGED <<cpc, ppc>>
           \/ UNCHANGED cpc /\ ppc = "shutall" /\ ppc' = "wait"
           \/ UNCHANGED ppc /\ \E c \in Conn : Goto(c, "control", "finish")
    PROVE  LifeInv'
  <1> USE DEF ShutdownClients, Shut, Goto
  <1>1. LifeType'
    BY DEF LifeInv, LifeType
  <1>2. RefCounts'
    BY DEF LifeInv, LifeType, RefCounts, ThreadOwns, One
  <1>3. Linked' /\ Snapshots'
    BY DEF LifeInv, LifeType, Linked, Snapshots, ThreadOwns
  <1>4. Writers'
    BY DEF LifeInv, LifeType, Writers
  <1>5. Descriptors'
    BY DEF LifeInv, LifeType, Descriptors, Linked, ThreadOwns, RefCounts, One
  <1> QED BY <1>1, <1>2, <1>3, <1>4, <1>5 DEF LifeInv

\* The steps of the PTY thread between the snapshot and its release.
LEMMA LifeServe ==
    ASSUME LifeInv, UNCHANGED <<in_list, dead, refs, fd, cpc, snap>>,
           \/ ppc = "read" /\ ppc' \in {"snapshot", "shutall"} /\ UNCHANGED <<write_mu, todo, cur>>
           \/ ppc = "snapshot" /\ ppc' = "read" /\ UNCHANGED <<write_mu, todo, cur>>
           \/ ppc = "wait" /\ ppc' = "exit" /\ UNCHANGED <<write_mu, todo, cur>>
           \/ ppc = "send" /\ ppc' = "lock" /\ cur' \in todo /\ UNCHANGED <<write_mu, todo>>
           \/ ppc = "lock" /\ PtyLock
           \/ ppc = "write" /\ ppc' = "send" /\ todo' \subseteq todo
              /\ write_mu' = [write_mu EXCEPT ![cur] = None]
           \/ ppc = "write" /\ ppc' = "drop" /\ UNCHANGED <<todo, cur>>
              /\ write_mu' = [write_mu EXCEPT ![cur] = None]
    PROVE  LifeInv'
  <1> USE DEF PtyLock
  <1>1. LifeType'
    BY DEF LifeInv, LifeType, Owners
  <1>2. RefCounts' /\ Linked' /\ Descriptors'
    BY DEF LifeInv, RefCounts, Linked, Descriptors, ThreadOwns, One
  <1>3. Snapshots'
    BY DEF LifeInv, LifeType, Snapshots
  <1>4. Writers'
    <2>1. cur \in Conn \/ ppc \in {"read", "snapshot", "send", "wait"}
      BY DEF LifeInv, LifeType, Snapshots
    <2> QED
      BY <2>1, ThreadAssumption DEF LifeInv, LifeType, Writers, Owners
  <1> QED BY <1>1, <1>2, <1>3, <1>4 DEF LifeInv


\* Steps of a connection's thread while it owns its client: each is an
\* instance of LifeMove.
LEMMA LifeThread ==
    ASSUME LifeInv, NEW c \in Conn,
           \/ StartThread(c) \/ IntroNext(c) \/ AttachNext(c) \/ LoopNext(c)
           \/ ErrorLock(c) \/ SendError(c)
    PROVE  LifeInv'
  <1> USE DEF Goto, ThreadOwns, client_vars, net_vars, thread_vars, pty_vars, lock_vars
  <1>1. /\ cpc[c] \in {"publish", "welcome", "replay", "senderr"} <=> write_mu[c] = c
        /\ write_mu \in [Conn -> Owners]
        /\ None # c
    BY ThreadAssumption DEF LifeInv, LifeType, Writers
  <1>2. CASE StartThread(c) \/ IntroNext(c) \/ LoopNext(c)
    BY <1>1, <1>2, LifeMove DEF StartThread, IntroNext, IntroFails, IntroAccepted, IntroControl,
         LoopNext, LoopFrame, PtyCallReturns, LoopEnds
  <1>3. CASE AttachLock(c) \/ AttachNoMemory(c)
    BY <1>1, <1>3, LifeMove DEF AttachLock, AttachNoMemory
  <1>4. CASE AttachSnapshot(c)
    BY <1>1, <1>4, LifeMove DEF AttachSnapshot, TakeWindow
  <1>5. CASE AttachPublish(c) \/ SendWelcome(c)
    <2>1. write_mu' = [write_mu EXCEPT ![c] = c]
      BY <1>1, <1>5 DEF AttachPublish, Publish, SendWelcome
    <2> QED
      BY <1>1, <1>5, <2>1, LifeMove DEF AttachPublish, Publish, SendWelcome
  <1>6. CASE SendReplay(c) \/ AttachFails(c)
    BY <1>1, <1>6, LifeMove DEF SendReplay, AttachFails
  <1>7. CASE ErrorLock(c)
    BY <1>1, <1>7, LifeMove DEF ErrorLock
  <1>8. CASE SendError(c)
    BY <1>1, <1>8, LifeMove DEF SendError
  <1> QED
    BY <1>2, <1>3, <1>4, <1>5, <1>6, <1>7, <1>8 DEF AttachNext

\* accept() and the insertion in the list.
LEMMA LifeAccept ==
    ASSUME LifeInv, NEW c \in Conn, AcceptConn(c) \/ AddClient(c) \/ AddClientFails(c)
    PROVE  LifeInv'
  <1> USE DEF AcceptConn, AddClient, AddClientFails, client_vars, net_vars, pty_vars, lock_vars
  <1>1. /\ cpc[c] \in {"none", "new"}
        /\ refs[c] = 0 /\ ~in_list[c] /\ c \notin snap
    BY DEF LifeInv, Linked, Snapshots, RefCounts, ThreadOwns, One
  <1>2. LifeType'
    <2>1. CASE AcceptConn(c)
      BY <2>1 DEF LifeInv, LifeType
    <2>2. CASE AddClient(c)
      BY <2>2 DEF LifeInv, LifeType
    <2>3. CASE AddClientFails(c)
      BY <2>3 DEF LifeInv, LifeType
    <2> QED BY <2>1, <2>2, <2>3
  <1>3. RefCounts'
    BY <1>1 DEF LifeInv, LifeType, RefCounts, ThreadOwns, One
  <1>4. Linked' /\ Snapshots'
    BY <1>1 DEF LifeInv, LifeType, Linked, Snapshots, ThreadOwns
  <1>5. Writers'
    BY <1>1 DEF LifeInv, LifeType, Writers
  <1>6. Descriptors'
    BY <1>1 DEF LifeInv, LifeType, Descriptors
  <1> QED BY <1>2, <1>3, <1>4, <1>5, <1>6 DEF LifeInv

\* Every step of every thread keeps the invariant.
LEMMA LifeStep == LifeInv /\ [Next]_vars => LifeInv'
  <1> SUFFICES ASSUME LifeInv, [Next]_vars PROVE LifeInv'
    OBVIOUS
  <1> USE DEF Goto, main_vars, client_vars, net_vars, thread_vars, pty_vars, lock_vars
  <1>1. ASSUME NEW c \in Conn, AcceptConn(c) \/ AddClient(c) \/ AddClientFails(c) PROVE LifeInv'
    BY <1>1, LifeAccept
  <1>2. ASSUME NEW c \in Conn,
               \/ StartThread(c) \/ IntroNext(c) \/ AttachNext(c) \/ LoopNext(c)
               \/ ErrorLock(c) \/ SendError(c)
        PROVE  LifeInv'
    BY <1>2, LifeThread
  <1>3. ASSUME NEW c \in Conn, StartThreadFails(c) \/ FinishClient(c) PROVE LifeInv'
    <2>1. ThreadOwns(c) /\ write_mu[c] # c
      BY <1>3 DEF StartThreadFails, FinishClient, Finish, ThreadOwns, LifeInv, Writers
    <2> QED
      BY <1>3, <2>1, LifeFinish DEF StartThreadFails, FinishClient, Finish
  <1>4. ASSUME NEW c \in Conn, ControlShutdownClients(c) PROVE LifeInv'
    BY <1>4, LifeShutdown DEF ControlShutdownClients
  <1>5. CASE MainShutdownClients \/ PtyShutdownClients
    BY <1>5, LifeShutdown DEF MainShutdownClients, PtyShutdownClients
  <1>6. ASSUME NEW n \in 1 .. MaxRead, PtyRead(n) PROVE LifeInv'
    BY <1>6, LifeServe DEF PtyRead
  <1>7. CASE PtyEof \/ PtyReaps \/ PtySnapshotNoMemory
    BY <1>7, LifeServe DEF PtyEof, PtyReaps, PtySnapshotNoMemory
  <1>8. ASSUME NEW c \in Conn, PtyNext(c) PROVE LifeInv'
    BY <1>8, LifeServe DEF PtyNext
  <1>9. CASE PtyLock
    BY <1>9, LifeServe DEF PtyLock
  <1>10. CASE PtySkip \/ PtyWrite \/ PtyWriteFails
    BY <1>10, LifeServe DEF PtySkip, PtyWrite, PtyWriteFails, Unlock
  <1>11. CASE MainCloseListener \/ MainLeaves \/ Exited \/ UNCHANGED vars
    <2>1. UNCHANGED life_vars
      BY <1>11 DEF MainCloseListener, MainLeaves, Exited, vars, life_vars
    <2> QED
      BY <2>1 DEF life_vars, LifeInv, LifeType, RefCounts, Linked, Snapshots, Writers, Descriptors,
                  ThreadOwns, One
  <1> QED
    BY <1>1, <1>2, <1>3, <1>4, <1>5, <1>6, <1>7, <1>8, <1>9, <1>10, <1>11,
       LifeSnapshot, LifeDrop, LifeRelease
       DEF Next, AcceptNext, EndNext, SendNext

\* The invariant holds in every reachable state, for any number of
\* connections and any sizes.
THEOREM LifeInvariant == Spec => []LifeInv
  BY LifeInit, LifeStep, PTL DEF Spec

\* c->refs is always the number of holders of the client: the main safety
\* fact behind client_free (server.c, client_release_locked).
THEOREM RefCountsHold == Spec => []RefCounts
  <1>1. LifeInv => RefCounts
    BY DEF LifeInv
  <1> QED BY <1>1, LifeInvariant, PTL

\* No thread reaches a freed client through its own pointer, the list, the
\* snapshot or the client's mutex.
THEOREM NoUseAfterFreeHolds == Spec => []NoUseAfterFree
  <1>1. ASSUME LifeInv, NEW c \in Conn,
               ThreadOwns(c) \/ in_list[c] \/ c \in snap \/ write_mu[c] # None
        PROVE  fd[c] \in {"open", "shut"}
    <2>1. write_mu[c] # None => ThreadOwns(c) \/ c \in snap
      BY <1>1 DEF LifeInv, LifeType, Writers, Snapshots, ThreadOwns, Owners
    <2>2. refs[c] > 0
      BY <1>1, <2>1 DEF LifeInv, RefCounts, One
    <2> QED BY <2>2, <1>1 DEF LifeInv, Descriptors
  <1>2. LifeInv => NoUseAfterFree
    BY <1>1 DEF NoUseAfterFree
  <1> QED BY <1>2, LifeInvariant, PTL

\* A finished connection that no snapshot holds has been closed: nothing is
\* leaked on any failure path.
THEOREM NoLeakHolds == Spec => []NoLeak
  <1>1. LifeInv => NoLeak
    BY DEF LifeInv, NoLeak, RefCounts, Linked, Descriptors, ThreadOwns, One
  <1> QED BY <1>1, LifeInvariant, PTL

-----------------------------------------------------------------------------
(***************************************************************************)
(* A client that was marked dead stays so.  It is not written to, because  *)
(* server_mark_dead_locked shuts its socket down in the same critical      *)
(* section; a closed one is not touched, because closing is the last thing *)
(* that happens to a client: it has no holder left.                        *)
(***************************************************************************)
DeadShut ==
    /\ sent = [c \in Conn |-> sent[c]]
    /\ \A c \in Conn : dead[c] => fd[c] # "open" /\ cpc[c] \notin {"none", "new"}

\* What one step may do to a dead or closed connection.
LetRest == \A c \in Conn :
    /\ dead[c] => dead'[c] /\ sent'[c] = sent[c]
    /\ fd[c] = "closed" => UNCHANGED <<fd[c], refs[c], sent[c], in_list[c]>>

\* A closed connection has no holder and is not about to get one.
LEMMA ClosedUnheld ==
    ASSUME LifeInv, NEW c \in Conn, fd[c] = "closed"
    PROVE  ~ThreadOwns(c) /\ ~in_list[c] /\ c \notin snap /\ refs[c] = 0 /\ cpc[c] = "done"
  <1>1. refs[c] = 0
    BY DEF LifeInv, LifeType, Descriptors
  <1>2. ~ThreadOwns(c) /\ ~in_list[c] /\ c \notin snap
    BY <1>1 DEF LifeInv, RefCounts, One
  <1>3. cpc[c] # "none" /\ cpc[c] # "new"
    BY DEF LifeInv, Descriptors
  <1> QED BY <1>1, <1>2, <1>3 DEF ThreadOwns

\* Steps that send nothing and leave the clients alone.
LEMMA DeadQuiet ==
    ASSUME LifeInv, DeadShut, UNCHANGED <<dead, refs, in_list, fd, sent>>,
           \A c \in Conn : cpc'[c] = cpc[c] \/ cpc'[c] \notin {"none", "new"}
    PROVE  DeadShut' /\ LetRest
  BY DEF DeadShut, LetRest

\* Steps that send a frame: on a socket that is still open.
LEMMA DeadSend ==
    ASSUME LifeInv, DeadShut, UNCHANGED <<dead, refs, in_list, fd>>,
           NEW c \in Conn, CanWrite(c), NEW f, sent' = [sent EXCEPT ![c] = Append(@, f)],
           \A d \in Conn : cpc'[d] = cpc[d] \/ cpc'[d] \notin {"none", "new"}
    PROVE  DeadShut' /\ LetRest
  <1>1. sent' = [d \in Conn |-> sent'[d]] /\ \A d \in Conn : d # c => sent'[d] = sent[d]
    BY DEF DeadShut
  <1>2. ~dead[c] /\ fd[c] # "closed"
    BY DEF DeadShut, CanWrite
  <1> QED BY <1>1, <1>2 DEF DeadShut, LetRest

\* Steps that mark a client dead and let go of references to it.
LEMMA DeadDrop ==
    ASSUME LifeInv, DeadShut, NEW c \in Conn, ThreadOwns(c) \/ c \in snap, NEW own \in {0, 1},
           MarkDeadAndRelease(c, own), UNCHANGED sent,
           \A d \in Conn : cpc'[d] = cpc[d] \/ cpc'[d] \notin {"none", "new"}
    PROVE  DeadShut' /\ LetRest
  <1> USE DEF MarkDeadAndRelease, DropRefs, Shut
  <1>1. fd[c] # "closed" /\ cpc[c] \notin {"none", "new"}
    BY ClosedUnheld DEF ThreadOwns, LifeInv, Snapshots
  <1>2. \A d \in Conn : d # c => dead'[d] = dead[d] /\ fd'[d] = fd[d] /\ refs'[d] = refs[d]
                                /\ in_list'[d] = in_list[d]
    BY DEF LifeInv, LifeType
  <1>3. dead'[c] /\ fd'[c] # "open"
    BY DEF LifeInv, LifeType, DeadShut
  <1> QED BY <1>1, <1>2, <1>3, ZenonT(40) DEF DeadShut, LetRest

\* server_shutdown_clients
LEMMA DeadShutdown ==
    ASSUME LifeInv, DeadShut, ShutdownClients, UNCHANGED <<dead, refs, in_list, sent>>,
           \A d \in Conn : cpc'[d] = cpc[d] \/ cpc'[d] \notin {"none", "new"}
    PROVE  DeadShut' /\ LetRest
  BY DEF ShutdownClients, Shut, DeadShut, LetRest, LifeInv, LifeType

\* No step revives, writes to or closes again what is dead or closed.
LEMMA DeadStep ==
    ASSUME LifeInv, DeadShut, [Next]_vars
    PROVE  DeadShut' /\ LetRest
  <1> USE DEF Goto, main_vars, ring_vars, client_vars, net_vars, thread_vars, pty_vars, lock_vars
  <1>0. cpc \in [Conn -> {"none", "new", "added", "intro", "lock", "snapshot", "publish", "welcome",
                          "replay", "loop", "pty", "control", "error", "senderr", "finish", "done"}]
    BY DEF LifeInv, LifeType
  <1>1. ASSUME NEW c \in Conn,
               \/ StartThread(c) \/ IntroNext(c) \/ AttachLock(c) \/ AttachSnapshot(c)
               \/ AttachNoMemory(c) \/ AttachPublish(c) \/ AttachFails(c) \/ LoopNext(c) \/ ErrorLock(c)
        PROVE  DeadShut' /\ LetRest
    <2>1. /\ UNCHANGED <<dead, refs, in_list, fd, sent>>
          /\ \E to \in {"intro", "lock", "snapshot", "publish", "welcome", "loop", "pty", "control",
                        "error", "senderr", "finish"} : cpc' = [cpc EXCEPT ![c] = to]
      BY <1>1 DEF StartThread, IntroNext, IntroFails, IntroControl, IntroAccepted, AttachLock,
           AttachSnapshot, TakeWindow, AttachNoMemory, AttachPublish, Publish, AttachFails,
           LoopNext, LoopFrame, PtyCallReturns, LoopEnds,
           ErrorLock
    <2> QED BY <1>0, <2>1, DeadQuiet
  <1>2. ASSUME NEW c \in Conn, SendWelcome(c) \/ SendReplay(c) \/ SendError(c)
        PROVE  DeadShut' /\ LetRest
    <2>1. /\ UNCHANGED <<dead, refs, in_list, fd>>
          /\ \E to \in {"replay", "loop", "finish"} : cpc' = [cpc EXCEPT ![c] = to]
          /\ UNCHANGED sent \/ (CanWrite(c) /\ \E f : sent' = [sent EXCEPT ![c] = Append(@, f)])
      BY <1>2, Zenon DEF SendWelcome, SendReplay, SendError
    <2>2. \A d \in Conn : cpc'[d] = cpc[d] \/ cpc'[d] \notin {"none", "new"}
      BY <1>0, <2>1
    <2>3. CASE UNCHANGED sent
      BY <2>1, <2>2, <2>3, DeadQuiet
    <2>4. CASE CanWrite(c) /\ \E f : sent' = [sent EXCEPT ![c] = Append(@, f)]
      BY <2>1, <2>2, <2>4, DeadSend, Zenon
    <2> QED BY <2>1, <2>3, <2>4
  <1>3. ASSUME NEW c \in Conn, AcceptConn(c) \/ AddClient(c) \/ AddClientFails(c)
        PROVE  DeadShut' /\ LetRest
    <2>1. ~dead[c] /\ fd[c] # "closed"
      BY <1>3, ClosedUnheld DEF AcceptConn, AddClient, AddClientFails, DeadShut
    <2>2. UNCHANGED <<dead, sent>> /\ ~dead'[c]
      BY <1>3, <2>1 DEF AcceptConn, AddClient, AddClientFails
    <2>3. \A d \in Conn : d # c => /\ cpc'[d] = cpc[d] /\ fd'[d] = fd[d] /\ refs'[d] = refs[d]
                                   /\ in_list'[d] = in_list[d]
      BY <1>3 DEF AcceptConn, AddClient, AddClientFails, LifeInv, LifeType
    <2> QED BY <2>1, <2>2, <2>3 DEF DeadShut, LetRest
  <1>4. ASSUME NEW c \in Conn, StartThreadFails(c) \/ FinishClient(c)
        PROVE  DeadShut' /\ LetRest
    <2>1. /\ ThreadOwns(c) /\ MarkDeadAndRelease(c, 1) /\ UNCHANGED sent
          /\ cpc' = [cpc EXCEPT ![c] = "done"]
      BY <1>4 DEF StartThreadFails, FinishClient, Finish, ThreadOwns
    <2>2. \A d \in Conn : cpc'[d] = cpc[d] \/ cpc'[d] \notin {"none", "new"}
      BY <1>0, <2>1
    <2> QED BY <2>1, <2>2, DeadDrop
  <1>5. CASE PtyDrop
    <2>1. cur \in snap /\ cur \in Conn
      BY <1>5 DEF PtyDrop, DropCur, LifeInv, LifeType, Snapshots
    <2>2. MarkDeadAndRelease(cur, 0) /\ UNCHANGED <<sent, cpc>>
      BY <1>5 DEF PtyDrop, DropCur
    <2> QED BY <2>1, <2>2, DeadDrop
  <1>6. CASE \/ (\E c \in Conn : ControlShutdownClients(c)) \/ MainShutdownClients \/ PtyShutdownClients
    <2>1. /\ ShutdownClients /\ UNCHANGED <<dead, refs, in_list, sent>>
          /\ cpc' = cpc \/ \E c \in Conn : cpc' = [cpc EXCEPT ![c] = "finish"]
      BY <1>6 DEF ControlShutdownClients, MainShutdownClients, PtyShutdownClients
    <2>2. \A d \in Conn : cpc'[d] = cpc[d] \/ cpc'[d] \notin {"none", "new"}
      BY <1>0, <2>1
    <2> QED BY <2>1, <2>2, DeadShutdown
  <1>7. CASE PtyWrite
    <2>1. cur \in Conn
      BY <1>7 DEF PtyWrite, Unlock, LifeInv, LifeType, Snapshots
    <2> QED BY <1>7, <2>1, DeadSend DEF PtyWrite
  <1>8. CASE PtySnapshot \/ PtyRelease
    <2>1. UNCHANGED <<dead, in_list, sent, cpc>>
      BY <1>8 DEF PtySnapshot, SnapshotClients, PtyRelease
    <2>2. \A c \in Conn : fd[c] = "closed" => c \notin snap /\ c \notin Receivers
      BY ClosedUnheld DEF Receivers
    <2>3. \A c \in Conn : /\ fd'[c] = fd[c] \/ fd'[c] = "closed"
                          /\ fd[c] = "closed" => fd'[c] = fd[c] /\ refs'[c] = refs[c]
      BY <1>8, <2>2 DEF PtySnapshot, SnapshotClients, PtyRelease, ReleaseSnapshot
    <2> QED BY <2>1, <2>3 DEF DeadShut, LetRest
  <1>9. CASE \/ MainCloseListener \/ MainLeaves \/ (\E n \in 1 .. MaxRead : PtyRead(n))
             \/ PtySnapshotNoMemory \/ (\E c \in Conn : PtyNext(c)) \/ PtyLock \/ PtySkip \/ PtyWriteFails
             \/ PtyEof \/ PtyReaps \/ Exited \/ UNCHANGED vars
    <2>1. UNCHANGED <<dead, refs, in_list, fd, sent, cpc>>
      BY <1>9 DEF MainCloseListener, MainLeaves, PtyRead, PtySnapshotNoMemory, PtyNext, PtyLock, PtySkip,
           PtyWriteFails, PtyEof, PtyReaps, Exited, vars
    <2> QED BY <2>1, DeadQuiet
  <1> QED
    BY <1>1, <1>2, <1>3, <1>4, <1>5, <1>6, <1>7, <1>8, <1>9, Zenon
       DEF Next, AcceptNext, AttachNext, EndNext, SendNext

\* server_mark_dead_locked is final: nothing is sent to a dead client, and a
\* closed one is neither closed nor counted again, in whatever order its
\* thread, the PTY thread and main get to it.
THEOREM DeadStaysDeadHolds == Spec => DeadStaysDead
  <1>1. Init => DeadShut
    BY DEF Init, DeadShut
  <1>2. LifeInv /\ DeadShut /\ [Next]_vars => DeadShut'
    BY DeadStep
  <1>3. LifeInv /\ DeadShut /\ [Next]_vars =>
          [\A c \in Conn :
             /\ dead[c] => dead'[c] /\ sent'[c] = sent[c]
             /\ fd[c] = "closed" => UNCHANGED <<fd[c], refs[c], sent[c], in_list[c]>>]_vars
    BY DeadStep DEF LetRest
  <1> QED
    BY <1>1, <1>2, <1>3, LifeInvariant, PTL DEF Spec, DeadStaysDead

-----------------------------------------------------------------------------
(***************************************************************************)
(* What an attached client is sent, for any number of connections, any     *)
(* ring and chunk sizes and any requested positions: the replay and then   *)
(* the live output, without a gap, a repetition or a wrong byte, provided  *)
(* that the allocation in server_snapshot_clients does not fail.           *)
(*                                                                         *)
(* The heart of the invariant is Position: a linked, authenticated client  *)
(* has been sent everything up to ring.next_seq, or lacks exactly the      *)
(* chunk in the PTY thread's hands, which that thread has still to offer   *)
(* it.  It holds at the attach because clients_mu is held from the window  *)
(* to the publication, so the PTY thread cannot take its snapshot of the   *)
(* client list in between (Attaching).                                     *)
(***************************************************************************)

StreamType ==
    /\ ring \in Rings
    /\ chunk \in [seq : Nat, data : Seq(Byte)]
    /\ clients_mu \in Owners
    /\ authenticated \in [Conn -> BOOLEAN]
    /\ live_seq \in [Conn -> Nat]
    /\ sent \in [Conn -> Seq(Frames)]
    /\ req \in [Conn -> Nat]
    /\ window \in [Conn -> Windows]

RingFaithful == Faithful(ring, MaxSeq)

ChunkFaithful ==
    /\ chunk.data = Positions(chunk.seq, Len(chunk.data))
    /\ ppc \in {"snapshot", "send", "lock", "write", "drop"} => ring.next_seq = EndSeq

Alive == \A c \in Conn :
    /\ ThreadOwns(c) => (in_list[c] <=> ~dead[c])
    /\ cpc[c] \in {"none", "new"} => ~dead[c]

Mutex == \A c \in Conn : clients_mu = c <=> cpc[c] \in {"snapshot", "publish"}

\* What has been sent at each point of the attach.
Sent == \A c \in Conn :
    /\ cpc[c] \in {"none", "new", "added", "intro", "lock", "snapshot", "publish", "control"} =>
          sent[c] = << >> /\ ~authenticated[c]
    /\ cpc[c] \in {"welcome", "replay", "loop", "pty"} => authenticated[c]
    /\ cpc[c] = "welcome" => sent[c] = << >>
    /\ cpc[c] = "replay" => sent[c] = <<Welcome(window[c].base_seq, window[c].next_seq)>>
    /\ cpc[c] \in {"loop", "pty"} => Replayed(c)
    /\ cpc[c] \in {"error", "senderr"} => ~Replayed(c)

Attaching == \A c \in Conn :
    /\ cpc[c] \in {"publish", "welcome", "replay"} =>
          /\ window[c].from_seq <= window[c].next_seq
          /\ window[c].data = Positions(window[c].from_seq, window[c].next_seq - window[c].from_seq)
    /\ cpc[c] = "publish" =>
          \/ window[c].next_seq = ring.next_seq
          \/ window[c].next_seq = chunk.seq /\ ppc = "snapshot"
    /\ cpc[c] \in {"welcome", "replay"} => live_seq[c] = window[c].next_seq

Position == \A c \in Conn :
    in_list[c] /\ authenticated[c] =>
       \/ live_seq[c] = ring.next_seq
       \/ live_seq[c] = chunk.seq /\ (ppc = "snapshot" \/ c \in todo)

Served ==
    /\ \A c \in snap : authenticated[c]
    /\ \A c \in todo : chunk.seq <= live_seq[c]

LastSent == \A c \in Conn : Replayed(c) => FrameEnd(sent[c][Len(sent[c])]) = live_seq[c]

StreamInv ==
    /\ StreamType /\ RingFaithful /\ ChunkFaithful /\ Alive /\ Mutex /\ Sent /\ Attaching
    /\ Position /\ Served /\ LastSent /\ StreamFaithful /\ StreamContiguous /\ ReplayFirst

-----------------------------------------------------------------------------
\* Nothing has been printed and nobody is connected.
LEMMA StreamInit == Init => StreamInv
  <1> SUFFICES ASSUME Init PROVE StreamInv
    OBVIOUS
  <1> USE DEF Init
  <1>1. ring \in Rings /\ RingFaithful
    BY CapAssumption, BoundsAssumption DEF opty_ring_init, Rings, RingFaithful, Faithful
  <1>2. StreamType
    BY <1>1 DEF StreamType, Owners, NoWindow, Windows
  <1>3. ChunkFaithful
    BY DEF ChunkFaithful, Positions
  <1>4. Alive /\ Mutex /\ Sent /\ Attaching /\ Position /\ Served
    BY ThreadAssumption DEF Alive, Mutex, Sent, Attaching, Position, Served, ThreadOwns
  <1>5. LastSent /\ StreamFaithful /\ StreamContiguous /\ ReplayFirst
    BY DEF LastSent, StreamFaithful, StreamContiguous, ReplayFirst, Replayed, Carries
  <1> QED BY <1>1, <1>2, <1>3, <1>4, <1>5 DEF StreamInv

\* The conjuncts about the frames sent depend on few variables.
LEMMA SentKept ==
    ASSUME LastSent, StreamFaithful, StreamContiguous, UNCHANGED sent,
           \A c \in Conn : Replayed(c) => live_seq'[c] = live_seq[c]
    PROVE  LastSent' /\ StreamFaithful' /\ StreamContiguous'
  BY DEF LastSent, StreamFaithful, StreamContiguous, Replayed, Carries, FrameEnd

\* The moves of a connection's thread that send nothing.
LEMMA StreamMove ==
    ASSUME StreamInv, NEW c \in Conn, NEW to, cpc' = [cpc EXCEPT ![c] = to],
           cpc \in [Conn -> {"none", "new", "added", "intro", "lock", "snapshot", "publish", "welcome",
                         "replay", "loop", "pty", "control", "error", "senderr", "finish", "done"}],
           <<cpc[c], to>> \in
              {<<"none", "new">>, <<"new", "done">>, <<"added", "intro">>, <<"intro", "finish">>,
               <<"intro", "error">>, <<"intro", "control">>, <<"intro", "lock">>,
               <<"control", "finish">>, <<"lock", "snapshot">>, <<"snapshot", "error">>,
               <<"welcome", "error">>, <<"replay", "error">>, <<"loop", "finish">>,
               <<"loop", "pty">>, <<"pty", "loop">>, <<"pty", "finish">>,
               <<"error", "senderr">>},
           UNCHANGED <<ring, chunk, authenticated, live_seq, sent, in_list, dead, ppc, snap, todo>>,
           req' \in [Conn -> Nat],
           \/ UNCHANGED window
           \/ to = "error" /\ window' = [window EXCEPT ![c] = NoWindow],
           IF to = "snapshot" THEN clients_mu = None /\ clients_mu' = c
           ELSE IF cpc[c] = "snapshot" THEN clients_mu' = None
           ELSE UNCHANGED clients_mu
    PROVE  StreamInv'
  <1>0. StreamType'
    <2>1. NoWindow \in Windows
      BY DEF NoWindow, Windows
    <2>2. window' \in [Conn -> Windows]
      BY <2>1 DEF StreamInv, StreamType
    <2>3. clients_mu' \in Owners
      BY DEF StreamInv, StreamType, Owners
    <2> QED BY <2>2, <2>3 DEF StreamInv, StreamType
  <1>1. RingFaithful' /\ ChunkFaithful' /\ Position' /\ Served'
    BY DEF StreamInv, RingFaithful, ChunkFaithful, Position, Served, Faithful, EndSeq
  <1>2. Alive'
    BY DEF StreamInv, Alive, ThreadOwns
  <1>3. Mutex'
    BY ThreadAssumption DEF StreamInv, StreamType, Mutex, Owners
  <1>4. Sent'
    <2>1. cpc'[c] = to /\ \A d \in Conn \ {c} : cpc'[d] = cpc[d]
      OBVIOUS
    <2>2. \A d \in Conn \ {c} : window'[d] = window[d]
      BY DEF StreamInv, StreamType
    <2>3. /\ to \in {"new", "intro", "control", "lock", "snapshot"} =>
                sent[c] = << >> /\ ~authenticated[c]
          /\ to \in {"loop", "pty"} => authenticated[c] /\ Replayed(c)
          /\ to \in {"error", "senderr"} => ~Replayed(c)
      <3>1. to \in {"new", "intro", "control", "lock", "snapshot"} =>
               cpc[c] \in {"none", "added", "intro", "lock"}
        OBVIOUS
      <3>2. to \in {"loop", "pty"} => cpc[c] \in {"loop", "pty"}
        OBVIOUS
      <3>3. to \in {"error", "senderr"} =>
               cpc[c] \in {"intro", "snapshot", "welcome", "replay", "error"}
        OBVIOUS
      <3>4. cpc[c] \in {"intro", "snapshot", "welcome"} => ~Replayed(c)
        BY DEF StreamInv, Sent, Replayed, Carries
      <3>5. cpc[c] = "replay" => ~Replayed(c)
        <4>1. \A f : 2 \notin DOMAIN <<f>>
          OBVIOUS
        <4> QED BY <4>1 DEF StreamInv, Sent, Replayed, Carries
      <3> QED BY <3>1, <3>2, <3>3, <3>4, <3>5 DEF StreamInv, Sent
    <2>4. to \notin {"none", "added", "publish", "welcome", "replay"}
      OBVIOUS
    <2>5. \A d \in Conn : Replayed(d)' <=> Replayed(d)
      BY DEF Replayed, Carries
    <2> QED
      BY <2>1, <2>2, <2>3, <2>4, <2>5 DEF StreamInv, Sent, Welcome
  <1>5. Attaching'
    BY DEF StreamInv, StreamType, Attaching
  <1>6. ReplayFirst'
    BY DEF StreamInv, Sent, ReplayFirst, Replayed, Carries
  <1>7. LastSent' /\ StreamFaithful' /\ StreamContiguous'
    BY SentKept DEF StreamInv
  <1> QED BY <1>0, <1>1, <1>2, <1>3, <1>4, <1>5, <1>6, <1>7 DEF StreamInv

\* A client enters the list unauthenticated, or leaves it for good.
LEMMA StreamList ==
    ASSUME StreamInv, LifeType, NEW c \in Conn,
           UNCHANGED <<ring, chunk, clients_mu, authenticated, live_seq, sent, req, window>>,
           \/ /\ cpc[c] = "new" /\ cpc' = [cpc EXCEPT ![c] = "added"]
              /\ in_list' = [in_list EXCEPT ![c] = TRUE]
              /\ UNCHANGED <<dead, ppc, snap, todo>>
           \/ /\ cpc[c] \in {"added", "finish"} /\ cpc' = [cpc EXCEPT ![c] = "done"]
              /\ in_list' = [in_list EXCEPT ![c] = FALSE]
              /\ dead' = [dead EXCEPT ![c] = TRUE]
              /\ UNCHANGED <<ppc, snap, todo>>
           \/ /\ in_list' = [in_list EXCEPT ![c] = FALSE]
              /\ dead' = [dead EXCEPT ![c] = TRUE]
              /\ ppc = "drop" /\ ppc' = "send" /\ todo' = todo \ {c}
              /\ c \in snap
              /\ UNCHANGED <<cpc, snap>>
    PROVE  StreamInv'
  <1>0. StreamType' /\ RingFaithful'
    BY DEF StreamInv, StreamType, RingFaithful, Faithful
  <1>1. ChunkFaithful' /\ Mutex' /\ Served'
    BY DEF StreamInv, ChunkFaithful, Mutex, Served, EndSeq, LifeType
  <1>2. Alive'
    <2>1. c \in snap => cpc[c] \notin {"none", "new"}
      BY DEF StreamInv, Served, Sent
    <2>2. /\ in_list \in [Conn -> BOOLEAN] /\ dead \in [Conn -> BOOLEAN]
          /\ DOMAIN cpc = Conn
      BY DEF LifeType
    <2> QED BY <2>1, <2>2, SMTT(20) DEF StreamInv, Alive, ThreadOwns
  <1>3. Position'
    BY DEF StreamInv, Position, LifeType, Sent
  <1>4. Sent' /\ Attaching' /\ ReplayFirst'
    <2>1. UNCHANGED cpc \/ cpc[c] \in {"new", "added", "finish"}
      OBVIOUS
    <2>2. UNCHANGED cpc \/ (cpc' = [cpc EXCEPT ![c] = cpc'[c]] /\ cpc'[c] \in {"added", "done"}
                            /\ (cpc'[c] = "added" => cpc[c] = "new"))
      BY DEF LifeType
    <2>3. ppc = ppc' \/ (ppc = "drop" /\ ppc' = "send")
      OBVIOUS
    <2>4. DOMAIN cpc = Conn
      BY DEF LifeType
    <2>5. Sent'
      BY <2>1, <2>2, <2>4 DEF StreamInv, Sent, Replayed, Carries, Welcome
    <2>6. Attaching'
      BY <2>1, <2>2, <2>3, <2>4 DEF StreamInv, Attaching
    <2>7. ReplayFirst'
      BY <2>1, <2>2, <2>4 DEF StreamInv, Sent, ReplayFirst, Replayed, Carries
    <2> QED BY <2>5, <2>6, <2>7
  <1>5. LastSent' /\ StreamFaithful' /\ StreamContiguous'
    BY SentKept DEF StreamInv
  <1> QED BY <1>0, <1>1, <1>2, <1>3, <1>4, <1>5 DEF StreamInv

\* The window is taken while clients_mu is held, and published before it is
\* given back: the client's position is the ring's, or the PTY thread has not
\* yet looked at the list for the chunk it has just appended.
LEMMA StreamAttach ==
    ASSUME StreamInv, LifeInv, NEW c \in Conn, AttachSnapshot(c) \/ AttachPublish(c)
    PROVE  StreamInv'
  <1> USE DEF Goto, main_vars, ring_vars, client_vars, net_vars, pty_vars, lock_vars
  <1>1. CASE AttachSnapshot(c)
    <2> DEFINE w == opty_ring_snapshot_window(ring, req[c])
    <2>1. /\ w \in Windows
          /\ w.from_seq <= w.next_seq
          /\ w.next_seq = ring.next_seq
          /\ w.data = Positions(w.from_seq, w.next_seq - w.from_seq)
      <3>1. ring \in Rings /\ Faithful(ring, MaxSeq) /\ req[c] \in Nat /\ MaxSeq \in Nat
        BY BoundsAssumption DEF StreamInv, StreamType, RingFaithful
      <3> DEFINE from == FromSeq(ring, req[c])
      <3>2. /\ from \in ring.base_seq .. ring.next_seq
            /\ Positions(from, ring.next_seq - from) \in Seq(Byte)
            /\ w = [base_seq |-> ring.base_seq, from_seq |-> from, next_seq |-> ring.next_seq,
                    data |-> Positions(from, ring.next_seq - from)]
        BY <3>1, WindowFaithful, ByteAssumption, Zenon
      <3>3. ring.base_seq \in Nat /\ ring.next_seq \in Nat
        BY <3>1 DEF Rings
      <3> HIDE DEF from, w
      <3> QED BY <3>2, <3>3 DEF Windows
    <2>2. /\ window' = [window EXCEPT ![c] = w]
          /\ cpc[c] = "snapshot" /\ cpc' = [cpc EXCEPT ![c] = "publish"]
          /\ req' = [req EXCEPT ![c] = 0]
          /\ UNCHANGED <<clients_mu, ring, chunk, authenticated, live_seq, sent, in_list, dead, ppc,
                         snap, todo>>
      BY <1>1 DEF AttachSnapshot, TakeWindow
    <2>3. cpc \in [Conn -> {"none", "new", "added", "intro", "lock", "snapshot", "publish", "welcome",
                         "replay", "loop", "pty", "control", "error", "senderr", "finish", "done"}]
      BY DEF LifeInv, LifeType
    <2> HIDE DEF w
    <2>4. StreamType' /\ RingFaithful' /\ ChunkFaithful' /\ Position' /\ Served'
      BY <2>1, <2>2 DEF StreamInv, StreamType, RingFaithful, Faithful, ChunkFaithful, Position, Served, EndSeq
    <2>5. Alive' /\ Mutex'
      BY <2>2, <2>3 DEF StreamInv, Alive, Mutex, ThreadOwns
    <2>6. Sent' /\ ReplayFirst'
      BY <2>2, <2>3 DEF StreamInv, StreamType, Sent, ReplayFirst, Replayed, Carries
    <2>7. Attaching'
      BY <2>1, <2>2, <2>3 DEF StreamInv, StreamType, Attaching
    <2>8. LastSent' /\ StreamFaithful' /\ StreamContiguous'
      BY <2>2, SentKept DEF StreamInv
    <2> QED BY <2>4, <2>5, <2>6, <2>7, <2>8 DEF StreamInv
  <1>2. CASE AttachPublish(c)
    <2>1. /\ cpc[c] = "publish" /\ cpc' = [cpc EXCEPT ![c] = "welcome"]
          /\ authenticated' = [authenticated EXCEPT ![c] = TRUE]
          /\ live_seq' = [live_seq EXCEPT ![c] = window[c].next_seq]
          /\ clients_mu' = None
          /\ UNCHANGED <<ring, chunk, window, req, sent, in_list, dead, ppc, snap, todo>>
      BY <1>2 DEF AttachPublish, Publish
    <2>2. cpc \in [Conn -> {"none", "new", "added", "intro", "lock", "snapshot", "publish", "welcome",
                         "replay", "loop", "pty", "control", "error", "senderr", "finish", "done"}]
          /\ todo \subseteq snap /\ snap \subseteq Conn
      BY DEF LifeInv, LifeType
    <2>3. window[c].next_seq \in Nat /\ clients_mu = c /\ ~authenticated[c] /\ c \notin snap
          /\ sent[c] = << >>
      BY <2>1 DEF StreamInv, StreamType, Windows, Mutex, Sent, Served
    <2>4. StreamType' /\ RingFaithful' /\ ChunkFaithful'
      BY <2>1, <2>3 DEF StreamInv, StreamType, RingFaithful, Faithful, ChunkFaithful, EndSeq, Owners
    <2>5. Alive' /\ Mutex'
      BY <2>1, <2>2, <2>3, ThreadAssumption DEF StreamInv, Alive, Mutex, ThreadOwns
    <2>6. Sent' /\ ReplayFirst'
      BY <2>1, <2>2, <2>3 DEF StreamInv, StreamType, Sent, ReplayFirst, Replayed, Carries
    <2>7. Attaching'
      BY <2>1, <2>2 DEF StreamInv, StreamType, Attaching
    <2>8. Position'
      BY <2>1, <2>2 DEF StreamInv, StreamType, Attaching, Position
    <2>9. Served'
      BY <2>1, <2>2, <2>3 DEF StreamInv, StreamType, Served
    <2>10. LastSent' /\ StreamFaithful' /\ StreamContiguous'
      <3>1. \A d \in Conn : Replayed(d) => live_seq'[d] = live_seq[d]
        BY <2>1, <2>3 DEF StreamInv, StreamType, Replayed, Carries
      <3> QED BY <2>1, <3>1, SentKept DEF StreamInv
    <2> QED BY <2>4, <2>5, <2>6, <2>7, <2>8, <2>9, <2>10 DEF StreamInv
  <1> QED BY <1>1, <1>2

\* Appending a frame after the attach: an ERROR to a client that has no
\* replay, or output that continues where the last frame ended.
LEMMA SentAppended ==
    ASSUME StreamInv, NEW c \in Conn, NEW f \in Frames,
           sent' = [sent EXCEPT ![c] = Append(@, f)],
           f.type \in {"STDOUT", "ERROR"},
           f.type = "STDOUT" => f.data = Positions(f.seq, Len(f.data)),
           Replayed(c) => f.type = "STDOUT" /\ f.seq = live_seq[c] /\ live_seq'[c] = FrameEnd(f),
           \A d \in Conn \ {c} : live_seq'[d] = live_seq[d]
    PROVE  /\ sent' \in [Conn -> Seq(Frames)]
           /\ \A d \in Conn : Replayed(d)' <=> Replayed(d)
           /\ \A d \in Conn \ {c} : sent'[d] = sent[d]
           /\ LastSent' /\ StreamFaithful' /\ StreamContiguous'
  <1> DEFINE n == Len(sent[c])
  <1>1. sent \in [Conn -> Seq(Frames)] /\ sent[c] \in Seq(Frames) /\ n \in Nat
    BY DEF StreamInv, StreamType
  <1>2. sent' \in [Conn -> Seq(Frames)]
    BY <1>1
  <1>3. /\ Len(sent'[c]) = n + 1
        /\ DOMAIN sent'[c] = 1 .. n + 1 /\ DOMAIN sent[c] = 1 .. n
        /\ sent'[c][n + 1] = f
        /\ \A i \in 1 .. n : sent'[c][i] = sent[c][i]
        /\ \A d \in Conn \ {c} : sent'[d] = sent[d]
    BY <1>1
  <1> HIDE DEF n
  <1>4. \A d \in Conn : Replayed(d)' <=> Replayed(d)
    BY <1>1, <1>3 DEF Replayed, Carries
  <1>5. LastSent'
    BY <1>1, <1>3, <1>4 DEF StreamInv, LastSent, FrameEnd
  <1>6. StreamFaithful'
    BY <1>1, <1>3 DEF StreamInv, StreamFaithful
  <1>7. StreamContiguous'
    <2> SUFFICES ASSUME NEW d \in Conn, Replayed(d)'
                 PROVE  /\ sent'[d][1].type = "WELCOME"
                        /\ sent'[d][1].data = <<FrameEnd(sent'[d][2])>>
                        /\ \A i \in 3 .. Len(sent'[d]) : /\ sent'[d][i].type = "STDOUT"
                                                         /\ sent'[d][i].seq = FrameEnd(sent'[d][i - 1])
      BY DEF StreamContiguous, FrameEnd
    <2>1. /\ Replayed(d)
          /\ sent[d][1].type = "WELCOME"
          /\ sent[d][1].data = <<FrameEnd(sent[d][2])>>
          /\ \A i \in 3 .. Len(sent[d]) : /\ sent[d][i].type = "STDOUT"
                                          /\ sent[d][i].seq = FrameEnd(sent[d][i - 1])
      BY <1>4 DEF StreamInv, StreamContiguous
    <2>2. CASE d # c
      BY <2>1, <2>2, <1>3
    <2>3. CASE d = c
      <3>1. n >= 2
        BY <1>1, <1>3, <2>1, <2>3 DEF Replayed, Carries
      <3>2. f.type = "STDOUT" /\ f.seq = FrameEnd(sent[c][n])
        BY <2>1, <2>3 DEF StreamInv, LastSent, n
      <3>3. n = Len(sent[c])
        BY DEF n
      <3> QED
        BY <1>1, <1>3, <2>1, <2>3, <3>1, <3>2, <3>3
    <2> QED BY <2>2, <2>3
  <1> QED BY <1>2, <1>3, <1>4, <1>5, <1>6, <1>7

\* WELCOME and REPLAY: the first two frames of a connection.
LEMMA StreamWelcome ==
    ASSUME StreamInv, LifeInv, NEW c \in Conn, SendWelcome(c) \/ SendReplay(c)
    PROVE  StreamInv'
  <1> USE DEF Goto, main_vars, ring_vars, client_vars, net_vars, pty_vars, lock_vars
  <1> DEFINE w == window[c]
             W == Welcome(w.base_seq, w.next_seq)
             R == Replay(w.from_seq, w.data)
  <1>0. /\ cpc \in [Conn -> {"none", "new", "added", "intro", "lock", "snapshot", "publish", "welcome",
                         "replay", "loop", "pty", "control", "error", "senderr", "finish", "done"}]
        /\ sent \in [Conn -> Seq(Frames)]
        /\ window \in [Conn -> Windows]
        /\ UNCHANGED <<ring, chunk, clients_mu, authenticated, live_seq, req, in_list, dead, ppc, snap, todo>>
    BY DEF LifeInv, LifeType, StreamInv, StreamType, SendWelcome, SendReplay
  <1>1. /\ w.base_seq \in Nat /\ w.next_seq \in Nat /\ w.from_seq \in Nat
        /\ w.data \in Seq(Byte \cup {Garbage})
    BY <1>0 DEF Windows
  <1>2. W \in Frames /\ R \in Frames
    <2>1. <<w.next_seq>> \in Seq(Nat \cup Byte \cup {Garbage})
      BY <1>1
    <2>2. w.data \in Seq(Nat \cup Byte \cup {Garbage})
      BY <1>1
    <2> QED BY <1>1, <2>1, <2>2 DEF Frames, Welcome, Replay
  <1>3. /\ RingFaithful' /\ ChunkFaithful' /\ Position' /\ Served'
    BY <1>0 DEF StreamInv, RingFaithful, Faithful, ChunkFaithful, EndSeq, Position, Served
  <1>4. CASE SendWelcome(c)
    <2>1. /\ cpc[c] = "welcome" /\ cpc' = [cpc EXCEPT ![c] = "replay"]
          /\ sent[c] = << >> /\ sent' = [sent EXCEPT ![c] = <<W>>]
          /\ UNCHANGED window
      <3>1. /\ cpc[c] = "welcome" /\ cpc' = [cpc EXCEPT ![c] = "replay"] /\ UNCHANGED window
            /\ sent' = [sent EXCEPT ![c] = Append(sent[c], W)]
        BY <1>4 DEF SendWelcome
      <3>2. sent[c] = << >>
        BY <3>1 DEF StreamInv, Sent
      <3> HIDE DEF W
      <3>3. Append(<< >>, W) = <<W>>
        OBVIOUS
      <3> QED BY <3>1, <3>2, <3>3
    <2> HIDE DEF w
    <2>2. StreamType'
      BY <1>0, <1>2, <2>1 DEF StreamInv, StreamType
    <2>3. Alive' /\ Mutex' /\ Attaching'
      BY <1>0, <2>1 DEF StreamInv, Alive, Mutex, Attaching, ThreadOwns
    <2>4. /\ \A d \in Conn : Replayed(d)' <=> Replayed(d)
          /\ ~Replayed(c)
          /\ \A d \in Conn \ {c} : sent'[d] = sent[d]
          /\ sent'[c] = <<W>> /\ W.type = "WELCOME" /\ Len(<<W>>) = 1
      BY <1>0, <2>1 DEF Replayed, Carries, Welcome
    <2>5. Sent'
      BY <1>0, <2>1, <2>4 DEF StreamInv, Sent, w
    <2>6. ReplayFirst' /\ StreamFaithful'
      BY <1>0, <2>1, <2>4 DEF StreamInv, ReplayFirst, StreamFaithful, Carries
    <2>7. LastSent' /\ StreamContiguous'
      BY <1>0, <2>1, <2>4 DEF StreamInv, LastSent, StreamContiguous, FrameEnd
    <2> QED BY <1>3, <2>2, <2>3, <2>5, <2>6, <2>7 DEF StreamInv
  <1>5. CASE SendReplay(c)
    <2>1. /\ cpc[c] = "replay" /\ cpc' = [cpc EXCEPT ![c] = "loop"]
          /\ sent[c] = <<W>> /\ sent' = [sent EXCEPT ![c] = Append(<<W>>, R)]
          /\ window' = [window EXCEPT ![c] = NoWindow]
      <3>1. /\ cpc[c] = "replay" /\ cpc' = [cpc EXCEPT ![c] = "loop"]
            /\ sent' = [sent EXCEPT ![c] = Append(sent[c], R)]
            /\ window' = [window EXCEPT ![c] = NoWindow]
        BY <1>5 DEF SendReplay
      <3>2. sent[c] = <<W>>
        BY <3>1 DEF StreamInv, Sent
      <3> QED BY <3>1, <3>2
    <2>2. /\ w.from_seq <= w.next_seq
          /\ w.data = Positions(w.from_seq, w.next_seq - w.from_seq)
          /\ live_seq[c] = w.next_seq
      BY <2>1 DEF StreamInv, Attaching
    <2>3. Len(w.data) = w.next_seq - w.from_seq /\ w.next_seq - w.from_seq \in Nat
      <3> HIDE DEF w
      <3>1. w.next_seq - w.from_seq \in Nat
        BY <1>1, <2>2
      <3>2. Len(Positions(w.from_seq, w.next_seq - w.from_seq)) = w.next_seq - w.from_seq
        BY <1>1, <3>1, PositionsFacts, Zenon
      <3> QED BY <2>2, <3>1, <3>2
    <2>4. /\ FrameEnd(R) = w.next_seq /\ W.data = <<w.next_seq>>
          /\ W.type = "WELCOME" /\ R.type = "REPLAY"
          /\ R.data = Positions(R.seq, Len(R.data))
      BY <1>1, <2>2, <2>3 DEF FrameEnd, Welcome, Replay
    <2> HIDE DEF w, W, R
    <2>5. StreamType'
      <3>1. NoWindow \in Windows
        BY DEF NoWindow, Windows
      <3>2. Append(<<W>>, R) \in Seq(Frames)
        BY <1>2
      <3> QED BY <1>0, <2>1, <3>1, <3>2 DEF StreamInv, StreamType
    <2>6. Alive' /\ Mutex' /\ Attaching'
      BY <1>0, <2>1 DEF StreamInv, Alive, Mutex, Attaching, ThreadOwns
    <2>7. /\ \A d \in Conn \ {c} : sent'[d] = sent[d]
          /\ Len(sent'[c]) = 2 /\ DOMAIN sent'[c] = 1 .. 2
          /\ sent'[c][1] = W /\ sent'[c][2] = R
      <3>1. <<W>> \in Seq(Frames) /\ Len(<<W>>) = 1 /\ <<W>>[1] = W
        BY <1>2
      <3> QED BY <1>0, <1>2, <2>1, <3>1
    <2>8. /\ \A d \in Conn \ {c} : Replayed(d)' <=> Replayed(d)
          /\ Replayed(c)'
      BY <2>7, <2>4 DEF Replayed, Carries
    <2>9. Sent'
      BY <1>0, <2>1, <2>7, <2>8 DEF StreamInv, Sent
    <2>10. ReplayFirst' /\ StreamFaithful'
      BY <1>0, <2>1, <2>4, <2>7, <2>8 DEF StreamInv, ReplayFirst, StreamFaithful, Carries
    <2>11. LastSent'
      BY <1>0, <2>2, <2>4, <2>7, <2>8 DEF StreamInv, LastSent, FrameEnd
    <2>12. StreamContiguous'
      <3> SUFFICES ASSUME NEW d \in Conn, Replayed(d)'
                   PROVE  /\ sent'[d][1].type = "WELCOME"
                          /\ sent'[d][1].data = <<FrameEnd(sent'[d][2])>>
                          /\ \A i \in 3 .. Len(sent'[d]) :
                                /\ sent'[d][i].type = "STDOUT"
                                /\ sent'[d][i].seq = FrameEnd(sent'[d][i - 1])
        BY DEF StreamContiguous, FrameEnd
      <3>1. CASE d = c
        BY <3>1, <2>4, <2>7
      <3>2. CASE d # c
        BY <3>2, <2>7, <2>8 DEF StreamInv, StreamContiguous
      <3> QED BY <3>1, <3>2
    <2> QED BY <1>3, <2>5, <2>6, <2>9, <2>10, <2>11, <2>12 DEF StreamInv
  <1> QED BY <1>4, <1>5

\* An ERROR goes to a client without a replay.
LEMMA StreamError ==
    ASSUME StreamInv, LifeInv, NEW c \in Conn, SendError(c)
    PROVE  StreamInv'
  <1> USE DEF Goto, main_vars, ring_vars, client_vars, net_vars, pty_vars, lock_vars
  <1>1. /\ cpc[c] = "senderr" /\ cpc' = [cpc EXCEPT ![c] = "finish"]
        /\ UNCHANGED <<ring, chunk, clients_mu, authenticated, live_seq, req, window, in_list, dead,
                       ppc, snap, todo>>
        /\ sent' = [sent EXCEPT ![c] = Append(@, Error)] \/ UNCHANGED sent
    BY DEF SendError
  <1>2. cpc \in [Conn -> {"none", "new", "added", "intro", "lock", "snapshot", "publish", "welcome",
                         "replay", "loop", "pty", "control", "error", "senderr", "finish", "done"}]
    BY DEF LifeInv, LifeType
  <1>3. ~Replayed(c)
    BY <1>1 DEF StreamInv, Sent
  <1>4. /\ sent' \in [Conn -> Seq(Frames)]
        /\ \A d \in Conn : Replayed(d)' <=> Replayed(d)
        /\ \A d \in Conn \ {c} : sent'[d] = sent[d]
        /\ LastSent' /\ StreamFaithful' /\ StreamContiguous'
    <2>1. CASE UNCHANGED sent
      BY <1>1, <2>1, SentKept DEF StreamInv, StreamType, Replayed, Carries
    <2>2. CASE sent' = [sent EXCEPT ![c] = Append(@, Error)]
      <3>1. Error \in Frames /\ Error.type = "ERROR"
        BY DEF Error, Frames
      <3> QED BY <1>1, <1>3, <2>2, <3>1, SentAppended
    <2> QED BY <1>1, <2>1, <2>2
  <1>5. StreamType' /\ RingFaithful' /\ ChunkFaithful' /\ Position' /\ Served'
    BY <1>1, <1>4 DEF StreamInv, StreamType, RingFaithful, Faithful, ChunkFaithful, EndSeq, Position, Served
  <1>6. Alive' /\ Mutex' /\ Attaching'
    BY <1>1, <1>2 DEF StreamInv, Alive, Mutex, Attaching, ThreadOwns
  <1>7. Sent'
    BY <1>1, <1>2, <1>4 DEF StreamInv, Sent
  <1>8. ReplayFirst'
    BY <1>1, <1>2, <1>4 DEF StreamInv, ReplayFirst, Carries
  <1> QED BY <1>4, <1>5, <1>6, <1>7, <1>8 DEF StreamInv

\* A chunk enters the ring: every linked client now lacks exactly this chunk,
\* and a client between its window and its publication can only lack it too.
LEMMA StreamRead ==
    ASSUME StreamInv, LifeInv, NEW n \in 1 .. MaxRead, PtyRead(n)
    PROVE  StreamInv'
  <1> USE DEF main_vars, client_vars, net_vars, thread_vars, lock_vars
  <1> DEFINE next == ring.next_seq
             data == Positions(next, n)
             new  == opty_ring_append(ring, data)
  <1>1. /\ ppc = "read" /\ ppc' = "snapshot"
        /\ next + n <= MaxSeq
        /\ ring' = new /\ chunk' = [seq |-> next, data |-> data]
        /\ UNCHANGED <<clients_mu, authenticated, live_seq, sent, cpc, req, window, in_list, dead, snap, todo>>
    BY DEF PtyRead
  <1>2. n \in Nat /\ next \in Nat /\ ring \in Rings /\ Faithful(ring, MaxSeq)
    BY BoundsAssumption DEF StreamInv, StreamType, RingFaithful, Rings
  <1>3. new \in Rings /\ Faithful(new, MaxSeq) /\ new.next_seq = next + n
    BY <1>1, <1>2, AppendFaithful, ByteAssumption, BoundsAssumption
  <1>4. data \in Seq(Byte) /\ Len(data) = n
    BY <1>1, <1>2, PositionsFacts, PositionsBytes, ByteAssumption, BoundsAssumption
  <1>5. snap = {} /\ todo = {}
    BY <1>1 DEF LifeInv, LifeType, Snapshots
  <1> HIDE DEF new, data, next
  <1>6. StreamType' /\ RingFaithful'
    BY <1>1, <1>2, <1>3, <1>4 DEF StreamInv, StreamType, RingFaithful, Faithful
  <1>7. ChunkFaithful'
    BY <1>1, <1>3, <1>4 DEF ChunkFaithful, EndSeq, data
  <1>8. Alive' /\ Mutex' /\ Sent'
    BY <1>1 DEF StreamInv, Alive, Mutex, Sent, ThreadOwns, Replayed, Carries
  <1>9. Attaching'
    BY <1>1 DEF StreamInv, Attaching, next
  <1>10. Position' /\ Served'
    BY <1>1, <1>5 DEF StreamInv, Position, Served, next
  <1>11. LastSent' /\ StreamFaithful' /\ StreamContiguous' /\ ReplayFirst'
    BY <1>1, SentKept DEF StreamInv, ReplayFirst, Replayed, Carries
  <1> QED BY <1>6, <1>7, <1>8, <1>9, <1>10, <1>11 DEF StreamInv

\* The steps of the PTY thread that write nothing.
LEMMA StreamServe ==
    ASSUME StreamInv, LifeInv,
           UNCHANGED <<ring, chunk, clients_mu, authenticated, live_seq, sent, cpc, req, window, in_list, dead>>,
           \/ PtySnapshot \/ (\E c \in Conn : PtyNext(c)) \/ PtyLock \/ PtySkip \/ PtyWriteFails
           \/ PtyRelease \/ PtyEof \/ PtyShutdownClients \/ PtyReaps
    PROVE  StreamInv'
  <1> USE DEF Unlock
  <1>1. StreamType' /\ RingFaithful' /\ Mutex' /\ Sent' /\ Alive'
    BY DEF StreamInv, StreamType, RingFaithful, Faithful, Mutex, Sent, Alive, ThreadOwns, Replayed, Carries
  <1>2. LastSent' /\ StreamFaithful' /\ StreamContiguous' /\ ReplayFirst'
    BY SentKept DEF StreamInv, ReplayFirst, Replayed, Carries
  <1>3. ChunkFaithful'
    BY DEF StreamInv, ChunkFaithful, EndSeq, PtySnapshot, SnapshotClients, PtyNext, PtyLock, PtySkip,
           PtyWriteFails, PtyRelease, PtyEof, PtyShutdownClients, PtyReaps
  <1>4. Attaching'
    <2>1. PtySnapshot => \A c \in Conn : cpc[c] # "publish"
      BY ThreadAssumption DEF PtySnapshot, SnapshotClients, StreamInv, Mutex
    <2>2. ~PtySnapshot => ppc # "snapshot"
      BY DEF PtyNext, PtyLock, PtySkip, PtyWriteFails, PtyRelease, PtyEof, PtyShutdownClients, PtyReaps
    <2> QED BY <2>1, <2>2 DEF StreamInv, Attaching
  <1>5. CASE PtySnapshot
    <2>1. \A c \in Conn : in_list[c] /\ authenticated[c] => c \in Receivers
      BY DEF StreamInv, Alive, Receivers, LifeInv, Linked
    <2>2. chunk.seq \in Nat /\ chunk.data \in Seq(Byte) /\ chunk.seq <= ring.next_seq
      BY <1>5 DEF PtySnapshot, SnapshotClients, StreamInv, StreamType, ChunkFaithful, EndSeq
    <2>3. Position'
      BY <1>5, <2>1 DEF PtySnapshot, SnapshotClients, StreamInv, Position
    <2>4. Served'
      <3>1. \A c \in Receivers : c \in Conn /\ in_list[c] /\ authenticated[c]
        BY DEF Receivers
      <3>2. \A c \in Receivers : chunk.seq <= live_seq[c]
        BY <2>2, <3>1 DEF StreamInv, Position
      <3>3. snap' = Receivers /\ todo' = Receivers
        BY <1>5 DEF PtySnapshot, SnapshotClients
      <3> QED BY <3>1, <3>2, <3>3 DEF Served
    <2> QED BY <1>1, <1>2, <1>3, <1>4, <2>3, <2>4 DEF StreamInv
  <1>6. CASE PtySkip
    <2>1. /\ cur \in Conn /\ todo' = todo \ {cur} /\ UNCHANGED snap /\ ppc = "write" /\ ppc' = "send"
          /\ live_seq[cur] >= EndSeq /\ ring.next_seq = EndSeq
      BY <1>6 DEF PtySkip, LifeInv, LifeType, Snapshots, StreamInv, ChunkFaithful
    <2>2. /\ live_seq[cur] \in Nat /\ chunk.seq \in Nat /\ Len(chunk.data) \in Nat
      BY <2>1 DEF StreamInv, StreamType
    <2>3. Position'
      BY <2>1, <2>2 DEF StreamInv, Position, EndSeq
    <2>4. Served'
      BY <2>1 DEF StreamInv, Served
    <2> QED BY <1>1, <1>2, <1>3, <1>4, <2>3, <2>4 DEF StreamInv
  <1>7. CASE (\E c \in Conn : PtyNext(c)) \/ PtyLock \/ PtyWriteFails \/ PtyRelease \/ PtyEof
             \/ PtyShutdownClients \/ PtyReaps
    <2>1. /\ todo' = todo /\ snap' \subseteq snap /\ ppc # "snapshot"
      BY <1>7 DEF PtyNext, PtyLock, PtyWriteFails, PtyRelease, PtyEof, PtyShutdownClients, PtyReaps
    <2>2. Position' /\ Served'
      BY <2>1 DEF StreamInv, Position, Served
    <2> QED BY <1>1, <1>2, <1>3, <1>4, <2>2 DEF StreamInv
  <1> QED BY <1>5, <1>6, <1>7

\* Cutting the first bytes off a run of positions leaves a run of positions.
LEMMA RestOfRun ==
    ASSUME NEW s \in Nat, NEW n \in Nat, NEW L \in Nat, s <= L, L < s + n,
           NEW data, data = Positions(s, n)
    PROVE  /\ L - s \in Nat /\ n - (L - s) \in Nat /\ L + (n - (L - s)) = s + n
           /\ [i \in 1 .. n - (L - s) |-> data[(L - s) + i]] = Positions(L, n - (L - s))
           /\ Positions(L, n - (L - s)) \in Seq(Nat)
           /\ Len(Positions(L, n - (L - s))) = n - (L - s)
  <1> DEFINE off == L - s
             len == n - off
  <1>1. off \in Nat /\ len \in Nat /\ L + len = s + n
    OBVIOUS
  <1>2. \A j \in 1 .. n : data[j] = s + j - 1
    BY PositionsFacts
  <1>3. \A i \in 1 .. len : data[off + i] = L + i - 1
    <2> TAKE i \in 1 .. len
    <2>1. off + i \in 1 .. n /\ s + (off + i) - 1 = L + i - 1
      OBVIOUS
    <2> HIDE DEF off, len
    <2> QED BY <1>2, <2>1
  <1> HIDE DEF off, len
  <1>4. [i \in 1 .. len |-> data[off + i]] = Positions(L, len)
    BY <1>3 DEF Positions
  <1>5. Positions(L, len) \in Seq(Nat) /\ Len(Positions(L, len)) = len
    BY <1>1, PositionsFacts
  <1> QED BY <1>1, <1>4, <1>5 DEF off, len

\* Live output: the part of the chunk that the client lacks, as a frame that
\* continues its stream.
LEMMA StreamWrite ==
    ASSUME StreamInv, LifeInv, PtyWrite
    PROVE  StreamInv'
  <1> USE DEF main_vars, ring_vars, client_vars, net_vars, thread_vars, lock_vars
  <1> DEFINE f == Rest(cur)
  <1>1. /\ cur \in snap /\ cur \in Conn /\ authenticated[cur]
        /\ ppc = "write" /\ ppc' = "send"
        /\ live_seq[cur] < EndSeq
        /\ sent' = [sent EXCEPT ![cur] = Append(@, f)]
        /\ live_seq' = [live_seq EXCEPT ![cur] = EndSeq]
        /\ todo' = todo \ {cur}
        /\ UNCHANGED <<ring, chunk, clients_mu, authenticated, cpc, req, window, in_list, dead, snap>>
        /\ write_mu[cur] = Pty
    BY DEF PtyWrite, Unlock, LifeInv, LifeType, Snapshots, Writers, StreamInv, Served
  <1>2. cpc \in [Conn -> {"none", "new", "added", "intro", "lock", "snapshot", "publish", "welcome",
                         "replay", "loop", "pty", "control", "error", "senderr", "finish", "done"}]
    BY DEF LifeInv, LifeType
  <1>3. cpc[cur] \in {"loop", "pty", "error", "finish", "done"}
    BY <1>1, <1>2, ThreadAssumption DEF LifeInv, Writers, StreamInv, Sent
  <1>4. /\ live_seq \in [Conn -> Nat] /\ live_seq[cur] \in Nat
        /\ chunk.seq \in Nat /\ chunk.data \in Seq(Byte) /\ Len(chunk.data) \in Nat
        /\ EndSeq = chunk.seq + Len(chunk.data) /\ EndSeq \in Nat
    BY <1>1 DEF StreamInv, StreamType, EndSeq
  <1>5. chunk.seq <= live_seq[cur]
    BY <1>1 DEF PtyWrite, Unlock, LifeInv, Snapshots, StreamInv, Served
  <1> DEFINE off == live_seq[cur] - chunk.seq
             len == Len(chunk.data) - off
  <1>6. /\ off \in Nat /\ len \in Nat /\ live_seq[cur] + len = chunk.seq + Len(chunk.data)
        /\ [i \in 1 .. len |-> chunk.data[off + i]] = Positions(live_seq[cur], len)
        /\ Positions(live_seq[cur], len) \in Seq(Nat)
        /\ Len(Positions(live_seq[cur], len)) = len
    <2>1. chunk.data = Positions(chunk.seq, Len(chunk.data))
      BY DEF StreamInv, ChunkFaithful
    <2>2. live_seq[cur] < chunk.seq + Len(chunk.data)
      BY <1>1 DEF EndSeq
    <2> DEFINE S == chunk.seq
               N == Len(chunk.data)
               L == live_seq[cur]
               D == chunk.data
    <2>3. S \in Nat /\ N \in Nat /\ L \in Nat /\ S <= L /\ L < S + N /\ D = Positions(S, N)
      BY <1>4, <1>5, <2>1, <2>2
    <2> HIDE DEF S, N, L, D
    <2>4. /\ L - S \in Nat /\ N - (L - S) \in Nat /\ L + (N - (L - S)) = S + N
          /\ [i \in 1 .. N - (L - S) |-> D[(L - S) + i]] = Positions(L, N - (L - S))
          /\ Positions(L, N - (L - S)) \in Seq(Nat)
          /\ Len(Positions(L, N - (L - S))) = N - (L - S)
      BY <2>3, RestOfRun
    <2> QED BY <2>4 DEF S, N, L, D
  <1>7. Offset(cur) = off
    BY <1>4, <1>5 DEF Offset
  <1>8. chunk.seq + off = live_seq[cur]
    BY <1>4, <1>5
  <1>9. /\ f.type = "STDOUT" /\ f.seq = live_seq[cur]
        /\ f.data = Positions(live_seq[cur], len)
        /\ Len(f.data) = len /\ f.data \in Seq(Nat)
    <2>1. f = [type |-> "STDOUT", seq |-> chunk.seq + off, data |-> [i \in 1 .. len |-> chunk.data[off + i]]]
      BY <1>7 DEF Rest, Stdout
    <2> HIDE DEF f, off, len
    <2> QED BY <1>6, <1>8, <2>1
  <1> HIDE DEF off, len
  <1>10. f \in Frames
    <2>1. f.data \in Seq(Nat \cup Byte \cup {Garbage})
      BY <1>9
    <2>2. f = [type |-> "STDOUT", seq |-> f.seq, data |-> f.data]
      BY DEF Rest, Stdout
    <2> HIDE DEF f
    <2> QED BY <1>4, <1>9, <2>1, <2>2 DEF Frames
  <1>11. FrameEnd(f) = EndSeq
    BY <1>4, <1>6, <1>9 DEF FrameEnd
  <1> HIDE DEF f
  <1>12. /\ sent' \in [Conn -> Seq(Frames)]
         /\ \A d \in Conn : Replayed(d)' <=> Replayed(d)
         /\ \A d \in Conn \ {cur} : sent'[d] = sent[d]
         /\ LastSent' /\ StreamFaithful' /\ StreamContiguous'
    <2>1. f.data = Positions(f.seq, Len(f.data))
      BY <1>9
    <2>2. live_seq'[cur] = FrameEnd(f) /\ \A d \in Conn \ {cur} : live_seq'[d] = live_seq[d]
      BY <1>1, <1>4, <1>11
    <2> QED BY <1>1, <1>9, <1>10, <2>1, <2>2, SentAppended
  <1>13. StreamType' /\ RingFaithful' /\ Mutex' /\ Alive'
    BY <1>1, <1>4, <1>12 DEF StreamInv, StreamType, RingFaithful, Faithful, Mutex, Alive, ThreadOwns
  <1>14. ChunkFaithful' /\ Served'
    BY <1>1, <1>4 DEF StreamInv, ChunkFaithful, EndSeq, Served, LifeInv, LifeType
  <1>15. Sent' /\ ReplayFirst'
    BY <1>1, <1>2, <1>3, <1>12 DEF StreamInv, Sent, ReplayFirst, Carries
  <1>16. Attaching'
    BY <1>1, <1>2, <1>3, <1>4 DEF StreamInv, Attaching
  <1>17. Position'
    BY <1>1, <1>4 DEF StreamInv, ChunkFaithful, Position
  <1> QED BY <1>12, <1>13, <1>14, <1>15, <1>16, <1>17 DEF StreamInv

\* The thread of a connection: every step is one of the cases above.
LEMMA StreamThread ==
    ASSUME StreamInv, LifeInv, NEW c \in Conn,
           AcceptNext(c) \/ IntroNext(c) \/ AttachNext(c) \/ LoopNext(c) \/ EndNext(c)
    PROVE  StreamInv'
  <1> USE DEF Goto, main_vars, ring_vars, client_vars, net_vars, thread_vars, pty_vars, lock_vars
  <1>1. /\ cpc \in [Conn -> {"none", "new", "added", "intro", "lock", "snapshot", "publish", "welcome",
                         "replay", "loop", "pty", "control", "error", "senderr", "finish", "done"}]
        /\ req \in [Conn -> Nat]
        /\ LifeType
        /\ clients_mu = c <=> cpc[c] \in {"snapshot", "publish"}
    BY DEF LifeInv, LifeType, StreamInv, StreamType, Mutex
  <1>2. CASE AcceptConn(c) \/ AddClientFails(c) \/ StartThread(c)
    BY <1>1, <1>2, StreamMove DEF AcceptConn, AddClientFails, StartThread
  <1>3. CASE AddClient(c) \/ StartThreadFails(c) \/ FinishClient(c)
    BY <1>1, <1>3, StreamList
       DEF AddClient, StartThreadFails, FinishClient, Finish, MarkDeadAndRelease, DropRefs
  <1>4. CASE IntroFails(c) \/ IntroControl(c) \/ ControlShutdownClients(c) \/ LoopNext(c) \/ ErrorLock(c)
    BY <1>1, <1>4, StreamMove DEF IntroFails, IntroControl, ControlShutdownClients, LoopNext,
         LoopFrame, PtyCallReturns, LoopEnds, ErrorLock
  <1>5. ASSUME NEW seq \in Requests, IntroAccepted(c, seq) PROVE StreamInv'
    <2>1. req' \in [Conn -> Nat]
      BY <1>1, <1>5, RequestsAssumption DEF IntroAccepted
    <2> QED BY <1>1, <1>5, <2>1, StreamMove DEF IntroAccepted
  <1>6. CASE AttachLock(c)
    BY <1>1, <1>6, StreamMove DEF AttachLock
  <1>7. CASE AttachNoMemory(c)
    <2>1. req' \in [Conn -> Nat]
      BY <1>1, <1>7 DEF AttachNoMemory
    <2> QED BY <1>1, <1>7, <2>1, StreamMove DEF AttachNoMemory
  <1>8. CASE AttachFails(c)
    BY <1>1, <1>8, StreamMove DEF AttachFails
  <1> QED
    BY <1>2, <1>3, <1>4, <1>5, <1>6, <1>7, <1>8, StreamAttach, StreamWelcome, StreamError
       DEF AcceptNext, IntroNext, AttachNext, EndNext

\* Every step keeps the invariant, as long as the snapshot of the client list
\* finds its memory.
LEMMA StreamStep ==
    ASSUME "snapshot_clients" \notin AllocFails
    PROVE  StreamInv /\ LifeInv /\ [Next]_vars => StreamInv'
  <1> SUFFICES ASSUME StreamInv, LifeInv, [Next]_vars PROVE StreamInv'
    OBVIOUS
  <1> USE DEF main_vars, ring_vars, client_vars, net_vars, thread_vars, pty_vars, lock_vars
  <1>1. ASSUME NEW c \in Conn,
               AcceptNext(c) \/ IntroNext(c) \/ AttachNext(c) \/ LoopNext(c) \/ EndNext(c)
        PROVE  StreamInv'
    BY <1>1, StreamThread
  <1>2. ASSUME NEW n \in 1 .. MaxRead, PtyRead(n) PROVE StreamInv'
    BY <1>2, StreamRead
  <1>3. CASE \/ PtySnapshot \/ (\E c \in Conn : PtyNext(c)) \/ PtyLock \/ PtySkip \/ PtyWriteFails
             \/ PtyRelease \/ PtyEof \/ PtyShutdownClients \/ PtyReaps
    <2>1. UNCHANGED <<ring, chunk, clients_mu, authenticated, live_seq, sent, cpc, req, window, in_list, dead>>
      BY <1>3 DEF PtySnapshot, SnapshotClients, PtyNext, PtyLock, PtySkip, PtyWriteFails, PtyRelease,
                  PtyEof, PtyShutdownClients, PtyReaps
    <2> QED BY <1>3, <2>1, StreamServe
  <1>4. CASE PtyWrite
    BY <1>4, StreamWrite
  <1>5. CASE PtyDrop
    <2>1. cur \in snap /\ cur \in Conn /\ LifeType
      BY <1>5 DEF PtyDrop, DropCur, LifeInv, LifeType, Snapshots
    <2> QED BY <1>5, <2>1, StreamList DEF PtyDrop, DropCur, MarkDeadAndRelease, DropRefs
  <1>6. CASE MainCloseListener \/ MainShutdownClients \/ MainLeaves \/ Exited \/ UNCHANGED vars
    <2>1. UNCHANGED <<ring, chunk, clients_mu, authenticated, live_seq, sent, cpc, req, window, in_list,
                      dead, ppc, snap, todo>>
      BY <1>6 DEF MainCloseListener, MainShutdownClients, MainLeaves, Exited, vars
    <2>2. LastSent' /\ StreamFaithful' /\ StreamContiguous'
      BY <2>1, SentKept DEF StreamInv
    <2> QED
      BY <2>1, <2>2 DEF StreamInv, StreamType, RingFaithful, Faithful, ChunkFaithful, EndSeq, Alive, Mutex,
         Sent, Attaching, Position, Served, ReplayFirst, Replayed, Carries, ThreadOwns
  <1>7. ~PtySnapshotNoMemory
    BY DEF PtySnapshotNoMemory
  <1> QED
    BY <1>1, <1>2, <1>3, <1>4, <1>5, <1>6, <1>7 DEF Next, SendNext

\* The invariant of the output path, for every value of the constants.
THEOREM StreamInvariant ==
    ASSUME "snapshot_clients" \notin AllocFails
    PROVE  Spec => []StreamInv
  <1>1. StreamInv /\ LifeInv /\ [Next]_vars => StreamInv'
    BY StreamStep
  <1> QED BY <1>1, StreamInit, LifeInvariant, PTL DEF Spec

\* A client's stream has no gap and no repetition between the replay and the
\* live output of server_broadcast_stdout.
THEOREM StreamContiguousHolds ==
    ASSUME "snapshot_clients" \notin AllocFails
    PROVE  Spec => []StreamContiguous
  <1>1. StreamInv => StreamContiguous
    BY DEF StreamInv
  <1>2. Spec => []StreamInv
    BY StreamInvariant
  <1> QED BY <1>1, <1>2, PTL

\* Every byte sent is the byte printed at the position its frame claims.
THEOREM StreamFaithfulHolds ==
    ASSUME "snapshot_clients" \notin AllocFails
    PROVE  Spec => []StreamFaithful
  <1>1. StreamInv => StreamFaithful
    BY DEF StreamInv
  <1>2. Spec => []StreamInv
    BY StreamInvariant
  <1> QED BY <1>1, <1>2, PTL

\* The write_mu that server_send_welcome_and_replay holds from before the
\* publication until the replay is out keeps live output behind it.
THEOREM ReplayFirstHolds ==
    ASSUME "snapshot_clients" \notin AllocFails
    PROVE  Spec => []ReplayFirst
  <1>1. StreamInv => ReplayFirst
    BY DEF StreamInv
  <1>2. Spec => []StreamInv
    BY StreamInvariant
  <1> QED BY <1>1, <1>2, PTL

\* Between two reads of the PTY no attached client lacks output.
THEOREM NoLaggardHolds ==
    ASSUME "snapshot_clients" \notin AllocFails
    PROVE  Spec => []NoLaggard
  <1>1. ASSUME StreamInv, LifeInv, NEW c \in Conn, ppc = "read", cpc[c] \in {"loop", "pty"}, ~dead[c]
        PROVE  FrameEnd(sent[c][Len(sent[c])]) = ring.next_seq
    <2>1. Replayed(c) /\ in_list[c]
      BY <1>1 DEF StreamInv, Sent, Alive, ThreadOwns
    <2>2. authenticated[c]
      BY <1>1 DEF StreamInv, Sent
    <2>3. todo = {}
      BY <1>1 DEF LifeInv, LifeType, Snapshots
    <2>4. live_seq[c] = ring.next_seq
      BY <1>1, <2>1, <2>2, <2>3 DEF StreamInv, Position
    <2> QED BY <1>1, <2>1, <2>4 DEF StreamInv, LastSent
  <1>2. StreamInv /\ LifeInv => NoLaggard
    BY <1>1 DEF NoLaggard
  <1>3. Spec => []StreamInv
    BY StreamInvariant
  <1> QED BY <1>2, <1>3, LifeInvariant, PTL

-----------------------------------------------------------------------------
(***************************************************************************)
(* Type correctness needs no assumption on the allocations, but it needs   *)
(* the ring: what opty_ring_snapshot_window copies is output only because  *)
(* the window never exceeds the capacity.                                  *)
(***************************************************************************)
ThreadType ==
    /\ listening \in BOOLEAN
    /\ mpc \in {"accept", "add", "shutall", "join"}
    /\ cur \in Conn \cup {None}

LEMMA TypeParts == LifeType /\ StreamType /\ ThreadType <=> TypeOK /\ LifeType
  BY DEF TypeOK, LifeType, StreamType, ThreadType

\* Appending a frame that is one keeps the sequence of frames one.
LEMMA TypeSend ==
    ASSUME StreamType, NEW c \in Conn, NEW f \in Frames, sent' = [sent EXCEPT ![c] = Append(@, f)]
    PROVE  sent' \in [Conn -> Seq(Frames)]
  BY DEF StreamType

\* The steps of a connection's thread.
LEMMA TypeThread ==
    ASSUME StreamType, RingFaithful, NEW c \in Conn,
           AcceptNext(c) \/ IntroNext(c) \/ AttachNext(c) \/ LoopNext(c) \/ EndNext(c)
    PROVE  StreamType' /\ RingFaithful'
  <1> USE DEF Goto, main_vars, ring_vars, client_vars, net_vars, thread_vars, pty_vars, lock_vars
  <1>1. UNCHANGED <<ring, chunk>>
    BY DEF AcceptNext, AcceptConn, AddClient, AddClientFails, StartThread, StartThreadFails, IntroNext,
       IntroFails, IntroControl, IntroAccepted, AttachNext, AttachLock, AttachSnapshot, TakeWindow,
       AttachNoMemory, AttachPublish, Publish, SendWelcome, SendReplay, AttachFails, LoopNext,
       LoopFrame, PtyCallReturns, LoopEnds, EndNext,
       ControlShutdownClients, ErrorLock, SendError, FinishClient, Finish
  <1>2. RingFaithful' /\ ring' \in Rings /\ chunk' \in [seq : Nat, data : Seq(Byte)]
    BY <1>1 DEF RingFaithful, Faithful, StreamType
  <1>3. CASE AcceptNext(c) \/ IntroNext(c) \/ LoopNext(c) \/ AttachLock(c) \/ AttachNoMemory(c)
             \/ AttachPublish(c) \/ AttachFails(c) \/ ControlShutdownClients(c) \/ ErrorLock(c)
             \/ FinishClient(c)
    <2>1. sent' = sent /\ clients_mu' \in {clients_mu, None, c}
      BY <1>3 DEF AcceptNext, AcceptConn, AddClient, AddClientFails, StartThread, StartThreadFails,
         IntroNext, IntroFails, IntroControl, IntroAccepted, AttachLock, AttachNoMemory, AttachPublish,
         Publish, AttachFails, LoopNext, LoopFrame, PtyCallReturns, LoopEnds,
         ControlShutdownClients, ErrorLock, FinishClient, Finish
    <2>2. UNCHANGED <<authenticated, live_seq>> \/ AttachPublish(c)
      BY <1>3 DEF AcceptNext, AcceptConn, AddClient, AddClientFails, StartThread, StartThreadFails,
         IntroNext, IntroFails, IntroControl, IntroAccepted, AttachLock, AttachNoMemory,
         AttachFails, LoopNext, LoopFrame, PtyCallReturns, LoopEnds, ControlShutdownClients,
         ErrorLock, FinishClient, Finish
    <2>3. window' = window \/ window' = [window EXCEPT ![c] = NoWindow]
      BY <1>3 DEF AcceptNext, AcceptConn, AddClient, AddClientFails, StartThread, StartThreadFails,
         IntroNext, IntroFails, IntroControl, IntroAccepted, AttachLock, AttachNoMemory, AttachPublish,
         Publish, AttachFails, LoopNext, LoopFrame, PtyCallReturns, LoopEnds,
         ControlShutdownClients, ErrorLock, FinishClient, Finish
    <2>4. req' = req \/ \E q \in Requests \cup {0} : req' = [req EXCEPT ![c] = q]
      BY <1>3 DEF AcceptNext, AcceptConn, AddClient, AddClientFails, StartThread, StartThreadFails,
         IntroNext, IntroFails, IntroControl, IntroAccepted, AttachLock, AttachNoMemory, AttachPublish,
         Publish, AttachFails, LoopNext, LoopFrame, PtyCallReturns, LoopEnds,
         ControlShutdownClients, ErrorLock, FinishClient, Finish
    <2>5. authenticated' \in [Conn -> BOOLEAN] /\ live_seq' \in [Conn -> Nat]
      BY <2>2 DEF StreamType, AttachPublish, Publish, Windows
    <2>6. req' \in [Conn -> Nat]
      BY <2>4, RequestsAssumption DEF StreamType
    <2>7. window' \in [Conn -> Windows]
      <3>1. NoWindow \in Windows
        BY DEF NoWindow, Windows
      <3> QED BY <2>3, <3>1 DEF StreamType
    <2> QED BY <1>2, <2>1, <2>5, <2>6, <2>7 DEF StreamType, Owners
  <1>4. CASE AttachSnapshot(c)
    <2>1. PICK w : w = opty_ring_snapshot_window(ring, req[c])
      BY Zenon
    <2>2. /\ window' = [window EXCEPT ![c] = w] /\ req' = [req EXCEPT ![c] = 0]
          /\ UNCHANGED <<clients_mu, authenticated, live_seq, sent>>
      BY <1>4, <2>1 DEF AttachSnapshot, TakeWindow
    <2>3. w \in Windows
      <3>1. req[c] \in Nat /\ ring \in Rings /\ MaxSeq \in Nat
        BY BoundsAssumption DEF StreamType
      <3>2. PICK from : from = FromSeq(ring, req[c])
        BY Zenon
      <3>3. PICK data : data = Positions(from, ring.next_seq - from)
        BY Zenon
      <3>4. /\ from \in ring.base_seq .. ring.next_seq
            /\ data \in Seq(Byte)
            /\ w = [base_seq |-> ring.base_seq, from_seq |-> from, next_seq |-> ring.next_seq,
                    data |-> data]
        BY <2>1, <3>1, <3>2, <3>3, WindowFaithful, ByteAssumption, Zenon DEF RingFaithful
      <3>5. data \in Seq(Byte \cup {Garbage})
        BY <3>4
      <3>6. from \in Nat /\ ring.base_seq \in Nat /\ ring.next_seq \in Nat
        BY <3>1, <3>4 DEF Rings
      <3> QED BY <3>4, <3>5, <3>6 DEF Windows
    <2> QED BY <1>2, <2>2, <2>3 DEF StreamType
  <1>5. CASE SendWelcome(c) \/ SendReplay(c) \/ SendError(c)
    <2>1. /\ UNCHANGED <<clients_mu, authenticated, live_seq, req>>
          /\ window' = window \/ window' = [window EXCEPT ![c] = NoWindow]
      BY <1>5 DEF SendWelcome, SendReplay, SendError
    <2>2. window' \in [Conn -> Windows]
      <3>1. NoWindow \in Windows
        BY DEF NoWindow, Windows
      <3> QED BY <2>1, <3>1 DEF StreamType
    <2>3. window[c] \in Windows
      BY DEF StreamType
    <2>4. /\ Welcome(window[c].base_seq, window[c].next_seq) \in Frames
          /\ Replay(window[c].from_seq, window[c].data) \in Frames
          /\ Error \in Frames
      <3>1. /\ window[c].base_seq \in Nat /\ window[c].next_seq \in Nat /\ window[c].from_seq \in Nat
            /\ window[c].data \in Seq(Byte \cup {Garbage})
        BY <2>3 DEF Windows
      <3>2. <<window[c].next_seq>> \in Seq(Nat \cup Byte \cup {Garbage})
        BY <3>1
      <3>3. window[c].data \in Seq(Nat \cup Byte \cup {Garbage})
        BY <3>1
      <3> QED BY <3>1, <3>2, <3>3 DEF Welcome, Replay, Error, Frames
    <2>5. sent' = sent \/ \E f \in Frames : sent' = [sent EXCEPT ![c] = Append(@, f)]
      BY <1>5, <2>4, Zenon DEF SendWelcome, SendReplay, SendError
    <2>6. sent' \in [Conn -> Seq(Frames)]
      BY <2>5, TypeSend DEF StreamType
    <2> QED BY <1>2, <2>1, <2>2, <2>6 DEF StreamType
  <1> QED
    BY <1>3, <1>4, <1>5, Zenon DEF AttachNext, EndNext

\* The steps of main and of the PTY thread.
LEMMA TypeServe ==
    ASSUME StreamType, RingFaithful, LifeInv,
           \/ MainCloseListener \/ MainShutdownClients \/ MainLeaves \/ SendNext
           \/ (\E n \in 1 .. MaxRead : PtyRead(n)) \/ PtyEof \/ PtyShutdownClients \/ PtyReaps \/ Exited
           \/ UNCHANGED vars
    PROVE  StreamType' /\ RingFaithful'
  <1> USE DEF main_vars, ring_vars, client_vars, net_vars, thread_vars, pty_vars, lock_vars
  <1>1. ASSUME NEW n \in 1 .. MaxRead, PtyRead(n) PROVE StreamType' /\ RingFaithful'
    <2>1. PICK data : data = Positions(ring.next_seq, n)
      BY Zenon
    <2>2. /\ ring.next_seq + n <= MaxSeq /\ ring' = opty_ring_append(ring, data)
          /\ chunk' = [seq |-> ring.next_seq, data |-> data]
          /\ UNCHANGED <<clients_mu, authenticated, live_seq, sent, req, window>>
      BY <1>1, <2>1 DEF PtyRead
    <2>3. ring \in Rings /\ MaxSeq \in Nat /\ n \in Nat /\ ring.next_seq \in Nat /\ Faithful(ring, MaxSeq)
      BY BoundsAssumption DEF StreamType, Rings, RingFaithful
    <2>4. ring' \in Rings /\ Faithful(ring', MaxSeq)
      BY <2>1, <2>2, <2>3, AppendFaithful, ByteAssumption, Zenon
    <2>5. data \in Seq(Byte)
      BY <2>1, <2>2, <2>3, PositionsBytes, ByteAssumption, Zenon
    <2> QED BY <2>2, <2>3, <2>4, <2>5 DEF StreamType, RingFaithful
  <1>2. CASE PtyWrite
    <2>1. cur \in Conn
      BY <1>2 DEF PtyWrite, Unlock, LifeInv, LifeType, Snapshots
    <2>2. /\ sent' = [sent EXCEPT ![cur] = Append(@, Rest(cur))] /\ live_seq[cur] < EndSeq
          /\ live_seq' = [live_seq EXCEPT ![cur] = EndSeq]
          /\ UNCHANGED <<ring, chunk, clients_mu, authenticated, req, window>>
      BY <1>2 DEF PtyWrite
    <2>3. PICK L, s, o : L = Len(chunk.data) /\ s = chunk.seq /\ o = Offset(cur)
      BY Zenon
    <2>4. /\ L \in Nat /\ s \in Nat /\ chunk.data \in Seq(Byte) /\ EndSeq = s + L /\ EndSeq \in Nat
          /\ live_seq[cur] \in Nat
      BY <2>1, <2>3 DEF StreamType, EndSeq
    <2>5. o \in 0 .. L
      BY <2>2, <2>3, <2>4 DEF Offset
    <2>6. \A i \in 1 .. L - o : chunk.data[o + i] \in Nat \cup Byte \cup {Garbage}
      <3>1. \A i \in 1 .. L - o : o + i \in 1 .. L
        BY <2>4, <2>5
      <3> QED BY <2>3, <2>4, <3>1
    <2>7. L - o \in Nat /\ s + o \in Nat
      BY <2>4, <2>5
    <2>8. [i \in 1 .. L - o |-> chunk.data[o + i]] \in Seq(Nat \cup Byte \cup {Garbage})
      BY <2>6, <2>7
    <2>9. Rest(cur) = [type |-> "STDOUT", seq |-> s + o, data |-> [i \in 1 .. L - o |-> chunk.data[o + i]]]
      BY <2>3, Zenon DEF Rest, Stdout
    <2>10. Rest(cur) \in Frames
      BY <2>7, <2>8, <2>9 DEF Frames
    <2>11. sent' \in [Conn -> Seq(Frames)]
      BY <2>1, <2>2, <2>10, TypeSend, Zenon
    <2> QED BY <2>2, <2>4, <2>11 DEF StreamType, RingFaithful, Faithful
  <1>3. CASE \/ MainCloseListener \/ MainShutdownClients \/ MainLeaves \/ PtySnapshot
             \/ PtySnapshotNoMemory \/ (\E c \in Conn : PtyNext(c)) \/ PtyLock \/ PtySkip \/ PtyWriteFails
             \/ PtyDrop \/ PtyRelease \/ PtyEof \/ PtyShutdownClients \/ PtyReaps \/ Exited \/ UNCHANGED vars
    <2>1. UNCHANGED <<ring, chunk, clients_mu, authenticated, live_seq, sent, req, window>>
      BY <1>3 DEF MainCloseListener, MainShutdownClients, MainLeaves, PtySnapshot, SnapshotClients,
         PtySnapshotNoMemory, PtyNext, PtyLock, PtySkip, PtyWriteFails, PtyDrop, DropCur, PtyRelease,
         PtyEof, PtyShutdownClients, PtyReaps, Exited, vars
    <2> QED BY <2>1 DEF StreamType, RingFaithful, Faithful
  <1> QED
    BY <1>1, <1>2, <1>3, Zenon DEF SendNext

\* The listener, main's place and the client being served.
LEMMA TypeControl ==
    ASSUME ThreadType, LifeInv, [Next]_vars
    PROVE  ThreadType'
  <1> USE DEF Goto, Unlock, main_vars, ring_vars, client_vars, net_vars, thread_vars, pty_vars, lock_vars
  <1>1. /\ listening' = listening \/ listening' = FALSE
        /\ mpc' = mpc \/ mpc' \in {"accept", "add", "shutall", "join"}
        /\ cur' = cur \/ cur' = None \/ \E c \in Conn : cur' = c
    <2>1. ASSUME NEW c \in Conn, AcceptNext(c)
          PROVE  listening' = listening /\ mpc' \in {mpc, "accept", "add"} /\ cur' = cur
      BY <2>1 DEF AcceptNext, AcceptConn, AddClient, AddClientFails, StartThread, StartThreadFails
    <2>2. ASSUME NEW c \in Conn, IntroNext(c) \/ AttachNext(c) \/ LoopNext(c) \/ EndNext(c)
          PROVE  listening' \in {listening, FALSE} /\ mpc' = mpc /\ cur' = cur
      BY <2>2 DEF IntroNext, IntroFails, IntroControl, IntroAccepted, AttachNext, AttachLock,
         AttachSnapshot, TakeWindow, AttachNoMemory, AttachPublish, Publish, SendWelcome, SendReplay,
         AttachFails, LoopNext, LoopFrame, PtyCallReturns, LoopEnds, EndNext,
         ControlShutdownClients, ErrorLock, SendError, FinishClient, Finish
    <2>3. CASE MainCloseListener \/ MainShutdownClients \/ MainLeaves
      BY <2>3 DEF MainCloseListener, MainShutdownClients, MainLeaves
    <2>4. CASE SendNext
      BY <2>4 DEF SendNext, PtySnapshot, SnapshotClients, PtySnapshotNoMemory, PtyNext, PtyLock, PtySkip,
         PtyWrite, PtyWriteFails, PtyDrop, DropCur, PtyRelease
    <2>5. CASE \/ (\E n \in 1 .. MaxRead : PtyRead(n)) \/ PtyEof \/ PtyShutdownClients \/ PtyReaps \/ Exited
               \/ UNCHANGED vars
      BY <2>5 DEF PtyRead, PtyEof, PtyShutdownClients, PtyReaps, Exited, vars
    <2> QED BY <2>1, <2>2, <2>3, <2>4, <2>5 DEF Next
  <1>2. listening' \in BOOLEAN
    BY <1>1, Zenon DEF ThreadType
  <1> QED BY <1>1, <1>2 DEF ThreadType

\* struct server, the struct clients and the threads' variables keep their
\* shapes, also when the snapshot of the client list finds no memory.
THEOREM FanoutTypeOKHolds == Spec => []TypeOK
  <1>1. Init => StreamType /\ RingFaithful /\ ThreadType
    <2>1. Init => ThreadType
      BY Zenon DEF Init, ThreadType
    <2> QED BY <2>1, StreamInit DEF StreamInv
  <1>2. ASSUME StreamType, RingFaithful, LifeInv, [Next]_vars
        PROVE  StreamType' /\ RingFaithful'
    BY <1>2, TypeThread, TypeServe, Zenon DEF Next
  <1>3. StreamType /\ RingFaithful /\ ThreadType /\ LifeInv /\ [Next]_vars
          => StreamType' /\ RingFaithful' /\ ThreadType'
    BY <1>2, TypeControl
  <1>4. StreamType /\ ThreadType /\ LifeInv => TypeOK
    BY TypeParts DEF LifeInv
  <1> QED BY <1>1, <1>3, <1>4, LifeInvariant, PTL DEF Spec
=============================================================================
