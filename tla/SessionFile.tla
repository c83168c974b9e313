---------------------------- MODULE SessionFile ----------------------------
(***************************************************************************)
(* The session file of one session (src/client.c): how opty_write_session  *)
(* replaces it, what a process that is killed or a machine that fails      *)
(* leaves behind, and what opty_read_session_info makes of it.             *)
(*                                                                         *)
(* A file is a sequence of key=value lines, a value a sequence of          *)
(* characters.  The lines that are written and read like the others (name, *)
(* host, log, restart_policy) are left out, and so is an equals sign in a  *)
(* value, so that a line that a newline has torn off has no key.           *)
(***************************************************************************)
EXTENDS Naturals, Sequences, SequencesExt

CONSTANTS
    Pid,        \* the processes that run "0pty NAME start"
    Argv,       \* the commands they are given
    Cwd,        \* the directories they run in; << >> when getcwd fails
    Input,      \* what users want sent at a stop, other than the default
    MaxStarts,  \* bound on the starts that get as far as the session file
    MaxArgc,    \* OPTY_SESSION_MAX_ARGC
    None

Char == {"a", "n", "r", "t", "BS", "LF", "CR", "TAB"}
Text == Seq(Char)

ASSUME BoundsAssumption == MaxStarts \in Nat /\ MaxArgc \in Nat
ASSUME ArgvAssumption == Argv \subseteq Seq(Text) \ {<< >>}
ASSUME TextAssumption == Input \subseteq Text /\ Cwd \subseteq Text
ASSUME NoneAssumption ==
    /\ None \notin Nat /\ None \notin Text
    /\ None \notin [id : Nat, argv : Seq(Text), cwd : Text, input : Text]

-----------------------------------------------------------------------------
(***************************************************************************)
(* Values.                                                                 *)
(***************************************************************************)
Escaped(ch) == CASE ch = "LF"  -> <<"BS", "n">>
                 [] ch = "CR"  -> <<"BS", "r">>
                 [] ch = "TAB" -> <<"BS", "t">>
                 [] ch = "BS"  -> <<"BS", "BS">>
                 [] OTHER      -> <<ch>>

opty_escape_session_value(v) ==
    LET out[i \in 0 .. Len(v)] == IF i = 0 THEN << >> ELSE out[i - 1] \o Escaped(v[i])
    IN  out[Len(v)]

\* The character that a backslash and ch stand for.
Unescaped == [n |-> "LF", r |-> "CR", t |-> "TAB", BS |-> "BS"]

\* What was read so far, and whether the last character is a backslash that
\* waits for the next one.
DecodeNext(st, ch) ==
    CASE ~st.esc /\ ch = "BS" -> [st EXCEPT !.esc = TRUE]
      [] ~st.esc /\ ch # "BS" -> [st EXCEPT !.out = Append(@, ch)]
      [] st.esc /\ ch \in DOMAIN Unescaped ->
             [out |-> Append(st.out, Unescaped[ch]), esc |-> FALSE, ok |-> st.ok]
      [] st.esc /\ ch \notin DOMAIN Unescaped ->
             [out |-> st.out \o <<"BS", ch>>, esc |-> FALSE, ok |-> FALSE]

DecodeStart == [out |-> << >>, esc |-> FALSE, ok |-> TRUE]

DecodeAll(v) ==
    LET st[i \in 0 .. Len(v)] == IF i = 0 THEN DecodeStart ELSE DecodeNext(st[i - 1], v[i])
    IN  st[Len(v)]

\* An unknown escape, and a backslash at the end, stand for themselves ...
opty_decode_session_value(v) ==
    LET st == DecodeAll(v) IN IF st.esc THEN Append(st.out, "BS") ELSE st.out

\* ... except in graceful_input, where they are errors.
opty_decode_graceful_input(v) ==
    LET st == DecodeAll(v) IN IF st.ok /\ ~st.esc THEN st.out ELSE None

\* opty_chomp, of a line without its newline.
opty_chomp(v) ==
    LET kept == {i \in DOMAIN v : v[i] # "CR"}
    IN  IF kept = {} THEN << >> ELSE SubSeq(v, 1, Max(kept))

\* A value that is printed as it is ends, for the reader, at its first newline.
Printed(v) ==
    LET cut == {i \in DOMAIN v : v[i] = "LF"}
    IN  IF cut = {} THEN v ELSE SubSeq(v, 1, Min(cut) - 1)

-----------------------------------------------------------------------------
(***************************************************************************)
(* Files.  A start is given its port and token (both stand for it: id),    *)
(* its argv and its directory; input is what a stop of it is to send.      *)
(***************************************************************************)
Line(key, v) == <<[key |-> key, index |-> 0, value |-> v]>>

ArgvLines(argv) ==
    [i \in 1 .. Len(argv) |->
        [key |-> "argv", index |-> i, value |-> opty_escape_session_value(argv[i])]]

\* graceful_input=/exit\n
DefaultInput == <<"a", "LF">>
DefaultLine == <<"a", "BS", "n">>

Fields(s) ==
    Line("port", s.id) \o Line("control_token", s.id) \o Line("graceful_input", DefaultLine)
    \o Line("argc", Len(s.argv))

CwdLine(s) == IF s.cwd = << >> THEN << >> ELSE Line("cwd", Printed(s.cwd))

Content(s) ==
    Fields(s) \o Line("argv_encoding", "escape") \o ArgvLines(s.argv) \o CwdLine(s)

opty_session_info_init ==
    [port |-> None, control_token |-> None, graceful_input |-> DefaultLine, argc |-> 0,
     escaped |-> 0, argv |-> [i \in 1 .. MaxArgc |-> None], cwd |-> << >>]

ReadLine(info, l) ==
    CASE l.key \in {"port", "control_token", "argc"} -> [info EXCEPT ![l.key] = l.value]
      [] l.key \in {"graceful_input", "cwd"} -> [info EXCEPT ![l.key] = opty_chomp(l.value)]
      [] l.key = "argv_encoding" -> [info EXCEPT !.escaped = IF l.value = "escape" THEN 1 ELSE @]
      [] l.key = "argv" ->
             [info EXCEPT !.argv[l.index] = IF info.escaped = 1
                                            THEN opty_decode_session_value(opty_chomp(l.value))
                                            ELSE opty_chomp(l.value)]

opty_read_session_info(lines) ==
    LET info[i \in 0 .. Len(lines)] ==
            IF i = 0 THEN opty_session_info_init ELSE ReadLine(info[i - 1], lines[i])
    IN  info[Len(lines)]

\* Whether it succeeds: a file without a port, or with fewer arguments than it
\* announces, is invalid.
Valid(info) == info.port # None /\ \A i \in 1 .. info.argc : info.argv[i] # None

\* What restart and stop do with the record: the argv and the directory of the
\* new server, its token, and the input a stop sends.
Understood(lines) ==
    LET info == opty_read_session_info(lines)
    IN  IF ~Valid(info) THEN None
        ELSE [id |-> info.control_token, argv |-> SubSeq(info.argv, 1, info.argc),
              cwd |-> info.cwd, input |-> opty_decode_graceful_input(info.graceful_input)]

-----------------------------------------------------------------------------
VARIABLES
    file,       \* NAME.session: its lines, or None
    disk,       \* the contents it may have after a power failure
    tmp,        \* NAME.session.tmp.PID: its lines, or None
    synced,     \* whether fsync has put that file on disk
    pc,         \* where a process stands in opty_write_session
    job,        \* what it writes
    made,       \* history: the starts so far, and users' changes of their input
    killed      \* history: the processes that were ended inside

vars == <<file, disk, tmp, synced, pc, job, made, killed>>

Init ==
    /\ file = None
    /\ disk = {None}
    /\ tmp = [p \in Pid |-> None]
    /\ synced = [p \in Pid |-> FALSE]
    /\ pc = [p \in Pid |-> "idle"]
    /\ job = [p \in Pid |-> None]
    /\ made = {}
    /\ killed = {}

Goto(p, from, to) == pc[p] = from /\ pc' = [pc EXCEPT ![p] = to]

-----------------------------------------------------------------------------
(***************************************************************************)
(* opty_write_session.                                                     *)
(***************************************************************************)
Starts == {s.id : s \in made}

\* More arguments than OPTY_SESSION_MAX_ARGC are refused.
Start(p, argv, cwd) ==
    /\ Cardinality(Starts) < MaxStarts
    /\ Len(argv) <= MaxArgc
    /\ Goto(p, "idle", "open")
    /\ LET s == [id |-> Cardinality(Starts) + 1, argv |-> argv, cwd |-> cwd, input |-> DefaultInput]
       IN  /\ job' = [job EXCEPT ![p] = s]
           /\ made' = made \cup {s}
    /\ UNCHANGED <<file, disk, tmp, synced, killed>>

OpenAt(p, found) ==
    /\ Goto(p, "open", "write")
    /\ tmp' = [tmp EXCEPT ![p] = found]
    /\ synced' = [synced EXCEPT ![p] = FALSE]
    /\ UNCHANGED <<file, disk, job, made, killed>>

\* Faulty variant: a file that is there is used as it is.
Open_Reuses(p) == OpenAt(p, IF tmp[p] = None THEN << >> ELSE tmp[p])

\* O_CREAT | O_EXCL: the temporary file of a process with this pid that was
\* killed is in the way.
Open(p) == tmp[p] = None /\ OpenAt(p, << >>)

Ends(p, from) == Goto(p, from, "idle") /\ job' = [job EXCEPT ![p] = None]

OpenFails(p) ==
    /\ Ends(p, "open")
    /\ UNCHANGED <<file, disk, tmp, synced, made, killed>>

\* The stream's buffer goes to the file now and then.
Write(p) ==
    /\ pc[p] = "write"
    /\ \E n \in Len(tmp[p]) + 1 .. Len(Content(job[p])) :
          tmp' = [tmp EXCEPT ![p] = SubSeq(Content(job[p]), 1, n)]
    /\ UNCHANGED <<file, disk, synced, pc, job, made, killed>>

SyncTo(p, done) ==
    /\ Goto(p, "write", "rename")
    /\ tmp[p] = Content(job[p])
    /\ synced' = [synced EXCEPT ![p] = done]
    /\ UNCHANGED <<file, disk, tmp, job, made, killed>>

\* Faulty variant: fflush only.
Sync_FlushOnly(p) == SyncTo(p, FALSE)

\* fflush, fsync and fclose
Sync(p) == SyncTo(p, TRUE)

\* Any call fails: the temporary file is removed.
FailWith(p, left) ==
    /\ Ends(p, "write") \/ Ends(p, "rename")
    /\ tmp' = [tmp EXCEPT ![p] = left]
    /\ UNCHANGED <<file, disk, synced, made, killed>>

\* Faulty variant: it is not.
WriteFails_NoUnlink(p) == FailWith(p, tmp[p])

WriteFails(p) == FailWith(p, None)

\* rename(), which is on disk some time later; so is the data if it was not
\* put there before.
Rename(p) ==
    /\ Ends(p, "rename")
    /\ file' = tmp[p]
    /\ disk' = disk \cup (IF synced[p] THEN {tmp[p]} ELSE Prefixes(tmp[p]))
    /\ tmp' = [tmp EXCEPT ![p] = None]
    /\ UNCHANGED <<synced, made, killed>>

-----------------------------------------------------------------------------
(***************************************************************************)
(* The surroundings.                                                       *)
(***************************************************************************)

\* The process is killed; another one may get its pid.
Killed(p) ==
    /\ pc[p] # "idle"
    /\ pc' = [pc EXCEPT ![p] = "idle"]
    /\ job' = [job EXCEPT ![p] = None]
    /\ killed' = killed \cup {p}
    /\ UNCHANGED <<file, disk, tmp, synced, made>>

WriteBack ==
    /\ disk' = {file}
    /\ UNCHANGED <<file, tmp, synced, pc, job, made, killed>>

\* The temporary files of the processes that ran may be there or not.
PowerFailure ==
    /\ file' \in disk
    /\ disk' = {file'}
    /\ \E lost \in SUBSET Pid : tmp' = [p \in Pid |-> IF p \in lost THEN None ELSE tmp[p]]
    /\ pc' = [p \in Pid |-> "idle"]
    /\ job' = [p \in Pid |-> None]
    /\ killed' = killed \cup {p \in Pid : pc[p] # "idle"}
    /\ UNCHANGED <<synced, made>>

\* A user edits graceful_input, with the escapes that README.md names.
Edit(input) ==
    /\ file # None
    /\ \E s \in made :
          /\ Understood(file) = s
          /\ made' = made \cup {[s EXCEPT !.input = input]}
    /\ file' = [i \in DOMAIN file |->
                  IF file[i].key = "graceful_input"
                  THEN [file[i] EXCEPT !.value = opty_escape_session_value(input)]
                  ELSE file[i]]
    /\ disk' = disk \cup {file'}
    /\ UNCHANGED <<tmp, synced, pc, job, killed>>

-----------------------------------------------------------------------------
ProcessStep(p) == \/ Open(p) \/ OpenFails(p) \/ Write(p) \/ Sync(p) \/ WriteFails(p)
                  \/ Rename(p)

Next == \/ \E p \in Pid : \/ \E argv \in Argv, cwd \in Cwd : Start(p, argv, cwd)
                           \/ ProcessStep(p) \/ Killed(p)
        \/ \E input \in Input : Edit(input)
        \/ WriteBack \/ PowerFailure

Spec == Init /\ [][Next]_vars

-----------------------------------------------------------------------------
(***************************************************************************)
(* Properties.                                                             *)
(***************************************************************************)

\* A process that writes has a temporary file that is a part of its record.
TypeOK ==
    /\ made \subseteq [id : 1 .. MaxStarts, argv : Argv, cwd : Cwd, input : Input \cup {DefaultInput}]
    /\ pc \in [Pid -> {"idle", "open", "write", "rename"}]
    /\ synced \in [Pid -> BOOLEAN]
    /\ killed \subseteq Pid
    /\ \A p \in Pid : pc[p] = "idle" <=> job[p] = None
    /\ \A p \in Pid : pc[p] # "idle" => job[p] \in made
    /\ \A p \in Pid : pc[p] \in {"write", "rename"} => tmp[p] \in Prefixes(Content(job[p]))

\* Restart and stop act on the "working directory and exact argv stored in the
\* session file", on its token and on its graceful_input as the user meant it:
\* whatever was interrupted or failed, and however many starts there were, the
\* file says exactly what one of them put there.
RecordWhole == file # None => Understood(file) \in made

\* Only a process that is writing, or that was ended while it wrote, has a
\* temporary file: one left behind by a failed start would make every start
\* with that pid fail.
NoLeftover == \A p \in Pid : tmp[p] # None => pc[p] # "idle" \/ p \in killed
=============================================================================
