----------------------------- MODULE LogRotate -----------------------------
(***************************************************************************)
(* Log rotation inside a daemonized selector: SIGHUP and local midnight    *)
(* each ask for a rotation, a mutex serializes them, and a rotation        *)
(* renames the live file, opens a new one and puts it under the old        *)
(* descriptor, while the rest of the program keeps writing.                *)
(*                                                                         *)
(* A file name is the configured name of a stream with the stamps that     *)
(* rotations have added to it, in whole seconds; name[i] is the name of    *)
(* file i, Unlinked once another file was renamed over it.                 *)
(***************************************************************************)
EXTENDS Integers, Sequences, FiniteSets

CONSTANTS Midnights, \* the seconds at which the midnight timer fires
          MaxAsk,    \* bound: no rotation is asked for from this second on
          MaxClock,  \* bound of the wall clock
          MaxFaults, \* bound on failing system calls
          Files,     \* bound: the files there can be
          Nobody, Unlinked, Unused

Askers == {"hup", "midnight"}
Streams == {"out", "err"}
Stamps == 0..MaxClock
Names == [stream : Streams, stamps : Seq(Stamps)]

ASSUME LogRotateAssumption ==
  /\ Midnights \subseteq Nat \ {0}
  /\ MaxAsk \in Nat /\ MaxClock \in Nat /\ MaxFaults \in Nat
  /\ \E i, j \in Files : i # j
  /\ Nobody \notin Files /\ Nobody \notin Askers
  /\ Unlinked # Unused /\ Unlinked \notin Names /\ Unused \notin Names

Configured(s) == [stream |-> s, stamps |-> <<>>]
Some(S) == CHOOSE x \in S : TRUE
Stamped(n, t) == [n EXCEPT !.stamps = Append(@, t)]

VARIABLES
  clock,   \* wall clock in seconds
  faults,  \* system calls that have failed so far
  pc,      \* each asker: idle, waiting for the mutex, or rotating
  at,      \* the stamp each asker has taken
  holder,  \* who holds logRotateLock
  since,   \* when the holder got it
  phase,   \* what the holder does next
  todo,    \* streams left to rotate
  from, to, \* file name being rotated and its new name
  fresh,   \* the replacement file, Nobody before it is opened
  name,    \* the name of each file
  lines,   \* whether anything was written to each file
  fd       \* the file behind each standard stream

askVars  == <<pc, at>>
lockVars == <<holder, since>>
rotVars  == <<phase, todo, from, to, fresh>>
fsVars   == <<name, lines, fd>>
vars == <<clock, faults, askVars, lockVars, rotVars, fsVars>>

-----------------------------------------------------------------------------
(* The daemon's streams share one file; run from a shell they may be two.  *)
Init ==
  /\ clock = 0 /\ faults = 0
  /\ pc = [a \in Askers |-> "idle"] /\ at = [a \in Askers |-> 0]
  /\ holder = Nobody /\ since = 0
  /\ phase = "none" /\ todo = <<>> /\ fresh = Nobody
  /\ from = Configured("out") /\ to = Configured("out")
  /\ lines = [i \in Files |-> FALSE]
  /\ LET i == Some(Files) IN \E j \in {i, Some(Files \ {i})} :
       /\ fd = [s \in Streams |-> IF s = "out" THEN i ELSE j]
       /\ name = [x \in Files |-> CASE x = i -> Configured("out")
                                    [] x = j /\ x # i -> Configured("err")
                                    [] OTHER -> Unused]

Shared == fd["out"] = fd["err"]

Tick ==
  /\ clock < MaxClock
  /\ clock' = clock + 1
  /\ UNCHANGED <<faults, askVars, lockVars, rotVars, fsVars>>

Wrote(s) == lines' = [lines EXCEPT ![fd[s]] = TRUE]

(* Any goroutine logs to a stream at any time. *)
Write(s) ==
  /\ Wrote(s)
  /\ UNCHANGED <<clock, faults, askVars, lockVars, rotVars, name, fd>>

Fault == faults < MaxFaults /\ faults' = faults + 1
NoFault == UNCHANGED faults

-----------------------------------------------------------------------------
(* RotateLogs and StartRotateLogMidnight take the time, then the mutex. *)

Ask(a) ==
  /\ pc[a] = "idle"
  /\ clock < MaxAsk
  /\ a = "midnight" => clock \in Midnights
  /\ at' = [at EXCEPT ![a] = clock]
  /\ pc' = [pc EXCEPT ![a] = "waiting"]
  /\ UNCHANGED <<clock, faults, lockVars, rotVars, fsVars>>

Enter(a) ==
  /\ pc[a] = "waiting"
  /\ holder = Nobody
  /\ holder' = a
  /\ since' = clock
  /\ pc' = [pc EXCEPT ![a] = "rotating"]
  /\ phase' = "inspect"
  /\ UNCHANGED <<clock, faults, at, todo, from, to, fresh, fsVars>>

Bug_LeaveAtOnce(a) ==
  /\ holder = a
  /\ phase = "leave"
  /\ holder' = Nobody
  /\ since' = 0
  /\ phase' = "none"
  /\ pc' = [pc EXCEPT ![a] = "idle"]
  /\ UNCHANGED <<clock, faults, at, todo, from, to, fresh, fsVars>>

(* The deferred wait: the mutex is held for a second at least. *)
Leave(a) ==
  /\ holder = a
  /\ phase = "leave"
  /\ clock > since
  /\ holder' = Nobody
  /\ since' = 0
  /\ phase' = "none"
  /\ pc' = [pc EXCEPT ![a] = "idle"]
  /\ UNCHANGED <<clock, faults, at, todo, from, to, fresh, fsVars>>

-----------------------------------------------------------------------------
(* rotateLogsInternal: where the streams lead decides what is rotated. *)

(* The names are read once; a file that has lost its name is an error.     *)
Inspect(a) ==
  /\ holder = a
  /\ phase = "inspect"
  /\ LET job(s) == [stream |-> s, file |-> name[fd[s]]]
     IN todo' = IF \E s \in Streams : name[fd[s]] = Unlinked THEN <<>>
                ELSE IF Shared THEN <<job("out")>> ELSE <<job("out"), job("err")>>
  /\ phase' = "next"
  /\ UNCHANGED <<clock, faults, askVars, lockVars, from, to, fresh, fsVars>>

Stream == Head(todo).stream

(* Each stream's offset is looked at when its turn comes: a file nothing   *)
(* was written to (offset 0) stays as it is.                               *)
Pick(a) ==
  /\ holder = a
  /\ phase = "next"
  /\ \/ todo = <<>> /\ phase' = "leave" /\ UNCHANGED <<todo, from, to>>
     \/ /\ todo # <<>> /\ ~lines[fd[Stream]]
        /\ todo' = Tail(todo)
        /\ UNCHANGED <<phase, from, to>>
     \/ /\ todo # <<>> /\ lines[fd[Stream]]
        /\ phase' = "rename"
        /\ from' = Head(todo).file
        /\ to' = Stamped(Head(todo).file, at[a])
        /\ UNCHANGED todo
  /\ UNCHANGED <<clock, faults, askVars, lockVars, fresh, fsVars>>

(* rename(2): a file that has the new name already loses it. *)
Renamed(old, new) ==
  [i \in Files |-> IF name[i] = old THEN new
                   ELSE IF name[i] = new THEN Unlinked ELSE name[i]]

Done == todo' = Tail(todo) /\ phase' = "next" /\ fresh' = Nobody

(* rotateFile: the live file is renamed ... *)
Rename(a) ==
  /\ holder = a
  /\ phase = "rename"
  /\ \/ NoFault /\ name' = Renamed(from, to) /\ phase' = "open" /\ UNCHANGED <<todo, fresh, lines>>
     \/ Fault /\ Done /\ Wrote(Stream) /\ UNCHANGED name
  /\ UNCHANGED <<clock, askVars, lockVars, from, to, fd>>

Bug_UndoForgotten == Fault /\ Done /\ Wrote(Stream) /\ UNCHANGED name

(* A failure renames back, over the replacement if there is one by now;    *)
(* whether that worked is not looked at.                                   *)
Undo ==
  /\ Done
  /\ Wrote(Stream)
  /\ \/ Fault /\ name' = Renamed(to, from)
     \/ faults + 2 <= MaxFaults /\ faults' = faults + 2 /\ UNCHANGED name

Free == {i \in Files : name[i] = Unused}

(* ... a new one is opened under the old name ... *)
Open(a) ==
  /\ holder = a
  /\ phase = "open"
  /\ \/ /\ NoFault
        /\ Free # {}
        /\ fresh' = Some(Free)
        /\ name' = [name EXCEPT ![fresh'] = from]
        /\ phase' = "replace"
        /\ UNCHANGED <<todo, lines>>
     \/ Undo
  /\ UNCHANGED <<clock, askVars, lockVars, from, to, fd>>

Bug_ReplaceClosesFirst(a) ==
  /\ holder = a
  /\ phase = "replace"
  /\ fd' = [fd EXCEPT ![Stream] = Nobody]
  /\ phase' = "leave"
  /\ UNCHANGED <<clock, faults, askVars, lockVars, todo, from, to, fresh, name, lines>>

(* ... and put under the stream's descriptor after an fsync.  The success  *)
(* message is the first line of the new file.                              *)
Replace(a) ==
  /\ holder = a
  /\ phase = "replace"
  /\ \/ /\ NoFault
        /\ fd' = [fd EXCEPT ![Stream] = fresh]
        /\ IF Shared
           THEN phase' = "dup" /\ UNCHANGED <<todo, fresh, lines>>
           ELSE Done /\ lines' = [lines EXCEPT ![fresh] = TRUE]
        /\ UNCHANGED name
     \/ Undo /\ UNCHANGED fd
  /\ UNCHANGED <<clock, askVars, lockVars, from, to>>

(* Streams that shared the file share the new one; a failure leaves stderr *)
(* on the renamed file.                                                    *)
DupStderr(a) ==
  /\ holder = a
  /\ phase = "dup"
  /\ \/ NoFault /\ fd' = [fd EXCEPT !["err"] = fd["out"]] /\ Wrote("out")
     \/ Fault /\ UNCHANGED fd /\ Wrote("err")
  /\ Done
  /\ UNCHANGED <<clock, askVars, lockVars, from, to, name>>

-----------------------------------------------------------------------------
Rotation(a) ==
  \/ Inspect(a) \/ Pick(a) \/ Rename(a) \/ Open(a) \/ Replace(a) \/ DupStderr(a)

Next ==
  \/ Tick
  \/ \E s \in Streams : Write(s)
  \/ \E a \in Askers : Ask(a) \/ Enter(a) \/ Leave(a) \/ Rotation(a)

Spec == Init /\ [][Next]_vars

-----------------------------------------------------------------------------
TypeOK ==
  /\ clock \in 0..MaxClock
  /\ faults \in 0..MaxFaults
  /\ pc \in [Askers -> {"idle", "waiting", "rotating"}]
  /\ at \in [Askers -> Stamps]
  /\ holder \in Askers \cup {Nobody}
  /\ since \in Stamps
  /\ phase \in {"none", "inspect", "next", "rename", "open", "replace", "dup", "leave"}
  /\ todo \in Seq([stream : Streams, file : Names])
  /\ from \in Names /\ to \in Names
  /\ fresh \in Files \cup {Nobody}
  /\ name \in [Files -> Names \cup {Unused, Unlinked}]
  /\ lines \in [Files -> BOOLEAN]
  /\ fd \in [Streams -> Files]

(* The inductive invariant behind the two properties below.  A job is a    *)
(* member of todo; it has begun once its file was renamed.                 *)
Begun == phase \in {"open", "replace", "dup"}
Opened(i) == \E s \in Streams : fd[s] = i

LockMatches ==
  /\ \A a \in Askers : pc[a] = "rotating" <=> holder = a
  /\ phase = "none" <=> holder = Nobody

JobMatches ==
  /\ phase \in {"none", "inspect", "leave"} => todo = <<>>
  /\ phase = "rename" \/ Begun => /\ todo # <<>>
                                  /\ from = Head(todo).file
                                  /\ to = Stamped(from, at[holder])

FilesMatch ==
  /\ \A i \in Files : name[i] = Unused => ~lines[i] /\ ~Opened(i)
  /\ phase = "replace" =>
       fresh \in Files /\ name[fresh] = from /\ ~lines[fresh] /\ ~Opened(fresh)

(* While nobody but SIGHUP has asked: its stamps grow from one rotation to *)
(* the next, so that no job's new name is in use.                          *)
Before(n, t) == \A k \in DOMAIN n.stamps : n.stamps[k] < t
Horizon == IF pc["hup"] = "idle" THEN clock
           ELSE IF pc["hup"] = "waiting" \/ phase = "inspect" THEN at["hup"]
           ELSE at["hup"] + 1

StampsGrow ==
  /\ pc["midnight"] = "idle"
  /\ at["hup"] <= clock
  /\ pc["hup"] = "rotating" => at["hup"] <= since
  /\ \A i \in Files : name[i] \in Names => Before(name[i], Horizon)
  /\ \A k \in DOMAIN todo : Before(todo[k].file, at["hup"])

NamesDistinct ==
  /\ \A i, j \in Files : name[i] = name[j] /\ name[i] \in Names => i = j
  /\ \A k, l \in DOMAIN todo : todo[k].file = todo[l].file => k = l
  /\ \A k \in DOMAIN todo, i \in Files :
       name[i] = Stamped(todo[k].file, at["hup"]) => Begun /\ k = 1
  /\ \A i \in Files : name[i] = from => phase # "open" /\ (phase = "replace" => i = fresh)

LogsLinked == \A i \in Files : lines[i] \/ Opened(i) => name[i] # Unlinked

(* A stream at its configured name: its file alone has the name, but while *)
(* that file is renamed and its replacement is not yet in its place.       *)
AtHome(s) ==
  \A i \in Files : name[i] = Configured(s) <=> i = fd[s]

OnTheMove(s) ==
  /\ from = Configured(s)
  /\ \A i \in Files : name[i] = to <=> i = fd[s]
  /\ \A i \in Files : name[i] = from <=> phase = "replace" /\ i = fresh

OwnName(s) ==
  /\ IF phase \in {"open", "replace"} /\ Stream = s THEN OnTheMove(s) ELSE AtHome(s)
  /\ \A k \in DOMAIN todo : todo[k].stream = s <=> todo[k].file = Configured(s)

Joined == Shared \/ phase = "dup"

StreamsMatch ==
  /\ faults <= 1 => OwnName("out")
  /\ faults = 0 => IF Joined THEN \A k \in DOMAIN todo : todo[k].stream = "out"
                   ELSE OwnName("err")

IInv ==
  /\ TypeOK
  /\ LockMatches
  /\ JobMatches
  /\ FilesMatch
  /\ at["midnight"] = 0 => StampsGrow /\ NamesDistinct /\ LogsLinked
  /\ StreamsMatch

(* Rotations that SIGHUP asks for overwrite no rotated log: the one-second *)
(* wait makes sure that "the next rotated filename cannot collide on the   *)
(* same timestamp" (log_rotate.go:68), so every line ever written stays in *)
(* a file that has a name.  It does not hold once midnight has asked too:  *)
(* both askers take their stamp before they wait for the mutex.            *)
HupKeepsLogs ==
  at["midnight"] = 0 => \A i \in Files : lines[i] => name[i] # Unlinked

(* After any one failing call the live stdout log is back at, or still at, *)
(* its configured name once the rotation has returned: the renames are     *)
(* undone in the right order (log_rotate.go:166-190).  Without a failure   *)
(* stderr is at its own name or shares the file of stdout.                 *)
LogAtItsName ==
  holder = Nobody =>
    /\ faults <= 1 => name[fd["out"]] = Configured("out")
    /\ faults = 0 => name[fd["err"]] = Configured("err") \/ Shared
=============================================================================
