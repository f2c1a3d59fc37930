---------------------------- MODULE PidFileProofs ----------------------------
(* Theorems about PidFile, for any number of processes and of inodes, with *)
(* pids and inode numbers used again.                                      *)
EXTENDS PidFile, TLAPS

LEMMA InitIInv == Init => IInv
BY PidFileAssumption
   DEF Init, IInv, TypeOK, LockMatches, TextMatches, OpenedMatches,
       RemoveMatches, HandleMatches, Locked, Daemon

(* Two processes past flock have different inodes open. *)
LEMMA LockersDiffer ==
  ASSUME LockMatches, NEW p \in Pids, NEW q \in Pids,
         pc[p] \in Locked, pc[q] \in Locked, fd[p] = fd[q]
  PROVE  p = q
BY DEF LockMatches

(* Each action keeps the state in its type. *)

LEMMA TypeEnds == ASSUME TypeOK, NEW p \in Pids, Ends(p) PROVE TypeOK'
BY PidFileAssumption DEF TypeOK, Ends, Goto, Daemon

LEMMA TypeOpen == ASSUME TypeOK, NEW p \in Pids, Open(p) PROVE TypeOK'
<1>1. /\ fd' \in [Pids -> Inodes \cup {None}]
      /\ path' \in Inodes \cup {None}
      /\ text' \in [Inodes -> Pids \cup {None}]
  <2>1. CASE path # None
    BY <2>1 DEF Open, TypeOK
  <2>2. CASE path = None
    BY <2>2 DEF Open, TypeOK
  <2>3. QED
    BY <2>1, <2>2
<1>2. pc' \in [Pids -> Daemon \cup {"none", "stranger"}]
  BY DEF Open, Goto, TypeOK, Daemon
<1>3. QED
  BY <1>1, <1>2 DEF Open, TypeOK, stopVars

LEMMA TypeProcess ==
  ASSUME TypeOK, NEW p \in Pids,
         \/ Launch(p) \/ Flock(p) \/ Truncate(p) \/ WritePid(p)
         \/ RunnerReturns(p) \/ CleanStat(p) \/ CleanRemove(p)
  PROVE  TypeOK'
<1> USE DEF TypeOK, Goto, Daemon, Locked, fileVars, stopVars
<1>1. CASE Launch(p)
  BY <1>1 DEF Launch
<1>2. CASE Flock(p)
  BY <1>2 DEF Flock
<1>3. CASE Truncate(p)
  BY <1>3 DEF Truncate
<1>4. CASE WritePid(p)
  BY <1>4 DEF WritePid
<1>5. CASE RunnerReturns(p)
  BY <1>5 DEF RunnerReturns
<1>6. CASE CleanStat(p)
  BY <1>6 DEF CleanStat
<1>7. CASE CleanRemove(p)
  BY <1>7 DEF CleanRemove
<1>8. QED
  BY <1>1, <1>2, <1>3, <1>4, <1>5, <1>6, <1>7

LEMMA TypeStop == ASSUME TypeOK, Stop PROVE TypeOK'
<1> USE DEF TypeOK, fileVars, procVars
<1>1. CASE StopOpen
  BY <1>1 DEF StopOpen
<1>2. CASE StopRead
  BY <1>2 DEF StopRead
<1>3. CASE StopFind
  BY <1>3 DEF StopFind
<1>4. CASE StopVerify
  BY <1>4 DEF StopVerify, GiveUp
<1>5. CASE StopSignal
  BY <1>5 DEF StopSignal, GiveUp
<1>6. QED
  BY <1>1, <1>2, <1>3, <1>4, <1>5 DEF Stop

LEMMA TypeNext == ASSUME TypeOK, [Next]_vars PROVE TypeOK'
<1>1. CASE UNCHANGED vars
  BY <1>1 DEF TypeOK, vars, fileVars, procVars, stopVars
<1>2. CASE Stop
  BY <1>2, TypeStop
<1>3. ASSUME NEW p \in Pids,
             \/ Launch(p) \/ Dies(p) \/ Refuse(p) \/ Setup(p)
             \/ RunnerReturns(p) \/ Cleanup(p)
      PROVE  TypeOK'
  BY <1>3, TypeEnds, TypeOpen, TypeProcess
     DEF Dies, Refuse, Setup, FlockFails, Cleanup, CleanClose
<1>4. QED
  BY <1>1, <1>2, <1>3 DEF Next

(* The parts of IInv about the file are kept by every action. *)
FileMatches == LockMatches /\ TextMatches /\ OpenedMatches /\ RemoveMatches

LEMMA FileEnds ==
  ASSUME TypeOK, FileMatches, NEW p \in Pids, Ends(p) PROVE FileMatches'
BY PidFileAssumption
   DEF TypeOK, FileMatches, LockMatches, TextMatches, OpenedMatches,
       RemoveMatches, Ends, Goto, Locked

LEMMA FileOpen ==
  ASSUME TypeOK, FileMatches, NEW p \in Pids, Open(p) PROVE FileMatches'
<1> USE PidFileAssumption DEF TypeOK, FileMatches, Locked, Goto
<1>1. /\ pc' = [pc EXCEPT ![p] = "opened"]
      /\ lock' = lock
      /\ \A q \in Pids : q # p => fd'[q] = fd[q]
      /\ fd'[p] \in Inodes
  BY DEF Open
<1>2. ASSUME NEW q \in Pids, pc[q] \in Locked PROVE text'[fd[q]] = text[fd[q]]
  BY <1>2 DEF Open, InUse, LockMatches
<1>3. ASSUME NEW q \in Pids, pc[q] = "remove" PROVE path' = path
  BY <1>3 DEF Open, RemoveMatches, LockMatches
<1>4. LockMatches' /\ OpenedMatches'
  BY <1>1 DEF LockMatches, OpenedMatches
<1>5. TextMatches'
  BY <1>1, <1>2 DEF TextMatches
<1>6. RemoveMatches'
  BY <1>1, <1>3 DEF RemoveMatches
<1>7. QED
  BY <1>4, <1>5, <1>6

LEMMA FileProcess ==
  ASSUME TypeOK, FileMatches, NEW p \in Pids,
         \/ Launch(p) \/ Flock(p) \/ Truncate(p) \/ WritePid(p)
         \/ RunnerReturns(p) \/ CleanStat(p) \/ CleanRemove(p)
  PROVE  FileMatches'
<1> USE PidFileAssumption
    DEF TypeOK, FileMatches, LockMatches, TextMatches, OpenedMatches,
        RemoveMatches, Goto, Locked, fileVars
<1>1. CASE Launch(p)
  BY <1>1 DEF Launch
<1>2. CASE Flock(p)
  BY <1>2 DEF Flock
<1>3. CASE Truncate(p)
  BY <1>3, LockersDiffer DEF Truncate
<1>4. CASE WritePid(p)
  BY <1>4, LockersDiffer DEF WritePid
<1>5. CASE RunnerReturns(p)
  BY <1>5 DEF RunnerReturns
<1>6. CASE CleanStat(p)
  BY <1>6 DEF CleanStat
<1>7. CASE CleanRemove(p)
  BY <1>7, LockersDiffer DEF CleanRemove
<1>8. QED
  BY <1>1, <1>2, <1>3, <1>4, <1>5, <1>6, <1>7

LEMMA FileNext ==
  ASSUME TypeOK, FileMatches, [Next]_vars PROVE FileMatches'
<1>1. CASE UNCHANGED vars
  BY <1>1
     DEF FileMatches, LockMatches, TextMatches, OpenedMatches, RemoveMatches,
         vars, fileVars, procVars
<1>2. CASE Stop
  <2>1. UNCHANGED <<path, lock, text, pc, fd>>
    BY <1>2
       DEF Stop, StopOpen, StopRead, StopFind, StopVerify, StopSignal,
           fileVars, procVars
  <2>2. QED
    BY <2>1
       DEF FileMatches, LockMatches, TextMatches, OpenedMatches, RemoveMatches
<1>3. ASSUME NEW p \in Pids,
             \/ Launch(p) \/ Dies(p) \/ Refuse(p) \/ Setup(p)
             \/ RunnerReturns(p) \/ Cleanup(p)
      PROVE  FileMatches'
  BY <1>3, FileEnds, FileOpen, FileProcess
     DEF Dies, Refuse, Setup, FlockFails, Cleanup, CleanClose
<1>4. QED
  BY <1>1, <1>2, <1>3 DEF Next

(* A verified handle stays with the process it was opened for. *)
LEMMA HandleNext ==
  ASSUME TypeOK, HandleMatches, [Next]_vars PROVE HandleMatches'
<1> USE DEF TypeOK, HandleMatches
<1>1. CASE UNCHANGED vars
  BY <1>1 DEF vars, procVars, stopVars
<1>2. CASE Stop
  <2>1. CASE StopOpen \/ StopRead \/ StopFind
    BY <2>1 DEF StopOpen, StopRead, StopFind
  <2>2. CASE StopVerify \/ StopSignal
    BY <2>2 DEF StopVerify, StopSignal, GiveUp, procVars
  <2>3. QED
    BY <1>2, <2>1, <2>2 DEF Stop
<1>3. ASSUME NEW p \in Pids, Ends(p) PROVE HandleMatches'
  <2>1. SUFFICES ASSUME stop' = "signal", handle' PROVE pc'[stopPid'] \in Daemon
    OBVIOUS
  <2>2. stop = "signal" /\ handle /\ stopPid' = stopPid /\ stopPid # p
    BY <1>3, <2>1 DEF Ends
  <2>3. pc[stopPid] \in Daemon
    BY <2>2
  <2>4. QED
    BY <1>3, <2>2, <2>3 DEF Ends, Goto
<1>4. ASSUME NEW p \in Pids,
             \/ Launch(p) \/ Open(p) \/ Flock(p) \/ Truncate(p) \/ WritePid(p)
             \/ RunnerReturns(p) \/ CleanStat(p) \/ CleanRemove(p)
      PROVE  HandleMatches'
  <2>1. UNCHANGED stopVars
    BY <1>4
       DEF Launch, Open, Flock, Truncate, WritePid, RunnerReturns, CleanStat,
           CleanRemove
  <2>2. \A q \in Pids : pc[q] \in Daemon => pc'[q] \in Daemon
    BY <1>4
       DEF Launch, Open, Flock, Truncate, WritePid, RunnerReturns, CleanStat,
           CleanRemove, Goto, Daemon, Locked
  <2>3. QED
    BY <2>1, <2>2 DEF stopVars
<1>5. QED
  BY <1>1, <1>2, <1>3, <1>4
     DEF Next, Dies, Refuse, Setup, FlockFails, Cleanup, CleanClose

(* The bookkeeping of the pid file: who is past flock holds the lock of    *)
(* the inode it has open, that inode holds its pid once it runs, and the   *)
(* name does not move while the cleanup is between stat and remove.        *)
THEOREM PidFileInvariant == Spec => []IInv
<1>1. IInv /\ [Next]_vars => IInv'
  BY TypeNext, FileNext, HandleNext DEF IInv, FileMatches
<1>2. QED
  BY <1>1, InitIInv, PTL DEF Spec

(* A running daemon's file, while it can be found, names that daemon,      *)
(* whatever other daemons open, lock, crash or clean up (pid.go:42-62).    *)
THEOREM PidFileNamesDaemon == Spec => []FileNamesDaemon
<1>1. IInv => FileNamesDaemon
  BY DEF IInv, FileNamesDaemon, Running, TextMatches
<1>2. QED
  BY <1>1, PidFileInvariant, PTL

(* The only step that takes the name away is the cleanup of the daemon     *)
(* whose locked inode it names, although stat and remove are two calls     *)
(* (pid.go:64-69).                                                         *)
THEOREM PidFileRemovesOwn == Spec => RemovesOwnFile
<1> DEFINE Removes ==
      path # None /\ path' = None =>
        \E p \in Pids : pc[p] = "remove" /\ fd[p] = path /\ lock[path] = p
<1>1. ASSUME IInv, Next PROVE Removes
  <2>1. SUFFICES ASSUME path # None, path' = None
                 PROVE \E p \in Pids : pc[p] = "remove" /\ fd[p] = path /\ lock[path] = p
    OBVIOUS
  <2>2. PICK p \in Pids : CleanRemove(p)
    <3>1. CASE Stop
      BY <2>1, <3>1
         DEF Stop, StopOpen, StopRead, StopFind, StopVerify, StopSignal, fileVars
    <3>2. ASSUME NEW p \in Pids,
                 \/ Launch(p) \/ Ends(p) \/ Open(p) \/ Flock(p) \/ Truncate(p)
                 \/ WritePid(p) \/ RunnerReturns(p) \/ CleanStat(p)
          PROVE  FALSE
      BY <2>1, <3>2
         DEF Launch, Ends, Open, Flock, Truncate, WritePid, RunnerReturns,
             CleanStat, fileVars
    <3>3. QED
      BY <1>1, <3>1, <3>2
         DEF Next, Dies, Refuse, Setup, FlockFails, Cleanup, CleanClose
  <2>3. pc[p] = "remove" /\ fd[p] = path /\ lock[path] = p
    BY <1>1, <2>2 DEF IInv, CleanRemove, RemoveMatches, LockMatches, Locked
  <2>4. QED
    BY <2>3
<1>2. ASSUME UNCHANGED vars PROVE Removes
  BY <1>2 DEF vars, fileVars
<1>3. IInv /\ [Next]_vars => [Removes]_vars
  BY <1>1, <1>2
<1>4. QED
  BY <1>3, PidFileInvariant, PTL DEF Spec, RemovesOwnFile

(* With a pidfd, only daemons of this pid file's program are signalled,    *)
(* however the pid is used again meanwhile (entry/daemon.go:30-40).        *)
THEOREM StopSignalsDaemons == ASSUME Pidfd PROVE Spec => []OnlyDaemonsSignalled
<1> USE DEF OnlyDaemonsSignalled
<1>1. Init => OnlyDaemonsSignalled
  BY DEF Init
<1>2. ASSUME IInv, OnlyDaemonsSignalled, [Next]_vars PROVE OnlyDaemonsSignalled'
  <2>1. CASE UNCHANGED vars
    BY <1>2, <2>1 DEF vars, procVars
  <2>2. CASE Stop
    <3>1. CASE StopOpen \/ StopRead \/ StopFind \/ StopVerify
      BY <1>2, <3>1 DEF StopOpen, StopRead, StopFind, StopVerify, procVars
    <3>2. CASE StopSignal
      BY <1>2, <3>2 DEF StopSignal, IInv, HandleMatches
    <3>3. QED
      BY <2>2, <3>1, <3>2 DEF Stop
  <2>3. ASSUME NEW p \in Pids, Ends(p) PROVE OnlyDaemonsSignalled'
    BY <1>2, <2>3 DEF Ends, Goto, IInv, TypeOK
  <2>4. ASSUME NEW p \in Pids,
               \/ Launch(p) \/ Open(p) \/ Flock(p) \/ Truncate(p) \/ WritePid(p)
               \/ RunnerReturns(p) \/ CleanStat(p) \/ CleanRemove(p)
        PROVE  OnlyDaemonsSignalled'
    <3>1. term' = term
      BY <2>4
         DEF Launch, Open, Flock, Truncate, WritePid, RunnerReturns, CleanStat,
             CleanRemove
    <3>2. \A q \in Pids : pc[q] \in Daemon => pc'[q] \in Daemon
      BY <1>2, <2>4
         DEF Launch, Open, Flock, Truncate, WritePid, RunnerReturns, CleanStat,
             CleanRemove, Goto, Daemon, Locked, IInv, TypeOK
    <3>3. QED
      BY <1>2, <3>1, <3>2 DEF IInv, TypeOK
  <2>5. QED
    BY <1>2, <2>1, <2>2, <2>3, <2>4
       DEF Next, Dies, Refuse, Setup, FlockFails, Cleanup, CleanClose
<1>3. QED
  BY <1>1, <1>2, PidFileInvariant, PTL DEF Spec
=============================================================================
