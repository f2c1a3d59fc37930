------------------------------ MODULE PidFile ------------------------------
(***************************************************************************)
(* The daemon's pid file: AcquirePidFile and the cleanup it returns, run   *)
(* by every daemonized selector, and DaemonStop, which reads the file and  *)
(* signals the process it names.  Every system call on the file is a step  *)
(* of its own, so processes interleave between any two of them.            *)
(*                                                                         *)
(* An inode is in use while the path names it or a descriptor holds it     *)
(* open, and may be handed out again afterwards.  A pid may be used again  *)
(* as well, by another daemon or by a stranger.                            *)
(***************************************************************************)
EXTENDS Integers, FiniteSets

CONSTANTS Pids,   \* process ids
          Inodes, \* inode numbers of the pid directory
          None,   \* no inode, no process, no text
          Pidfd   \* os.FindProcess pins the process (Go 1.23 on) or not

ASSUME PidFileAssumption ==
  /\ None \notin Inodes
  /\ None \notin Pids
  /\ Pidfd \in BOOLEAN

VARIABLES
  path,    \* the inode the pid-file name leads to
  lock,    \* the process whose descriptor holds flock on each inode
  text,    \* the pid each inode holds, None when it is empty
  pc,      \* control state of each process
  fd,      \* the inode each process has open
  term,    \* the processes SIGTERM was delivered to
  stop,    \* control state of DaemonStop
  stopFd,  \* the inode ReadPidFile has open
  stopPid, \* the pid DaemonStop read
  handle   \* the handle of os.FindProcess still refers to stopPid's holder

fileVars == <<path, lock, text>>
procVars == <<pc, fd, term>>
stopVars == <<stop, stopFd, stopPid, handle>>
vars == <<fileVars, procVars, stopVars>>

-----------------------------------------------------------------------------
Locked == {"locked", "truncated", "running", "stat", "remove", "close"}
Daemon == Locked \cup {"start", "opened"}

Init ==
  /\ path = None
  /\ lock = [i \in Inodes |-> None]
  /\ text = [i \in Inodes |-> None]
  /\ pc = [p \in Pids |-> "none"]
  /\ fd = [p \in Pids |-> None]
  /\ term = {}
  /\ stop = "idle" /\ stopFd = None /\ stopPid = None /\ handle = FALSE

InUse == {path, stopFd} \cup {fd[p] : p \in Pids}

Goto(p, s) == pc' = [pc EXCEPT ![p] = s]

(* A process ends: its descriptor closes, flock and a pidfd with it. *)
Ends(p) ==
  /\ Goto(p, "none")
  /\ fd' = [fd EXCEPT ![p] = None]
  /\ lock' = [i \in Inodes |-> IF lock[i] = p THEN None ELSE lock[i]]
  /\ term' = term \ {p}
  /\ handle' = (handle /\ stopPid # p)
  /\ UNCHANGED <<path, text, stop, stopFd, stopPid>>

-----------------------------------------------------------------------------
(* Processes come and go: Daemonizer.Execute starts a detached selector,   *)
(* and other programs are given free pids too.                             *)

Launch(p) ==
  /\ pc[p] = "none"
  /\ \/ Goto(p, "start") \/ Goto(p, "stranger")
  /\ UNCHANGED <<fileVars, fd, term, stopVars>>

(* A crash or SIGKILL, or the end of a stranger. *)
Dies(p) == pc[p] # "none" /\ Ends(p)

-----------------------------------------------------------------------------
(* AcquirePidFile *)

(* An error return: an ancestor of the pid file or the opened file is a    *)
(* symbolic link, of the wrong type or writable by somebody else, or a     *)
(* call on the file fails.  The daemon ends and the file stays.            *)
Refuse(p) == pc[p] \in {"start", "opened", "locked", "truncated"} /\ Ends(p)

(* open(O_APPEND|O_WRONLY|O_CREATE): the named inode, or a new empty one. *)
Open(p) ==
  /\ pc[p] = "start"
  /\ IF path # None
     THEN fd' = [fd EXCEPT ![p] = path] /\ UNCHANGED <<path, text>>
     ELSE \E i \in Inodes \ InUse :
            /\ fd' = [fd EXCEPT ![p] = i]
            /\ path' = i
            /\ text' = [text EXCEPT ![i] = None]
  /\ Goto(p, "opened")
  /\ UNCHANGED <<lock, term, stopVars>>

(* flock(LOCK_EX|LOCK_NB) on the inode that was opened, whatever the path  *)
(* names by now; the caller ends when another descriptor holds the lock.   *)
Flock(p) ==
  /\ pc[p] = "opened"
  /\ lock[fd[p]] = None
  /\ lock' = [lock EXCEPT ![fd[p]] = p]
  /\ Goto(p, "locked")
  /\ UNCHANGED <<path, text, fd, term, stopVars>>

Bug_FlockBlocks(p) == FALSE

FlockFails(p) == pc[p] = "opened" /\ lock[fd[p]] # None /\ Ends(p)

Bug_TruncateUnlocked(p) ==
  /\ pc[p] \in {"opened", "locked"}
  /\ text' = [text EXCEPT ![fd[p]] = None]
  /\ Goto(p, IF pc[p] = "locked" THEN "truncated" ELSE "opened")
  /\ UNCHANGED <<path, lock, fd, term, stopVars>>

Truncate(p) ==
  /\ pc[p] = "locked"
  /\ text' = [text EXCEPT ![fd[p]] = None]
  /\ Goto(p, "truncated")
  /\ UNCHANGED <<path, lock, fd, term, stopVars>>

WritePid(p) ==
  /\ pc[p] = "truncated"
  /\ text' = [text EXCEPT ![fd[p]] = p]
  /\ Goto(p, "running")
  /\ UNCHANGED <<path, lock, fd, term, stopVars>>

(* Runner.Execute returns and the deferred cleanup begins. *)
RunnerReturns(p) ==
  /\ pc[p] = "running"
  /\ Goto(p, "stat")
  /\ UNCHANGED <<fileVars, fd, term, stopVars>>

Bug_CleanStatSkipped(p) ==
  /\ pc[p] = "stat"
  /\ path # None
  /\ Goto(p, "remove")
  /\ UNCHANGED <<fileVars, fd, term, stopVars>>

(* os.Stat(filename): the file is removed only when it is still our inode. *)
CleanStat(p) ==
  /\ pc[p] = "stat"
  /\ Goto(p, IF path = fd[p] THEN "remove" ELSE "close")
  /\ UNCHANGED <<fileVars, fd, term, stopVars>>

(* os.Remove(filename) takes away whatever the path names at that moment. *)
CleanRemove(p) ==
  /\ pc[p] = "remove"
  /\ path' = None
  /\ Goto(p, "close")
  /\ UNCHANGED <<lock, text, fd, term, stopVars>>

CleanClose(p) == pc[p] = "close" /\ Ends(p)

-----------------------------------------------------------------------------
(* DaemonStop *)

StopOpen ==
  /\ stop = "idle"
  /\ path # None
  /\ stopFd' = path
  /\ stop' = "read"
  /\ UNCHANGED <<fileVars, procVars, stopPid, handle>>

Bug_StopReadTakesEmpty ==
  /\ stop = "read"
  /\ stopPid' = text[stopFd]
  /\ stop' = "find"
  /\ stopFd' = None
  /\ UNCHANGED <<fileVars, procVars, handle>>

(* The first line of the file; an empty one is an error. *)
StopRead ==
  /\ stop = "read"
  /\ stopPid' = text[stopFd]
  /\ stop' = IF text[stopFd] = None THEN "idle" ELSE "find"
  /\ stopFd' = None
  /\ UNCHANGED <<fileVars, procVars, handle>>

(* os.FindProcess opens a pidfd, or a handle to a process already gone. *)
StopFind ==
  /\ stop = "find"
  /\ handle' = (pc[stopPid] # "none")
  /\ stop' = "verify"
  /\ UNCHANGED <<fileVars, procVars, stopFd, stopPid>>

GiveUp == stop' = "idle" /\ stopPid' = None /\ handle' = FALSE

(* verifyDaemonProcess looks the pid up in /proc: executable, environment  *)
(* and command line must be those of a daemonized selector.                *)
StopVerify ==
  /\ stop = "verify"
  /\ IF pc[stopPid] \in Daemon
     THEN stop' = "signal" /\ UNCHANGED <<stopPid, handle>>
     ELSE GiveUp
  /\ UNCHANGED <<fileVars, procVars, stopFd>>

Bug_StopSignalByPid ==
  /\ stop = "signal"
  /\ term' = IF pc[stopPid] # "none" THEN term \cup {stopPid} ELSE term
  /\ GiveUp
  /\ UNCHANGED <<fileVars, pc, fd, stopFd>>

(* With a pidfd the signal is lost when that process is gone; without one  *)
(* it reaches whoever has the pid now.                                     *)
StopSignal ==
  /\ stop = "signal"
  /\ term' = IF IF Pidfd THEN handle ELSE pc[stopPid] # "none"
             THEN term \cup {stopPid} ELSE term
  /\ GiveUp
  /\ UNCHANGED <<fileVars, pc, fd, stopFd>>

-----------------------------------------------------------------------------
Setup(p) == Open(p) \/ Flock(p) \/ FlockFails(p) \/ Truncate(p) \/ WritePid(p)
Cleanup(p) == CleanStat(p) \/ CleanRemove(p) \/ CleanClose(p)
Stop == StopOpen \/ StopRead \/ StopFind \/ StopVerify \/ StopSignal

Next ==
  \/ \E p \in Pids :
       \/ Launch(p) \/ Dies(p) \/ Refuse(p) \/ Setup(p)
       \/ RunnerReturns(p) \/ Cleanup(p)
  \/ Stop

Spec == Init /\ [][Next]_vars

(* Selectors are scheduled, and a runner whose context SIGTERM cancelled   *)
(* returns (CancelStops of SelectorPipeline).                              *)
Fairness ==
  \A p \in Pids : /\ WF_vars(Setup(p) \/ Cleanup(p))
                  /\ WF_vars(p \in term /\ RunnerReturns(p))

FairSpec == Spec /\ Fairness

-----------------------------------------------------------------------------
TypeOK ==
  /\ path \in Inodes \cup {None}
  /\ lock \in [Inodes -> Pids \cup {None}]
  /\ text \in [Inodes -> Pids \cup {None}]
  /\ pc \in [Pids -> Daemon \cup {"none", "stranger"}]
  /\ fd \in [Pids -> Inodes \cup {None}]
  /\ term \subseteq Pids
  /\ stop \in {"idle", "read", "find", "verify", "signal"}
  /\ stopFd \in Inodes \cup {None}
  /\ stop = "read" <=> stopFd # None
  /\ stopPid \in Pids \cup {None}
  /\ stop \in {"find", "verify", "signal"} <=> stopPid # None
  /\ handle \in BOOLEAN

(* Who is past flock holds the lock of the inode it has open. *)
LockMatches == \A p \in Pids : pc[p] \in Locked => fd[p] \in Inodes /\ lock[fd[p]] = p

(* From WritePid on, that inode holds its owner's pid. *)
TextMatches ==
  \A p \in Pids : pc[p] \in {"running", "stat", "remove", "close"} => text[fd[p]] = p

OpenedMatches == \A p \in Pids : pc[p] = "opened" => fd[p] \in Inodes

(* Between the two calls of the cleanup the name stays where it was. *)
RemoveMatches == \A p \in Pids : pc[p] = "remove" => path = fd[p]

(* A live handle that was verified refers to a daemon. *)
HandleMatches == stop = "signal" /\ handle => pc[stopPid] \in Daemon

(* The inductive invariant the proofs of PidFileProofs rest on. *)
IInv ==
  /\ TypeOK
  /\ LockMatches
  /\ TextMatches
  /\ OpenedMatches
  /\ RemoveMatches
  /\ HandleMatches

Running == {p \in Pids : pc[p] = "running"}

(* "the pid-file lock rejects a second daemon" (pid_behavior_test.go:70):  *)
(* two daemons of one pid file never run at the same time.                 *)
OneDaemon == Cardinality(Running) <= 1

(* The cleanup checks the inode and removes the name in two system calls;  *)
(* what it removes is nevertheless always its own, locked inode and never  *)
(* the file another daemon has published in between (pid.go:64-69).        *)
RemovesOwnFile ==
  [][path # None /\ path' = None =>
       \E p \in Pids : pc[p] = "remove" /\ fd[p] = path /\ lock[path] = p]_vars

(* As long as a running daemon's file can be found, it names that daemon:  *)
(* no other process truncates or overwrites it (pid.go:42-62).             *)
FileNamesDaemon ==
  \A p \in Running : fd[p] = path => text[path] = p

(* With Pidfd, DaemonStop never signals a process other than a daemon,     *)
(* even when the pid is used again between the read, the check in /proc    *)
(* and the kill (entry/daemon.go:30-40).                                   *)
OnlyDaemonsSignalled == \A p \in term : pc[p] \in Daemon

(* A daemon that was told to stop does: it leaves its run and its cleanup, *)
(* and the pid is free again.                                              *)
StopEnds == \A p \in Pids : p \in term ~> p \notin term
=============================================================================
