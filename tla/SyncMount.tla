----------------------------- MODULE SyncMount -----------------------------
(***************************************************************************)
(* The sync child: prepareMountPoint enters the sandbox, makes a workspace *)
(* directory, mounts both storages and pins their sub-paths; the copier    *)
(* runs on the pins; cleanupDirectory, deferred before anything can fail,  *)
(* takes it all down again.  Any system call may fail and the process may  *)
(* be killed at any point.                                                 *)
(***************************************************************************)
EXTENDS Naturals, Sequences

CONSTANT MaxFaults \* bound on failing system calls

MountOrder  == <<"src", "dst", "pinned-src", "pinned-dst">>
UmountOrder == <<"pinned-src", "pinned-dst", "src", "dst">>
RemoveOrder == Append(UmountOrder, "temp")
Places      == {"src", "dst", "pinned-src", "pinned-dst"}
Pins        == {"pinned-src", "pinned-dst"}

VARIABLES
  sandboxed,  \* Runner.Sandboxed
  validNames, \* both mount names are local paths
  isolated,   \* the process has entered its sandbox
  pc,         \* what Execute does next
  k,          \* position in the order of mounts, unmounts or removals
  dirs,       \* directories that exist: "temp" and those in it
  mounts,     \* places something is mounted on
  skipped,    \* cleanupDirectory has returned without cleaning
  stuck,      \* places cleanupDirectory could not unmount or remove
  faults      \* system calls that have failed so far

confVars  == <<sandboxed, validNames>>
cleanVars == <<skipped, stuck>>
vars == <<confVars, isolated, pc, k, dirs, mounts, cleanVars, faults>>

Init ==
  /\ sandboxed \in BOOLEAN /\ validNames \in BOOLEAN
  /\ isolated = FALSE
  /\ pc = "sandbox" /\ k = 1
  /\ dirs = {} /\ mounts = {}
  /\ skipped = FALSE /\ stuck = {}
  /\ faults = 0

Fails == faults < MaxFaults /\ faults' = faults + 1
Works == UNCHANGED faults

-----------------------------------------------------------------------------
(* prepareMountPoint *)

Bug_SandboxFailureIgnored ==
  /\ pc = "sandbox"
  /\ \/ Works /\ isolated' = sandboxed
     \/ sandboxed /\ Fails /\ UNCHANGED isolated
  /\ pc' = "temp"
  /\ UNCHANGED <<confVars, k, dirs, mounts, cleanVars>>

(* Without a workspace there is nothing to clean up. *)
Sandbox ==
  /\ pc = "sandbox"
  /\ \/ Works /\ isolated' = sandboxed /\ pc' = "temp"
     \/ sandboxed /\ Fails /\ pc' = "return" /\ UNCHANGED isolated
  /\ UNCHANGED <<confVars, k, dirs, mounts, cleanVars>>

MkdirTemp ==
  /\ pc = "temp"
  /\ \/ Works /\ dirs' = {"temp"} /\ pc' = "chdir"
     \/ Fails /\ pc' = "return" /\ UNCHANGED dirs
  /\ UNCHANGED <<confVars, isolated, k, mounts, cleanVars>>

(* Chdir into the workspace, and the check of the mount names. *)
Chdir ==
  /\ pc = "chdir"
  /\ \/ Works /\ pc' = IF validNames THEN "mkdir" ELSE "cleanup"
     \/ Fails /\ pc' = "cleanup"
  /\ UNCHANGED <<confVars, isolated, k, dirs, mounts, cleanVars>>

Place == MountOrder[k]
Advance ==
  IF k = Len(MountOrder) THEN pc' = "check" /\ k' = 1
  ELSE /\ k' = k + 1
       /\ pc' = IF MountOrder[k + 1] \in Pins THEN "open" ELSE "mkdir"

(* OpenDirBeneath, for the destination also its chmod. *)
OpenSubpath ==
  /\ pc = "open"
  /\ \/ Works /\ pc' = "mkdir"
     \/ Fails /\ pc' = "cleanup"
  /\ UNCHANGED <<confVars, isolated, k, dirs, mounts, cleanVars>>

MakeDir ==
  /\ pc = "mkdir"
  /\ \/ Works /\ dirs' = dirs \cup {Place} /\ pc' = "mount"
     \/ Fails /\ pc' = "cleanup" /\ UNCHANGED dirs
  /\ UNCHANGED <<confVars, isolated, k, mounts, cleanVars>>

Bug_MountFailureIgnored ==
  /\ pc = "mount"
  /\ \/ Works /\ mounts' = mounts \cup {Place}
     \/ Fails /\ UNCHANGED mounts
  /\ Advance
  /\ UNCHANGED <<confVars, isolated, dirs, cleanVars>>

Mount ==
  /\ pc = "mount"
  /\ \/ /\ Works
        /\ mounts' = mounts \cup {Place}
        /\ IF Place \in Pins THEN pc' = "remount" /\ UNCHANGED k ELSE Advance
     \/ Fails /\ pc' = "cleanup" /\ UNCHANGED <<k, mounts>>
  /\ UNCHANGED <<confVars, isolated, dirs, cleanVars>>

(* BindMountFD makes the pin nosymfollow; when that fails it unmounts it,  *)
(* not looking at whether it could.                                        *)
Remount ==
  /\ pc = "remount"
  /\ \/ Works /\ Advance /\ UNCHANGED mounts
     \/ /\ Fails
        /\ mounts' \in {mounts, mounts \ {Place}}
        /\ pc' = "cleanup" /\ UNCHANGED k
  /\ UNCHANGED <<confVars, isolated, dirs, cleanVars>>

-----------------------------------------------------------------------------
(* Execute: the two symlink checks, then the copier. *)

CheckPaths ==
  /\ pc = "check"
  /\ \/ Works /\ pc' = "copy"
     \/ Fails /\ pc' = "cleanup"
  /\ UNCHANGED <<confVars, isolated, k, dirs, mounts, cleanVars>>

(* The copier returns or panics; the deferred cleanup runs in both cases. *)
CopyEnds ==
  /\ pc = "copy"
  /\ pc' = "cleanup"
  /\ UNCHANGED <<confVars, isolated, k, dirs, mounts, cleanVars, faults>>

-----------------------------------------------------------------------------
(* cleanupDirectory *)

(* The four paths are computed anew; safeWorkspacePath rejects bad names   *)
(* and inspects what exists, which fails on a storage that has gone stale. *)
CleanupPaths ==
  /\ pc = "cleanup"
  /\ \/ Works /\ validNames /\ pc' = "umount" /\ k' = 1 /\ UNCHANGED skipped
     \/ Works /\ ~validNames /\ pc' = "return" /\ skipped' = TRUE /\ UNCHANGED k
     \/ dirs \cap Places # {} /\ Fails /\ pc' = "return" /\ skipped' = TRUE /\ UNCHANGED k
  /\ UNCHANGED <<confVars, isolated, dirs, mounts, stuck>>

Bug_UmountStopsAtFailure ==
  /\ pc = "umount"
  /\ LET p == UmountOrder[k] IN
       \/ /\ Works /\ mounts' = mounts \ {p} /\ UNCHANGED stuck
          /\ IF k = Len(UmountOrder) THEN pc' = "remove" /\ k' = 1
             ELSE k' = k + 1 /\ UNCHANGED pc
       \/ p \in mounts /\ Fails /\ stuck' = stuck \cup {p} /\ pc' = "return"
          /\ UNCHANGED <<mounts, k>>
  /\ UNCHANGED <<confVars, isolated, dirs, skipped>>

(* A failure is logged and the loop goes on.  What is not mounted unmounts *)
(* without an error, or with one when there is no such directory.          *)
Umount ==
  /\ pc = "umount"
  /\ LET p == UmountOrder[k] IN
       \/ Works /\ mounts' = mounts \ {p} /\ UNCHANGED stuck
       \/ p \in mounts /\ Fails /\ stuck' = stuck \cup {p} /\ UNCHANGED mounts
  /\ IF k = Len(UmountOrder) THEN pc' = "remove" /\ k' = 1
     ELSE k' = k + 1 /\ UNCHANGED pc
  /\ UNCHANGED <<confVars, isolated, dirs, skipped>>

Bug_RemovableWhileMounted(p) == p \in dirs

(* rmdir(2) wants an empty directory with nothing mounted on it. *)
Removable(p) == p \in dirs /\ p \notin mounts /\ (p = "temp" => dirs = {"temp"})

Remove ==
  /\ pc = "remove"
  /\ LET p == RemoveOrder[k] IN
       \/ Works /\ dirs' = (IF Removable(p) THEN dirs \ {p} ELSE dirs) /\ UNCHANGED stuck
       \/ Removable(p) /\ Fails /\ stuck' = stuck \cup {p} /\ UNCHANGED dirs
  /\ IF k = Len(RemoveOrder) THEN pc' = "return" /\ k' = 1
     ELSE k' = k + 1 /\ UNCHANGED pc
  /\ UNCHANGED <<confVars, isolated, mounts, skipped>>

-----------------------------------------------------------------------------
(* The process is gone, and what was made in its sandbox with it. *)
Exits ==
  /\ pc' = "gone" /\ k' = 1
  /\ dirs' = IF isolated THEN {} ELSE dirs
  /\ mounts' = IF isolated THEN {} ELSE mounts
  /\ UNCHANGED <<confVars, isolated, cleanVars, faults>>

Returns == pc = "return" /\ Exits
Killed == pc \notin {"return", "gone"} /\ Exits
Gone == pc = "gone" /\ UNCHANGED vars

Prepare == Sandbox \/ MkdirTemp \/ Chdir \/ OpenSubpath \/ MakeDir \/ Mount \/ Remount
Cleanup == CleanupPaths \/ Umount \/ Remove

Next == Prepare \/ CheckPaths \/ CopyEnds \/ Cleanup \/ Returns \/ Killed \/ Gone

Spec == Init /\ [][Next]_vars

-----------------------------------------------------------------------------
TypeOK ==
  /\ sandboxed \in BOOLEAN /\ validNames \in BOOLEAN /\ isolated \in BOOLEAN
  /\ pc \in {"sandbox", "temp", "chdir", "open", "mkdir", "mount", "remount",
             "check", "copy", "cleanup", "umount", "remove", "return", "gone"}
  /\ k \in 1..Len(RemoveOrder)
  /\ dirs \subseteq Places \cup {"temp"}
  /\ mounts \subseteq Places \cap dirs
  /\ dirs # {} => "temp" \in dirs
  /\ skipped \in BOOLEAN
  /\ stuck \subseteq Places \cup {"temp"}
  /\ faults \in 0..MaxFaults

-----------------------------------------------------------------------------
(* What holds at each point of Execute, for SyncChild's invariant. *)

Mounted(i)   == {MountOrder[j] : j \in 1..(i - 1)}
ToUmount(i)  == {UmountOrder[j] : j \in i..Len(UmountOrder)}
ToRemove(i)  == {RemoveOrder[j] : j \in i..Len(RemoveOrder)}

(* prepareMountPoint has mounted exactly what it has come by. *)
Preparing ==
  /\ pc \in {"sandbox", "temp"} => dirs = {} /\ mounts = {} /\ k = 1
  /\ pc = "chdir" => "temp" \in dirs /\ mounts = {} /\ k = 1
  /\ pc \in {"open", "mkdir", "mount"} =>
       k <= Len(MountOrder) /\ "temp" \in dirs /\ mounts = Mounted(k)
  /\ pc \in {"mount", "remount"} => Place \in dirs
  /\ pc = "remount" => k <= Len(MountOrder) /\ mounts = Mounted(k + 1)
  /\ pc \in {"check", "copy"} => mounts = Places

(* cleanupDirectory leaves only what is stuck of what it has come by. *)
Cleaning ==
  /\ pc = "umount" => k <= Len(UmountOrder) /\ mounts \subseteq stuck \cup ToUmount(k)
  /\ pc = "remove" =>
       mounts \subseteq stuck /\ dirs \subseteq stuck \cup {"temp"} \cup ToRemove(k)
  /\ pc = "return" /\ ~skipped =>
       /\ mounts \subseteq stuck /\ dirs \subseteq stuck \cup {"temp"}
       /\ stuck = {} => dirs = {}

(* What is made is made where it was asked for. *)
Isolating ==
  /\ isolated => sandboxed
  /\ pc = "sandbox" => ~isolated
  /\ pc \notin {"sandbox", "return", "gone"} => isolated = sandboxed
  /\ sandboxed /\ (~isolated \/ pc = "gone") => dirs = {} /\ mounts = {}
=============================================================================
