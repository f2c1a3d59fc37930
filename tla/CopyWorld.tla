----------------------------- MODULE CopyWorld -----------------------------
(***************************************************************************)
(* What both copy methods work on: chunks of entries, each with its        *)
(* worker, and the destination tree, with what may stand in it already,    *)
(* the calls made on it and the checks of internal/util made before.  The  *)
(* run may be cancelled, files vanish from the source, and calls fail.     *)
(***************************************************************************)
EXTENDS Integers, Sequences

CONSTANTS Kind,      \* the source: what stands at each path
          Above,     \* the directories each path lies in, below the root
          Parent,    \* the nearest of these, or Root
          Root,
          MkdirMode, \* what mkdir makes under the umask: "dir" or "lax"
          Chunk,     \* the entries of each worker, in order
          Attempts,  \* --retry-attempts
          MaxFaults  \* bound: failures, vanished files, cancellations

Paths == DOMAIN Kind
Workers == DOMAIN Chunk

(* A path may hold a directory with the mode wanted, with another private  *)
(* mode, or open to other writers; a file that compareFile finds equal to  *)
(* (or newer than) the source's or not; a link to the right place or       *)
(* astray.                                                                 *)
Dirs  == {"dir", "lax", "open"}
Links == {"link", "astray"}
Nodes == Dirs \cup Links \cup {"file", "stale", "absent"}

(* Above is the source's own nesting, and a scan lists each path once: no   *)
(* entry is in the chunks of two workers.                                  *)
ASSUME TreeAssumption ==
  /\ \A p \in Paths : Kind[p] \in {"dir", "link", "file"}
  /\ \A p \in Paths : Above[p] \subseteq {q \in Paths \ {p} : Kind[q] = "dir"}
  /\ \A p \in Paths : \A q \in Above[p] : Above[q] \subseteq Above[p]
  /\ \A p \in Paths :
       IF Above[p] = {} THEN Parent[p] = Root ELSE Parent[p] \in Above[p]
  /\ MkdirMode \in {"dir", "lax"}
  /\ \A w \in Workers : Chunk[w] \in Seq(Paths) \ {<<>>}
  /\ \A v, w \in Workers : \A i \in DOMAIN Chunk[v], j \in DOMAIN Chunk[w] :
       Chunk[v][i] = Chunk[w][j] => v = w
  /\ Root \notin Paths
  /\ Attempts \in Int /\ MaxFaults \in Nat

VARIABLES
  node,    \* what stands at each path of the destination
  ctxDone, \* the run has been cancelled
  gone,    \* files that have vanished from the source
  faults

worldVars == <<node, ctxDone, gone, faults>>

(* Whatever an earlier run or another program left: nothing lies below     *)
(* what is not a directory.                                                *)
Leftovers ==
  {n \in [Paths -> Nodes] :
     \A p \in Paths : n[p] # "absent" => \A q \in Above[p] : n[q] \in Dirs}

WorldInit ==
  /\ node \in Leftovers
  /\ ctxDone = FALSE /\ gone = {} /\ faults = 0

WorldTypeOK ==
  /\ node \in Leftovers
  /\ ctxDone \in BOOLEAN /\ faults \in 0..MaxFaults
  /\ gone \subseteq {p \in Paths : Kind[p] = "file"}

Right(p) == node[p] = Kind[p]

Works == UNCHANGED <<ctxDone, gone, faults>>

Fault == faults < MaxFaults /\ faults' = faults + 1

Vanish ==
  /\ Fault
  /\ \E p \in Paths \ gone : Kind[p] = "file" /\ gone' = gone \cup {p}
  /\ UNCHANGED <<node, ctxDone>>

Cancel ==
  /\ Fault
  /\ ~ctxDone /\ ctxDone' = TRUE
  /\ UNCHANGED <<node, gone>>

-----------------------------------------------------------------------------
(* Lstat, with ENOTDIR and the like as "error". *)
Lstat(p) == IF \E q \in Above[p] : node[q] \notin Dirs \cup {"absent"}
            THEN "error" ELSE node[p]

(* The tree n after RemoveAll and MkdirAll of p. *)
Removed(n, p) ==
  [q \in Paths |-> IF q = p \/ p \in Above[q] THEN "absent" ELSE n[q]]

Made(n, p) ==
  [q \in Paths |-> IF q \in Above[p] \cup {p} /\ n[q] = "absent" THEN MkdirMode
                   ELSE n[q]]

(* util.EnsureNoSymlinkPath and EnsureNoSymlinkAncestors; a link above p   *)
(* and what else is no directory there are refused alike.                  *)
NoSymlinkPath(p)      == Lstat(p) # "error" /\ node[p] \notin Links
NoSymlinkAncestors(p) == Parent[p] # Root => NoSymlinkPath(Parent[p])

(* util.EnsurePrivatePathPrefix allows a missing tail, EnsurePrivatePath   *)
(* does not.  (A file passes, but what follows then fails.)                *)
PrivatePrefix(ps) == \A q \in ps : node[q] \notin Links \cup {"open"}
Private(n, ps) == \A q \in ps : n[q] \in {"dir", "lax"}
=============================================================================
