----------------------------- MODULE CopyProofs -----------------------------
(***************************************************************************)
(* Proofs about CopyMethod: whatever stands in the destination, fails,     *)
(* vanishes or is cancelled, and however the workers' looks and changes    *)
(* interleave, nobody damages what another worker has put in place, and a  *)
(* chunk that returns nil is in place.                                     *)
(***************************************************************************)
EXTENDS CopyMethod, SequenceTheorems, TLAPS

-----------------------------------------------------------------------------
(* The constants *)

LEMMA TreeFacts ==
  ASSUME NEW p \in Paths
  PROVE  /\ Kind[p] \in {"dir", "link", "file"}
         /\ p \notin Above[p]
         /\ \A q \in Above[p] : q \in Paths /\ Kind[q] = "dir" /\ Above[q] \subseteq Above[p]
         /\ Parent[p] # Root => Parent[p] \in Above[p]
BY TreeAssumption

LEMMA ChunkFacts ==
  ASSUME NEW w \in Workers
  PROVE  /\ Len(Chunk[w]) \in Nat /\ 1 <= Len(Chunk[w])
         /\ DOMAIN Chunk[w] = 1..Len(Chunk[w])
         /\ \A i \in DOMAIN Chunk[w] : Chunk[w][i] \in Paths
<1>1. Chunk[w] \in Seq(Paths) /\ Chunk[w] # <<>>
  BY TreeAssumption
<1>2. QED
  BY <1>1

(* Two workers never have the same entry. *)
LEMMA ChunksDisjoint ==
  ASSUME NEW v \in Workers, NEW w \in Workers, v # w,
         NEW i \in DOMAIN Chunk[v], NEW j \in DOMAIN Chunk[w]
  PROVE  Chunk[v][i] # Chunk[w][j]
BY TreeAssumption

-----------------------------------------------------------------------------
(* The tree *)

LEMMA LeftoversDef ==
  ASSUME NEW n
  PROVE  n \in Leftovers <=>
           /\ n \in [Paths -> Nodes]
           /\ \A p \in Paths : n[p] # "absent" => \A q \in Above[p] : n[q] \in Dirs
BY DEF Leftovers

(* One path is set. *)
LEMMA SetOnly ==
  ASSUME NEW n \in Leftovers, NEW p \in Paths, NEW s \in Nodes,
         s = "absent" \/ \A q \in Above[p] : n[q] \in Dirs,
         Kind[p] # "dir" \/ n[p] \notin Dirs \/ s \in Dirs
  PROVE  [n EXCEPT ![p] = s] \in Leftovers
<1> DEFINE m == [n EXCEPT ![p] = s]
<1>1. n \in [Paths -> Nodes] /\ m \in [Paths -> Nodes]
  BY LeftoversDef
<1>2. ASSUME NEW r \in Paths, m[r] # "absent", NEW q \in Above[r]
      PROVE  m[q] \in Dirs
  <2>1. q \in Paths /\ Kind[q] = "dir" /\ r # q
    BY TreeFacts
  <2>2. CASE r = p
    <3>1. s # "absent"
      BY <1>1, <1>2, <2>2
    <3>2. n[q] \in Dirs
      BY <2>2, <3>1
    <3>3. QED
      BY <1>1, <2>1, <2>2, <3>2
  <2>3. CASE r # p
    <3>1. n[r] # "absent"
      BY <1>1, <1>2, <2>3
    <3>2. n[q] \in Dirs
      BY <3>1, LeftoversDef
    <3>3. QED
      BY <1>1, <2>1, <3>2
  <2>4. QED
    BY <2>2, <2>3
<1>3. QED
  BY <1>1, <1>2, LeftoversDef

(* What is removed is alone: nothing stands below what is no directory. *)
LEMMA RemovedOnly ==
  ASSUME NEW n \in Leftovers, NEW p \in Paths, Kind[p] # "dir" \/ n[p] \notin Dirs
  PROVE  /\ Removed(n, p) = [n EXCEPT ![p] = "absent"]
         /\ Removed(n, p) \in Leftovers
<1>1. n \in [Paths -> Nodes]
  BY LeftoversDef
<1>2. ASSUME NEW q \in Paths, p \in Above[q]
      PROVE  n[q] = "absent"
  <2>1. Kind[p] = "dir"
    BY <1>2, TreeFacts
  <2>2. QED
    BY <1>2, <2>1, LeftoversDef
<1>3. Removed(n, p) = [n EXCEPT ![p] = "absent"]
  BY <1>1, <1>2 DEF Removed
<1>4. "absent" \in Nodes
  BY DEF Nodes
<1>5. QED
  BY <1>3, <1>4, SetOnly

(* What is made: the path, and what is missing above it. *)
LEMMA MadeOnly ==
  ASSUME NEW n \in Leftovers, NEW p \in Paths,
         \A q \in Above[p] : n[q] \in Dirs \cup {"absent"}
  PROVE  /\ Made(n, p) \in Leftovers
         /\ \A q \in Paths :
              \/ Made(n, p)[q] = n[q]
              \/ q \in Above[p] \cup {p} /\ n[q] = "absent" /\ Made(n, p)[q] = MkdirMode
         /\ \A q \in Above[p] : Made(n, p)[q] \in Dirs
         /\ n[p] \in Dirs \cup {"absent"} => Made(n, p)[p] \in Dirs
         /\ n[p] \notin Dirs \cup {"absent"} => Made(n, p)[p] = n[p]
         /\ n[p] = "absent" => Made(n, p)[p] = MkdirMode
<1> DEFINE m == Made(n, p)
<1>1. n \in [Paths -> Nodes] /\ MkdirMode \in Dirs /\ "absent" \notin Dirs
  BY LeftoversDef, TreeAssumption DEF Dirs
<1>2. \A q \in Paths : m[q] = IF q \in Above[p] \cup {p} /\ n[q] = "absent" THEN MkdirMode
                              ELSE n[q]
  BY DEF Made
<1>3. m \in [Paths -> Nodes]
  BY <1>1 DEF Made, Nodes, Dirs
<1>4. \A q \in Above[p] : q \in Paths /\ Above[q] \subseteq Above[p]
  BY TreeFacts
<1>5. \A q \in Above[p] : m[q] \in Dirs
  BY <1>1, <1>2, <1>4
<1>6. ASSUME NEW r \in Paths, m[r] # "absent", NEW q \in Above[r]
      PROVE  m[q] \in Dirs
  <2>1. q \in Paths
    BY TreeFacts
  <2>2. CASE r \in Above[p] \cup {p}
    BY <1>4, <1>5, <2>2
  <2>3. CASE r \notin Above[p] \cup {p}
    <3>1. n[r] # "absent"
      BY <1>2, <1>6, <2>3
    <3>2. n[q] \in Dirs
      BY <3>1, LeftoversDef
    <3>3. QED
      BY <1>1, <1>2, <2>1, <3>2
  <2>4. QED
    BY <2>2, <2>3
<1>7. m \in Leftovers
  BY <1>3, <1>6, LeftoversDef
<1>8. QED
  BY <1>1, <1>2, <1>5, <1>7

-----------------------------------------------------------------------------
(* What a step of one worker, at entry p, may do to the tree: make missing *)
(* directories, and change p as long as it is not right.                   *)
Touched(p) ==
  \A q \in Paths :
    \/ node'[q] = node[q]
    \/ Kind[q] = "dir" /\ node[q] = "absent" /\ node'[q] \in Dirs
    \/ /\ q = p /\ node[q] # Kind[q]
       /\ Kind[q] = "dir" => node'[q] \in Dirs \/ node[q] \notin Dirs \cup {"absent"}
       /\ Kind[q] # "link" => node'[q] \notin Links

(* What stays through such a step. *)
LEMMA TouchedKeeps ==
  ASSUME NEW p, Touched(p), NEW q \in Paths
  PROVE  /\ Kind[q] = "dir" /\ node[q] \in Dirs => node'[q] \in Dirs
         /\ Kind[q] = "dir" /\ node[q] \in Dirs \cup {"absent"}
              => node'[q] \in Dirs \cup {"absent"}
         /\ node[q] = Kind[q] => node'[q] = Kind[q]
         /\ Kind[q] # "link" /\ node[q] \notin Links => node'[q] \notin Links
         /\ Kind[q] # "dir" /\ q # p => node'[q] = node[q]
         /\ q # p /\ node[q] \notin Dirs \cup {"absent"} => node'[q] = node[q]
BY DEF Touched, Dirs, Links

LEMMA NothingTouched ==
  ASSUME NEW p, UNCHANGED node
  PROVE  Touched(p)
BY DEF Touched

(* The three kinds of change. *)
LEMMA RemoveTouches ==
  ASSUME node \in Leftovers, NEW p \in Paths, node' = Removed(node, p),
         node[p] # Kind[p],
         Kind[p] = "dir" => node[p] \notin Dirs \cup {"absent"}
  PROVE  node' \in Leftovers /\ Touched(p)
<1>1. Kind[p] # "dir" \/ node[p] \notin Dirs
  OBVIOUS
<1>2. node' \in Leftovers /\ node' = [node EXCEPT ![p] = "absent"]
  BY <1>1, RemovedOnly
<1>3. node \in [Paths -> Nodes]
  BY LeftoversDef
<1>4. QED
  BY <1>2, <1>3 DEF Touched, Links

LEMMA MakeTouches ==
  ASSUME node \in Leftovers, NEW p \in Paths, NEW d \in Paths, Kind[d] = "dir",
         node' = Made(node, d), \A q \in Above[d] : node[q] \in Dirs \cup {"absent"}
  PROVE  node' \in Leftovers /\ Touched(p)
<1>1. /\ node' \in Leftovers
      /\ \A q \in Paths :
              \/ node'[q] = node[q]
              \/ q \in Above[d] \cup {d} /\ node[q] = "absent" /\ node'[q] = MkdirMode
  BY MadeOnly
<1>2. \A q \in Above[d] \cup {d} : Kind[q] = "dir"
  BY TreeFacts
<1>3. MkdirMode \in Dirs
  BY TreeAssumption DEF Dirs
<1>4. QED
  BY <1>1, <1>2, <1>3 DEF Touched

LEMMA SetTouches ==
  ASSUME node \in Leftovers, NEW p \in Paths, NEW s \in Nodes, node' = [node EXCEPT ![p] = s],
         s = "absent" \/ \A q \in Above[p] : node[q] \in Dirs,
         Kind[p] = "dir" => s \in Dirs,
         node[p] # Kind[p] \/ s = Kind[p],
         Kind[p] # "link" => s \notin Links
  PROVE  node' \in Leftovers /\ Touched(p)
<1>1. node' \in Leftovers
  BY SetOnly
<1>2. node \in [Paths -> Nodes]
  BY LeftoversDef
<1>3. QED
  BY <1>1, <1>2 DEF Touched

-----------------------------------------------------------------------------
(* The native copier: the changes of the tree *)

LEMMA NativeWorld ==
  /\ Native!Leftovers = Leftovers
  /\ \A n, p : Native!Removed(n, p) = Removed(n, p)
  /\ \A n, p : Native!Made(n, p) = Made(n, p)
<1>1. Native!Leftovers = Leftovers
  BY DEF Native!Leftovers, Leftovers, Native!Paths, Paths, Native!Nodes, Nodes,
         Native!Dirs, Dirs, Native!Links, Links
<1>2. \A n, p : Native!Removed(n, p) = Removed(n, p)
  BY DEF Native!Removed, Removed, Native!Paths, Paths
<1>3. \A n, p : Native!Made(n, p) = Made(n, p)
  BY DEF Native!Made, Made, Native!Paths, Paths
<1>4. QED
  BY <1>1, <1>2, <1>3

LEMMA NativeTyped ==
  ASSUME Native!TypeOK
  PROVE  /\ node \in Leftovers /\ node \in [Paths -> Nodes]
         /\ job \in [Workers -> Native!Jobs]
         /\ \A w \in Workers : /\ Native!Entry(w) \in Paths
                               /\ job[w].at \in DOMAIN Chunk[w]
                               /\ Native!Entry(w) = Chunk[w][job[w].at]
<1>1. node \in Leftovers /\ job \in [Workers -> Native!Jobs]
  BY NativeWorld DEF Native!TypeOK, Native!WorldTypeOK, Native!Workers, Workers
<1>2. ASSUME NEW w \in Workers
      PROVE  job[w].at \in DOMAIN Chunk[w] /\ Chunk[w][job[w].at] \in Paths
  <2>1. job[w].at \in 1..Len(Chunk[w])
    BY DEF Native!TypeOK, Native!Workers, Workers
  <2>2. QED
    BY <2>1, ChunkFacts
<1>3. QED
  BY <1>1, <1>2, LeftoversDef DEF Native!Entry

(* Where Lstat succeeds there is no obstacle above. *)
LEMMA NativeLstat ==
  ASSUME Native!TypeOK, NEW p \in Paths
  PROVE  /\ Native!Lstat(p) # "error" =>
              /\ \A q \in Above[p] : node[q] \in Dirs \cup {"absent"}
              /\ Native!Lstat(p) = node[p]
         /\ Native!Lstat(p) \in Nodes \cup {"error"}
<1>1. node[p] \in Nodes
  BY NativeTyped
<1>2. QED
  BY <1>1 DEF Native!Lstat, Native!Dirs, Dirs

(* A worker's action on the tree. *)
LEMMA NativeTouches ==
  ASSUME Native!TypeOK, Native!Matches, NEW w \in Workers, NEW p, p = Native!Entry(w),
         Native!Worker(w) \/ Native!CallFails(w) \/ Native!NoSpace(w)
  PROVE  node' \in Leftovers /\ Touched(p)
<1>1. /\ p \in Paths /\ node \in Leftovers /\ Native!LstatHolds(w) /\ Native!StepsFit(w)
      /\ Kind[p] \in {"dir", "link", "file"} /\ node[p] \in Nodes
  BY NativeTyped, TreeFacts DEF Native!Matches, Native!Workers, Workers
<1>2. CASE UNCHANGED node
  BY <1>1, <1>2, NothingTouched
<1>3. CASE Native!Remove(w)
  <2>1. job[w].pc = "remove" /\ node' = Removed(node, p)
    BY <1>3, NativeWorld DEF Native!Remove
  <2>2. Kind[p] = "dir" => node[p] \notin Dirs \cup {"absent"}
    BY <1>1, <2>1 DEF Native!LstatHolds, Native!At, Native!Dirs, Dirs
  <2>3. Kind[p] # "dir" => node[p] # Kind[p]
    BY <1>1, <2>1 DEF Native!LstatHolds, Native!Right, Native!Passed
  <2>4. node[p] # Kind[p]
    BY <2>2, <2>3 DEF Dirs
  <2>5. QED
    BY <1>1, <2>1, <2>2, <2>4, RemoveTouches
<1>4. CASE Native!Mkdir(w)
  <2>1. CASE node' = Made(node, p) /\ Native!Lstat(p) \in Dirs \cup {"absent"}
    <3>1. Kind[p] = "dir"
      BY <1>1, <1>4 DEF Native!Mkdir, Native!StepsFit
    <3>2. \A q \in Above[p] : node[q] \in Dirs \cup {"absent"}
      BY <1>1, <2>1, NativeLstat DEF Dirs
    <3>3. QED
      BY <1>1, <2>1, <3>1, <3>2, MakeTouches
  <2>2. QED
    BY <1>1, <1>2, <1>4, <2>1, NativeWorld DEF Native!Mkdir, Native!Dirs, Dirs
<1>5. CASE Native!Chmod(w)
  <2>1. CASE node' = [node EXCEPT ![p] = "dir"] /\ Native!Lstat(p) \in Dirs
    <3>1. Kind[p] = "dir"
      BY <1>1, <1>5 DEF Native!Chmod, Native!StepsFit
    <3>2. node[p] \in Dirs
      BY <1>1, <2>1, NativeLstat DEF Dirs
    <3>3. \A q \in Above[p] : node[q] \in Dirs
      BY <1>1, <3>2, LeftoversDef DEF Dirs
    <3>4. QED
      BY <1>1, <2>1, <3>1, <3>2, <3>3, SetTouches DEF Dirs, Links, Nodes
  <2>2. QED
    BY <1>1, <1>2, <1>5, <2>1 DEF Native!Chmod, Native!Dirs, Dirs
<1>6. CASE Native!Parents(w)
  <2>1. job[w].pc = "parents" /\ Native!Lstat(p) # "error"
    BY <1>1, <1>6 DEF Native!Parents, Native!LstatHolds
  <2>2. \A q \in Above[p] : node[q] \in Dirs \cup {"absent"}
    BY <1>1, <2>1, NativeLstat
  <2>3. CASE Parent[p] = Root
    BY <1>1, <1>2, <1>6, <2>3 DEF Native!Parents
  <2>4. CASE Parent[p] # Root
    <3>1. /\ Parent[p] \in Above[p] /\ Parent[p] \in Paths /\ Kind[Parent[p]] = "dir"
          /\ Above[Parent[p]] \subseteq Above[p]
      BY <1>1, <2>4, TreeFacts
    <3>2. Native!Lstat(Parent[p]) # "error"
      BY <2>2, <3>1 DEF Native!Lstat, Native!Dirs, Dirs, Nodes, Links
    <3>3. Native!Lstat(Parent[p]) \in Dirs \cup {"absent"}
      BY <2>2, <3>1, <3>2, NativeLstat
    <3>4. CASE node' = Made(node, Parent[p])
      BY <1>1, <2>2, <3>1, <3>4, MakeTouches
    <3>5. QED
      BY <1>1, <1>2, <1>6, <2>4, <3>3, <3>4, NativeWorld
      DEF Native!Parents, Native!Dirs, Dirs
  <2>5. QED
    BY <2>3, <2>4
<1>7. CASE Native!MakeLink(w)
  <2>1. CASE /\ node' = [node EXCEPT ![p] = "link"] /\ node[p] = "absent"
             /\ \A q \in Above[p] : node[q] \in Dirs
    <3>1. Kind[p] = "link"
      BY <1>1, <1>7 DEF Native!MakeLink, Native!At
    <3>2. QED
      BY <1>1, <2>1, <3>1, SetTouches DEF Nodes, Links
  <2>2. QED
    BY <1>1, <1>2, <1>7, <2>1 DEF Native!MakeLink, Native!Private, Dirs
<1>8. CASE Native!Rename(w)
  <2>1. CASE node' = [node EXCEPT ![p] = "file"]
    <3>1. Kind[p] = "file" /\ \A q \in Above[p] : node[q] \in Dirs
      BY <1>1, <1>8 DEF Native!Rename, Native!StepsFit, Native!LstatHolds, Native!Dirs, Dirs
    <3>2. QED
      BY <1>1, <2>1, <3>1, SetTouches DEF Nodes, Links
  <2>2. QED
    BY <1>1, <1>2, <1>8, <2>1 DEF Native!Rename
<1>9. CASE Native!CallFails(w)
  <2>1. CASE job[w].pc = "rename" /\ node' = [node EXCEPT ![p] = "absent"]
    <3>1. Kind[p] = "file" /\ node[p] # "file"
      BY <1>1, <2>1 DEF Native!StepsFit, Native!LstatHolds, Native!Right, Native!Passed
    <3>2. QED
      BY <1>1, <2>1, <3>1, SetTouches DEF Nodes, Links
  <2>2. QED
    BY <1>1, <1>2, <1>9, <2>1 DEF Native!CallFails
<1>10. QED
  BY <1>2, <1>3, <1>4, <1>5, <1>6, <1>7, <1>8, <1>9
  DEF Native!Worker, Native!NoSpace, Native!Start, Native!Route, Native!LstatDir,
      Native!LstatLink, Native!LstatFile, Native!SourceGone, Native!MakeFile, Native!Judge,
      Native!Retry

-----------------------------------------------------------------------------
(* The native copier: the workers *)

NativePcs == Native!Passed \cup {"idle", "route", "judge", "delay", "nil", "error"}

Fits(w) ==
  Native!LstatHolds(w) /\ Native!StepsFit(w) /\ (ctxDone \/ Native!BehindSettled(w))

LEMMA NativeJob ==
  ASSUME Native!TypeOK, NEW w \in Workers
  PROVE  /\ job[w] \in Native!Jobs
         /\ job[w].pc \in NativePcs /\ job[w].at \in Nat /\ job[w].seen \in Nodes
         /\ job[w].failed \subseteq Paths /\ job[w].tries \in Nat /\ job[w].stop \in BOOLEAN
         /\ Native!Nodes = Nodes
         /\ job[w].pc = "nil" => job[w].failed = {}
<1>1. Native!Nodes = Nodes
  BY DEF Native!Nodes, Nodes, Native!Dirs, Dirs, Native!Links, Links
<1>2. job[w] \in Native!Jobs
  BY NativeTyped
<1>3. job[w].pc = "nil" => job[w].failed = {}
  BY DEF Native!TypeOK, Native!Workers, Workers
<1>4. QED
  BY <1>1, <1>2, <1>3 DEF Native!Jobs, NativePcs, Native!Paths, Paths

(* The shapes an action gives to the worker's record. *)
LEMMA NativeSet ==
  ASSUME Native!TypeOK, NEW w \in Workers, NEW r \in Native!Jobs, job' = [job EXCEPT ![w] = r]
  PROVE  /\ job' \in [Workers -> Native!Jobs]
         /\ \A v \in Workers : v # w => job'[v] = job[v]
         /\ job'[w] = r
<1>1. job \in [Workers -> Native!Jobs]
  BY NativeTyped
<1>2. QED
  BY <1>1

LEMMA NativeSees ==
  ASSUME Native!TypeOK, NEW w \in Workers, NEW s \in NativePcs, NEW x \in Nodes,
         job' = [job EXCEPT ![w].pc = s, ![w].seen = x]
  PROVE  /\ job' \in [Workers -> Native!Jobs]
         /\ \A v \in Workers : v # w => job'[v] = job[v]
         /\ job'[w].pc = s /\ job'[w].seen = x /\ job'[w].failed = job[w].failed
         /\ job'[w].at = job[w].at /\ job'[w].stop = job[w].stop
<1> DEFINE r == [job[w] EXCEPT !.pc = s, !.seen = x]
<1>1. job \in [Workers -> Native!Jobs] /\ job[w] \in Native!Jobs /\ Native!Nodes = Nodes
  BY NativeTyped, NativeJob
<1>2. r \in Native!Jobs
  BY <1>1 DEF Native!Jobs, NativePcs
<1>3. job' = [job EXCEPT ![w] = r]
  BY <1>1
<1>4. /\ r.pc = s /\ r.seen = x /\ r.failed = job[w].failed
      /\ r.at = job[w].at /\ r.stop = job[w].stop
  BY <1>1 DEF Native!Jobs
<1> HIDE DEF r
<1>5. QED
  BY <1>2, <1>3, <1>4, NativeSet

LEMMA NativeGoes ==
  ASSUME Native!TypeOK, NEW w \in Workers, NEW s \in NativePcs, Native!Go(w, s)
  PROVE  /\ job' \in [Workers -> Native!Jobs]
         /\ \A v \in Workers : v # w => job'[v] = job[v]
         /\ job'[w].pc = s /\ job'[w].seen = job[w].seen /\ job'[w].failed = job[w].failed
         /\ job'[w].at = job[w].at /\ job'[w].stop = job[w].stop
<1> DEFINE r == [job[w] EXCEPT !.pc = s]
<1>1. job \in [Workers -> Native!Jobs] /\ job[w] \in Native!Jobs
  BY NativeTyped, NativeJob
<1>2. r \in Native!Jobs
  BY <1>1 DEF Native!Jobs, NativePcs
<1>3. job' = [job EXCEPT ![w] = r]
  BY <1>1 DEF Native!Go
<1>4. /\ r.pc = s /\ r.seen = job[w].seen /\ r.failed = job[w].failed
      /\ r.at = job[w].at /\ r.stop = job[w].stop
  BY <1>1 DEF Native!Jobs
<1> HIDE DEF r
<1>5. QED
  BY <1>2, <1>3, <1>4, NativeSet

LEMMA NativeLeaves ==
  ASSUME Native!TypeOK, NEW w \in Workers, NEW bad \in BOOLEAN,
         Native!Leave(w, bad)
  PROVE  /\ job' \in [Workers -> Native!Jobs]
         /\ \A v \in Workers : v # w => job'[v] = job[v]
         /\ job'[w].failed = job[w].failed \cup (IF bad THEN {Native!Entry(w)} ELSE {})
         /\ job'[w].seen = "absent" /\ job'[w].stop = job[w].stop
         /\ job[w].at = Len(Chunk[w]) => job'[w].pc = "judge" /\ job'[w].at = 1
         /\ job[w].at # Len(Chunk[w]) => job'[w].pc = "route" /\ job'[w].at = job[w].at + 1
         /\ job'[w].at \in DOMAIN Chunk[w]
<1> DEFINE f == IF bad THEN job[w].failed \cup {Native!Entry(w)} ELSE job[w].failed
           s == IF job[w].at = Len(Chunk[w]) THEN "judge" ELSE "route"
           a == IF job[w].at = Len(Chunk[w]) THEN 1 ELSE job[w].at + 1
           r == [job[w] EXCEPT !.failed = f, !.seen = "absent", !.pc = s, !.at = a]
<1>1. /\ job \in [Workers -> Native!Jobs] /\ job[w] \in Native!Jobs /\ Native!Nodes = Nodes
      /\ job[w].failed \in SUBSET Paths /\ Native!Entry(w) \in Paths
      /\ job[w].at \in 1..Len(Chunk[w]) /\ Len(Chunk[w]) \in Nat
      /\ DOMAIN Chunk[w] = 1..Len(Chunk[w])
  BY NativeTyped, NativeJob, ChunkFacts
<1>2. a \in 1..Len(Chunk[w])
  BY <1>1
<1>3. f \in SUBSET Paths /\ f = job[w].failed \cup (IF bad THEN {Native!Entry(w)} ELSE {})
  BY <1>1
<1>4. s \in NativePcs /\ a \in Nat /\ "absent" \in Nodes
  BY <1>1, <1>2 DEF NativePcs, Nodes
<1>5. job' = [job EXCEPT ![w] = r]
  BY <1>1 DEF Native!Leave
<1> HIDE DEF f, s, a
<1>6. r \in Native!Jobs
  BY <1>1, <1>3, <1>4 DEF Native!Jobs, NativePcs, Native!Paths, Paths
<1>7. job'[w] = r
  BY <1>1, <1>5
<1>8. r.failed = f /\ r.seen = "absent" /\ r.pc = s /\ r.at = a /\ r.stop = job[w].stop
  BY <1>1 DEF Native!Jobs
<1>9. job' \in [Workers -> Native!Jobs] /\ \A v \in Workers : v # w => job'[v] = job[v]
  BY <1>1, <1>5, <1>6
<1>10. QED
  BY <1>1, <1>2, <1>3, <1>7, <1>8, <1>9 DEF s, a

LEMMA NativeBreaks ==
  ASSUME Native!TypeOK, NEW w \in Workers, NEW errs \in SUBSET Paths,
         Native!Break(w, errs)
  PROVE  /\ job' \in [Workers -> Native!Jobs]
         /\ \A v \in Workers : v # w => job'[v] = job[v]
         /\ job'[w].failed = job[w].failed \cup errs
         /\ job'[w].seen = "absent" /\ (job'[w].stop <=> errs # {})
         /\ job'[w].pc = "judge" /\ job'[w].at = 1 /\ job'[w].at \in DOMAIN Chunk[w]
<1> DEFINE f == job[w].failed \cup errs
           b == errs # {}
           r == [job[w] EXCEPT !.failed = f, !.stop = b, !.seen = "absent", !.pc = "judge",
                               !.at = 1]
<1>1. /\ job \in [Workers -> Native!Jobs] /\ job[w] \in Native!Jobs /\ Native!Nodes = Nodes
      /\ job[w].failed \in SUBSET Paths /\ 1 \in DOMAIN Chunk[w]
  BY NativeTyped, NativeJob, ChunkFacts
<1>2. f \in SUBSET Paths /\ b \in BOOLEAN /\ "absent" \in Nodes /\ "judge" \in NativePcs
  BY <1>1 DEF NativePcs, Nodes
<1>3. job' = [job EXCEPT ![w] = r]
  BY <1>1 DEF Native!Break
<1> HIDE DEF f, b
<1>4. r \in Native!Jobs
  BY <1>1, <1>2 DEF Native!Jobs, NativePcs, Native!Paths, Paths
<1>5. job'[w] = r
  BY <1>1, <1>3
<1>6. r.failed = f /\ r.seen = "absent" /\ r.pc = "judge" /\ r.at = 1 /\ r.stop = b
  BY <1>1 DEF Native!Jobs
<1>7. job' \in [Workers -> Native!Jobs] /\ \A v \in Workers : v # w => job'[v] = job[v]
  BY <1>1, <1>3, <1>4
<1>8. job'[w].stop = b
  BY <1>5, <1>6
<1>9. job'[w].stop <=> errs # {}
  BY <1>8, Zenon DEF b
<1>10. QED
  BY <1>1, <1>5, <1>6, <1>7, <1>9 DEF f

(* A worker that does not move keeps what it counts on, whatever another   *)
(* one does at an entry p of its own.                                      *)
LEMMA NativeKept ==
  ASSUME Native!TypeOK, NEW v \in Workers, Fits(v), job'[v] = job[v],
         NEW p, p # Native!Entry(v), Touched(p),
         gone \subseteq gone', ctxDone => ctxDone'
  PROVE  Fits(v)'
<1>1. /\ Native!Entry(v) \in Paths /\ Native!LstatHolds(v) /\ Native!StepsFit(v)
      /\ ctxDone \/ Native!BehindSettled(v)
      /\ DOMAIN Chunk[v] = 1..Len(Chunk[v]) /\ job[v].at \in DOMAIN Chunk[v]
      /\ Len(Chunk[v]) \in Nat /\ \A i \in DOMAIN Chunk[v] : Chunk[v][i] \in Paths
  BY NativeTyped, ChunkFacts DEF Fits
<1>2. PICK e \in Paths : e = Native!Entry(v)
  BY <1>1
<1>3. Native!Entry(v)' = e
  BY <1>2 DEF Native!Entry
<1>4. /\ Kind[e] = "dir" /\ node[e] \in Dirs => node'[e] \in Dirs
      /\ node[e] = Kind[e] => node'[e] = Kind[e]
      /\ Kind[e] # "link" /\ node[e] \notin Links => node'[e] \notin Links
      /\ Kind[e] # "dir" => node'[e] = node[e]
      /\ node[e] \notin Dirs \cup {"absent"} => node'[e] = node[e]
  BY <1>2, TouchedKeeps
<1>5. /\ \A q \in Above[e] : q \in Paths /\ Kind[q] = "dir"
      /\ Kind[e] \in {"dir", "link", "file"}
  BY TreeFacts
<1>6. \A q \in Above[e] : /\ node[q] \in Dirs => node'[q] \in Dirs
                          /\ node[q] \in Dirs \cup {"absent"} => node'[q] \in Dirs \cup {"absent"}
  BY <1>5, TouchedKeeps
<1>7. Native!StepsFit(v)'
  BY <1>1, <1>2, <1>3 DEF Native!StepsFit
<1>8. Native!LstatHolds(v)'
  <2>1. /\ job'[v].pc \in Native!Passed /\ Kind[e] # "link" => node'[e] \notin Links
        /\ job'[v].pc = "remove" /\ Kind[e] = "dir" => node'[e] \notin Dirs \cup {"absent"}
        /\ job'[v].pc \in Native!Passed \ {"lstat"} /\ Kind[e] # "dir" => node'[e] # Kind[e]
        /\ job'[v].pc = "chmod" /\ Kind[e] = "dir" /\ job'[v].seen = "dir" => node'[e] = Kind[e]
    BY <1>1, <1>2, <1>4
    DEF Native!LstatHolds, Native!At, Native!Right, Native!Dirs, Dirs, Native!Links, Links
  <2>2. /\ job'[v].pc = "parents" => \A q \in Above[e] : node'[q] \in Dirs \cup {"absent"}
        /\ job'[v].pc = "rename" \/ (job'[v].pc = "remove" /\ Kind[e] = "file")
             => \A q \in Above[e] : node'[q] \in Dirs
    <3>1. job[v].pc = "parents" => \A q \in Above[e] : node[q] \in Dirs \cup {"absent"}
      BY <1>1, <1>2, NativeLstat DEF Native!LstatHolds
    <3>2. job[v].pc = "rename" \/ (job[v].pc = "remove" /\ Kind[e] = "file")
             => \A q \in Above[e] : node[q] \in Dirs
      BY <1>1, <1>2 DEF Native!LstatHolds, Native!At, Native!Dirs, Dirs
    <3>3. QED
      BY <1>6, <3>1, <3>2
  <2>3. job'[v].pc = "parents" => Native!Lstat(e)' # "error"
    <3>1. job'[v].pc = "parents" => Native!Lstat(e)' = node'[e]
      BY <2>2 DEF Native!Lstat, Native!Dirs, Dirs
    <3>2. node'[e] # "error"
      <4>1. node[e] \in Nodes /\ MkdirMode \in Dirs
        BY NativeTyped, TreeAssumption DEF Dirs
      <4>2. QED
        BY <1>2, <4>1 DEF Touched, Nodes, Dirs, Links
    <3>3. QED
      BY <3>1, <3>2
  <2>4. QED
    BY <1>3, <2>1, <2>2, <2>3
    DEF Native!LstatHolds, Native!At, Native!Right, Native!Dirs, Dirs, Native!Links, Links
<1>9. ctxDone' \/ Native!BehindSettled(v)'
  <2>1. CASE Native!BehindSettled(v) /\ ~job[v].stop
    <3>1. Native!Behind(v)' = Native!Behind(v)
      BY DEF Native!Behind
    <3>2. ASSUME NEW i \in Native!Behind(v)
          PROVE  \/ node'[Chunk[v][i]] = Kind[Chunk[v][i]] \/ Chunk[v][i] \in gone'
                 \/ Chunk[v][i] \in job'[v].failed
      <4>1. Chunk[v][i] \in Paths
        BY <1>1 DEF Native!Behind
      <4>2. \/ node[Chunk[v][i]] = Kind[Chunk[v][i]] \/ Chunk[v][i] \in gone
            \/ Chunk[v][i] \in job[v].failed
        BY <2>1 DEF Native!BehindSettled, Native!Right
      <4>3. QED
        BY <4>1, <4>2, TouchedKeeps
    <3>3. QED
      BY <3>1, <3>2 DEF Native!BehindSettled, Native!Right
  <2>2. QED
    BY <1>1, <2>1 DEF Native!BehindSettled
<1>10. QED
  BY <1>7, <1>8, <1>9 DEF Fits

(* The entry is left behind: settled, or among the errors. *)
LEMMA NativeLeft ==
  ASSUME Native!TypeOK, NEW w \in Workers, Fits(w), NEW bad \in BOOLEAN, Native!Leave(w, bad),
         NEW p, p = Native!Entry(w), Touched(p), gone \subseteq gone', ctxDone => ctxDone',
         job[w].pc \in Native!Passed \cup {"route"},
         bad \/ node'[p] = Kind[p] \/ p \in gone'
  PROVE  Fits(w)'
<1>1. /\ p \in Paths /\ p = Chunk[w][job[w].at] /\ Native!StepsFit(w)
      /\ ctxDone \/ Native!BehindSettled(w)
      /\ DOMAIN Chunk[w] = 1..Len(Chunk[w]) /\ job[w].at \in 1..Len(Chunk[w])
      /\ Len(Chunk[w]) \in Nat /\ \A i \in DOMAIN Chunk[w] : Chunk[w][i] \in Paths
  BY NativeTyped, ChunkFacts DEF Fits
<1>2. /\ job'[w].failed = job[w].failed \cup (IF bad THEN {p} ELSE {})
      /\ job'[w].seen = "absent" /\ job'[w].stop = job[w].stop
      /\ job[w].at = Len(Chunk[w]) => job'[w].pc = "judge" /\ job'[w].at = 1
      /\ job[w].at # Len(Chunk[w]) => job'[w].pc = "route" /\ job'[w].at = job[w].at + 1
  BY NativeLeaves
<1>3. job'[w].pc \in {"judge", "route"} /\ job[w].pc \notin {"judge", "error"}
  BY <1>2 DEF Native!Passed
<1>4. ~job[w].stop
  BY <1>1, <1>3 DEF Native!StepsFit
<1>5. Native!StepsFit(w)'
  BY <1>2, <1>3, <1>4 DEF Native!StepsFit
<1>6. Native!LstatHolds(w)'
  BY <1>3 DEF Native!LstatHolds, Native!At, Native!Passed
<1>7. ctxDone' \/ Native!BehindSettled(w)'
  <2>1. CASE Native!BehindSettled(w)
    <3>1. Native!Behind(w) = 1..job[w].at - 1
      BY <1>3 DEF Native!Behind, Native!Passed
    <3>2. ASSUME NEW i \in 1..job[w].at
          PROVE  \/ node'[Chunk[w][i]] = Kind[Chunk[w][i]] \/ Chunk[w][i] \in gone'
                 \/ Chunk[w][i] \in job'[w].failed
      <4>1. CASE i = job[w].at
        BY <1>1, <1>2, <4>1
      <4>2. CASE i # job[w].at
        <5>1. i \in 1..job[w].at - 1 /\ Chunk[w][i] \in Paths
          BY <1>1, <4>2
        <5>2. \/ node[Chunk[w][i]] = Kind[Chunk[w][i]] \/ Chunk[w][i] \in gone
              \/ Chunk[w][i] \in job[w].failed
          BY <1>4, <2>1, <3>1, <5>1 DEF Native!BehindSettled, Native!Right
        <5>3. QED
          BY <1>2, <5>1, <5>2, TouchedKeeps
      <4>3. QED
        BY <4>1, <4>2
    <3>3. Native!Behind(w)' = 1..job[w].at
      <4>1. CASE job[w].at = Len(Chunk[w])
        <5>1. Native!Behind(w)' = DOMAIN Chunk[w]
          BY <1>2, <4>1 DEF Native!Behind, Native!Passed
        <5>2. QED
          BY <1>1, <4>1, <5>1
      <4>2. CASE job[w].at # Len(Chunk[w])
        <5>1. job'[w].pc = "route" /\ job'[w].at - 1 = job[w].at
          BY <1>1, <1>2, <4>2
        <5>2. QED
          BY <5>1 DEF Native!Behind
      <4>3. QED
        BY <4>1, <4>2
    <3>4. QED
      BY <3>2, <3>3 DEF Native!BehindSettled, Native!Right
  <2>2. QED
    BY <1>1, <2>1
<1>8. QED
  BY <1>5, <1>6, <1>7 DEF Fits

(* The entry stays in hand: what the next step counts on has been seen. *)
LEMMA NativeGone ==
  ASSUME Native!TypeOK, NEW w \in Workers, Fits(w), NEW p, p = Native!Entry(w), Touched(p),
         gone \subseteq gone', ctxDone => ctxDone', node' \in Leftovers,
         job[w].pc \in Native!Passed \cup {"route"},
         job'[w].pc \in Native!Passed, job'[w].at = job[w].at,
         job'[w].failed = job[w].failed, job'[w].stop = job[w].stop,
         Kind[p] # "link" => node'[p] \notin Links,
         job'[w].pc = "remove" /\ Kind[p] = "dir" => node'[p] \notin Dirs \cup {"absent"},
         job'[w].pc # "lstat" /\ Kind[p] # "dir" => node'[p] # Kind[p],
         job'[w].pc = "chmod" /\ job'[w].seen = "dir" => node'[p] = Kind[p],
         job'[w].pc = "parents" => \A q \in Above[p] : node'[q] \in Dirs \cup {"absent"},
         job'[w].pc = "rename" \/ (job'[w].pc = "remove" /\ Kind[p] = "file")
           => \A q \in Above[p] : node'[q] \in Dirs,
         job'[w].pc \in {"mkdir", "chmod"} => Kind[p] = "dir",
         job'[w].pc \in {"parents", "make"} => Kind[p] # "dir",
         job'[w].pc = "rename" => Kind[p] = "file",
         job'[w].seen # "absent" =>
           \/ job'[w].pc = "chmod"
           \/ Kind[p] = "file" /\ job'[w].pc \in {"remove", "make", "rename"}
  PROVE  Fits(w)'
<1>1. /\ p \in Paths /\ p = Chunk[w][job[w].at] /\ Native!StepsFit(w)
      /\ ctxDone \/ Native!BehindSettled(w)
      /\ node' \in [Paths -> Nodes]
      /\ DOMAIN Chunk[w] = 1..Len(Chunk[w]) /\ job[w].at \in 1..Len(Chunk[w])
      /\ Len(Chunk[w]) \in Nat /\ \A i \in DOMAIN Chunk[w] : Chunk[w][i] \in Paths
  BY NativeTyped, ChunkFacts, LeftoversDef DEF Fits
<1>2. Native!Entry(w)' = p
  BY <1>1 DEF Native!Entry
<1>3. ~job[w].stop
  BY <1>1 DEF Native!StepsFit, Native!Passed
<1>4. Native!StepsFit(w)'
  BY <1>2, <1>3 DEF Native!StepsFit, Native!Passed
<1>5. Native!LstatHolds(w)'
  <2>1. job'[w].pc = "parents" => Native!Lstat(p)' # "error"
    <3>1. job'[w].pc = "parents" => Native!Lstat(p)' = node'[p]
      BY DEF Native!Lstat, Native!Dirs, Dirs
    <3>2. node'[p] # "error"
      BY <1>1 DEF Nodes, Dirs, Links
    <3>3. QED
      BY <3>1, <3>2
  <2>2. QED
    BY <1>2, <2>1
    DEF Native!LstatHolds, Native!At, Native!Right, Native!Dirs, Dirs, Native!Links, Links
<1>6. ctxDone' \/ Native!BehindSettled(w)'
  <2>1. CASE Native!BehindSettled(w)
    <3>1. Native!Behind(w) = 1..job[w].at - 1 /\ Native!Behind(w)' = 1..job[w].at - 1
      BY DEF Native!Behind, Native!Passed
    <3>2. ASSUME NEW i \in 1..job[w].at - 1
          PROVE  \/ node'[Chunk[w][i]] = Kind[Chunk[w][i]] \/ Chunk[w][i] \in gone'
                 \/ Chunk[w][i] \in job'[w].failed
      <4>1. Chunk[w][i] \in Paths
        BY <1>1
      <4>2. \/ node[Chunk[w][i]] = Kind[Chunk[w][i]] \/ Chunk[w][i] \in gone
            \/ Chunk[w][i] \in job[w].failed
        BY <1>3, <2>1, <3>1 DEF Native!BehindSettled, Native!Right
      <4>3. QED
        BY <4>1, <4>2, TouchedKeeps
    <3>3. QED
      BY <3>1, <3>2 DEF Native!BehindSettled, Native!Right
  <2>2. QED
    BY <1>1, <2>1
<1>7. QED
  BY <1>4, <1>5, <1>6 DEF Fits

-----------------------------------------------------------------------------
(* The native copier: one action of a worker *)

Moved(w) ==
  /\ job' \in [Workers -> Native!Jobs]
  /\ \A v \in Workers : v # w => job'[v] = job[v]
  /\ job'[w].at \in DOMAIN Chunk[w]
  /\ job'[w].pc = "nil" => job'[w].failed = {}
  /\ Fits(w)'

(* What every action finds. *)
Ready(w, p) ==
  /\ p = Native!Entry(w) /\ p \in Paths /\ Fits(w)
  /\ node \in Leftovers /\ node' \in Leftovers /\ Touched(p)
  /\ gone' = gone /\ ctxDone' = ctxDone

LEMMA NativeMovedLeave ==
  ASSUME Native!TypeOK, NEW w \in Workers, NEW p, Ready(w, p),
         NEW bad \in BOOLEAN, Native!Leave(w, bad),
         job[w].pc \in Native!Passed \cup {"route"},
         bad \/ node'[p] = Kind[p] \/ p \in gone
  PROVE  Moved(w)
<1>1. Fits(w)'
  BY NativeLeft DEF Ready
<1>2. job'[w].pc # "nil"
  BY NativeLeaves
<1>3. QED
  BY <1>1, <1>2, NativeLeaves DEF Moved

LEMMA NativeMovedGo ==
  ASSUME Native!TypeOK, NEW w \in Workers, NEW p, Ready(w, p),
         NEW s \in Native!Passed, NEW x \in Nodes,
         \/ Native!Go(w, s) /\ x = job[w].seen
         \/ job' = [job EXCEPT ![w].pc = s, ![w].seen = x],
         job[w].pc \in Native!Passed \cup {"route"},
         Kind[p] # "link" => node'[p] \notin Links,
         s = "remove" /\ Kind[p] = "dir" => node'[p] \notin Dirs \cup {"absent"},
         s # "lstat" /\ Kind[p] # "dir" => node'[p] # Kind[p],
         s = "chmod" /\ x = "dir" => node'[p] = Kind[p],
         s = "parents" => \A q \in Above[p] : node'[q] \in Dirs \cup {"absent"},
         s = "rename" \/ (s = "remove" /\ Kind[p] = "file")
           => \A q \in Above[p] : node'[q] \in Dirs,
         s \in {"mkdir", "chmod"} => Kind[p] = "dir",
         s \in {"parents", "make"} => Kind[p] # "dir",
         s = "rename" => Kind[p] = "file",
         x # "absent" =>
           s = "chmod" \/ (Kind[p] = "file" /\ s \in {"remove", "make", "rename"})
  PROVE  Moved(w)
<1>1. s \in NativePcs
  BY DEF NativePcs
<1>2. /\ job' \in [Workers -> Native!Jobs]
      /\ \A v \in Workers : v # w => job'[v] = job[v]
      /\ job'[w].pc = s /\ job'[w].seen = x /\ job'[w].failed = job[w].failed
      /\ job'[w].at = job[w].at /\ job'[w].stop = job[w].stop
  <2>1. CASE Native!Go(w, s) /\ x = job[w].seen
    BY <1>1, <2>1, NativeGoes
  <2>2. CASE job' = [job EXCEPT ![w].pc = s, ![w].seen = x]
    BY <1>1, <2>2, NativeSees
  <2>3. QED
    BY <2>1, <2>2
<1>3. Fits(w)'
  BY <1>2, NativeGone DEF Ready
<1>4. job'[w].pc # "nil" /\ job'[w].at \in DOMAIN Chunk[w]
  BY <1>2, NativeTyped DEF Native!Passed
<1>5. QED
  BY <1>2, <1>3, <1>4 DEF Moved

(* What Fits says of the worker's own entry. *)
LEMMA NativeHolds ==
  ASSUME Native!TypeOK, NEW w \in Workers, NEW p, Ready(w, p)
  PROVE  /\ job[w].pc \in Native!Passed /\ Kind[p] # "link" => node[p] \notin Links
         /\ job[w].pc = "remove" /\ Kind[p] = "dir" => node[p] \notin Dirs \cup {"absent"}
         /\ job[w].pc \in Native!Passed \ {"lstat"} /\ Kind[p] # "dir" => node[p] # Kind[p]
         /\ job[w].pc = "chmod" /\ job[w].seen = "dir" => node[p] = Kind[p]
         /\ job[w].pc = "parents" => \A q \in Above[p] : node[q] \in Dirs \cup {"absent"}
         /\ job[w].pc = "rename" \/ (job[w].pc = "remove" /\ Kind[p] = "file")
              => \A q \in Above[p] : node[q] \in Dirs
         /\ job[w].pc \in {"mkdir", "chmod"} => Kind[p] = "dir"
         /\ job[w].pc \in {"parents", "make"} => Kind[p] # "dir"
         /\ job[w].pc = "rename" => Kind[p] = "file"
         /\ job[w].pc \in {"idle", "judge", "delay"} => job[w].at = 1
         /\ job[w].seen # "absent" =>
              \/ job[w].pc = "chmod"
              \/ Kind[p] = "file" /\ job[w].pc \in {"remove", "make", "rename"}
         /\ job[w].stop => job[w].failed # {} /\ job[w].pc \in {"judge", "error"}
         /\ Kind[p] \in {"dir", "link", "file"} /\ node \in [Paths -> Nodes]
         /\ job[w].seen \in Nodes
<1>1. /\ p = Native!Entry(w) /\ p \in Paths /\ Native!LstatHolds(w) /\ Native!StepsFit(w)
      /\ Kind[p] \in {"dir", "link", "file"} /\ node \in [Paths -> Nodes]
      /\ job[w].seen \in Nodes
  BY NativeTyped, NativeJob, TreeFacts DEF Ready, Fits
<1>2. job[w].pc = "parents" => \A q \in Above[p] : node[q] \in Dirs \cup {"absent"}
  BY <1>1, NativeLstat DEF Native!LstatHolds
<1>3. /\ job[w].pc \in Native!Passed /\ Kind[p] # "link" => node[p] \notin Links
      /\ job[w].pc = "remove" /\ Kind[p] = "dir" => node[p] \notin Dirs \cup {"absent"}
      /\ job[w].pc \in Native!Passed \ {"lstat"} /\ Kind[p] # "dir" => node[p] # Kind[p]
      /\ job[w].pc = "rename" \/ (job[w].pc = "remove" /\ Kind[p] = "file")
           => \A q \in Above[p] : node[q] \in Dirs
  BY <1>1
  DEF Native!LstatHolds, Native!At, Native!Right, Native!Dirs, Dirs, Native!Links, Links
<1>4. /\ job[w].pc \in {"mkdir", "chmod"} => Kind[p] = "dir"
      /\ job[w].pc \in {"parents", "make"} => Kind[p] # "dir"
      /\ job[w].pc = "rename" => Kind[p] = "file"
      /\ job[w].pc \in {"idle", "judge", "delay"} => job[w].at = 1
      /\ job[w].seen # "absent" =>
           \/ job[w].pc = "chmod"
           \/ Kind[p] = "file" /\ job[w].pc \in {"remove", "make", "rename"}
      /\ job[w].stop => job[w].failed # {} /\ job[w].pc \in {"judge", "error"}
  BY <1>1 DEF Native!StepsFit
<1>5. job[w].pc = "chmod" /\ job[w].seen = "dir" => node[p] = Kind[p]
  BY <1>1, <1>4 DEF Native!LstatHolds, Native!At, Native!Right
<1>6. QED
  BY <1>1, <1>2, <1>3, <1>4, <1>5

LEMMA NativeRoute ==
  ASSUME Native!TypeOK, NEW w \in Workers, NEW p, Ready(w, p), Native!Route(w)
  PROVE  Moved(w)
<1>1. job[w].pc = "route" /\ node' = node /\ "lstat" \in Native!Passed
  BY DEF Native!Route, Native!Passed
<1>2. CASE Native!Leave(w, TRUE)
  BY <1>1, <1>2, NativeMovedLeave
<1>3. CASE Native!Go(w, "lstat") /\ (Kind[p] # "link" => Native!NoSymlinkPath(p))
  <2>1. Kind[p] # "link" => node[p] \notin Links
    BY <1>3 DEF Native!NoSymlinkPath, Native!Links, Links
  <2>2. job[w].seen = "absent" /\ job[w].seen \in Nodes
    BY <1>1, NativeHolds
  <2>3. QED
    BY <1>1, <1>3, <2>1, <2>2, NativeMovedGo
<1>4. QED
  <2>1. Kind[p] \in {"dir", "link", "file"} /\ p = Native!Entry(w)
    BY NativeHolds DEF Ready
  <2>2. QED
    BY <1>2, <1>3, <2>1 DEF Native!Route

LEMMA NativeLstatDir ==
  ASSUME Native!TypeOK, NEW w \in Workers, NEW p, Ready(w, p), Native!LstatDir(w)
  PROVE  Moved(w)
<1>1. /\ job[w].pc = "lstat" /\ node' = node /\ Kind[p] = "dir" /\ p = Native!Entry(w)
      /\ {"lstat", "mkdir", "chmod", "remove"} \subseteq Native!Passed
  BY DEF Native!LstatDir, Native!Passed, Native!At, Ready
<1>2. /\ job[w].seen = "absent" /\ node[p] \notin Links /\ node[p] \in Nodes
      /\ job[w].seen \in Nodes
  BY <1>1, NativeHolds DEF Ready
<1>3. CASE Native!Lstat(p) = "error"
  BY <1>1, <1>3, NativeMovedLeave DEF Native!LstatDir, Native!Dirs
<1>4. CASE Native!Lstat(p) # "error"
  <2>1. Native!Lstat(p) = node[p]
    BY <1>4, NativeLstat DEF Ready
  <2>2. CASE node[p] = "absent"
    <3>1. Native!Go(w, "mkdir")
      BY <1>1, <2>1, <2>2 DEF Native!LstatDir, Native!Dirs
    <3>2. QED
      BY <1>1, <1>2, <3>1, NativeMovedGo
  <2>3. CASE node[p] \in Dirs
    <3>1. job' = [job EXCEPT ![w].pc = "chmod", ![w].seen = node[p]]
      BY <1>1, <2>1, <2>3 DEF Native!LstatDir, Native!Dirs, Dirs
    <3>2. QED
      BY <1>1, <1>2, <3>1, NativeMovedGo
  <2>4. CASE node[p] \notin Dirs \cup {"absent"}
    <3>1. Native!Go(w, "remove")
      BY <1>1, <1>4, <2>1, <2>4 DEF Native!LstatDir, Native!Dirs, Dirs
    <3>2. QED
      BY <1>1, <1>2, <2>4, <3>1, NativeMovedGo
  <2>5. QED
    BY <2>2, <2>3, <2>4
<1>5. QED
  BY <1>3, <1>4

LEMMA NativeLstatLink ==
  ASSUME Native!TypeOK, NEW w \in Workers, NEW p, Ready(w, p), Native!LstatLink(w)
  PROVE  Moved(w)
<1>1. /\ job[w].pc = "lstat" /\ node' = node /\ Kind[p] = "link" /\ p = Native!Entry(w)
      /\ {"lstat", "parents", "remove"} \subseteq Native!Passed
  BY DEF Native!LstatLink, Native!Passed, Native!At, Ready
<1>2. job[w].seen = "absent" /\ node[p] \in Nodes /\ job[w].seen \in Nodes
  BY <1>1, NativeHolds DEF Ready
<1>3. CASE Native!Lstat(p) = "error"
  BY <1>1, <1>3, NativeMovedLeave DEF Native!LstatLink
<1>4. CASE Native!Lstat(p) # "error"
  <2>1. Native!Lstat(p) = node[p] /\ \A q \in Above[p] : node[q] \in Dirs \cup {"absent"}
    BY <1>4, NativeLstat DEF Ready
  <2>2. CASE node[p] = "link"
    BY <1>1, <2>1, <2>2, NativeMovedLeave DEF Native!LstatLink
  <2>3. CASE node[p] = "absent"
    <3>1. Native!Go(w, "parents")
      BY <1>1, <2>1, <2>3 DEF Native!LstatLink
    <3>2. QED
      BY <1>1, <1>2, <2>1, <2>3, <3>1, NativeMovedGo
  <2>4. CASE node[p] \notin {"link", "absent"}
    <3>1. Native!Go(w, "remove")
      BY <1>1, <1>4, <2>1, <2>4 DEF Native!LstatLink
    <3>2. QED
      BY <1>1, <1>2, <2>4, <3>1, NativeMovedGo
  <2>5. QED
    BY <2>2, <2>3, <2>4
<1>5. QED
  BY <1>3, <1>4

LEMMA NativeLstatFile ==
  ASSUME Native!TypeOK, NEW w \in Workers, NEW p, Ready(w, p), Native!LstatFile(w)
  PROVE  Moved(w)
<1>1. /\ job[w].pc = "lstat" /\ node' = node /\ Kind[p] = "file" /\ p = Native!Entry(w)
      /\ {"lstat", "parents", "make"} \subseteq Native!Passed
  BY DEF Native!LstatFile, Native!Passed, Native!At, Ready
<1>2. /\ job[w].seen = "absent" /\ node[p] \in Nodes /\ job[w].seen \in Nodes
      /\ node[p] \notin Links
  BY <1>1, NativeHolds DEF Ready
<1>3. CASE p \in gone
  BY <1>1, <1>3, NativeMovedLeave DEF Native!LstatFile
<1>4. CASE p \notin gone /\ Native!Lstat(p) = "error"
  BY <1>1, <1>4, NativeMovedLeave DEF Native!LstatFile
<1>5. CASE p \notin gone /\ Native!Lstat(p) # "error"
  <2>1. Native!Lstat(p) = node[p] /\ \A q \in Above[p] : node[q] \in Dirs \cup {"absent"}
    BY <1>5, NativeLstat DEF Ready
  <2>2. CASE node[p] = "file"
    BY <1>1, <1>5, <2>1, <2>2, NativeMovedLeave DEF Native!LstatFile
  <2>3. CASE node[p] = "absent"
    <3>1. Native!Go(w, "parents")
      BY <1>1, <1>5, <2>1, <2>3 DEF Native!LstatFile
    <3>2. QED
      BY <1>1, <1>2, <2>1, <2>3, <3>1, NativeMovedGo
  <2>4. CASE node[p] \notin {"file", "absent"}
    <3>1. job' = [job EXCEPT ![w].pc = "make", ![w].seen = node[p]]
      BY <1>1, <1>5, <2>1, <2>4 DEF Native!LstatFile
    <3>2. QED
      BY <1>1, <1>2, <2>4, <3>1, NativeMovedGo
  <2>5. QED
    BY <2>2, <2>3, <2>4
<1>6. QED
  BY <1>3, <1>4, <1>5

LEMMA NativeRemove ==
  ASSUME Native!TypeOK, NEW w \in Workers, NEW p, Ready(w, p), Native!Remove(w)
  PROVE  Moved(w)
<1>1. /\ job[w].pc = "remove" /\ node' = Removed(node, p) /\ p = Native!Entry(w)
      /\ {"remove", "mkdir", "make", "rename"} \subseteq Native!Passed
      /\ p \in Paths /\ node \in Leftovers
  BY NativeWorld DEF Native!Remove, Native!Passed, Ready
<1>2. /\ Kind[p] = "dir" => node[p] \notin Dirs \cup {"absent"}
      /\ Kind[p] = "file" => \A q \in Above[p] : node[q] \in Dirs
      /\ Kind[p] \in {"dir", "link", "file"} /\ node \in [Paths -> Nodes]
      /\ job[w].seen # "absent" => Kind[p] = "file"
      /\ job[w].seen \in Nodes
  BY <1>1, NativeHolds
<1>3. node' = [node EXCEPT ![p] = "absent"]
  BY <1>1, <1>2, RemovedOnly
<1>4. node'[p] = "absent"
  BY <1>1, <1>2, <1>3
<1>5. CASE Kind[p] = "dir"
  <2>1. Native!Go(w, "mkdir")
    BY <1>1, <1>5 DEF Native!Remove
  <2>2. QED
    BY <1>1, <1>2, <1>4, <1>5, <2>1, NativeMovedGo DEF Links
<1>6. CASE Kind[p] = "link"
  <2>1. Native!Go(w, "make")
    BY <1>1, <1>6 DEF Native!Remove
  <2>2. QED
    BY <1>1, <1>2, <1>4, <1>6, <2>1, NativeMovedGo
<1>7. CASE Kind[p] = "file"
  <2>1. Native!Go(w, "rename")
    BY <1>1, <1>7 DEF Native!Remove
  <2>2. \A q \in Above[p] : q \in Paths /\ Kind[q] = "dir"
    BY <1>1, TreeFacts
  <2>3. \A q \in Above[p] : node'[q] \in Dirs
    BY <1>2, <1>7, <2>2, TouchedKeeps DEF Ready
  <2>4. QED
    BY <1>1, <1>2, <1>4, <1>7, <2>1, <2>3, NativeMovedGo DEF Links
<1>8. QED
  BY <1>2, <1>5, <1>6, <1>7

LEMMA NativeMkdir ==
  ASSUME Native!TypeOK, NEW w \in Workers, NEW p, Ready(w, p), Native!Mkdir(w)
  PROVE  Moved(w)
<1>1. /\ job[w].pc = "mkdir" /\ p = Native!Entry(w)
      /\ {"mkdir", "chmod"} \subseteq Native!Passed
  BY DEF Native!Mkdir, Native!Passed, Ready
<1>2. /\ Kind[p] = "dir" /\ node[p] \notin Links /\ job[w].seen = "absent"
      /\ job[w].seen \in Nodes /\ p \in Paths
  BY <1>1, NativeHolds DEF Ready
<1>3. CASE Native!Leave(w, TRUE)
  BY <1>1, <1>3, NativeMovedLeave
<1>4. CASE Native!Go(w, "chmod")
  <2>1. node'[p] \notin Links
    BY <1>2, TouchedKeeps DEF Ready
  <2>2. QED
    BY <1>1, <1>2, <1>4, <2>1, NativeMovedGo
<1>5. QED
  BY <1>3, <1>4 DEF Native!Mkdir

LEMMA NativeChmod ==
  ASSUME Native!TypeOK, NEW w \in Workers, NEW p, Ready(w, p), Native!Chmod(w)
  PROVE  Moved(w)
<1>1. job[w].pc = "chmod" /\ p = Native!Entry(w) /\ "chmod" \in Native!Passed
  BY DEF Native!Chmod, Native!Passed, Ready
<1>2. /\ Kind[p] = "dir" /\ (job[w].seen = "dir" => node[p] = Kind[p])
      /\ p \in Paths /\ node \in [Paths -> Nodes]
  BY <1>1, NativeHolds DEF Ready
<1>3. CASE Native!Leave(w, TRUE)
  BY <1>1, <1>3, NativeMovedLeave
<1>4. CASE /\ node' = IF job[w].seen = "dir" THEN node ELSE [node EXCEPT ![p] = "dir"]
           /\ Native!Leave(w, FALSE)
  <2>1. node'[p] = Kind[p]
    BY <1>2, <1>4
  <2>2. QED
    BY <1>1, <1>4, <2>1, NativeMovedLeave
<1>5. QED
  BY <1>1, <1>3, <1>4 DEF Native!Chmod

LEMMA NativeParents ==
  ASSUME Native!TypeOK, NEW w \in Workers, NEW p, Ready(w, p), Native!Parents(w)
  PROVE  Moved(w)
<1>1. /\ job[w].pc = "parents" /\ p = Native!Entry(w)
      /\ {"parents", "make"} \subseteq Native!Passed
  BY DEF Native!Parents, Native!Passed, Ready
<1>2. /\ Kind[p] # "dir" /\ node[p] # Kind[p] /\ job[w].seen = "absent" /\ job[w].seen \in Nodes
      /\ Kind[p] # "link" => node[p] \notin Links
      /\ \A q \in Above[p] : node[q] \in Dirs \cup {"absent"}
      /\ p \in Paths /\ node \in Leftovers
  BY <1>1, NativeHolds DEF Ready
<1>3. CASE Native!Leave(w, TRUE)
  BY <1>1, <1>3, NativeMovedLeave
<1>4. CASE Native!Go(w, "make") /\ node'[p] = node[p]
  BY <1>1, <1>2, <1>4, NativeMovedGo
<1>5. Parent[p] # Root => /\ Parent[p] \in Above[p] /\ Parent[p] \in Paths
                          /\ Kind[Parent[p]] = "dir" /\ Parent[p] # p
                          /\ Above[Parent[p]] \subseteq Above[p]
  BY <1>2, TreeFacts
<1>6. Parent[p] # Root => Native!Lstat(Parent[p]) \in Dirs \cup {"absent"}
  <2>1. SUFFICES ASSUME Parent[p] # Root
                 PROVE  Native!Lstat(Parent[p]) \in Dirs \cup {"absent"}
    OBVIOUS
  <2>2. Native!Lstat(Parent[p]) # "error"
    BY <1>2, <1>5, <2>1 DEF Native!Lstat, Native!Dirs, Dirs
  <2>3. QED
    BY <1>2, <1>5, <2>1, <2>2, NativeLstat
<1>7. p \notin Above[p] /\ (Parent[p] # Root => p \notin Above[Parent[p]] \cup {Parent[p]})
  BY <1>2, <1>5, TreeFacts
<1>8. Parent[p] # Root /\ node' = Made(node, Parent[p]) => node'[p] = node[p]
  <2>1. SUFFICES ASSUME Parent[p] # Root, node' = Made(node, Parent[p])
                 PROVE  node'[p] = node[p]
    OBVIOUS
  <2>2. \A q \in Above[Parent[p]] : node[q] \in Dirs \cup {"absent"}
    BY <1>2, <1>5, <2>1
  <2>3. QED
    BY <1>2, <1>5, <1>7, <2>1, <2>2, MadeOnly
<1>9. QED
  BY <1>1, <1>3, <1>4, <1>6, <1>8, NativeWorld DEF Native!Parents, Native!Dirs, Dirs

LEMMA NativeMakeLink ==
  ASSUME Native!TypeOK, NEW w \in Workers, NEW p, Ready(w, p), Native!MakeLink(w)
  PROVE  Moved(w)
<1>1. /\ job[w].pc = "make" /\ Kind[p] = "link" /\ p = Native!Entry(w) /\ p \in Paths
      /\ "make" \in Native!Passed /\ node \in [Paths -> Nodes]
  BY NativeHolds DEF Native!MakeLink, Native!Passed, Native!At, Ready
<1>2. CASE Native!Leave(w, TRUE)
  BY <1>1, <1>2, NativeMovedLeave
<1>3. CASE node' = [node EXCEPT ![p] = "link"] /\ Native!Leave(w, FALSE)
  <2>1. node'[p] = Kind[p]
    BY <1>1, <1>3
  <2>2. QED
    BY <1>1, <1>3, <2>1, NativeMovedLeave
<1>4. QED
  BY <1>1, <1>2, <1>3 DEF Native!MakeLink

LEMMA NativeSourceGone ==
  ASSUME Native!TypeOK, NEW w \in Workers, NEW p, Ready(w, p), Native!SourceGone(w)
  PROVE  Moved(w)
<1>1. job[w].pc \in Native!Passed /\ p \in gone /\ Native!Leave(w, FALSE)
  BY DEF Native!SourceGone, Native!Passed, Ready
<1>2. QED
  BY <1>1, NativeMovedLeave

(* The loop is left: the run is cancelled, or the disk is full. *)
LEMMA NativeMovedBreak ==
  ASSUME Native!TypeOK, NEW w \in Workers, NEW p, Ready(w, p), NEW errs \in SUBSET {p},
         Native!Break(w, errs), errs # {} \/ ctxDone
  PROVE  Moved(w)
<1>1. /\ job' \in [Workers -> Native!Jobs]
      /\ \A v \in Workers : v # w => job'[v] = job[v]
      /\ job'[w].failed = job[w].failed \cup errs
      /\ job'[w].seen = "absent" /\ (job'[w].stop <=> errs # {})
      /\ job'[w].pc = "judge" /\ job'[w].at = 1 /\ job'[w].at \in DOMAIN Chunk[w]
  BY NativeBreaks DEF Ready
<1>2. Native!LstatHolds(w)'
  BY <1>1 DEF Native!LstatHolds, Native!At, Native!Passed
<1>3. Native!StepsFit(w)'
  BY <1>1 DEF Native!StepsFit
<1>4. ctxDone' \/ Native!BehindSettled(w)'
  BY <1>1 DEF Native!BehindSettled, Ready
<1>5. QED
  BY <1>1, <1>2, <1>3, <1>4 DEF Moved, Fits

LEMMA NativeMakeFile ==
  ASSUME Native!TypeOK, NEW w \in Workers, NEW p, Ready(w, p), Native!MakeFile(w)
  PROVE  Moved(w)
<1>1. /\ job[w].pc = "make" /\ Kind[p] = "file" /\ p = Native!Entry(w) /\ p \in Paths
      /\ {"make", "remove", "rename"} \subseteq Native!Passed /\ node' = node
  BY DEF Native!MakeFile, Native!Passed, Native!At, Ready
<1>2. /\ node[p] \notin Links /\ node[p] # Kind[p] /\ job[w].seen \in Nodes
  BY <1>1, NativeHolds
<1>3. CASE Native!Leave(w, TRUE)
  BY <1>1, <1>3, NativeMovedLeave
<1>4. CASE ctxDone /\ Native!Break(w, {})
  BY <1>4, NativeMovedBreak
<1>5. CASE /\ Native!Private(node, Above[p])
           /\ Native!Go(w, IF job[w].seen = "absent" THEN "rename" ELSE "remove")
  <2>1. \A q \in Above[p] : node[q] \in Dirs
    BY <1>5 DEF Native!Private, Dirs
  <2>2. CASE job[w].seen = "absent"
    BY <1>1, <1>2, <1>5, <2>1, <2>2, NativeMovedGo
  <2>3. CASE job[w].seen # "absent"
    BY <1>1, <1>2, <1>5, <2>1, <2>3, NativeMovedGo
  <2>4. QED
    BY <2>2, <2>3
<1>6. QED
  BY <1>1, <1>3, <1>4, <1>5 DEF Native!MakeFile

LEMMA NativeRename ==
  ASSUME Native!TypeOK, NEW w \in Workers, NEW p, Ready(w, p), Native!Rename(w)
  PROVE  Moved(w)
<1>1. /\ job[w].pc = "rename" /\ p = Native!Entry(w) /\ p \in Paths
      /\ "rename" \in Native!Passed /\ node \in [Paths -> Nodes]
  BY NativeHolds DEF Native!Rename, Native!Passed, Ready
<1>2. Kind[p] = "file"
  BY <1>1, NativeHolds
<1>3. CASE Native!Leave(w, TRUE)
  BY <1>1, <1>3, NativeMovedLeave
<1>4. CASE node' = [node EXCEPT ![p] = "file"] /\ Native!Leave(w, FALSE)
  <2>1. node'[p] = Kind[p]
    BY <1>1, <1>2, <1>4
  <2>2. QED
    BY <1>1, <1>4, <2>1, NativeMovedLeave
<1>5. QED
  BY <1>1, <1>3, <1>4 DEF Native!Rename

LEMMA NativeStart ==
  ASSUME Native!TypeOK, NEW w \in Workers, NEW p, Ready(w, p), Native!Start(w)
  PROVE  Moved(w)
<1> DEFINE s == IF ctxDone /\ Attempts > 0 THEN "error" ELSE "route"
           r == [job[w] EXCEPT !.pc = s, !.tries = 1]
<1>1. job[w] \in Native!Jobs /\ job \in [Workers -> Native!Jobs] /\ job[w].pc = "idle"
  BY NativeTyped, NativeJob DEF Native!Start
<1>2. /\ job[w].at = 1 /\ job[w].seen = "absent" /\ ~job[w].stop /\ job[w].at \in DOMAIN Chunk[w]
  BY <1>1, NativeHolds, NativeTyped
<1>3. s \in {"error", "route"}
  OBVIOUS
<1>4. job' = [job EXCEPT ![w] = r]
  BY <1>1 DEF Native!Start
<1> HIDE DEF s
<1>5. r \in Native!Jobs
  BY <1>1, <1>3 DEF Native!Jobs
<1>6. r.pc = s /\ r.at = 1 /\ r.seen = "absent" /\ r.stop = job[w].stop
  BY <1>1, <1>2 DEF Native!Jobs
<1> HIDE DEF r
<1>7. /\ job' \in [Workers -> Native!Jobs] /\ job'[w] = r
      /\ \A v \in Workers : v # w => job'[v] = job[v]
  BY <1>4, <1>5, NativeSet
<1>8. Native!LstatHolds(w)'
  BY <1>3, <1>6, <1>7 DEF Native!LstatHolds, Native!At, Native!Passed
<1>9. Native!StepsFit(w)'
  BY <1>2, <1>3, <1>6, <1>7 DEF Native!StepsFit
<1>10. Native!Behind(w)' = {}
  BY <1>3, <1>6, <1>7 DEF Native!Behind, Native!Passed
<1>11. QED
  BY <1>2, <1>3, <1>6, <1>7, <1>8, <1>9, <1>10 DEF Moved, Fits, Native!BehindSettled

LEMMA NativeJudge ==
  ASSUME Native!TypeOK, NEW w \in Workers, NEW p, Ready(w, p), Native!Judge(w)
  PROVE  Moved(w)
<1>1. /\ job[w].pc = "judge" /\ node' = node
      /\ \/ job[w].failed = {} /\ Native!Go(w, "nil")
         \/ job[w].failed # {} /\ ~job[w].stop /\ Native!Go(w, "delay")
         \/ job[w].failed # {} /\ Native!Go(w, "error")
  BY DEF Native!Judge
<1>2. /\ job[w].at = 1 /\ job[w].seen = "absent" /\ job[w].at \in DOMAIN Chunk[w]
      /\ job[w].stop => job[w].failed # {}
  BY <1>1, NativeHolds, NativeTyped
<1>3. PICK s \in {"nil", "delay", "error"} :
        /\ Native!Go(w, s)
        /\ s = "nil" => job[w].failed = {}
        /\ s # "nil" => job[w].failed # {}
        /\ s = "delay" => ~job[w].stop
  BY <1>1
<1>4. /\ job' \in [Workers -> Native!Jobs]
      /\ \A v \in Workers : v # w => job'[v] = job[v]
      /\ job'[w].pc = s /\ job'[w].seen = job[w].seen /\ job'[w].failed = job[w].failed
      /\ job'[w].at = job[w].at /\ job'[w].stop = job[w].stop
  BY <1>3, NativeGoes DEF NativePcs
<1>5. Native!LstatHolds(w)'
  BY <1>3, <1>4 DEF Native!LstatHolds, Native!At, Native!Passed
<1>6. Native!StepsFit(w)'
  BY <1>2, <1>3, <1>4 DEF Native!StepsFit
<1>7. ctxDone' \/ Native!BehindSettled(w)'
  <2>1. CASE Native!BehindSettled(w) /\ s = "nil"
    <3>1. Native!Behind(w)' = Native!Behind(w)
      BY <1>1, <1>4, <2>1 DEF Native!Behind, Native!Passed
    <3>2. ~job[w].stop /\ gone' = gone
      BY <1>2, <1>3, <2>1 DEF Ready
    <3>3. QED
      BY <1>1, <1>4, <2>1, <3>1, <3>2 DEF Native!BehindSettled, Native!Right
  <2>2. CASE s # "nil"
    BY <1>3, <1>4, <2>2 DEF Native!BehindSettled, Native!Behind, Native!Passed
  <2>3. QED
    BY <2>1, <2>2 DEF Ready, Fits
<1>8. QED
  BY <1>2, <1>3, <1>4, <1>5, <1>6, <1>7 DEF Moved, Fits

LEMMA NativeRetry ==
  ASSUME Native!TypeOK, NEW w \in Workers, NEW p, Ready(w, p), Native!Retry(w)
  PROVE  Moved(w)
<1>1. job[w] \in Native!Jobs /\ job \in [Workers -> Native!Jobs] /\ job[w].pc = "delay"
  BY NativeTyped, NativeJob DEF Native!Retry
<1>2. /\ job[w].at = 1 /\ job[w].seen = "absent" /\ ~job[w].stop /\ job[w].at \in DOMAIN Chunk[w]
  BY <1>1, NativeHolds, NativeTyped
<1>3. PICK s \in {"route", "error"} :
        /\ job' \in [Workers -> Native!Jobs]
        /\ \A v \in Workers : v # w => job'[v] = job[v]
        /\ job'[w].pc = s /\ job'[w].seen = "absent" /\ job'[w].at = 1 /\ ~job'[w].stop
  <2>1. CASE job' = [job EXCEPT ![w].pc = "route", ![w].failed = {}, ![w].tries = @ + 1]
    <3> DEFINE n == job[w].tries + 1
              r == [job[w] EXCEPT !.pc = "route", !.failed = {}, !.tries = n]
    <3>1. n \in Nat
      BY NativeJob
    <3>2. job' = [job EXCEPT ![w] = r]
      BY <1>1, <2>1
    <3> HIDE DEF n
    <3>3. r \in Native!Jobs
      BY <1>1, <3>1 DEF Native!Jobs
    <3>4. r.pc = "route" /\ r.seen = "absent" /\ r.at = 1 /\ ~r.stop
      BY <1>1, <1>2 DEF Native!Jobs
    <3> HIDE DEF r
    <3>5. /\ job' \in [Workers -> Native!Jobs] /\ job'[w] = r
          /\ \A v \in Workers : v # w => job'[v] = job[v]
      BY <3>2, <3>3, NativeSet
    <3>6. QED
      BY <3>4, <3>5
  <2>2. CASE Native!Go(w, "error")
    BY <1>2, <2>2, NativeGoes DEF NativePcs
  <2>3. QED
    BY <2>1, <2>2 DEF Native!Retry
<1>4. Native!LstatHolds(w)'
  BY <1>3 DEF Native!LstatHolds, Native!At, Native!Passed
<1>5. Native!StepsFit(w)'
  BY <1>3 DEF Native!StepsFit
<1>6. Native!Behind(w)' = {}
  BY <1>3 DEF Native!Behind, Native!Passed
<1>7. QED
  BY <1>2, <1>3, <1>4, <1>5, <1>6 DEF Moved, Fits, Native!BehindSettled

LEMMA NativeFails ==
  ASSUME Native!TypeOK, NEW w \in Workers, NEW p, Ready(w, p),
         Native!CallFails(w) \/ Native!NoSpace(w)
  PROVE  Moved(w)
<1>1. CASE Native!CallFails(w)
  BY <1>1, NativeMovedLeave DEF Native!CallFails, Native!Passed
<1>2. CASE Native!NoSpace(w)
  <2>1. Native!Break(w, {p})
    BY <1>2 DEF Native!NoSpace, Ready
  <2>2. QED
    BY <2>1, NativeMovedBreak
<1>3. QED
  BY <1>1, <1>2


LEMMA NativeFaults ==
  ASSUME Native!WorldTypeOK, Native!Fault
  PROVE  faults' \in 0..MaxFaults
BY TreeAssumption DEF Native!WorldTypeOK, Native!Fault

(* The records of a run that begins. *)
LEMMA NativeFresh ==
  ASSUME NEW j, j = [w \in Workers |-> Native!Fresh]
  PROVE  /\ j \in [Workers -> Native!Jobs]
         /\ \A w \in Workers : /\ j[w].at \in 1..Len(Chunk[w])
                               /\ j[w].pc = "idle" /\ j[w].at = 1 /\ j[w].seen = "absent"
                               /\ j[w].failed = {} /\ ~j[w].stop
<1>1. Native!Fresh \in Native!Jobs
  BY DEF Native!Fresh, Native!Jobs, Native!Nodes
<1>2. QED
  BY <1>1, ChunkFacts DEF Native!Fresh

(* A step of a worker: its own record moves, the others keep theirs. *)
LEMMA NativeWorkers ==
  ASSUME Native!TypeOK, Native!Matches, NEW w \in Workers,
         Native!Worker(w) \/ Native!CallFails(w) \/ Native!NoSpace(w)
  PROVE  Native!TypeOK' /\ Native!Matches'
<1>1. PICK p \in Paths : p = Native!Entry(w)
  BY NativeTyped
<1>2. node' \in Leftovers /\ Touched(p)
  BY <1>1, NativeTouches
<1>3. /\ gone' = gone /\ ctxDone' = ctxDone
      /\ faults' = faults \/ Native!Fault
  BY DEF Native!Worker, Native!CallFails, Native!NoSpace, Native!Start, Native!Route,
         Native!LstatDir, Native!LstatLink, Native!LstatFile, Native!Remove, Native!Mkdir,
         Native!Chmod, Native!Parents, Native!MakeLink, Native!SourceGone, Native!MakeFile,
         Native!Rename, Native!Judge, Native!Retry, Native!Works
<1>4. \A v \in Workers : Fits(v)
  BY DEF Native!Matches, Fits, Native!Workers, Workers
<1>5. Ready(w, p)
  BY <1>1, <1>2, <1>3, <1>4, NativeTyped DEF Ready
<1>6. Moved(w)
  BY <1>5, NativeRoute, NativeLstatDir, NativeLstatLink, NativeLstatFile, NativeRemove,
     NativeMkdir, NativeChmod, NativeParents, NativeMakeLink, NativeSourceGone,
     NativeMakeFile, NativeRename, NativeStart, NativeJudge, NativeRetry, NativeFails
  DEF Native!Worker
<1>7. ASSUME NEW v \in Workers
      PROVE  /\ job'[v].at \in DOMAIN Chunk[v]
             /\ job'[v].pc = "nil" => job'[v].failed = {}
             /\ Fits(v)'
  <2>1. CASE v = w
    BY <1>6, <2>1 DEF Moved
  <2>2. CASE v # w
    <3>1. p # Native!Entry(v)
      BY <1>1, <2>2, NativeTyped, ChunksDisjoint
    <3>2. job'[v] = job[v]
      BY <1>6, <2>2 DEF Moved
    <3>3. Fits(v)'
      BY <1>2, <1>3, <1>4, <3>1, <3>2, NativeKept
    <3>4. QED
      BY <3>2, <3>3, NativeTyped, NativeJob
  <2>3. QED
    BY <2>1, <2>2
<1>8. Native!WorldTypeOK'
  BY <1>2, <1>3, NativeWorld, NativeFaults DEF Native!TypeOK, Native!WorldTypeOK
<1>9. Native!TypeOK'
  BY <1>6, <1>7, <1>8, ChunkFacts DEF Moved, Native!TypeOK, Native!Workers, Workers
<1>10. Native!Matches'
  BY <1>7 DEF Native!Matches, Fits, Native!Workers, Workers
<1>11. QED
  BY <1>9, <1>10

LEMMA NativeStep ==
  ASSUME Native!TypeOK, Native!Matches, Native!Next
  PROVE  Native!TypeOK' /\ Native!Matches'
<1>1. ASSUME NEW w \in Workers,
             Native!Worker(w) \/ Native!CallFails(w) \/ Native!NoSpace(w)
      PROVE  Native!TypeOK' /\ Native!Matches'
  BY <1>1, NativeWorkers
<1>2. CASE Native!Rerun
  <2>1. job' = [w \in Workers |-> Native!Fresh]
    BY <1>2 DEF Native!Rerun, Native!Workers, Workers
  <2>2. Native!WorldTypeOK'
    BY <1>2 DEF Native!Rerun, Native!TypeOK, Native!WorldTypeOK
  <2>3. /\ job' \in [Workers -> Native!Jobs]
        /\ \A w \in Workers : /\ job'[w].at \in 1..Len(Chunk[w])
                              /\ job'[w].pc = "idle" /\ job'[w].at = 1
                              /\ job'[w].seen = "absent" /\ ~job'[w].stop
    BY <2>1, NativeFresh
  <2>4. Native!TypeOK'
    BY <2>2, <2>3 DEF Native!TypeOK, Native!Workers, Workers
  <2>5. ASSUME NEW w \in Workers
        PROVE  (Native!LstatHolds(w) /\ Native!StepsFit(w) /\ Native!BehindSettled(w))'
    BY <2>3 DEF Native!LstatHolds, Native!StepsFit, Native!BehindSettled, Native!Behind,
                Native!At, Native!Passed
  <2>6. QED
    BY <2>4, <2>5 DEF Native!Matches, Native!Workers, Workers
<1>3. CASE (Native!Vanish \/ Native!Cancel) /\ UNCHANGED job
  <2>1. /\ node' = node /\ job' = job /\ gone \subseteq gone' /\ (ctxDone => ctxDone')
        /\ Native!Fault /\ ctxDone' \in BOOLEAN
        /\ gone' \subseteq {p \in Native!Paths : Kind[p] = "file"}
    BY <1>3 DEF Native!Vanish, Native!Cancel, Native!TypeOK, Native!WorldTypeOK
  <2>2. ASSUME NEW v \in Workers
        PROVE  Fits(v)'
    <3>1. Fits(v) /\ Root # Native!Entry(v)
      BY NativeTyped, TreeAssumption DEF Native!Matches, Fits, Native!Workers, Workers
    <3>2. QED
      BY <2>1, <3>1, NativeKept, NothingTouched
  <2>3. Native!WorldTypeOK'
    BY <2>1, NativeFaults DEF Native!TypeOK, Native!WorldTypeOK
  <2>4. Native!TypeOK'
    BY <2>1, <2>3 DEF Native!TypeOK
  <2>5. QED
    BY <2>2, <2>4 DEF Native!Matches, Fits, Native!Workers, Workers
<1>4. QED
  BY <1>1, <1>2, <1>3 DEF Native!Next, Native!Workers, Workers

-----------------------------------------------------------------------------
(* rsync: the changes of the tree *)

LEMMA RsyncWorld ==
  /\ Rsync!Leftovers = Leftovers
  /\ \A n, p : Rsync!Removed(n, p) = Removed(n, p)
  /\ \A n, p : Rsync!Made(n, p) = Made(n, p)
  /\ Rsync!Dirs = Dirs /\ Rsync!Nodes = Nodes /\ Rsync!Paths = Paths /\ Rsync!Workers = Workers
<1>1. Rsync!Dirs = Dirs /\ Rsync!Nodes = Nodes /\ Rsync!Paths = Paths /\ Rsync!Workers = Workers
  BY DEF Rsync!Paths, Paths, Rsync!Nodes, Nodes, Rsync!Dirs, Dirs, Rsync!Links, Links,
         Rsync!Workers, Workers
<1>2. Rsync!Leftovers = Leftovers
  BY <1>1 DEF Rsync!Leftovers, Leftovers
<1>3. \A n, p : Rsync!Removed(n, p) = Removed(n, p)
  BY <1>1 DEF Rsync!Removed, Removed
<1>4. \A n, p : Rsync!Made(n, p) = Made(n, p)
  BY <1>1 DEF Rsync!Made, Made
<1>5. QED
  BY <1>1, <1>2, <1>3, <1>4

LEMMA RsyncTyped ==
  ASSUME Rsync!TypeOK
  PROVE  /\ node \in Leftovers /\ node \in [Paths -> Nodes]
         /\ gone \subseteq {p \in Paths : Kind[p] = "file"} /\ port \in BOOLEAN
         /\ task \in [Workers -> Rsync!Tasks]
         /\ \A w \in Workers : /\ Rsync!Entry(w) \in Paths
                               /\ task[w].at \in DOMAIN Chunk[w]
                               /\ Rsync!Entry(w) = Chunk[w][task[w].at]
                               /\ task[w] \in Rsync!Tasks
                               /\ task[w].list \subseteq Paths /\ task[w].logged \subseteq Paths
                               /\ task[w].tries \in Nat
<1>1. /\ node \in Leftovers /\ task \in [Workers -> Rsync!Tasks] /\ port \in BOOLEAN
      /\ gone \subseteq {p \in Paths : Kind[p] = "file"}
  BY RsyncWorld DEF Rsync!TypeOK, Rsync!WorldTypeOK
<1>2. ASSUME NEW w \in Workers
      PROVE  /\ task[w].at \in DOMAIN Chunk[w] /\ Chunk[w][task[w].at] \in Paths
             /\ task[w] \in Rsync!Tasks
             /\ task[w].list \subseteq Paths /\ task[w].logged \subseteq Paths
             /\ task[w].tries \in Nat
  <2>1. task[w].at \in 1..Len(Chunk[w])
    BY RsyncWorld DEF Rsync!TypeOK
  <2>2. task[w] \in Rsync!Tasks
    BY <1>1
  <2>3. QED
    BY <2>1, <2>2, ChunkFacts, RsyncWorld DEF Rsync!Tasks
<1>3. QED
  BY <1>1, <1>2, LeftoversDef DEF Rsync!Entry

LEMMA RsyncLstat ==
  ASSUME Rsync!TypeOK, NEW p \in Paths
  PROVE  /\ Rsync!Lstat(p) # "error" =>
              /\ \A q \in Above[p] : node[q] \in Dirs \cup {"absent"}
              /\ Rsync!Lstat(p) = node[p]
         /\ Rsync!Lstat(p) \in Nodes \cup {"error"}
<1>1. node[p] \in Nodes
  BY RsyncTyped
<1>2. QED
  BY <1>1, RsyncWorld DEF Rsync!Lstat

(* What is in the way is removed, and a directory made instead. *)
LEMMA ReplaceOnly ==
  ASSUME NEW n \in Leftovers, NEW p \in Paths, Kind[p] # "dir" \/ n[p] \notin Dirs,
         \A q \in Above[p] : n[q] \in Dirs \cup {"absent"},
         NEW m, m = Made(Removed(n, p), p)
  PROVE  /\ m \in Leftovers /\ m[p] = MkdirMode
         /\ \A q \in Above[p] : m[q] \in Dirs
         /\ \A q \in Paths \ {p} :
              \/ m[q] = n[q]
              \/ Kind[q] = "dir" /\ n[q] = "absent" /\ m[q] = MkdirMode
<1>1. PICK k : k = Removed(n, p)
  OBVIOUS
<1>2. k = [n EXCEPT ![p] = "absent"] /\ k \in Leftovers /\ n \in [Paths -> Nodes]
  BY <1>1, RemovedOnly, LeftoversDef
<1>3. k[p] = "absent" /\ \A q \in Paths \ {p} : k[q] = n[q]
  BY <1>2
<1>4. \A q \in Above[p] : q \in Paths \ {p} /\ Kind[q] = "dir"
  BY TreeFacts
<1>5. \A q \in Above[p] : k[q] \in Dirs \cup {"absent"}
  BY <1>3, <1>4
<1>6. m = Made(k, p)
  BY <1>1
<1>7. /\ Made(k, p) \in Leftovers /\ Made(k, p)[p] = MkdirMode
      /\ \A q \in Above[p] : Made(k, p)[q] \in Dirs
      /\ \A q \in Paths :
           \/ Made(k, p)[q] = k[q]
           \/ q \in Above[p] \cup {p} /\ k[q] = "absent" /\ Made(k, p)[q] = MkdirMode
  BY <1>2, <1>3, <1>5, MadeOnly
<1>8. QED
  BY <1>3, <1>4, <1>6, <1>7

LEMMA ReplaceTouches ==
  ASSUME node \in Leftovers, NEW p \in Paths, Kind[p] = "dir", node[p] \notin Dirs,
         \A q \in Above[p] : node[q] \in Dirs \cup {"absent"},
         node' = Made(Removed(node, p), p)
  PROVE  node' \in Leftovers /\ Touched(p) /\ node'[p] \in Dirs
<1>1. MkdirMode \in Dirs /\ Dirs \cap Links = {} /\ "dir" \in Dirs
  BY TreeAssumption DEF Dirs, Links
<1>2. /\ node' \in Leftovers /\ node'[p] = MkdirMode
      /\ \A q \in Paths \ {p} :
           \/ node'[q] = node[q]
           \/ Kind[q] = "dir" /\ node[q] = "absent" /\ node'[q] = MkdirMode
  BY ReplaceOnly
<1>3. QED
  BY <1>1, <1>2 DEF Touched

LEMMA FileTouches ==
  ASSUME node \in Leftovers, NEW p \in Paths, Kind[p] = "file",
         \A q \in Above[p] : node[q] \in Dirs \cup {"absent"},
         node' = [Made(Removed(node, p), p) EXCEPT ![p] = "file"]
  PROVE  node' \in Leftovers /\ Touched(p) /\ node'[p] = "file"
<1>1. PICK m : m = Made(Removed(node, p), p)
  OBVIOUS
<1>2. /\ m \in Leftovers /\ \A q \in Above[p] : m[q] \in Dirs
      /\ \A q \in Paths \ {p} :
           \/ m[q] = node[q]
           \/ Kind[q] = "dir" /\ node[q] = "absent" /\ m[q] = MkdirMode
  BY <1>1, ReplaceOnly
<1>3. node' = [m EXCEPT ![p] = "file"] /\ m \in [Paths -> Nodes] /\ "file" \in Nodes
  BY <1>1, <1>2, LeftoversDef DEF Nodes
<1>4. [m EXCEPT ![p] = "file"] \in Leftovers
  <2>1. Kind[p] # "dir"
    OBVIOUS
  <2>2. QED
    BY <1>2, <1>3, <2>1, SetOnly
<1>5. node'[p] = "file" /\ \A q \in Paths \ {p} : node'[q] = m[q]
  BY <1>3
<1>6. MkdirMode \in Dirs /\ "file" \notin Links
  BY TreeAssumption DEF Dirs, Links
<1>7. ASSUME NEW q \in Paths, q # p
      PROVE  \/ node'[q] = node[q]
             \/ Kind[q] = "dir" /\ node[q] = "absent" /\ node'[q] \in Dirs
  BY <1>2, <1>5, <1>6, <1>7
<1>8. QED
  BY <1>3, <1>4, <1>5, <1>6, <1>7 DEF Touched

(* A link is made, after what was in the way has been removed or missing   *)
(* parents made. *)
LEMMA LinkTouches ==
  ASSUME node \in Leftovers, NEW p \in Paths, Kind[p] = "link", NEW k \in Leftovers,
         \A q \in Paths : \/ k[q] = node[q]
                          \/ Kind[q] = "dir" /\ node[q] = "absent" /\ k[q] \in Dirs
                          \/ q = p,
         node[p] # "link",
         \/ node' = k
         \/ node' = [k EXCEPT ![p] = "link"] /\ \A q \in Above[p] : k[q] \in Dirs
  PROVE  node' \in Leftovers /\ Touched(p)
<1>1. k \in [Paths -> Nodes] /\ "link" \in Nodes
  BY LeftoversDef DEF Nodes, Links
<1>2. CASE node' = k
  BY <1>2 DEF Touched
<1>3. CASE node' = [k EXCEPT ![p] = "link"] /\ \A q \in Above[p] : k[q] \in Dirs
  <2>1. node' \in Leftovers
    BY <1>1, <1>3, SetOnly
  <2>2. \A q \in Paths \ {p} : node'[q] = k[q]
    BY <1>1, <1>3
  <2>3. ASSUME NEW q \in Paths, q # p
        PROVE  \/ node'[q] = node[q]
               \/ Kind[q] = "dir" /\ node[q] = "absent" /\ node'[q] \in Dirs
    BY <2>2, <2>3
  <2>4. QED
    BY <2>1, <2>3 DEF Touched
<1>4. QED
  BY <1>2, <1>3

-----------------------------------------------------------------------------
(* rsync: the shapes an action gives to the worker's record *)

LEMMA RsyncSet ==
  ASSUME Rsync!TypeOK, NEW w \in Workers, NEW r \in Rsync!Tasks,
         task' = [task EXCEPT ![w] = r]
  PROVE  /\ task' \in [Workers -> Rsync!Tasks]
         /\ \A v \in Workers : v # w => task'[v] = task[v]
         /\ task'[w] = r
<1>1. task \in [Workers -> Rsync!Tasks]
  BY RsyncTyped
<1>2. QED
  BY <1>1

(* What every action leaves alone. *)
Own(w) ==
  /\ task' \in [Workers -> Rsync!Tasks]
  /\ \A v \in Workers : v # w => task'[v] = task[v]

SameStdin(w) ==
  /\ task'[w].stdin = task[w].stdin /\ task'[w].at = task[w].at /\ task'[w].seen = task[w].seen
  /\ task'[w].logged = task[w].logged

SameProcess(w) ==
  task'[w].rsync = task[w].rsync /\ task'[w].list = task[w].list

LEMMA RsyncGoes ==
  ASSUME Rsync!TypeOK, NEW w \in Workers,
         NEW s \in {"idle", "start", "wait", "delay", "nil", "error"}, Rsync!Go(w, s)
  PROVE  /\ Own(w) /\ SameStdin(w) /\ SameProcess(w)
         /\ task'[w].pc = s /\ task'[w].read = task[w].read
<1> DEFINE r == [task[w] EXCEPT !.pc = s]
<1>1. task \in [Workers -> Rsync!Tasks] /\ task[w] \in Rsync!Tasks
  BY RsyncTyped
<1>2. r \in Rsync!Tasks
  BY <1>1 DEF Rsync!Tasks
<1>3. task' = [task EXCEPT ![w] = r]
  BY <1>1 DEF Rsync!Go
<1>4. /\ r.pc = s /\ r.stdin = task[w].stdin /\ r.at = task[w].at /\ r.seen = task[w].seen
      /\ r.rsync = task[w].rsync /\ r.list = task[w].list /\ r.read = task[w].read
      /\ r.logged = task[w].logged
  BY <1>1 DEF Rsync!Tasks
<1> HIDE DEF r
<1>5. QED
  BY <1>2, <1>3, <1>4, RsyncSet DEF Own, SameStdin, SameProcess

LEMMA RsyncCounts ==
  ASSUME Rsync!TypeOK, NEW w \in Workers,
         NEW s \in {"idle", "start", "wait", "delay", "nil", "error"}, NEW n \in Nat,
         task' = [task EXCEPT ![w].pc = s, ![w].tries = n]
  PROVE  /\ Own(w) /\ SameStdin(w) /\ SameProcess(w)
         /\ task'[w].pc = s /\ task'[w].read = task[w].read
<1> DEFINE r == [task[w] EXCEPT !.pc = s, !.tries = n]
<1>1. task \in [Workers -> Rsync!Tasks] /\ task[w] \in Rsync!Tasks
  BY RsyncTyped
<1>2. r \in Rsync!Tasks
  BY <1>1 DEF Rsync!Tasks
<1>3. task' = [task EXCEPT ![w] = r]
  BY <1>1
<1>4. /\ r.pc = s /\ r.stdin = task[w].stdin /\ r.at = task[w].at /\ r.seen = task[w].seen
      /\ r.rsync = task[w].rsync /\ r.list = task[w].list /\ r.read = task[w].read
      /\ r.logged = task[w].logged
  BY <1>1 DEF Rsync!Tasks
<1> HIDE DEF r
<1>5. QED
  BY <1>2, <1>3, <1>4, RsyncSet DEF Own, SameStdin, SameProcess

LEMMA RsyncBecomes ==
  ASSUME Rsync!TypeOK, NEW w \in Workers,
         NEW s \in {"none", "runs", "signalled", "ok", "retry", "fatal"}, Rsync!Becomes(w, s)
  PROVE  /\ Own(w) /\ SameStdin(w)
         /\ task'[w].pc = task[w].pc /\ task'[w].rsync = s
         /\ task'[w].list = task[w].list /\ task'[w].read = task[w].read
<1> DEFINE r == [task[w] EXCEPT !.rsync = s]
<1>1. task \in [Workers -> Rsync!Tasks] /\ task[w] \in Rsync!Tasks
  BY RsyncTyped
<1>2. r \in Rsync!Tasks
  BY <1>1 DEF Rsync!Tasks
<1>3. task' = [task EXCEPT ![w] = r]
  BY <1>1 DEF Rsync!Becomes
<1>4. /\ r.pc = task[w].pc /\ r.stdin = task[w].stdin /\ r.at = task[w].at
      /\ r.seen = task[w].seen /\ r.logged = task[w].logged
      /\ r.rsync = s /\ r.list = task[w].list /\ r.read = task[w].read
  BY <1>1 DEF Rsync!Tasks
<1> HIDE DEF r
<1>5. QED
  BY <1>2, <1>3, <1>4, RsyncSet DEF Own, SameStdin

LEMMA RsyncReads ==
  ASSUME Rsync!TypeOK, NEW w \in Workers, task' = [task EXCEPT ![w].read = FALSE]
  PROVE  /\ Own(w) /\ SameStdin(w) /\ SameProcess(w)
         /\ task'[w].pc = task[w].pc /\ ~task'[w].read
<1> DEFINE r == [task[w] EXCEPT !.read = FALSE]
<1>1. task \in [Workers -> Rsync!Tasks] /\ task[w] \in Rsync!Tasks
  BY RsyncTyped
<1>2. r \in Rsync!Tasks
  BY <1>1 DEF Rsync!Tasks
<1>3. task' = [task EXCEPT ![w] = r]
  BY <1>1
<1>4. /\ r.pc = task[w].pc /\ r.stdin = task[w].stdin /\ r.at = task[w].at
      /\ r.seen = task[w].seen /\ r.logged = task[w].logged
      /\ r.rsync = task[w].rsync /\ r.list = task[w].list /\ ~r.read
  BY <1>1 DEF Rsync!Tasks
<1> HIDE DEF r
<1>5. QED
  BY <1>2, <1>3, <1>4, RsyncSet DEF Own, SameStdin, SameProcess

LEMMA RsyncTakes ==
  ASSUME Rsync!TypeOK, NEW w \in Workers, NEW p \in Paths,
         task' = [task EXCEPT ![w].list = @ \ {p}]
  PROVE  /\ Own(w) /\ SameStdin(w)
         /\ task'[w].pc = task[w].pc /\ task'[w].rsync = task[w].rsync
         /\ task'[w].list = task[w].list \ {p} /\ task'[w].read = task[w].read
<1> DEFINE l == task[w].list \ {p}
           r == [task[w] EXCEPT !.list = l]
<1>1. /\ task \in [Workers -> Rsync!Tasks] /\ task[w] \in Rsync!Tasks
      /\ l \in SUBSET Rsync!Paths
  BY RsyncTyped, RsyncWorld
<1>2. task' = [task EXCEPT ![w] = r]
  BY <1>1
<1>3. l = task[w].list \ {p}
  OBVIOUS
<1> HIDE DEF l
<1>4. r \in Rsync!Tasks
  BY <1>1 DEF Rsync!Tasks
<1>5. /\ r.pc = task[w].pc /\ r.stdin = task[w].stdin /\ r.at = task[w].at
      /\ r.seen = task[w].seen /\ r.logged = task[w].logged
      /\ r.rsync = task[w].rsync /\ r.list = l /\ r.read = task[w].read
  BY <1>1 DEF Rsync!Tasks
<1> HIDE DEF r
<1>6. QED
  BY <1>2, <1>3, <1>4, <1>5, RsyncSet DEF Own, SameStdin

LEMMA RsyncLooks ==
  ASSUME Rsync!TypeOK, NEW w \in Workers, NEW s \in {"write", "act"},
         NEW x \in Nodes \cup {"error"}, task' = [task EXCEPT ![w].stdin = s, ![w].seen = x]
  PROVE  /\ Own(w) /\ SameProcess(w)
         /\ task'[w].stdin = s /\ task'[w].at = task[w].at /\ task'[w].seen = x
         /\ task'[w].logged = task[w].logged
         /\ task'[w].pc = task[w].pc /\ task'[w].read = task[w].read
<1> DEFINE r == [task[w] EXCEPT !.stdin = s, !.seen = x]
<1>1. task \in [Workers -> Rsync!Tasks] /\ task[w] \in Rsync!Tasks /\ Rsync!Nodes = Nodes
  BY RsyncTyped, RsyncWorld
<1>2. r \in Rsync!Tasks
  BY <1>1 DEF Rsync!Tasks
<1>3. task' = [task EXCEPT ![w] = r]
  BY <1>1
<1>4. /\ r.pc = task[w].pc /\ r.stdin = s /\ r.at = task[w].at /\ r.seen = x
      /\ r.rsync = task[w].rsync /\ r.list = task[w].list /\ r.read = task[w].read
      /\ r.logged = task[w].logged
  BY <1>1 DEF Rsync!Tasks
<1> HIDE DEF r
<1>5. QED
  BY <1>2, <1>3, <1>4, RsyncSet DEF Own, SameProcess

(* The goroutine's loop goes on. *)
Advanced(w) ==
  /\ task'[w].seen = "absent" /\ task'[w].at \in DOMAIN Chunk[w]
  /\ task[w].at = Len(Chunk[w]) => task'[w].stdin = "done"
  /\ task[w].at # Len(Chunk[w]) => task'[w].stdin = "next" /\ task'[w].at = task[w].at + 1

LEMMA RsyncLeaves ==
  ASSUME Rsync!TypeOK, NEW w \in Workers, NEW bad \in BOOLEAN, Rsync!Leave(w, bad)
  PROVE  /\ Own(w) /\ SameProcess(w) /\ Advanced(w)
         /\ task'[w].logged = task[w].logged \cup (IF bad THEN {Rsync!Entry(w)} ELSE {})
         /\ task'[w].pc = task[w].pc /\ task'[w].read = task[w].read
<1> DEFINE f == IF bad THEN task[w].logged \cup {Rsync!Entry(w)} ELSE task[w].logged
           s == IF task[w].at = Len(Chunk[w]) THEN "done" ELSE "next"
           a == IF task[w].at = Len(Chunk[w]) THEN 1 ELSE task[w].at + 1
           r == [task[w] EXCEPT !.logged = f, !.seen = "absent", !.stdin = s, !.at = a]
<1>1. /\ task \in [Workers -> Rsync!Tasks] /\ task[w] \in Rsync!Tasks
      /\ task[w].logged \in SUBSET Paths /\ Rsync!Entry(w) \in Paths
      /\ task[w].at \in 1..Len(Chunk[w]) /\ Len(Chunk[w]) \in Nat
      /\ DOMAIN Chunk[w] = 1..Len(Chunk[w])
  BY RsyncTyped, ChunkFacts
<1>2. a \in 1..Len(Chunk[w])
  BY <1>1
<1>3. f \in SUBSET Rsync!Paths
  BY <1>1, RsyncWorld
<1>4. f = task[w].logged \cup (IF bad THEN {Rsync!Entry(w)} ELSE {})
  OBVIOUS
<1>5. s \in {"done", "next"} /\ a \in Nat /\ "absent" \in Rsync!Nodes
  BY <1>1, <1>2 DEF Rsync!Nodes
<1>6. task' = [task EXCEPT ![w] = r]
  BY <1>1 DEF Rsync!Leave
<1>7. /\ task[w].at = Len(Chunk[w]) => s = "done"
      /\ task[w].at # Len(Chunk[w]) => s = "next" /\ a = task[w].at + 1
  OBVIOUS
<1> HIDE DEF f, s, a
<1>8. r \in Rsync!Tasks
  BY <1>1, <1>3, <1>5 DEF Rsync!Tasks
<1>9. /\ r.pc = task[w].pc /\ r.stdin = s /\ r.at = a /\ r.seen = "absent"
      /\ r.rsync = task[w].rsync /\ r.list = task[w].list /\ r.read = task[w].read
      /\ r.logged = f
  BY <1>1 DEF Rsync!Tasks
<1> HIDE DEF r
<1>10. /\ task' \in [Workers -> Rsync!Tasks] /\ task'[w] = r
       /\ \A v \in Workers : v # w => task'[v] = task[v]
  BY <1>6, <1>8, RsyncSet
<1>11. Advanced(w)
  BY <1>1, <1>2, <1>7, <1>9, <1>10 DEF Advanced
<1>12. QED
  BY <1>4, <1>9, <1>10, <1>11 DEF Own, SameProcess

LEMMA RsyncWrites ==
  ASSUME Rsync!TypeOK, NEW w \in Workers, Rsync!Write(w)
  PROVE  /\ Own(w) /\ Advanced(w)
         /\ task'[w].list = task[w].list \cup {Rsync!Entry(w)}
         /\ task'[w].logged = task[w].logged /\ task'[w].rsync = task[w].rsync
         /\ task'[w].pc = task[w].pc /\ task'[w].read = task[w].read
<1> DEFINE l == task[w].list \cup {Rsync!Entry(w)}
           s == IF task[w].at = Len(Chunk[w]) THEN "done" ELSE "next"
           a == IF task[w].at = Len(Chunk[w]) THEN 1 ELSE task[w].at + 1
           r == [task[w] EXCEPT !.list = l, !.seen = "absent", !.stdin = s, !.at = a]
<1>1. /\ task \in [Workers -> Rsync!Tasks] /\ task[w] \in Rsync!Tasks
      /\ task[w].list \in SUBSET Paths /\ Rsync!Entry(w) \in Paths
      /\ task[w].at \in 1..Len(Chunk[w]) /\ Len(Chunk[w]) \in Nat
      /\ DOMAIN Chunk[w] = 1..Len(Chunk[w])
  BY RsyncTyped, ChunkFacts
<1>2. a \in 1..Len(Chunk[w])
  BY <1>1
<1>3. l \in SUBSET Rsync!Paths
  BY <1>1, RsyncWorld
<1>4. l = task[w].list \cup {Rsync!Entry(w)}
  OBVIOUS
<1>5. s \in {"done", "next"} /\ a \in Nat /\ "absent" \in Rsync!Nodes
  BY <1>1, <1>2 DEF Rsync!Nodes
<1>6. task' = [task EXCEPT ![w] = r]
  BY <1>1 DEF Rsync!Write
<1>7. /\ task[w].at = Len(Chunk[w]) => s = "done"
      /\ task[w].at # Len(Chunk[w]) => s = "next" /\ a = task[w].at + 1
  OBVIOUS
<1> HIDE DEF l, s, a
<1>8. r \in Rsync!Tasks
  BY <1>1, <1>3, <1>5 DEF Rsync!Tasks
<1>9. /\ r.pc = task[w].pc /\ r.stdin = s /\ r.at = a /\ r.seen = "absent"
      /\ r.rsync = task[w].rsync /\ r.list = l /\ r.read = task[w].read
      /\ r.logged = task[w].logged
  BY <1>1 DEF Rsync!Tasks
<1> HIDE DEF r
<1>10. /\ task' \in [Workers -> Rsync!Tasks] /\ task'[w] = r
       /\ \A v \in Workers : v # w => task'[v] = task[v]
  BY <1>6, <1>8, RsyncSet
<1>11. Advanced(w)
  BY <1>1, <1>2, <1>7, <1>9, <1>10 DEF Advanced
<1>12. QED
  BY <1>4, <1>9, <1>10, <1>11 DEF Own

LEMMA RsyncLaunches ==
  ASSUME Rsync!TypeOK, NEW w \in Workers,
         task' = [task EXCEPT ![w].pc = "wait", ![w].stdin = "next", ![w].at = 1,
                               ![w].rsync = "runs", ![w].list = {}, ![w].logged = {},
                               ![w].read = TRUE]
  PROVE  /\ Own(w)
         /\ task'[w].pc = "wait" /\ task'[w].stdin = "next" /\ task'[w].at = 1
         /\ task'[w].rsync = "runs" /\ task'[w].list = {}
<1> DEFINE r == [task[w] EXCEPT !.pc = "wait", !.stdin = "next", !.at = 1, !.rsync = "runs",
                                !.list = {}, !.logged = {}, !.read = TRUE]
<1>1. task \in [Workers -> Rsync!Tasks] /\ task[w] \in Rsync!Tasks
  BY RsyncTyped
<1>2. r \in Rsync!Tasks
  BY <1>1 DEF Rsync!Tasks
<1>3. task' = [task EXCEPT ![w] = r]
  BY <1>1
<1>4. r.pc = "wait" /\ r.stdin = "next" /\ r.at = 1 /\ r.rsync = "runs" /\ r.list = {}
  BY <1>1 DEF Rsync!Tasks
<1> HIDE DEF r
<1>5. QED
  BY <1>2, <1>3, <1>4, RsyncSet DEF Own

-----------------------------------------------------------------------------
(* rsync: what a worker counts on *)

Held(w) == Rsync!LookHolds(w) /\ Rsync!StatesFit(w) /\ Rsync!BehindArranged(w)

Passing(w) == IF task[w].stdin = "done" THEN DOMAIN Chunk[w] ELSE 1..task[w].at - 1

(* What a step of a worker makes of the source and the configuration. *)
Steady == gone' = gone /\ port' = port

(* What a worker's own state says, with Lstat and the sets written out. *)
LEMMA RsyncHolds ==
  ASSUME Rsync!TypeOK, NEW w \in Workers, Held(w), NEW p, p = Rsync!Entry(w)
  PROVE  /\ p \in Paths /\ Kind[p] \in {"dir", "link", "file"} /\ node[p] \in Nodes
         /\ task[w].stdin = "act" =>
              /\ ~port /\ Kind[p] # "file" /\ task[w].seen # "error"
              /\ Kind[p] = "link" => node[p] # Kind[p]
              /\ Kind[p] = "dir" /\ task[w].seen \notin Dirs \cup {"absent"}
                   => node[p] \notin Dirs \cup {"absent"}
         /\ ~port => /\ task[w].stdin = "write" => Kind[p] = "file"
                     /\ \A q \in task[w].list : Kind[q] = "file"
         /\ task[w].pc # "wait" =>
              /\ task[w].stdin = "done" /\ ~task[w].read
              /\ task[w].rsync \notin {"runs", "signalled"}
         /\ task[w].rsync = "ok" => task[w].stdin = "done" /\ task[w].list = {}
         /\ task[w].pc = "nil" => task[w].rsync = "ok"
         /\ task[w].rsync \in {"runs", "ok"} =>
              \A i \in Passing(w) :
                Chunk[w][i] \in task[w].list \/ Rsync!Arranged(w, Chunk[w][i])
<1>1. p \in Paths /\ Kind[p] \in {"dir", "link", "file"} /\ node[p] \in Nodes
  BY RsyncTyped, TreeFacts
<1>2. Rsync!LookHolds(w) /\ Rsync!StatesFit(w) /\ Rsync!BehindArranged(w)
  BY DEF Held
<1>3. /\ task[w].stdin = "act" =>
           /\ ~port /\ Kind[p] # "file" /\ task[w].seen # "error"
           /\ Kind[p] = "link" => node[p] # Kind[p]
           /\ Kind[p] = "dir" /\ task[w].seen \notin Dirs \cup {"absent"}
                => node[p] \notin Dirs \cup {"absent"}
      /\ ~port => /\ task[w].stdin = "write" => Kind[p] = "file"
                  /\ \A q \in task[w].list : Kind[q] = "file"
  BY <1>2, RsyncWorld DEF Rsync!LookHolds, Rsync!Right
<1>4. /\ task[w].pc # "wait" =>
           /\ task[w].stdin = "done" /\ ~task[w].read
           /\ task[w].rsync \notin {"runs", "signalled"}
      /\ task[w].rsync = "ok" => task[w].stdin = "done" /\ task[w].list = {}
      /\ task[w].pc = "nil" => task[w].rsync = "ok"
  BY <1>2 DEF Rsync!StatesFit
<1>5. task[w].rsync \in {"runs", "ok"} =>
        \A i \in Passing(w) :
          Chunk[w][i] \in task[w].list \/ Rsync!Arranged(w, Chunk[w][i])
  BY <1>2 DEF Rsync!BehindArranged, Passing
<1>6. QED
  BY <1>1, <1>3, <1>4, <1>5

(* What has been arranged stays so. *)
LEMMA ArrangedKept ==
  ASSUME NEW p, Touched(p), gone \subseteq gone', port' = port, NEW w, NEW q \in Paths,
         Rsync!Arranged(w, q), task[w].logged \subseteq task'[w].logged
  PROVE  Rsync!Arranged(w, q)'
<1>1. /\ Kind[q] = "dir" /\ node[q] \in Dirs => node'[q] \in Dirs
      /\ node[q] = Kind[q] => node'[q] = Kind[q]
  BY TouchedKeeps
<1>2. QED
  BY <1>1 DEF Rsync!Arranged, Rsync!Right, Rsync!Dirs, Dirs

LEMMA PassingPaths ==
  ASSUME Rsync!TypeOK, NEW w \in Workers
  PROVE  /\ Passing(w) \subseteq DOMAIN Chunk[w]
         /\ \A i \in Passing(w) : Chunk[w][i] \in Paths
<1>1. task[w].at \in 1..Len(Chunk[w]) /\ Len(Chunk[w]) \in Nat
      /\ DOMAIN Chunk[w] = 1..Len(Chunk[w])
  BY RsyncTyped, ChunkFacts
<1>2. Passing(w) \subseteq DOMAIN Chunk[w]
  BY <1>1 DEF Passing
<1>3. QED
  BY <1>2, ChunkFacts

(* A worker that does not move keeps what it counts on. *)
LEMMA RsyncKept ==
  ASSUME Rsync!TypeOK, NEW v \in Workers, Held(v), task'[v] = task[v],
         NEW p, task[v].stdin = "act" => p # Rsync!Entry(v), Touched(p),
         gone \subseteq gone', port' = port
  PROVE  Held(v)'
<1>1. PICK e \in Paths : e = Rsync!Entry(v)
  BY RsyncTyped
<1>2. Rsync!Entry(v)' = e
  BY <1>1 DEF Rsync!Entry
<1>3. task[v].stdin = "act" =>
        /\ Kind[e] = "link" => node'[e] = node[e]
        /\ node[e] \notin Dirs \cup {"absent"} => node'[e] = node[e]
  BY <1>1, TouchedKeeps
<1>4. Rsync!LookHolds(v)'
  BY <1>1, <1>2, <1>3, RsyncHolds, RsyncWorld
  DEF Rsync!LookHolds, Rsync!Right, Rsync!Dirs, Dirs
<1>5. Rsync!StatesFit(v)'
  BY DEF Held, Rsync!StatesFit
<1>6. Rsync!BehindArranged(v)'
  <2>1. Passing(v)' = Passing(v)
    BY DEF Passing
  <2>2. ASSUME task[v].rsync \in {"runs", "ok"}, NEW i \in Passing(v)
        PROVE  Chunk[v][i] \in task[v].list \/ Rsync!Arranged(v, Chunk[v][i])'
    BY <1>1, <2>2, RsyncHolds, PassingPaths, ArrangedKept
  <2>3. QED
    BY <2>1, <2>2 DEF Rsync!BehindArranged, Passing
<1>7. QED
  BY <1>4, <1>5, <1>6 DEF Held

(* The goroutine has not moved, and nothing was taken from the list. *)
LEMMA RsyncStill ==
  ASSUME Rsync!TypeOK, NEW w \in Workers, Held(w), Steady, node' = node,
         SameStdin(w), task'[w].list = task[w].list,
         task'[w].rsync \in {"runs", "ok"} => task[w].rsync \in {"runs", "ok"},
         Rsync!StatesFit(w)'
  PROVE  Held(w)'
<1>1. PICK e \in Paths : e = Rsync!Entry(w)
  BY RsyncTyped
<1>2. Rsync!Entry(w)' = e
  BY <1>1 DEF Rsync!Entry, SameStdin
<1>3. Rsync!LookHolds(w)'
  BY <1>1, <1>2, RsyncHolds, RsyncWorld
  DEF Rsync!LookHolds, Rsync!Right, Rsync!Dirs, Dirs, SameStdin, Steady
<1>4. Rsync!BehindArranged(w)'
  <2>1. Passing(w)' = Passing(w)
    BY DEF Passing, SameStdin
  <2>2. ASSUME task[w].rsync \in {"runs", "ok"}, NEW i \in Passing(w)
        PROVE  Chunk[w][i] \in task[w].list \/ Rsync!Arranged(w, Chunk[w][i])'
    BY <1>1, <2>2, RsyncHolds, PassingPaths, ArrangedKept, NothingTouched
    DEF Steady, SameStdin
  <2>3. QED
    BY <2>1, <2>2 DEF Rsync!BehindArranged, Passing
<1>5. QED
  BY <1>3, <1>4 DEF Held

(* The goroutine is done with an entry: it is arranged, or on the list. *)
LEMMA RsyncAdvances ==
  ASSUME Rsync!TypeOK, NEW w \in Workers, Held(w), Steady, Advanced(w),
         NEW p, p = Rsync!Entry(w), Touched(p), task[w].stdin \in {"next", "act", "write"},
         \/ task'[w].list = task[w].list
         \/ task[w].stdin = "write" /\ task'[w].list = task[w].list \cup {p},
         task[w].logged \subseteq task'[w].logged,
         task'[w].rsync = task[w].rsync, task'[w].pc = task[w].pc, task'[w].read = task[w].read,
         task[w].rsync = "runs" => p \in task'[w].list \/ Rsync!Arranged(w, p)'
  PROVE  Held(w)'
<1>1. /\ task[w].pc = "wait" /\ task[w].rsync # "ok" /\ task'[w].stdin \in {"next", "done"}
      /\ task[w].at \in 1..Len(Chunk[w]) /\ Len(Chunk[w]) \in Nat
      /\ DOMAIN Chunk[w] = 1..Len(Chunk[w]) /\ p = Chunk[w][task[w].at]
  BY RsyncHolds, RsyncTyped, ChunkFacts DEF Advanced
<1>2. Rsync!LookHolds(w)'
  <2>1. ~port' => \A q \in task'[w].list : Kind[q] = "file"
    <3>1. /\ ~port => /\ task[w].stdin = "write" => Kind[p] = "file"
                      /\ \A q \in task[w].list : Kind[q] = "file"
      BY RsyncHolds
    <3>2. QED
      BY <3>1 DEF Steady
  <2>2. QED
    BY <1>1, <2>1 DEF Rsync!LookHolds
<1>3. Rsync!StatesFit(w)'
  BY <1>1 DEF Rsync!StatesFit
<1>4. Rsync!BehindArranged(w)'
  <2>1. ASSUME task[w].rsync = "runs", NEW i \in 1..task[w].at
        PROVE  Chunk[w][i] \in task'[w].list \/ Rsync!Arranged(w, Chunk[w][i])'
    <3>1. CASE i = task[w].at
      BY <1>1, <2>1, <3>1
    <3>2. CASE i # task[w].at
      <4>1. i \in 1..task[w].at - 1 /\ i \in DOMAIN Chunk[w]
        BY <1>1, <3>2
      <4>2. i \in Passing(w) /\ Chunk[w][i] \in Paths
        BY <4>1, ChunkFacts DEF Passing
      <4>3. Chunk[w][i] \in task[w].list \/ Rsync!Arranged(w, Chunk[w][i])
        BY <2>1, <4>2, RsyncHolds
      <4>4. QED
        BY <4>2, <4>3, ArrangedKept DEF Steady
    <3>3. QED
      BY <3>1, <3>2
  <2>2. Passing(w)' = 1..task[w].at
    <3>1. CASE task[w].at = Len(Chunk[w])
      BY <1>1, <3>1 DEF Passing, Advanced
    <3>2. CASE task[w].at # Len(Chunk[w])
      <4>1. task'[w].stdin = "next" /\ task'[w].at - 1 = task[w].at
        BY <1>1, <3>2 DEF Advanced
      <4>2. QED
        BY <4>1 DEF Passing
    <3>3. QED
      BY <3>1, <3>2
  <2>3. QED
    BY <1>1, <2>1, <2>2 DEF Rsync!BehindArranged, Passing
<1>5. QED
  BY <1>2, <1>3, <1>4 DEF Held

-----------------------------------------------------------------------------
(* rsync: one action of a worker, or of the process or goroutines next to it *)

(* The change is at an entry no other worker has in hand. *)
Aside(w, p) ==
  /\ node' \in Leftovers /\ Touched(p)
  /\ \A v \in Workers : v # w /\ task[v].stdin = "act" => p # Rsync!Entry(v)

Stepped(w) ==
  /\ Own(w) /\ task'[w].at \in DOMAIN Chunk[w]
  /\ Held(w)'
  /\ \E p : Aside(w, p)

(* What every action finds. *)
Begins(w, p) ==
  /\ p = Rsync!Entry(w) /\ Rsync!TypeOK /\ Rsync!Matches /\ Steady

LEMMA RsyncBegins ==
  ASSUME NEW w \in Workers, NEW p, Begins(w, p)
  PROVE  /\ Held(w) /\ p \in Paths
         /\ \A v \in Workers : v # w => p # Rsync!Entry(v)
         /\ task[w].at \in DOMAIN Chunk[w] /\ node \in Leftovers /\ node \in [Paths -> Nodes]
<1>1. /\ p \in Paths /\ task[w].at \in DOMAIN Chunk[w] /\ p = Chunk[w][task[w].at]
      /\ node \in Leftovers /\ node \in [Paths -> Nodes]
  BY RsyncTyped DEF Begins
<1>2. Held(w)
  BY RsyncWorld DEF Begins, Rsync!Matches, Held
<1>3. ASSUME NEW v \in Workers, v # w
      PROVE  p # Rsync!Entry(v)
  BY <1>1, <1>3, RsyncTyped, ChunksDisjoint DEF Begins
<1>4. QED
  BY <1>1, <1>2, <1>3

LEMMA RsyncAside ==
  ASSUME NEW w \in Workers, NEW p, Begins(w, p), node' \in Leftovers, Touched(p)
  PROVE  Aside(w, p)
BY RsyncBegins DEF Aside

(* Nothing is changed in the tree, and the goroutine has not moved. *)
LEMMA RsyncStays ==
  ASSUME NEW w \in Workers, NEW p, Begins(w, p), node' = node, Own(w), SameStdin(w),
         task'[w].list = task[w].list,
         task'[w].rsync \in {"runs", "ok"} => task[w].rsync \in {"runs", "ok"},
         Rsync!StatesFit(w)'
  PROVE  Stepped(w)
<1>1. Held(w)'
  BY RsyncBegins, RsyncStill DEF Begins
<1>2. Aside(w, p)
  BY RsyncBegins, RsyncAside, NothingTouched
<1>3. QED
  BY <1>1, <1>2, RsyncBegins DEF Stepped, SameStdin

(* The goroutine leaves an entry. *)
LEMMA RsyncLeft ==
  ASSUME NEW w \in Workers, NEW p, Begins(w, p), node' \in Leftovers, Touched(p),
         task[w].stdin \in {"next", "act", "write"}, NEW bad \in BOOLEAN, Rsync!Leave(w, bad),
         task[w].rsync = "runs" => bad \/ Rsync!Arranged(w, p)'
  PROVE  Stepped(w)
<1>1. /\ Own(w) /\ SameProcess(w) /\ Advanced(w)
      /\ task'[w].logged = task[w].logged \cup (IF bad THEN {p} ELSE {})
      /\ task'[w].pc = task[w].pc /\ task'[w].read = task[w].read
  BY RsyncLeaves DEF Begins
<1>2. task[w].rsync = "runs" => Rsync!Arranged(w, p)'
  BY <1>1 DEF Rsync!Arranged
<1>3. Held(w)'
  BY <1>1, <1>2, RsyncBegins, RsyncAdvances DEF Begins, SameProcess
<1>4. QED
  BY <1>1, <1>3, RsyncAside DEF Stepped, Advanced

LEMMA RsyncStart ==
  ASSUME NEW w \in Workers, NEW p, Begins(w, p), Rsync!Start(w)
  PROVE  Stepped(w)
<1>1. PICK s \in {"error", "start"} : task' = [task EXCEPT ![w].pc = s, ![w].tries = 1]
  BY DEF Rsync!Start
<1>2. /\ Own(w) /\ SameStdin(w) /\ SameProcess(w)
      /\ task'[w].pc = s /\ task'[w].read = task[w].read
  BY <1>1, RsyncCounts DEF Begins
<1>3. task[w].pc = "idle" /\ node' = node
  BY DEF Rsync!Start
<1>4. Rsync!StatesFit(w)'
  BY <1>1, <1>2, <1>3, RsyncBegins, RsyncHolds
  DEF Rsync!StatesFit, SameStdin, SameProcess, Begins
<1>5. QED
  BY <1>2, <1>3, <1>4, RsyncStays DEF SameProcess

(* The chunk goes on, or is given up. *)
LEMMA RsyncGoesOn ==
  ASSUME NEW w \in Workers, NEW p, Begins(w, p), node' = node,
         NEW s \in {"start", "delay", "nil", "error"}, Rsync!Go(w, s),
         task[w].stdin = "done" /\ ~task[w].read,
         task[w].rsync \notin {"runs", "signalled"},
         s = "nil" => task[w].rsync = "ok"
  PROVE  Stepped(w)
<1>1. /\ Own(w) /\ SameStdin(w) /\ SameProcess(w)
      /\ task'[w].pc = s /\ task'[w].read = task[w].read
  BY RsyncGoes DEF Begins
<1>2. Rsync!StatesFit(w)'
  BY <1>1, RsyncBegins, RsyncHolds DEF Rsync!StatesFit, SameStdin, SameProcess, Begins
<1>3. QED
  BY <1>1, <1>2, RsyncStays DEF SameProcess

LEMMA RsyncFail ==
  ASSUME NEW w, Rsync!Fail(w)
  PROVE  \E s \in {"delay", "error"} : Rsync!Go(w, s)
BY DEF Rsync!Fail

LEMMA RsyncLaunch ==
  ASSUME NEW w \in Workers, NEW p, Begins(w, p), Rsync!Launch(w) \/ Rsync!LaunchFails(w)
  PROVE  Stepped(w)
<1>1. task[w].pc = "start" /\ node' = node
  BY DEF Rsync!Launch, Rsync!LaunchFails
<1>2. /\ task[w].stdin = "done" /\ ~task[w].read
      /\ task[w].rsync \notin {"runs", "signalled"}
  BY <1>1, RsyncBegins, RsyncHolds DEF Begins
<1>3. CASE Rsync!Fail(w)
  BY <1>1, <1>2, <1>3, RsyncFail, RsyncGoesOn
<1>4. CASE task' = [task EXCEPT ![w].pc = "wait", ![w].stdin = "next", ![w].at = 1,
                                ![w].rsync = "runs", ![w].list = {}, ![w].logged = {},
                                ![w].read = TRUE]
  <2>1. /\ Own(w)
        /\ task'[w].pc = "wait" /\ task'[w].stdin = "next" /\ task'[w].at = 1
        /\ task'[w].rsync = "runs" /\ task'[w].list = {}
    BY <1>4, RsyncLaunches DEF Begins
  <2>2. Rsync!LookHolds(w)' /\ Rsync!StatesFit(w)'
    BY <2>1 DEF Rsync!LookHolds, Rsync!StatesFit
  <2>3. Rsync!BehindArranged(w)'
    BY <2>1 DEF Rsync!BehindArranged
  <2>4. Aside(w, p)
    BY <1>1, RsyncBegins, RsyncAside, NothingTouched
  <2>5. QED
    BY <2>1, <2>2, <2>3, <2>4, ChunkFacts DEF Stepped, Held
<1>5. QED
  BY <1>3, <1>4 DEF Rsync!Launch, Rsync!LaunchFails

LEMMA RsyncJoin ==
  ASSUME NEW w \in Workers, NEW p, Begins(w, p), Rsync!Join(w)
  PROVE  Stepped(w)
<1>1. /\ task[w].stdin = "done" /\ ~task[w].read /\ node' = node
      /\ task[w].rsync \in {"ok", "retry", "fatal"}
  BY DEF Rsync!Join, Rsync!Exited
<1>2. \/ task[w].rsync = "ok" /\ Rsync!Go(w, "nil")
      \/ Rsync!Fail(w) \/ Rsync!Go(w, "error")
  BY <1>1 DEF Rsync!Join, Rsync!Judge
<1>3. QED
  BY <1>1, <1>2, RsyncFail, RsyncGoesOn

LEMMA RsyncRetry ==
  ASSUME NEW w \in Workers, NEW p, Begins(w, p), Rsync!Retry(w)
  PROVE  Stepped(w)
<1>1. task[w].pc = "delay" /\ node' = node
  BY DEF Rsync!Retry
<1>2. /\ task[w].stdin = "done" /\ ~task[w].read
      /\ task[w].rsync \notin {"runs", "signalled"}
  BY <1>1, RsyncBegins, RsyncHolds DEF Begins
<1>3. CASE Rsync!Go(w, "error")
  BY <1>1, <1>2, <1>3, RsyncGoesOn
<1>4. CASE task' = [task EXCEPT ![w].pc = "start", ![w].tries = @ + 1]
  <2>1. PICK n : n = task[w].tries + 1
    OBVIOUS
  <2>2. n \in Nat
    BY <2>1, RsyncTyped DEF Begins
  <2>3. task' = [task EXCEPT ![w].pc = "start", ![w].tries = n]
    BY <1>4, <2>1, RsyncTyped DEF Begins
  <2>4. /\ Own(w) /\ SameStdin(w) /\ SameProcess(w)
        /\ task'[w].pc = "start" /\ task'[w].read = task[w].read
    BY <2>2, <2>3, RsyncCounts DEF Begins
  <2>5. Rsync!StatesFit(w)'
    BY <1>2, <2>4, RsyncBegins, RsyncHolds
    DEF Rsync!StatesFit, SameStdin, SameProcess, Begins
  <2>6. QED
    BY <1>1, <2>4, <2>5, RsyncStays DEF SameProcess
<1>5. QED
  BY <1>3, <1>4 DEF Rsync!Retry

(* rsync ends, dies, is signalled or stopped. *)
LEMMA RsyncProcess ==
  ASSUME NEW w \in Workers, NEW p, Begins(w, p),
         \/ Rsync!RsyncEnds(w) \/ Rsync!RsyncDies(w) \/ Rsync!RsyncStops(w)
         \/ Rsync!Signal(w)
  PROVE  Stepped(w)
<1>1. /\ task[w].rsync \in {"runs", "signalled"} /\ node' = node
      /\ \E s \in {"ok", "retry", "fatal", "signalled"} :
           /\ Rsync!Becomes(w, s)
           /\ s = "ok" => task[w].stdin = "done" /\ task[w].list = {} /\ task[w].rsync = "runs"
  BY DEF Rsync!RsyncEnds, Rsync!RsyncDies, Rsync!RsyncStops, Rsync!Signal
<1>2. PICK s \in {"ok", "retry", "fatal", "signalled"} :
           /\ Rsync!Becomes(w, s)
           /\ s = "ok" => task[w].stdin = "done" /\ task[w].list = {} /\ task[w].rsync = "runs"
  BY <1>1
<1>3. /\ Own(w) /\ SameStdin(w)
      /\ task'[w].pc = task[w].pc /\ task'[w].rsync = s
      /\ task'[w].list = task[w].list /\ task'[w].read = task[w].read
  BY <1>2, RsyncBecomes DEF Begins
<1>4. task[w].pc = "wait"
  BY <1>1, RsyncBegins, RsyncHolds DEF Begins
<1>5. Rsync!StatesFit(w)'
  BY <1>2, <1>3, <1>4 DEF Rsync!StatesFit, SameStdin
<1>6. QED
  BY <1>1, <1>2, <1>3, <1>5, RsyncStays

LEMMA RsyncReadersEnd ==
  ASSUME NEW w \in Workers, NEW p, Begins(w, p), Rsync!ReadersEnd(w)
  PROVE  Stepped(w)
<1>1. task' = [task EXCEPT ![w].read = FALSE] /\ node' = node
  BY DEF Rsync!ReadersEnd
<1>2. /\ Own(w) /\ SameStdin(w) /\ SameProcess(w)
      /\ task'[w].pc = task[w].pc /\ ~task'[w].read
  BY <1>1, RsyncReads DEF Begins
<1>3. Rsync!StatesFit(w)'
  BY <1>2, RsyncBegins, RsyncHolds DEF Rsync!StatesFit, SameStdin, SameProcess, Begins
<1>4. QED
  BY <1>1, <1>2, <1>3, RsyncStays DEF SameProcess

LEMMA RsyncLook ==
  ASSUME NEW w \in Workers, NEW p, Begins(w, p), Rsync!Look(w)
  PROVE  Stepped(w)
<1> DEFINE found == Rsync!Lstat(p)
<1>1. /\ task[w].stdin = "next" /\ node' = node /\ p = Rsync!Entry(w) /\ p \in Paths
      /\ Held(w) /\ node' \in Leftovers /\ Touched(p) /\ Kind[p] \in {"dir", "link", "file"}
      /\ found \in Nodes \cup {"error"} /\ (found # "error" => found = node[p])
  BY RsyncBegins, NothingTouched, TreeFacts, RsyncLstat DEF Begins, Rsync!Look
<1> HIDE DEF found
<1>2. CASE Rsync!Leave(w, TRUE)
  BY <1>1, <1>2, RsyncLeft
<1>3. CASE Rsync!Leave(w, FALSE) /\ Kind[p] = "link" /\ found = "link"
  <2>1. Rsync!Arranged(w, p)'
    BY <1>1, <1>3 DEF Rsync!Arranged, Rsync!Right
  <2>2. QED
    BY <1>1, <1>3, <2>1, RsyncLeft
<1>4. ASSUME NEW s \in {"write", "act"},
             task' = [task EXCEPT ![w].stdin = s, ![w].seen = found],
             s = "act" => /\ ~port /\ Kind[p] # "file" /\ found # "error"
                          /\ Kind[p] = "link" => found # "link",
             s = "write" => port \/ Kind[p] = "file"
      PROVE  Stepped(w)
  <2>1. /\ Own(w) /\ SameProcess(w)
        /\ task'[w].stdin = s /\ task'[w].at = task[w].at /\ task'[w].seen = found
        /\ task'[w].logged = task[w].logged
        /\ task'[w].pc = task[w].pc /\ task'[w].read = task[w].read
    BY <1>1, <1>4, RsyncLooks DEF Begins
  <2>2. Rsync!Entry(w)' = p
    BY <1>1, <2>1 DEF Rsync!Entry
  <2>3. task[w].pc = "wait" /\ task[w].rsync # "ok"
        /\ (~port => \A q \in task[w].list : Kind[q] = "file")
    BY <1>1, RsyncHolds DEF Begins
  <2>4. Rsync!LookHolds(w)'
    <3>1. ~port' => \A q \in task'[w].list : Kind[q] = "file"
      BY <2>1, <2>3 DEF SameProcess, Begins, Steady
    <3>2. s = "act" => /\ ~port' /\ node'[p] = found
                       /\ Kind[p] = "link" => node'[p] # Kind[p]
      BY <1>1, <1>4 DEF Begins, Steady
    <3>3. QED
      BY <1>4, <2>1, <2>2, <3>1, <3>2 DEF Rsync!LookHolds, Rsync!Right, Begins, Steady
  <2>5. Rsync!StatesFit(w)'
    BY <2>1, <2>3 DEF Rsync!StatesFit, SameProcess
  <2>6. Rsync!BehindArranged(w)'
    <3>1. Passing(w)' = Passing(w)
      BY <1>1, <2>1 DEF Passing
    <3>2. ASSUME task[w].rsync = "runs", NEW i \in Passing(w)
          PROVE  Chunk[w][i] \in task[w].list \/ Rsync!Arranged(w, Chunk[w][i])'
      <4>1. Chunk[w][i] \in Paths
        BY PassingPaths DEF Begins
      <4>2. Chunk[w][i] \in task[w].list \/ Rsync!Arranged(w, Chunk[w][i])
        BY <1>1, <3>2, RsyncHolds DEF Begins
      <4>3. QED
        BY <1>1, <2>1, <4>1, <4>2, ArrangedKept DEF Begins, Steady
    <3>3. QED
      BY <2>1, <2>3, <3>1, <3>2 DEF Rsync!BehindArranged, Passing, SameProcess
  <2>7. QED
    BY <1>1, <2>1, <2>4, <2>5, <2>6, RsyncAside, RsyncBegins DEF Stepped, Held
<1>5. QED
  <2>1. CASE port
    <3>1. task' = [task EXCEPT ![w].stdin = "write", ![w].seen = found]
      BY <1>1, <2>1 DEF Rsync!Look, found
    <3>2. QED
      BY <1>4, <2>1, <3>1
  <2>2. CASE ~port /\ Kind[p] = "file"
    <3>1. \/ task' = [task EXCEPT ![w].stdin = "write", ![w].seen = found]
          \/ Rsync!Leave(w, TRUE)
      BY <1>1, <2>2 DEF Rsync!Look, found
    <3>2. QED
      BY <1>2, <1>4, <2>2, <3>1
  <2>3. CASE ~port /\ Kind[p] # "file"
    <3>1. CASE found = "error"
      BY <1>1, <1>2, <2>3, <3>1 DEF Rsync!Look, found
    <3>2. CASE found # "error" /\ Kind[p] = "link" /\ found = "link"
      BY <1>1, <1>3, <2>3, <3>2 DEF Rsync!Look, found
    <3>3. CASE found # "error" /\ ~(Kind[p] = "link" /\ found = "link")
      <4>1. task' = [task EXCEPT ![w].stdin = "act", ![w].seen = found]
        BY <1>1, <2>3, <3>3 DEF Rsync!Look, found
      <4>2. QED
        BY <1>4, <2>3, <3>3, <4>1
    <3>4. QED
      BY <3>1, <3>2, <3>3
  <2>4. QED
    BY <2>1, <2>2, <2>3

LEMMA RsyncMakeDirectory ==
  ASSUME NEW w \in Workers, NEW p, Begins(w, p), Rsync!MakeDirectory(w)
  PROVE  Stepped(w)
<1>1. /\ task[w].stdin = "act" /\ Kind[p] = "dir" /\ p = Rsync!Entry(w) /\ p \in Paths
      /\ Held(w) /\ node \in Leftovers /\ node \in [Paths -> Nodes]
  BY RsyncBegins DEF Begins, Rsync!MakeDirectory
<1>2. task[w].seen \notin Dirs \cup {"absent"} => node[p] \notin Dirs \cup {"absent"}
  BY <1>1, RsyncHolds DEF Begins
<1>3. CASE Rsync!Leave(w, TRUE) /\ node' = node
  BY <1>1, <1>3, RsyncLeft, NothingTouched
<1>4. CASE Rsync!Lstat(p) # "error"
  <2>1. \A q \in Above[p] : node[q] \in Dirs \cup {"absent"}
    BY <1>1, <1>4, RsyncLstat DEF Begins
  <2>2. /\ node' = IF task[w].seen \notin Dirs
                   THEN Made(IF task[w].seen = "absent" THEN node ELSE Removed(node, p), p)
                   ELSE IF node[p] \in Dirs THEN [node EXCEPT ![p] = "dir"] ELSE node
        /\ Rsync!Leave(w, node'[p] \notin Dirs)
    BY <1>1, <1>4, RsyncWorld DEF Rsync!MakeDirectory
  <2>3. node' \in Leftovers /\ Touched(p)
    <3>1. CASE task[w].seen = "absent"
      <4>1. node' = Made(node, p)
        BY <2>2, <3>1 DEF Dirs
      <4>2. QED
        BY <1>1, <2>1, <4>1, MakeTouches
    <3>2. CASE task[w].seen \notin Dirs \cup {"absent"}
      <4>1. node' = Made(Removed(node, p), p)
        BY <2>2, <3>2
      <4>2. QED
        BY <1>1, <1>2, <2>1, <3>2, <4>1, ReplaceTouches
    <3>3. CASE task[w].seen \in Dirs /\ node[p] \in Dirs
      <4>1. node' = [node EXCEPT ![p] = "dir"] /\ "dir" \in Nodes /\ "dir" \in Dirs
            /\ "dir" \notin Links
        BY <2>2, <3>3 DEF Nodes, Dirs, Links
      <4>2. \A q \in Above[p] : node[q] \in Dirs
        BY <1>1, <3>3, LeftoversDef DEF Dirs
      <4>3. QED
        BY <1>1, <4>1, <4>2, SetTouches
    <3>4. CASE task[w].seen \in Dirs /\ node[p] \notin Dirs
      BY <1>1, <2>2, <3>4, NothingTouched
    <3>5. QED
      BY <3>1, <3>2, <3>3, <3>4
  <2>4. node'[p] \in Dirs => Rsync!Arranged(w, p)'
    BY <1>1 DEF Rsync!Arranged, Rsync!Dirs, Dirs
  <2>5. CASE node'[p] \in Dirs
    <3>1. Rsync!Leave(w, FALSE)
      BY <2>2, <2>5, Zenon
    <3>2. QED
      BY <1>1, <2>3, <2>4, <2>5, <3>1, RsyncLeft
  <2>6. CASE node'[p] \notin Dirs
    <3>1. Rsync!Leave(w, TRUE)
      BY <2>2, <2>6, Zenon
    <3>2. QED
      BY <1>1, <2>3, <3>1, RsyncLeft
  <2>7. QED
    BY <2>5, <2>6
<1>5. QED
  BY <1>1, <1>3, <1>4 DEF Rsync!MakeDirectory

LEMMA RsyncMakeLink ==
  ASSUME NEW w \in Workers, NEW p, Begins(w, p), Rsync!MakeLink(w)
  PROVE  Stepped(w)
<1>1. /\ task[w].stdin = "act" /\ Kind[p] = "link" /\ p = Rsync!Entry(w) /\ p \in Paths
      /\ Held(w) /\ node \in Leftovers /\ node \in [Paths -> Nodes]
  BY RsyncBegins DEF Begins, Rsync!MakeLink
<1>2. node[p] # "link"
  BY <1>1, RsyncHolds DEF Begins
<1>3. PICK k : k = IF task[w].seen # "absent" THEN Removed(node, p)
                   ELSE IF Parent[p] = Root \/ Rsync!Lstat(p) = "error" THEN node
                   ELSE Made(node, Parent[p])
  OBVIOUS
<1>4. k \in Leftovers /\ \A q \in Paths : \/ k[q] = node[q]
                                          \/ /\ Kind[q] = "dir" /\ node[q] = "absent"
                                             /\ k[q] \in Dirs
                                          \/ q = p
  <2>1. CASE k = node
    BY <1>1, <2>1
  <2>2. CASE k = Removed(node, p)
    <3>1. Removed(node, p) = [node EXCEPT ![p] = "absent"] /\ Removed(node, p) \in Leftovers
      BY <1>1, RemovedOnly
    <3>2. QED
      BY <1>1, <2>2, <3>1
  <2>3. CASE Parent[p] # Root /\ Rsync!Lstat(p) # "error" /\ k = Made(node, Parent[p])
    <3>1. \A q \in Above[p] : node[q] \in Dirs \cup {"absent"}
      BY <1>1, <2>3, RsyncLstat DEF Begins
    <3>2. /\ Parent[p] \in Above[p] /\ Parent[p] \in Paths /\ Kind[Parent[p]] = "dir"
          /\ Above[Parent[p]] \subseteq Above[p]
      BY <1>1, <2>3, TreeFacts
    <3>3. \A q \in Above[Parent[p]] \cup {Parent[p]} : Kind[q] = "dir"
      BY <3>2, TreeFacts
    <3>4. MkdirMode \in Dirs
      BY TreeAssumption DEF Dirs
    <3>5. /\ Made(node, Parent[p]) \in Leftovers
          /\ \A q \in Paths :
               \/ Made(node, Parent[p])[q] = node[q]
               \/ /\ q \in Above[Parent[p]] \cup {Parent[p]} /\ node[q] = "absent"
                  /\ Made(node, Parent[p])[q] = MkdirMode
      BY <1>1, <3>1, <3>2, MadeOnly
    <3>6. QED
      BY <2>3, <3>3, <3>4, <3>5
  <2>4. QED
    BY <1>3, <2>1, <2>2, <2>3
<1>5. /\ \/ node' = [k EXCEPT ![p] = "link"] /\ Rsync!Private(k, Above[p])
            /\ Rsync!Leave(w, FALSE)
         \/ node' = k /\ Rsync!Leave(w, TRUE)
  BY <1>1, <1>3, RsyncWorld, Zenon DEF Rsync!MakeLink
<1>6. Rsync!Private(k, Above[p]) => \A q \in Above[p] : k[q] \in Dirs
  BY DEF Rsync!Private, Dirs
<1>7. node' \in Leftovers /\ Touched(p)
  BY <1>1, <1>2, <1>4, <1>5, <1>6, LinkTouches
<1>8. CASE node' = k /\ Rsync!Leave(w, TRUE)
  BY <1>1, <1>7, <1>8, RsyncLeft
<1>9. CASE node' = [k EXCEPT ![p] = "link"] /\ Rsync!Leave(w, FALSE)
  <2>1. node'[p] = Kind[p]
    BY <1>1, <1>4, <1>9, LeftoversDef
  <2>2. Rsync!Arranged(w, p)'
    BY <2>1 DEF Rsync!Arranged, Rsync!Right
  <2>3. QED
    BY <1>1, <1>7, <1>9, <2>2, RsyncLeft
<1>10. QED
  BY <1>5, <1>8, <1>9

LEMMA RsyncWrite ==
  ASSUME NEW w \in Workers, NEW p, Begins(w, p), Rsync!Write(w)
  PROVE  Stepped(w)
<1>1. /\ Own(w) /\ Advanced(w)
      /\ task'[w].list = task[w].list \cup {p}
      /\ task'[w].logged = task[w].logged /\ task'[w].rsync = task[w].rsync
      /\ task'[w].pc = task[w].pc /\ task'[w].read = task[w].read
  BY RsyncWrites DEF Begins
<1>2. task[w].stdin = "write" /\ node' = node
  BY DEF Rsync!Write
<1>3. node' \in Leftovers /\ Touched(p) /\ Held(w)
  BY <1>2, RsyncBegins, NothingTouched
<1>4. Held(w)'
  BY <1>1, <1>2, <1>3, RsyncAdvances DEF Begins
<1>5. QED
  BY <1>1, <1>3, <1>4, RsyncAside DEF Stepped, Advanced

(* The pipe is broken, or a call fails. *)
LEMMA RsyncFails ==
  ASSUME NEW w \in Workers, NEW p, Begins(w, p), Rsync!WriteFails(w) \/ Rsync!StdinFails(w)
  PROVE  Stepped(w)
<1>1. task[w].stdin \in {"next", "act", "write"} /\ node' = node
  BY DEF Rsync!WriteFails, Rsync!StdinFails
<1>2. node' \in Leftovers /\ Touched(p)
  BY <1>1, RsyncBegins, NothingTouched
<1>3. CASE Rsync!WriteFails(w)
  <2>1. task[w].rsync # "runs" /\ Rsync!Leave(w, FALSE)
    BY <1>3 DEF Rsync!WriteFails, Rsync!Exited
  <2>2. QED
    BY <1>1, <1>2, <2>1, RsyncLeft
<1>4. CASE Rsync!StdinFails(w)
  BY <1>1, <1>2, <1>4, RsyncLeft DEF Rsync!StdinFails
<1>5. QED
  BY <1>3, <1>4

(* rsync takes a path from the list. *)
LEMMA RsyncTransfer ==
  ASSUME NEW w \in Workers, NEW e, Begins(w, e), Rsync!Transfer(w)
  PROVE  Stepped(w)
<1>1. /\ e = Rsync!Entry(w) /\ e \in Paths /\ Held(w) /\ Rsync!TypeOK
      /\ node \in Leftovers /\ node \in [Paths -> Nodes]
      /\ gone \subseteq {q \in Paths : Kind[q] = "file"} /\ task[w].list \subseteq Paths
      /\ gone' = gone /\ port' = port
  BY RsyncBegins, RsyncTyped DEF Begins, Steady
<1>2. PICK p \in task[w].list :
        /\ Rsync!Lstat(p) # "error"
        /\ task' = [task EXCEPT ![w].list = @ \ {p}]
        /\ node' = CASE p \in gone \/ Kind[p] = "link" -> node
                     [] Kind[p] = "dir" -> Made(IF node[p] \in Dirs THEN node
                                                ELSE Removed(node, p), p)
                     [] OTHER -> [Made(Removed(node, p), p) EXCEPT ![p] = "file"]
  BY RsyncWorld DEF Rsync!Transfer
<1>3. p \in Paths /\ Kind[p] \in {"dir", "link", "file"}
  BY <1>1, TreeFacts
<1>4. \A q \in Above[p] : node[q] \in Dirs \cup {"absent"}
  BY <1>1, <1>2, <1>3, RsyncLstat
<1>5. /\ task[w].rsync = "runs" /\ task[w].pc = "wait"
      /\ ~port => \A q \in task[w].list : Kind[q] = "file"
      /\ task[w].stdin = "act" => ~port /\ Kind[e] # "file"
      /\ task[w].stdin = "write" /\ ~port => Kind[e] = "file"
  BY <1>1, RsyncHolds DEF Rsync!Transfer
<1>6. /\ node' \in Leftovers /\ Touched(p)
      /\ Kind[p] = "dir" => node'[p] \in Dirs
      /\ Kind[p] = "file" => p \in gone \/ node'[p] = "file"
  <2>1. CASE p \in gone \/ Kind[p] = "link"
    <3>1. node' = node
      BY <1>1, <1>2, <2>1
    <3>2. QED
      BY <1>1, <2>1, <3>1, NothingTouched
  <2>2. CASE Kind[p] = "dir"
    <3>1. p \notin gone
      BY <1>1, <2>2
    <3>2. CASE node[p] \in Dirs
      <4>1. node' = Made(node, p)
        BY <1>2, <2>2, <3>1, <3>2
      <4>2. Touched(p) /\ node' \in Leftovers
        BY <1>1, <1>3, <1>4, <2>2, <4>1, MakeTouches
      <4>3. QED
        BY <1>3, <2>2, <3>2, <4>2, TouchedKeeps
    <3>3. CASE node[p] \notin Dirs
      <4>1. node' = Made(Removed(node, p), p)
        BY <1>2, <2>2, <3>1, <3>3
      <4>2. QED
        BY <1>1, <1>3, <1>4, <2>2, <3>3, <4>1, ReplaceTouches
    <3>4. QED
      BY <3>2, <3>3
  <2>3. CASE Kind[p] = "file" /\ p \notin gone
    <3>1. node' = [Made(Removed(node, p), p) EXCEPT ![p] = "file"]
      BY <1>2, <2>3
    <3>2. QED
      BY <1>1, <1>3, <1>4, <2>3, <3>1, FileTouches
  <2>4. QED
    BY <1>3, <2>1, <2>2, <2>3
<1>7. /\ Own(w) /\ SameStdin(w)
      /\ task'[w].pc = task[w].pc /\ task'[w].rsync = task[w].rsync
      /\ task'[w].list = task[w].list \ {p} /\ task'[w].read = task[w].read
  BY <1>1, <1>2, <1>3, RsyncTakes
<1>8. Rsync!Entry(w)' = e
  BY <1>1, <1>7 DEF Rsync!Entry, SameStdin
<1>9. Rsync!LookHolds(w)'
  <2>1. task[w].stdin = "act" =>
          /\ Kind[e] = "link" => node[e] # Kind[e]
          /\ task[w].seen # "error"
          /\ Kind[e] = "dir" /\ task[w].seen \notin Dirs \cup {"absent"}
               => node[e] \notin Dirs \cup {"absent"}
    BY <1>1, RsyncHolds
  <2>2. task[w].stdin = "act" => p # e
    BY <1>5
  <2>3. task[w].stdin = "act" =>
          /\ Kind[e] = "link" => node'[e] # Kind[e]
          /\ Kind[e] = "dir" /\ task[w].seen \notin Dirs \cup {"absent"}
               => node'[e] \notin Dirs \cup {"absent"}
    BY <1>1, <1>6, <2>1, <2>2, TouchedKeeps
  <2>4. QED
    BY <1>1, <1>5, <1>7, <1>8, <2>1, <2>3
    DEF Rsync!LookHolds, Rsync!Right, Rsync!Dirs, Dirs, SameStdin
<1>10. Rsync!StatesFit(w)'
  BY <1>5, <1>7 DEF Rsync!StatesFit, SameStdin
<1>11. Rsync!BehindArranged(w)'
  <2>1. Rsync!Arranged(w, p)'
    <3>1. CASE Kind[p] = "link"
      BY <1>1, <1>5, <3>1 DEF Rsync!Arranged
    <3>2. CASE Kind[p] # "link"
      BY <1>1, <1>3, <1>6, <3>2 DEF Rsync!Arranged, Rsync!Right, Rsync!Dirs, Dirs
    <3>3. QED
      BY <3>1, <3>2
  <2>2. Passing(w)' = Passing(w)
    BY <1>7 DEF Passing, SameStdin
  <2>3. ASSUME NEW i \in Passing(w)
        PROVE  Chunk[w][i] \in task'[w].list \/ Rsync!Arranged(w, Chunk[w][i])'
    <3>1. Chunk[w][i] \in Paths
      BY <1>1, PassingPaths
    <3>2. Chunk[w][i] \in task[w].list \/ Rsync!Arranged(w, Chunk[w][i])
      BY <1>1, <1>5, RsyncHolds
    <3>3. CASE Chunk[w][i] = p
      BY <2>1, <3>3
    <3>4. CASE Rsync!Arranged(w, Chunk[w][i])
      BY <1>1, <1>6, <1>7, <3>1, <3>4, ArrangedKept DEF SameStdin
    <3>5. QED
      BY <1>7, <3>2, <3>3, <3>4
  <2>4. QED
    BY <2>2, <2>3 DEF Rsync!BehindArranged, Passing
<1>12. ASSUME NEW v \in Workers, v # w, task[v].stdin = "act"
       PROVE  p # Rsync!Entry(v)
  <2>1. Held(v)
    BY RsyncWorld DEF Begins, Rsync!Matches, Held
  <2>2. ~port /\ Kind[Rsync!Entry(v)] # "file"
    BY <1>1, <1>12, <2>1, RsyncHolds
  <2>3. QED
    BY <1>5, <2>2
<1>13. Aside(w, p)
  BY <1>6, <1>12 DEF Aside
<1>14. QED
  BY <1>7, <1>9, <1>10, <1>11, <1>13, RsyncBegins DEF Stepped, Held, SameStdin

LEMMA RsyncMoves ==
  ASSUME NEW w \in Workers, NEW p, Begins(w, p),
         \/ Rsync!Execute(w) \/ Rsync!Stdin(w) \/ Rsync!Process(w) \/ Rsync!RsyncStops(w)
         \/ Rsync!ReadersEnd(w) \/ Rsync!Faults(w)
  PROVE  Stepped(w)
BY RsyncStart, RsyncLaunch, RsyncJoin, RsyncRetry, RsyncProcess, RsyncReadersEnd, RsyncLook,
   RsyncMakeDirectory, RsyncMakeLink, RsyncWrite, RsyncFails, RsyncTransfer
DEF Rsync!Execute, Rsync!Stdin, Rsync!Process, Rsync!Faults

LEMMA RsyncFaults ==
  ASSUME Rsync!WorldTypeOK, Rsync!Fault
  PROVE  faults' \in 0..MaxFaults
BY TreeAssumption DEF Rsync!WorldTypeOK, Rsync!Fault

(* A step of a worker, or of what runs next to it. *)
LEMMA RsyncWorkers ==
  ASSUME Rsync!TypeOK, Rsync!Matches, UNCHANGED port, NEW w \in Workers,
         \/ Rsync!Execute(w) \/ Rsync!Stdin(w) \/ Rsync!Process(w) \/ Rsync!RsyncStops(w)
         \/ Rsync!ReadersEnd(w) \/ Rsync!Faults(w)
  PROVE  Rsync!TypeOK' /\ Rsync!Matches' /\ \E p : Touched(p)
<1>1. /\ gone' = gone /\ ctxDone' = ctxDone /\ port' = port
      /\ faults' = faults \/ Rsync!Fault
  BY DEF Rsync!Execute, Rsync!Stdin, Rsync!Process, Rsync!RsyncStops, Rsync!ReadersEnd,
         Rsync!Faults, Rsync!Start, Rsync!Launch, Rsync!Signal, Rsync!Join, Rsync!Retry,
         Rsync!Look, Rsync!MakeDirectory, Rsync!MakeLink, Rsync!WriteFails, Rsync!Write,
         Rsync!Transfer, Rsync!RsyncEnds, Rsync!LaunchFails, Rsync!StdinFails,
         Rsync!RsyncDies, Rsync!Works
<1>2. PICK e : Begins(w, e)
  BY <1>1 DEF Begins, Steady
<1>3. Stepped(w)
  BY <1>2, RsyncMoves
<1>4. PICK p : Aside(w, p)
  BY <1>3 DEF Stepped
<1>5. ASSUME NEW v \in Workers
      PROVE  task'[v].at \in DOMAIN Chunk[v] /\ Held(v)'
  <2>1. CASE v = w
    BY <1>3, <2>1 DEF Stepped
  <2>2. CASE v # w
    <3>1. Held(v) /\ task'[v] = task[v]
      BY <1>3, <2>2, RsyncWorld DEF Stepped, Own, Rsync!Matches, Held
    <3>2. task[v].stdin = "act" => p # Rsync!Entry(v)
      BY <1>4, <2>2 DEF Aside
    <3>3. Touched(p)
      BY <1>4 DEF Aside
    <3>4. Held(v)'
      BY <1>1, <3>1, <3>2, <3>3, RsyncKept
    <3>5. QED
      BY <3>1, <3>4, RsyncTyped
  <2>3. QED
    BY <2>1, <2>2
<1>6. Rsync!WorldTypeOK'
  BY <1>1, <1>4, RsyncWorld, RsyncFaults DEF Aside, Rsync!TypeOK, Rsync!WorldTypeOK
<1>7. Rsync!TypeOK'
  BY <1>1, <1>3, <1>5, <1>6, ChunkFacts, RsyncWorld DEF Stepped, Own, Rsync!TypeOK
<1>8. Rsync!Matches'
  BY <1>5, RsyncWorld DEF Rsync!Matches, Held
<1>9. QED
  BY <1>4, <1>7, <1>8 DEF Aside

(* The records of a run that begins. *)
LEMMA RsyncFresh ==
  ASSUME NEW t, t = [w \in Workers |-> Rsync!Fresh]
  PROVE  /\ t \in [Workers -> Rsync!Tasks]
         /\ \A w \in Workers : /\ t[w].at \in 1..Len(Chunk[w])
                               /\ t[w].pc = "idle" /\ t[w].stdin = "done" /\ t[w].list = {}
                               /\ t[w].rsync = "none" /\ ~t[w].read
<1>1. Rsync!Fresh \in Rsync!Tasks
  BY DEF Rsync!Fresh, Rsync!Tasks, Rsync!Nodes
<1>2. QED
  BY <1>1, ChunkFacts DEF Rsync!Fresh

LEMMA RsyncStep ==
  ASSUME Rsync!TypeOK, Rsync!Matches, Rsync!Next
  PROVE  Rsync!TypeOK' /\ Rsync!Matches' /\ \E p : Touched(p)
<1>1. UNCHANGED port
  BY DEF Rsync!Next
<1>2. ASSUME NEW w \in Workers,
             \/ Rsync!Execute(w) \/ Rsync!Stdin(w) \/ Rsync!Process(w) \/ Rsync!RsyncStops(w)
             \/ Rsync!ReadersEnd(w) \/ Rsync!Faults(w)
      PROVE  Rsync!TypeOK' /\ Rsync!Matches' /\ \E p : Touched(p)
  BY <1>1, <1>2, RsyncWorkers
<1>3. CASE Rsync!Rerun
  <2>1. task' = [w \in Workers |-> Rsync!Fresh] /\ node' = node
    BY <1>3, RsyncWorld DEF Rsync!Rerun
  <2>2. Rsync!WorldTypeOK'
    BY <1>3 DEF Rsync!Rerun, Rsync!TypeOK, Rsync!WorldTypeOK
  <2>3. /\ task' \in [Workers -> Rsync!Tasks]
        /\ \A w \in Workers : /\ task'[w].at \in 1..Len(Chunk[w])
                              /\ task'[w].pc = "idle" /\ task'[w].stdin = "done"
                              /\ task'[w].list = {} /\ task'[w].rsync = "none"
                              /\ ~task'[w].read
    BY <2>1, RsyncFresh
  <2>4. Rsync!TypeOK'
    BY <1>1, <2>2, <2>3, RsyncWorld DEF Rsync!TypeOK
  <2>5. ASSUME NEW w \in Workers
        PROVE  (Rsync!LookHolds(w) /\ Rsync!StatesFit(w) /\ Rsync!BehindArranged(w))'
    BY <2>3 DEF Rsync!LookHolds, Rsync!StatesFit, Rsync!BehindArranged
  <2>6. QED
    BY <2>1, <2>4, <2>5, RsyncWorld, NothingTouched DEF Rsync!Matches
<1>4. CASE (Rsync!Vanish \/ Rsync!Cancel) /\ UNCHANGED task
  <2>1. /\ node' = node /\ task' = task /\ gone \subseteq gone' /\ Rsync!Fault
        /\ ctxDone' \in BOOLEAN /\ gone' \subseteq {p \in Rsync!Paths : Kind[p] = "file"}
    BY <1>4 DEF Rsync!Vanish, Rsync!Cancel, Rsync!TypeOK, Rsync!WorldTypeOK
  <2>2. ASSUME NEW v \in Workers
        PROVE  Held(v)'
    <3>1. Held(v) /\ Root # Rsync!Entry(v)
      BY RsyncTyped, RsyncWorld, TreeAssumption DEF Rsync!Matches, Held
    <3>2. QED
      BY <1>1, <2>1, <3>1, RsyncKept, NothingTouched
  <2>3. Rsync!WorldTypeOK'
    BY <2>1, RsyncFaults DEF Rsync!TypeOK, Rsync!WorldTypeOK
  <2>4. Rsync!TypeOK'
    BY <1>1, <2>1, <2>3 DEF Rsync!TypeOK
  <2>5. QED
    BY <2>1, <2>2, <2>4, RsyncWorld, NothingTouched DEF Rsync!Matches, Held
<1>5. QED
  BY <1>2, <1>3, <1>4, RsyncWorld DEF Rsync!Next

-----------------------------------------------------------------------------
(* Both methods *)

LEMMA WorldSame ==
  /\ Native!WorldTypeOK <=> Rsync!WorldTypeOK
  /\ Native!WorldTypeOK' <=> Rsync!WorldTypeOK'
<1>1. Native!Leftovers = Leftovers /\ Rsync!Leftovers = Leftovers
  BY NativeWorld, RsyncWorld
<1>2. QED
  BY <1>1
  DEF Native!WorldTypeOK, Rsync!WorldTypeOK, Native!Paths, Rsync!Paths

(* The other method's workers do not move, whatever becomes of the tree. *)
LEMMA NativeIdle ==
  ASSUME Native!WorldTypeOK', Native!TypeOK, UNCHANGED job,
         \A w \in Workers : job[w] = Native!Fresh
  PROVE  Native!TypeOK' /\ Native!Matches'
<1>1. Native!TypeOK'
  BY DEF Native!TypeOK
<1>2. \A w \in Workers : /\ job'[w].pc = "idle" /\ job'[w].at = 1 /\ job'[w].seen = "absent"
                         /\ ~job'[w].stop
  BY DEF Native!Fresh
<1>3. ASSUME NEW w \in Workers
      PROVE  (Native!LstatHolds(w) /\ Native!StepsFit(w) /\ Native!BehindSettled(w))'
  BY <1>2 DEF Native!LstatHolds, Native!StepsFit, Native!BehindSettled, Native!Behind,
              Native!At, Native!Passed
<1>4. QED
  BY <1>1, <1>3 DEF Native!Matches, Native!Workers, Workers

LEMMA RsyncIdle ==
  ASSUME Rsync!WorldTypeOK', Rsync!TypeOK, UNCHANGED <<port, task>>,
         \A w \in Workers : task[w] = Rsync!Fresh
  PROVE  Rsync!TypeOK' /\ Rsync!Matches'
<1>1. Rsync!TypeOK'
  BY DEF Rsync!TypeOK
<1>2. \A w \in Workers : /\ task'[w].pc = "idle" /\ task'[w].stdin = "done"
                         /\ task'[w].list = {} /\ task'[w].rsync = "none" /\ ~task'[w].read
  BY DEF Rsync!Fresh
<1>3. ASSUME NEW w \in Workers
      PROVE  (Rsync!LookHolds(w) /\ Rsync!StatesFit(w) /\ Rsync!BehindArranged(w))'
  BY <1>2 DEF Rsync!LookHolds, Rsync!StatesFit, Rsync!BehindArranged
<1>4. QED
  BY <1>1, <1>3, RsyncWorld DEF Rsync!Matches

LEMMA InitCopy == Init => IInv
<1>1. SUFFICES ASSUME Init PROVE IInv
  OBVIOUS
<1>2. /\ job = [w \in Workers |-> Native!Fresh] /\ task = [w \in Workers |-> Rsync!Fresh]
      /\ useRsync \in BOOLEAN /\ port \in BOOLEAN
  BY <1>1, RsyncWorld DEF Init, Native!Init, Rsync!Init, Native!Workers, Workers
<1>3. Native!WorldTypeOK
  <2>1. node \in Native!Leftovers /\ ctxDone = FALSE /\ gone = {} /\ faults = 0
    BY <1>1 DEF Init, Native!Init, Native!WorldInit
  <2>2. 0 \in 0..MaxFaults
    BY TreeAssumption
  <2>3. QED
    BY <2>1, <2>2 DEF Native!WorldTypeOK
<1>4. /\ job \in [Workers -> Native!Jobs]
      /\ \A w \in Workers : /\ job[w].at \in 1..Len(Chunk[w])
                            /\ job[w].pc = "idle" /\ job[w].at = 1 /\ job[w].seen = "absent"
                            /\ job[w].failed = {} /\ ~job[w].stop
  BY <1>2, NativeFresh
<1>5. /\ task \in [Workers -> Rsync!Tasks]
      /\ \A w \in Workers : /\ task[w].at \in 1..Len(Chunk[w])
                            /\ task[w].pc = "idle" /\ task[w].stdin = "done"
                            /\ task[w].list = {} /\ task[w].rsync = "none" /\ ~task[w].read
  BY <1>2, RsyncFresh
<1>6. Native!TypeOK
  BY <1>3, <1>4 DEF Native!TypeOK, Native!Workers, Workers
<1>7. Rsync!TypeOK
  BY <1>2, <1>3, <1>5, WorldSame, RsyncWorld DEF Rsync!TypeOK
<1>8. ASSUME NEW w \in Workers
      PROVE  Native!LstatHolds(w) /\ Native!StepsFit(w) /\ Native!BehindSettled(w)
  BY <1>4 DEF Native!LstatHolds, Native!StepsFit, Native!BehindSettled, Native!Behind,
              Native!At, Native!Passed
<1>9. ASSUME NEW w \in Workers
      PROVE  Rsync!LookHolds(w) /\ Rsync!StatesFit(w) /\ Rsync!BehindArranged(w)
  BY <1>5 DEF Rsync!LookHolds, Rsync!StatesFit, Rsync!BehindArranged
<1>10. Native!Matches
  BY <1>8 DEF Native!Matches, Native!Workers, Workers
<1>11. Rsync!Matches
  BY <1>9, RsyncWorld DEF Rsync!Matches
<1>12. QED
  BY <1>2, <1>6, <1>7, <1>10, <1>11 DEF IInv, TypeOK

LEMMA StepCopy == IInv /\ [Next]_vars => IInv'
<1>1. SUFFICES ASSUME IInv, [Next]_vars PROVE IInv'
  OBVIOUS
<1>2. /\ Native!TypeOK /\ Rsync!TypeOK /\ useRsync \in BOOLEAN
      /\ Native!Matches /\ Rsync!Matches
      /\ useRsync => \A w \in Workers : job[w] = Native!Fresh
      /\ ~useRsync => \A w \in Workers : task[w] = Rsync!Fresh
  BY <1>1 DEF IInv, TypeOK
<1>3. CASE Natively(Native!Next)
  <2>1. ~useRsync /\ useRsync' = useRsync /\ UNCHANGED <<port, task>> /\ Native!Next
    BY <1>3 DEF Natively
  <2>2. Native!TypeOK' /\ Native!Matches'
    BY <1>2, <2>1, NativeStep
  <2>3. Rsync!WorldTypeOK'
    BY <2>2, WorldSame DEF Native!TypeOK
  <2>4. Rsync!TypeOK' /\ Rsync!Matches'
    BY <1>2, <2>1, <2>3, RsyncIdle
  <2>5. QED
    BY <1>2, <2>1, <2>2, <2>4 DEF IInv, TypeOK
<1>4. CASE ByRsync(Rsync!Next)
  <2>1. useRsync /\ useRsync' = useRsync /\ UNCHANGED job /\ Rsync!Next
    BY <1>4 DEF ByRsync
  <2>2. Rsync!TypeOK' /\ Rsync!Matches'
    BY <1>2, <2>1, RsyncStep
  <2>3. Native!WorldTypeOK'
    BY <2>2, WorldSame DEF Rsync!TypeOK
  <2>4. Native!TypeOK' /\ Native!Matches'
    BY <1>2, <2>1, <2>3, NativeIdle
  <2>5. QED
    BY <1>2, <2>1, <2>2, <2>4 DEF IInv, TypeOK
<1>5. CASE UNCHANGED vars
  BY <1>1, <1>5
  DEF vars, worldVars, IInv, TypeOK, Native!TypeOK, Native!WorldTypeOK, Native!Matches,
      Native!LstatHolds, Native!StepsFit, Native!BehindSettled, Native!Behind, Native!At,
      Native!Entry, Native!Right, Native!Lstat, Rsync!TypeOK, Rsync!WorldTypeOK,
      Rsync!Matches, Rsync!LookHolds, Rsync!StatesFit, Rsync!BehindArranged,
      Rsync!Arranged, Rsync!Entry, Rsync!Right
<1>6. QED
  BY <1>1, <1>3, <1>4, <1>5 DEF Next

(* In every run, whatever the workers, fail or not: what a worker's last   *)
(* Lstat decided still holds when it acts on it, where it matters, what    *)
(* its chunk has behind it is settled, and a run uses one method           *)
(* (native/copier.go:92-420, rsync/task.go:146-420).                       *)
THEOREM CopyInvariant == Spec => []IInv
<1>1. QED
  BY InitCopy, StepCopy, PTL DEF Spec

(* A chunk of the native copier that returns nil has each of its entries   *)
(* in place or vanished from the source; one of rsync's but for what its   *)
(* goroutine only logged, the modes of new directories and, with a port,   *)
(* links.  Unless the run was cancelled; for every tree, every split into  *)
(* chunks and every interleaving.                                          *)
THEOREM CopyNilMeansBuilt == Spec => []NilMeansBuilt
<1>1. IInv => NilMeansBuilt
  <2>1. SUFFICES ASSUME IInv, ~ctxDone, NEW w \in Workers, Nil(w), NEW i \in DOMAIN Chunk[w]
                 PROVE  Handled(w, Chunk[w][i])
    BY DEF NilMeansBuilt
  <2>2. Native!TypeOK /\ Rsync!TypeOK /\ Native!Matches /\ Rsync!Matches
    BY <2>1 DEF IInv, TypeOK
  <2>3. CASE useRsync
    <3>1. Held(w) /\ task[w].pc = "nil"
      BY <2>1, <2>2, <2>3, RsyncWorld DEF Rsync!Matches, Held, Nil
    <3>2. task[w].stdin = "done" /\ task[w].list = {} /\ task[w].rsync = "ok"
      BY <2>2, <3>1, RsyncHolds
    <3>3. Rsync!Arranged(w, Chunk[w][i])
      BY <2>1, <2>2, <3>1, <3>2, RsyncHolds DEF Passing
    <3>4. QED
      BY <2>3, <3>3, RsyncWorld DEF Rsync!Arranged, Rsync!Right, Handled, Right
  <2>4. CASE ~useRsync
    <3>1. /\ Native!BehindSettled(w) /\ Native!StepsFit(w) /\ job[w].pc = "nil"
          /\ job[w].failed = {}
      BY <2>1, <2>2, <2>4, NativeJob DEF Native!Matches, Native!Workers, Workers, Nil
    <3>2. ~job[w].stop /\ Native!Behind(w) = DOMAIN Chunk[w]
      BY <3>1 DEF Native!StepsFit, Native!Behind, Native!Passed
    <3>3. QED
      BY <2>1, <3>1, <3>2 DEF Native!BehindSettled, Native!Right, Handled, Right
  <2>5. QED
    BY <2>3, <2>4
<1>2. QED
  BY <1>1, CopyInvariant, PTL

(* When a chunk has returned, nothing next to its worker still reads the   *)
(* slice.                                                                  *)
THEOREM CopyListReleased == Spec => []ListReleased
<1>1. IInv => ListReleased
  BY RsyncWorld DEF IInv, ListReleased, Rsync!Matches, Rsync!StatesFit
<1>2. QED
  BY <1>1, CopyInvariant, PTL

(* The native copier's steps, and what they may change. *)
LEMMA NativeSpares ==
  ASSUME Native!TypeOK, Native!Matches, Native!Next
  PROVE  \E p : /\ Touched(p)
                /\ \A q \in Paths : node[q] \in Links /\ Kind[q] # "link" => node'[q] = node[q]
<1>1. CASE node' = node
  BY <1>1, NothingTouched
<1>2. ASSUME NEW w \in Workers,
             Native!Worker(w) \/ Native!CallFails(w) \/ Native!NoSpace(w), node' # node
      PROVE  \E p : /\ Touched(p)
                    /\ \A q \in Paths :
                         node[q] \in Links /\ Kind[q] # "link" => node'[q] = node[q]
  <2>1. PICK p \in Paths : p = Native!Entry(w)
    BY NativeTyped
  <2>2. Touched(p)
    BY <1>2, <2>1, NativeTouches
  <2>3. job[w].pc \in Native!Passed
    BY <1>2 DEF Native!Worker, Native!CallFails, Native!NoSpace, Native!Start, Native!Route,
                Native!LstatDir, Native!LstatLink, Native!LstatFile, Native!Remove,
                Native!Mkdir, Native!Chmod, Native!Parents, Native!MakeLink,
                Native!SourceGone, Native!MakeFile, Native!Rename, Native!Judge,
                Native!Retry, Native!At, Native!Passed
  <2>4. Kind[p] # "link" => node[p] \notin Links
    BY <2>1, <2>3
    DEF Native!Matches, Native!LstatHolds, Native!Workers, Workers, Native!Links, Links
  <2>5. ASSUME NEW q \in Paths, node[q] \in Links, Kind[q] # "link"
        PROVE  node'[q] = node[q]
    <3>1. q # p
      BY <2>4, <2>5
    <3>2. node[q] \notin Dirs \cup {"absent"}
      BY <2>5 DEF Dirs, Links
    <3>3. QED
      BY <2>2, <3>1, <3>2, TouchedKeeps
  <2>6. QED
    BY <2>2, <2>5
<1>3. QED
  BY <1>1, <1>2
  DEF Native!Next, Native!Workers, Workers, Native!Rerun, Native!Vanish, Native!Cancel

(* No step of a worker, and no rsync, takes away what is in place, and the *)
(* native copier leaves every link alone that stands for something else.   *)
THEOREM CopyUndamaged == Spec => Undamaged
<1>1. IInv /\ [Next]_vars =>
        [\A p \in Paths :
           /\ Right(p) => Right(p)'
           /\ ~useRsync /\ node[p] \in Links /\ Kind[p] # "link"
                => UNCHANGED node[p]]_vars
  <2>1. SUFFICES ASSUME IInv, Next, NEW q \in Paths
                 PROVE  /\ node[q] = Kind[q] => node'[q] = Kind[q]
                        /\ ~useRsync /\ node[q] \in Links /\ Kind[q] # "link"
                             => node'[q] = node[q]
    BY DEF Right
  <2>2. Native!TypeOK /\ Rsync!TypeOK /\ Native!Matches /\ Rsync!Matches
    BY <2>1 DEF IInv, TypeOK
  <2>3. CASE Natively(Native!Next)
    <3>1. Native!Next
      BY <2>3 DEF Natively
    <3>2. PICK p : /\ Touched(p)
                   /\ \A r \in Paths :
                        node[r] \in Links /\ Kind[r] # "link" => node'[r] = node[r]
      BY <2>2, <3>1, NativeSpares
    <3>3. QED
      BY <2>1, <3>2, TouchedKeeps
  <2>4. CASE ByRsync(Rsync!Next)
    <3>1. useRsync /\ Rsync!Next
      BY <2>4 DEF ByRsync
    <3>2. PICK p : Touched(p)
      BY <2>2, <3>1, RsyncStep
    <3>3. QED
      BY <2>1, <3>1, <3>2, TouchedKeeps
  <2>5. QED
    BY <2>1, <2>3, <2>4 DEF Next
<1>2. QED
  BY <1>1, CopyInvariant, PTL DEF Spec, Undamaged
=============================================================================
