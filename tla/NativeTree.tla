----------------------------- MODULE NativeTree -----------------------------
(***************************************************************************)
(* The native copier on a tree: several chunk workers put directories,     *)
(* symbolic links and files into one destination, in which anything may    *)
(* stand already.  Every check and every change is a step of its own, so   *)
(* one worker's check may be stale when it acts; system calls fail, files  *)
(* vanish from the source, the disk fills up, the run is cancelled, chunks *)
(* are retried and runs repeated.  What happens inside one file is         *)
(* NativeCopy's subject; here a file is right, wrong or absent.            *)
(***************************************************************************)
EXTENDS CopyWorld

VARIABLE job \* each worker: control state, position, what Lstat showed,
             \* entries that failed, attempts made, whether it is to give up

vars == <<worldVars, job>>

Fresh == [pc |-> "idle", at |-> 1, seen |-> "absent", failed |-> {},
          tries |-> 0, stop |-> FALSE]

Init == WorldInit /\ job = [w \in Workers |-> Fresh]

-----------------------------------------------------------------------------
Entry(w) == Chunk[w][job[w].at]

(* Worker w is at control state s with an entry of kind k. *)
At(w, s, k) == job[w].pc = s /\ Kind[Entry(w)] = k

Go(w, s) == job' = [job EXCEPT ![w].pc = s]

(* The entry is dealt with; a bad one is among the errors of the chunk. *)
Leave(w, bad) ==
  job' = [job EXCEPT ![w].failed = IF bad THEN @ \cup {Entry(w)} ELSE @,
                     ![w].seen = "absent",
                     ![w].pc = IF job[w].at = Len(Chunk[w]) THEN "judge" ELSE "route",
                     ![w].at = IF @ = Len(Chunk[w]) THEN 1 ELSE @ + 1]

(* The loop over the chunk is left before its end. *)
Break(w, errs) ==
  job' = [job EXCEPT ![w].failed = @ \cup errs, ![w].stop = (errs # {}),
                     ![w].seen = "absent", ![w].pc = "judge", ![w].at = 1]

Start(w) ==
  /\ job[w].pc = "idle"
  /\ job' = [job EXCEPT ![w].pc = IF ctxDone /\ Attempts > 0 THEN "error" ELSE "route",
                        ![w].tries = 1]
  /\ UNCHANGED node /\ Works

(* routeFileByTypes, and processDirectory's first check *)
Route(w) ==
  /\ job[w].pc = "route"
  /\ LET p == Entry(w) IN
       IF CASE Kind[p] = "dir"  -> NoSymlinkPath(p) /\ PrivatePrefix(Above[p])
            [] Kind[p] = "link" -> NoSymlinkAncestors(p)
            [] Kind[p] = "file" -> NoSymlinkPath(p)
       THEN Go(w, "lstat") ELSE Leave(w, TRUE)
  /\ UNCHANGED node /\ Works

Bug_RemovesOtherModes(w) ==
  /\ At(w, "lstat", "dir")
  /\ LET found == Lstat(Entry(w)) IN
       CASE found = "error"  -> Leave(w, TRUE)
         [] found = "absent" -> Go(w, "mkdir")
         [] found = "dir"    -> job' = [job EXCEPT ![w].pc = "chmod", ![w].seen = found]
         [] OTHER            -> Go(w, "remove")
  /\ UNCHANGED node /\ Works

Bug_KeepsWhatIsInTheWay(w) ==
  /\ At(w, "lstat", "dir")
  /\ LET found == Lstat(Entry(w)) IN
       CASE found = "absent" -> Go(w, "mkdir")
         [] found \in Dirs   -> job' = [job EXCEPT ![w].pc = "chmod", ![w].seen = found]
         [] OTHER            -> Leave(w, TRUE)
  /\ UNCHANGED node /\ Works

(* processDirectory *)
LstatDir(w) ==
  /\ At(w, "lstat", "dir")
  /\ LET found == Lstat(Entry(w)) IN
       CASE found = "error"  -> Leave(w, TRUE)
         [] found = "absent" -> Go(w, "mkdir")
         [] found \in Dirs   -> job' = [job EXCEPT ![w].pc = "chmod", ![w].seen = found]
         [] OTHER            -> Go(w, "remove")
  /\ UNCHANGED node /\ Works

(* What stands in the way, on the word of an earlier Lstat. *)
Remove(w) ==
  /\ job[w].pc = "remove"
  /\ node' = Removed(node, Entry(w))
  /\ Go(w, CASE Kind[Entry(w)] = "dir" -> "mkdir" [] Kind[Entry(w)] = "link" -> "make"
             [] OTHER -> "rename")
  /\ Works

Bug_MkdirTrustsUmask(w) ==
  /\ job[w].pc = "mkdir"
  /\ IF PrivatePrefix(Above[Entry(w)]) /\ Lstat(Entry(w)) \in Dirs \cup {"absent"}
     THEN node' = Made(node, Entry(w)) /\ Leave(w, FALSE)
     ELSE Leave(w, TRUE) /\ UNCHANGED node
  /\ Works

Mkdir(w) ==
  /\ job[w].pc = "mkdir"
  /\ IF PrivatePrefix(Above[Entry(w)]) /\ Lstat(Entry(w)) \in Dirs \cup {"absent"}
     THEN node' = Made(node, Entry(w)) /\ Go(w, "chmod")
     ELSE Leave(w, TRUE) /\ UNCHANGED node
  /\ Works

(* A directory open to others is refused, one with the mode wanted is up   *)
(* to date; the mode of any other one, and of a new one, is set.           *)
Chmod(w) ==
  /\ job[w].pc = "chmod"
  /\ LET p == Entry(w) IN
       IF PrivatePrefix(Above[p] \cup {p}) /\ Lstat(p) \in Dirs
       THEN /\ node' = IF job[w].seen = "dir" THEN node ELSE [node EXCEPT ![p] = "dir"]
            /\ Leave(w, FALSE)
       ELSE Leave(w, TRUE) /\ UNCHANGED node
  /\ Works

(* processSymbolicLink *)
LstatLink(w) ==
  /\ At(w, "lstat", "link")
  /\ LET found == Lstat(Entry(w)) IN
       CASE found = "error"  -> Leave(w, TRUE)
         [] found = "link"   -> Leave(w, FALSE)
         [] found = "absent" -> Go(w, "parents")
         [] OTHER            -> Go(w, "remove")
  /\ UNCHANGED node /\ Works

(* copyRegularFile's compareFile; a vanished source is no error. *)
LstatFile(w) ==
  /\ At(w, "lstat", "file")
  /\ LET found == Lstat(Entry(w)) IN
       CASE Entry(w) \in gone -> Leave(w, FALSE)
         [] Entry(w) \notin gone /\ found = "error"  -> Leave(w, TRUE)
         [] Entry(w) \notin gone /\ found = "file"   -> Leave(w, FALSE)
         [] Entry(w) \notin gone /\ found = "absent" -> Go(w, "parents")
         [] OTHER -> job' = [job EXCEPT ![w].pc = "make", ![w].seen = found]
  /\ UNCHANGED node /\ Works

(* The file has vanished before it could be opened. *)
SourceGone(w) ==
  /\ Kind[Entry(w)] = "file" /\ Entry(w) \in gone
  /\ job[w].pc = "parents" \/ (job[w].pc = "make" /\ job[w].seen # "absent")
  /\ Leave(w, FALSE)
  /\ UNCHANGED node /\ Works

(* makeParentsExist.  A parent that is no directory is removed and not     *)
(* made anew; but then the Lstat before this would have failed.            *)
Parents(w) ==
  /\ job[w].pc = "parents"
  /\ LET q == Parent[Entry(w)] IN
       IF q # Root => Lstat(q) \in Dirs THEN Go(w, "make") /\ UNCHANGED node
       ELSE CASE Lstat(q) = "error"  -> Leave(w, TRUE) /\ UNCHANGED node
              [] Lstat(q) = "absent" -> node' = Made(node, q) /\ Go(w, "make")
              [] OTHER               -> node' = Removed(node, q) /\ Go(w, "make")
  /\ Works

(* EnsurePrivatePath(parent) and Symlink *)
MakeLink(w) ==
  /\ At(w, "make", "link")
  /\ IF Private(node, Above[Entry(w)]) /\ node[Entry(w)] = "absent"
     THEN node' = [node EXCEPT ![Entry(w)] = "link"] /\ Leave(w, FALSE)
     ELSE Leave(w, TRUE) /\ UNCHANGED node
  /\ Works

(* EnsurePrivatePath(parent), the temporary file, and the copying into it; *)
(* a cancelled copy ends the loop without an error.                        *)
MakeFile(w) ==
  /\ At(w, "make", "file")
  /\ IF Private(node, Above[Entry(w)])
     THEN \/ Go(w, IF job[w].seen = "absent" THEN "rename" ELSE "remove")
          \/ ctxDone /\ Break(w, {})
     ELSE Leave(w, TRUE)
  /\ UNCHANGED node /\ Works

Rename(w) ==
  /\ job[w].pc = "rename"
  /\ IF Lstat(Entry(w)) \notin Dirs \cup {"error"}
     THEN node' = [node EXCEPT ![Entry(w)] = "file"] /\ Leave(w, FALSE)
     ELSE Leave(w, TRUE) /\ UNCHANGED node
  /\ Works

-----------------------------------------------------------------------------
Bug_JudgeGivesUpWithNil(w) ==
  /\ job[w].pc = "judge"
  /\ Go(w, IF job[w].failed # {} /\ job[w].tries < Attempts THEN "delay" ELSE "nil")
  /\ UNCHANGED node /\ Works

(* The end of an attempt: an error is retried, a full disk is not. *)
Judge(w) ==
  /\ job[w].pc = "judge"
  /\ Go(w, CASE job[w].failed = {} -> "nil"
             [] job[w].failed # {} /\ ~job[w].stop /\ job[w].tries < Attempts -> "delay"
             [] OTHER -> "error")
  /\ UNCHANGED node /\ Works

Retry(w) ==
  /\ job[w].pc = "delay"
  /\ \/ job' = [job EXCEPT ![w].pc = "route", ![w].failed = {}, ![w].tries = @ + 1]
     \/ ctxDone /\ Go(w, "error")
  /\ UNCHANGED node /\ Works

Returned(w) == job[w].pc \in {"nil", "error"}

(* The next run over the same trees. *)
Rerun ==
  /\ \A w \in Workers : Returned(w)
  /\ job' = [w \in Workers |-> Fresh]
  /\ ctxDone' = FALSE
  /\ UNCHANGED <<node, gone, faults>>

-----------------------------------------------------------------------------
(* Faults *)

(* A call fails.  When it was the setting of mode or times after the       *)
(* rename, the file is removed again.                                      *)
CallFails(w) ==
  /\ Fault
  /\ job[w].pc \in {"route", "lstat", "remove", "mkdir", "chmod", "parents", "make", "rename"}
  /\ Leave(w, TRUE)
  /\ \/ UNCHANGED node
     \/ job[w].pc = "rename" /\ node' = [node EXCEPT ![Entry(w)] = "absent"]
  /\ UNCHANGED <<ctxDone, gone>>

NoSpace(w) ==
  /\ Fault
  /\ At(w, "make", "file")
  /\ Break(w, {Entry(w)})
  /\ UNCHANGED <<node, ctxDone, gone>>

-----------------------------------------------------------------------------
Worker(w) ==
  \/ Start(w) \/ Route(w) \/ LstatDir(w) \/ LstatLink(w) \/ LstatFile(w)
  \/ Remove(w) \/ Mkdir(w) \/ Chmod(w) \/ Parents(w) \/ MakeLink(w)
  \/ SourceGone(w) \/ MakeFile(w) \/ Rename(w) \/ Judge(w) \/ Retry(w)

Next ==
  \/ \E w \in Workers : Worker(w) \/ CallFails(w) \/ NoSpace(w)
  \/ Rerun
  \/ (Vanish \/ Cancel) /\ UNCHANGED job

Spec == Init /\ [][Next]_vars

-----------------------------------------------------------------------------
(* What a worker does with an entry once it is routed. *)
Passed == {"lstat", "remove", "mkdir", "chmod", "parents", "make", "rename"}

Jobs == [pc : Passed \cup {"idle", "route", "judge", "delay", "nil", "error"},
         at : Nat, seen : Nodes, failed : SUBSET Paths, tries : Nat, stop : BOOLEAN]

TypeOK ==
  /\ WorldTypeOK
  /\ job \in [Workers -> Jobs]
  /\ \A w \in Workers :
       /\ job[w].at \in 1..Len(Chunk[w])
       /\ job[w].pc = "nil" => job[w].failed = {}

(* The inductive invariant.  A worker's Lstat may be stale, but never where *)
(* it matters: what it is about to remove is still in the way, what it     *)
(* makes does not stand yet, and no directory above is gone again.         *)
LstatHolds(w) ==
  LET p == Entry(w) IN
  /\ job[w].pc \in Passed /\ Kind[p] # "link" => node[p] \notin Links
  /\ At(w, "remove", "dir") => node[p] \notin Dirs \cup {"absent"}
  /\ job[w].pc \in Passed \ {"lstat"} /\ Kind[p] # "dir" => ~Right(p)
  /\ At(w, "chmod", "dir") /\ job[w].seen = "dir" => Right(p)
  /\ job[w].pc = "parents" => Lstat(p) # "error"
  /\ job[w].pc = "rename" \/ At(w, "remove", "file") => \A q \in Above[p] : node[q] \in Dirs

StepsFit(w) ==
  /\ job[w].pc \in {"mkdir", "chmod"} => Kind[Entry(w)] = "dir"
  /\ job[w].pc \in {"parents", "make"} => Kind[Entry(w)] # "dir"
  /\ job[w].pc = "rename" => Kind[Entry(w)] = "file"
  /\ job[w].pc \in {"idle", "judge", "delay"} => job[w].at = 1
  /\ job[w].seen # "absent" =>
       \/ job[w].pc = "chmod"
       \/ Kind[Entry(w)] = "file" /\ job[w].pc \in {"remove", "make", "rename"}
  /\ job[w].stop => job[w].failed # {} /\ job[w].pc \in {"judge", "error"}

(* The entries the loop has left behind it in this attempt are in place,   *)
(* vanished or among the errors.                                           *)
Behind(w) ==
  CASE job[w].pc \in {"judge", "nil"} -> DOMAIN Chunk[w]
    [] job[w].pc \in Passed \cup {"route"} -> 1..job[w].at - 1
    [] OTHER -> {}

BehindSettled(w) ==
  job[w].stop \/ \A i \in Behind(w) :
    LET p == Chunk[w][i] IN Right(p) \/ p \in gone \/ p \in job[w].failed

Matches ==
  \A w \in Workers : LstatHolds(w) /\ StepsFit(w) /\ (ctxDone \/ BehindSettled(w))
=============================================================================
