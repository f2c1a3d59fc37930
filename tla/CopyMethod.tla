----------------------------- MODULE CopyMethod -----------------------------
(***************************************************************************)
(* The contract of a chunkJoiner's copyMethod, and the two methods         *)
(* Runner.Execute chooses from by --rsync-enabled: native.Copier.Execute   *)
(* (NativeTree) and rsync.Task.Execute (RsyncChunk).  A run uses one.      *)
(***************************************************************************)
EXTENDS CopyWorld

CONSTANT RsyncStanding \* bound: what may stand at a path before rsync runs

VARIABLES
  useRsync,
  job,       \* the native workers
  port, task \* the rsync workers

vars == <<worldVars, useRsync, job, port, task>>

Native == INSTANCE NativeTree
Rsync  == INSTANCE RsyncChunk

Init ==
  /\ useRsync \in BOOLEAN
  /\ Native!Init /\ Rsync!Init
  /\ IF useRsync THEN \A p \in Paths : node[p] \in RsyncStanding ELSE ~port

Natively(A) == ~useRsync /\ A /\ UNCHANGED <<useRsync, port, task>>
ByRsync(A)  == useRsync /\ A /\ UNCHANGED <<useRsync, job>>

Next == Natively(Native!Next) \/ ByRsync(Rsync!Next)

Spec == Init /\ [][Next]_vars

(* Every goroutine goes on, an rsync that has been terminated ends, and    *)
(* runs are repeated.                                                      *)
FairSpec ==
  /\ Spec
  /\ \A w \in Workers :
       /\ WF_vars(Natively(Native!Worker(w)))
       /\ WF_vars(ByRsync(Rsync!Execute(w) /\ UNCHANGED port))
       /\ WF_vars(ByRsync(Rsync!Stdin(w) /\ UNCHANGED port))
       /\ WF_vars(ByRsync((Rsync!RsyncStops(w) \/ Rsync!ReadersEnd(w)) /\ UNCHANGED port))
  /\ WF_vars(Natively(Native!Rerun))
  /\ WF_vars(ByRsync(Rsync!Rerun /\ UNCHANGED port))

(* What a run may assume of rsync: it gets on with its list. *)
RsyncWorks ==
  \A w \in Workers : WF_vars(ByRsync(Rsync!Process(w) /\ UNCHANGED port))

-----------------------------------------------------------------------------
TypeOK == Native!TypeOK /\ Rsync!TypeOK /\ useRsync \in BOOLEAN

(* The inductive invariant: the workers' last looks still hold, what they  *)
(* have dealt with is in place, and the other method's have not moved.     *)
IInv ==
  /\ TypeOK
  /\ Native!Matches /\ Rsync!Matches
  /\ IF useRsync THEN \A w \in Workers : job[w] = Native!Fresh
     ELSE \A w \in Workers : task[w] = Rsync!Fresh

Nil(w) == IF useRsync THEN task[w].pc = "nil" ELSE job[w].pc = "nil"
Returned(w) == IF useRsync THEN Rsync!Returned(w) ELSE Native!Returned(w)

(* What one worker may count on when its chunk has returned nil.  rsync's  *)
(* goroutine only logs what it fails at, a new directory has the mode the  *)
(* umask left it, and with a port links are left out (--no-links).         *)
Handled(w, p) ==
  \/ Right(p) \/ p \in gone
  \/ useRsync /\ \/ p \in task[w].logged
                 \/ Kind[p] = "dir" /\ node[p] \in Dirs
                 \/ Kind[p] = "link" /\ port

(* A chunk that returns nil has all its entries in place, but for what     *)
(* Handled excepts, whatever was there before and whatever the other       *)
(* workers, retries included, do from then on; unless the run was          *)
(* cancelled (native/copier.go:92-134, rsync/task.go:146-203).             *)
NilMeansBuilt ==
  ~ctxDone => \A w \in Workers : Nil(w) =>
    \A i \in DOMAIN Chunk[w] : Handled(w, Chunk[w][i])

(* Nobody's RemoveAll, decided on an Lstat that may be stale, takes away   *)
(* what another worker has put in place, and the native copier never       *)
(* replaces a symbolic link that stands where a file or a directory        *)
(* belongs (copier_behavior_test.go:128).                                  *)
Undamaged ==
  [][\A p \in Paths :
       /\ Right(p) => Right(p)'
       /\ ~useRsync /\ node[p] \in Links /\ Kind[p] # "link"
            => UNCHANGED node[p]]_vars

(* Once a chunk has returned, no goroutine or rsync of it is left that     *)
(* still reads the slice: "the chunk joiner may recycle the backing array  *)
(* after the call returns" (joiner.go:18-20).                              *)
ListReleased ==
  \A w \in Workers : task[w].pc # "wait" =>
    /\ task[w].stdin = "done" /\ ~task[w].read
    /\ task[w].rsync \notin {"runs", "signalled"}

(* A cancelled run comes back, even when rsync hangs (--timeout=0) with    *)
(* the goroutine blocked on its standard input.                            *)
CancelReturns == ctxDone ~> \A w \in Workers : Returned(w)

(* What no run removes: a link in the place of something else; for the     *)
(* native copier what is open to other writers; for rsync what is not a    *)
(* directory but stands above one, because ensureDestinationPaths refuses  *)
(* the chunk before processDirectory could clear the way.                  *)
Refused(p) ==
  \/ node[p] \in Links /\ Kind[p] # "link"
  \/ ~useRsync /\ node[p] = "open"
  \/ /\ useRsync /\ node[p] \notin Dirs \cup {"absent"}
     /\ \E q \in Paths : Kind[q] = "dir" /\ p \in Above[q]

(* Runs repair each other: in whatever order the workers meet what stands  *)
(* in the way, even when a child comes before its directory, and whatever  *)
(* failed on the way, repeated runs complete the tree.                     *)
Converges ==
  (\A p \in Paths : ~Refused(p)) /\ (useRsync => RsyncWorks)
    => <>[](\A p \in Paths : \/ p \in gone
                             \/ Right(p)
                             \/ useRsync /\ port /\ Kind[p] # "file")

(* "Implementations ... must tolerate concurrent calls from multiple chunk *)
(* workers" (joiner.go:17-20): when nothing fails, a file of a chunk that  *)
(* has returned nil is there, also when its directory is in another chunk. *)
ToleratesConcurrency ==
  \A w \in Workers : Nil(w) =>
    \A i \in DOMAIN Chunk[w] : Kind[Chunk[w][i]] = "file" => Right(Chunk[w][i])
=============================================================================
