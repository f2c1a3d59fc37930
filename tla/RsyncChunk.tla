----------------------------- MODULE RsyncChunk -----------------------------
(***************************************************************************)
(* Copying chunks with rsync: for each chunk one process and, next to the  *)
(* worker that waits for it, a goroutine that goes through the entries     *)
(* (directories and links are made here, files are written to rsync's      *)
(* standard input), readers for its two outputs and one that passes a      *)
(* cancellation on as SIGTERM.  The pipe to rsync holds nothing: whether a *)
(* path was still in it when rsync ended makes no difference.              *)
(***************************************************************************)
EXTENDS CopyWorld

VARIABLES
  port, \* an rsync.port is configured: every path is left to rsync
  task  \* each worker: control state, stdin goroutine and its position, what
        \* its Lstat showed, process, paths it has been given, whether the
        \* outputs are being read, attempts made, entries with logged failures

vars == <<worldVars, port, task>>

Fresh == [pc |-> "idle", stdin |-> "done", at |-> 1, seen |-> "absent",
          rsync |-> "none", list |-> {}, read |-> FALSE, tries |-> 0,
          logged |-> {}]

Init == WorldInit /\ port \in BOOLEAN /\ task = [w \in Workers |-> Fresh]

-----------------------------------------------------------------------------
Entry(w) == Chunk[w][task[w].at]

Exited(w) == task[w].rsync \in {"ok", "retry", "fatal"}

(* What happens next to the chunk, to its rsync. *)
Go(w, s)  == task' = [task EXCEPT ![w].pc = s]
Becomes(w, s) == task' = [task EXCEPT ![w].rsync = s]

(* An error that retry-go may retry. *)
Fail(w) == Go(w, IF task[w].tries < Attempts THEN "delay" ELSE "error")

Start(w) ==
  /\ task[w].pc = "idle"
  /\ task' = [task EXCEPT ![w].pc = IF ctxDone /\ Attempts > 0 THEN "error" ELSE "start",
                          ![w].tries = 1]
  /\ UNCHANGED node /\ Works

(* ensureDestinationPaths, then the start of rsync and the goroutines. *)
Launch(w) ==
  /\ task[w].pc = "start"
  /\ IF \A i \in DOMAIN Chunk[w] :
          LET p == Chunk[w][i]
          IN IF Kind[p] = "dir" THEN NoSymlinkPath(p) ELSE NoSymlinkAncestors(p)
     THEN task' = [task EXCEPT ![w].pc = "wait", ![w].stdin = "next", ![w].at = 1,
                               ![w].rsync = "runs", ![w].list = {}, ![w].logged = {},
                               ![w].read = TRUE]
     ELSE Fail(w)
  /\ UNCHANGED node /\ Works

LaunchFails(w) ==
  /\ Fault
  /\ task[w].pc = "start"
  /\ Fail(w)
  /\ UNCHANGED <<node, ctxDone, gone>>

-----------------------------------------------------------------------------
(* handleRsyncStdin *)

(* The loop goes on with the next entry; a bad one is only logged. *)
Leave(w, bad) ==
  task' = [task EXCEPT ![w].logged = IF bad THEN @ \cup {Entry(w)} ELSE @,
                       ![w].seen = "absent",
                       ![w].stdin = IF task[w].at = Len(Chunk[w]) THEN "done" ELSE "next",
                       ![w].at = IF @ = Len(Chunk[w]) THEN 1 ELSE @ + 1]

(* Lstat in processDirectory and processSymbolicLink; the check of a       *)
(* file's directory.                                                       *)
Look(w) ==
  /\ task[w].stdin = "next"
  /\ LET p == Entry(w)
         found == Lstat(p)
         to(s) == task' = [task EXCEPT ![w].stdin = s, ![w].seen = found]
     IN CASE port -> to("write")
          [] ~port /\ Kind[p] = "file" ->
               IF Private(node, Above[p]) THEN to("write") ELSE Leave(w, TRUE)
          [] ~port /\ Kind[p] # "file" ->
               IF found = "error" \/ (Kind[p] = "link" /\ found = "link")
               THEN Leave(w, found = "error") ELSE to("act")
  /\ UNCHANGED node /\ Works

(* The rest of processDirectory.  Its comparison of modes takes in the     *)
(* directory bit and never holds: a directory that exists always has its   *)
(* mode set, a new one keeps what the umask left.                          *)
MakeDirectory(w) ==
  /\ task[w].stdin = "act" /\ Kind[Entry(w)] = "dir"
  /\ LET p == Entry(w)
         cleared == IF task[w].seen = "absent" THEN node ELSE Removed(node, p)
     IN IF Lstat(p) = "error" THEN Leave(w, TRUE) /\ UNCHANGED node
        ELSE /\ node' = IF task[w].seen \notin Dirs THEN Made(cleared, p)
                        ELSE IF node[p] \in Dirs THEN [node EXCEPT ![p] = "dir"] ELSE node
             /\ Leave(w, node'[p] \notin Dirs)
  /\ Works

(* The rest of processSymbolicLink.  A parent that is no directory is      *)
(* removed and not made anew; but then Lstat would have failed before.     *)
MakeLink(w) ==
  /\ task[w].stdin = "act" /\ Kind[Entry(w)] = "link"
  /\ LET p == Entry(w)
         q == Parent[p]
         cleared == IF task[w].seen # "absent" THEN Removed(node, p)
                    ELSE IF q = Root \/ Lstat(p) = "error" THEN node
                    ELSE Made(node, q)
         fits == Private(cleared, Above[p]) /\ cleared[p] = "absent"
     IN /\ node' = IF fits THEN [cleared EXCEPT ![p] = "link"] ELSE cleared
        /\ Leave(w, ~fits)
  /\ Works

(* Waits until rsync takes the path, or has ended: errors are ignored. *)
Write(w) ==
  /\ task[w].stdin = "write"
  /\ task[w].rsync = "runs"
  /\ LET next == IF task[w].at = Len(Chunk[w]) THEN "done" ELSE "next"
     IN task' = [task EXCEPT ![w].list = @ \cup {Entry(w)},
                             ![w].seen = "absent", ![w].stdin = next,
                             ![w].at = IF next = "done" THEN 1 ELSE @ + 1]
  /\ UNCHANGED node /\ Works

WriteFails(w) ==
  /\ task[w].stdin = "write"
  /\ Exited(w)
  /\ Leave(w, FALSE)
  /\ UNCHANGED node /\ Works

(* A call in the goroutine fails. *)
StdinFails(w) ==
  /\ Fault
  /\ task[w].stdin \in {"next", "act"} /\ ~port
  /\ Leave(w, TRUE)
  /\ UNCHANGED <<node, ctxDone, gone>>

-----------------------------------------------------------------------------
(* rsync: reads the list until it is closed, makes the directories a path  *)
(* lies in, leaves links out (--no-links), and ends with status 23 when    *)
(* something could not be transferred, 24 when it had vanished.            *)

Transfer(w) ==
  /\ task[w].rsync = "runs"
  /\ \E p \in task[w].list :
       /\ Lstat(p) # "error"
       /\ task' = [task EXCEPT ![w].list = @ \ {p}]
       /\ node' = CASE p \in gone \/ Kind[p] = "link" -> node
                    [] Kind[p] = "dir" -> Made(IF node[p] \in Dirs THEN node
                                               ELSE Removed(node, p), p)
                    [] OTHER -> [Made(Removed(node, p), p) EXCEPT ![p] = "file"]
  /\ Works

RsyncEnds(w) ==
  /\ task[w].rsync = "runs"
  /\ task[w].stdin = "done"
  /\ \A p \in task[w].list : Lstat(p) = "error"
  /\ Becomes(w, IF task[w].list = {} THEN "ok" ELSE "fatal")
  /\ UNCHANGED node /\ Works

RsyncDies(w) ==
  /\ Fault
  /\ task[w].rsync = "runs"
  /\ \E s \in {"retry", "fatal"} : Becomes(w, s)
  /\ UNCHANGED <<node, ctxDone, gone>>

(* Terminated by the signal: status 20. *)
RsyncStops(w) ==
  /\ task[w].rsync = "signalled"
  /\ Becomes(w, "fatal")
  /\ UNCHANGED node /\ Works

-----------------------------------------------------------------------------
(* execute *)

Bug_SignalNever(w) == FALSE

Signal(w) ==
  /\ task[w].pc = "wait"
  /\ ctxDone
  /\ task[w].rsync = "runs"
  /\ Becomes(w, "signalled")
  /\ UNCHANGED node /\ Works

(* The readers come to the end of their pipes, or Wait has closed them. *)
ReadersEnd(w) ==
  /\ Exited(w)
  /\ task[w].read
  /\ task' = [task EXCEPT ![w].read = FALSE]
  /\ UNCHANGED node /\ Works

(* rsyncExitResult: the exit status alone decides. *)
Judge(w) ==
  CASE task[w].rsync = "ok"    -> Go(w, "nil")
    [] task[w].rsync = "retry" -> Fail(w)
    [] OTHER                   -> Go(w, "error")

Bug_JoinDoesNotWait(w) ==
  /\ task[w].pc = "wait"
  /\ Exited(w)
  /\ Judge(w)
  /\ UNCHANGED node /\ Works

(* invoke.Wait, wg.Wait and HandleError. *)
Join(w) ==
  /\ task[w].pc = "wait"
  /\ Exited(w)
  /\ task[w].stdin = "done" /\ ~task[w].read
  /\ Judge(w)
  /\ UNCHANGED node /\ Works

Retry(w) ==
  /\ task[w].pc = "delay"
  /\ \/ task' = [task EXCEPT ![w].pc = "start", ![w].tries = @ + 1]
     \/ ctxDone /\ Go(w, "error")
  /\ UNCHANGED node /\ Works

Returned(w) == task[w].pc \in {"nil", "error"}

(* The next run over the same trees. *)
Rerun ==
  /\ \A w \in Workers : Returned(w)
  /\ task' = [w \in Workers |-> Fresh]
  /\ ctxDone' = FALSE
  /\ UNCHANGED <<node, gone, faults>>

-----------------------------------------------------------------------------
Execute(w) == Start(w) \/ Launch(w) \/ Signal(w) \/ Join(w) \/ Retry(w)
Stdin(w)   == Look(w) \/ MakeDirectory(w) \/ MakeLink(w) \/ WriteFails(w)
Process(w) == Write(w) \/ Transfer(w) \/ RsyncEnds(w)
Faults(w)  == LaunchFails(w) \/ StdinFails(w) \/ RsyncDies(w)

Next ==
  /\ \/ \E w \in Workers : Execute(w) \/ Stdin(w) \/ Process(w) \/ RsyncStops(w)
                           \/ ReadersEnd(w) \/ Faults(w)
     \/ Rerun
     \/ (Vanish \/ Cancel) /\ UNCHANGED task
  /\ UNCHANGED port

Spec == Init /\ [][Next]_vars

-----------------------------------------------------------------------------
Tasks == [pc : {"idle", "start", "wait", "delay", "nil", "error"},
          stdin : {"next", "act", "write", "done"}, at : Nat,
          seen : Nodes \cup {"error"},
          rsync : {"none", "runs", "signalled", "ok", "retry", "fatal"},
          list : SUBSET Paths, read : BOOLEAN, tries : Nat, logged : SUBSET Paths]

TypeOK ==
  /\ WorldTypeOK
  /\ port \in BOOLEAN
  /\ task \in [Workers -> Tasks]
  /\ \A w \in Workers : task[w].at \in 1..Len(Chunk[w])

(* What the goroutine's Lstat saw in the way is still there when it is     *)
(* removed; only what is left to rsync is on the list.                     *)
LookHolds(w) ==
  LET p == Entry(w) IN
  /\ task[w].stdin = "act" =>
       /\ ~port /\ Kind[p] # "file" /\ task[w].seen # "error"
       /\ Kind[p] = "link" => ~Right(p)
       /\ Kind[p] = "dir" /\ task[w].seen \notin Dirs \cup {"absent"}
            => node[p] \notin Dirs \cup {"absent"}
  /\ ~port => /\ task[w].stdin = "write" => Kind[p] = "file"
              /\ \A q \in task[w].list : Kind[q] = "file"

StatesFit(w) ==
  /\ task[w].pc # "wait" =>
       /\ task[w].stdin = "done" /\ ~task[w].read
       /\ task[w].rsync \notin {"runs", "signalled"}
  /\ task[w].rsync = "ok" => task[w].stdin = "done" /\ task[w].list = {}
  /\ task[w].pc = "nil" => task[w].rsync = "ok"

(* What a goroutine, or rsync, has done with an entry that is not on the   *)
(* list any more.                                                          *)
Arranged(w, p) ==
  \/ Right(p) \/ p \in gone \/ p \in task[w].logged
  \/ Kind[p] = "dir" /\ node[p] \in Dirs
  \/ Kind[p] = "link" /\ port

BehindArranged(w) ==
  task[w].rsync \in {"runs", "ok"} =>
    \A i \in IF task[w].stdin = "done" THEN DOMAIN Chunk[w] ELSE 1..task[w].at - 1 :
      Chunk[w][i] \in task[w].list \/ Arranged(w, Chunk[w][i])

Matches == \A w \in Workers : LookHolds(w) /\ StatesFit(w) /\ BehindArranged(w)
=============================================================================
