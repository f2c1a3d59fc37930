------------------------------ MODULE FindScan ------------------------------
(***************************************************************************)
(* Scanning with the external find: executeFind starts the process, one    *)
(* goroutine parses its standard output (handleFindStdout), one logs its   *)
(* standard error, and executeFind itself waits for the process and only   *)
(* then for the goroutines.  exec.Cmd.Wait closes the read ends of both    *)
(* pipes as soon as the process has ended.                                 *)
(*                                                                         *)
(* The rows keep their order, so those on their way are told by counters:  *)
(* printed >= fetched >= sent + dropped and sent >= taken.                 *)
(***************************************************************************)
EXTENDS Integers

CONSTANTS NumRows,  \* rows find prints for the tree
          PipeRows, \* rows the pipe holds
          ChanRows  \* capacity of rowChan

VARIABLES
  ctxDone,  \* the copier context has been cancelled
  find,     \* the process: "idle", "runs", "ok", "error" or "killed"
  printed,  \* rows written to the pipe
  fetched,  \* rows the reader has taken off the pipe
  dropped,  \* rows handleFindStdout has left out
  sent,     \* rows put on rowChan
  taken,    \* rows the dispatcher has received
  open,     \* the read ends of the pipes are open
  stdout,   \* handleFindStdout: "idle", "reads", "sends" or "done"
  stderr,   \* handleFindStderr: "idle", "reads" or "done"
  complain, \* find has written something to standard error
  logged,   \* ... and it is among the last lines kept for the error
  exec,     \* executeFind: "start", "wait", "join", "done"
  result    \* what executeFind returned: "none", "nil" or "error"

rowVars  == <<printed, fetched, dropped, sent, taken>>
errVars  == <<complain, logged>>
vars == <<ctxDone, find, rowVars, open, stdout, stderr, errVars, exec, result>>

Init ==
  /\ ctxDone = FALSE
  /\ find = "idle" /\ exec = "start" /\ result = "none"
  /\ printed = 0 /\ fetched = 0 /\ dropped = 0 /\ sent = 0 /\ taken = 0
  /\ open = FALSE /\ stdout = "idle" /\ stderr = "idle"
  /\ complain = FALSE /\ logged = FALSE

Cancel ==
  /\ ~ctxDone
  /\ ctxDone' = TRUE
  /\ UNCHANGED <<find, rowVars, open, stdout, stderr, errVars, exec, result>>

-----------------------------------------------------------------------------
(* The find process *)

PrintRow ==
  /\ find = "runs"
  /\ printed < NumRows
  /\ printed - fetched < PipeRows
  /\ printed' = printed + 1
  /\ UNCHANGED <<ctxDone, find, fetched, dropped, sent, taken, open, stdout,
                 stderr, errVars, exec, result>>

Complain ==
  /\ find = "runs"
  /\ ~complain
  /\ complain' = TRUE
  /\ UNCHANGED <<ctxDone, find, rowVars, open, stdout, stderr, logged, exec,
                 result>>

(* find ends when it has printed everything, badly when it has complained. *)
FindEnds ==
  /\ find = "runs"
  /\ printed = NumRows
  /\ find' = IF complain THEN "error" ELSE "ok"
  /\ UNCHANGED <<ctxDone, rowVars, open, stdout, stderr, errVars, exec,
                 result>>

(* exec.CommandContext kills it. *)
FindKilled ==
  /\ find = "runs"
  /\ ctxDone
  /\ find' = "killed"
  /\ UNCHANGED <<ctxDone, rowVars, open, stdout, stderr, errVars, exec,
                 result>>

(* ... or something else does, at any moment. *)
FindDies ==
  /\ find = "runs"
  /\ find' = "killed"
  /\ UNCHANGED <<ctxDone, rowVars, open, stdout, stderr, errVars, exec,
                 result>>

-----------------------------------------------------------------------------
(* handleFindStdout: rows come off the pipe into the scanner's buffer and  *)
(* are sent one by one.  A read from a pipe that Wait has closed ends the  *)
(* loop like the end of the file does: scanner.Err is not looked at.       *)

Fetch ==
  /\ stdout = "reads"
  /\ open
  /\ fetched < printed
  /\ \E n \in fetched + 1..printed : fetched' = n
  /\ UNCHANGED <<ctxDone, find, printed, dropped, sent, taken, open, stdout,
                 stderr, errVars, exec, result>>

(* The rows the scanner has read and the loop has not dealt with. *)
InHand == fetched - dropped - sent

(* parseFindEntry does not understand the row, or ignore hides the entry:  *)
(* the loop goes on to the next row.                                       *)
Drop ==
  /\ stdout = "reads"
  /\ InHand > 0
  /\ dropped' = dropped + 1
  /\ UNCHANGED <<ctxDone, find, printed, fetched, sent, taken, open, stdout,
                 stderr, errVars, exec, result>>

(* It is a row to send, and the loop waits until it is. *)
Accept ==
  /\ stdout = "reads"
  /\ InHand > 0
  /\ stdout' = "sends"
  /\ UNCHANGED <<ctxDone, find, rowVars, open, stderr, errVars, exec, result>>

Bug_SendBlocks ==
  /\ stdout = "sends"
  /\ sent - taken < ChanRows
  /\ sent' = sent + 1
  /\ stdout' = "reads"
  /\ UNCHANGED <<ctxDone, find, printed, fetched, dropped, taken, open, stderr,
                 errVars, exec, result>>

Send ==
  /\ stdout = "sends"
  /\ \/ sent - taken < ChanRows /\ sent' = sent + 1 /\ stdout' = "reads"
     \/ ctxDone /\ stdout' = "done" /\ UNCHANGED sent
  /\ UNCHANGED <<ctxDone, find, printed, fetched, dropped, taken, open, stderr,
                 errVars, exec, result>>

Exited == find \in {"ok", "error", "killed"}

Bug_StdoutEndsEarly ==
  /\ stdout \in {"reads", "sends"}
  /\ ~open
  /\ stdout' = "done"
  /\ UNCHANGED <<ctxDone, find, rowVars, open, stderr, errVars, exec, result>>

StdoutEnds ==
  /\ stdout = "reads"
  /\ InHand = 0
  /\ ~open \/ (Exited /\ fetched = printed)
  /\ stdout' = "done"
  /\ UNCHANGED <<ctxDone, find, rowVars, open, stderr, errVars, exec, result>>

(* handleFindStderr, cut off in the same way. *)
LogLine ==
  /\ stderr = "reads"
  /\ open
  /\ complain /\ ~logged
  /\ logged' = TRUE
  /\ UNCHANGED <<ctxDone, find, rowVars, open, stdout, stderr, complain, exec,
                 result>>

StderrEnds ==
  /\ stderr = "reads"
  /\ ~open \/ (Exited /\ complain = logged)
  /\ stderr' = "done"
  /\ UNCHANGED <<ctxDone, find, rowVars, open, stdout, errVars, exec, result>>

(* The dispatcher takes rows until the context is cancelled (it may then   *)
(* stop: chunkJoiner.dispatch of ChunkPipeline).                           *)
Take ==
  /\ taken < sent
  /\ taken' = taken + 1
  /\ UNCHANGED <<ctxDone, find, printed, fetched, dropped, sent, open, stdout,
                 stderr, errVars, exec, result>>

-----------------------------------------------------------------------------
(* executeFind *)

Start ==
  /\ exec = "start"
  /\ \/ /\ find' = "runs" /\ open' = TRUE
        /\ stdout' = "reads" /\ stderr' = "reads"
        /\ exec' = "wait"
        /\ UNCHANGED result
     \/ /\ exec' = "done" /\ result' = "error"
        /\ UNCHANGED <<find, open, stdout, stderr>>
  /\ UNCHANGED <<ctxDone, rowVars, errVars>>

(* invoke.Wait returns: the process is gone and the pipes are closed. *)
Wait ==
  /\ exec = "wait"
  /\ Exited
  /\ open' = FALSE
  /\ exec' = "join"
  /\ UNCHANGED <<ctxDone, find, rowVars, stdout, stderr, errVars, result>>

(* wg.Wait, then HandleError: only the exit status decides. *)
Join ==
  /\ exec = "join"
  /\ stdout = "done" /\ stderr = "done"
  /\ result' = IF find = "ok" THEN "nil" ELSE "error"
  /\ exec' = "done"
  /\ UNCHANGED <<ctxDone, find, rowVars, open, stdout, stderr, errVars>>

Returned == exec = "done" /\ taken = sent /\ UNCHANGED vars

-----------------------------------------------------------------------------
Process == PrintRow \/ FindEnds \/ FindKilled
Stdout == Fetch \/ Drop \/ Accept \/ Send \/ StdoutEnds
Stderr == LogLine \/ StderrEnds
Execute == Start \/ Wait \/ Join

Next ==
  \/ Cancel \/ Process \/ FindDies \/ Complain
  \/ Stdout \/ Stderr \/ Take \/ Execute \/ Returned

Spec == Init /\ [][Next]_vars

-----------------------------------------------------------------------------
TypeOK ==
  /\ ctxDone \in BOOLEAN
  /\ find \in {"idle", "runs", "ok", "error", "killed"}
  /\ printed \in Nat /\ fetched \in Nat /\ dropped \in Nat /\ sent \in Nat /\ taken \in Nat
  /\ taken <= sent /\ 0 <= InHand
  /\ fetched <= printed /\ printed <= NumRows
  /\ sent - taken <= ChanRows
  /\ open \in BOOLEAN
  /\ stdout \in {"idle", "reads", "sends", "done"}
  /\ stdout = "sends" => InHand > 0
  /\ stderr \in {"idle", "reads", "done"}
  /\ complain \in BOOLEAN /\ logged \in BOOLEAN
  /\ exec \in {"start", "wait", "join", "done"}
  /\ result \in {"none", "nil", "error"}

(* The inductive invariant behind the properties of a scan: nothing runs   *)
(* before find is started, and executeFind returns when the readers are    *)
(* through with all the rows they have, or the context is done.            *)
FindMatches ==
  /\ exec = "start" => find = "idle" /\ stdout = "idle"
  /\ exec = "done" => stdout \in {"idle", "done"}
  /\ exec = "done" <=> result # "none"
  /\ result = "nil" => find = "ok"
  /\ find = "ok" => printed = NumRows /\ ~complain
  /\ stdout = "idle" => InHand = 0
  /\ stdout = "done" => InHand = 0 \/ ctxDone

(* "executeFind runs the external find command and streams parsed results  *)
(* back to Scan" (find_method.go:137): a nil error without a cancellation  *)
(* means that every row find printed was streamed or left out on purpose.  *)
NilMeansAllStreamed == result = "nil" /\ ~ctxDone => sent + dropped = printed
=============================================================================
