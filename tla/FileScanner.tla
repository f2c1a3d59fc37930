---------------------------- MODULE FileScanner ----------------------------
(***************************************************************************)
(* Scanner.execute: one scan with the external find or with the in-process *)
(* walker, its error handed over on a one-shot channel and both channels   *)
(* closed.  What either scanner does is FindScan's and WalkScan's subject; *)
(* here each runs to its end, with the context and a receiver.             *)
(***************************************************************************)
EXTENDS Integers

CONSTANTS NumRows, PipeRows,       \* of FindScan
          Walkers, Paths, NoPath,  \* of WalkScan
          ChanRows                 \* --entry-channel-size

ASSUME ScannerAssumption ==
  /\ NumRows \in Nat
  /\ PipeRows \in Nat \ {0} /\ ChanRows \in Nat \ {0}
  /\ NoPath \notin Paths

VARIABLES
  method,    \* "find" when FinderBinaryPath is set, or else "walk"
  errorChan, \* "empty", "nil" when the scan ended well, or "error"
  closed,    \* both channels are closed
  ctxDone,   \* the copier context has been cancelled
  find, printed, fetched, dropped, sent, taken, open, stdout, stderr,
  complain, logged, exec, result,
  todo, at, pc, errs, raced, bad, queue, received, skipped, walked

outVars  == <<method, errorChan, closed>>
findVars == <<find, printed, fetched, dropped, sent, taken, open, stdout,
              stderr, complain, logged, exec, result>>
walkVars == <<todo, at, pc, errs, raced, bad, queue, received, skipped, walked>>
vars == <<outVars, ctxDone, findVars, walkVars>>

Find == INSTANCE FindScan
Walk == INSTANCE WalkScan WITH taken <- received, result <- walked

-----------------------------------------------------------------------------
Init ==
  /\ method \in {"find", "walk"}
  /\ errorChan = "empty" /\ closed = FALSE
  /\ Find!Init /\ Walk!Init

Finds(A) == method = "find" /\ A /\ UNCHANGED <<outVars, walkVars>>
Walks(A) == method = "walk" /\ A /\ UNCHANGED <<outVars, findVars>>

Returned == IF method = "find" THEN result ELSE walked

(* The error goes into the buffered channel, then both are closed. *)
Close ==
  /\ Returned \in {"nil", "error"}
  /\ ~closed /\ closed' = TRUE
  /\ errorChan' = Returned
  /\ UNCHANGED <<method, ctxDone, findVars, walkVars>>

Next == Finds(Find!Next) \/ Walks(Walk!Next) \/ Close

Spec == Init /\ [][Next]_vars

(* The goroutines and find run; the receiver takes rows only as long as    *)
(* nobody has cancelled.                                                   *)
FairSpec ==
  /\ Spec
  /\ WF_vars(Finds(Find!Process)) /\ WF_vars(Finds(Find!Stdout))
  /\ WF_vars(Finds(Find!Stderr)) /\ WF_vars(Finds(Find!Execute))
  /\ WF_vars(Finds(~ctxDone /\ Find!Take))
  /\ \A w \in Walkers : WF_vars(Walks(Walk!Walker(w)))
  /\ WF_vars(Walks(Walk!WalkEnds)) /\ WF_vars(Walks(~ctxDone /\ Walk!Take))
  /\ WF_vars(Close)

-----------------------------------------------------------------------------
TypeOK ==
  /\ Find!TypeOK /\ Walk!TypeOK
  /\ method \in {"find", "walk"}
  /\ errorChan \in {"empty", "nil", "error"}
  /\ closed \in BOOLEAN
  /\ closed <=> errorChan # "empty"

(* The inductive invariant: the scanner that was not chosen has not moved, *)
(* and the channel holds what the other one returned.                      *)
ScanMatches ==
  /\ Find!FindMatches /\ Walk!WalkMatches
  /\ method = "find" => \A w \in Walkers : pc[w] = "idle"
  /\ method = "walk" => stdout = "idle"
  /\ closed => errorChan = Returned

IInv == TypeOK /\ ScanMatches

(* The entry channel is closed only when nobody is left to send on it, and *)
(* then, unless the run was cancelled, every row that was taken off find's *)
(* pipe has been sent or left out on purpose: the closed pipe does not     *)
(* take what the reader has buffered (find_method.go:108-134, 174-176).    *)
FetchedIsSent ==
  closed =>
    /\ stdout \notin {"reads", "sends"} /\ \A w \in Walkers : pc[w] = "idle"
    /\ ctxDone \/ Find!InHand = 0

(* A scan that went wrong does not end with a nil error: not when find was *)
(* killed or complained, however its exit, the pipes and the two readers   *)
(* interleave (find_method.go:150-187), and in the walkers' scan not when  *)
(* an error was met (scan_method.go:16), unless two of the unlocked        *)
(* appends have overlapped: after that nothing is certain.                 *)
BadScanReported ==
  errorChan = "nil" => IF method = "find" THEN printed = NumRows /\ ~complain
                       ELSE bad = {} \/ raced

(* The scan ends, and its channels are closed: after a cancellation even   *)
(* when nobody takes rows any more and find is blocked on a full pipe, and *)
(* without one as long as the receiver takes rows.  A race of the walkers  *)
(* may end the process instead.                                            *)
ScanReturns == <>(closed \/ walked = "died")
=============================================================================
