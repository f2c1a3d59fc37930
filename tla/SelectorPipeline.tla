-------------------------- MODULE SelectorPipeline --------------------------
(***************************************************************************)
(* The selector: one goroutine parses the CSV (loadCopyEntryCSV), one      *)
(* dispatches rows under a weighted semaphore (workerJoiner.dispatch), one *)
(* goroutine per row runs a sync child (submit, Invoker.Run) and the main  *)
(* goroutine collects the errors (Runner.Execute).  A signal handler       *)
(* cancels the context they share.                                         *)
(*                                                                         *)
(* Rows are numbered in file order.  What a row holds is abstracted to     *)
(* what the parser does with it: csv[r] is the node of a row that parses,  *)
(* Malformed for a row it passes over, Unreadable for a csv.Reader error.  *)
(***************************************************************************)
EXTENDS Integers, Sequences, FiniteSets

CONSTANTS NumRows,      \* rows in the CSV file
          WorkerSizes,  \* values of --worker-size
          NodeSelector, \* the node filter, negative for none
          Nodes,        \* node numbers found in the file
          Malformed,    \* a row the parser passes over
          Unreadable    \* a row on which csv.Reader.Read fails

ASSUME SelectorAssumption ==
  /\ NumRows \in Nat
  /\ WorkerSizes \subseteq Nat
  /\ NodeSelector \in Int
  /\ Nodes \subseteq Nat
  /\ Malformed \notin Nodes
  /\ Unreadable \notin Nodes
  /\ Malformed # Unreadable

Rows == 1..NumRows

VARIABLES
  csv,         \* the contents of the file, fixed once the run starts
  workerSize,  \* --worker-size, fixed as well
  ctxDone,     \* the selector context has been cancelled
  main,        \* control state of Runner.Execute
  errs,        \* the rows whose error Runner.Execute has collected
  loader,      \* control state of loadCopyEntryCSV
  nextRow,     \* the row loadCopyEntryCSV reads next
  entryChan,   \* buffered entryChan
  entryClosed, \* entryChan is closed
  disp,        \* control state of workerJoiner.dispatch
  held,        \* the row the dispatcher has received and not yet submitted
  cur,         \* permits the semaphore has handed out
  want,        \* permits asked for by the one queued waiter, 0 for none
  worker,      \* control state of the goroutine of each row
  outcome,     \* what Invoker.Run returned for the row
  errorChan,   \* buffered errorChan
  errorClosed  \* errorChan is closed

given      == <<csv, workerSize>>
mainVars   == <<main, errs>>
loaderVars == <<loader, nextRow>>
chanVars   == <<entryChan, entryClosed>>
dispVars   == <<disp, held>>
semVars    == <<cur, want>>
workVars   == <<worker, outcome>>
errVars    == <<errorChan, errorClosed>>
vars == <<given, ctxDone, mainVars, loaderVars, chanVars, dispVars, semVars,
          workVars, errVars>>

-----------------------------------------------------------------------------
(* Rows the parser turns into a copyEntry, and rows it sends on. *)
Parses(r) == csv[r] \in Nodes

Accepted(r) == Parses(r) /\ (NodeSelector >= 0 => csv[r] = NodeSelector)

(* A worker is alive from the go statement until its closer has released. *)
AliveStates == {"starting", "running", "signalled", "report", "release"}
Alive == {r \in Rows : worker[r] \in AliveStates}
Children == {r \in Rows : worker[r] \in {"running", "signalled"}}

Init ==
  /\ csv \in [Rows -> Nodes \cup {Malformed, Unreadable}]
  /\ workerSize \in WorkerSizes
  /\ ctxDone = FALSE
  /\ main = "open" /\ errs = <<>>
  /\ loader = "idle" /\ nextRow = 1
  /\ entryChan = <<>> /\ entryClosed = FALSE
  /\ disp = "idle" /\ held = 0
  /\ cur = 0 /\ want = 0
  /\ worker = [r \in Rows |-> "none"]
  /\ outcome = [r \in Rows |-> "none"]
  /\ errorChan = <<>> /\ errorClosed = FALSE

(* SIGINT, SIGTERM or SIGQUIT reaches the handler goroutine. *)
Cancel ==
  /\ ~ctxDone
  /\ main # "done"
  /\ ctxDone' = TRUE
  /\ UNCHANGED <<given, mainVars, loaderVars, chanVars, dispVars, semVars,
                 workVars, errVars>>

-----------------------------------------------------------------------------
(* Runner.Execute *)

OpenFails ==
  /\ main = "open"
  /\ main' = "failed"
  /\ UNCHANGED <<given, ctxDone, errs, loaderVars, chanVars, dispVars, semVars,
                 workVars, errVars>>

OpenCsv ==
  /\ main = "open"
  /\ main' = "collect"
  /\ loader' = "reading"
  /\ disp' = "recv"
  /\ UNCHANGED <<given, ctxDone, errs, nextRow, chanVars, held, semVars,
                 workVars, errVars>>

Collect ==
  /\ main = "collect"
  /\ errorChan # <<>>
  /\ errs' = Append(errs, Head(errorChan))
  /\ errorChan' = Tail(errorChan)
  /\ UNCHANGED <<given, ctxDone, main, loaderVars, chanVars, dispVars, semVars,
                 workVars, errorClosed>>

Finish ==
  /\ main = "collect"
  /\ errorChan = <<>>
  /\ errorClosed
  /\ main' = "done"
  /\ UNCHANGED <<given, ctxDone, errs, loaderVars, chanVars, dispVars, semVars,
                 workVars, errVars>>

-----------------------------------------------------------------------------
(* loadCopyEntryCSV *)

SkipRow ==
  /\ loader = "reading"
  /\ nextRow \in Rows
  /\ csv[nextRow] # Unreadable
  /\ ~Accepted(nextRow)
  /\ nextRow' = nextRow + 1
  /\ UNCHANGED <<given, ctxDone, mainVars, loader, chanVars, dispVars, semVars,
                 workVars, errVars>>

ParseRow ==
  /\ loader = "reading"
  /\ nextRow \in Rows
  /\ Accepted(nextRow)
  /\ loader' = "sending"
  /\ UNCHANGED <<given, ctxDone, mainVars, nextRow, chanVars, dispVars, semVars,
                 workVars, errVars>>

(* A channel of capacity 0 hands over only to a dispatcher at its receive. *)
EntryRoom ==
  \/ Len(entryChan) < workerSize
  \/ workerSize = 0 /\ entryChan = <<>> /\ disp = "recv"

Bug_SendDropsWhenFull ==
  /\ loader = "sending"
  /\ entryChan' = IF EntryRoom THEN Append(entryChan, nextRow) ELSE entryChan
  /\ nextRow' = nextRow + 1
  /\ loader' = "reading"
  /\ UNCHANGED <<given, ctxDone, mainVars, entryClosed, dispVars, semVars,
                 workVars, errVars>>

SendEntry ==
  /\ loader = "sending"
  /\ EntryRoom
  /\ entryChan' = Append(entryChan, nextRow)
  /\ nextRow' = nextRow + 1
  /\ loader' = "reading"
  /\ UNCHANGED <<given, ctxDone, mainVars, entryClosed, dispVars, semVars,
                 workVars, errVars>>

(* End of file, a read error, or ctx.Done chosen over a pending send.  The *)
(* three return alike: close(entryChan), nothing reported to the caller.   *)
LoaderReturns ==
  /\ \/ loader = "reading" /\ nextRow > NumRows
     \/ loader = "reading" /\ nextRow \in Rows /\ csv[nextRow] = Unreadable
     \/ loader = "sending" /\ ctxDone
  /\ loader' = "done"
  /\ entryClosed' = TRUE
  /\ UNCHANGED <<given, ctxDone, mainVars, nextRow, entryChan, dispVars, semVars,
                 workVars, errVars>>

-----------------------------------------------------------------------------
(* workerJoiner.dispatch.  The dispatcher is the only caller of Acquire,   *)
(* so the semaphore's waiter list holds at most its own request.           *)

RecvEntry ==
  /\ disp = "recv"
  /\ entryChan # <<>>
  /\ held' = Head(entryChan)
  /\ entryChan' = Tail(entryChan)
  /\ disp' = "acquire"
  /\ UNCHANGED <<given, ctxDone, mainVars, loaderVars, entryClosed, semVars,
                 workVars, errVars>>

RecvClosed ==
  /\ disp = "recv"
  /\ entryChan = <<>>
  /\ entryClosed
  /\ disp' = "drain"
  /\ UNCHANGED <<given, ctxDone, mainVars, loaderVars, chanVars, held, semVars,
                 workVars, errVars>>

Submit(r) == worker' = [worker EXCEPT ![r] = "starting"]

Bug_AcquireOffByOne ==
  /\ disp = "acquire"
  /\ cur <= workerSize
  /\ cur' = cur + 1
  /\ Submit(held)
  /\ disp' = "recv" /\ held' = 0
  /\ UNCHANGED <<given, ctxDone, mainVars, loaderVars, chanVars, want, outcome,
                 errVars>>

(* A free permit is taken without a look at the context. *)
AcquireFree ==
  /\ disp = "acquire"
  /\ cur < workerSize
  /\ cur' = cur + 1
  /\ Submit(held)
  /\ disp' = "recv" /\ held' = 0
  /\ UNCHANGED <<given, ctxDone, mainVars, loaderVars, chanVars, want, outcome,
                 errVars>>

(* No permit is free: queue for one, or with workerSize = 0 wait only for  *)
(* the context, since no Release will ever come.                           *)
AcquireQueues ==
  /\ disp = "acquire"
  /\ cur >= workerSize
  /\ want' = 1
  /\ disp' = "wait"
  /\ UNCHANGED <<given, ctxDone, mainVars, loaderVars, chanVars, held, cur,
                 workVars, errVars>>

AcquireGranted ==
  /\ disp = "wait"
  /\ want = 0
  /\ Submit(held)
  /\ disp' = "recv" /\ held' = 0
  /\ UNCHANGED <<given, ctxDone, mainVars, loaderVars, chanVars, semVars, outcome,
                 errVars>>

(* Cancelled before the grant: the request leaves the list and dispatch    *)
(* returns, dropping the row it holds and those still in the channel.      *)
AcquireCancelled ==
  /\ disp = "wait"
  /\ want = 1
  /\ ctxDone
  /\ want' = 0
  /\ disp' = "drain" /\ held' = 0
  /\ UNCHANGED <<given, ctxDone, mainVars, loaderVars, chanVars, cur, workVars,
                 errVars>>

Bug_DrainNotWaiting ==
  /\ disp = "drain"
  /\ disp' = "closing"
  /\ UNCHANGED <<given, ctxDone, mainVars, loaderVars, chanVars, held, semVars,
                 workVars, errVars>>

(* The deferred Acquire(context.Background(), workerSize). *)
DrainFree ==
  /\ disp = "drain"
  /\ cur = 0
  /\ cur' = workerSize
  /\ disp' = "closing"
  /\ UNCHANGED <<given, ctxDone, mainVars, loaderVars, chanVars, held, want,
                 workVars, errVars>>

DrainQueues ==
  /\ disp = "drain"
  /\ cur > 0
  /\ want' = workerSize
  /\ disp' = "drainwait"
  /\ UNCHANGED <<given, ctxDone, mainVars, loaderVars, chanVars, held, cur,
                 workVars, errVars>>

DrainGranted ==
  /\ disp = "drainwait"
  /\ want = 0
  /\ disp' = "closing"
  /\ UNCHANGED <<given, ctxDone, mainVars, loaderVars, chanVars, held, semVars,
                 workVars, errVars>>

CloseErrors ==
  /\ disp = "closing"
  /\ errorClosed' = TRUE
  /\ disp' = "done"
  /\ UNCHANGED <<given, ctxDone, mainVars, loaderVars, chanVars, held, semVars,
                 workVars, errorChan>>

-----------------------------------------------------------------------------
(* workerJoiner.submit and Invoker.Run, one goroutine per row *)

(* Isolation flags, Start: the child is running or Run returns an error. *)
StartChild(r) ==
  /\ worker[r] = "starting"
  /\ \/ /\ worker' = [worker EXCEPT ![r] = "running"]
        /\ UNCHANGED outcome
     \/ /\ worker' = [worker EXCEPT ![r] = "report"]
        /\ outcome' = [outcome EXCEPT ![r] = "fail"]
  /\ UNCHANGED <<given, ctxDone, mainVars, loaderVars, chanVars, dispVars,
                 semVars, errVars>>

Bug_SignalNever(r) == FALSE

(* The watcher goroutine of Run forwards the cancellation as SIGTERM. *)
SignalChild(r) ==
  /\ worker[r] = "running"
  /\ ctxDone
  /\ worker' = [worker EXCEPT ![r] = "signalled"]
  /\ UNCHANGED <<given, ctxDone, mainVars, loaderVars, chanVars, dispVars,
                 semVars, outcome, errVars>>

(* Wait returns.  A child that was signalled may still report success: its *)
(* native copier maps the cancellation to exit code 0.                     *)
ChildExits(r) ==
  /\ worker[r] \in {"running", "signalled"}
  /\ \E o \in {"ok", "fail"} :
       /\ outcome' = [outcome EXCEPT ![r] = o]
       /\ worker' = [worker EXCEPT ![r] = IF o = "ok" THEN "release" ELSE "report"]
  /\ UNCHANGED <<given, ctxDone, mainVars, loaderVars, chanVars, dispVars,
                 semVars, errVars>>

Bug_ReportDropsWhenFull(r) ==
  /\ worker[r] = "report"
  /\ errorChan' = IF Len(errorChan) < 1 THEN Append(errorChan, r) ELSE errorChan
  /\ worker' = [worker EXCEPT ![r] = "release"]
  /\ UNCHANGED <<given, ctxDone, mainVars, loaderVars, chanVars, dispVars,
                 semVars, outcome, errorClosed>>

Report(r) ==
  /\ worker[r] = "report"
  /\ Len(errorChan) < workerSize
  /\ errorChan' = Append(errorChan, r)
  /\ worker' = [worker EXCEPT ![r] = "release"]
  /\ UNCHANGED <<given, ctxDone, mainVars, loaderVars, chanVars, dispVars,
                 semVars, outcome, errorClosed>>

Bug_ReleaseForgetsWaiter(r) ==
  /\ worker[r] = "release"
  /\ worker' = [worker EXCEPT ![r] = "gone"]
  /\ cur' = cur - 1
  /\ UNCHANGED <<given, ctxDone, mainVars, loaderVars, chanVars, dispVars, want,
                 outcome, errVars>>

(* The deferred closer: Release(1), which grants the queued request if it  *)
(* now fits.                                                               *)
Release(r) ==
  /\ worker[r] = "release"
  /\ worker' = [worker EXCEPT ![r] = "gone"]
  /\ IF want > 0 /\ cur - 1 + want <= workerSize
     THEN cur' = cur - 1 + want /\ want' = 0
     ELSE cur' = cur - 1 /\ UNCHANGED want
  /\ UNCHANGED <<given, ctxDone, mainVars, loaderVars, chanVars, dispVars,
                 outcome, errVars>>

-----------------------------------------------------------------------------
Main == OpenFails \/ OpenCsv \/ Collect \/ Finish

Loader == SkipRow \/ ParseRow \/ SendEntry \/ LoaderReturns

Dispatcher ==
  \/ RecvEntry \/ RecvClosed
  \/ AcquireFree \/ AcquireQueues \/ AcquireGranted \/ AcquireCancelled
  \/ DrainFree \/ DrainQueues \/ DrainGranted \/ CloseErrors

(* The steps of a worker that do not depend on how long its child runs. *)
WorkerStep(r) == StartChild(r) \/ SignalChild(r) \/ Report(r) \/ Release(r)

Stopped == main \in {"done", "failed"} /\ UNCHANGED vars

Next ==
  \/ Cancel
  \/ Main
  \/ Loader
  \/ Dispatcher
  \/ \E r \in Rows : WorkerStep(r) \/ ChildExits(r)
  \/ Stopped

Spec == Init /\ [][Next]_vars

(* The Go scheduler runs every goroutine that can run, and a child that    *)
(* has received SIGTERM ends; one that has not may run for ever.  Opening  *)
(* the file and reading from it may block for ever too: the input may be   *)
(* standard input or a FIFO, and neither call looks at the context.        *)
Fairness ==
  /\ WF_vars(Collect \/ Finish)
  /\ WF_vars(loader = "sending" /\ Loader)
  /\ WF_vars(Dispatcher)
  /\ \A r \in Rows : WF_vars(WorkerStep(r))
  /\ \A r \in Rows : WF_vars(worker[r] = "signalled" /\ ChildExits(r))

FairSpec == Spec /\ Fairness

(* What a run may assume of its sync children: each ends by itself. *)
ChildrenEnd == \A r \in Rows : WF_vars(ChildExits(r))

(* What it may assume of its input: it can be opened or not, and every     *)
(* read returns a row, an error or the end of the file.                    *)
InputArrives == WF_vars(OpenFails \/ OpenCsv) /\ WF_vars(loader = "reading" /\ Loader)

-----------------------------------------------------------------------------
TypeOK ==
  /\ csv \in [Rows -> Nodes \cup {Malformed, Unreadable}]
  /\ workerSize \in WorkerSizes
  /\ ctxDone \in BOOLEAN
  /\ main \in {"open", "failed", "collect", "done"}
  /\ errs \in Seq(Rows)
  /\ loader \in {"idle", "reading", "sending", "done"}
  /\ nextRow \in 1..NumRows + 1
  /\ loader = "sending" => nextRow \in Rows
  /\ entryChan \in Seq(Rows)
  /\ entryClosed \in BOOLEAN
  /\ disp \in {"idle", "recv", "acquire", "wait", "drain", "drainwait",
               "closing", "done"}
  /\ held \in 0..NumRows
  /\ disp \in {"acquire", "wait"} => held \in Rows
  /\ cur \in 0..workerSize
  /\ want \in 0..workerSize \cup {1}
  /\ worker \in [Rows -> AliveStates \cup {"none", "gone"}]
  /\ outcome \in [Rows -> {"none", "ok", "fail"}]
  /\ errorChan \in Seq(Rows)
  /\ errorClosed \in BOOLEAN

(* Every permit is accounted for: one per live worker, one for a grant the *)
(* dispatcher has not picked up yet, all of them once the drain succeeded. *)
Granted == IF disp = "wait" /\ want = 0 THEN 1 ELSE 0
Drained == IF disp \in {"closing", "done"} \/ (disp = "drainwait" /\ want = 0)
           THEN workerSize ELSE 0

PermitsMatch == cur = Cardinality(Alive) + Granted + Drained

RequestsMatch ==
  /\ want # 0 => disp \in {"wait", "drainwait"}
  /\ disp = "wait" => want \in {0, 1}
  /\ disp = "drainwait" => want \in {0, workerSize}

(* Rows move through the loader, entryChan, the dispatcher and the workers *)
(* in increasing order, so no row is in two places.                        *)
RowsOrdered ==
  /\ \A i \in DOMAIN entryChan :
       /\ entryChan[i] < nextRow
       /\ disp \in {"acquire", "wait"} => held < entryChan[i]
       /\ \A j \in DOMAIN entryChan : i < j => entryChan[i] < entryChan[j]
       /\ \A r \in Rows : worker[r] # "none" => r < entryChan[i]
  /\ disp \in {"acquire", "wait"} => held < nextRow
  /\ \A r \in Rows :
       worker[r] # "none" =>
         /\ r < nextRow
         /\ disp \in {"acquire", "wait"} => r < held

ClosedMatches == errorClosed <=> disp = "done"

NotStarted == main = "open" => disp = "idle"

(* The permits, the order of the rows and the types: inductive by itself.  *)
PermitInv ==
  /\ TypeOK
  /\ PermitsMatch
  /\ RequestsMatch
  /\ RowsOrdered
  /\ ClosedMatches
  /\ NotStarted

Leaving   == {"drain", "drainwait", "closing", "done"}
Queued    == {entryChan[i] : i \in DOMAIN entryChan}
Reported  == {errorChan[i] : i \in DOMAIN errorChan}
Collected == {errs[i] : i \in DOMAIN errs}
Sent == {r \in Rows : outcome[r] = "fail" /\ worker[r] \in {"release", "gone"}}

(* An accepted row the loader has passed is in the channel, held by the    *)
(* dispatcher or started; a dispatcher that leaves cancelled drops some.   *)
NoneSkipped ==
  \A q \in Rows : q < nextRow /\ Accepted(q) =>
    \/ worker[q] # "none"
    \/ q \in Queued
    \/ disp \in {"acquire", "wait"} /\ held = q
    \/ disp \in Leaving /\ ctxDone

(* A row is started when every accepted row before it has been.            *)
StartedInOrder ==
  \A r, q \in Rows : q < r /\ worker[r] # "none" /\ Accepted(q) => worker[q] # "none"

OutcomesMatch ==
  \A r \in Rows :
    /\ outcome[r] # "none" <=> worker[r] \in {"report", "release", "gone"}
    /\ worker[r] = "report" => outcome[r] = "fail"

(* What it takes for the loader, the dispatcher and Execute to end.        *)
EndsMatch ==
  /\ main = "open" => loader = "idle"
  /\ entryClosed <=> loader = "done"
  /\ loader = "done" /\ ~ctxDone =>
       nextRow > NumRows \/ (nextRow \in Rows /\ csv[nextRow] = Unreadable)
  /\ disp \in Leaving => ctxDone \/ (entryClosed /\ entryChan = <<>>)
  /\ main = "done" => errorClosed /\ errorChan = <<>>

(* Every error sent is on the channel or collected, and only once.         *)
ErrorsKept ==
  /\ Collected \cup Reported = Sent
  /\ Len(errs) + Len(errorChan) = Cardinality(Sent)

(* The inductive invariant. *)
IInv ==
  /\ PermitInv
  /\ NoneSkipped
  /\ StartedInOrder
  /\ OutcomesMatch
  /\ EndsMatch
  /\ ErrorsKept

(* At most --worker-size sync children run at once, whatever the order in  *)
(* which workers end, the dispatcher is cancelled and the drain queues     *)
(* (joiner.go, semaphore.Acquire and Release).                             *)
BoundedChildren == Cardinality(Children) <= workerSize

(* errorChan is closed only when no worker is left that could send on it   *)
(* (joiner.go:36-37): a send on a closed channel panics.                   *)
NoSendOnClosed == errorClosed => Alive = {}

(* Rows are started in file order without gaps: one is only ever started   *)
(* when every accepted row before it has been.  And unless the run was     *)
(* cancelled or the file could not be read to its end, Execute returns     *)
(* only after a child has been run for every accepted row.                 *)
RowsHandledInOrder ==
  /\ StartedInOrder
  /\ main = "done" /\ ~ctxDone /\ (\A r \in Rows : csv[r] # Unreadable)
       => \A r \in Rows : Accepted(r) => outcome[r] # "none"

(* When Execute returns, the errors it joins are exactly the failed rows,  *)
(* each once: none is lost in the channel or in the drain.                 *)
FailuresCollected ==
  main = "done" =>
    /\ Collected = {r \in Rows : outcome[r] = "fail"}
    /\ Len(errs) = Cardinality({r \in Rows : outcome[r] = "fail"})

(* A cancelled selector stops, whatever --worker-size is: every child gets *)
(* the signal and in the end none is left.  The loader in its send, the    *)
(* dispatcher in its Acquire and the workers leave their blocking points,  *)
(* so that Execute returns as well, unless the loader is blocked in a read *)
(* that never returns (runner.go:81), or Execute in the opening of a FIFO. *)
CancelStops ==
  /\ ctxDone ~> [](Alive = {})
  /\ InputArrives => (ctxDone ~> main \in {"done", "failed"})

(* If every child ends and the input does, so does the selector: no wakeup *)
(* of the semaphore is lost, nobody is left on a full or an unclosed       *)
(* channel.  With --worker-size 0 this needs a file without accepted rows. *)
EventuallyReturns ==
  /\ ChildrenEnd
  /\ InputArrives
  /\ workerSize > 0 \/ \A r \in Rows : ~Accepted(r)
  => <>(main \in {"done", "failed"})

(* The fan-out implements what joiners promise. *)
Status == [r \in Rows |-> IF worker[r] \in AliveStates THEN "alive"
                          ELSE IF worker[r] = "gone" THEN "finished" ELSE "idle"]

Bounded == INSTANCE FanOut WITH
  Jobs <- Rows, limit <- workerSize,
  status <- Status, sent <- Sent, closed <- errorClosed

ImplementsFanOut == Bounded!Spec
=============================================================================
