--------------------------- MODULE ChunkPipeline ---------------------------
(***************************************************************************)
(* The copier: a scanner goroutine emits entries, the dispatcher           *)
(* (chunkJoiner.dispatch) fills pooled chunks and submits them under a     *)
(* weighted semaphore, one goroutine per chunk runs the backend with       *)
(* retries, and the main goroutine (Runner.Execute) adds up the results.   *)
(*                                                                         *)
(* Entries are numbered in the order the scanner emits them, so the        *)
(* entries of a chunk are an interval lo..hi; the chunk's backing array is *)
(* one of Buffers, and array[b] is what the array holds.                   *)
(***************************************************************************)
EXTENDS Integers, Sequences, FiniteSets

CONSTANTS NumEntries, \* the most entries a scan emits
          TaskSize,   \* --task-size
          ChunkSize,  \* --chunk-size
          Attempts    \* --retry-attempts

ASSUME ChunkAssumption ==
  /\ NumEntries \in Nat
  /\ TaskSize \in Nat \ {0}
  /\ ChunkSize \in Nat \ {0}
  /\ Attempts \in Nat

Entries == 1..NumEntries
Jobs    == Entries      \* a job copies at least one entry
Buffers == Entries      \* the pool makes at most one array per job

VARIABLES
  ctxDone,     \* the copier context has been cancelled
  main,        \* control state of Runner.Execute
  total,       \* result.total
  failures,    \* the jobs whose error Runner.Execute has collected
  scanErr,     \* Runner.Execute has collected the scanner's error
  scanner,     \* control state of Scanner.execute
  emitted,     \* entries the scanner has sent
  scanBad,     \* the scan has returned an error
  scanErrChan, \* the one-shot scannerErrorChan: "empty" or "error"
  entryChan,   \* buffered entryChan
  disp,        \* control state of chunkJoiner.dispatch
  ended,       \* the dispatcher's loop variable
  chunk,       \* the chunk being filled
  received,    \* entries the dispatcher has taken off entryChan
  pool,        \* arrays in chunkPool
  fresh,       \* arrays chunkPool.New has made
  array,       \* contents of each array
  cur,         \* permits the semaphore has handed out
  want,        \* permits asked for by the one queued waiter, 0 for none
  submitted,   \* jobs submitted so far
  job,         \* each job: control state, chunk, attempt and outcome
  resultChan,  \* buffered resultChan
  resultClosed \* resultChan is closed

mainVars  == <<main, total, failures, scanErr>>
scanVars  == <<scanner, emitted, scanBad, scanErrChan>>
dispVars  == <<disp, ended, chunk, received>>
poolVars  == <<pool, fresh, array>>
semVars   == <<cur, want>>
jobVars   == <<submitted, job>>
resVars   == <<resultChan, resultClosed>>
vars == <<ctxDone, mainVars, scanVars, entryChan, dispVars, poolVars, semVars,
          jobVars, resVars>>

-----------------------------------------------------------------------------
NoChunk == [buf |-> 0, lo |-> 1, len |-> 0]
NoJob == [st |-> "none", buf |-> 0, lo |-> 1, len |-> 0, try |-> 0,
          out |-> "none", nil |-> FALSE]

AliveStates == {"starting", "copying", "waiting", "report", "release", "put"}
HoldingStates == AliveStates \ {"put"}
Full(c) == c.len = ChunkSize

Init ==
  /\ ctxDone = FALSE
  /\ main = "prepare" /\ total = 0 /\ failures = {} /\ scanErr = FALSE
  /\ scanner = "idle" /\ emitted = 0 /\ scanBad = FALSE /\ scanErrChan = "empty"
  /\ entryChan = <<>>
  /\ disp = "idle" /\ ended = FALSE /\ chunk = NoChunk /\ received = 0
  /\ pool = {} /\ fresh = 0
  /\ array = [b \in Buffers |-> [i \in 1..ChunkSize |-> 0]]
  /\ cur = 0 /\ want = 0
  /\ submitted = 0 /\ job = [j \in Jobs |-> NoJob]
  /\ resultChan = <<>> /\ resultClosed = FALSE

(* A panic in the main goroutine ends the process: nothing runs after it. *)
Running == main # "crashed"

Cancel ==
  /\ ~ctxDone
  /\ main \notin {"done", "failed", "crashed"}
  /\ ctxDone' = TRUE
  /\ UNCHANGED <<mainVars, scanVars, entryChan, dispVars, poolVars, semVars,
                 jobVars, resVars>>

-----------------------------------------------------------------------------
(* Runner.Execute *)

PrepareFails ==
  /\ main = "prepare"
  /\ main' = "failed"
  /\ UNCHANGED <<ctxDone, total, failures, scanErr, scanVars, entryChan,
                 dispVars, poolVars, semVars, jobVars, resVars>>

Prepare ==
  /\ main = "prepare"
  /\ main' = "collect"
  /\ scanner' = "scanning"
  /\ disp' = "select"
  /\ UNCHANGED <<ctxDone, total, failures, scanErr, emitted, scanBad, scanErrChan,
                 entryChan, ended, chunk, received, poolVars, semVars, jobVars,
                 resVars>>

Bug_CollectSkipsFailed ==
  /\ main = "collect"
  /\ resultChan # <<>>
  /\ LET j == Head(resultChan) IN
       IF job[j].out = "fail"
       THEN failures' = failures \cup {j} /\ UNCHANGED <<main, total>>
       ELSE total' = total + job[j].len /\ UNCHANGED <<main, failures>>
  /\ resultChan' = Tail(resultChan)
  /\ UNCHANGED <<ctxDone, scanErr, scanVars, entryChan, dispVars, poolVars,
                 semVars, jobVars, resultClosed>>

(* result.Append dereferences the Result of the chunk: a nil one panics. *)
Collect ==
  /\ main = "collect"
  /\ resultChan # <<>>
  /\ LET j == Head(resultChan) IN
       IF job[j].nil
       THEN main' = "crashed" /\ UNCHANGED <<total, failures>>
       ELSE /\ total' = total + job[j].len
            /\ failures' = failures \cup (IF job[j].out = "fail" THEN {j} ELSE {})
            /\ UNCHANGED main
  /\ resultChan' = Tail(resultChan)
  /\ UNCHANGED <<ctxDone, scanErr, scanVars, entryChan, dispVars, poolVars,
                 semVars, jobVars, resultClosed>>

ResultsEnd ==
  /\ main = "collect"
  /\ resultChan = <<>>
  /\ resultClosed
  /\ main' = "scanresult"
  /\ UNCHANGED <<ctxDone, total, failures, scanErr, scanVars, entryChan,
                 dispVars, poolVars, semVars, jobVars, resVars>>

(* The receive on scannerErrorChan: an error, or the close of the channel. *)
Finish ==
  /\ main = "scanresult"
  /\ \/ scanErrChan = "error" /\ scanErr' = TRUE /\ scanErrChan' = "empty"
     \/ scanErrChan = "empty" /\ scanner = "done" /\ UNCHANGED <<scanErr, scanErrChan>>
  /\ main' = "done"
  /\ UNCHANGED <<ctxDone, total, failures, scanner, emitted, scanBad, entryChan,
                 dispVars, poolVars, semVars, jobVars, resVars>>

-----------------------------------------------------------------------------
(* Scanner.execute, for both scan methods *)

Emit ==
  /\ Running
  /\ scanner = "scanning"
  /\ emitted < NumEntries
  /\ Len(entryChan) < TaskSize * ChunkSize
  /\ emitted' = emitted + 1
  /\ entryChan' = Append(entryChan, emitted + 1)
  /\ UNCHANGED <<ctxDone, mainVars, scanner, scanBad, scanErrChan, dispVars, poolVars,
                 semVars, jobVars, resVars>>

(* The scan is over, with or without an error, after any number of         *)
(* entries: the context cuts it short, rows are left out or lost before    *)
(* they are sent, a walker's error is dropped.  What a scan promises of    *)
(* its entries is FileScanner's subject.                                   *)
ScanEnds ==
  /\ Running
  /\ scanner = "scanning"
  /\ scanBad' \in BOOLEAN
  /\ scanErrChan' = IF scanBad' THEN "error" ELSE "empty"
  /\ scanner' = "ending"
  /\ UNCHANGED <<ctxDone, mainVars, emitted, entryChan, dispVars, poolVars,
                 semVars, jobVars, resVars>>

(* The deferred close(entryChan), then close(errorChan). *)
ScanCloses ==
  /\ Running
  /\ \/ scanner = "ending" /\ scanner' = "entriesClosed"
     \/ scanner = "entriesClosed" /\ scanner' = "done"
  /\ UNCHANGED <<ctxDone, mainVars, emitted, scanBad, scanErrChan, entryChan,
                 dispVars, poolVars, semVars, jobVars, resVars>>

EntriesClosed == scanner \in {"entriesClosed", "done"}

-----------------------------------------------------------------------------
(* chunkJoiner.dispatch *)

(* chunkPool.Put(chunk[0:0]) of the dispatcher's own chunk. *)
PutBack == pool' = IF chunk.buf = 0 THEN pool ELSE pool \cup {chunk.buf}

SelectCancelled ==
  /\ Running
  /\ disp = "select"
  /\ ctxDone
  /\ PutBack
  /\ chunk' = NoChunk
  /\ ended' = TRUE
  /\ disp' = "drain"
  /\ UNCHANGED <<ctxDone, mainVars, scanVars, entryChan, received, fresh, array,
                 semVars, jobVars, resVars>>

(* An entry is appended to the chunk, which is fetched from the pool when  *)
(* there is none; a full chunk is submitted.                               *)
SelectEntry ==
  /\ Running
  /\ disp = "select"
  /\ entryChan # <<>>
  /\ LET e == Head(entryChan)
         c(b) == IF chunk.buf # 0 THEN [chunk EXCEPT !.len = @ + 1]
                 ELSE [buf |-> b, lo |-> e, len |-> 1]
     IN \E b \in IF chunk.buf # 0 THEN {chunk.buf} ELSE pool \cup {fresh + 1} :
          /\ chunk' = c(b)
          /\ array' = [array EXCEPT ![b][chunk.len + 1] = e]
          /\ pool' = pool \ {b}
          /\ fresh' = IF b > fresh THEN b ELSE fresh
          /\ disp' = IF Full(c(b)) THEN "acquire" ELSE "select"
          /\ received' = e
  /\ entryChan' = Tail(entryChan)
  /\ UNCHANGED <<ctxDone, mainVars, scanVars, ended, semVars, jobVars, resVars>>

Bug_ClosedDropsTail ==
  /\ Running
  /\ disp = "select"
  /\ entryChan = <<>>
  /\ EntriesClosed
  /\ ended' = TRUE
  /\ disp' = "drain"
  /\ UNCHANGED <<ctxDone, mainVars, scanVars, entryChan, chunk, received,
                 poolVars, semVars, jobVars, resVars>>

(* entryChan is closed and drained: the trailing chunk is submitted. *)
SelectClosed ==
  /\ Running
  /\ disp = "select"
  /\ entryChan = <<>>
  /\ EntriesClosed
  /\ ended' = TRUE
  /\ disp' = IF chunk.len > 0 THEN "acquire" ELSE "drain"
  /\ UNCHANGED <<ctxDone, mainVars, scanVars, entryChan, chunk, received,
                 poolVars, semVars, jobVars, resVars>>

Bug_TickDropsChunk ==
  /\ Running
  /\ disp = "select"
  /\ chunk.len > 0
  /\ chunk' = NoChunk
  /\ UNCHANGED <<ctxDone, mainVars, scanVars, entryChan, disp, ended, received,
                 poolVars, semVars, jobVars, resVars>>

(* The ticker flushes a partial chunk; an empty one stays as it is. *)
SelectTick ==
  /\ Running
  /\ disp = "select"
  /\ chunk.len > 0
  /\ disp' = "acquire"
  /\ UNCHANGED <<ctxDone, mainVars, scanVars, entryChan, ended, chunk, received,
                 poolVars, semVars, jobVars, resVars>>

Bug_SubmitKeepsArray ==
  /\ submitted' = submitted + 1
  /\ job' = [job EXCEPT ![submitted + 1] =
               [NoJob EXCEPT !.st = "starting", !.buf = chunk.buf,
                             !.lo = chunk.lo, !.len = chunk.len]]
  /\ chunk' = [buf |-> chunk.buf, lo |-> chunk.lo + chunk.len, len |-> 0]
  /\ disp' = IF ended THEN "drain" ELSE "select"

(* go c.submit(...), then chunk = nil. *)
Submit ==
  /\ submitted' = submitted + 1
  /\ job' = [job EXCEPT ![submitted + 1] =
               [NoJob EXCEPT !.st = "starting", !.buf = chunk.buf,
                             !.lo = chunk.lo, !.len = chunk.len]]
  /\ chunk' = NoChunk
  /\ disp' = IF ended THEN "drain" ELSE "select"

(* A free permit is taken without a look at the context. *)
AcquireFree ==
  /\ Running
  /\ disp = "acquire"
  /\ cur < TaskSize
  /\ cur' = cur + 1
  /\ Submit
  /\ UNCHANGED <<ctxDone, mainVars, scanVars, entryChan, ended, received,
                 poolVars, want, resVars>>

AcquireQueues ==
  /\ Running
  /\ disp = "acquire"
  /\ cur = TaskSize
  /\ want' = 1
  /\ disp' = "wait"
  /\ UNCHANGED <<ctxDone, mainVars, scanVars, entryChan, ended, chunk, received,
                 poolVars, cur, jobVars, resVars>>

AcquireGranted ==
  /\ Running
  /\ disp = "wait"
  /\ want = 0
  /\ Submit
  /\ UNCHANGED <<ctxDone, mainVars, scanVars, entryChan, ended, received,
                 poolVars, semVars, resVars>>

(* Cancelled while queued: the chunk goes back to the pool uncopied. *)
AcquireCancelled ==
  /\ Running
  /\ disp = "wait"
  /\ want = 1
  /\ ctxDone
  /\ want' = 0
  /\ PutBack
  /\ chunk' = NoChunk
  /\ ended' = TRUE
  /\ disp' = "drain"
  /\ UNCHANGED <<ctxDone, mainVars, scanVars, entryChan, received, fresh, array,
                 cur, jobVars, resVars>>

Bug_DrainNotWaiting ==
  /\ Running
  /\ disp = "drain"
  /\ disp' = "closing"
  /\ UNCHANGED <<ctxDone, mainVars, scanVars, entryChan, ended, chunk, received,
                 poolVars, semVars, jobVars, resVars>>

(* The deferred Acquire(context.Background(), taskSize). *)
DrainFree ==
  /\ Running
  /\ disp = "drain"
  /\ cur = 0
  /\ cur' = TaskSize
  /\ disp' = "closing"
  /\ UNCHANGED <<ctxDone, mainVars, scanVars, entryChan, ended, chunk, received,
                 poolVars, want, jobVars, resVars>>

DrainQueues ==
  /\ Running
  /\ disp = "drain"
  /\ cur > 0
  /\ want' = TaskSize
  /\ disp' = "drainwait"
  /\ UNCHANGED <<ctxDone, mainVars, scanVars, entryChan, ended, chunk, received,
                 poolVars, cur, jobVars, resVars>>

DrainGranted ==
  /\ Running
  /\ disp = "drainwait"
  /\ want = 0
  /\ disp' = "closing"
  /\ UNCHANGED <<ctxDone, mainVars, scanVars, entryChan, ended, chunk, received,
                 poolVars, semVars, jobVars, resVars>>

CloseResults ==
  /\ Running
  /\ disp = "closing"
  /\ resultClosed' = TRUE
  /\ disp' = "done"
  /\ UNCHANGED <<ctxDone, mainVars, scanVars, entryChan, ended, chunk, received,
                 poolVars, semVars, jobVars, resultChan>>

-----------------------------------------------------------------------------
(* submit, and Execute of either backend around its attempts *)

JobStep(j, from) ==
  /\ Running
  /\ job[j].st = from
  /\ UNCHANGED <<ctxDone, mainVars, scanVars, entryChan, dispVars, submitted>>

Move(j, st) == job' = [job EXCEPT ![j].st = st]

End(j, out, nil) ==
  job' = [job EXCEPT ![j].st = "report", ![j].try = 0, ![j].out = out, ![j].nil = nil]

Attempt(j) == job' = [job EXCEPT ![j].st = "copying", ![j].try = @ + 1]

(* retry.Do looks at the context before the first attempt: when it is done *)
(* the chunk's result is still the nil interface.  Without retries the     *)
(* backend is called directly.                                             *)
StartCopy(j) ==
  /\ JobStep(j, "starting")
  /\ IF Attempts > 0 /\ ctxDone
     THEN End(j, "fail", TRUE)
     ELSE Attempt(j)
  /\ UNCHANGED <<poolVars, semVars, resVars>>

(* An attempt ends: every entry handled, an error, or, once the context is *)
(* done, the loop left early with a nil error (native) or an error (rsync).*)
(* A retryable error waits for the next attempt while there is one.        *)
AttemptEnds(j) ==
  /\ JobStep(j, "copying")
  /\ \/ End(j, "ok", FALSE)
     \/ ctxDone /\ End(j, "cut", FALSE)
     \/ End(j, "fail", FALSE)
     \/ job[j].try < Attempts /\ Move(j, "waiting")
  /\ UNCHANGED <<poolVars, semVars, resVars>>

(* The retry delay elapses, or the context ends it. *)
DelayEnds(j) ==
  /\ JobStep(j, "waiting")
  /\ \/ Attempt(j)
     \/ ctxDone /\ End(j, "fail", FALSE)
  /\ UNCHANGED <<poolVars, semVars, resVars>>

Report(j) ==
  /\ JobStep(j, "report")
  /\ Len(resultChan) < TaskSize
  /\ resultChan' = Append(resultChan, j)
  /\ Move(j, "release")
  /\ UNCHANGED <<poolVars, semVars, resultClosed>>

Bug_ReleaseForgetsWaiter(j) ==
  /\ JobStep(j, "release")
  /\ cur' = cur - 1
  /\ Move(j, "put")
  /\ UNCHANGED <<want, poolVars, resVars>>

(* taskCloser: Release(1), which may grant the queued request ... *)
Release(j) ==
  /\ JobStep(j, "release")
  /\ IF want > 0 /\ cur - 1 + want <= TaskSize
     THEN cur' = cur - 1 + want /\ want' = 0
     ELSE cur' = cur - 1 /\ UNCHANGED want
  /\ Move(j, "put")
  /\ UNCHANGED <<poolVars, resVars>>

(* ... then Put of the chunk. *)
PutChunk(j) ==
  /\ JobStep(j, "put")
  /\ pool' = pool \cup {job[j].buf}
  /\ job' = [job EXCEPT ![j].st = "gone", ![j].buf = 0]
  /\ UNCHANGED <<fresh, array, semVars, resVars>>

-----------------------------------------------------------------------------
Main == PrepareFails \/ Prepare \/ Collect \/ ResultsEnd \/ Finish
Scan == Emit \/ ScanEnds \/ ScanCloses
Select == SelectCancelled \/ SelectEntry \/ SelectClosed
Acquire == AcquireFree \/ AcquireQueues \/ AcquireGranted \/ AcquireCancelled
Drain == DrainFree \/ DrainQueues \/ DrainGranted \/ CloseResults
Dispatcher == Select \/ SelectTick \/ Acquire \/ Drain
Worker(j) ==
  \/ StartCopy(j) \/ AttemptEnds(j) \/ DelayEnds(j) \/ Report(j)
  \/ Release(j) \/ PutChunk(j)

Stopped == main \in {"done", "failed", "crashed"} /\ UNCHANGED vars

Next == Cancel \/ Main \/ Scan \/ Dispatcher \/ (\E j \in Jobs : Worker(j)) \/ Stopped

Spec == Init /\ [][Next]_vars

(* Every goroutine that can run does; file copies end.  The ticker is left *)
(* out: termination must not depend on it.                                 *)
Fairness ==
  /\ WF_vars(Main) /\ WF_vars(Scan)
  /\ WF_vars(Select \/ Acquire \/ Drain)
  /\ \A j \in Jobs : WF_vars(Worker(j))

FairSpec == Spec /\ Fairness

-----------------------------------------------------------------------------
TypeOK ==
  /\ ctxDone \in BOOLEAN
  /\ main \in {"prepare", "failed", "collect", "scanresult", "done", "crashed"}
  /\ total \in 0..NumEntries
  /\ failures \subseteq Jobs
  /\ scanErr \in BOOLEAN /\ scanBad \in BOOLEAN
  /\ scanner \in {"idle", "scanning", "ending", "entriesClosed", "done"}
  /\ emitted \in 0..NumEntries
  /\ scanErrChan \in {"empty", "error"}
  /\ entryChan \in Seq(Entries)
  /\ disp \in {"idle", "select", "acquire", "wait", "drain", "drainwait",
               "closing", "done"}
  /\ ended \in BOOLEAN
  /\ chunk \in [buf : Buffers \cup {0}, lo : Entries \cup {1}, len : 0..ChunkSize]
  /\ received \in 0..NumEntries
  /\ pool \subseteq Buffers
  /\ fresh \in 0..NumEntries
  /\ array \in [Buffers -> [1..ChunkSize -> 0..NumEntries]]
  /\ cur \in 0..TaskSize
  /\ want \in 0..TaskSize
  /\ submitted \in 0..NumEntries
  /\ job \in [Jobs -> [st : AliveStates \cup {"none", "gone"},
                       buf : Buffers \cup {0}, lo : Entries, len : 0..ChunkSize,
                       try : 0..Attempts + 1, nil : BOOLEAN,
                       out : {"none", "ok", "cut", "fail"}]]
  /\ resultChan \in Seq(Jobs)
  /\ resultClosed \in BOOLEAN

(* What the jobs and the entries taken off entryChan look like at any time. *)
Alive     == {j \in Jobs : job[j].st \in HoldingStates}
Owning    == {j \in Jobs : job[j].st \in AliveStates}
Sent      == {j \in Jobs : job[j].st \in {"release", "put", "gone"}}
Pending   == {resultChan[i] : i \in DOMAIN resultChan}
Collected == Sent \ Pending
Span(j)   == job[j].lo..job[j].lo + job[j].len - 1
Handed    == IF submitted = 0 THEN 0 ELSE job[submitted].lo + job[submitted].len - 1
Leaving   == {"drain", "drainwait", "closing", "done"}

(* Every permit is accounted for: one per job that has not released its    *)
(* own, one for a grant the dispatcher has not picked up yet, all of them  *)
(* once the drain succeeded.                                               *)
Granted == IF disp = "wait" /\ want = 0 THEN 1 ELSE 0
Drained == IF disp \in {"closing", "done"} \/ (disp = "drainwait" /\ want = 0)
           THEN TaskSize ELSE 0

PermitsMatch == cur = Cardinality(Alive) + Granted + Drained

RequestsMatch ==
  /\ want # 0 => disp \in {"wait", "drainwait"}
  /\ disp = "wait" => want \in {0, 1}
  /\ disp = "drainwait" => want \in {0, TaskSize}
  /\ resultClosed <=> disp = "done"

(* A backing array has one owner: the dispatcher, one job or the pool      *)
(* (joiner.go:65-77).  The closer releases its permit before it puts the   *)
(* array back, so the next chunk may be filled while it still does.        *)
ArrayHasOneOwner ==
  /\ pool \subseteq 1..fresh
  /\ chunk.buf \in 0..fresh \ pool
  /\ \A j \in Owning : job[j].buf \in 1..fresh \ (pool \cup {chunk.buf})
  /\ \A i, j \in Owning : job[i].buf = job[j].buf => i = j

(* What a worker reads is what was submitted to it: no later chunk is      *)
(* written into its array while it copies ("Implementations must treat the *)
(* provided slice as read-only because the chunk joiner may recycle the    *)
(* backing array after the call returns", joiner.go:18-20).                *)
ChunkIntact ==
  /\ \A j \in Alive : \A i \in 1..job[j].len : array[job[j].buf][i] = job[j].lo + i - 1
  /\ \A i \in 1..chunk.len : array[chunk.buf][i] = chunk.lo + i - 1

(* The channel holds the entries emitted and not yet received, in order.   *)
EntriesInOrder ==
  /\ Len(entryChan) = emitted - received
  /\ \A i \in DOMAIN entryChan : entryChan[i] = received + i

(* The chunk being filled continues where the last job ends; pending       *)
(* entries are lost only when the context has been cancelled.              *)
ChunkContinues ==
  /\ chunk.buf = 0 => chunk = NoChunk
  /\ chunk.buf # 0 => chunk.lo = Handed + 1 /\ chunk.len > 0
  /\ disp \notin Leaving \/ ~ctxDone => chunk.len = received - Handed
  /\ disp \in Leaving \cup {"idle"} => chunk = NoChunk
  /\ disp \in {"acquire", "wait"} => chunk.buf # 0
  /\ disp \in {"idle", "select"} => chunk.len < ChunkSize /\ ~ended
  /\ Handed + chunk.len <= received
  /\ disp \notin Leaving => fresh <= submitted + IF chunk.buf = 0 THEN 0 ELSE 1

(* Jobs hold consecutive spans of entries, none of them empty.             *)
JobsInOrder ==
  /\ \A j \in Jobs : j > submitted <=> job[j].st = "none"
  /\ \A j \in Jobs : j > submitted => job[j] = NoJob
  /\ \A j \in 1..submitted : job[j].len > 0 /\ j <= Handed /\ Span(j) \subseteq 1..Handed
  /\ \A i, j \in 1..submitted : i < j => job[i].lo + job[i].len <= job[j].lo
  /\ submitted <= Handed
  /\ \A e \in 1..Handed : \E j \in 1..submitted : e \in Span(j)

(* A job has an outcome once its attempts are over.                        *)
OutcomesMatch ==
  \A j \in Jobs :
    /\ job[j].out = "none" <=> job[j].st \in {"none", "starting", "copying", "waiting"}
    /\ job[j].st = "starting" => job[j].try = 0
    /\ job[j].st = "waiting" => job[j].try < Attempts
    /\ job[j].out = "cut" => ctxDone

(* The results on the channel and those collected are the ones sent.       *)
ResultsKept ==
  /\ \A i, k \in DOMAIN resultChan : resultChan[i] = resultChan[k] => i = k
  /\ Pending \subseteq Sent
  /\ main # "crashed" =>
       /\ total = Cardinality(UNION {Span(j) : j \in Collected})
       /\ failures = {j \in Collected : job[j].out = "fail"}
  /\ main \in {"scanresult", "done"} => resultClosed /\ resultChan = <<>>

(* What it takes for a scan and the dispatcher to end without an error.    *)
EndsMatch ==
  /\ main \in {"prepare", "failed"} <=> scanner = "idle"
  /\ scanner = "idle" <=> disp = "idle"
  /\ scanner \in {"idle", "scanning"} => scanErrChan = "empty"
  /\ scanErr => main = "done"
  /\ scanBad <=> scanErr \/ scanErrChan = "error"
  /\ main = "done" => scanErrChan = "empty" /\ scanner \notin {"idle", "scanning"}
  /\ ended \/ disp \in Leaving =>
       ctxDone \/ (EntriesClosed /\ entryChan = <<>>)

(* The inductive invariant.                                                *)
IInv ==
  /\ TypeOK
  /\ PermitsMatch /\ RequestsMatch
  /\ ArrayHasOneOwner /\ ChunkIntact
  /\ EntriesInOrder /\ ChunkContinues
  /\ JobsInOrder /\ OutcomesMatch
  /\ ResultsKept /\ EndsMatch

(* Chunks partition the entries taken off the channel, in order: none is   *)
(* submitted twice and none skipped between two chunks.                    *)
ChunksPartition ==
  \A j \in 1..submitted :
    job[j].lo = IF j = 1 THEN 1 ELSE job[j - 1].lo + job[j - 1].len

(* When no chunk has failed and the context was not cancelled, which is    *)
(* all that a nil error says of the chunks, every entry the scan has sent  *)
(* is in a chunk that ended without error, the trailing one included       *)
(* (joiner.go:88-118).                                                     *)
NilErrorMeansCopied ==
  main = "done" /\ failures = {} /\ ~ctxDone =>
    \A e \in 1..emitted : \E j \in Jobs :
      /\ job[j].out = "ok"
      /\ e \in Span(j)

(* Every result is added exactly once, failed chunks included: the total   *)
(* Execute logs is the number of entries submitted, and every failed       *)
(* chunk's error and the scan's reach the caller, whichever comes first    *)
(* (runner.go:97-108).                                                     *)
ResultsAddUp ==
  main = "done" =>
    /\ total = Cardinality(UNION {Span(j) : j \in 1..submitted})
    /\ failures = {j \in Jobs : job[j].out = "fail"}
    /\ scanErr <=> scanBad

(* Execute comes back, cancelled or not. *)
EventuallyReturns == <>(main \in {"done", "failed", "crashed"})

(* chunkResult.Result "holds per-chunk copy accounting" (joiner.go:38):    *)
(* Runner.Execute relies on it and dereferences it.                        *)
ResultPresent == \A i \in DOMAIN resultChan : ~job[resultChan[i]].nil

(* The fan-out of chunks implements what joiners promise: never more than  *)
(* --task-size chunks at once, and resultChan is closed only when no       *)
(* worker can still send on it (joiner.go:56-62).                          *)
Status == [j \in Jobs |-> IF job[j].st \in HoldingStates THEN "alive"
                          ELSE IF job[j].st \in {"put", "gone"} THEN "finished" ELSE "idle"]

Bounded == INSTANCE FanOut WITH
  Jobs <- Jobs,
  limit <- TaskSize,
  status <- Status,
  sent <- Sent,
  closed <- resultClosed

ImplementsFanOut == Bounded!Spec
=============================================================================
