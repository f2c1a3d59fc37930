--------------------------- MODULE SelectorProofs ---------------------------
(* Theorems about SelectorPipeline, for files of any length and any        *)
(* --worker-size.                                                          *)
EXTENDS SelectorPipeline, FiniteSetTheorems, TLAPS

LEMMA RowsFinite == IsFiniteSet(Rows)
  BY FS_Interval, SelectorAssumption DEF Rows

LEMMA AliveFinite == IsFiniteSet(Alive) /\ Cardinality(Alive) \in Nat
<1>1. Alive \subseteq Rows
  BY DEF Alive
<1>2. QED
  BY <1>1, RowsFinite, FS_Subset, FS_CardinalityType

LEMMA InitPermits == Init => PermitInv
<1> SUFFICES ASSUME Init PROVE PermitInv
  OBVIOUS
<1>1. Alive = {}
  BY DEF Init, Alive, AliveStates
<1>2. TypeOK
  <2>1. errs \in Seq(Rows) /\ entryChan \in Seq(Rows) /\ errorChan \in Seq(Rows)
    BY DEF Init
  <2>2. /\ nextRow \in 1..NumRows + 1
        /\ held \in 0..NumRows
        /\ cur \in 0..workerSize
        /\ want \in 0..workerSize \cup {1}
    BY SelectorAssumption DEF Init
  <2>3. /\ worker \in [Rows -> AliveStates \cup {"none", "gone"}]
        /\ outcome \in [Rows -> {"none", "ok", "fail"}]
        /\ csv \in [Rows -> Nodes \cup {Malformed, Unreadable}]
        /\ workerSize \in WorkerSizes
    BY DEF Init
  <2>4. QED
    BY <2>1, <2>2, <2>3 DEF Init, TypeOK
<1>3. PermitsMatch
  BY <1>1, FS_EmptySet DEF Init, PermitsMatch, Granted, Drained
<1>4. RequestsMatch /\ RowsOrdered /\ ClosedMatches /\ NotStarted
  BY DEF Init, RequestsMatch, RowsOrdered, ClosedMatches, NotStarted
<1>5. QED
  BY <1>2, <1>3, <1>4 DEF PermitInv

(* What a change of one worker's control state does to the live workers. *)
LEMMA AliveAdds ==
  ASSUME TypeOK, NEW r \in Rows, worker[r] = "none",
         worker' = [worker EXCEPT ![r] = "starting"]
  PROVE  Cardinality(Alive') = Cardinality(Alive) + 1
<1>1. r \notin Alive
  BY DEF Alive, AliveStates
<1>2. Alive' = Alive \cup {r}
  BY DEF Alive, AliveStates, TypeOK
<1>3. QED
  BY <1>1, <1>2, AliveFinite, FS_AddElement

LEMMA AliveStays ==
  ASSUME TypeOK, NEW r \in Rows, worker[r] \in AliveStates,
         NEW s \in AliveStates, worker' = [worker EXCEPT ![r] = s]
  PROVE  Alive' = Alive
BY DEF Alive, TypeOK

LEMMA AliveLoses ==
  ASSUME TypeOK, NEW r \in Rows, worker[r] \in AliveStates,
         worker' = [worker EXCEPT ![r] = "gone"]
  PROVE  /\ Cardinality(Alive') = Cardinality(Alive) - 1
         /\ Cardinality(Alive) >= 1
<1>1. r \in Alive
  BY DEF Alive
<1>2. Alive' = Alive \ {r}
  BY DEF Alive, AliveStates, TypeOK
<1>3. Cardinality(Alive') = Cardinality(Alive) - 1
  BY <1>1, <1>2, AliveFinite, FS_RemoveElement
<1>4. Cardinality(Alive) # 0
  BY <1>1, AliveFinite, FS_EmptySet
<1>5. QED
  BY <1>3, <1>4, AliveFinite

LEMMA SeqFacts ==
  ASSUME NEW S, NEW s \in Seq(S)
  PROVE  /\ \A e \in S : Append(s, e) \in Seq(S)
         /\ s # <<>> => Head(s) \in S /\ Tail(s) \in Seq(S)
OBVIOUS

(* Steps that touch neither the dispatcher, the semaphore nor a worker     *)
(* keep everything but the order of the rows.                              *)
LEMMA QuietStep ==
  ASSUME PermitInv, TypeOK',
         UNCHANGED <<workerSize, disp, cur, want, worker, errorClosed>>,
         main' = "open" => main = "open"
  PROVE  PermitsMatch' /\ RequestsMatch' /\ ClosedMatches' /\ NotStarted'
<1>1. Alive' = Alive
  BY DEF Alive
<1>2. QED
  BY <1>1 DEF PermitInv, PermitsMatch, RequestsMatch, ClosedMatches, NotStarted,
              Granted, Drained

LEMMA CancelStep == ASSUME PermitInv, Cancel PROVE PermitInv'
<1> USE DEF Cancel, given, mainVars, loaderVars, chanVars, dispVars, semVars, workVars,
            errVars
<1>1. TypeOK'
  BY DEF PermitInv, TypeOK
<1>2. RowsOrdered'
  BY DEF PermitInv, RowsOrdered
<1>3. QED
  BY <1>1, <1>2, QuietStep DEF PermitInv

LEMMA MainStep == ASSUME PermitInv, Main PROVE PermitInv'
<1> USE DEF given, mainVars, loaderVars, chanVars, dispVars, semVars, workVars, errVars
<1> TypeOK
  BY DEF PermitInv
<1>1. CASE OpenFails \/ Finish
  <2>1. TypeOK'
    BY <1>1 DEF OpenFails, Finish, TypeOK
  <2>2. RowsOrdered'
    BY <1>1 DEF PermitInv, RowsOrdered, OpenFails, Finish
  <2>3. QED
    BY <1>1, <2>1, <2>2, QuietStep DEF PermitInv, OpenFails, Finish
<1>2. CASE OpenCsv
  <2>1. TypeOK'
    BY <1>2 DEF OpenCsv, TypeOK
  <2>2. RowsOrdered'
    BY <1>2 DEF PermitInv, RowsOrdered, OpenCsv
  <2>3. Alive' = Alive
    BY <1>2 DEF OpenCsv, Alive
  <2>4. disp = "idle" /\ disp' = "recv"
    BY <1>2 DEF OpenCsv, PermitInv, NotStarted
  <2>5. PermitsMatch' /\ RequestsMatch' /\ ClosedMatches' /\ NotStarted'
    BY <1>2, <2>3, <2>4 DEF OpenCsv, PermitInv, PermitsMatch, RequestsMatch,
       ClosedMatches, NotStarted, Granted, Drained
  <2>6. QED
    BY <2>1, <2>2, <2>5 DEF PermitInv
<1>3. CASE Collect
  <2>1. errs' \in Seq(Rows) /\ errorChan' \in Seq(Rows)
    BY <1>3, SeqFacts DEF Collect, TypeOK
  <2>2. TypeOK'
    BY <1>3, <2>1 DEF Collect, TypeOK
  <2>3. RowsOrdered'
    BY <1>3 DEF PermitInv, RowsOrdered, Collect
  <2>4. QED
    BY <1>3, <2>2, <2>3, QuietStep DEF PermitInv, Collect
<1>4. QED
  BY <1>1, <1>2, <1>3 DEF Main

LEMMA LoaderStep == ASSUME PermitInv, Loader PROVE PermitInv'
<1> USE DEF given, mainVars, loaderVars, chanVars, dispVars, semVars, workVars, errVars
<1> TypeOK
  BY DEF PermitInv
<1>1. UNCHANGED <<csv, workerSize, ctxDone, main, errs, disp, held, cur, want, worker,
                  outcome, errorChan, errorClosed>>
  BY DEF Loader, SkipRow, ParseRow, SendEntry, LoaderReturns
<1>2. /\ loader' \in {"reading", "sending", "done"}
      /\ entryClosed' \in BOOLEAN
      /\ nextRow' \in 1..NumRows + 1
      /\ nextRow' >= nextRow
      /\ loader' = "sending" => nextRow' \in Rows
  <2>1. /\ nextRow \in 1..NumRows + 1
        /\ loader = "sending" => nextRow \in 1..NumRows
        /\ NumRows \in Nat
        /\ entryClosed \in BOOLEAN
    BY SelectorAssumption DEF TypeOK, Rows
  <2>2. CASE SkipRow
    BY <2>1, <2>2 DEF SkipRow, Rows
  <2>3. CASE ParseRow
    BY <2>1, <2>3 DEF ParseRow, Rows
  <2>4. CASE SendEntry
    BY <2>1, <2>4 DEF SendEntry, Rows
  <2>5. CASE LoaderReturns
    BY <2>1, <2>5 DEF LoaderReturns, Rows
  <2>6. QED
    BY <2>2, <2>3, <2>4, <2>5 DEF Loader
<1>3. \/ entryChan' = entryChan
      \/ /\ nextRow \in Rows
         /\ entryChan' = Append(entryChan, nextRow)
         /\ nextRow' = nextRow + 1
  BY DEF Loader, SkipRow, ParseRow, SendEntry, LoaderReturns, TypeOK
<1>4. TypeOK'
  <2>1. entryChan \in Seq(Rows)
    BY DEF TypeOK
  <2>2. \A e \in Rows : Append(entryChan, e) \in Seq(Rows)
    BY <2>1, SeqFacts
  <2>3. entryChan' \in Seq(Rows)
    BY <1>3, <2>1, <2>2
  <2>4. QED
    BY <1>1, <1>2, <2>3 DEF TypeOK
<1>5. RowsOrdered'
  <2> nextRow \in Int /\ nextRow' \in Int /\ held \in Int
    BY <1>2 DEF TypeOK
  <2>0. /\ entryChan \in Seq(Rows)
        /\ \A i \in DOMAIN entryChan : entryChan[i] \in Int
    <3>1. entryChan \in Seq(Rows)
      BY DEF TypeOK
    <3>2. \A i \in DOMAIN entryChan : entryChan[i] \in Rows
      BY <3>1
    <3>3. QED
      BY <3>1, <3>2 DEF Rows
  <2>1. CASE entryChan' = entryChan
    BY <1>1, <1>2, <2>0, <2>1 DEF PermitInv, RowsOrdered, Rows
  <2>2. CASE /\ nextRow \in Rows
             /\ entryChan' = Append(entryChan, nextRow)
             /\ nextRow' = nextRow + 1
    <3>1. \A i \in DOMAIN entryChan' :
            \/ i \in DOMAIN entryChan /\ entryChan'[i] = entryChan[i]
            \/ i = Len(entryChan) + 1 /\ entryChan'[i] = nextRow
      BY <2>0, <2>2
    <3>2. /\ \A i \in DOMAIN entryChan : entryChan[i] < nextRow /\ i <= Len(entryChan)
          /\ Len(entryChan) \in Nat /\ DOMAIN entryChan = 1..Len(entryChan)
      BY <2>0 DEF PermitInv, RowsOrdered
    <3>3. \A i, j \in DOMAIN entryChan' : i < j => entryChan'[i] < entryChan'[j]
      BY <2>0, <3>1, <3>2 DEF PermitInv, RowsOrdered
    <3>4. QED
      BY <1>1, <2>0, <2>2, <3>1, <3>2, <3>3 DEF PermitInv, RowsOrdered, Rows
  <2>3. QED
    BY <1>3, <2>1, <2>2
<1>6. QED
  BY <1>1, <1>4, <1>5, QuietStep DEF PermitInv

(* The row a submit starts has no worker yet and is the newest one. *)
LEMMA SubmitStep ==
  ASSUME PermitInv, disp \in {"acquire", "wait"}, Submit(held)
  PROVE  /\ held \in Rows
         /\ worker' \in [Rows -> AliveStates \cup {"none", "gone"}]
         /\ Cardinality(Alive') = Cardinality(Alive) + 1
         /\ \A r \in Rows : worker'[r] # "none" => worker[r] # "none" \/ r = held
<1> TypeOK
  BY DEF PermitInv
<1>1. held \in Rows /\ held \in Int
  BY DEF TypeOK, Rows
<1>2. worker[held] = "none"
  BY <1>1 DEF PermitInv, RowsOrdered
<1>3. QED
  BY <1>1, <1>2, AliveAdds DEF Submit, TypeOK, AliveStates

LEMMA RecvStep == ASSUME PermitInv, RecvEntry \/ RecvClosed PROVE PermitInv'
<1> USE DEF given, mainVars, loaderVars, chanVars, dispVars, semVars, workVars, errVars
<1> TypeOK
  BY DEF PermitInv
<1>1. Alive' = Alive
  BY DEF RecvEntry, RecvClosed, Alive
<1>2. PermitsMatch' /\ RequestsMatch' /\ ClosedMatches' /\ NotStarted'
  BY <1>1 DEF PermitInv, RecvEntry, RecvClosed, PermitsMatch, RequestsMatch,
              ClosedMatches, NotStarted, Granted, Drained
<1>3. CASE RecvClosed
  <2>1. TypeOK'
    BY <1>3 DEF RecvClosed, TypeOK
  <2>2. RowsOrdered'
    BY <1>3 DEF RecvClosed, RowsOrdered, PermitInv
  <2>3. QED
    BY <1>2, <2>1, <2>2 DEF PermitInv
<1>4. CASE RecvEntry
  <2>1. /\ entryChan \in Seq(Rows) /\ entryChan # <<>>
        /\ entryChan' = Tail(entryChan) /\ held' = entryChan[1]
    BY <1>4 DEF RecvEntry, TypeOK
  <2>2. entryChan' \in Seq(Rows) /\ held' \in Rows
    BY <1>4, SeqFacts DEF RecvEntry, TypeOK
  <2>3. TypeOK'
    BY <1>4, <2>2 DEF RecvEntry, TypeOK, Rows
  <2>4. /\ 1 \in DOMAIN entryChan
        /\ \A i \in DOMAIN entryChan' :
             i + 1 \in DOMAIN entryChan /\ entryChan'[i] = entryChan[i + 1] /\ 1 < i + 1
    BY <2>1
  <2>5. \A i, j \in DOMAIN entryChan' : i < j => i + 1 < j + 1
    BY <2>2
  <2>6. RowsOrdered'
    BY <1>4, <2>1, <2>2, <2>4, <2>5 DEF RecvEntry, RowsOrdered, PermitInv
  <2>7. QED
    BY <1>2, <2>3, <2>6 DEF PermitInv
<1>5. QED
  BY <1>3, <1>4

LEMMA AcquireStep ==
  ASSUME PermitInv, AcquireFree \/ AcquireQueues \/ AcquireGranted \/ AcquireCancelled
  PROVE  PermitInv'
<1> USE DEF given, mainVars, loaderVars, chanVars, dispVars, semVars, workVars, errVars
<1> TypeOK
  BY DEF PermitInv
<1>0. /\ cur \in Nat /\ workerSize \in Nat /\ cur <= workerSize
      /\ Cardinality(Alive) \in Nat
  BY SelectorAssumption, AliveFinite DEF TypeOK
<1>1. CASE AcquireFree \/ AcquireGranted
  <2>1. disp \in {"acquire", "wait"} /\ Submit(held)
    BY <1>1 DEF AcquireFree, AcquireGranted
  <2>2. /\ disp' = "recv" /\ held' = 0 /\ cur' \in 0..workerSize /\ want' = want
        /\ UNCHANGED <<csv, workerSize, ctxDone, main, errs, loader, nextRow, entryChan,
                       entryClosed, outcome, errorChan, errorClosed>>
    BY <1>0, <1>1 DEF AcquireFree, AcquireGranted, TypeOK
  <2>3. TypeOK'
    BY <2>1, <2>2, SubmitStep, SelectorAssumption DEF TypeOK
  <2>4. RowsOrdered'
    BY <2>1, <2>2, SubmitStep DEF RowsOrdered, PermitInv
  <2>5. cur' = cur + 1 - Granted /\ Drained = 0 /\ want = 0
    BY <1>0, <1>1 DEF AcquireFree, AcquireGranted, Granted, Drained, PermitInv,
                      RequestsMatch
  <2>6. Granted' = 0 /\ Drained' = 0 /\ Granted \in {0, 1}
    BY <2>2 DEF Granted, Drained
  <2>7. PermitsMatch'
    BY <1>0, <2>1, <2>5, <2>6, SubmitStep DEF PermitsMatch, PermitInv
  <2>8. RequestsMatch' /\ ClosedMatches' /\ NotStarted'
    BY <2>1, <2>2, <2>5 DEF PermitInv, RequestsMatch, ClosedMatches, NotStarted
  <2>9. QED
    BY <2>3, <2>4, <2>7, <2>8 DEF PermitInv
<1>2. CASE AcquireQueues \/ AcquireCancelled
  <2>1. Alive' = Alive
    BY <1>2 DEF AcquireQueues, AcquireCancelled, Alive
  <2>2. /\ want' \in 0..workerSize \cup {1}
        /\ disp' \in {"wait", "drain"}
        /\ disp' = "wait" => held' \in Rows
        /\ held' \in 0..NumRows
        /\ UNCHANGED <<csv, workerSize, ctxDone, main, errs, loader, nextRow, entryChan,
                       entryClosed, cur, worker, outcome, errorChan, errorClosed>>
    BY <1>0, <1>2, SelectorAssumption DEF AcquireQueues, AcquireCancelled, TypeOK
  <2>6. TypeOK'
    BY <2>2 DEF TypeOK
  <2>3. RowsOrdered'
    BY <1>2 DEF AcquireQueues, AcquireCancelled, RowsOrdered, PermitInv
  <2>4. PermitsMatch' /\ RequestsMatch' /\ ClosedMatches' /\ NotStarted'
    BY <1>2, <2>1 DEF AcquireQueues, AcquireCancelled, PermitInv, PermitsMatch,
       RequestsMatch, ClosedMatches, NotStarted, Granted, Drained
  <2>7. QED
    BY <2>6, <2>3, <2>4 DEF PermitInv
<1>3. QED
  BY <1>1, <1>2

LEMMA DrainStep ==
  ASSUME PermitInv, DrainFree \/ DrainQueues \/ DrainGranted \/ CloseErrors
  PROVE  PermitInv'
<1> USE DEF given, mainVars, loaderVars, chanVars, dispVars, semVars, workVars, errVars,
            DrainFree, DrainQueues, DrainGranted, CloseErrors
<1> TypeOK
  BY DEF PermitInv
<1>0. /\ workerSize \in Nat /\ Cardinality(Alive) \in Nat
      /\ cur \in 0..workerSize /\ want \in 0..workerSize \cup {1}
      /\ errorClosed \in BOOLEAN
  BY SelectorAssumption, AliveFinite DEF TypeOK
<1>1. Alive' = Alive
  BY DEF Alive
<1>2. TypeOK'
  <2>1. /\ want' \in 0..workerSize \cup {1} /\ cur' \in 0..workerSize
        /\ disp' \in {"closing", "drainwait", "done"}
        /\ UNCHANGED <<csv, workerSize, ctxDone, main, errs, loader, nextRow, entryChan,
                       entryClosed, held, worker, outcome, errorChan>>
    <3>1. CASE DrainFree
      BY <1>0, <3>1
    <3>2. CASE DrainQueues
      BY <1>0, <3>2
    <3>3. CASE DrainGranted
      BY <1>0, <3>3
    <3>4. CASE CloseErrors
      BY <1>0, <3>4
    <3>5. QED
      BY <3>1, <3>2, <3>3, <3>4
  <2>2. errorClosed' \in BOOLEAN
    BY <1>0
  <2>3. QED
    BY <2>1, <2>2 DEF TypeOK
<1>3. RowsOrdered'
  BY DEF RowsOrdered, PermitInv
<1>4. PermitsMatch'
  BY <1>0, <1>1 DEF PermitInv, PermitsMatch, RequestsMatch, Granted, Drained
<1>5. RequestsMatch' /\ ClosedMatches' /\ NotStarted'
  BY DEF PermitInv, RequestsMatch, ClosedMatches, NotStarted
<1>6. QED
  BY <1>2, <1>3, <1>4, <1>5 DEF PermitInv

LEMMA WorkerStepInv ==
  ASSUME PermitInv, NEW r \in Rows, WorkerStep(r) \/ ChildExits(r)
  PROVE  PermitInv'
<1> USE DEF given, mainVars, loaderVars, chanVars, dispVars, semVars, workVars, errVars
<1> TypeOK
  BY DEF PermitInv
<1>0. /\ workerSize \in Nat /\ Cardinality(Alive) \in Nat
      /\ cur \in 0..workerSize /\ want \in 0..workerSize \cup {1}
  BY SelectorAssumption, AliveFinite DEF TypeOK
<1>1. CASE StartChild(r) \/ SignalChild(r) \/ Report(r) \/ ChildExits(r)
  <2>1. /\ worker[r] \in AliveStates
        /\ \E s \in AliveStates : worker' = [worker EXCEPT ![r] = s]
    BY <1>1 DEF StartChild, SignalChild, Report, ChildExits, AliveStates
  <2>2. /\ outcome' \in [Rows -> {"none", "ok", "fail"}]
        /\ UNCHANGED <<csv, workerSize, ctxDone, main, errs, loader, nextRow, entryChan,
                       entryClosed, disp, held, cur, want, errorClosed>>
    BY <1>1 DEF StartChild, SignalChild, Report, ChildExits, TypeOK
  <2>3. errorChan' \in Seq(Rows)
    <3>1. errorChan \in Seq(Rows)
      BY DEF TypeOK
    <3>2. Append(errorChan, r) \in Seq(Rows)
      BY <3>1, SeqFacts
    <3>3. errorChan' = errorChan \/ errorChan' = Append(errorChan, r)
      BY <1>1 DEF StartChild, SignalChild, Report, ChildExits
    <3>4. QED
      BY <3>1, <3>2, <3>3
  <2>4. worker' \in [Rows -> AliveStates \cup {"none", "gone"}]
    BY <2>1 DEF TypeOK
  <2>5. TypeOK'
    BY <2>2, <2>3, <2>4 DEF TypeOK
  <2>6. Alive' = Alive
    BY <2>1, AliveStays
  <2>7. PermitsMatch' /\ RequestsMatch' /\ ClosedMatches' /\ NotStarted'
    BY <2>2, <2>6 DEF PermitInv, PermitsMatch, RequestsMatch, ClosedMatches,
                      NotStarted, Granted, Drained
  <2>8. \A q \in Rows : worker'[q] # "none" => worker[q] # "none"
    BY <2>1 DEF TypeOK, AliveStates
  <2>9. RowsOrdered'
    BY <2>2, <2>8 DEF RowsOrdered, PermitInv
  <2>10. QED
    BY <2>5, <2>7, <2>9 DEF PermitInv
<1>2. CASE Release(r)
  <2>1. worker[r] \in AliveStates /\ worker' = [worker EXCEPT ![r] = "gone"]
    BY <1>2 DEF Release, AliveStates
  <2>2. /\ Cardinality(Alive') = Cardinality(Alive) - 1
        /\ Cardinality(Alive) >= 1
    BY <2>1, AliveLoses
  <2>3. UNCHANGED <<csv, workerSize, ctxDone, main, errs, loader, nextRow, entryChan,
                    entryClosed, disp, held, outcome, errorChan, errorClosed>>
    BY <1>2 DEF Release
  <2>4. Granted \in {0, 1} /\ Drained \in Nat
    BY <1>0 DEF Granted, Drained
  <2>5. cur >= 1
    BY <1>0, <2>2, <2>4 DEF PermitInv, PermitsMatch
  <2>6. cur' \in 0..workerSize /\ want' \in {0, want}
    BY <1>0, <1>2, <2>5 DEF Release
  <2>7. TypeOK'
    BY <1>0, <2>1, <2>3, <2>6 DEF TypeOK
  <2>8. PermitsMatch'
    <3>1. CASE want > 0 /\ cur - 1 + want <= workerSize
      <4>1. cur' = cur - 1 + want /\ want' = 0
        BY <1>2, <3>1 DEF Release
      <4>2. Granted' + Drained' = want
        BY <1>0, <2>3, <3>1, <4>1 DEF PermitInv, RequestsMatch, Granted, Drained
      <4>3. Granted = 0 /\ Drained = 0
        BY <1>0, <3>1 DEF PermitInv, RequestsMatch, Granted, Drained
      <4>4. Granted' \in Nat /\ Drained' \in Nat
        BY <1>0, <2>3 DEF Granted, Drained
      <4>5. cur = Cardinality(Alive) /\ want \in Nat
        BY <1>0, <4>3 DEF PermitInv, PermitsMatch
      <4>6. cur' = Cardinality(Alive') + Granted' + Drained'
        <5>1. \A c, g, d \in Nat : c - 1 + (g + d) = (c - 1) + g + d
          OBVIOUS
        <5>2. cur' = Cardinality(Alive) - 1 + (Granted' + Drained')
          BY <4>1, <4>2, <4>5
        <5>3. QED
          BY <2>2, <4>4, <5>1, <5>2, AliveFinite
      <4>7. QED
        BY <4>6 DEF PermitsMatch
    <3>2. CASE ~(want > 0 /\ cur - 1 + want <= workerSize)
      <4>1. cur' = cur - 1 /\ want' = want
        BY <1>2, <3>2 DEF Release
      <4>2. Granted' = Granted /\ Drained' = Drained
        BY <2>3, <4>1 DEF Granted, Drained
      <4>3. QED
        BY <1>0, <2>2, <2>4, <4>1, <4>2 DEF PermitInv, PermitsMatch
    <3>3. QED
      BY <3>1, <3>2
  <2>9. RequestsMatch' /\ ClosedMatches' /\ NotStarted'
    BY <1>0, <2>3, <2>6 DEF PermitInv, RequestsMatch, ClosedMatches, NotStarted
  <2>10. \A q \in Rows : worker'[q] # "none" => worker[q] # "none"
    BY <2>1 DEF TypeOK, AliveStates
  <2>11. RowsOrdered'
    BY <2>3, <2>10 DEF RowsOrdered, PermitInv
  <2>12. QED
    BY <2>7, <2>8, <2>9, <2>11 DEF PermitInv
<1>3. QED
  BY <1>1, <1>2 DEF WorkerStep

LEMMA StutterStep == ASSUME PermitInv, UNCHANGED vars PROVE PermitInv'
<1> USE DEF vars, given, mainVars, loaderVars, chanVars, dispVars, semVars, workVars,
            errVars
<1>1. Alive' = Alive
  BY DEF Alive
<1>2. TypeOK'
  BY DEF PermitInv, TypeOK
<1>3. RowsOrdered'
  BY DEF PermitInv, RowsOrdered
<1>4. QED
  BY <1>1, <1>2, <1>3, QuietStep DEF PermitInv

LEMMA StepPermits == PermitInv /\ [Next]_vars => PermitInv'
<1> SUFFICES ASSUME PermitInv, [Next]_vars PROVE PermitInv'
  OBVIOUS
<1>1. CASE Cancel
  BY <1>1, CancelStep
<1>2. CASE Main
  BY <1>2, MainStep
<1>3. CASE Loader
  BY <1>3, LoaderStep
<1>4. CASE Dispatcher
  BY <1>4, RecvStep, AcquireStep, DrainStep DEF Dispatcher
<1>5. CASE \E r \in Rows : WorkerStep(r) \/ ChildExits(r)
  BY <1>5, WorkerStepInv
<1>6. CASE UNCHANGED vars
  BY <1>6, StutterStep
<1>7. QED
  BY <1>1, <1>2, <1>3, <1>4, <1>5, <1>6 DEF Next, Stopped

(* The accounting of permits, the order of the rows and the types hold in  *)
(* every state of the selector pipeline.                                   *)
THEOREM SelectorPermits == Spec => []PermitInv
  BY InitPermits, StepPermits, PTL DEF Spec

(* Every variable keeps its type; in particular the semaphore never hands  *)
(* out more than --worker-size permits.                                    *)
THEOREM SelectorTypes == Spec => []TypeOK
<1>1. PermitInv => TypeOK
  BY DEF PermitInv
<1>2. QED
  BY <1>1, SelectorPermits, PTL

(* At most --worker-size sync children run at once.                        *)
THEOREM SelectorBounded == Spec => []BoundedChildren
<1>1. ASSUME PermitInv PROVE BoundedChildren
  <2>1. Children \subseteq Alive
    BY DEF Children, Alive, AliveStates
  <2>2. Cardinality(Children) <= Cardinality(Alive)
    BY <2>1, AliveFinite, FS_Subset
  <2>3. Cardinality(Children) \in Nat
    BY <2>1, AliveFinite, FS_Subset, FS_CardinalityType
  <2>4. Granted \in Nat /\ Drained \in Nat
    BY <1>1, SelectorAssumption DEF Granted, Drained, PermitInv, TypeOK
  <2>5. QED
    BY <1>1, <2>2, <2>3, <2>4, AliveFinite, SelectorAssumption
    DEF PermitInv, PermitsMatch, TypeOK, BoundedChildren
<1>2. QED
  BY <1>1, SelectorPermits, PTL

(* Once the drain holds every permit no worker is left. *)
LEMMA DrainedEmpty ==
  ASSUME PermitInv, disp \in {"closing", "done"} PROVE Alive = {}
<1>1. Drained = workerSize /\ Granted = 0
  BY DEF Drained, Granted
<1>2. Cardinality(Alive) = 0
  BY <1>1, AliveFinite, SelectorAssumption DEF PermitInv, PermitsMatch, TypeOK
<1>3. QED
  BY <1>2, AliveFinite, FS_EmptySet

(* errorChan is closed only when no worker is left to send on it.          *)
THEOREM SelectorNoSendOnClosed == Spec => []NoSendOnClosed
<1>1. PermitInv => NoSendOnClosed
  BY DrainedEmpty DEF PermitInv, ClosedMatches, NoSendOnClosed
<1>2. QED
  BY <1>1, SelectorPermits, PTL

-----------------------------------------------------------------------------
(* The refinement of FanOut *)

LEMMA AliveMapped == Bounded!Alive = Alive
BY DEF Bounded!Alive, Alive, Status, AliveStates

LEMMA FanOutInit == Init => Bounded!Init
BY SelectorAssumption DEF Init, Bounded!Init, Status, Sent, AliveStates

LEMMA FanOutStutters ==
  ASSUME UNCHANGED <<workerSize, worker, outcome, errorClosed>>
  PROVE  UNCHANGED Bounded!vars
BY DEF Bounded!vars, Status, Sent

(* A row is submitted: its permit keeps the live workers below the limit. *)
LEMMA FanOutLaunches ==
  ASSUME PermitInv, PermitInv', AcquireFree \/ AcquireGranted
  PROVE  Bounded!Launch(held)
<1>1. /\ held \in Rows
      /\ worker[held] = "none"
      /\ worker' = [worker EXCEPT ![held] = "starting"]
      /\ UNCHANGED <<workerSize, outcome, errorClosed>>
      /\ ~errorClosed
  BY DEF AcquireFree, AcquireGranted, Submit, PermitInv, TypeOK, RowsOrdered, Rows,
         ClosedMatches, errVars, given
<1>2. Cardinality(Alive) < workerSize
  <2>1. Cardinality(Alive') = Cardinality(Alive) + 1
    BY <1>1, AliveAdds DEF PermitInv
  <2>2. disp' = "recv"
    BY DEF AcquireFree, AcquireGranted
  <2>3. Granted' = 0 /\ Drained' = 0
    BY <2>2 DEF Granted, Drained
  <2>4. cur' = Cardinality(Alive') + Granted' + Drained'
    BY DEF PermitInv, PermitsMatch
  <2>5. cur' \in 0..workerSize /\ workerSize \in Nat
    BY <1>1, SelectorAssumption DEF PermitInv, TypeOK
  <2>6. QED
    BY <2>1, <2>3, <2>4, <2>5, AliveFinite
<1>3. Status' = [Status EXCEPT ![held] = "alive"] /\ Status[held] = "idle"
  BY <1>1 DEF Status, AliveStates, PermitInv, TypeOK
<1>4. Sent' = Sent
  BY <1>1 DEF Sent, PermitInv, TypeOK
<1>5. Bounded!Cardinality(Alive) = Cardinality(Alive)
  BY DEF Bounded!Cardinality, Cardinality
<1>6. QED
  BY <1>1, <1>2, <1>3, <1>4, <1>5, AliveMapped DEF Bounded!Launch

(* A live worker finds errorChan open. *)
LEMMA AliveOpen == ASSUME PermitInv, NEW r \in Alive PROVE ~errorClosed
BY DrainedEmpty DEF PermitInv, ClosedMatches

LEMMA FanOutWorks ==
  ASSUME PermitInv, NEW r \in Rows, WorkerStep(r) \/ ChildExits(r)
  PROVE  Bounded!Send(r) \/ Bounded!Finish(r) \/ UNCHANGED Bounded!vars
<1> TypeOK
  BY DEF PermitInv
<1>1. CASE StartChild(r) \/ SignalChild(r) \/ ChildExits(r)
  <2>1. Status' = Status
    BY <1>1 DEF StartChild, SignalChild, ChildExits, Status, AliveStates, TypeOK
  <2>2. Sent' = Sent
    BY <1>1 DEF StartChild, SignalChild, ChildExits, Sent, TypeOK
  <2>3. UNCHANGED <<workerSize, errorClosed>>
    BY <1>1 DEF StartChild, SignalChild, ChildExits, errVars, given
  <2>4. QED
    BY <2>1, <2>2, <2>3 DEF Bounded!vars
<1>2. CASE Report(r)
  <2>1. Status' = Status /\ Status[r] = "alive"
    BY <1>2 DEF Report, Status, AliveStates, TypeOK
  <2>2. ~errorClosed /\ UNCHANGED <<workerSize, errorClosed>>
    BY <1>2, AliveOpen DEF Report, Alive, AliveStates, given
  <2>3. r \notin Sent
    BY <1>2 DEF Report, Sent
  <2>4. CASE outcome[r] = "fail"
    <3>1. Sent' = Sent \cup {r}
      BY <1>2, <2>4 DEF Report, Sent, TypeOK
    <3>2. QED
      BY <2>1, <2>2, <2>3, <3>1 DEF Bounded!Send
  <2>5. CASE outcome[r] # "fail"
    <3>1. Sent' = Sent
      BY <1>2, <2>5 DEF Report, Sent, TypeOK
    <3>2. QED
      BY <2>1, <2>2, <3>1 DEF Bounded!vars
  <2>6. QED
    BY <2>4, <2>5
<1>3. CASE Release(r)
  <2>1. /\ worker[r] = "release" /\ worker' = [worker EXCEPT ![r] = "gone"]
        /\ UNCHANGED <<workerSize, outcome, errorClosed>>
    BY <1>3 DEF Release, errVars, given
  <2>2. Status[r] = "alive" /\ Status' = [Status EXCEPT ![r] = "finished"]
    BY <2>1 DEF Status, AliveStates, TypeOK
  <2>3. Sent' = Sent
    BY <2>1 DEF Sent, TypeOK
  <2>4. QED
    BY <2>1, <2>2, <2>3 DEF Bounded!Finish
<1>4. QED
  BY <1>1, <1>2, <1>3 DEF WorkerStep

LEMMA FanOutCloses == ASSUME PermitInv, CloseErrors PROVE Bounded!Close
<1>1. Alive = {} /\ ~errorClosed
  BY DrainedEmpty DEF CloseErrors, PermitInv, ClosedMatches
<1>2. errorClosed' = TRUE /\ UNCHANGED <<workerSize, worker, outcome>>
  BY DEF CloseErrors, workVars, given
<1>3. Status' = Status /\ Sent' = Sent
  BY <1>2 DEF Status, Sent
<1>4. QED
  BY <1>1, <1>2, <1>3, AliveMapped DEF Bounded!Close

(* The selector's dispatcher and workers implement FanOut: at most         *)
(* --worker-size workers live at once, each reports at most one error, and *)
(* errorChan is closed only after the last of them (joiner.go:30-68).      *)
THEOREM SelectorImplementsFanOut == Spec => ImplementsFanOut
<1>1. ASSUME PermitInv, PermitInv', [Next]_vars PROVE [Bounded!Next]_(Bounded!vars)
  <2> USE DEF given, mainVars, loaderVars, chanVars, dispVars, semVars, workVars, errVars
  <2>1. CASE Cancel \/ Main \/ Loader \/ RecvEntry \/ RecvClosed \/ AcquireQueues
             \/ AcquireCancelled \/ DrainFree \/ DrainQueues \/ DrainGranted
             \/ UNCHANGED vars
    <3>1. UNCHANGED <<workerSize, worker, outcome, errorClosed>>
      BY <2>1
         DEF Cancel, Main, OpenFails, OpenCsv, Collect, Finish, Loader, SkipRow,
             ParseRow, SendEntry, LoaderReturns, RecvEntry, RecvClosed,
             AcquireQueues, AcquireCancelled, DrainFree, DrainQueues,
             DrainGranted, vars
    <3>2. QED
      BY <3>1, FanOutStutters
  <2>2. CASE AcquireFree \/ AcquireGranted
    <3>1. held \in Rows
      BY <1>1, <2>2 DEF PermitInv, TypeOK, AcquireFree, AcquireGranted
    <3>2. QED
      BY <1>1, <2>2, <3>1, FanOutLaunches DEF Bounded!Next
  <2>3. CASE CloseErrors
    BY <1>1, <2>3, FanOutCloses DEF Bounded!Next
  <2>4. CASE \E r \in Rows : WorkerStep(r) \/ ChildExits(r)
    BY <1>1, <2>4, FanOutWorks DEF Bounded!Next
  <2>5. QED
    BY <1>1, <2>1, <2>2, <2>3, <2>4 DEF Next, Dispatcher, Stopped
<1>2. QED
  BY <1>1, FanOutInit, SelectorPermits, PTL DEF Spec, ImplementsFanOut, Bounded!Spec

-----------------------------------------------------------------------------
(* The second inductive invariant: no row and no error is lost. *)

(* A row in flight has not been started, and once the loader is done it    *)
(* adds no row.                                                            *)
LEMMA Typed ==
  ASSUME PermitInv
  PROVE  /\ entryChan \in Seq(Rows) /\ errs \in Seq(Rows) /\ errorChan \in Seq(Rows)
         /\ nextRow \in Int /\ NumRows \in Nat
         /\ \A r \in Rows : r \in Int
         /\ worker \in [Rows -> AliveStates \cup {"none", "gone"}]
         /\ outcome \in [Rows -> {"none", "ok", "fail"}]
         /\ disp \in {"acquire", "wait"} => held \in Rows
BY SelectorAssumption DEF PermitInv, TypeOK, Rows

LEMMA SentFinite == IsFiniteSet(Sent) /\ Cardinality(Sent) \in Nat
<1>1. Sent \subseteq Rows
  BY DEF Sent
<1>2. QED
  BY <1>1, RowsFinite, FS_Subset, FS_CardinalityType

LEMMA InitIInv == Init => IInv
<1> SUFFICES ASSUME Init PROVE IInv
  OBVIOUS
<1>1. Sent = {} /\ Collected = {} /\ Reported = {}
  BY DEF Init, Sent, Collected, Reported
<1>2. ErrorsKept
  <2>1. Cardinality(Sent) = 0
    BY <1>1, FS_EmptySet
  <2>2. QED
    BY <1>1, <2>1 DEF Init, ErrorsKept
<1>3. NoneSkipped
  BY SelectorAssumption DEF Init, NoneSkipped, Rows
<1>4. StartedInOrder /\ OutcomesMatch /\ EndsMatch
  BY DEF Init, StartedInOrder, OutcomesMatch, EndsMatch, Leaving
<1>5. QED
  BY <1>2, <1>3, <1>4, InitPermits DEF IInv

(* What a step keeps that leaves the variables of a conjunct alone. *)
LEMMA KeepRows ==
  ASSUME NoneSkipped, StartedInOrder,
         UNCHANGED <<csv, workerSize, worker, disp, held, nextRow, entryChan>>,
         ctxDone => ctxDone'
  PROVE  NoneSkipped' /\ StartedInOrder'
BY DEF NoneSkipped, StartedInOrder, Accepted, Parses, Queued

LEMMA KeepErrors ==
  ASSUME OutcomesMatch, ErrorsKept, UNCHANGED <<worker, outcome, errs, errorChan>>
  PROVE  OutcomesMatch' /\ ErrorsKept'
<1>1. Sent' = Sent /\ Collected' = Collected /\ Reported' = Reported
  BY DEF Sent, Collected, Reported
<1>2. QED
  BY <1>1 DEF OutcomesMatch, ErrorsKept

LEMMA KeepEnds ==
  ASSUME EndsMatch,
         UNCHANGED <<csv, workerSize, entryClosed, entryChan, loader, nextRow, disp, main>>,
         ctxDone => ctxDone', errorClosed => errorClosed',
         main = "done" => errorChan' = errorChan
  PROVE  EndsMatch'
BY DEF EndsMatch

LEMMA CancelKeeps ==
  ASSUME IInv, Cancel
  PROVE  (NoneSkipped /\ StartedInOrder /\ OutcomesMatch /\ EndsMatch /\ ErrorsKept)'
<1> USE DEF Cancel, given, mainVars, loaderVars, chanVars, dispVars, semVars, workVars, errVars
<1> QED
  BY KeepRows, KeepErrors, KeepEnds DEF IInv

(* A collected error moves from the channel to the end of errs. *)
LEMMA MainKeeps ==
  ASSUME IInv, Main
  PROVE  (NoneSkipped /\ StartedInOrder /\ OutcomesMatch /\ EndsMatch /\ ErrorsKept)'
<1> USE DEF given, mainVars, loaderVars, chanVars, dispVars, semVars, workVars, errVars
<1>1. CASE OpenFails \/ Finish
  <2>1. NoneSkipped' /\ StartedInOrder' /\ OutcomesMatch' /\ ErrorsKept'
    BY <1>1, KeepRows, KeepErrors DEF OpenFails, Finish, IInv
  <2>2. EndsMatch'
    BY <1>1 DEF OpenFails, Finish, IInv, EndsMatch
  <2>3. QED
    BY <2>1, <2>2
<1>2. CASE OpenCsv
  <2>1. OutcomesMatch' /\ ErrorsKept'
    BY <1>2, KeepErrors DEF OpenCsv, IInv
  <2>2. /\ disp = "idle" /\ disp' = "recv"
        /\ UNCHANGED <<csv, workerSize, ctxDone, worker, held, nextRow, entryChan>>
    BY <1>2 DEF OpenCsv, IInv, PermitInv, NotStarted
  <2>3. NoneSkipped' /\ StartedInOrder'
    BY <2>2 DEF IInv, NoneSkipped, StartedInOrder, Accepted, Parses, Queued, Leaving
  <2>4. EndsMatch'
    <3>1. main' = "collect" /\ loader' = "reading" /\ UNCHANGED <<entryClosed, csv, workerSize>>
      BY <1>2 DEF OpenCsv
    <3>2. main = "open" /\ ~entryClosed
      BY <1>2 DEF OpenCsv, IInv, EndsMatch
    <3>3. QED
      BY <2>2, <3>1, <3>2 DEF EndsMatch, Leaving
  <2>5. QED
    BY <2>1, <2>3, <2>4
<1>3. CASE Collect
  <2>1. NoneSkipped' /\ StartedInOrder' /\ EndsMatch'
    BY <1>3, KeepRows, KeepEnds DEF Collect, IInv
  <2>2. /\ errorChan # <<>> /\ errorChan' = Tail(errorChan)
        /\ errs' = Append(errs, Head(errorChan)) /\ UNCHANGED <<worker, outcome>>
    BY <1>3 DEF Collect
  <2>3. OutcomesMatch' /\ Sent' = Sent
    BY <2>2 DEF IInv, OutcomesMatch, Sent
  <2>4. errs \in Seq(Rows) /\ errorChan \in Seq(Rows)
    BY Typed DEF IInv
  <2>5. Len(errs') + Len(errorChan') = Len(errs) + Len(errorChan)
    BY <2>2, <2>4
  <2>6. Collected' = Collected \cup {Head(errorChan)}
    <3>1. /\ \A i \in DOMAIN errs : i \in DOMAIN errs' /\ errs'[i] = errs[i]
          /\ \A i \in DOMAIN errs' : i \in DOMAIN errs \/ errs'[i] = Head(errorChan)
          /\ Len(errs) + 1 \in DOMAIN errs' /\ errs'[Len(errs) + 1] = Head(errorChan)
      BY <2>2, <2>4
    <3>2. QED
      BY <3>1 DEF Collected
  <2>7. Reported = Reported' \cup {Head(errorChan)}
    <3>1. /\ \A i \in DOMAIN errorChan' :
               i + 1 \in DOMAIN errorChan /\ errorChan'[i] = errorChan[i + 1]
          /\ \A i \in DOMAIN errorChan :
               \/ errorChan[i] = Head(errorChan)
               \/ i - 1 \in DOMAIN errorChan' /\ errorChan'[i - 1] = errorChan[i]
          /\ 1 \in DOMAIN errorChan /\ errorChan[1] = Head(errorChan)
      BY <2>2, <2>4
    <3>2. QED
      BY <3>1 DEF Reported
  <2>8. ErrorsKept'
    BY <2>3, <2>5, <2>6, <2>7 DEF IInv, ErrorsKept
  <2>9. QED
    BY <2>1, <2>3, <2>8
<1>4. QED
  BY <1>1, <1>2, <1>3 DEF Main

LEMMA LoaderKeeps ==
  ASSUME IInv, Loader
  PROVE  (NoneSkipped /\ StartedInOrder /\ OutcomesMatch /\ EndsMatch /\ ErrorsKept)'
<1> USE DEF given, mainVars, loaderVars, chanVars, dispVars, semVars, workVars, errVars
<1>1. /\ UNCHANGED <<csv, workerSize, ctxDone, main, errs, disp, held, worker, outcome,
                    errorChan, errorClosed>>
      /\ loader \in {"reading", "sending"}
  BY DEF Loader, SkipRow, ParseRow, SendEntry, LoaderReturns
<1>2. OutcomesMatch' /\ ErrorsKept'
  BY <1>1, KeepErrors DEF IInv
<1>3. StartedInOrder'
  BY <1>1 DEF IInv, StartedInOrder, Accepted, Parses
<1>4. /\ ~entryClosed /\ main # "open" /\ (disp \in Leaving => ctxDone)
      /\ main = "done" => errorClosed /\ errorChan = <<>>
  BY <1>1 DEF IInv, EndsMatch
<1>5. entryChan \in Seq(Rows) /\ nextRow \in Int /\ \A r \in Rows : r \in Int
  BY Typed DEF IInv
<1>6. ASSUME NEW q \in Rows, q < nextRow, Accepted(q), Queued \subseteq Queued'
      PROVE  \/ worker'[q] # "none"
             \/ q \in Queued'
             \/ disp' \in {"acquire", "wait"} /\ held' = q
             \/ disp' \in Leaving /\ ctxDone'
  BY <1>1, <1>6 DEF IInv, NoneSkipped
<1>7. \A q \in Rows : Accepted(q)' <=> Accepted(q)
  BY <1>1 DEF Accepted, Parses
<1>8. CASE SkipRow
  <2>1. /\ nextRow' = nextRow + 1 /\ ~Accepted(nextRow) /\ UNCHANGED <<entryChan, entryClosed>>
        /\ loader' = "reading"
    BY <1>8 DEF SkipRow
  <2>2. Queued' = Queued
    BY <2>1 DEF Queued
  <2>3. NoneSkipped'
    <3>1. \A q \in Rows : q < nextRow' => q < nextRow \/ q = nextRow
      BY <1>5, <2>1
    <3>2. QED
      BY <1>6, <1>7, <2>1, <2>2, <3>1 DEF NoneSkipped
  <2>4. EndsMatch'
    BY <1>1, <1>4, <2>1 DEF EndsMatch
  <2>5. QED
    BY <1>2, <1>3, <2>3, <2>4
<1>9. CASE ParseRow
  <2>1. UNCHANGED <<nextRow, entryChan, entryClosed>> /\ loader' = "sending"
    BY <1>9 DEF ParseRow
  <2>2. NoneSkipped'
    BY <1>1, <2>1, KeepRows DEF IInv
  <2>3. EndsMatch'
    BY <1>1, <1>4, <2>1 DEF EndsMatch
  <2>4. QED
    BY <1>2, <1>3, <2>2, <2>3
<1>10. CASE SendEntry
  <2>1. /\ nextRow' = nextRow + 1 /\ entryChan' = Append(entryChan, nextRow)
        /\ loader' = "reading" /\ entryClosed' = entryClosed
    BY <1>10 DEF SendEntry
  <2>2. Queued' = Queued \cup {nextRow}
    <3>1. /\ \A i \in DOMAIN entryChan : i \in DOMAIN entryChan' /\ entryChan'[i] = entryChan[i]
          /\ \A i \in DOMAIN entryChan' : i \in DOMAIN entryChan \/ entryChan'[i] = nextRow
          /\ Len(entryChan) + 1 \in DOMAIN entryChan' /\ entryChan'[Len(entryChan) + 1] = nextRow
      BY <1>5, <2>1
    <3>2. QED
      BY <3>1 DEF Queued
  <2>3. NoneSkipped'
    <3>1. \A q \in Rows : q < nextRow' => q < nextRow \/ q = nextRow
      BY <1>5, <2>1
    <3>2. QED
      BY <1>6, <1>7, <2>2, <3>1 DEF NoneSkipped
  <2>4. EndsMatch'
    BY <1>1, <1>4, <2>1 DEF EndsMatch
  <2>5. QED
    BY <1>2, <1>3, <2>3, <2>4
<1>11. CASE LoaderReturns
  <2>1. /\ UNCHANGED <<nextRow, entryChan>> /\ loader' = "done" /\ entryClosed' = TRUE
        /\ \/ nextRow > NumRows
           \/ nextRow \in Rows /\ csv[nextRow] = Unreadable
           \/ ctxDone
    BY <1>11 DEF LoaderReturns
  <2>2. NoneSkipped'
    BY <1>1, <2>1, KeepRows DEF IInv
  <2>3. EndsMatch'
    BY <1>1, <1>4, <2>1 DEF EndsMatch
  <2>4. QED
    BY <1>2, <1>3, <2>2, <2>3
<1>12. QED
  BY <1>8, <1>9, <1>10, <1>11 DEF Loader

(* The dispatcher takes a row off the channel, or finds it closed. *)
LEMMA RecvKeeps ==
  ASSUME IInv, RecvEntry \/ RecvClosed
  PROVE  (NoneSkipped /\ StartedInOrder /\ OutcomesMatch /\ EndsMatch /\ ErrorsKept)'
<1> USE DEF given, mainVars, loaderVars, chanVars, dispVars, semVars, workVars, errVars
<1>1. /\ UNCHANGED <<csv, workerSize, ctxDone, main, errs, loader, nextRow, entryClosed, worker, outcome,
                     errorChan, errorClosed>>
      /\ disp = "recv"
  BY DEF RecvEntry, RecvClosed
<1>2. OutcomesMatch' /\ ErrorsKept' /\ StartedInOrder'
  BY <1>1, KeepErrors DEF IInv, StartedInOrder, Accepted, Parses
<1>3. CASE RecvEntry
  <2>1. /\ entryChan # <<>> /\ entryChan' = Tail(entryChan) /\ held' = Head(entryChan)
        /\ disp' = "acquire"
    BY <1>3 DEF RecvEntry
  <2>2. entryChan \in Seq(Rows)
    BY Typed DEF IInv
  <2>3. Queued \subseteq Queued' \cup {held'}
    <3>1. \A i \in DOMAIN entryChan :
            \/ entryChan[i] = Head(entryChan)
            \/ i - 1 \in DOMAIN entryChan' /\ entryChan'[i - 1] = entryChan[i]
      BY <2>1, <2>2
    <3>2. QED
      BY <2>1, <3>1 DEF Queued
  <2>4. NoneSkipped'
    BY <1>1, <2>1, <2>3 DEF IInv, NoneSkipped, Accepted, Parses, Leaving
  <2>5. EndsMatch'
    BY <1>1, <2>1 DEF IInv, EndsMatch, Leaving
  <2>6. QED
    BY <1>2, <2>4, <2>5
<1>4. CASE RecvClosed
  <2>1. entryChan = <<>> /\ entryClosed /\ disp' = "drain" /\ UNCHANGED <<entryChan, held>>
    BY <1>4 DEF RecvClosed
  <2>2. NoneSkipped'
    BY <1>1, <2>1 DEF IInv, NoneSkipped, Accepted, Parses, Queued, Leaving
  <2>3. EndsMatch'
    BY <1>1, <2>1 DEF IInv, EndsMatch, Leaving
  <2>4. QED
    BY <1>2, <2>2, <2>3
<1>5. QED
  BY <1>3, <1>4

(* The dispatcher submits the row it holds, queues, or gives up. *)
LEMMA AcquireKeeps ==
  ASSUME IInv, AcquireFree \/ AcquireQueues \/ AcquireGranted \/ AcquireCancelled
  PROVE  (NoneSkipped /\ StartedInOrder /\ OutcomesMatch /\ EndsMatch /\ ErrorsKept)'
<1> USE DEF given, mainVars, loaderVars, chanVars, dispVars, semVars, workVars, errVars
<1>1. /\ UNCHANGED <<csv, workerSize, ctxDone, main, errs, loader, nextRow, entryChan, entryClosed, outcome,
                     errorChan, errorClosed>>
      /\ disp \in {"acquire", "wait"}
  BY DEF AcquireFree, AcquireQueues, AcquireGranted, AcquireCancelled
<1>2. Queued' = Queued
  BY <1>1 DEF Queued
<1>3. CASE AcquireQueues \/ AcquireCancelled
  <2>1. /\ UNCHANGED worker
        /\ \/ disp' = "wait" /\ held' = held
           \/ disp' = "drain" /\ ctxDone
    BY <1>3 DEF AcquireQueues, AcquireCancelled
  <2>2. OutcomesMatch' /\ ErrorsKept' /\ StartedInOrder'
    BY <1>1, <2>1, KeepErrors DEF IInv, StartedInOrder, Accepted, Parses
  <2>3. NoneSkipped'
    BY <1>1, <1>2, <2>1 DEF IInv, NoneSkipped, Accepted, Parses, Leaving
  <2>4. EndsMatch'
    BY <1>1, <2>1 DEF IInv, EndsMatch, Leaving
  <2>5. QED
    BY <2>2, <2>3, <2>4
<1>4. CASE AcquireFree \/ AcquireGranted
  <2>1. disp' = "recv" /\ held' = 0 /\ worker' = [worker EXCEPT ![held] = "starting"]
    BY <1>4 DEF AcquireFree, AcquireGranted, Submit
  <2>2. /\ held \in Rows /\ worker[held] = "none" /\ worker'[held] = "starting"
        /\ \A q \in Rows : q # held => worker'[q] = worker[q]
    BY <1>1, <2>1, Typed DEF IInv, PermitInv, RowsOrdered
  <2>3. NoneSkipped'
    BY <1>1, <1>2, <2>1, <2>2 DEF IInv, NoneSkipped, Accepted, Parses, Leaving
  <2>4. StartedInOrder'
    <3>1. \A q \in Rows : q < held /\ Accepted(q) => worker[q] # "none"
      <4>1. held < nextRow /\ \A q \in Queued : held < q
        BY <1>1 DEF IInv, PermitInv, RowsOrdered, Queued
      <4>2. nextRow \in Int /\ \A r \in Rows : r \in Int
        BY Typed DEF IInv
      <4>3. \A q \in Rows : q < held => q < nextRow /\ q # held /\ q \notin Queued
        BY <2>2, <4>1, <4>2
      <4>4. QED
        BY <1>1, <4>3 DEF IInv, NoneSkipped, Leaving
    <3>2. \A q \in Rows : Accepted(q)' <=> Accepted(q)
      BY <1>1 DEF Accepted, Parses
    <3>3. QED
      BY <2>2, <3>1, <3>2 DEF IInv, StartedInOrder
  <2>5. OutcomesMatch'
    BY <1>1, <2>2 DEF IInv, OutcomesMatch
  <2>6. ErrorsKept'
    <3>1. Sent' = Sent
      BY <1>1, <2>2 DEF Sent
    <3>2. QED
      BY <1>1, <3>1 DEF IInv, ErrorsKept, Collected, Reported
  <2>7. EndsMatch'
    BY <1>1, <2>1 DEF IInv, EndsMatch, Leaving
  <2>8. QED
    BY <2>3, <2>4, <2>5, <2>6, <2>7
<1>5. QED
  BY <1>3, <1>4

LEMMA DrainKeeps ==
  ASSUME IInv, DrainFree \/ DrainQueues \/ DrainGranted \/ CloseErrors
  PROVE  (NoneSkipped /\ StartedInOrder /\ OutcomesMatch /\ EndsMatch /\ ErrorsKept)'
<1> USE DEF given, mainVars, loaderVars, chanVars, dispVars, semVars, workVars, errVars
<1>1. /\ UNCHANGED <<csv, workerSize, ctxDone, main, errs, loader, nextRow, entryChan, entryClosed, held,
                     worker, outcome, errorChan>>
      /\ disp \in Leaving /\ disp' \in Leaving
  BY DEF DrainFree, DrainQueues, DrainGranted, CloseErrors, Leaving
<1>2. errorClosed' = errorClosed \/ errorClosed' = TRUE
  BY DEF DrainFree, DrainQueues, DrainGranted, CloseErrors
<1>3. OutcomesMatch' /\ ErrorsKept' /\ StartedInOrder'
  BY <1>1, KeepErrors DEF IInv, StartedInOrder, Accepted, Parses
<1>4. NoneSkipped'
  BY <1>1 DEF IInv, NoneSkipped, Accepted, Parses, Queued, Leaving
<1>5. EndsMatch'
  BY <1>1, <1>2 DEF IInv, EndsMatch
<1>6. QED
  BY <1>3, <1>4, <1>5

(* A worker reports its error before it releases, so nothing is sent once  *)
(* errorChan is closed.                                                    *)
LEMMA WorkerKeeps ==
  ASSUME IInv, NEW r \in Rows, WorkerStep(r) \/ ChildExits(r)
  PROVE  (NoneSkipped /\ StartedInOrder /\ OutcomesMatch /\ EndsMatch /\ ErrorsKept)'
<1> USE DEF given, mainVars, loaderVars, chanVars, dispVars, semVars, workVars, errVars
<1>1. /\ UNCHANGED <<csv, workerSize, ctxDone, main, errs, loader, nextRow, entryChan, entryClosed, disp,
                     held, errorClosed>>
      /\ worker[r] # "none"
      /\ \A q \in Rows : q # r => worker'[q] = worker[q] /\ outcome'[q] = outcome[q]
      /\ \/ /\ worker'[r] \in {"running", "signalled"} /\ outcome' = outcome
            /\ worker[r] \in {"starting", "running"} /\ errorChan' = errorChan
         \/ /\ worker'[r] = "report" /\ outcome'[r] = "fail" /\ errorChan' = errorChan
            /\ worker[r] \in {"starting", "running", "signalled"}
         \/ /\ worker'[r] = "release" /\ outcome'[r] = "ok" /\ errorChan' = errorChan
            /\ worker[r] \in {"running", "signalled"}
         \/ /\ worker'[r] = "release" /\ outcome' = outcome /\ worker[r] = "report"
            /\ errorChan' = Append(errorChan, r)
         \/ /\ worker'[r] = "gone" /\ outcome' = outcome /\ worker[r] = "release"
            /\ errorChan' = errorChan
  <2>1. /\ worker \in [Rows -> AliveStates \cup {"none", "gone"}]
        /\ outcome \in [Rows -> {"none", "ok", "fail"}]
    BY Typed DEF IInv
  <2>2. CASE StartChild(r)
    BY <2>1, <2>2 DEF StartChild
  <2>3. CASE SignalChild(r)
    BY <2>1, <2>3 DEF SignalChild
  <2>4. CASE ChildExits(r)
    BY <2>1, <2>4 DEF ChildExits
  <2>5. CASE Report(r)
    BY <2>1, <2>5 DEF Report
  <2>6. CASE Release(r)
    BY <2>1, <2>6 DEF Release
  <2>7. QED
    BY <2>2, <2>3, <2>4, <2>5, <2>6 DEF WorkerStep
<1>2. \A q \in Rows : worker'[q] # "none" <=> worker[q] # "none"
  BY <1>1
<1>3. NoneSkipped' /\ StartedInOrder'
  BY <1>1, <1>2 DEF IInv, NoneSkipped, StartedInOrder, Accepted, Parses, Queued
<1>4. OutcomesMatch'
  BY <1>1 DEF IInv, OutcomesMatch
<1>5. EndsMatch'
  <2>1. errorChan' # errorChan => main # "done"
    <3>1. worker[r] = "report" => r \in Alive
      BY DEF Alive, AliveStates
    <3>2. main = "done" => Alive = {}
      BY DrainedEmpty DEF IInv, EndsMatch, PermitInv, ClosedMatches
    <3>3. QED
      BY <1>1, <3>1, <3>2
  <2>2. QED
    BY <1>1, <2>1 DEF IInv, EndsMatch
<1>6. ErrorsKept'
  <2>1. CASE errorChan' = errorChan
    <3>1. Sent' = Sent
      BY <1>1, <2>1 DEF Sent, IInv, OutcomesMatch
    <3>2. QED
      BY <1>1, <2>1, <3>1 DEF IInv, ErrorsKept, Collected, Reported
  <2>2. CASE worker[r] = "report" /\ errorChan' = Append(errorChan, r)
    <3>1. outcome[r] = "fail" /\ outcome' = outcome /\ worker'[r] = "release"
      BY <1>1, <2>2 DEF IInv, OutcomesMatch
    <3>2. Sent' = Sent \cup {r} /\ r \notin Sent
      BY <1>1, <2>2, <3>1 DEF Sent
    <3>3. Cardinality(Sent') = Cardinality(Sent) + 1
      BY <3>2, SentFinite, FS_AddElement
    <3>4. errorChan \in Seq(Rows) /\ errs \in Seq(Rows)
      BY Typed DEF IInv
    <3>5. Reported' = Reported \cup {r} /\ Collected' = Collected
      <4>1. /\ \A i \in DOMAIN errorChan : i \in DOMAIN errorChan' /\ errorChan'[i] = errorChan[i]
            /\ \A i \in DOMAIN errorChan' : i \in DOMAIN errorChan \/ errorChan'[i] = r
            /\ Len(errorChan) + 1 \in DOMAIN errorChan' /\ errorChan'[Len(errorChan) + 1] = r
        BY <2>2, <3>4
      <4>2. QED
        BY <1>1, <4>1 DEF Reported, Collected
    <3>6. Len(errs') + Len(errorChan') = Cardinality(Sent')
      <4>1. Len(errorChan') = Len(errorChan) + 1 /\ errs' = errs
        BY <1>1, <2>2, <3>4
      <4>2. Len(errs) + Len(errorChan) = Cardinality(Sent)
        BY DEF IInv, ErrorsKept
      <4>3. QED
        BY <3>3, <3>4, <4>1, <4>2
    <3>7. QED
      BY <3>2, <3>5, <3>6 DEF IInv, ErrorsKept
  <2>3. QED
    BY <1>1, <2>1, <2>2
<1>7. QED
  BY <1>3, <1>4, <1>5, <1>6

LEMMA StutterKeeps ==
  ASSUME IInv, UNCHANGED vars
  PROVE  (NoneSkipped /\ StartedInOrder /\ OutcomesMatch /\ EndsMatch /\ ErrorsKept)'
<1> USE DEF vars, given, mainVars, loaderVars, chanVars, dispVars, semVars, workVars, errVars
<1> QED
  BY KeepRows, KeepErrors, KeepEnds DEF IInv

LEMMA StepIInv == IInv /\ [Next]_vars => IInv'
<1> SUFFICES ASSUME IInv, [Next]_vars PROVE IInv'
  OBVIOUS
<1>1. PermitInv'
  BY StepPermits DEF IInv
<1>2. (NoneSkipped /\ StartedInOrder /\ OutcomesMatch /\ EndsMatch /\ ErrorsKept)'
  BY CancelKeeps, MainKeeps, LoaderKeeps, RecvKeeps, AcquireKeeps, DrainKeeps, WorkerKeeps,
     StutterKeeps DEF Next, Dispatcher, Stopped
<1>3. QED
  BY <1>1, <1>2 DEF IInv

(* The accounting of permits, rows and errors holds in every state of the  *)
(* selector's pipeline.                                                    *)
THEOREM SelectorInvariant == Spec => []IInv
  BY InitIInv, StepIInv, PTL DEF Spec

(* Rows are started in file order without gaps; and unless the run was     *)
(* cancelled or the file could not be read to its end, Execute returns     *)
(* only after a child has been run for every accepted row.                 *)
THEOREM SelectorRowsHandled == Spec => []RowsHandledInOrder
<1>1. ASSUME IInv, main = "done", ~ctxDone, \A r \in Rows : csv[r] # Unreadable,
             NEW q \in Rows, Accepted(q)
      PROVE  outcome[q] # "none"
  <2>1. disp = "done" /\ Alive = {}
    BY <1>1, DrainedEmpty DEF IInv, EndsMatch, PermitInv, ClosedMatches
  <2>2. entryClosed /\ entryChan = <<>> /\ nextRow > NumRows
    BY <1>1, <2>1 DEF IInv, EndsMatch, Leaving
  <2>3. q < nextRow
    BY <1>1, <2>2, Typed DEF IInv, Rows
  <2>4. q \notin Queued
    BY <2>2 DEF Queued
  <2>5. worker[q] # "none"
    BY <1>1, <2>1, <2>3, <2>4 DEF IInv, NoneSkipped
  <2>6. worker[q] = "gone"
    <3>1. worker[q] \in AliveStates \cup {"none", "gone"}
      BY <1>1, Typed DEF IInv
    <3>2. QED
      BY <2>1, <2>5, <3>1 DEF Alive
  <2>7. QED
    BY <1>1, <2>6 DEF IInv, OutcomesMatch
<1>2. IInv => RowsHandledInOrder
  BY <1>1 DEF IInv, RowsHandledInOrder
<1>3. QED
  BY <1>2, SelectorInvariant, PTL

(* When Execute returns, the errors it joins are exactly the failed rows,  *)
(* each once.                                                              *)
THEOREM SelectorFailuresCollected == Spec => []FailuresCollected
<1>1. ASSUME IInv, main = "done"
      PROVE  /\ Collected = {r \in Rows : outcome[r] = "fail"}
             /\ Len(errs) = Cardinality({r \in Rows : outcome[r] = "fail"})
  <2>1. Alive = {} /\ errorChan = <<>>
    BY <1>1, DrainedEmpty DEF IInv, EndsMatch, PermitInv, ClosedMatches
  <2>2. Sent = {r \in Rows : outcome[r] = "fail"}
    BY <1>1, <2>1 DEF IInv, OutcomesMatch, Sent, Alive, AliveStates
  <2>3. Collected = Sent
    <3>1. Collected \cup Reported = Sent
      BY <1>1 DEF IInv, ErrorsKept
    <3>2. DOMAIN errorChan = {}
      BY <2>1
    <3>3. Reported = {}
      BY <3>2 DEF Reported
    <3>4. QED
      BY <3>1, <3>3
  <2>4. Len(errs) = Cardinality(Sent)
    <3>1. Len(errs) \in Nat /\ Len(errorChan) = 0
      BY <1>1, <2>1, Typed DEF IInv
    <3>2. QED
      BY <1>1, <3>1, SentFinite DEF IInv, ErrorsKept
  <2>5. QED
    BY <2>2, <2>3, <2>4
<1>2. IInv => FailuresCollected
  BY <1>1 DEF FailuresCollected
<1>3. QED
  BY <1>2, SelectorInvariant, PTL
=============================================================================
