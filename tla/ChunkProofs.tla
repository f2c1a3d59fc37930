---------------------------- MODULE ChunkProofs ----------------------------
(* Theorems about ChunkPipeline, for any number of entries, any sizes of   *)
(* chunks and of the semaphore and any number of attempts.                 *)
EXTENDS ChunkPipeline, FiniteSetTheorems, TLAPS

LEMMA Sizes ==
  /\ NumEntries \in Nat /\ TaskSize \in Nat /\ ChunkSize \in Nat /\ Attempts \in Nat
  /\ TaskSize > 0 /\ ChunkSize > 0
BY ChunkAssumption

LEMMA JobsFinite == IsFiniteSet(Jobs) /\ IsFiniteSet(Entries) /\ Cardinality(Entries) = NumEntries
<1>1. /\ IsFiniteSet(Entries)
      /\ Cardinality(Entries) = IF 1 > NumEntries THEN 0 ELSE NumEntries - 1 + 1
  BY FS_Interval, Sizes DEF Entries
<1>2. QED
  BY <1>1, Sizes DEF Jobs

LEMMA AliveFinite == IsFiniteSet(Alive) /\ Cardinality(Alive) \in Nat
<1>1. Alive \subseteq Jobs
  BY DEF Alive
<1>2. QED
  BY <1>1, JobsFinite, FS_Subset, FS_CardinalityType

LEMMA SeqFacts ==
  ASSUME NEW S, NEW s \in Seq(S)
  PROVE  /\ \A e \in S : Append(s, e) \in Seq(S)
         /\ s # <<>> => Head(s) \in S /\ Tail(s) \in Seq(S)
OBVIOUS

(* The fields of a job and of the chunk, and what the counters are.        *)
LEMMA Types ==
  ASSUME TypeOK
  PROVE  /\ \A j \in Jobs :
              /\ job[j].lo \in Nat /\ job[j].lo \in Entries /\ job[j].len \in 0..ChunkSize
              /\ job[j].st \in AliveStates \cup {"none", "gone"}
              /\ job[j].buf \in Buffers \cup {0}
         /\ chunk.lo \in Nat /\ chunk.len \in 0..ChunkSize /\ chunk.buf \in Buffers \cup {0}
         /\ chunk = [buf |-> chunk.buf, lo |-> chunk.lo, len |-> chunk.len]
         /\ submitted \in Nat /\ received \in Nat /\ emitted \in Nat /\ fresh \in Nat
         /\ submitted <= NumEntries /\ received <= NumEntries
         /\ \A j \in 1..submitted : j \in Jobs
<1>1. \A j \in Jobs : job[j] \in [st : AliveStates \cup {"none", "gone"},
                       buf : Buffers \cup {0}, lo : Entries, len : 0..ChunkSize,
                       try : 0..Attempts + 1, nil : BOOLEAN,
                       out : {"none", "ok", "cut", "fail"}]
  BY DEF TypeOK
<1>2. chunk \in [buf : Buffers \cup {0}, lo : Entries \cup {1}, len : 0..ChunkSize]
  BY DEF TypeOK
<1>3. /\ submitted \in 0..NumEntries /\ received \in 0..NumEntries
      /\ emitted \in 0..NumEntries /\ fresh \in 0..NumEntries
  BY DEF TypeOK
<1>4. QED
  BY <1>1, <1>2, <1>3, Sizes DEF Entries, Jobs

-----------------------------------------------------------------------------
LEMMA InitIInv == Init => IInv
<1> SUFFICES ASSUME Init PROVE IInv
  OBVIOUS
<1>0. \A j \in Jobs : job[j] = NoJob
  BY DEF Init
<1>1. /\ Alive = {} /\ Owning = {} /\ Sent = {} /\ Pending = {} /\ Collected = {}
  BY <1>0 DEF Init, NoJob, Alive, Owning, Sent, Pending, Collected, HoldingStates, AliveStates
<1>2. Handed = 0 /\ submitted = 0 /\ 1..submitted = {}
  BY DEF Init, Handed
<1>3. TypeOK
  <2>1. {ctxDone, scanErr, ended, resultClosed} \subseteq BOOLEAN
    BY Zenon DEF Init
  <2>2. /\ total \in 0..NumEntries /\ emitted \in 0..NumEntries /\ received \in 0..NumEntries
        /\ fresh \in 0..NumEntries /\ cur \in 0..TaskSize /\ want \in 0..TaskSize
        /\ submitted \in 0..NumEntries
    BY Sizes DEF Init
  <2>3. entryChan \in Seq(Entries) /\ resultChan \in Seq(Jobs)
    BY DEF Init
  <2>4. array \in [Buffers -> [1..ChunkSize -> 0..NumEntries]]
    BY Sizes DEF Init
  <2>5. job \in [Jobs -> [st : AliveStates \cup {"none", "gone"},
                       buf : Buffers \cup {0}, lo : Entries, len : 0..ChunkSize,
                       try : 0..Attempts + 1, nil : BOOLEAN,
                       out : {"none", "ok", "cut", "fail"}]]
    <3>1. ASSUME NEW j \in Jobs PROVE 1 \in Entries
      BY Sizes DEF Jobs, Entries
    <3>2. QED
      BY <3>1, Sizes DEF Init, NoJob
  <2>6. chunk \in [buf : Buffers \cup {0}, lo : Entries \cup {1}, len : 0..ChunkSize]
    BY Sizes DEF Init, NoChunk
  <2>7. QED
    BY <2>1, <2>2, <2>3, <2>4, <2>5, <2>6 DEF Init, TypeOK
<1>4. PermitsMatch /\ RequestsMatch
  <2>1. Cardinality(Alive) = 0
    BY <1>1, FS_EmptySet
  <2>2. QED
    BY <2>1 DEF Init, PermitsMatch, RequestsMatch, Granted, Drained
<1>5. ArrayHasOneOwner /\ ChunkIntact
  BY <1>1 DEF Init, NoChunk, ArrayHasOneOwner, ChunkIntact
<1>6. EntriesInOrder
  BY DEF Init, EntriesInOrder
<1>7. ChunkContinues
  BY <1>2, Sizes DEF Init, ChunkContinues, NoChunk, Leaving
<1>8. JobsInOrder /\ OutcomesMatch
  BY <1>0, <1>2, Sizes DEF JobsInOrder, OutcomesMatch, NoJob, Jobs, Entries
<1>9. ResultsKept
  <2>1. UNION {Span(j) : j \in Collected} = {}
    BY <1>1
  <2>2. total = Cardinality(UNION {Span(j) : j \in Collected})
    BY <2>1, FS_EmptySet DEF Init
  <2>3. failures = {j \in Collected : job[j].out = "fail"}
    BY <1>1 DEF Init
  <2>4. DOMAIN resultChan = {}
    BY DEF Init
  <2>5. QED
    BY <1>1, <2>2, <2>3, <2>4 DEF Init, ResultsKept
<1>10. EndsMatch
  BY DEF Init, EndsMatch, EntriesClosed, Leaving
<1>11. QED
  BY <1>3, <1>4, <1>5, <1>6, <1>7, <1>8, <1>9, <1>10 DEF IInv

-----------------------------------------------------------------------------
(* What a step keeps that leaves the variables of a conjunct alone.        *)

LEMMA KeepPermits ==
  ASSUME PermitsMatch, RequestsMatch, UNCHANGED <<cur, want, disp, resultClosed>>,
         Alive' = Alive
  PROVE  PermitsMatch' /\ RequestsMatch'
BY DEF PermitsMatch, RequestsMatch, Granted, Drained

LEMMA KeepArrays ==
  ASSUME ArrayHasOneOwner, ChunkIntact, UNCHANGED <<pool, fresh, chunk, job, array>>
  PROVE  ArrayHasOneOwner' /\ ChunkIntact'
BY DEF ArrayHasOneOwner, ChunkIntact, Owning, Alive

LEMMA KeepEntries ==
  ASSUME EntriesInOrder, UNCHANGED <<entryChan, emitted, received>>
  PROVE  EntriesInOrder'
BY DEF EntriesInOrder

LEMMA KeepChunk ==
  ASSUME ChunkContinues, UNCHANGED <<chunk, disp, received, ended, fresh, submitted>>,
         Handed' = Handed, ctxDone => ctxDone'
  PROVE  ChunkContinues'
BY DEF ChunkContinues

LEMMA KeepJobs ==
  ASSUME JobsInOrder, OutcomesMatch, UNCHANGED <<job, submitted>>, ctxDone => ctxDone'
  PROVE  /\ JobsInOrder' /\ OutcomesMatch'
         /\ Handed' = Handed /\ Alive' = Alive
<1>1. Handed' = Handed /\ Alive' = Alive
  BY DEF Handed, Alive
<1>2. OutcomesMatch'
  BY DEF OutcomesMatch
<1>3. JobsInOrder'
  BY <1>1 DEF JobsInOrder, Span
<1>4. QED
  BY <1>1, <1>2, <1>3

LEMMA KeepResults ==
  ASSUME ResultsKept, UNCHANGED <<resultChan, job, total, failures>>,
         resultClosed => resultClosed',
         main = "crashed" => main' = "crashed",
         main' \in {"scanresult", "done"} => main \in {"scanresult", "done"}
  PROVE  ResultsKept'
BY DEF ResultsKept, Collected, Pending, Sent, Span

-----------------------------------------------------------------------------
(* Runner.Execute and the cancellation. *)

LEMMA CancelStep == ASSUME IInv, Cancel PROVE IInv'
<1> USE DEF Cancel, mainVars, scanVars, dispVars, poolVars, semVars, jobVars, resVars
<1>1. TypeOK'
  BY DEF IInv, TypeOK
<1>2. JobsInOrder' /\ OutcomesMatch' /\ Handed' = Handed /\ Alive' = Alive
  BY KeepJobs DEF IInv
<1>3. PermitsMatch' /\ RequestsMatch' /\ ArrayHasOneOwner' /\ ChunkIntact' /\ EntriesInOrder'
  BY <1>2, KeepPermits, KeepArrays, KeepEntries DEF IInv
<1>4. ChunkContinues' /\ ResultsKept'
  BY <1>2, KeepChunk, KeepResults DEF IInv
<1>5. EndsMatch'
  BY DEF IInv, EndsMatch, EntriesClosed
<1>6. QED
  BY <1>1, <1>2, <1>3, <1>4, <1>5 DEF IInv

LEMMA MainQuiet == ASSUME IInv, PrepareFails \/ ResultsEnd PROVE IInv'
<1> USE DEF PrepareFails, ResultsEnd, mainVars, scanVars, dispVars, poolVars, semVars,
            jobVars, resVars
<1>1. TypeOK'
  <2>1. /\ main' \in {"failed", "scanresult"}
        /\ UNCHANGED <<ctxDone, total, failures, scanErr, scanner, emitted, scanBad, scanErrChan,
                       entryChan, disp, ended, chunk, received, pool, fresh, array, cur,
                       want, submitted, job, resultChan, resultClosed>>
    OBVIOUS
  <2>2. QED
    BY <2>1 DEF IInv, TypeOK
<1>2. JobsInOrder' /\ OutcomesMatch' /\ Handed' = Handed /\ Alive' = Alive
  BY KeepJobs DEF IInv
<1>3. PermitsMatch' /\ RequestsMatch' /\ ArrayHasOneOwner' /\ ChunkIntact' /\ EntriesInOrder'
  BY <1>2, KeepPermits, KeepArrays, KeepEntries DEF IInv
<1>4. ChunkContinues'
  BY <1>2, KeepChunk DEF IInv
<1>5. ResultsKept'
  <2>1. CASE PrepareFails
    BY <2>1, KeepResults DEF IInv
  <2>2. CASE ResultsEnd
    <3>1. Collected' = Collected /\ Pending' = Pending /\ Sent' = Sent
      BY <2>2 DEF Collected, Pending, Sent
    <3>2. (UNION {Span(j) : j \in Collected})' = UNION {Span(j) : j \in Collected}
      BY <2>2, <3>1 DEF Span
    <3>3. QED
      BY <2>2, <3>1, <3>2 DEF IInv, ResultsKept
  <2>3. QED
    BY <2>1, <2>2
<1>6. EndsMatch'
  BY DEF IInv, EndsMatch, EntriesClosed
<1>7. QED
  BY <1>1, <1>2, <1>3, <1>4, <1>5, <1>6 DEF IInv

LEMMA PrepareStep == ASSUME IInv, Prepare PROVE IInv'
<1> USE DEF Prepare, scanVars, poolVars, semVars, jobVars, resVars
<1>1. TypeOK'
  BY DEF IInv, TypeOK
<1>2. JobsInOrder' /\ OutcomesMatch' /\ Handed' = Handed /\ Alive' = Alive
  BY KeepJobs DEF IInv
<1>3. disp = "idle" /\ scanner = "idle" /\ disp' = "select" /\ want = 0 /\ ~resultClosed
  BY DEF IInv, EndsMatch, RequestsMatch
<1>4. PermitsMatch' /\ RequestsMatch'
  BY <1>2, <1>3 DEF IInv, PermitsMatch, RequestsMatch, Granted, Drained
<1>5. ArrayHasOneOwner' /\ ChunkIntact' /\ EntriesInOrder'
  BY KeepArrays, KeepEntries DEF IInv
<1>6. ChunkContinues'
  BY <1>2, <1>3 DEF IInv, ChunkContinues, Leaving
<1>7. ResultsKept'
  BY KeepResults DEF IInv
<1>8. EndsMatch'
  BY <1>3 DEF IInv, EndsMatch, EntriesClosed, ChunkContinues, Leaving
<1>9. QED
  BY <1>1, <1>2, <1>4, <1>5, <1>6, <1>7, <1>8 DEF IInv

LEMMA FinishStep == ASSUME IInv, Finish PROVE IInv'
<1> USE DEF Finish, dispVars, poolVars, semVars, jobVars, resVars
<1>1. TypeOK'
  <2>1. scanErr' \in BOOLEAN /\ scanErrChan' \in {"empty", "error"}
    BY Zenon DEF IInv, TypeOK
  <2>2. QED
    BY <2>1 DEF IInv, TypeOK
<1>2. JobsInOrder' /\ OutcomesMatch' /\ Handed' = Handed /\ Alive' = Alive
  BY KeepJobs DEF IInv
<1>3. PermitsMatch' /\ RequestsMatch' /\ ArrayHasOneOwner' /\ ChunkIntact' /\ EntriesInOrder'
  BY <1>2, KeepPermits, KeepArrays, KeepEntries DEF IInv
<1>4. ChunkContinues' /\ ResultsKept'
  BY <1>2, KeepChunk, KeepResults DEF IInv
<1>5. EndsMatch'
  BY DEF IInv, EndsMatch, EntriesClosed
<1>6. QED
  BY <1>1, <1>2, <1>3, <1>4, <1>5 DEF IInv

(* The spans of submitted jobs: subsets of the entries, pairwise disjoint. *)
LEMMA SpanFacts ==
  ASSUME TypeOK, JobsInOrder, ChunkContinues
  PROVE  /\ Handed \in Nat /\ Handed <= NumEntries
         /\ \A j \in 1..submitted :
              /\ j \in Jobs /\ Span(j) \subseteq Entries
              /\ IsFiniteSet(Span(j)) /\ Cardinality(Span(j)) = job[j].len
         /\ \A i, j \in 1..submitted : i # j => Span(i) \cap Span(j) = {}
<1>1. /\ \A j \in 1..submitted : j \in Jobs /\ job[j].lo \in Nat /\ job[j].len \in Nat
      /\ submitted \in Nat /\ received \in Nat /\ received <= NumEntries /\ chunk.len \in Nat
  BY Types, Sizes
<1>2. Handed \in Int /\ submitted <= Handed
  BY <1>1 DEF Handed, JobsInOrder
<1>3. Handed \in Nat /\ Handed <= NumEntries
  BY <1>1, <1>2, Sizes DEF ChunkContinues
<1>4. ASSUME NEW j \in 1..submitted
      PROVE  /\ j \in Jobs /\ Span(j) \subseteq Entries
             /\ IsFiniteSet(Span(j)) /\ Cardinality(Span(j)) = job[j].len
  <2>1. Span(j) \subseteq 1..Handed
    BY DEF JobsInOrder
  <2>2. Span(j) \subseteq Entries
    BY <1>3, <2>1, Sizes DEF Entries
  <2>3. /\ job[j].lo \in Int /\ job[j].lo + job[j].len - 1 \in Int
        /\ job[j].len \in Nat
    BY <1>1
  <2>4. \A a, b \in Int : IsFiniteSet(a..b) /\ Cardinality(a..b) = IF a > b THEN 0 ELSE b - a + 1
    BY FS_Interval
  <2>5. IsFiniteSet(Span(j)) /\ Cardinality(Span(j)) = job[j].len
    <3> DEFINE a == job[j].lo
               b == job[j].lo + job[j].len - 1
    <3>1. /\ a \in Int /\ b \in Int /\ Span(j) = a..b
          /\ (IF a > b THEN 0 ELSE b - a + 1) = job[j].len
      BY <2>3 DEF Span
    <3> HIDE DEF a, b
    <3>2. IsFiniteSet(a..b) /\ Cardinality(a..b) = IF a > b THEN 0 ELSE b - a + 1
      BY <2>4, <3>1
    <3>3. QED
      BY <3>1, <3>2
  <2>6. QED
    BY <1>1, <2>2, <2>5
<1>5. ASSUME NEW i \in 1..submitted, NEW j \in 1..submitted, i < j
      PROVE  Span(i) \cap Span(j) = {}
  BY <1>1, <1>5 DEF JobsInOrder, Span
<1>6. \A i, j \in 1..submitted : i # j => i < j \/ j < i
  BY <1>1
<1>7. QED
  BY <1>3, <1>4, <1>5, <1>6

LEMMA SentSubmitted ==
  ASSUME TypeOK, JobsInOrder
  PROVE  Sent \subseteq 1..submitted /\ Collected \subseteq 1..submitted /\ Collected \subseteq Jobs
<1>1. Sent \subseteq 1..submitted
  <2>1. ASSUME NEW j \in Sent PROVE j \in 1..submitted
    <3>1. j \in Jobs /\ job[j].st # "none"
      BY DEF Sent
    <3>2. ~(j > submitted)
      BY <3>1 DEF JobsInOrder
    <3>3. QED
      BY <3>1, <3>2, Types DEF Jobs, Entries
  <2>2. QED
    BY <2>1
<1>2. QED
  BY <1>1 DEF Collected, Sent

(* The first result on the channel leaves it and joins those collected.    *)
LEMMA CollectMoves ==
  ASSUME TypeOK, ResultsKept, resultChan # <<>>, resultChan' = Tail(resultChan),
         UNCHANGED job
  PROVE  /\ Head(resultChan) \in Sent /\ Head(resultChan) \notin Collected
         /\ Sent' = Sent
         /\ Pending' = Pending \ {Head(resultChan)}
         /\ Collected' = Collected \cup {Head(resultChan)}
         /\ \A i, k \in DOMAIN resultChan' : resultChan'[i] = resultChan'[k] => i = k
<1>1. resultChan \in Seq(Jobs) /\ 1 \in DOMAIN resultChan /\ Head(resultChan) = resultChan[1]
  BY DEF TypeOK
<1>2. \A i \in DOMAIN resultChan' :
        i \in Nat /\ i + 1 \in DOMAIN resultChan /\ resultChan'[i] = resultChan[i + 1] /\ i + 1 # 1
  BY <1>1
<1>3. \A i \in DOMAIN resultChan : i # 1 =>
        \E k \in DOMAIN resultChan' : i = k + 1 /\ resultChan'[k] = resultChan[i]
  <2>1. \A i \in DOMAIN resultChan : i # 1 =>
          i - 1 \in DOMAIN resultChan' /\ i = (i - 1) + 1 /\ resultChan'[i - 1] = resultChan[i]
    BY <1>1
  <2>2. QED
    BY <2>1
<1>4. Head(resultChan) \in Pending /\ Head(resultChan) \in Sent
  BY <1>1 DEF Pending, ResultsKept
<1>5. Pending' = Pending \ {Head(resultChan)}
  BY <1>1, <1>2, <1>3 DEF Pending, ResultsKept
<1>6. Sent' = Sent
  BY DEF Sent
<1>7. \A i, k \in DOMAIN resultChan' : resultChan'[i] = resultChan'[k] => i = k
  BY <1>2 DEF ResultsKept
<1>8. QED
  BY <1>4, <1>5, <1>6, <1>7 DEF Collected

LEMMA CollectStep == ASSUME IInv, Collect PROVE IInv'
<1> USE DEF scanVars, dispVars, poolVars, semVars, jobVars
<1> DEFINE h == Head(resultChan)
           Held(S) == UNION {Span(j) : j \in S}
<1>1. /\ main = "collect" /\ resultChan # <<>> /\ resultChan' = Tail(resultChan)
      /\ UNCHANGED <<ctxDone, scanErr, scanVars, entryChan, dispVars, poolVars, semVars,
                     jobVars, resultClosed>>
      /\ IF job[h].nil THEN main' = "crashed" /\ UNCHANGED <<total, failures>>
         ELSE /\ total' = total + job[h].len
              /\ failures' = failures \cup (IF job[h].out = "fail" THEN {h} ELSE {})
              /\ UNCHANGED main
  BY DEF Collect
<1>2. JobsInOrder' /\ OutcomesMatch' /\ Handed' = Handed /\ Alive' = Alive
  BY <1>1, KeepJobs DEF IInv
<1>3. PermitsMatch' /\ RequestsMatch' /\ ArrayHasOneOwner' /\ ChunkIntact' /\ EntriesInOrder'
  BY <1>1, <1>2, KeepPermits, KeepArrays, KeepEntries DEF IInv
<1>4. ChunkContinues'
  BY <1>1, <1>2, KeepChunk DEF IInv
<1>5. EndsMatch'
  BY <1>1 DEF IInv, EndsMatch, EntriesClosed
<1>6. /\ h \in Sent /\ h \notin Collected /\ Sent' = Sent
      /\ Pending' = Pending \ {h} /\ Collected' = Collected \cup {h}
      /\ \A i, k \in DOMAIN resultChan' : resultChan'[i] = resultChan'[k] => i = k
  BY <1>1, CollectMoves DEF IInv
<1>7. h \in 1..submitted /\ h \in Jobs /\ Collected \subseteq 1..submitted
  BY <1>6, SentSubmitted, SpanFacts DEF IInv
<1>8. ~job[h].nil =>
        /\ total' = Cardinality(Held(Collected \cup {h}))
        /\ total' \in 0..NumEntries
  <2>1. /\ Held(Collected) \subseteq Entries /\ Span(h) \subseteq Entries
        /\ Held(Collected) \cap Span(h) = {}
        /\ Cardinality(Span(h)) = job[h].len
    BY <1>6, <1>7, SpanFacts DEF IInv
  <2>2. /\ IsFiniteSet(Held(Collected)) /\ IsFiniteSet(Span(h))
        /\ Cardinality(Held(Collected)) \in Nat /\ Cardinality(Span(h)) \in Nat
    BY <2>1, JobsFinite, FS_Subset, FS_CardinalityType
  <2>3. Cardinality(Held(Collected) \cup Span(h)) = Cardinality(Held(Collected)) + job[h].len
    BY <2>1, <2>2, FS_Union, FS_EmptySet
  <2>4. Held(Collected \cup {h}) = Held(Collected) \cup Span(h)
    OBVIOUS
  <2>5. Held(Collected) \cup Span(h) \subseteq Entries
    BY <2>1
  <2>6. /\ Cardinality(Held(Collected) \cup Span(h)) <= NumEntries
        /\ Cardinality(Held(Collected) \cup Span(h)) \in Nat
    BY <2>5, JobsFinite, FS_Subset, FS_CardinalityType
  <2>7. total = Cardinality(Held(Collected))
    BY <1>1 DEF IInv, ResultsKept
  <2>8. ~job[h].nil => total' = total + job[h].len
    BY <1>1
  <2>9. ~job[h].nil => total' = Cardinality(Held(Collected) \cup Span(h))
    BY <2>3, <2>7, <2>8
  <2> HIDE DEF Held, h
  <2>10. QED
    BY <2>4, <2>6, <2>9, Sizes
<1>9. TypeOK'
  <2>1. total' \in 0..NumEntries
    BY <1>1, <1>8 DEF IInv, TypeOK
  <2>2. failures' \subseteq Jobs /\ main' \in {"collect", "crashed"}
    BY <1>1, <1>7 DEF IInv, TypeOK
  <2>3. resultChan' \in Seq(Jobs)
    BY <1>1, SeqFacts DEF IInv, TypeOK
  <2>4. UNCHANGED <<ctxDone, scanErr, scanner, emitted, scanBad, scanErrChan, entryChan, disp,
                    ended, chunk, received, pool, fresh, array, cur, want, submitted, job,
                    resultClosed>>
    BY <1>1
  <2>5. QED
    BY <2>1, <2>2, <2>3, <2>4 DEF IInv, TypeOK
<1>10. ResultsKept'
  <2>1. Held(Collected)' = Held(Collected')
    BY <1>1 DEF Span
  <2>2. main' # "crashed" => total' = Cardinality(Held(Collected)')
    BY <1>1, <1>6, <1>8, <2>1
  <2>3. main' # "crashed" => failures' = {j \in Collected' : job'[j].out = "fail"}
    BY <1>1, <1>6 DEF IInv, ResultsKept
  <2>4. QED
    BY <1>1, <1>6, <2>2, <2>3 DEF IInv, ResultsKept
<1>11. QED
  BY <1>2, <1>3, <1>4, <1>5, <1>9, <1>10 DEF IInv

LEMMA MainStep == ASSUME IInv, Main PROVE IInv'
BY MainQuiet, PrepareStep, CollectStep, FinishStep DEF Main


-----------------------------------------------------------------------------
(* The scanner. *)

LEMMA ScanStep == ASSUME IInv, Scan PROVE IInv'
<1> USE DEF Scan, Emit, ScanEnds, ScanCloses, mainVars, dispVars, poolVars, semVars, jobVars,
            resVars
<1>1. UNCHANGED <<ctxDone, mainVars, dispVars, poolVars, semVars, jobVars, resVars>>
  OBVIOUS
<1>2. JobsInOrder' /\ OutcomesMatch' /\ Handed' = Handed /\ Alive' = Alive
  BY KeepJobs DEF IInv
<1>3. PermitsMatch' /\ RequestsMatch' /\ ArrayHasOneOwner' /\ ChunkIntact'
  BY <1>2, KeepPermits, KeepArrays DEF IInv
<1>4. ChunkContinues' /\ ResultsKept'
  BY <1>2, KeepChunk, KeepResults DEF IInv
<1>5. TypeOK' /\ EntriesInOrder' /\ EndsMatch'
  <2>1. CASE Emit
    <3>1. /\ entryChan \in Seq(Entries) /\ emitted \in Nat /\ emitted + 1 \in Entries
          /\ emitted + 1 \in 0..NumEntries /\ received \in Nat
      BY <2>1, Types, Sizes DEF IInv, TypeOK, Entries
    <3>2. entryChan' \in Seq(Entries)
      BY <2>1, <3>1, SeqFacts
    <3>3. TypeOK'
      <4>1. /\ emitted' \in 0..NumEntries
            /\ UNCHANGED <<ctxDone, main, total, failures, scanErr, scanner, scanBad,
                           scanErrChan, disp, ended, chunk, received, pool, fresh,
                           array, cur, want, submitted, job, resultChan, resultClosed>>
        BY <2>1, <3>1
      <4>2. QED
        BY <3>2, <4>1 DEF IInv, TypeOK
    <3>4. EntriesInOrder'
      <4>1. /\ entryChan' = Append(entryChan, emitted + 1)
            /\ emitted' = emitted + 1 /\ received' = received
        BY <2>1
      <4>2. EntriesInOrder
        BY DEF IInv
      <4> HIDE DEF Scan, Emit, ScanEnds, ScanCloses
      <4>3. QED
        BY <3>1, <4>1, <4>2 DEF EntriesInOrder
    <3>5. EndsMatch'
      BY <2>1 DEF IInv, EndsMatch, EntriesClosed
    <3>6. QED
      BY <3>3, <3>4, <3>5
  <2>2. CASE ScanEnds
    <3>1. TypeOK'
      BY <2>2 DEF IInv, TypeOK
    <3>2. EntriesInOrder'
      BY <2>2, KeepEntries DEF IInv
    <3>3. EndsMatch'
      BY <2>2 DEF IInv, EndsMatch, EntriesClosed
    <3>4. QED
      BY <3>1, <3>2, <3>3
  <2>3. CASE ScanCloses
    <3>1. TypeOK'
      BY <2>3 DEF IInv, TypeOK
    <3>2. EntriesInOrder'
      BY <2>3, KeepEntries DEF IInv
    <3>3. EndsMatch'
      BY <2>3 DEF IInv, EndsMatch, EntriesClosed
    <3>4. QED
      BY <3>1, <3>2, <3>3
  <2>4. QED
    BY <2>1, <2>2, <2>3
<1>6. QED
  BY <1>2, <1>3, <1>4, <1>5 DEF IInv

-----------------------------------------------------------------------------
(* The dispatcher. *)

(* What every step of the dispatcher but a submission keeps. *)
LEMMA DispatchKeeps ==
  ASSUME IInv, UNCHANGED <<ctxDone, mainVars, scanVars, jobVars, resultChan>>,
         resultClosed => resultClosed'
  PROVE  /\ JobsInOrder' /\ OutcomesMatch' /\ ResultsKept'
         /\ Handed' = Handed /\ Alive' = Alive /\ Owning' = Owning
<1> USE DEF mainVars, scanVars, jobVars
<1>1. JobsInOrder' /\ OutcomesMatch' /\ Handed' = Handed /\ Alive' = Alive
  BY KeepJobs DEF IInv
<1>2. ResultsKept'
  BY KeepResults DEF IInv
<1>3. QED
  BY <1>1, <1>2 DEF Owning

LEMMA ArrayFacts ==
  ASSUME IInv
  PROVE  /\ \A b \in pool : b \in Nat /\ 0 < b /\ b <= fresh /\ b # chunk.buf
         /\ chunk.buf \in Nat /\ chunk.buf <= fresh
         /\ \A j \in Owning :
              /\ job[j].buf \in Nat /\ 0 < job[j].buf /\ job[j].buf <= fresh
              /\ job[j].buf \notin pool /\ job[j].buf # chunk.buf
         /\ fresh \in Nat /\ fresh <= NumEntries
<1>1. fresh \in 0..NumEntries /\ NumEntries \in Nat
  BY Sizes DEF IInv, TypeOK
<1>2. pool \subseteq 1..fresh /\ chunk.buf \in 0..fresh \ pool
  BY DEF IInv, ArrayHasOneOwner
<1>3. \A j \in Owning : job[j].buf \in 1..fresh \ (pool \cup {chunk.buf})
  BY DEF IInv, ArrayHasOneOwner
<1>4. QED
  BY <1>1, <1>2, <1>3

(* The dispatcher gives its chunk up: to the pool, nothing is submitted.   *)
LEMMA PutBackStep == ASSUME IInv, SelectCancelled \/ AcquireCancelled PROVE IInv'
<1> USE DEF mainVars, scanVars, semVars, jobVars, resVars
<1>1. /\ UNCHANGED <<ctxDone, mainVars, scanVars, entryChan, received, fresh, array, cur,
                     jobVars, resVars>>
      /\ ctxDone /\ ended' = TRUE /\ disp' = "drain" /\ chunk' = NoChunk
      /\ pool' = IF chunk.buf = 0 THEN pool ELSE pool \cup {chunk.buf}
      /\ \/ disp = "select" /\ want' = want
         \/ disp = "wait" /\ want = 1 /\ want' = 0
  BY DEF SelectCancelled, AcquireCancelled, PutBack
<1>2. /\ JobsInOrder' /\ OutcomesMatch' /\ ResultsKept'
      /\ Handed' = Handed /\ Alive' = Alive /\ Owning' = Owning
  BY <1>1, DispatchKeeps
<1>3. /\ chunk.buf \in Buffers \cup {0} /\ fresh \in Nat /\ chunk.len \in Nat
      /\ received \in Nat /\ submitted \in Nat /\ Handed \in Nat
  BY Types, SpanFacts, Sizes DEF IInv
<1>4. TypeOK'
  <2>1. pool' \subseteq Buffers /\ want' \in 0..TaskSize
    BY <1>1, <1>3, Sizes DEF IInv, TypeOK
  <2>2. chunk' \in [buf : Buffers \cup {0}, lo : Entries \cup {1}, len : 0..ChunkSize]
    BY <1>1, Sizes DEF NoChunk
  <2>3. QED
    BY <1>1, <2>1, <2>2 DEF IInv, TypeOK
<1>5. PermitsMatch' /\ RequestsMatch'
  BY <1>1, <1>2 DEF IInv, PermitsMatch, RequestsMatch, Granted, Drained
<1>6. ArrayHasOneOwner'
  <2>1. ArrayHasOneOwner /\ chunk'.buf = 0 /\ UNCHANGED <<fresh, job>>
    BY <1>1 DEF IInv, NoChunk
  <2>2. /\ \A b \in pool' : b \in 1..fresh /\ b \in pool \cup {chunk.buf}
        /\ 0 \in 0..fresh \ pool'
    BY <1>1, <1>3, ArrayFacts
  <2>3. \A j \in Owning : job[j].buf \in 1..fresh \ (pool' \cup {0})
    BY <2>2, ArrayFacts
  <2>4. QED
    BY <1>2, <2>1, <2>2, <2>3 DEF ArrayHasOneOwner
<1>7. ChunkIntact'
  BY <1>1, <1>2 DEF IInv, ChunkIntact, NoChunk
<1>8. EntriesInOrder'
  BY <1>1, KeepEntries DEF IInv
<1>9. ChunkContinues'
  BY <1>1, <1>2, <1>3, Sizes DEF IInv, ChunkContinues, NoChunk, Leaving
<1>10. EndsMatch'
  BY <1>1 DEF IInv, EndsMatch, EntriesClosed
<1>11. QED
  BY <1>2, <1>4, <1>5, <1>6, <1>7, <1>8, <1>9, <1>10 DEF IInv

(* The steps that only move the dispatcher and the semaphore. *)
LEMMA MoveStep ==
  ASSUME IInv, SelectClosed \/ SelectTick \/ AcquireQueues \/ Drain
  PROVE  IInv'
<1> USE DEF mainVars, scanVars, poolVars, semVars, jobVars, resVars
<1> DEFINE Moves ==
      \/ /\ disp = "select" /\ disp' = "acquire" /\ chunk.len > 0
         /\ UNCHANGED <<semVars, ended, resultClosed>>
      \/ /\ disp = "select" /\ disp' \in {"acquire", "drain"} /\ ended' = TRUE
         /\ EntriesClosed /\ entryChan = <<>> /\ UNCHANGED <<semVars, resultClosed>>
         /\ disp' = "acquire" <=> chunk.len > 0
      \/ /\ disp = "acquire" /\ disp' = "wait" /\ want' = 1
         /\ UNCHANGED <<cur, ended, resultClosed>>
      \/ /\ disp = "drain" /\ disp' = "closing" /\ cur = 0 /\ cur' = TaskSize
         /\ UNCHANGED <<want, ended, resultClosed>>
      \/ /\ disp = "drain" /\ disp' = "drainwait" /\ want' = TaskSize
         /\ UNCHANGED <<cur, ended, resultClosed>>
      \/ /\ disp = "drainwait" /\ want = 0 /\ disp' = "closing"
         /\ UNCHANGED <<semVars, ended, resultClosed>>
      \/ disp = "closing" /\ disp' = "done" /\ resultClosed' = TRUE /\ UNCHANGED <<semVars, ended>>
<1>1. /\ UNCHANGED <<ctxDone, mainVars, scanVars, entryChan, chunk, received, poolVars,
                     jobVars, resultChan>>
      /\ Moves
  BY DEF SelectClosed, SelectTick, AcquireQueues, Drain, DrainFree, DrainQueues, DrainGranted,
         CloseResults
<1>2. resultClosed' \in BOOLEAN /\ ended' \in BOOLEAN /\ (resultClosed => resultClosed')
  BY <1>1, Zenon DEF IInv, TypeOK
<1>3. /\ JobsInOrder' /\ OutcomesMatch' /\ ResultsKept'
      /\ Handed' = Handed /\ Alive' = Alive
  BY <1>1, <1>2, DispatchKeeps
<1>4. /\ chunk.len \in Nat /\ received \in Nat /\ submitted \in Nat /\ Handed \in Nat
      /\ cur \in Nat /\ want \in Nat /\ Cardinality(Alive) \in Nat
  BY Types, SpanFacts, Sizes, AliveFinite DEF IInv, TypeOK
<1>5. TypeOK'
  <2>1. cur' \in 0..TaskSize /\ want' \in 0..TaskSize
    <3>1. cur \in 0..TaskSize /\ want \in 0..TaskSize
      BY DEF IInv, TypeOK
    <3>2. QED
      BY <1>1, <3>1, Sizes
  <2>2. disp' \in {"idle", "select", "acquire", "wait", "drain", "drainwait", "closing", "done"}
    BY <1>1
  <2>3. UNCHANGED <<ctxDone, main, total, failures, scanErr, scanner, emitted, scanBad, scanErrChan,
                    entryChan, chunk, received, pool, fresh, array, submitted, job,
                    resultChan>>
    BY <1>1
  <2>4. QED
    BY <1>2, <2>1, <2>2, <2>3 DEF IInv, TypeOK
<1>6. PermitsMatch'
  BY <1>1, <1>3, <1>4, Sizes DEF IInv, PermitsMatch, RequestsMatch, Granted, Drained
<1>7. RequestsMatch'
  BY <1>1, <1>2, <1>4, Sizes DEF IInv, RequestsMatch
<1>8. ArrayHasOneOwner' /\ ChunkIntact' /\ EntriesInOrder'
  BY <1>1, KeepArrays, KeepEntries DEF IInv
<1>9. ChunkContinues'
  BY <1>1, <1>3, <1>4 DEF IInv, ChunkContinues, NoChunk, Leaving
<1>10. EndsMatch'
  BY <1>1 DEF IInv, EndsMatch, EntriesClosed, Leaving
<1>11. QED
  BY <1>3, <1>5, <1>6, <1>7, <1>8, <1>9, <1>10 DEF IInv

(* An entry joins the chunk, which may first be fetched from the pool.     *)
LEMMA SelectEntryStep == ASSUME IInv, SelectEntry PROVE IInv'
<1> USE DEF mainVars, scanVars, semVars, jobVars, resVars
<1> DEFINE e == Head(entryChan)
           n == chunk.len + 1
<1>1. PICK b \in IF chunk.buf # 0 THEN {chunk.buf} ELSE pool \cup {fresh + 1} :
        /\ chunk' = IF chunk.buf # 0 THEN [chunk EXCEPT !.len = @ + 1]
                    ELSE [buf |-> b, lo |-> e, len |-> 1]
        /\ array' = [array EXCEPT ![b][n] = e]
        /\ pool' = pool \ {b}
        /\ fresh' = IF b > fresh THEN b ELSE fresh
        /\ disp' = IF chunk'.len = ChunkSize THEN "acquire" ELSE "select"
        /\ received' = e
  BY DEF SelectEntry, Full
<1>2. /\ UNCHANGED <<ctxDone, mainVars, scanVars, ended, semVars, jobVars, resVars>>
      /\ disp = "select" /\ entryChan # <<>> /\ entryChan' = Tail(entryChan)
  BY DEF SelectEntry
<1>3. /\ JobsInOrder' /\ OutcomesMatch' /\ ResultsKept'
      /\ Handed' = Handed /\ Alive' = Alive /\ Owning' = Owning
  BY <1>2, DispatchKeeps
<1>4. /\ fresh \in Nat /\ chunk.len \in Nat /\ chunk.buf \in Nat
      /\ received \in Nat /\ submitted \in Nat /\ Handed \in Nat
      /\ emitted \in Nat /\ received + 1 <= NumEntries
  <2>1. received \in Nat /\ emitted \in Nat /\ emitted <= NumEntries
    BY Types, Sizes DEF IInv, TypeOK
  <2>2. emitted > received
    BY <1>2, <2>1 DEF IInv, TypeOK, EntriesInOrder
  <2>3. received + 1 <= NumEntries
    BY <2>1, <2>2, Sizes
  <2>4. chunk.buf \in Nat
    BY ArrayFacts
  <2>5. QED
    BY <2>1, <2>3, <2>4, Types, SpanFacts, Sizes DEF IInv
<1>5. e = received + 1 /\ e \in Entries /\ entryChan \in Seq(Entries)
  <2>1. entryChan \in Seq(Entries)
    BY DEF IInv, TypeOK
  <2>2. QED
    BY <1>2, <1>4, <2>1 DEF IInv, EntriesInOrder
<1>6. /\ chunk.len = received - Handed /\ ~ended /\ n <= ChunkSize
      /\ chunk.buf = 0 => chunk.len = 0
      /\ chunk.buf # 0 => chunk.lo = Handed + 1
      /\ submitted <= Handed
      /\ chunk.buf = 0 => fresh <= submitted
      /\ fresh <= submitted + 1
  <2>1. /\ chunk.len = received - Handed /\ ~ended /\ chunk.len < ChunkSize
        /\ chunk.buf = 0 => chunk = NoChunk
        /\ chunk.buf # 0 => chunk.lo = Handed + 1
        /\ fresh <= submitted + IF chunk.buf = 0 THEN 0 ELSE 1
    BY <1>2 DEF IInv, ChunkContinues, Leaving
  <2>2. submitted <= Handed
    BY DEF IInv, JobsInOrder
  <2>3. chunk.buf = 0 => chunk.len = 0
    BY <2>1 DEF NoChunk
  <2>4. /\ chunk.buf = 0 => fresh <= submitted
        /\ fresh <= submitted + 1
    BY <1>4, <2>1
  <2>5. n <= ChunkSize
    BY <1>4, <2>1, Sizes
  <2>6. QED
    BY <2>1, <2>2, <2>3, <2>4, <2>5
<1> HIDE DEF e, n
<1>7. /\ b \in Buffers /\ b > 0 /\ b <= fresh'
      /\ \A j \in Owning : job[j].buf # b
      /\ fresh' \in 0..NumEntries /\ fresh <= fresh' /\ fresh' <= submitted + 1
      /\ \A c \in pool' : c \in 1..fresh'
  <2>1. /\ b \in Nat /\ 0 < b /\ b <= fresh + 1
        /\ b <= fresh \/ chunk.buf = 0
        /\ \A j \in Owning : job[j].buf # b
    <3>1. CASE chunk.buf # 0
      BY <1>1, <1>4, <3>1, ArrayFacts
    <3>2. CASE chunk.buf = 0
      BY <1>1, <1>4, <3>2, ArrayFacts
    <3>3. QED
      BY <3>1, <3>2
  <2>3. chunk.buf = 0 => fresh + 1 <= NumEntries /\ fresh <= submitted
    <3>1. chunk.buf = 0 => received = Handed
      BY <1>4, <1>6
    <3>2. QED
      BY <1>4, <1>6, <3>1, Sizes
  <2>4. /\ fresh' \in Nat /\ fresh <= fresh' /\ b <= fresh'
        /\ fresh' <= NumEntries /\ fresh' <= submitted + 1
    BY <1>1, <1>4, <1>6, <2>1, <2>3, ArrayFacts, Sizes
  <2>5. \A c \in pool' : c \in 1..fresh'
    BY <1>1, <1>4, <2>4, ArrayFacts
  <2>6. QED
    BY <2>1, <2>4, <2>5, Sizes DEF Buffers, Entries
<1>8. chunk' = [buf |-> b, lo |-> Handed + 1, len |-> n]
  <2>0. chunk = [buf |-> chunk.buf, lo |-> chunk.lo, len |-> chunk.len]
    BY Types DEF IInv
  <2>1. CASE chunk.buf # 0
    BY <1>1, <1>4, <1>6, <2>0, <2>1 DEF n
  <2>2. CASE chunk.buf = 0
    BY <1>1, <1>4, <1>5, <1>6, <2>2 DEF n
  <2>3. QED
    BY <2>1, <2>2
<1>9. n \in 1..ChunkSize /\ Handed + 1 \in Entries /\ n = received + 1 - Handed
  <2>1. n = received + 1 - Handed /\ n \in 1..ChunkSize
    BY <1>4, <1>6, Sizes DEF n
  <2>2. Handed <= received /\ received + 1 <= NumEntries
    BY <1>4, <1>6
  <2>3. QED
    BY <1>4, <2>1, <2>2, Sizes DEF Entries
<1>10. /\ array' \in [Buffers -> [1..ChunkSize -> 0..NumEntries]]
       /\ array'[b][n] = e
       /\ \A i \in 1..ChunkSize : i # n => array'[b][i] = array[b][i]
       /\ \A c \in Buffers : c # b => array'[c] = array[c]
  <2>1. array \in [Buffers -> [1..ChunkSize -> 0..NumEntries]] /\ e \in 0..NumEntries
    BY <1>5, Sizes DEF IInv, TypeOK, Entries
  <2>2. QED
    BY <1>1, <1>7, <1>9, <2>1
<1>11. TypeOK'
  <2>1. entryChan' \in Seq(Entries)
    BY <1>2, <1>5, SeqFacts
  <2>2. chunk' \in [buf : Buffers \cup {0}, lo : Entries \cup {1}, len : 0..ChunkSize]
    BY <1>7, <1>8, <1>9, Sizes
  <2>3. received' \in 0..NumEntries /\ pool' \subseteq Buffers
    BY <1>1, <1>5, Sizes DEF Entries, IInv, TypeOK
  <2>4. disp' \in {"idle", "select", "acquire", "wait", "drain", "drainwait", "closing", "done"}
    BY <1>1
  <2>5. QED
    BY <1>2, <1>7, <1>10, <2>1, <2>2, <2>3, <2>4 DEF IInv, TypeOK
<1>12. PermitsMatch' /\ RequestsMatch'
  BY <1>1, <1>2, <1>3 DEF IInv, PermitsMatch, RequestsMatch, Granted, Drained
<1>13. ArrayHasOneOwner'
  <2>1. job' = job /\ chunk'.buf = b /\ pool' = pool \ {b}
    BY <1>1, <1>2, <1>8
  <2>2. \A j \in Owning : job[j].buf \in 1..fresh' \ (pool' \cup {b})
    <3>1. \A j \in Owning : job[j].buf \in Nat /\ 0 < job[j].buf /\ job[j].buf <= fresh'
      BY <1>4, <1>7, ArrayFacts, Sizes
    <3>2. \A j \in Owning : job[j].buf \notin pool' \cup {b}
      BY <1>7, <2>1, ArrayFacts
    <3>3. QED
      BY <1>7, <3>1, <3>2, Sizes
  <2>3. b \in 0..fresh' \ pool'
    BY <1>1, <1>7, Sizes DEF Buffers, Entries
  <2>4. \A i, j \in Owning : job[i].buf = job[j].buf => i = j
    BY DEF IInv, ArrayHasOneOwner
  <2>5. QED
    BY <1>3, <1>7, <2>1, <2>2, <2>3, <2>4 DEF ArrayHasOneOwner
<1>14. ChunkIntact'
  <2>1. ASSUME NEW j \in Alive, NEW i \in 1..job[j].len
        PROVE  array'[job[j].buf][i] = job[j].lo + i - 1
    <3>1. j \in Owning
      BY DEF Alive, Owning, HoldingStates
    <3>2. job[j].buf \in Buffers /\ job[j].buf # b
      BY <1>7, <3>1, ArrayFacts, Sizes DEF Buffers, Entries
    <3>3. QED
      BY <1>10, <3>2 DEF IInv, ChunkIntact
  <2>2. ASSUME NEW i \in 1..n
        PROVE  array'[b][i] = Handed + i
    <3>1. CASE i = n
      BY <1>4, <1>5, <1>9, <1>10, <3>1
    <3>2. CASE i # n
      <4>1. i \in 1..chunk.len /\ i \in 1..ChunkSize /\ chunk.buf # 0
        <5>1. i \in 1..chunk.len
          BY <1>4, <3>2 DEF n
        <5>2. QED
          BY <1>4, <1>6, <1>9, <5>1, Sizes
      <4>2. b = chunk.buf /\ chunk.lo = Handed + 1
        BY <1>1, <1>6, <4>1
      <4>3. array[b][i] = chunk.lo + i - 1
        BY <4>1, <4>2 DEF IInv, ChunkIntact
      <4>4. QED
        BY <1>4, <1>10, <3>2, <4>1, <4>2, <4>3
    <3>3. QED
      BY <3>1, <3>2
  <2>3. \A i \in 1..chunk'.len : array'[chunk'.buf][i] = chunk'.lo + i - 1
    BY <1>4, <1>8, <2>2
  <2>4. QED
    BY <1>2, <1>3, <2>1, <2>3 DEF ChunkIntact
<1>15. EntriesInOrder'
  <2>1. received' = received + 1 /\ emitted' = emitted /\ entryChan' = Tail(entryChan)
    BY <1>1, <1>2, <1>5
  <2>2. /\ Len(entryChan') = Len(entryChan) - 1
        /\ \A i \in DOMAIN entryChan' :
             i + 1 \in DOMAIN entryChan /\ entryChan'[i] = entryChan[i + 1]
        /\ \A i \in DOMAIN entryChan' : i \in Nat
    BY <1>2, <1>5
  <2>3. /\ Len(entryChan) = emitted - received
        /\ \A i \in DOMAIN entryChan : entryChan[i] = received + i
    BY DEF IInv, EntriesInOrder
  <2>4. Len(entryChan') = emitted' - received'
    BY <1>4, <1>5, <2>1, <2>2, <2>3
  <2>5. ASSUME NEW i \in DOMAIN entryChan' PROVE entryChan'[i] = received' + i
    BY <1>4, <2>1, <2>2, <2>3
  <2>6. QED
    BY <2>4, <2>5 DEF EntriesInOrder
<1>16. ChunkContinues'
  <2>1. received' = received + 1 /\ disp' \in {"select", "acquire"} /\ submitted' = submitted
    BY <1>1, <1>2, <1>5
  <2>2. disp' = "select" => n # ChunkSize
    BY <1>1, <1>8
  <2>3. chunk'.buf = b /\ chunk'.lo = Handed + 1 /\ chunk'.len = n
    BY <1>8
  <2>4. fresh' \in Nat /\ b # 0
    BY <1>7, Sizes
  <2>5. Handed' + n = received'
    BY <1>3, <1>4, <1>9, <2>1
  <2>6. n = received' - Handed'
    BY <1>3, <1>4, <1>9, <2>1
  <2>7. n > 0 /\ (n # ChunkSize => n < ChunkSize)
    BY <1>9, Sizes
  <2>8. QED
    BY <1>2, <1>3, <1>6, <1>7, <2>1, <2>2, <2>3, <2>4, <2>5, <2>6, <2>7, <1>4
    DEF ChunkContinues, Leaving
<1>17. EndsMatch'
  BY <1>1, <1>2 DEF IInv, EndsMatch, EntriesClosed, Leaving
<1>18. QED
  BY <1>3, <1>11, <1>12, <1>13, <1>14, <1>15, <1>16, <1>17 DEF IInv

(* A chunk becomes the next job. *)
LEMMA SubmitStep == ASSUME IInv, AcquireFree \/ AcquireGranted PROVE IInv'
<1> USE DEF mainVars, scanVars, poolVars, semVars, resVars
<1> DEFINE new == [NoJob EXCEPT !.st = "starting", !.buf = chunk.buf, !.lo = chunk.lo,
                                !.len = chunk.len]
<1>1. /\ UNCHANGED <<ctxDone, mainVars, scanVars, entryChan, ended, received, poolVars, resVars,
                     want>>
      /\ \/ disp = "acquire" /\ cur < TaskSize /\ cur' = cur + 1
         \/ disp = "wait" /\ want = 0 /\ cur' = cur
      /\ submitted' = submitted + 1 /\ job' = [job EXCEPT ![submitted + 1] = new]
      /\ chunk' = NoChunk
      /\ disp' = IF ended THEN "drain" ELSE "select"
  BY DEF AcquireFree, AcquireGranted, Submit
<1>2. /\ chunk.len \in 0..ChunkSize /\ chunk.lo \in Nat /\ chunk.buf \in Buffers \cup {0}
      /\ submitted \in Nat /\ received \in Nat /\ received <= NumEntries
      /\ Handed \in Nat /\ Handed <= NumEntries
      /\ \A j \in Jobs : job[j].lo \in Nat /\ job[j].len \in 0..ChunkSize
      /\ \A j \in Jobs : j \in Nat
      /\ \A j \in 1..submitted : j \in Jobs
      /\ fresh \in Nat /\ cur \in Nat /\ chunk.len \in Nat
  <2>1. cur \in Nat /\ \A j \in Jobs : j \in Nat
    BY Sizes DEF IInv, TypeOK, Jobs, Entries
  <2>2. QED
    BY <2>1, Types, SpanFacts, Sizes DEF IInv
<1>3. /\ chunk.buf # 0 /\ chunk.lo = Handed + 1 /\ chunk.len > 0
      /\ chunk.len = received - Handed /\ fresh <= submitted + 1
  BY <1>1, <1>2 DEF IInv, ChunkContinues, Leaving
<1>n. PICK n \in Jobs : n = submitted + 1
  BY <1>2, <1>3, Sizes DEF IInv, JobsInOrder, Jobs, Entries
<1>4. /\ n \in Nat /\ n > submitted /\ chunk.lo \in Entries /\ n <= NumEntries /\ fresh <= n
      /\ 1..n = (1..submitted) \cup {n} /\ n \notin 1..submitted
      /\ submitted' = n /\ job' = [job EXCEPT ![n] = new]
  BY <1>1, <1>2, <1>3, <1>n, Sizes DEF Jobs, Entries
<1>5. job[n] = NoJob /\ job[n].st = "none"
  BY <1>2, <1>4 DEF IInv, JobsInOrder, NoJob
<1>6. /\ new.st = "starting" /\ new.buf = chunk.buf /\ new.lo = chunk.lo
      /\ new.len = chunk.len /\ new.try = 0 /\ new.out = "none" /\ new.nil = FALSE
  BY DEF NoJob
<1> HIDE DEF new
<1>7. job'[n] = new /\ \A j \in Jobs : j # n => job'[j] = job[j]
  BY <1>4 DEF IInv, TypeOK
<1>8. /\ Alive' = Alive \cup {n} /\ n \notin Alive
      /\ Owning' = Owning \cup {n} /\ n \notin Owning
      /\ Sent' = Sent /\ Pending' = Pending /\ Collected' = Collected
  BY <1>1, <1>4, <1>5, <1>6, <1>7
  DEF Alive, Owning, Sent, Pending, Collected, HoldingStates, AliveStates
<1>9. Cardinality(Alive') = Cardinality(Alive) + 1 /\ Cardinality(Alive) \in Nat
  BY <1>8, AliveFinite, FS_AddElement
<1>10. /\ Handed' = Handed + chunk.len
       /\ Span(n)' = Handed + 1..Handed + chunk.len
       /\ \A j \in 1..submitted : Span(j)' = Span(j) /\ job'[j] = job[j]
  <2>1. Handed' = job'[n].lo + job'[n].len - 1
    BY <1>1, <1>2, <1>4 DEF Handed
  <2>2. Handed + 1 + chunk.len - 1 = Handed + chunk.len
    BY <1>2
  <2>3. \A j \in 1..submitted : j \in Jobs /\ j # n
    BY <1>2, <1>4
  <2>4. QED
    BY <1>3, <1>6, <1>7, <2>1, <2>2, <2>3 DEF Span
<1>11. TypeOK'
  <2>1. cur' \in 0..TaskSize
    BY <1>1, Sizes DEF IInv, TypeOK
  <2>2. chunk' \in [buf : Buffers \cup {0}, lo : Entries \cup {1}, len : 0..ChunkSize]
    BY <1>1, Sizes DEF NoChunk
  <2>3. new \in [st : AliveStates \cup {"none", "gone"},
                 buf : Buffers \cup {0}, lo : Entries, len : 0..ChunkSize,
                 try : 0..Attempts + 1, nil : BOOLEAN, out : {"none", "ok", "cut", "fail"}]
    <3>1. 1 \in Entries /\ 0 \in 0..Attempts + 1 /\ 0 \in 0..ChunkSize
      BY <1>2, <1>4, Sizes DEF Entries
    <3>2. NoJob \in [st : AliveStates \cup {"none", "gone"},
                     buf : Buffers \cup {0}, lo : Entries, len : 0..ChunkSize,
                     try : 0..Attempts + 1, nil : BOOLEAN, out : {"none", "ok", "cut", "fail"}]
      BY <3>1 DEF NoJob
    <3>3. QED
      BY <1>2, <1>4, <3>2 DEF AliveStates, new
  <2>4. job' \in [Jobs -> [st : AliveStates \cup {"none", "gone"},
                       buf : Buffers \cup {0}, lo : Entries, len : 0..ChunkSize,
                       try : 0..Attempts + 1, nil : BOOLEAN,
                       out : {"none", "ok", "cut", "fail"}]]
    BY <1>4, <2>3 DEF IInv, TypeOK
  <2>5. submitted' \in 0..NumEntries
    BY <1>1, <1>4, Sizes
  <2>6. /\ UNCHANGED <<ctxDone, main, total, failures, scanErr, scanner, emitted, scanBad, scanErrChan,
                       entryChan, ended, received, pool, fresh, array, want, resultChan,
                       resultClosed>>
        /\ disp' \in {"drain", "select"}
    BY <1>1
  <2>7. QED
    BY <2>1, <2>2, <2>4, <2>5, <2>6, SMTT(20) DEF IInv, TypeOK
<1>12. PermitsMatch' /\ RequestsMatch'
  <2>1. disp' \in {"select", "drain"}
    BY <1>1
  <2>2. want = 0
    BY <1>1 DEF IInv, RequestsMatch
  <2>3. cur' = Cardinality(Alive)'
    BY <1>1, <1>2, <1>9, <2>2 DEF IInv, PermitsMatch, Granted, Drained
  <2>4. QED
    BY <1>1, <1>9, <2>1, <2>2, <2>3 DEF IInv, PermitsMatch, RequestsMatch, Granted, Drained
<1>13. ArrayHasOneOwner'
  <2>1. UNCHANGED <<pool, fresh>> /\ chunk'.buf = 0 /\ pool \subseteq 1..fresh
    BY <1>1 DEF NoChunk, IInv, ArrayHasOneOwner
  <2>2. 0 \in 0..fresh \ pool
    BY ArrayFacts
  <2>3. /\ \A j \in Owning : job'[j] = job[j] /\ job[j].buf \in 1..fresh \ (pool \cup {0})
        /\ \A j \in Owning : job[j].buf # chunk.buf
    BY <1>7, <1>8, ArrayFacts DEF Owning
  <2>4. job'[n].buf = chunk.buf /\ chunk.buf \in 1..fresh \ (pool \cup {0})
    BY <1>3, <1>6, <1>7, ArrayFacts
  <2>5. \A i, j \in Owning : job[i].buf = job[j].buf => i = j
    BY DEF IInv, ArrayHasOneOwner
  <2>6. QED
    BY <1>8, <2>1, <2>2, <2>3, <2>4, <2>5 DEF ArrayHasOneOwner
<1>14. ChunkIntact'
  <2>1. chunk'.len = 0 /\ array' = array
    BY <1>1 DEF NoChunk
  <2>2. \A j \in Alive : job'[j] = job[j]
    BY <1>7, <1>8 DEF Alive
  <2>3. \A i \in 1..job'[n].len : array[job'[n].buf][i] = job'[n].lo + i - 1
    BY <1>6, <1>7 DEF IInv, ChunkIntact
  <2>4. QED
    BY <1>8, <2>1, <2>2, <2>3 DEF IInv, ChunkIntact
<1>15. EntriesInOrder'
  BY <1>1, KeepEntries DEF IInv
<1>16. ChunkContinues'
  <2>1. disp' \in {"select", "drain"} /\ (disp' = "select" <=> ~ended)
    BY <1>1
  <2>2. /\ received' = received /\ Handed' = received /\ fresh' <= submitted'
        /\ chunk' = NoChunk /\ chunk'.len = 0 /\ chunk'.buf = 0
        /\ 0 = received' - Handed' /\ Handed' + 0 <= received'
    BY <1>1, <1>2, <1>3, <1>10 DEF NoChunk
  <2>3. submitted' + 0 = submitted'
    BY <1>1, <1>4
  <2>4. QED
    BY <1>1, <2>1, <2>2, <2>3, Sizes DEF ChunkContinues, Leaving
<1>17. JobsInOrder'
  <2>1. \A j \in Jobs : j > submitted' <=> job'[j].st = "none"
    BY <1>1, <1>2, <1>4, <1>6, <1>7, <1>n DEF IInv, JobsInOrder
  <2>2. \A j \in Jobs : j > submitted' => job'[j] = NoJob
    BY <1>1, <1>2, <1>4, <1>7, <1>n DEF IInv, JobsInOrder
  <2>3. ASSUME NEW j \in 1..submitted'
        PROVE  job'[j].len > 0 /\ j <= Handed' /\ Span(j)' \subseteq 1..Handed'
    <3>1. CASE j \in 1..submitted
      <4>1. job[j].len > 0 /\ j <= Handed /\ Span(j) \subseteq 1..Handed
        BY <3>1 DEF IInv, JobsInOrder
      <4>2. QED
        BY <1>2, <1>10, <3>1, <4>1
    <3>2. CASE j = n
      <4>1. submitted <= Handed
        BY DEF IInv, JobsInOrder
      <4>2. n <= Handed'
        BY <1>2, <1>3, <1>10, <1>n, <4>1
      <4>3. Span(n)' \subseteq 1..Handed' /\ job'[n].len > 0
        BY <1>2, <1>3, <1>6, <1>7, <1>10
      <4>4. QED
        BY <3>2, <4>2, <4>3
    <3>3. QED
      BY <1>1, <1>4, <3>1, <3>2
  <2>4. ASSUME NEW i \in 1..submitted', NEW j \in 1..submitted', i < j
        PROVE  job'[i].lo + job'[i].len <= job'[j].lo
    <3>1. i \in 1..submitted
      BY <1>1, <1>2, <1>4, <1>n, <2>4
    <3>2. CASE j \in 1..submitted
      BY <1>10, <2>4, <3>1, <3>2 DEF IInv, JobsInOrder
    <3>3. CASE j = n
      <4>1. /\ Span(i) \subseteq 1..Handed /\ job[i].len > 0
            /\ job[i].lo \in Nat /\ job[i].len \in Nat /\ job'[i] = job[i]
        <5>1. i \in Jobs /\ job[i].lo \in Nat /\ job[i].len \in Nat
          BY <1>2, <3>1, Sizes
        <5>2. Span(i) \subseteq 1..Handed /\ job[i].len > 0
          BY <3>1 DEF IInv, JobsInOrder
        <5>3. QED
          BY <1>10, <3>1, <5>1, <5>2
      <4>2. job[i].lo + job[i].len - 1 \in Span(i)
        BY <4>1 DEF Span
      <4>3. job[i].lo + job[i].len <= Handed + 1
        BY <1>2, <4>1, <4>2
      <4>4. QED
        BY <1>3, <1>6, <1>7, <3>3, <4>1, <4>3
    <3>4. QED
      BY <1>1, <1>4, <3>2, <3>3
  <2>5. submitted' <= Handed'
    BY <1>1, <1>2, <1>3, <1>10, <1>n DEF IInv, JobsInOrder
  <2>6. ASSUME NEW e \in 1..Handed' PROVE \E j \in 1..submitted' : e \in Span(j)'
    <3>1. CASE e \in 1..Handed
      <4>1. PICK j \in 1..submitted : e \in Span(j)
        BY <3>1 DEF IInv, JobsInOrder
      <4>2. QED
        BY <1>1, <1>4, <1>10, <4>1
    <3>2. CASE e \notin 1..Handed
      <4>1. e \in Span(n)' /\ n \in 1..submitted'
        BY <1>1, <1>2, <1>4, <1>10, <3>2
      <4>2. QED
        BY <4>1, Zenon
    <3>3. QED
      BY <3>1, <3>2
  <2>7. QED
    BY <2>1, <2>2, <2>3, <2>4, <2>5, <2>6 DEF JobsInOrder
<1>18. OutcomesMatch'
  BY <1>1, <1>6, <1>7 DEF IInv, OutcomesMatch
<1>19. ResultsKept'
  <2>1. /\ \A j \in Collected : Span(j)' = Span(j) /\ job'[j] = job[j] /\ j \in Jobs
        /\ UNCHANGED <<main, total, failures, resultChan, resultClosed>>
    BY <1>1, <1>10, SentSubmitted DEF IInv
  <2>2. (UNION {Span(j) : j \in Collected})' = UNION {Span(j) : j \in Collected}
    BY <1>8, <2>1
  <2>3. {j \in Collected' : job'[j].out = "fail"} = {j \in Collected : job[j].out = "fail"}
    BY <1>8, <2>1
  <2>4. QED
    BY <1>8, <2>1, <2>2, <2>3 DEF IInv, ResultsKept
<1>20. EndsMatch'
  BY <1>1 DEF IInv, EndsMatch, EntriesClosed, Leaving
<1>21. QED
  BY <1>11, <1>12, <1>13, <1>14, <1>15, <1>16, <1>17, <1>18, <1>19, <1>20 DEF IInv

LEMMA DispatcherStep == ASSUME IInv, Dispatcher PROVE IInv'
BY PutBackStep, SelectEntryStep, MoveStep, SubmitStep DEF Dispatcher, Select, Acquire

-----------------------------------------------------------------------------
(* The workers. *)

JobRecord ==
  [st : AliveStates \cup {"none", "gone"},
   buf : Buffers \cup {0}, lo : Entries, len : 0..ChunkSize,
   try : 0..Attempts + 1, nil : BOOLEAN,
   out : {"none", "ok", "cut", "fail"}]

(* What a worker's step keeps: it never changes what its job copies.       *)
LEMMA WorkerKeeps ==
  ASSUME IInv, NEW j \in Jobs, job[j].st \in AliveStates,
         UNCHANGED <<ctxDone, mainVars, scanVars, entryChan, dispVars, submitted, fresh, array>>,
         \A i \in Jobs : i # j => job'[i] = job[i],
         job'[j].lo = job[j].lo, job'[j].len = job[j].len, job'[j].st # "none"
  PROVE  /\ EntriesInOrder' /\ ChunkContinues' /\ JobsInOrder' /\ EndsMatch'
         /\ \A i \in 1..submitted : Span(i)' = Span(i)
         /\ j \in 1..submitted
<1> USE DEF mainVars, scanVars, dispVars
<1>1. /\ submitted \in Nat /\ \A i \in 1..submitted : i \in Jobs
      /\ \A i \in Jobs : i \in Nat /\ i > 0
  BY Types DEF IInv, Jobs, Entries
<1>2. /\ ~(j > submitted) /\ j \in 1..submitted
      /\ \A i \in Jobs : i > submitted => job'[i] = job[i]
  <2>1. job[j].st # "none"
    BY DEF AliveStates
  <2>2. ~(j > submitted)
    BY <2>1 DEF IInv, JobsInOrder
  <2>3. QED
    BY <1>1, <2>2
<1>3. /\ \A i \in 1..submitted :
           Span(i)' = Span(i) /\ job'[i].lo = job[i].lo /\ job'[i].len = job[i].len
      /\ Handed' = Handed
  <2>1. \A i \in 1..submitted : job'[i].lo = job[i].lo /\ job'[i].len = job[i].len
    BY <1>1
  <2>2. submitted # 0 => submitted \in 1..submitted
    BY <1>1
  <2>3. QED
    BY <2>1, <2>2 DEF Span, Handed
<1>4. JobsInOrder'
  <2>1. \A i \in Jobs : i > submitted' <=> job'[i].st = "none"
    <3>1. \A i \in Jobs : i > submitted <=> job[i].st = "none"
      BY DEF IInv, JobsInOrder
    <3>2. QED
      BY <1>2, <3>1
  <2>2. \A i \in Jobs : i > submitted' => job'[i] = NoJob
    BY <1>2 DEF IInv, JobsInOrder
  <2>3. QED
    BY <1>3, <2>1, <2>2 DEF IInv, JobsInOrder
<1>5. EntriesInOrder' /\ ChunkContinues'
  BY <1>3, KeepEntries, KeepChunk DEF IInv
<1>6. EndsMatch'
  BY DEF IInv, EndsMatch, EntriesClosed
<1>7. QED
  BY <1>2, <1>3, <1>4, <1>5, <1>6

LEMMA ResultsStay ==
  ASSUME IInv, NEW j \in Jobs, job[j].st \in AliveStates,
         UNCHANGED <<mainVars, resultClosed, resultChan>>,
         \A i \in Jobs : i # j => job'[i] = job[i],
         \A i \in 1..submitted : Span(i)' = Span(i),
         Sent' = Sent,
         j \in Sent => job'[j].out = job[j].out
  PROVE  ResultsKept'
<1> USE DEF mainVars
<1>1. Collected' = Collected /\ Pending' = Pending
  BY DEF Collected, Pending
<1>2. \A i \in Collected : Span(i)' = Span(i) /\ job'[i].out = job[i].out
  BY SentSubmitted DEF IInv, Collected, Sent
<1>3. (UNION {Span(i) : i \in Collected})' = UNION {Span(i) : i \in Collected}
  BY <1>1, <1>2
<1>4. {i \in Collected' : job'[i].out = "fail"} = {i \in Collected : job[i].out = "fail"}
  BY <1>1, <1>2
<1>5. QED
  BY <1>1, <1>3, <1>4 DEF IInv, ResultsKept

(* The attempts of a chunk: only the state and the outcome of a job move.  *)
AttemptMoved(j, r) ==
  /\ job' = [job EXCEPT ![j] = r]
  /\ r.lo = job[j].lo /\ r.len = job[j].len /\ r.buf = job[j].buf
  /\ \/ r.st = "report" /\ r.out \in {"ok", "cut", "fail"} /\ (r.out = "cut" => ctxDone)
     \/ r.st = "copying" /\ r.out = job[j].out
     \/ r.st = "waiting" /\ r.out = job[j].out /\ r.try < Attempts

LEMMA AttemptMoves ==
  ASSUME IInv, NEW j \in Jobs, StartCopy(j) \/ AttemptEnds(j) \/ DelayEnds(j)
  PROVE  \E r \in JobRecord : AttemptMoved(j, r)
<1> USE DEF JobStep
<1>0. job[j] \in JobRecord
  BY DEF IInv, TypeOK, JobRecord
<1>1. /\ job[j].try \in 0..Attempts + 1
      /\ job[j].st = "starting" => job[j].try = 0
      /\ job[j].st = "waiting" => job[j].try < Attempts
  BY <1>0 DEF IInv, OutcomesMatch, JobRecord
<1>2. ASSUME NEW out \in {"ok", "cut", "fail"}, NEW nil \in BOOLEAN, End(j, out, nil),
             out = "cut" => ctxDone
      PROVE  \E r \in JobRecord : AttemptMoved(j, r)
  <2> DEFINE r == [job[j] EXCEPT !.st = "report", !.try = 0, !.out = out, !.nil = nil]
  <2>0. 0 \in 0..Attempts + 1
    BY Sizes
  <2>1. r \in JobRecord
    BY <1>0, <1>2, <2>0 DEF JobRecord, AliveStates
  <2>2. job' = [job EXCEPT ![j] = r]
    BY <1>2 DEF End
  <2>3. /\ r.lo = job[j].lo /\ r.len = job[j].len /\ r.buf = job[j].buf
        /\ r.st = "report" /\ r.out = out
    BY <1>0 DEF JobRecord
  <2> HIDE DEF r
  <2>4. QED
    BY <1>2, <2>1, <2>2, <2>3 DEF AttemptMoved
<1>3. ASSUME Attempt(j), job[j].st \in {"starting", "waiting"}
      PROVE  \E r \in JobRecord : AttemptMoved(j, r)
  <2> DEFINE r == [job[j] EXCEPT !.st = "copying", !.try = @ + 1]
  <2>0. job[j].try + 1 \in 0..Attempts + 1
    BY <1>1, <1>3, Sizes
  <2>1. r \in JobRecord
    BY <1>0, <2>0 DEF JobRecord, AliveStates
  <2>2. job' = [job EXCEPT ![j] = r]
    BY <1>3 DEF Attempt
  <2>3. /\ r.lo = job[j].lo /\ r.len = job[j].len /\ r.buf = job[j].buf
        /\ r.st = "copying" /\ r.out = job[j].out
    BY <1>0 DEF JobRecord
  <2> HIDE DEF r
  <2>4. QED
    BY <2>1, <2>2, <2>3 DEF AttemptMoved
<1>4. ASSUME Move(j, "waiting"), job[j].try < Attempts
      PROVE  \E r \in JobRecord : AttemptMoved(j, r)
  <2> DEFINE r == [job[j] EXCEPT !.st = "waiting"]
  <2>1. r \in JobRecord
    BY <1>0 DEF JobRecord, AliveStates
  <2>2. job' = [job EXCEPT ![j] = r]
    BY <1>4 DEF Move
  <2>3. /\ r.lo = job[j].lo /\ r.len = job[j].len /\ r.buf = job[j].buf
        /\ r.st = "waiting" /\ r.out = job[j].out /\ r.try = job[j].try
    BY <1>0 DEF JobRecord
  <2> HIDE DEF r
  <2>4. QED
    BY <1>4, <2>1, <2>2, <2>3 DEF AttemptMoved
<1>5. CASE StartCopy(j)
  BY <1>2, <1>3, <1>5 DEF StartCopy
<1>6. CASE AttemptEnds(j)
  BY <1>2, <1>4, <1>6 DEF AttemptEnds
<1>7. CASE DelayEnds(j)
  BY <1>2, <1>3, <1>7 DEF DelayEnds
<1>8. QED
  BY <1>5, <1>6, <1>7

LEMMA AttemptStep ==
  ASSUME IInv, NEW j \in Jobs, StartCopy(j) \/ AttemptEnds(j) \/ DelayEnds(j)
  PROVE  IInv'
<1> USE DEF JobStep, mainVars, scanVars, dispVars, poolVars, semVars, resVars
<1>1. /\ UNCHANGED <<ctxDone, mainVars, scanVars, entryChan, dispVars, submitted, poolVars,
                     semVars, resVars>>
      /\ job[j].st \in {"starting", "copying", "waiting"}
  BY DEF StartCopy, AttemptEnds, DelayEnds
<1>2. job \in [Jobs -> JobRecord] /\ job[j] \in JobRecord
  BY DEF IInv, TypeOK, JobRecord
<1>3. PICK r \in JobRecord : AttemptMoved(j, r)
  BY AttemptMoves
<1>4. job'[j] = r /\ \A i \in Jobs : i # j => job'[i] = job[i]
  BY <1>2, <1>3 DEF AttemptMoved
<1>5. r.st \in {"report", "copying", "waiting"}
  BY <1>3 DEF AttemptMoved
<1>6. Alive' = Alive /\ Owning' = Owning /\ Sent' = Sent /\ j \notin Sent
  BY <1>1, <1>4, <1>5 DEF Alive, Owning, Sent, HoldingStates, AliveStates
<1>7. /\ EntriesInOrder' /\ ChunkContinues' /\ JobsInOrder' /\ EndsMatch'
      /\ \A i \in 1..submitted : Span(i)' = Span(i)
  <2>1. job[j].st \in AliveStates /\ r.st # "none"
    BY <1>1, <1>5 DEF AliveStates
  <2>2. QED
    BY <1>1, <1>3, <1>4, <2>1, WorkerKeeps DEF AttemptMoved
<1>8. ResultsKept'
  <2>1. job[j].st \in AliveStates
    BY <1>1 DEF AliveStates
  <2>2. QED
    BY <1>1, <1>4, <1>6, <1>7, <2>1, ResultsStay
<1>9. TypeOK'
  <2>1. job' \in [Jobs -> JobRecord]
    BY <1>2, <1>3 DEF AttemptMoved
  <2>2. QED
    BY <1>1, <2>1 DEF IInv, TypeOK, JobRecord
<1>10. PermitsMatch' /\ RequestsMatch'
  BY <1>1, <1>6, KeepPermits DEF IInv
<1>11. ArrayHasOneOwner' /\ ChunkIntact'
  <2>1. /\ \A i \in Jobs :
             /\ job'[i].buf = job[i].buf /\ job'[i].lo = job[i].lo
             /\ job'[i].len = job[i].len
        /\ Owning \subseteq Jobs /\ Alive \subseteq Jobs
    BY <1>3, <1>4 DEF Owning, Alive, AttemptMoved
  <2>2. ArrayHasOneOwner'
    BY <1>1, <1>6, <2>1 DEF IInv, ArrayHasOneOwner
  <2>3. ChunkIntact'
    BY <1>1, <1>6, <2>1 DEF IInv, ChunkIntact
  <2>4. QED
    BY <2>2, <2>3
<1>12. OutcomesMatch'
  BY <1>1, <1>3, <1>4 DEF IInv, OutcomesMatch, AttemptMoved
<1>13. QED
  BY <1>7, <1>8, <1>9, <1>10, <1>11, <1>12 DEF IInv

(* Once the drain has succeeded no worker holds a permit: none can send.   *)
LEMMA NoneAlive ==
  ASSUME IInv, NEW j \in Alive
  PROVE  /\ disp \notin {"closing", "done"} /\ ~(disp = "drainwait" /\ want = 0)
         /\ ~resultClosed /\ main \notin {"scanresult", "done"}
<1>1. Cardinality(Alive) \in Nat /\ Cardinality(Alive) # 0
  BY AliveFinite, FS_EmptySet
<1>2. cur \in Nat /\ cur <= TaskSize
  BY Sizes DEF IInv, TypeOK
<1>3. disp \notin {"closing", "done"} /\ ~(disp = "drainwait" /\ want = 0)
  BY <1>1, <1>2, Sizes DEF IInv, PermitsMatch, Granted, Drained
<1>4. QED
  BY <1>3 DEF IInv, RequestsMatch, ResultsKept

LEMMA ReportStep == ASSUME IInv, NEW j \in Jobs, Report(j) PROVE IInv'
<1> USE DEF JobStep, mainVars, scanVars, dispVars, poolVars, semVars, resVars
<1> DEFINE r == [job[j] EXCEPT !.st = "release"]
<1>1. /\ UNCHANGED <<ctxDone, mainVars, scanVars, entryChan, dispVars, submitted, poolVars,
                     semVars, resultClosed>>
      /\ job[j].st = "report" /\ resultChan' = Append(resultChan, j)
      /\ job' = [job EXCEPT ![j] = r]
  BY DEF Report, Move
<1>2. job \in [Jobs -> JobRecord] /\ job[j] \in JobRecord /\ resultChan \in Seq(Jobs)
  BY DEF IInv, TypeOK, JobRecord
<1>3. /\ r \in JobRecord /\ r.st = "release" /\ r.lo = job[j].lo /\ r.len = job[j].len
      /\ r.buf = job[j].buf /\ r.out = job[j].out
  BY <1>2 DEF JobRecord, AliveStates
<1> HIDE DEF r
<1>4. job'[j] = r /\ \A i \in Jobs : i # j => job'[i] = job[i]
  BY <1>1, <1>2
<1>5. /\ j \in Alive /\ Alive' = Alive /\ Owning' = Owning
      /\ Sent' = Sent \cup {j} /\ j \notin Sent
  BY <1>1, <1>3, <1>4 DEF Alive, Owning, Sent, HoldingStates, AliveStates
<1>6. /\ EntriesInOrder' /\ ChunkContinues' /\ JobsInOrder' /\ EndsMatch'
      /\ \A i \in 1..submitted : Span(i)' = Span(i)
  <2>1. job[j].st \in AliveStates
    BY <1>1 DEF AliveStates
  <2>2. QED
    BY <1>1, <1>3, <1>4, <2>1, WorkerKeeps
<1>7. ResultsKept'
  <2>1. Pending' = Pending \cup {j} /\ j \notin Pending
    <3>1. /\ \A i \in DOMAIN resultChan : i \in DOMAIN resultChan' /\ resultChan'[i] = resultChan[i]
          /\ \A i \in DOMAIN resultChan' : i \in DOMAIN resultChan \/ i = Len(resultChan) + 1
          /\ Len(resultChan) + 1 \in DOMAIN resultChan'
          /\ resultChan'[Len(resultChan) + 1] = j
      BY <1>1, <1>2
    <3>2. QED
      BY <1>5, <3>1 DEF Pending, IInv, ResultsKept
  <2>2. \A i, k \in DOMAIN resultChan' : resultChan'[i] = resultChan'[k] => i = k
    <3>1. \A i \in DOMAIN resultChan' :
            IF i \in DOMAIN resultChan
            THEN resultChan'[i] = resultChan[i] /\ resultChan'[i] \in Pending
            ELSE resultChan'[i] = j /\ i = Len(resultChan) + 1
      BY <1>1, <1>2 DEF Pending
    <3>2. QED
      BY <2>1, <3>1 DEF IInv, ResultsKept
  <2>3. Collected' = Collected
    BY <1>5, <2>1 DEF Collected
  <2>4. \A i \in Collected : Span(i)' = Span(i) /\ job'[i].out = job[i].out
    BY <1>4, <1>5, <1>6, SentSubmitted DEF IInv, Collected, Sent
  <2>5. (UNION {Span(i) : i \in Collected})' = UNION {Span(i) : i \in Collected}
    BY <2>3, <2>4
  <2>6. {i \in Collected' : job'[i].out = "fail"} = {i \in Collected : job[i].out = "fail"}
    BY <2>3, <2>4
  <2>7. main \notin {"scanresult", "done"}
    BY <1>5, NoneAlive
  <2>8. Pending' \subseteq Sent'
    BY <1>5, <2>1 DEF IInv, ResultsKept
  <2>9. QED
    BY <1>1, <2>2, <2>3, <2>5, <2>6, <2>7, <2>8 DEF IInv, ResultsKept
<1>8. TypeOK'
  <2>1. job' \in [Jobs -> JobRecord]
    BY <1>1, <1>2, <1>3
  <2>2. resultChan' \in Seq(Jobs)
    BY <1>1, <1>2, SeqFacts
  <2>3. QED
    BY <1>1, <2>1, <2>2 DEF IInv, TypeOK, JobRecord
<1>9. PermitsMatch' /\ RequestsMatch'
  BY <1>1, <1>5, KeepPermits DEF IInv
<1>10. ArrayHasOneOwner' /\ ChunkIntact'
  <2>1. /\ \A i \in Jobs :
             /\ job'[i].buf = job[i].buf /\ job'[i].lo = job[i].lo
             /\ job'[i].len = job[i].len
        /\ Owning \subseteq Jobs /\ Alive \subseteq Jobs
    BY <1>3, <1>4 DEF Owning, Alive
  <2>2. ArrayHasOneOwner'
    BY <1>1, <1>5, <2>1 DEF IInv, ArrayHasOneOwner
  <2>3. ChunkIntact'
    BY <1>1, <1>5, <2>1 DEF IInv, ChunkIntact
  <2>4. QED
    BY <2>2, <2>3
<1>11. OutcomesMatch'
  BY <1>1, <1>3, <1>4 DEF IInv, OutcomesMatch
<1>12. QED
  BY <1>6, <1>7, <1>8, <1>9, <1>10, <1>11 DEF IInv

LEMMA ReleaseStep == ASSUME IInv, NEW j \in Jobs, Release(j) PROVE IInv'
<1> USE DEF JobStep, mainVars, scanVars, dispVars, poolVars, semVars, resVars
<1> DEFINE r == [job[j] EXCEPT !.st = "put"]
<1>1. /\ UNCHANGED <<ctxDone, mainVars, scanVars, entryChan, dispVars, submitted, poolVars,
                     resVars>>
      /\ job[j].st = "release" /\ job' = [job EXCEPT ![j] = r]
      /\ \/ want > 0 /\ cur - 1 + want <= TaskSize /\ cur' = cur - 1 + want /\ want' = 0
         \/ ~(want > 0 /\ cur - 1 + want <= TaskSize) /\ cur' = cur - 1 /\ want' = want
  BY DEF Release, Move
<1>2. job \in [Jobs -> JobRecord] /\ job[j] \in JobRecord
  BY DEF IInv, TypeOK, JobRecord
<1>3. /\ r \in JobRecord /\ r.st = "put" /\ r.lo = job[j].lo /\ r.len = job[j].len
      /\ r.buf = job[j].buf /\ r.out = job[j].out
  BY <1>2 DEF JobRecord, AliveStates
<1> HIDE DEF r
<1>4. job'[j] = r /\ \A i \in Jobs : i # j => job'[i] = job[i]
  BY <1>1, <1>2
<1>5. /\ j \in Alive /\ Alive' = Alive \ {j} /\ Owning' = Owning
      /\ Sent' = Sent
  BY <1>1, <1>3, <1>4 DEF Alive, Owning, Sent, HoldingStates, AliveStates
<1>6. job[j].st \in AliveStates
  BY <1>1 DEF AliveStates
<1>7. /\ EntriesInOrder' /\ ChunkContinues' /\ JobsInOrder' /\ EndsMatch'
      /\ \A i \in 1..submitted : Span(i)' = Span(i)
  BY <1>1, <1>3, <1>4, <1>6, WorkerKeeps
<1>8. ResultsKept'
  BY <1>1, <1>3, <1>4, <1>5, <1>6, <1>7, ResultsStay
<1>9. /\ Cardinality(Alive') = Cardinality(Alive) - 1
      /\ Cardinality(Alive) \in Nat /\ Cardinality(Alive') \in Nat
  <2>1. IsFiniteSet(Alive')
    BY <1>5, AliveFinite, FS_Subset
  <2>2. QED
    BY <1>5, <2>1, AliveFinite, FS_RemoveElement, FS_CardinalityType
<1>10. /\ cur \in Nat /\ want \in Nat /\ cur <= TaskSize /\ want <= TaskSize
       /\ want # 0 => disp \in {"wait", "drainwait"}
       /\ disp = "wait" => want \in {0, 1}
       /\ disp = "drainwait" => want = TaskSize
       /\ disp \notin {"closing", "done"}
       /\ cur = Cardinality(Alive) + Granted
  <2>1. disp = "drainwait" => want = TaskSize
    BY <1>5, NoneAlive DEF IInv, RequestsMatch
  <2>2. cur \in Nat /\ want \in Nat /\ cur <= TaskSize /\ want <= TaskSize
    BY Sizes DEF IInv, TypeOK
  <2>3. disp \notin {"closing", "done"} /\ ~(disp = "drainwait" /\ want = 0)
    BY <1>5, NoneAlive
  <2>4. Granted \in Nat /\ Drained = 0
    BY <2>3 DEF Granted, Drained
  <2>5. QED
    BY <1>9, <2>1, <2>2, <2>3, <2>4 DEF IInv, RequestsMatch, PermitsMatch
<1>11. cur' \in 0..TaskSize /\ want' \in 0..TaskSize
  BY <1>1, <1>9, <1>10, Sizes DEF Granted
<1>12. PermitsMatch'
  BY <1>1, <1>9, <1>10, Sizes DEF PermitsMatch, Granted, Drained
<1>13. RequestsMatch'
  BY <1>1, <1>10 DEF IInv, RequestsMatch
<1>14. TypeOK'
  <2>1. job' \in [Jobs -> JobRecord]
    BY <1>1, <1>2, <1>3
  <2>2. QED
    BY <1>1, <1>11, <2>1 DEF IInv, TypeOK, JobRecord
<1>15. ArrayHasOneOwner' /\ ChunkIntact'
  <2>1. /\ \A i \in Jobs :
             /\ job'[i].buf = job[i].buf /\ job'[i].lo = job[i].lo
             /\ job'[i].len = job[i].len
        /\ Owning \subseteq Jobs /\ Alive \subseteq Jobs /\ Alive' \subseteq Alive
    BY <1>3, <1>4, <1>5 DEF Owning, Alive
  <2>2. ArrayHasOneOwner'
    BY <1>1, <1>5, <2>1 DEF IInv, ArrayHasOneOwner
  <2>3. ChunkIntact'
    BY <1>1, <2>1 DEF IInv, ChunkIntact
  <2>4. QED
    BY <2>2, <2>3
<1>16. OutcomesMatch'
  BY <1>1, <1>3, <1>4 DEF IInv, OutcomesMatch
<1>17. QED
  BY <1>7, <1>8, <1>12, <1>13, <1>14, <1>15, <1>16 DEF IInv

LEMMA PutStep == ASSUME IInv, NEW j \in Jobs, PutChunk(j) PROVE IInv'
<1> USE DEF JobStep, mainVars, scanVars, dispVars, semVars, resVars
<1> DEFINE r == [job[j] EXCEPT !.st = "gone", !.buf = 0]
<1>1. /\ UNCHANGED <<ctxDone, mainVars, scanVars, entryChan, dispVars, submitted, fresh, array,
                     semVars, resVars>>
      /\ job[j].st = "put" /\ job' = [job EXCEPT ![j] = r]
      /\ pool' = pool \cup {job[j].buf}
  BY DEF PutChunk
<1>2. job \in [Jobs -> JobRecord] /\ job[j] \in JobRecord
  BY DEF IInv, TypeOK, JobRecord
<1>3. /\ r \in JobRecord /\ r.st = "gone" /\ r.lo = job[j].lo /\ r.len = job[j].len
      /\ r.out = job[j].out
  BY <1>2 DEF JobRecord, AliveStates
<1> HIDE DEF r
<1>4. job'[j] = r /\ \A i \in Jobs : i # j => job'[i] = job[i]
  BY <1>1, <1>2
<1>5. /\ j \in Owning /\ j \notin Alive /\ Alive' = Alive /\ Owning' = Owning \ {j}
      /\ Sent' = Sent
  BY <1>1, <1>3, <1>4 DEF Alive, Owning, Sent, HoldingStates, AliveStates
<1>6. job[j].st \in AliveStates
  BY <1>1 DEF AliveStates
<1>7. /\ EntriesInOrder' /\ ChunkContinues' /\ JobsInOrder' /\ EndsMatch'
      /\ \A i \in 1..submitted : Span(i)' = Span(i)
  BY <1>1, <1>3, <1>4, <1>6, WorkerKeeps
<1>8. ResultsKept'
  BY <1>1, <1>3, <1>4, <1>5, <1>6, <1>7, ResultsStay
<1>9. TypeOK'
  <2>1. job' \in [Jobs -> JobRecord]
    BY <1>1, <1>2, <1>3
  <2>2. pool' \subseteq Buffers
    <3>1. job[j].buf \in Nat /\ 0 < job[j].buf /\ job[j].buf <= NumEntries
      BY <1>5, ArrayFacts, Sizes
    <3>2. job[j].buf \in Buffers /\ pool \subseteq Buffers
      BY <3>1, Sizes DEF IInv, TypeOK, Buffers, Entries
    <3>3. QED
      BY <1>1, <3>2
  <2>3. QED
    BY <1>1, <2>1, <2>2 DEF IInv, TypeOK, JobRecord
<1>10. PermitsMatch' /\ RequestsMatch'
  BY <1>1, <1>5, KeepPermits DEF IInv
<1>11. ArrayHasOneOwner'
  <2>1. job[j].buf \in 1..fresh /\ job[j].buf # chunk.buf
    BY <1>5, ArrayFacts
  <2>2. pool' \subseteq 1..fresh /\ chunk.buf \in 0..fresh \ pool'
    BY <1>1, <2>1 DEF IInv, ArrayHasOneOwner
  <2>3. \A i \in Owning \ {j} : job'[i] = job[i] /\ job[i].buf # job[j].buf
    BY <1>4, <1>5 DEF IInv, ArrayHasOneOwner, Owning
  <2>4. \A i \in Owning \ {j} : job'[i].buf \in 1..fresh \ (pool' \cup {chunk.buf})
    BY <1>1, <2>3 DEF IInv, ArrayHasOneOwner
  <2>5. \A i, k \in Owning \ {j} : job'[i].buf = job'[k].buf => i = k
    BY <2>3 DEF IInv, ArrayHasOneOwner
  <2>6. QED
    BY <1>1, <1>5, <2>2, <2>4, <2>5 DEF ArrayHasOneOwner
<1>12. ChunkIntact'
  <2>1. \A i \in Alive : job'[i] = job[i]
    BY <1>4, <1>5 DEF Alive
  <2>2. QED
    BY <1>1, <1>5, <2>1 DEF IInv, ChunkIntact
<1>13. OutcomesMatch'
  BY <1>1, <1>3, <1>4 DEF IInv, OutcomesMatch
<1>14. QED
  BY <1>7, <1>8, <1>9, <1>10, <1>11, <1>12, <1>13 DEF IInv

LEMMA WorkerStep == ASSUME IInv, NEW j \in Jobs, Worker(j) PROVE IInv'
BY AttemptStep, ReportStep, ReleaseStep, PutStep DEF Worker

LEMMA StutterStep == ASSUME IInv, UNCHANGED vars PROVE IInv'
<1> USE DEF vars, mainVars, scanVars, dispVars, poolVars, semVars, jobVars, resVars
<1>1. TypeOK'
  BY DEF IInv, TypeOK
<1>2. JobsInOrder' /\ OutcomesMatch' /\ Handed' = Handed /\ Alive' = Alive
  BY KeepJobs DEF IInv
<1>3. PermitsMatch' /\ RequestsMatch' /\ ArrayHasOneOwner' /\ ChunkIntact' /\ EntriesInOrder'
  BY <1>2, KeepPermits, KeepArrays, KeepEntries DEF IInv
<1>4. ChunkContinues' /\ ResultsKept'
  BY <1>2, KeepChunk, KeepResults DEF IInv
<1>5. EndsMatch'
  BY DEF IInv, EndsMatch, EntriesClosed
<1>6. QED
  BY <1>1, <1>2, <1>3, <1>4, <1>5 DEF IInv

LEMMA InductiveStep == IInv /\ [Next]_vars => IInv'
BY CancelStep, MainStep, ScanStep, DispatcherStep, WorkerStep, StutterStep DEF Next, Stopped

-----------------------------------------------------------------------------
(* The permits are accounted for, every backing array has one owner, a     *)
(* worker reads what was submitted to it, and the entries the channel,     *)
(* the chunk being filled and the jobs hold are in order: in every state   *)
(* of the copier's pipeline, for any sizes.                                *)
THEOREM ChunkInvariant == Spec => []IInv
  BY InitIInv, InductiveStep, PTL DEF Spec

(* The chunks submitted partition the entries the dispatcher received:     *)
(* each begins where the one before it ends, none is skipped or repeated.  *)
THEOREM ChunksInOrder == Spec => []ChunksPartition
<1>1. ASSUME IInv PROVE ChunksPartition
  <2> SUFFICES ASSUME NEW j \in 1..submitted
               PROVE  job[j].lo = IF j = 1 THEN 1 ELSE job[j - 1].lo + job[j - 1].len
    BY DEF ChunksPartition
  <2>1. /\ submitted \in Nat /\ Handed \in Nat
        /\ \A i \in 1..submitted :
             /\ job[i].lo \in Nat /\ job[i].lo > 0 /\ job[i].len \in Nat /\ job[i].len > 0
             /\ i \in Nat
    BY <1>1, Types, SpanFacts, Sizes DEF IInv, JobsInOrder, Entries
  <2>2. \A i \in 1..submitted : job[i].lo \in 1..Handed
    <3>1. \A i \in 1..submitted : job[i].lo \in Span(i)
      BY <2>1 DEF Span
    <3>2. QED
      BY <1>1, <3>1 DEF IInv, JobsInOrder
  <2>3. \A i, k \in 1..submitted : i < k => job[i].lo + job[i].len <= job[k].lo
    BY <1>1 DEF IInv, JobsInOrder
  <2>4. \A e \in 1..Handed : \E k \in 1..submitted :
          job[k].lo <= e /\ e < job[k].lo + job[k].len
    <3>1. \A e \in 1..Handed : \E k \in 1..submitted : e \in Span(k)
      BY <1>1 DEF IInv, JobsInOrder
    <3>2. \A k \in 1..submitted : \A e \in Span(k) : job[k].lo <= e /\ e < job[k].lo + job[k].len
      BY <2>1 DEF Span
    <3>3. QED
      BY <3>1, <3>2
  <2>5. CASE j = 1
    <3>1. 1 \in 1..Handed
      BY <2>1, <2>2
    <3>2. PICK k \in 1..submitted : job[k].lo <= 1 /\ 1 < job[k].lo + job[k].len
      BY <2>4, <3>1
    <3>3. k = 1
      BY <2>1, <2>3, <2>5, <3>2
    <3>4. QED
      BY <2>1, <2>5, <3>2, <3>3
  <2>6. CASE j # 1
    <3> DEFINE e == job[j - 1].lo + job[j - 1].len
    <3>1. j - 1 \in 1..submitted /\ j - 1 < j
      BY <2>1, <2>6
    <3>2. e <= job[j].lo /\ e \in 1..Handed
      BY <2>1, <2>2, <2>3, <3>1
    <3>3. PICK k \in 1..submitted : job[k].lo <= e /\ e < job[k].lo + job[k].len
      BY <2>4, <3>2
    <3>4. ~(k < j - 1) /\ k # j - 1
      <4>1. k < j - 1 => job[k].lo + job[k].len <= job[j - 1].lo
        BY <2>3, <3>1
      <4>2. QED
        BY <2>1, <3>1, <3>3, <4>1
    <3>5. ~(j < k)
      <4>1. j < k => job[j].lo + job[j].len <= job[k].lo
        BY <2>3
      <4>2. QED
        BY <2>1, <3>1, <3>2, <3>3, <4>1
    <3>6. k = j
      BY <2>1, <3>1, <3>4, <3>5
    <3>7. job[j].lo <= e
      BY <3>3, <3>6
    <3>8. QED
      BY <2>1, <2>6, <3>1, <3>2, <3>7
  <2>7. QED
    BY <2>5, <2>6
<1>2. QED
  BY <1>1, ChunkInvariant, PTL

(* When Runner.Execute returns every job has reported and been collected.  *)
LEMMA AllCollected ==
  ASSUME IInv, main = "done"
  PROVE  /\ disp = "done" /\ Alive = {}
         /\ Sent = 1..submitted /\ Collected = Sent
         /\ \A j \in 1..submitted : j \in Jobs /\ job[j].out # "none"
<1>1. resultClosed /\ resultChan = <<>> /\ disp = "done"
  BY DEF IInv, ResultsKept, RequestsMatch
<1>2. Alive = {}
  <2>1. \A j \in Alive : FALSE
    BY NoneAlive
  <2>2. QED
    BY <2>1
<1>3. \A j \in 1..submitted : j \in Jobs /\ job[j].st \in {"put", "gone"}
  <2>1. \A j \in 1..submitted : j \in Jobs /\ ~(j > submitted)
    BY Types DEF IInv
  <2>2. \A j \in 1..submitted : job[j].st # "none"
    BY <2>1 DEF IInv, JobsInOrder
  <2>3. \A j \in 1..submitted : job[j].st \in AliveStates \cup {"none", "gone"}
    BY Types DEF IInv
  <2>4. \A j \in 1..submitted : job[j].st \notin HoldingStates
    BY <1>2, <2>1 DEF Alive
  <2>5. QED
    BY <2>1, <2>2, <2>3, <2>4 DEF HoldingStates, AliveStates
<1>4. Sent = 1..submitted
  <2>1. 1..submitted \subseteq Sent
    BY <1>3 DEF Sent
  <2>2. QED
    BY <2>1, SentSubmitted DEF IInv
<1>5. Collected = Sent
  BY <1>1 DEF Collected, Pending
<1>6. QED
  BY <1>1, <1>2, <1>3, <1>4, <1>5 DEF IInv, OutcomesMatch

(* When no chunk has failed every entry the scan has sent is in a chunk    *)
(* that ended without an error, unless the run was cancelled.              *)
THEOREM NilErrorIsCopied == Spec => []NilErrorMeansCopied
<1>1. ASSUME IInv, main = "done", failures = {}, ~ctxDone, NEW e \in 1..emitted
      PROVE  \E j \in Jobs : job[j].out = "ok" /\ e \in Span(j)
  <2>1. entryChan = <<>> /\ chunk = NoChunk
    BY <1>1, AllCollected DEF IInv, EndsMatch, ChunkContinues, Leaving
  <2>2. received = emitted
    BY <1>1, <2>1, Types DEF IInv, EntriesInOrder
  <2>3. Handed = emitted
    <3>1. 0 = received - Handed
      BY <1>1, <2>1 DEF IInv, ChunkContinues, NoChunk
    <3>2. QED
      BY <1>1, <2>2, <3>1, Types, SpanFacts DEF IInv
  <2>4. PICK j \in 1..submitted : e \in Span(j)
    BY <1>1, <2>3 DEF IInv, JobsInOrder
  <2>5. j \in Jobs /\ j \in Collected /\ job[j].out # "none"
    BY <1>1, AllCollected
  <2>6. job[j].out # "fail"
    BY <1>1, <2>5 DEF IInv, ResultsKept
  <2>7. job[j].out # "cut"
    BY <1>1, <2>5 DEF IInv, OutcomesMatch
  <2>8. job[j].out \in {"none", "ok", "cut", "fail"}
    BY <1>1, <2>5 DEF IInv, TypeOK
  <2>9. QED
    BY <2>4, <2>5, <2>6, <2>7, <2>8
<1>2. IInv => NilErrorMeansCopied
  BY <1>1 DEF NilErrorMeansCopied
<1>3. QED
  BY <1>2, ChunkInvariant, PTL

(* The total Runner.Execute logs counts every submitted entry once, and    *)
(* the errors it joins are those of all failed chunks and of the scan.     *)
THEOREM TotalsAddUp == Spec => []ResultsAddUp
<1>1. ASSUME IInv, main = "done"
      PROVE  /\ total = Cardinality(UNION {Span(j) : j \in 1..submitted})
             /\ failures = {j \in Jobs : job[j].out = "fail"}
             /\ scanErr <=> scanBad
  <2>1. Collected = 1..submitted /\ \A j \in 1..submitted : j \in Jobs
    BY <1>1, AllCollected
  <2>2. \A j \in Jobs : job[j].out = "fail" => j \in 1..submitted
    <3>1. ASSUME NEW j \in Jobs, job[j].out = "fail" PROVE j \in 1..submitted
      <4>1. job[j].st # "none"
        BY <1>1, <3>1 DEF IInv, OutcomesMatch
      <4>2. ~(j > submitted)
        BY <1>1, <4>1 DEF IInv, JobsInOrder
      <4>3. QED
        BY <1>1, <4>2, Types DEF IInv, Jobs, Entries
    <3>2. QED
      BY <3>1
  <2>3. /\ total = Cardinality(UNION {Span(j) : j \in Collected})
        /\ failures = {j \in Collected : job[j].out = "fail"}
    BY <1>1 DEF IInv, ResultsKept
  <2>4. scanErr <=> scanBad
    BY <1>1 DEF IInv, EndsMatch
  <2>5. QED
    BY <2>1, <2>2, <2>3, <2>4
<1>2. IInv => ResultsAddUp
  BY <1>1 DEF ResultsAddUp
<1>3. QED
  BY <1>2, ChunkInvariant, PTL

-----------------------------------------------------------------------------
(* The refinement of FanOut. *)

LEMMA AliveMapped == Bounded!Alive = Alive
BY DEF Bounded!Alive, Alive, Status

LEMMA FanOutInit == Init => Bounded!Init
BY ChunkAssumption DEF Init, Bounded!Init, Status, Sent, NoJob, HoldingStates, AliveStates

LEMMA FanOutStutters ==
  ASSUME UNCHANGED <<job, resultClosed>> PROVE UNCHANGED Bounded!vars
BY DEF Bounded!vars, Status, Sent

(* A chunk is submitted: its permit keeps the live workers below the limit. *)
LEMMA FanOutLaunches ==
  ASSUME IInv, IInv', AcquireFree \/ AcquireGranted
  PROVE  \E j \in Jobs : Bounded!Launch(j)
<1>1. /\ UNCHANGED resultClosed /\ disp \in {"acquire", "wait"} /\ disp' \in {"select", "drain"}
      /\ submitted' = submitted + 1
      /\ \A i \in Jobs : i # submitted + 1 => job'[i] = job[i]
      /\ submitted + 1 \in Jobs => job'[submitted + 1].st = "starting"
  <2> DEFINE new == [NoJob EXCEPT !.st = "starting", !.buf = chunk.buf, !.lo = chunk.lo,
                                  !.len = chunk.len]
  <2>1. /\ UNCHANGED resultClosed /\ disp \in {"acquire", "wait"}
        /\ disp' \in {"select", "drain"} /\ submitted' = submitted + 1
        /\ job' = [job EXCEPT ![submitted + 1] = new]
    BY DEF AcquireFree, AcquireGranted, Submit, resVars
  <2>2. new.st = "starting"
    BY DEF NoJob
  <2> HIDE DEF new
  <2>3. job \in [Jobs -> JobRecord]
    BY DEF IInv, TypeOK, JobRecord
  <2>4. QED
    BY <2>1, <2>2, <2>3
<1>2. PICK n \in Jobs : n = submitted + 1
  BY <1>1, Types DEF IInv, Jobs, Entries, TypeOK
<1>3. /\ n \in Jobs /\ n > submitted /\ job[n].st = "none" /\ job'[n].st = "starting"
      /\ \A i \in Jobs : i # n => job'[i] = job[i]
  BY <1>1, <1>2, Types DEF IInv, JobsInOrder
<1>4. ~resultClosed
  BY <1>1 DEF IInv, RequestsMatch
<1>5. Cardinality(Alive) < TaskSize
  <2>1. Alive' = Alive \cup {n} /\ n \notin Alive
    BY <1>3 DEF Alive, HoldingStates, AliveStates
  <2>2. Cardinality(Alive') = Cardinality(Alive) + 1
    BY <2>1, AliveFinite, FS_AddElement
  <2>3. Granted' = 0 /\ Drained' = 0
    BY <1>1 DEF Granted, Drained
  <2>4. cur' = Cardinality(Alive') + Granted' + Drained'
    BY DEF IInv, PermitsMatch
  <2>5. cur' \in 0..TaskSize
    BY DEF IInv, TypeOK
  <2>6. QED
    BY <2>2, <2>3, <2>4, <2>5, AliveFinite, Sizes
<1>6. Status' = [Status EXCEPT ![n] = "alive"] /\ Status[n] = "idle"
  BY <1>3 DEF Status, HoldingStates, AliveStates
<1>7. Sent' = Sent
  BY <1>3 DEF Sent
<1>8. Bounded!Cardinality(Alive) = Cardinality(Alive)
  BY DEF Bounded!Cardinality, Cardinality
<1>9. Bounded!Launch(n)
  BY <1>1, <1>3, <1>4, <1>5, <1>6, <1>7, <1>8, AliveMapped DEF Bounded!Launch
<1>10. QED
  BY <1>9

LEMMA FanOutWorks ==
  ASSUME IInv, NEW j \in Jobs, Worker(j)
  PROVE  Bounded!Send(j) \/ Bounded!Finish(j) \/ UNCHANGED Bounded!vars
<1>0. job \in [Jobs -> JobRecord] /\ job[j] \in JobRecord
  BY DEF IInv, TypeOK, JobRecord
<1>1. CASE StartCopy(j) \/ AttemptEnds(j) \/ DelayEnds(j)
  <2>1. PICK r \in JobRecord : AttemptMoved(j, r)
    BY <1>1, AttemptMoves
  <2>2. /\ job'[j].st \in {"report", "copying", "waiting"}
        /\ \A i \in Jobs : i # j => job'[i] = job[i]
    BY <1>0, <2>1 DEF AttemptMoved
  <2>3. job[j].st \in {"starting", "copying", "waiting"} /\ UNCHANGED resultClosed
    BY <1>1 DEF StartCopy, AttemptEnds, DelayEnds, JobStep, resVars
  <2>4. Status' = Status
    BY <2>2, <2>3 DEF Status, HoldingStates, AliveStates
  <2>5. Sent' = Sent
    BY <2>2, <2>3 DEF Sent
  <2>6. QED
    BY <2>3, <2>4, <2>5 DEF Bounded!vars
<1>2. CASE Report(j)
  <2>1. /\ job[j].st = "report" /\ job'[j].st = "release" /\ UNCHANGED resultClosed
        /\ \A i \in Jobs : i # j => job'[i] = job[i]
    BY <1>0, <1>2 DEF Report, Move, JobStep, JobRecord
  <2>2. Status' = Status /\ Status[j] = "alive"
    BY <2>1 DEF Status, HoldingStates, AliveStates
  <2>3. j \notin Sent /\ Sent' = Sent \cup {j}
    BY <2>1 DEF Sent
  <2>4. ~resultClosed
    BY <2>1, NoneAlive DEF Alive, HoldingStates, AliveStates
  <2>5. QED
    BY <2>1, <2>2, <2>3, <2>4 DEF Bounded!Send
<1>3. CASE Release(j)
  <2>1. /\ job[j].st = "release" /\ job'[j].st = "put" /\ UNCHANGED resultClosed
        /\ \A i \in Jobs : i # j => job'[i] = job[i]
    BY <1>0, <1>3 DEF Release, Move, JobStep, JobRecord, resVars
  <2>2. Status[j] = "alive" /\ Status' = [Status EXCEPT ![j] = "finished"]
    BY <2>1 DEF Status, HoldingStates, AliveStates
  <2>3. Sent' = Sent
    BY <2>1 DEF Sent
  <2>4. QED
    BY <2>1, <2>2, <2>3 DEF Bounded!Finish
<1>4. CASE PutChunk(j)
  <2>1. /\ job[j].st = "put" /\ job'[j].st = "gone" /\ UNCHANGED resultClosed
        /\ \A i \in Jobs : i # j => job'[i] = job[i]
    BY <1>0, <1>4 DEF PutChunk, JobStep, JobRecord, resVars
  <2>2. Status' = Status
    BY <2>1 DEF Status, HoldingStates, AliveStates
  <2>3. Sent' = Sent
    BY <2>1 DEF Sent
  <2>4. QED
    BY <2>1, <2>2, <2>3 DEF Bounded!vars
<1>5. QED
  BY <1>1, <1>2, <1>3, <1>4 DEF Worker

LEMMA FanOutCloses == ASSUME IInv, CloseResults PROVE Bounded!Close
<1>1. disp = "closing" /\ resultClosed' = TRUE /\ UNCHANGED job
  BY DEF CloseResults, jobVars
<1>2. ~resultClosed
  BY <1>1 DEF IInv, RequestsMatch
<1>3. Alive = {}
  <2>1. \A j \in Alive : FALSE
    BY <1>1, NoneAlive
  <2>2. QED
    BY <2>1
<1>4. Status' = Status /\ Sent' = Sent
  BY <1>1 DEF Status, Sent
<1>5. QED
  BY <1>1, <1>2, <1>3, <1>4, AliveMapped DEF Bounded!Close

(* The copier's dispatcher and workers implement FanOut: at most           *)
(* --task-size chunks are copied at once, each sends at most one result,   *)
(* and resultChan is closed only when no worker can still send on it.      *)
THEOREM ChunkImplementsFanOut == Spec => ImplementsFanOut
<1>1. ASSUME IInv, IInv', [Next]_vars PROVE [Bounded!Next]_(Bounded!vars)
  <2>1. CASE AcquireFree \/ AcquireGranted
    BY <1>1, <2>1, FanOutLaunches DEF Bounded!Next
  <2>2. CASE CloseResults
    BY <1>1, <2>2, FanOutCloses DEF Bounded!Next
  <2>3. CASE \E j \in Jobs : Worker(j)
    BY <1>1, <2>3, FanOutWorks DEF Bounded!Next
  <2>4. CASE UNCHANGED <<job, resultClosed>>
    BY <2>4, FanOutStutters
  <2>5. ASSUME Cancel \/ Main \/ Scan
        PROVE  UNCHANGED <<job, resultClosed>>
    BY <2>5 DEF Cancel, Main, PrepareFails, Prepare, Collect, ResultsEnd, Finish, Scan, Emit,
                ScanEnds, ScanCloses, jobVars, resVars
  <2>6. ASSUME Select \/ SelectTick \/ AcquireQueues \/ AcquireCancelled
               \/ DrainFree \/ DrainQueues \/ DrainGranted
        PROVE  UNCHANGED <<job, resultClosed>>
    BY <2>6 DEF Select, SelectCancelled, SelectEntry, SelectClosed, SelectTick, AcquireQueues,
                AcquireCancelled, DrainFree, DrainQueues, DrainGranted, jobVars, resVars
  <2>7. CASE UNCHANGED vars
    BY <2>4, <2>7 DEF vars, jobVars, resVars
  <2>8. QED
    BY <1>1, <2>1, <2>2, <2>3, <2>4, <2>5, <2>6, <2>7
    DEF Next, Dispatcher, Acquire, Drain, Stopped
<1>2. QED
  BY <1>1, FanOutInit, ChunkInvariant, PTL DEF Spec, ImplementsFanOut, Bounded!Spec
=============================================================================
