----------------------------- MODULE ScanProofs -----------------------------
(***************************************************************************)
(* Proofs about FileScanner: what either scanner has taken in hand is      *)
(* dealt with before the entry channel is closed, and a scan that went     *)
(* wrong does not end with a nil error.                                    *)
(***************************************************************************)
EXTENDS FileScanner, FiniteSets, FiniteSetTheorems, TLAPS

-----------------------------------------------------------------------------
(* The external find *)

LEMMA FindInit == Find!Init => Find!TypeOK /\ Find!FindMatches
<1>1. SUFFICES ASSUME Find!Init
               PROVE  Find!TypeOK /\ Find!FindMatches
  OBVIOUS
<1>2. /\ fetched = 0 /\ dropped = 0 /\ sent = 0 /\ printed = 0 /\ taken = 0
      /\ stdout = "idle" /\ stderr = "idle" /\ find = "idle" /\ exec = "start"
      /\ result = "none" /\ ctxDone = FALSE /\ open = FALSE
      /\ complain = FALSE /\ logged = FALSE
  BY <1>1 DEF Find!Init
<1>3. Find!InHand = 0
  BY <1>2 DEF Find!InHand
<1>4. 0 <= NumRows /\ sent - taken <= ChanRows
  BY <1>2, ScannerAssumption
<1>5. Find!TypeOK
  <2>1. /\ printed \in Nat /\ fetched \in Nat /\ dropped \in Nat /\ sent \in Nat /\ taken \in Nat
        /\ taken <= sent /\ fetched <= printed /\ printed <= NumRows
    BY <1>2, <1>4
  <2>2. 0 <= Find!InHand /\ stdout # "sends"
    BY <1>2, <1>3
  <2>3. QED
    BY <1>2, <1>4, <2>1, <2>2 DEF Find!TypeOK
<1>6. Find!FindMatches
  BY <1>2, <1>3 DEF Find!FindMatches
<1>7. QED
  BY <1>5, <1>6

LEMMA FindCounts ==
  ASSUME Find!TypeOK, Find!Next
  PROVE  /\ printed' \in Nat /\ fetched' \in Nat /\ dropped' \in Nat
         /\ sent' \in Nat /\ taken' \in Nat
         /\ taken' <= sent' /\ 0 <= Find!InHand'
         /\ fetched' <= printed' /\ printed' <= NumRows
         /\ sent' - taken' <= ChanRows
         /\ stdout' = "sends" => Find!InHand' > 0
<1>1. /\ printed \in Nat /\ fetched \in Nat /\ dropped \in Nat /\ sent \in Nat /\ taken \in Nat
      /\ NumRows \in Nat /\ ChanRows \in Nat
  BY ScannerAssumption DEF Find!TypeOK
<1>2. CASE UNCHANGED Find!rowVars /\ (stdout' = stdout \/ stdout' # "sends")
  BY <1>1, <1>2 DEF Find!TypeOK, Find!InHand, Find!rowVars
<1>3. CASE Find!PrintRow
  BY <1>1, <1>3 DEF Find!TypeOK, Find!InHand, Find!PrintRow
<1>4. CASE Find!Fetch
  <2>1. PICK n \in fetched + 1..printed : fetched' = n
    BY <1>4 DEF Find!Fetch
  <2>2. n \in Nat /\ fetched < n /\ n <= printed
    BY <1>1, <2>1
  <2>3. UNCHANGED <<printed, dropped, sent, taken, stdout>>
    BY <1>4 DEF Find!Fetch
  <2>4. QED
    BY <1>1, <2>1, <2>2, <2>3 DEF Find!TypeOK, Find!InHand
<1>5. CASE Find!Drop
  BY <1>1, <1>5 DEF Find!TypeOK, Find!InHand, Find!Drop
<1>6. CASE Find!Accept
  BY <1>1, <1>6 DEF Find!TypeOK, Find!InHand, Find!Accept, Find!rowVars
<1>7. CASE Find!Send
  BY <1>1, <1>7 DEF Find!TypeOK, Find!InHand, Find!Send
<1>8. CASE Find!Take
  BY <1>1, <1>8 DEF Find!TypeOK, Find!InHand, Find!Take
<1>9. CASE \/ Find!Cancel \/ Find!FindEnds \/ Find!FindKilled \/ Find!FindDies \/ Find!Complain
           \/ Find!StdoutEnds \/ Find!Stderr \/ Find!Execute \/ Find!Returned
  BY <1>2, <1>9
  DEF Find!Cancel, Find!FindEnds, Find!FindKilled, Find!FindDies, Find!Complain,
      Find!StdoutEnds, Find!Stderr, Find!LogLine, Find!StderrEnds, Find!Execute, Find!Start,
      Find!Wait, Find!Join, Find!Returned, Find!vars, Find!rowVars
<1>10. QED
  BY <1>3, <1>4, <1>5, <1>6, <1>7, <1>8, <1>9 DEF Find!Next, Find!Process, Find!Stdout

LEMMA FindTypes ==
  ASSUME Find!TypeOK, Find!Next
  PROVE  Find!TypeOK'
<1>1. /\ ctxDone' \in BOOLEAN /\ open' \in BOOLEAN
      /\ complain' \in BOOLEAN /\ logged' \in BOOLEAN
  BY DEF Find!TypeOK, Find!Next, Find!Process, Find!Stdout, Find!Stderr, Find!Execute,
         Find!Cancel, Find!PrintRow, Find!FindEnds, Find!FindKilled, Find!FindDies,
         Find!Complain, Find!Fetch, Find!Drop, Find!Accept, Find!Send, Find!StdoutEnds,
         Find!LogLine, Find!StderrEnds, Find!Take, Find!Start, Find!Wait, Find!Join,
         Find!Returned, Find!vars, Find!rowVars, Find!errVars
<1>2. /\ find' \in {"idle", "runs", "ok", "error", "killed"}
      /\ stdout' \in {"idle", "reads", "sends", "done"}
      /\ stderr' \in {"idle", "reads", "done"}
  BY DEF Find!TypeOK, Find!Next, Find!Process, Find!Stdout, Find!Stderr, Find!Execute,
         Find!Cancel, Find!PrintRow, Find!FindEnds, Find!FindKilled, Find!FindDies,
         Find!Complain, Find!Fetch, Find!Drop, Find!Accept, Find!Send, Find!StdoutEnds,
         Find!LogLine, Find!StderrEnds, Find!Take, Find!Start, Find!Wait, Find!Join,
         Find!Returned, Find!vars, Find!rowVars, Find!errVars
<1>3. /\ exec' \in {"start", "wait", "join", "done"}
      /\ result' \in {"none", "nil", "error"}
  BY DEF Find!TypeOK, Find!Next, Find!Process, Find!Stdout, Find!Stderr, Find!Execute,
         Find!Cancel, Find!PrintRow, Find!FindEnds, Find!FindKilled, Find!FindDies,
         Find!Complain, Find!Fetch, Find!Drop, Find!Accept, Find!Send, Find!StdoutEnds,
         Find!LogLine, Find!StderrEnds, Find!Take, Find!Start, Find!Wait, Find!Join,
         Find!Returned, Find!vars, Find!rowVars, Find!errVars
<1>4. QED
  BY <1>1, <1>2, <1>3, FindCounts DEF Find!TypeOK, Find!InHand

LEMMA FindStep ==
  ASSUME Find!TypeOK, Find!FindMatches, Find!Next
  PROVE  Find!FindMatches'
<1> DEFINE Rows == <<fetched, dropped, sent, stdout>>
<1>1. /\ (exec' = "start" => find' = "idle" /\ stdout' = "idle")
      /\ (exec' = "done" => stdout' \in {"idle", "done"})
      /\ (exec' = "done" <=> result' # "none")
      /\ (result' = "nil" => find' = "ok")
  BY DEF Find!FindMatches, Find!Next, Find!Process, Find!Stdout, Find!Stderr, Find!Execute,
         Find!Cancel, Find!PrintRow, Find!FindEnds, Find!FindKilled, Find!FindDies,
         Find!Complain, Find!Fetch, Find!Drop, Find!Accept, Find!Send, Find!StdoutEnds,
         Find!LogLine, Find!StderrEnds, Find!Take, Find!Start, Find!Wait, Find!Join,
         Find!Returned, Find!vars, Find!rowVars, Find!errVars
<1>2. find' = "ok" => printed' = NumRows /\ ~complain'
  BY DEF Find!FindMatches, Find!Next, Find!Process, Find!Stdout, Find!Stderr, Find!Execute,
         Find!Cancel, Find!PrintRow, Find!FindEnds, Find!FindKilled, Find!FindDies,
         Find!Complain, Find!Fetch, Find!Drop, Find!Accept, Find!Send, Find!StdoutEnds,
         Find!LogLine, Find!StderrEnds, Find!Take, Find!Start, Find!Wait, Find!Join,
         Find!Returned, Find!vars, Find!rowVars, Find!errVars
<1>3. /\ stdout' = "idle" => stdout = "idle" /\ UNCHANGED Rows
      /\ stdout' = "done" => \/ stdout = "done" /\ UNCHANGED Rows
                             \/ /\ stdout = "reads" /\ Find!InHand = 0
                                /\ UNCHANGED <<fetched, dropped, sent>>
                             \/ ctxDone'
      /\ ctxDone => ctxDone'
  BY DEF Find!FindMatches, Find!Next, Find!Process, Find!Stdout, Find!Stderr, Find!Execute,
         Find!Cancel, Find!PrintRow, Find!FindEnds, Find!FindKilled, Find!FindDies,
         Find!Complain, Find!Fetch, Find!Drop, Find!Accept, Find!Send, Find!StdoutEnds,
         Find!LogLine, Find!StderrEnds, Find!Take, Find!Start, Find!Wait, Find!Join,
         Find!Returned, Find!vars, Find!rowVars, Find!errVars
<1>4. /\ stdout' = "idle" => Find!InHand' = 0
      /\ stdout' = "done" => Find!InHand' = 0 \/ ctxDone'
  BY <1>3 DEF Find!FindMatches, Find!InHand
<1>5. QED
  BY <1>1, <1>2, <1>4 DEF Find!FindMatches, Find!InHand

(* No row's reader is at work when executeFind has returned. *)
LEMMA FindReturned ==
  ASSUME Find!FindMatches, result # "none"
  PROVE  stdout \notin {"reads", "sends"}
BY DEF Find!FindMatches

-----------------------------------------------------------------------------
(* The walkers *)

(* The queue's finiteness and size are those of the library's lemmas. *)
LEMMA WalkFiniteSets ==
  /\ \A S : Walk!IsFiniteSet(S) <=> IsFiniteSet(S)
  /\ \A S : Walk!Cardinality(S) = Cardinality(S)
<1>1. \A S : Walk!IsFiniteSet(S) <=> IsFiniteSet(S)
  BY DEF Walk!IsFiniteSet, IsFiniteSet
<1>2. \A S : Walk!Cardinality(S) = Cardinality(S)
  BY DEF Walk!Cardinality, Cardinality
<1>3. QED
  BY <1>1, <1>2

LEMMA WalkInit == Walk!Init => Walk!TypeOK /\ Walk!WalkMatches
<1>1. IsFiniteSet({}) /\ Cardinality({}) = 0
  BY FS_EmptySet
<1>2. QED
  <2>1. SUFFICES ASSUME Walk!Init
                 PROVE  Walk!TypeOK /\ Walk!WalkMatches
    OBVIOUS
  <2>2. /\ ctxDone = FALSE /\ todo = Paths /\ errs = {} /\ bad = {} /\ queue = {}
        /\ received = {} /\ skipped = FALSE /\ walked = "none"
        /\ at = [w \in Walkers |-> NoPath] /\ pc = [w \in Walkers |-> "idle"]
        /\ raced = FALSE
    BY <2>1 DEF Walk!Init
  <2>3. IsFiniteSet(queue) /\ Cardinality(queue) <= ChanRows
    BY <1>1, <2>2, ScannerAssumption
  <2>4. Walk!IsFiniteSet(queue) /\ Walk!Cardinality(queue) <= ChanRows
    BY <2>3, WalkFiniteSets
  <2>5. Walk!TypeOK
    BY <2>2, <2>4 DEF Walk!TypeOK
  <2>6. Walk!WalkMatches
    BY <2>2 DEF Walk!WalkMatches, Walk!ErrorsKept
  <2>7. QED
    BY <2>5, <2>6

LEMMA WalkQueue ==
  ASSUME Walk!TypeOK, Walk!Next
  PROVE  /\ queue' \subseteq Paths /\ received' \subseteq Paths
         /\ IsFiniteSet(queue') /\ Cardinality(queue') <= ChanRows
<1>1. /\ queue \subseteq Paths /\ received \subseteq Paths
      /\ IsFiniteSet(queue) /\ Cardinality(queue) <= ChanRows /\ ChanRows \in Nat
  <2>1. /\ queue \subseteq Paths /\ received \subseteq Paths
        /\ Walk!IsFiniteSet(queue) /\ Walk!Cardinality(queue) <= ChanRows
    BY DEF Walk!TypeOK
  <2>2. QED
    BY <2>1, ScannerAssumption, WalkFiniteSets
<1>2. CASE Walk!Take
  <2>1. PICK p \in queue : queue' = queue \ {p} /\ received' = received \cup {p}
    BY <1>2 DEF Walk!Take
  <2>2. /\ IsFiniteSet(queue \ {p}) /\ Cardinality(queue \ {p}) = Cardinality(queue) - 1
        /\ Cardinality(queue) \in Nat
    BY <1>1, <2>1, FS_RemoveElement, FS_CardinalityType
  <2>3. QED
    BY <1>1, <2>1, <2>2
<1>3. ASSUME NEW w \in Walkers, Walk!Send(w)
      PROVE  /\ queue' \subseteq Paths /\ received' \subseteq Paths
             /\ IsFiniteSet(queue') /\ Cardinality(queue') <= ChanRows
  <2>1. CASE Cardinality(queue) < ChanRows /\ queue' = queue \cup {at[w]}
    <3>1. at[w] \in Paths
      BY <1>3 DEF Walk!Send, Walk!TypeOK
    <3>2. /\ IsFiniteSet(queue \cup {at[w]})
          /\ Cardinality(queue \cup {at[w]}) \in {Cardinality(queue), Cardinality(queue) + 1}
          /\ Cardinality(queue) \in Nat
      BY <1>1, FS_AddElement, FS_CardinalityType
    <3>3. Cardinality(queue \cup {at[w]}) <= ChanRows
      BY <1>1, <2>1, <3>2
    <3>4. QED
      BY <1>1, <1>3, <2>1, <3>1, <3>2, <3>3 DEF Walk!Send
  <2>2. CASE UNCHANGED queue
    BY <1>1, <1>3, <2>2 DEF Walk!Send
  <2>3. QED
    <3>1. Walk!Cardinality(queue) = Cardinality(queue)
      BY WalkFiniteSets
    <3>2. QED
      BY <1>3, <2>1, <2>2, <3>1 DEF Walk!Send
<1>4. CASE ~Walk!Take /\ ~ \E w \in Walkers : Walk!Send(w)
  <2>1. UNCHANGED <<queue, received>>
    BY <1>4 DEF Walk!Next, Walk!Cancel, Walk!Walker, Walk!Visit, Walk!AppendStarts,
                Walk!AppendEnds, Walk!RaceKills, Walk!WalkEnds, Walk!Returned, Walk!vars
  <2>2. QED
    BY <1>1, <2>1
<1>5. QED
  BY <1>2, <1>3, <1>4

LEMMA WalkTypes ==
  ASSUME Walk!TypeOK, Walk!Next
  PROVE  Walk!TypeOK'
<1>1. /\ queue' \subseteq Paths /\ received' \subseteq Paths
      /\ Walk!IsFiniteSet(queue') /\ Walk!Cardinality(queue') <= ChanRows
  BY WalkQueue, WalkFiniteSets
<1>2. ASSUME NEW w \in Walkers, Walk!Walker(w)
      PROVE  /\ todo' \subseteq Paths /\ errs' \subseteq Paths /\ bad' \subseteq Paths
             /\ at' \in [Walkers -> Paths \cup {NoPath}]
             /\ pc' \in [Walkers -> {"idle", "append", "store", "send"}]
             /\ \A v \in Walkers : at'[v] = NoPath <=> pc'[v] = "idle"
             /\ raced' \in BOOLEAN
             /\ ctxDone' \in BOOLEAN /\ skipped' \in BOOLEAN
             /\ UNCHANGED walked
  <2>1. CASE Walk!Visit(w)
    <3>1. PICK p \in todo :
            /\ todo' = todo \ {p}
            /\ \/ Walk!Goto(w, "append") /\ at' = [at EXCEPT ![w] = p] /\ bad' = bad \cup {p}
               \/ Walk!Goto(w, "send") /\ at' = [at EXCEPT ![w] = p] /\ UNCHANGED bad
               \/ Walk!Hide
      BY <2>1 DEF Walk!Visit
    <3>2. p \in Paths /\ p # NoPath
      BY ScannerAssumption DEF Walk!TypeOK
    <3>3. QED
      BY <2>1, <3>1, <3>2 DEF Walk!Visit, Walk!TypeOK, Walk!Goto, Walk!Hide
  <2>2. CASE Walk!AppendStarts(w)
    BY <2>2 DEF Walk!AppendStarts, Walk!TypeOK, Walk!Goto
  <2>3. CASE Walk!AppendEnds(w)
    <3>1. at[w] \in Paths
      BY <2>3 DEF Walk!AppendEnds, Walk!TypeOK
    <3>2. QED
      BY <2>3, <3>1 DEF Walk!AppendEnds, Walk!TypeOK, Walk!Goto, Walk!Leave
  <2>4. CASE Walk!Send(w)
    BY <2>4 DEF Walk!Send, Walk!TypeOK, Walk!Goto, Walk!Leave
  <2>5. QED
    BY <1>2, <2>1, <2>2, <2>3, <2>4 DEF Walk!Walker
<1>3. CASE \E w \in Walkers : Walk!Walker(w)
  BY <1>2, <1>3, <1>1 DEF Walk!TypeOK
<1>4. CASE Walk!Cancel \/ Walk!Take \/ Walk!RaceKills \/ Walk!WalkEnds \/ Walk!Returned
  <2>1. /\ UNCHANGED <<todo, at, pc, errs, raced, bad, skipped>>
        /\ ctxDone' \in BOOLEAN /\ walked' \in {"none", "nil", "error", "died"}
    BY <1>4 DEF Walk!Cancel, Walk!Take, Walk!RaceKills, Walk!WalkEnds, Walk!Returned, Walk!vars, Walk!TypeOK
  <2>2. QED
    BY <2>1, <1>1 DEF Walk!TypeOK
<1>5. QED
  BY <1>3, <1>4 DEF Walk!Next

LEMMA WalkStep ==
  ASSUME Walk!TypeOK, Walk!WalkMatches, Walk!Next
  PROVE  Walk!WalkMatches'
<1>1. ASSUME NEW w \in Walkers, Walk!Walker(w)
      PROVE  Walk!WalkMatches'
  <2>1. walked' = "none"
    BY <1>1 DEF Walk!Walker, Walk!Visit, Walk!AppendStarts, Walk!AppendEnds, Walk!Send
  <2>2. raced => raced'
    BY <1>1 DEF Walk!Walker, Walk!Visit, Walk!AppendStarts, Walk!AppendEnds, Walk!Send
  <2>3. ASSUME ~raced
        PROVE  raced' \/ Walk!ErrorsKept'
    <3>1. Walk!ErrorsKept
      BY <2>3 DEF Walk!WalkMatches
    <3>2. CASE Walk!Visit(w)
      <4>1. pc[w] = "idle" /\ errs' = errs
        BY <3>2 DEF Walk!Visit
      <4>2. \A v \in Walkers : Walk!Appending(v) => pc'[v] = pc[v] /\ at'[v] = at[v]
        BY <3>2, <4>1 DEF Walk!Visit, Walk!Goto, Walk!Hide, Walk!Appending, Walk!TypeOK
      <4>3. bad' = bad \/ (bad' = bad \cup {at'[w]} /\ pc'[w] = "append")
        BY <3>2 DEF Walk!Visit, Walk!Goto, Walk!Hide, Walk!TypeOK
      <4>4. QED
        BY <3>1, <4>1, <4>2, <4>3 DEF Walk!ErrorsKept, Walk!Appending
    <3>3. CASE Walk!AppendStarts(w)
      BY <3>1, <3>3
      DEF Walk!AppendStarts, Walk!Goto, Walk!ErrorsKept, Walk!Appending, Walk!TypeOK
    <3>4. CASE Walk!AppendEnds(w)
      <4>1. errs' = errs \cup {at[w]} /\ bad' = bad
        BY <2>3, <3>4 DEF Walk!AppendEnds
      <4>2. \A v \in Walkers : v # w => pc'[v] = pc[v] /\ at'[v] = at[v]
        BY <3>4 DEF Walk!AppendEnds, Walk!Leave, Walk!Goto, Walk!TypeOK
      <4>3. QED
        BY <3>1, <4>1, <4>2 DEF Walk!ErrorsKept, Walk!Appending
    <3>5. CASE Walk!Send(w)
      <4>1. ~Walk!Appending(w) /\ UNCHANGED <<errs, bad>>
        BY <3>5 DEF Walk!Send, Walk!Appending
      <4>2. \A v \in Walkers : v # w => pc'[v] = pc[v] /\ at'[v] = at[v]
        BY <3>5 DEF Walk!Send, Walk!Leave, Walk!Goto, Walk!TypeOK
      <4>3. QED
        BY <3>1, <4>1, <4>2 DEF Walk!ErrorsKept, Walk!Appending
    <3>6. QED
      BY <1>1, <3>2, <3>3, <3>4, <3>5 DEF Walk!Walker
  <2>4. QED
    BY <2>1, <2>2, <2>3 DEF Walk!WalkMatches
<1>2. CASE Walk!Cancel \/ Walk!Take \/ Walk!Returned
  BY <1>2 DEF Walk!Cancel, Walk!Take, Walk!Returned, Walk!vars, Walk!WalkMatches,
              Walk!ErrorsKept, Walk!Appending
<1>3. CASE Walk!RaceKills
  BY <1>3 DEF Walk!RaceKills, Walk!WalkMatches
<1>4. CASE Walk!WalkEnds
  BY <1>4 DEF Walk!WalkEnds, Walk!WalkMatches, Walk!ErrorsKept, Walk!Appending
<1>5. QED
  BY <1>1, <1>2, <1>3, <1>4 DEF Walk!Next

-----------------------------------------------------------------------------
(* The scanner *)

LEMMA InitScan == Init => IInv
<1>1. SUFFICES ASSUME Init
               PROVE  IInv
  OBVIOUS
<1>2. Find!TypeOK /\ Find!FindMatches /\ Walk!TypeOK /\ Walk!WalkMatches
  BY <1>1, FindInit, WalkInit DEF Init
<1>3. (\A w \in Walkers : pc[w] = "idle") /\ stdout = "idle"
  BY <1>1 DEF Init, Find!Init, Walk!Init
<1>4. QED
  BY <1>1, <1>2, <1>3 DEF Init, IInv, TypeOK, ScanMatches

(* A scanner's state is its own, but for the context. *)
LEMMA FindKept ==
  ASSUME Find!TypeOK, Find!FindMatches, UNCHANGED findVars,
         ctxDone' = ctxDone \/ ctxDone' = TRUE
  PROVE  Find!TypeOK' /\ Find!FindMatches'
<1>1. /\ UNCHANGED <<find, printed, fetched, dropped, sent, taken, open, stdout, stderr,
                     complain, logged, exec, result>>
      /\ Find!InHand' = Find!InHand
  BY DEF findVars, Find!InHand
<1>2. ctxDone' \in BOOLEAN /\ (ctxDone => ctxDone')
  BY DEF Find!TypeOK
<1>3. Find!TypeOK'
  BY <1>1, <1>2 DEF Find!TypeOK
<1>4. Find!FindMatches'
  BY <1>1, <1>2 DEF Find!FindMatches
<1>5. QED
  BY <1>3, <1>4

LEMMA WalkKept ==
  ASSUME Walk!TypeOK, Walk!WalkMatches, UNCHANGED walkVars,
         ctxDone' = ctxDone \/ ctxDone' = TRUE
  PROVE  Walk!TypeOK' /\ Walk!WalkMatches'
BY DEF Walk!TypeOK, Walk!WalkMatches, Walk!ErrorsKept, Walk!Appending, walkVars

LEMMA ContextKept ==
  /\ Find!Next => ctxDone' = ctxDone \/ ctxDone' = TRUE
  /\ Walk!Next => ctxDone' = ctxDone \/ ctxDone' = TRUE
<1>1. Find!Next => ctxDone' = ctxDone \/ ctxDone' = TRUE
  BY DEF Find!Next, Find!Process, Find!Stdout, Find!Stderr, Find!Execute,
         Find!Cancel, Find!PrintRow, Find!FindEnds, Find!FindKilled, Find!FindDies,
         Find!Complain, Find!Fetch, Find!Drop, Find!Accept, Find!Send, Find!StdoutEnds,
         Find!LogLine, Find!StderrEnds, Find!Take, Find!Start, Find!Wait, Find!Join,
         Find!Returned, Find!vars
<1>2. Walk!Next => ctxDone' = ctxDone \/ ctxDone' = TRUE
  BY DEF Walk!Next, Walk!Cancel, Walk!Take, Walk!Walker, Walk!Visit, Walk!AppendStarts,
         Walk!AppendEnds, Walk!Send, Walk!RaceKills, Walk!WalkEnds, Walk!Returned, Walk!vars
<1>3. QED
  BY <1>1, <1>2

(* What a scanner has returned stays. *)
LEMMA ReturnKept ==
  /\ Find!TypeOK /\ Find!FindMatches /\ Find!Next /\ result # "none" => result' = result
  /\ Walk!Next /\ walked # "none" => walked' = walked
<1>1. Find!TypeOK /\ Find!FindMatches /\ Find!Next /\ result # "none" => result' = result
  BY DEF Find!FindMatches, Find!Next, Find!Process, Find!Stdout, Find!Stderr, Find!Execute,
         Find!Cancel, Find!PrintRow, Find!FindEnds, Find!FindKilled, Find!FindDies,
         Find!Complain, Find!Fetch, Find!Drop, Find!Accept, Find!Send, Find!StdoutEnds,
         Find!LogLine, Find!StderrEnds, Find!Take, Find!Start, Find!Wait, Find!Join,
         Find!Returned, Find!vars
<1>2. Walk!Next /\ walked # "none" => walked' = walked
  BY DEF Walk!Next, Walk!Cancel, Walk!Take, Walk!Walker, Walk!Visit, Walk!AppendStarts,
         Walk!AppendEnds, Walk!Send, Walk!RaceKills, Walk!WalkEnds, Walk!Returned, Walk!vars
<1>3. QED
  BY <1>1, <1>2

LEMMA StepScan ==
  ASSUME IInv, [Next]_vars
  PROVE  IInv'
<1>1. /\ Find!TypeOK /\ Find!FindMatches /\ Walk!TypeOK /\ Walk!WalkMatches
      /\ method \in {"find", "walk"} /\ errorChan \in {"empty", "nil", "error"}
      /\ closed \in BOOLEAN /\ (closed <=> errorChan # "empty")
      /\ (method = "find" => \A w \in Walkers : pc[w] = "idle")
      /\ (method = "walk" => stdout = "idle")
      /\ (closed => errorChan = Returned)
  BY DEF IInv, TypeOK, ScanMatches
<1>2. CASE Finds(Find!Next)
  <2>1. Find!TypeOK' /\ Find!FindMatches'
    BY <1>1, <1>2, FindTypes, FindStep DEF Finds
  <2>2. Walk!TypeOK' /\ Walk!WalkMatches'
    BY <1>1, <1>2, WalkKept, ContextKept DEF Finds
  <2>3. method = "find" /\ UNCHANGED <<method, errorChan, closed, pc, walked>>
    BY <1>2 DEF Finds, outVars, walkVars
  <2>4. closed => errorChan' = Returned'
    BY <1>1, <1>2, <2>3, ReturnKept DEF Returned, Finds
  <2>5. QED
    BY <1>1, <2>1, <2>2, <2>3, <2>4 DEF IInv, TypeOK, ScanMatches
<1>3. CASE Walks(Walk!Next)
  <2>1. Walk!TypeOK' /\ Walk!WalkMatches'
    BY <1>1, <1>3, WalkTypes, WalkStep DEF Walks
  <2>2. Find!TypeOK' /\ Find!FindMatches'
    BY <1>1, <1>3, FindKept, ContextKept DEF Walks
  <2>3. method = "walk" /\ UNCHANGED <<method, errorChan, closed, stdout, result>>
    BY <1>3 DEF Walks, outVars, findVars
  <2>4. closed => errorChan' = Returned'
    BY <1>1, <1>3, <2>3, ReturnKept DEF Returned, Walks
  <2>5. QED
    BY <1>1, <2>1, <2>2, <2>3, <2>4 DEF IInv, TypeOK, ScanMatches
<1>4. CASE Close \/ UNCHANGED vars
  <2>1. UNCHANGED <<method, ctxDone, findVars, walkVars>>
    BY <1>4 DEF Close, vars, outVars
  <2>2. Find!TypeOK' /\ Find!FindMatches' /\ Walk!TypeOK' /\ Walk!WalkMatches'
    BY <1>1, <2>1, FindKept, WalkKept
  <2>3. UNCHANGED <<pc, stdout, result, walked>>
    BY <2>1 DEF findVars, walkVars
  <2>4. /\ errorChan' \in {"empty", "nil", "error"} /\ closed' \in BOOLEAN
        /\ (closed' <=> errorChan' # "empty") /\ (closed' => errorChan' = Returned')
    <3>1. Returned' = Returned
      BY <2>1, <2>3 DEF Returned
    <3>2. CASE Close
      BY <3>1, <3>2 DEF Close
    <3>3. CASE UNCHANGED vars
      BY <1>1, <3>1, <3>3 DEF vars, outVars
    <3>4. QED
      BY <1>4, <3>2, <3>3
  <2>5. QED
    BY <1>1, <2>1, <2>2, <2>3, <2>4 DEF IInv, TypeOK, ScanMatches
<1>5. QED
  BY <1>2, <1>3, <1>4 DEF Next

-----------------------------------------------------------------------------
(* The theorems *)

(* The invariant behind the two results below is inductive: executeFind    *)
(* returns only when its readers are through, the walkers lose no error    *)
(* but in a race, and the scanner that was not chosen has not moved.       *)
THEOREM ScanInvariant == Spec => []IInv
<1>1. QED
  BY InitScan, StepScan, PTL DEF Spec

(* When the entry channel is closed nobody is left to send on it, and      *)
(* unless the run was cancelled no row is left in hand                     *)
(* (handleFindStdout, executeFind, Scanner.execute).                       *)
THEOREM ScanSendsFetched == Spec => []FetchedIsSent
<1>1. ASSUME IInv, closed
      PROVE  /\ stdout \notin {"reads", "sends"} /\ \A w \in Walkers : pc[w] = "idle"
             /\ ctxDone \/ Find!InHand = 0
  <2>1. Returned \in {"nil", "error"}
    BY <1>1 DEF IInv, TypeOK, ScanMatches
  <2>2. CASE method = "find"
    <3>1. result # "none" /\ \A w \in Walkers : pc[w] = "idle"
      BY <1>1, <2>1, <2>2 DEF IInv, ScanMatches, Returned
    <3>2. stdout \in {"idle", "done"}
      BY <1>1, <3>1 DEF IInv, ScanMatches, Find!FindMatches
    <3>3. QED
      BY <1>1, <3>1, <3>2 DEF IInv, ScanMatches, Find!FindMatches
  <2>3. CASE method = "walk"
    <3>1. walked \in {"nil", "error"} /\ stdout = "idle"
      BY <1>1, <2>1, <2>3 DEF IInv, ScanMatches, Returned
    <3>2. QED
      BY <1>1, <3>1 DEF IInv, ScanMatches, Find!FindMatches, Walk!WalkMatches
  <2>4. QED
    BY <1>1, <2>2, <2>3 DEF IInv, TypeOK
<1>2. IInv => FetchedIsSent
  BY <1>1 DEF FetchedIsSent
<1>3. QED
  BY <1>2, ScanInvariant, PTL

(* A scan that went wrong does not end with a nil error: find's exit is    *)
(* looked at, and the walkers' errors are there as long as no two of the   *)
(* unlocked appends have overlapped (executeFind, scanDirectory).          *)
THEOREM ScanReportsBad == Spec => []BadScanReported
<1>1. IInv => BadScanReported
  BY DEF IInv, TypeOK, ScanMatches, BadScanReported, Returned, Find!FindMatches,
         Walk!WalkMatches
<1>2. QED
  BY <1>1, ScanInvariant, PTL
=============================================================================
