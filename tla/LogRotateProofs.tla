--------------------------- MODULE LogRotateProofs ---------------------------
(***************************************************************************)
(* Proofs about LogRotate: no rotation asked for by SIGHUP overwrites a    *)
(* rotated log, and the live log keeps its configured name over any one    *)
(* failing call.                                                           *)
(***************************************************************************)
EXTENDS LogRotate, SequenceTheorems, TLAPS

Jobs == [stream : Streams, file : Names]
Phases == {"none", "inspect", "next", "rename", "open", "replace", "dup", "leave"}

-----------------------------------------------------------------------------
(* Names and their stamps *)

(* A stamped name is a name, and it tells the name and the stamp. *)
LEMMA StampedName ==
  ASSUME NEW n \in Names, NEW t \in Stamps
  PROVE  Stamped(n, t) \in Names
BY DEF Stamped, Names

LEMMA StampedFields ==
  ASSUME NEW n \in Names, NEW t \in Stamps
  PROVE  /\ Stamped(n, t).stream = n.stream
         /\ Stamped(n, t).stamps = Append(n.stamps, t)
BY DEF Stamped, Names

LEMMA StampedTells ==
  ASSUME NEW m \in Names, NEW n \in Names, NEW t \in Stamps,
         Stamped(m, t) = Stamped(n, t)
  PROVE  m = n
<1>1. m.stream = n.stream /\ Append(m.stamps, t) = Append(n.stamps, t)
  BY StampedFields
<1>2. m.stamps \in Seq(Stamps) /\ n.stamps \in Seq(Stamps)
  BY DEF Names
<1>3. m.stamps = n.stamps
  BY <1>1, <1>2, AppendProperties
<1>4. QED
  BY <1>1, <1>3 DEF Names

(* A stamped name is nobody's configured name. *)
LEMMA StampedNotConfigured ==
  ASSUME NEW n \in Names, NEW t \in Stamps, NEW s \in Streams
  PROVE  Stamped(n, t) # Configured(s)
<1>1. n.stamps \in Seq(Stamps)
  BY DEF Names
<1>2. Append(n.stamps, t) # <<>>
  BY <1>1, AppendProperties
<1>3. Stamped(n, t).stamps # <<>> /\ Configured(s).stamps = <<>>
  BY <1>2, StampedFields DEF Configured
<1>4. QED
  BY <1>3

LEMMA ConfiguredName ==
  ASSUME NEW s \in Streams
  PROVE  Configured(s) \in Names
BY DEF Configured, Names

LEMMA ConfiguredTells ==
  ASSUME NEW s \in Streams, NEW r \in Streams, Configured(s) = Configured(r)
  PROVE  s = r
<1>1. Configured(s).stream = s /\ Configured(r).stream = r
  BY DEF Configured
<1>2. QED
  BY <1>1

(* Stamping with a later stamp than those of the name. *)
LEMMA BeforeStamp ==
  ASSUME NEW m \in Names, NEW n \in Names, NEW t \in Stamps, Before(n, t)
  PROVE  n # Stamped(m, t)
<1>1. m.stamps \in Seq(Stamps) /\ t \in Int
  BY DEF Names, Stamps
<1>2. SUFFICES ASSUME n = Stamped(m, t)
               PROVE  FALSE
  OBVIOUS
<1>3. n.stamps = Append(m.stamps, t)
  BY <1>2, StampedFields
<1>4. Len(m.stamps) + 1 \in DOMAIN n.stamps /\ n.stamps[Len(m.stamps) + 1] = t
  BY <1>1, <1>3
<1>5. t < t
  BY <1>4 DEF Before
<1>6. QED
  BY <1>1, <1>5

LEMMA StampOf ==
  ASSUME NEW n \in Names, NEW k \in DOMAIN n.stamps
  PROVE  n.stamps[k] \in Int
<1>1. n.stamps \in Seq(Stamps)
  BY DEF Names
<1>2. k \in 1..Len(n.stamps)
  BY <1>1
<1>3. n.stamps[k] \in Stamps
  BY <1>1, <1>2, ElementOfSeq
<1>4. QED
  BY <1>3, LogRotateAssumption DEF Stamps

LEMMA StampBefore ==
  ASSUME NEW n \in Names, NEW t \in Stamps, Before(n, t)
  PROVE  Before(Stamped(n, t), t + 1)
<1>1. n.stamps \in Seq(Stamps) /\ Stamps \subseteq Int /\ t \in Int
  BY DEF Names, Stamps
<1>2. Stamped(n, t).stamps = Append(n.stamps, t)
  BY StampedFields
<1>3. SUFFICES ASSUME NEW k \in DOMAIN Append(n.stamps, t)
               PROVE  Append(n.stamps, t)[k] < t + 1
  BY <1>2 DEF Before
<1>4. CASE k = Len(n.stamps) + 1
  BY <1>1, <1>4
<1>5. CASE k # Len(n.stamps) + 1
  <2>1. k \in DOMAIN n.stamps /\ Append(n.stamps, t)[k] = n.stamps[k]
    BY <1>1, <1>3, <1>5
  <2>2. n.stamps[k] < t
    BY <2>1 DEF Before
  <2>3. n.stamps[k] \in Int
    BY <2>1, StampOf
  <2>4. QED
    BY <1>1, <2>1, <2>2, <2>3
<1>6. QED
  BY <1>4, <1>5

LEMMA BeforeLater ==
  ASSUME NEW n \in Names, NEW t \in Int, NEW u \in Int, t <= u, Before(n, t)
  PROVE  Before(n, u)
<1>1. n.stamps \in Seq(Stamps) /\ Stamps \subseteq Int
  BY DEF Names, Stamps
<1>2. SUFFICES ASSUME NEW k \in DOMAIN n.stamps
               PROVE  n.stamps[k] < u
  BY DEF Before
<1>3. n.stamps[k] < t
  BY DEF Before
<1>4. n.stamps[k] \in Int
  BY StampOf
<1>5. QED
  BY <1>3, <1>4

LEMMA ConfiguredBefore ==
  ASSUME NEW s \in Streams, NEW t
  PROVE  Before(Configured(s), t)
<1>1. DOMAIN Configured(s).stamps = {}
  BY DEF Configured
<1>2. QED
  BY <1>1 DEF Before

(* What a job list holds, and what is left of it when its first is done. *)
LEMMA TailOf ==
  ASSUME NEW q \in Seq(Jobs), q # <<>>
  PROVE  /\ Head(q) \in Jobs /\ Head(q) = q[1] /\ 1 \in DOMAIN q
         /\ Tail(q) \in Seq(Jobs)
         /\ \A k \in DOMAIN Tail(q) :
              k \in Nat \ {0} /\ k + 1 \in DOMAIN q /\ Tail(q)[k] = q[k + 1]
BY HeadTailProperties

(* The job lists of an inspection. *)
LEMMA JobLists ==
  ASSUME NEW i \in Jobs, NEW j \in Jobs
  PROVE  <<i>> \in Seq(Jobs) /\ <<i, j>> \in Seq(Jobs)
OBVIOUS

-----------------------------------------------------------------------------
(* Types *)

LEMMA Typed ==
  ASSUME TypeOK
  PROVE  /\ clock \in Nat /\ faults \in Nat /\ since \in Nat
         /\ \A a \in Askers : at[a] \in Stamps /\ at[a] \in Nat
         /\ \A s \in Streams : fd[s] \in Files
         /\ \A i \in Files : name[i] \in Names \cup {Unused, Unlinked}
         /\ Stamps \subseteq Nat
BY LogRotateAssumption DEF TypeOK, Stamps

(* What a rename does to each file. *)
LEMMA RenamedFiles ==
  ASSUME NEW old \in Names, NEW new \in Names,
         name \in [Files -> Names \cup {Unused, Unlinked}]
  PROVE  /\ Renamed(old, new) \in [Files -> Names \cup {Unused, Unlinked}]
         /\ \A i \in Files :
              /\ name[i] = old => Renamed(old, new)[i] = new
              /\ name[i] # old /\ name[i] = new => Renamed(old, new)[i] = Unlinked
              /\ name[i] # old /\ name[i] # new => Renamed(old, new)[i] = name[i]
BY DEF Renamed

LEMMA SomeOf ==
  ASSUME NEW S, S # {}
  PROVE  Some(S) \in S
BY DEF Some

(* At the start out is at its configured name, and err with it or at its own. *)
LEMMA StartFiles ==
  ASSUME Init
  PROVE  \E i, j \in Files :
           /\ fd = [s \in Streams |-> IF s = "out" THEN i ELSE j]
           /\ name = [x \in Files |-> CASE x = i -> Configured("out")
                                        [] x = j /\ x # i -> Configured("err")
                                        [] OTHER -> Unused]
<1>1. Some(Files) \in Files
  BY LogRotateAssumption, SomeOf
<1>2. Some(Files \ {Some(Files)}) \in Files
  <2>1. Files \ {Some(Files)} # {}
    BY LogRotateAssumption
  <2>2. QED
    BY <2>1, SomeOf
<1>3. QED
  BY <1>1, <1>2 DEF Init

LEMMA InitTypes == Init => TypeOK
<1>1. SUFFICES ASSUME Init
               PROVE  TypeOK
  OBVIOUS
<1>2. PICK i \in Files, j \in Files :
        /\ fd = [s \in Streams |-> IF s = "out" THEN i ELSE j]
        /\ name = [x \in Files |-> CASE x = i -> Configured("out")
                                     [] x = j /\ x # i -> Configured("err")
                                     [] OTHER -> Unused]
  BY <1>1, StartFiles
<1>3. Configured("out") \in Names /\ Configured("err") \in Names
  BY ConfiguredName DEF Streams
<1>4. fd \in [Streams -> Files] /\ name \in [Files -> Names \cup {Unused, Unlinked}]
  BY <1>2, <1>3
<1>5. 0 \in Stamps /\ 0 \in 0..MaxClock /\ 0 \in 0..MaxFaults
  BY LogRotateAssumption DEF Stamps
<1>6. QED
  BY <1>1, <1>3, <1>4, <1>5 DEF Init, TypeOK

LEMMA StepTypes ==
  ASSUME TypeOK, LockMatches, JobMatches, FilesMatch, [Next]_vars
  PROVE  TypeOK'
<1>1. CASE UNCHANGED vars
  BY <1>1 DEF TypeOK, vars, askVars, lockVars, rotVars, fsVars
<1>2. CASE Tick
  <2>1. clock' \in 0..MaxClock
    BY <1>2, LogRotateAssumption DEF TypeOK, Tick
  <2>2. QED
    BY <1>2, <2>1 DEF TypeOK, Tick, askVars, lockVars, rotVars, fsVars
<1>3. ASSUME NEW s \in Streams, Write(s)
      PROVE  TypeOK'
  BY <1>3 DEF TypeOK, Write, Wrote, askVars, lockVars, rotVars
<1>4. ASSUME NEW a \in Askers, Ask(a)
      PROVE  TypeOK'
  <2>1. clock \in Stamps
    BY DEF TypeOK, Stamps
  <2>2. QED
    BY <1>4, <2>1 DEF TypeOK, Ask, lockVars, rotVars, fsVars
<1>5. ASSUME NEW a \in Askers, Enter(a)
      PROVE  TypeOK'
  <2>1. clock \in Stamps
    BY DEF TypeOK, Stamps
  <2>2. QED
    BY <1>5, <2>1 DEF TypeOK, Enter, fsVars
<1>6. ASSUME NEW a \in Askers, Leave(a)
      PROVE  TypeOK'
  <2>1. 0 \in Stamps
    BY LogRotateAssumption DEF Stamps
  <2>2. QED
    BY <1>6, <2>1 DEF TypeOK, Leave, fsVars
<1>7. ASSUME NEW a \in Askers, Inspect(a)
      PROVE  TypeOK'
  <2>1. ASSUME \E s \in Streams : name[fd[s]] = Unlinked
        PROVE  todo' \in Seq(Jobs)
    <3>1. todo' = <<>>
      BY <1>7, <2>1 DEF Inspect
    <3>2. QED
      BY <3>1
  <2>2. ASSUME ~ \E s \in Streams : name[fd[s]] = Unlinked
        PROVE  todo' \in Seq(Jobs)
    <3> DEFINE out == [stream |-> "out", file |-> name[fd["out"]]]
               err == [stream |-> "err", file |-> name[fd["err"]]]
    <3>1. \A s \in Streams : name[fd[s]] \in Names
      BY <2>2, Typed DEF FilesMatch, Opened
    <3>2. out \in Jobs /\ err \in Jobs
      BY <3>1 DEF Jobs, Streams
    <3>3. todo' = <<out>> \/ todo' = <<out, err>>
      BY <1>7, <2>2 DEF Inspect
    <3>4. QED
      BY <3>2, <3>3, JobLists
  <2>3. todo' \in Seq(Jobs)
    BY <2>1, <2>2
  <2>4. QED
    BY <1>7, <2>3 DEF TypeOK, Inspect, askVars, lockVars, fsVars, Jobs
<1>8. ASSUME NEW a \in Askers, Pick(a)
      PROVE  TypeOK'
  <2>1. CASE todo = <<>>
    BY <1>8, <2>1 DEF TypeOK, Pick, askVars, lockVars, fsVars
  <2>2. CASE todo # <<>>
    <3>1. Head(todo).file \in Names
      BY <2>2, TailOf DEF TypeOK, Jobs
    <3>2. Stamped(Head(todo).file, at[a]) \in Names
      BY <3>1, StampedName, Typed
    <3>3. todo' \in Seq(Jobs)
      BY <1>8, <2>2, TailOf DEF TypeOK, Pick, Jobs
    <3>4. from' \in Names /\ to' \in Names
      BY <1>8, <3>1, <3>2 DEF TypeOK, Pick
    <3>5. QED
      BY <1>8, <3>3, <3>4 DEF TypeOK, Pick, askVars, lockVars, fsVars, Jobs
  <2>3. QED
    BY <2>1, <2>2
<1>9. ASSUME NEW a \in Askers, Rename(a) \/ Open(a) \/ Replace(a) \/ DupStderr(a)
      PROVE  TypeOK'
  <2>1. todo # <<>> /\ Stream \in Streams /\ Tail(todo) \in Seq(Jobs)
    <3>1. todo # <<>>
      BY <1>9 DEF JobMatches, Begun, Rename, Open, Replace, DupStderr
    <3>2. QED
      BY <3>1, TailOf DEF TypeOK, Jobs, Stream
  <2>2. todo' = todo \/ Done
    BY <1>9 DEF Rename, Open, Replace, DupStderr, Undo
  <2>3. todo' \in Seq([stream : Streams, file : Names])
    BY <2>1, <2>2 DEF TypeOK, Done, Jobs
  <2>4. lines' \in [Files -> BOOLEAN]
    <3>1. lines' = lines \/ (\E s \in Streams : Wrote(s)) \/ lines' = [lines EXCEPT ![fresh] = TRUE]
      BY <1>9, <2>1 DEF Rename, Open, Replace, DupStderr, Undo, Streams
    <3>2. QED
      BY <3>1 DEF Wrote, TypeOK
  <2>5. faults' \in 0..MaxFaults
    BY <1>9, LogRotateAssumption
    DEF Rename, Open, Replace, DupStderr, Undo, NoFault, Fault, TypeOK
  <2>6. name' \in [Files -> Names \cup {Unused, Unlinked}] /\ fresh' \in Files \cup {Nobody}
    <3>1. CASE Rename(a)
      BY <3>1, RenamedFiles DEF Rename, Done, TypeOK
    <3>2. CASE Open(a) /\ ~Undo
      <4>1. fresh' \in Files
        BY <3>2, SomeOf DEF Open, Free
      <4>2. QED
        BY <3>2, <4>1 DEF Open, TypeOK
    <3>3. CASE Undo
      BY <3>3, RenamedFiles DEF Undo, Done, TypeOK
    <3>4. CASE (Replace(a) \/ DupStderr(a)) /\ ~Undo
      BY <3>4 DEF Replace, DupStderr, Done, TypeOK
    <3>5. QED
      BY <1>9, <3>1, <3>2, <3>3, <3>4
  <2>7. fd' \in [Streams -> Files]
    <3>1. CASE Replace(a)
      <4>1. fresh \in Files
        BY <3>1 DEF Replace, FilesMatch
      <4>2. QED
        BY <3>1, <4>1 DEF Replace, TypeOK
    <3>2. CASE ~Replace(a)
      BY <1>9, <3>2 DEF Rename, Open, DupStderr, TypeOK, Streams
    <3>3. QED
      BY <3>1, <3>2
  <2>8. phase' \in Phases
    BY <1>9 DEF Rename, Open, Replace, DupStderr, Undo, Done, Phases
  <2>9. UNCHANGED <<clock, pc, at, holder, since, from, to>>
    BY <1>9 DEF Rename, Open, Replace, DupStderr, askVars, lockVars
  <2>10. QED
    BY <2>3, <2>4, <2>5, <2>6, <2>7, <2>8, <2>9 DEF TypeOK, Phases
<1>10. QED
  BY <1>1, <1>2, <1>3, <1>4, <1>5, <1>6, <1>7, <1>8, <1>9 DEF Next, Rotation

-----------------------------------------------------------------------------
(* The mutex, the job in hand, and the files behind the streams *)

LEMMA InitControl == Init => LockMatches /\ JobMatches /\ FilesMatch
<1>1. SUFFICES ASSUME Init
               PROVE  LockMatches /\ JobMatches /\ FilesMatch
  OBVIOUS
<1>2. LockMatches /\ JobMatches
  BY <1>1, LogRotateAssumption DEF Init, LockMatches, JobMatches, Begun, Askers
<1>3. FilesMatch
  <2>1. PICK i \in Files, j \in Files :
          /\ fd = [s \in Streams |-> IF s = "out" THEN i ELSE j]
          /\ name = [x \in Files |-> CASE x = i -> Configured("out")
                                       [] x = j /\ x # i -> Configured("err")
                                       [] OTHER -> Unused]
    BY <1>1, StartFiles
  <2>2. Configured("out") # Unused /\ Configured("err") # Unused
    BY LogRotateAssumption, ConfiguredName DEF Streams
  <2>3. \A x \in Files : Opened(x) => name[x] # Unused
    BY <2>1, <2>2 DEF Opened, Streams
  <2>4. phase = "none" /\ \A x \in Files : ~lines[x]
    BY <1>1 DEF Init
  <2>5. QED
    BY <2>3, <2>4 DEF FilesMatch
<1>4. QED
  BY <1>2, <1>3

LEMMA StepLock ==
  ASSUME TypeOK, LockMatches, [Next]_vars
  PROVE  LockMatches'
<1>1. CASE UNCHANGED vars \/ Tick \/ \E s \in Streams : Write(s)
  BY <1>1 DEF LockMatches, Tick, Write, vars, askVars, lockVars, rotVars
<1>2. ASSUME NEW a \in Askers, Ask(a)
      PROVE  LockMatches'
  BY <1>2 DEF LockMatches, TypeOK, Ask, lockVars, rotVars
<1>3. ASSUME NEW a \in Askers, Enter(a)
      PROVE  LockMatches'
  BY <1>3, LogRotateAssumption DEF LockMatches, TypeOK, Enter
<1>4. ASSUME NEW a \in Askers, Leave(a)
      PROVE  LockMatches'
  BY <1>4, LogRotateAssumption DEF LockMatches, TypeOK, Leave
<1>5. ASSUME NEW a \in Askers, Rotation(a)
      PROVE  LockMatches'
  <2>1. UNCHANGED <<pc, holder>> /\ holder = a
    BY <1>5 DEF Rotation, Inspect, Pick, Rename, Open, Replace, DupStderr, askVars, lockVars
  <2>2. phase' # "none"
    BY <1>5 DEF Rotation, Inspect, Pick, Rename, Open, Replace, DupStderr, Undo, Done
  <2>3. QED
    BY <2>1, <2>2, LogRotateAssumption DEF LockMatches
<1>6. QED
  BY <1>1, <1>2, <1>3, <1>4, <1>5 DEF Next

LEMMA StepJob ==
  ASSUME TypeOK, LockMatches, JobMatches, [Next]_vars
  PROVE  JobMatches'
<1>1. CASE UNCHANGED vars \/ Tick \/ \E s \in Streams : Write(s)
  BY <1>1 DEF JobMatches, Begun, Stamped, Tick, Write, vars, askVars, lockVars, rotVars
<1>2. ASSUME NEW a \in Askers, Ask(a)
      PROVE  JobMatches'
  <2>1. holder # a
    BY <1>2 DEF LockMatches, Ask
  <2>2. at'[holder] = at[holder] \/ holder \notin Askers
    BY <1>2, <2>1 DEF TypeOK, Ask
  <2>3. phase = "rename" \/ Begun => holder \in Askers
    BY DEF LockMatches, TypeOK, Begun
  <2>4. UNCHANGED <<phase, todo, from, to, holder>>
    BY <1>2 DEF Ask, lockVars, rotVars
  <2>5. QED
    BY <2>2, <2>3, <2>4 DEF JobMatches, Begun, Stamped
<1>3. ASSUME NEW a \in Askers, Enter(a) \/ Leave(a) \/ Inspect(a)
      PROVE  JobMatches'
  BY <1>3 DEF JobMatches, LockMatches, TypeOK, Begun, Enter, Leave, Inspect, fsVars
<1>4. ASSUME NEW a \in Askers, Pick(a)
      PROVE  JobMatches'
  BY <1>4 DEF JobMatches, Begun, Pick, askVars, lockVars, fsVars
<1>5. ASSUME NEW a \in Askers, Rename(a) \/ Open(a) \/ Replace(a) \/ DupStderr(a)
      PROVE  JobMatches'
  <2>1. phase' = "next" \/ (Begun' /\ UNCHANGED todo)
    BY <1>5 DEF Rename, Open, Replace, DupStderr, Undo, Done, Begun
  <2>2. UNCHANGED <<from, to, at, holder>> /\ (phase = "rename" \/ Begun)
    BY <1>5 DEF Rename, Open, Replace, DupStderr, Begun, askVars, lockVars
  <2>3. QED
    BY <2>1, <2>2 DEF JobMatches, Begun, Stamped
<1>6. QED
  BY <1>1, <1>2, <1>3, <1>4, <1>5 DEF Next, Rotation

(* No stream's file, and no file with lines, is free for a replacement. *)
LEMMA StepFiles ==
  ASSUME TypeOK, LockMatches, JobMatches, FilesMatch, [Next]_vars
  PROVE  FilesMatch'
<1>1. CASE UNCHANGED <<phase, name, lines, fd, from, fresh>>
  BY <1>1 DEF FilesMatch, Opened
<1>2. CASE UNCHANGED <<name, lines, fd, fresh>> /\ phase' # "replace"
  BY <1>2 DEF FilesMatch, Opened
<1>3. ASSUME NEW s \in Streams, Write(s)
      PROVE  FilesMatch'
  <2>1. \A i \in Files : lines'[i] = lines[i] \/ Opened(i)
    BY <1>3 DEF Write, Wrote, TypeOK, Opened
  <2>2. UNCHANGED <<phase, name, fd, from, fresh>>
    BY <1>3 DEF Write, rotVars
  <2>3. QED
    BY <2>1, <2>2 DEF FilesMatch, Opened
<1>4. ASSUME NEW a \in Askers, Rename(a) \/ Open(a) \/ Replace(a) \/ DupStderr(a)
      PROVE  FilesMatch'
  <2>1. todo # <<>> /\ Stream \in Streams
    <3>1. todo # <<>>
      BY <1>4 DEF JobMatches, Begun, Rename, Open, Replace, DupStderr
    <3>2. QED
      BY <3>1, TailOf DEF TypeOK, Jobs, Stream
  <2>2. from # Unused /\ to # Unused
    BY LogRotateAssumption DEF TypeOK
  <2>3. CASE Done /\ Wrote(Stream) /\ UNCHANGED fd
             /\ (\A i \in Files : name'[i] = Unused => name[i] = Unused)
    <3>1. \A i \in Files : lines'[i] => lines[i] \/ Opened(i)
      BY <2>1, <2>3 DEF Wrote, TypeOK, Opened
    <3>2. QED
      BY <2>3, <3>1 DEF FilesMatch, Opened, Done
  <2>4. CASE Rename(a) /\ ~Done
    <3>1. \A i \in Files : name'[i] = Unused => name[i] = Unused
      BY <2>2, <2>4, LogRotateAssumption, RenamedFiles DEF Rename, TypeOK
    <3>2. QED
      BY <2>4, <3>1 DEF FilesMatch, Opened, Rename
  <2>5. CASE Open(a) /\ ~Undo
    <3>1. fresh' \in Free
      BY <2>5, SomeOf DEF Open
    <3>2. /\ name' = [name EXCEPT ![fresh'] = from] /\ phase' = "replace"
          /\ UNCHANGED <<lines, fd, from>>
      BY <2>5 DEF Open
    <3>3. fresh' \in Files /\ ~lines[fresh'] /\ ~Opened(fresh')
      BY <3>1 DEF Free, FilesMatch
    <3>4. name'[fresh'] = from /\ \A i \in Files : name'[i] = Unused => name[i] = Unused
      BY <2>2, <3>2, <3>3 DEF TypeOK
    <3>5. QED
      BY <2>2, <3>2, <3>3, <3>4 DEF FilesMatch, Opened
  <2>6. CASE Replace(a) /\ ~Undo
    <3>1. fresh \in Files /\ name[fresh] # Unused /\ UNCHANGED name /\ phase' # "replace"
      BY <2>2, <2>6 DEF Replace, FilesMatch, Done
    <3>2. \A i \in Files : lines'[i] => lines[i] \/ i = fresh
      BY <2>6, <3>1 DEF Replace, TypeOK
    <3>3. \A s \in Streams : fd'[s] = fd[s] \/ fd'[s] = fresh
      BY <2>6 DEF Replace, TypeOK
    <3>4. QED
      BY <3>1, <3>2, <3>3 DEF FilesMatch, Opened
  <2>7. CASE DupStderr(a)
    <3>1. UNCHANGED name /\ phase' # "replace"
      BY <2>7 DEF DupStderr, Done
    <3>2. \A i \in Files : lines'[i] => lines[i] \/ Opened(i)
      BY <2>7 DEF DupStderr, Wrote, TypeOK, Opened, Streams
    <3>3. \A s \in Streams : Opened(fd'[s])
      BY <2>7 DEF DupStderr, TypeOK, Opened, Streams
    <3>4. QED
      BY <3>1, <3>2, <3>3 DEF FilesMatch, Opened
  <2>8. CASE (Open(a) \/ Replace(a)) /\ Undo
    <3>1. \A i \in Files : name'[i] = Unused => name[i] = Unused
      BY <2>2, <2>8, LogRotateAssumption, RenamedFiles DEF Undo, TypeOK
    <3>2. UNCHANGED fd
      BY <2>8, Typed DEF Undo, Open, Replace, NoFault, Fault
    <3>3. QED
      BY <2>3, <2>8, <3>1, <3>2 DEF Undo
  <2>9. CASE Rename(a) /\ Done
    <3>1. Wrote(Stream) /\ UNCHANGED <<name, fd>>
      BY <2>9 DEF Rename, Done
    <3>2. QED
      BY <2>3, <2>9, <3>1
  <2>10. QED
    BY <1>4, <2>4, <2>5, <2>6, <2>7, <2>8, <2>9
<1>5. CASE Tick \/ UNCHANGED vars
  BY <1>1, <1>5 DEF Tick, vars, rotVars, fsVars
<1>6. ASSUME NEW a \in Askers, Ask(a) \/ Enter(a) \/ Leave(a) \/ Inspect(a) \/ Pick(a)
      PROVE  FilesMatch'
  BY <1>1, <1>2, <1>6 DEF Ask, Enter, Leave, Inspect, Pick, rotVars, fsVars
<1>7. QED
  BY <1>3, <1>4, <1>5, <1>6 DEF Next, Rotation

-----------------------------------------------------------------------------
(* Rotations while nobody but SIGHUP has asked *)

Controlled == TypeOK /\ LockMatches /\ JobMatches /\ FilesMatch
HupInv == StampsGrow /\ NamesDistinct /\ LogsLinked

(* Then only SIGHUP's goroutine moves. *)
LEMMA HupAlone ==
  ASSUME Controlled, at["midnight"] = 0 => HupInv, [Next]_vars, at'["midnight"] = 0
  PROVE  /\ HupInv
         /\ \/ UNCHANGED vars \/ Tick \/ \E s \in Streams : Write(s)
            \/ Ask("hup") \/ Enter("hup") \/ Leave("hup") \/ Rotation("hup")
<1>1. HupInv
  <2>1. SUFFICES at["midnight"] = 0
    OBVIOUS
  <2>2. CASE Ask("midnight")
    <3>1. at'["midnight"] = clock /\ clock \in Midnights
      BY <2>2 DEF Ask, Controlled, TypeOK, Askers
    <3>2. QED
      BY <3>1, LogRotateAssumption
  <2>3. CASE ~Ask("midnight")
    <3>1. at' = at \/ Ask("hup")
      BY <2>3 DEF Next, Rotation, Inspect, Pick, Rename, Open, Replace, DupStderr, Enter, Leave,
                  Write, Tick, vars, askVars, Askers
    <3>2. at'["midnight"] = at["midnight"]
      BY <3>1 DEF Ask, Controlled, TypeOK, Askers
    <3>3. QED
      BY <3>2
  <2>4. QED
    BY <2>2, <2>3
<1>2. ~Enter("midnight") /\ ~Leave("midnight") /\ ~Rotation("midnight")
  <2>1. pc["midnight"] = "idle" /\ holder # "midnight"
    BY <1>1 DEF HupInv, StampsGrow, Controlled, LockMatches, Askers
  <2>2. QED
    BY <2>1 DEF Enter, Leave, Rotation, Inspect, Pick, Rename, Open, Replace, DupStderr
<1>3. ~Ask("midnight")
  <2>1. ASSUME Ask("midnight")
        PROVE  FALSE
    <3>1. at'["midnight"] = clock /\ clock \in Midnights
      BY <2>1 DEF Ask, Controlled, TypeOK, Askers
    <3>2. QED
      BY <3>1, LogRotateAssumption
  <2>2. QED
    BY <2>1
<1>4. QED
  BY <1>1, <1>2, <1>3 DEF Next, Askers

(* The jobs that an inspection finds are the streams' own files. *)
LEMMA InspectJobs ==
  ASSUME Controlled, NEW a \in Askers, Inspect(a)
  PROVE  /\ \A k \in DOMAIN todo' :
              /\ todo'[k].stream \in Streams
              /\ todo'[k].file = name[fd[todo'[k].stream]]
              /\ todo'[k].file \in Names
         /\ \A k, l \in DOMAIN todo' : todo'[k].stream = todo'[l].stream => k = l
         /\ Shared => \A k \in DOMAIN todo' : todo'[k].stream = "out"
<1>1. CASE \E s \in Streams : name[fd[s]] = Unlinked
  <2>1. todo' = <<>>
    BY <1>1 DEF Inspect
  <2>2. DOMAIN todo' = {}
    BY <2>1
  <2>3. QED
    BY <2>2
<1>2. CASE ~ \E s \in Streams : name[fd[s]] = Unlinked
  <2>1. \A s \in Streams : name[fd[s]] \in Names
    BY <1>2, Typed DEF Controlled, FilesMatch, Opened
  <2> DEFINE out == [stream |-> "out", file |-> name[fd["out"]]]
             err == [stream |-> "err", file |-> name[fd["err"]]]
  <2>3. todo' = <<out>> \/ (todo' = <<out, err>> /\ ~Shared)
    BY <1>2 DEF Inspect
  <2>4. /\ out.stream = "out" /\ out.file = name[fd["out"]]
        /\ err.stream = "err" /\ err.file = name[fd["err"]]
    OBVIOUS
  <2> HIDE DEF out, err
  <2>5. CASE todo' = <<out>>
    BY <2>1, <2>4, <2>5 DEF Streams
  <2>6. CASE todo' = <<out, err>> /\ ~Shared
    <3>1. DOMAIN todo' = {1, 2} /\ todo'[1] = out /\ todo'[2] = err
      BY <2>6
    <3>2. QED
      BY <2>1, <2>4, <2>6, <3>1 DEF Streams
  <2>7. QED
    BY <2>3, <2>5, <2>6
<1>3. QED
  BY <1>1, <1>2

(* The job in hand. *)
LEMMA JobInHand ==
  ASSUME Controlled, HupInv, holder = "hup", phase = "rename" \/ Begun
  PROVE  /\ todo # <<>> /\ Stream \in Streams /\ from \in Names /\ to \in Names
         /\ 1 \in DOMAIN todo /\ from = todo[1].file
         /\ to = Stamped(from, at["hup"]) /\ at["hup"] \in Stamps
         /\ Before(from, at["hup"]) /\ from # to
<1>1. todo # <<>> /\ from = Head(todo).file /\ to = Stamped(from, at["hup"])
  BY DEF Controlled, JobMatches
<1>2. Head(todo) \in Jobs /\ Head(todo) = todo[1] /\ 1 \in DOMAIN todo
  BY <1>1, TailOf DEF Controlled, TypeOK, Jobs
<1>3. at["hup"] \in Stamps /\ from \in Names /\ to \in Names
  BY DEF Controlled, TypeOK, Askers
<1>4. Before(from, at["hup"])
  BY <1>1, <1>2 DEF HupInv, StampsGrow
<1>5. from # to
  BY <1>1, <1>3, <1>4, BeforeStamp
<1>6. Stream \in Streams
  BY <1>2 DEF Stream, Jobs
<1>7. QED
  BY <1>1, <1>2, <1>3, <1>4, <1>5, <1>6

(* What SIGHUP's rotation does to the names. *)
LEMMA HupNames ==
  ASSUME Controlled, HupInv, Rotation("hup")
  PROVE  \/ UNCHANGED name
         \/ /\ phase = "rename" /\ phase' = "open" /\ UNCHANGED <<todo, lines, fd>>
            /\ \A i \in Files : name'[i] = IF name[i] = from THEN to ELSE name[i]
         \/ /\ phase = "open" /\ phase' = "replace" /\ UNCHANGED <<todo, lines, fd>>
            /\ fresh' \in Files /\ name[fresh'] = Unused
            /\ \A i \in Files : name'[i] = IF i = fresh' THEN from ELSE name[i]
         \/ /\ phase \in {"open", "replace"} /\ phase' = "next" /\ todo' = Tail(todo)
            /\ Wrote(Stream) /\ UNCHANGED fd
            /\ \A i \in Files : name'[i] = IF name[i] = to THEN from
                                           ELSE IF name[i] = from THEN Unlinked ELSE name[i]
<1>1. name \in [Files -> Names \cup {Unused, Unlinked}] /\ from \in Names /\ to \in Names
  BY DEF Controlled, TypeOK
<1>2. CASE Inspect("hup") \/ Pick("hup") \/ DupStderr("hup")
  BY <1>2 DEF Inspect, Pick, DupStderr, fsVars
<1>3. CASE Rename("hup")
  <2>1. CASE /\ NoFault /\ name' = Renamed(from, to) /\ phase' = "open"
             /\ UNCHANGED <<todo, lines, fd>>
    <3>1. \A i \in Files : name[i] # to
      <4>1. holder = "hup" /\ phase = "rename"
        BY <1>3 DEF Rename
      <4>2. QED
        BY <4>1, JobInHand DEF HupInv, NamesDistinct, Begun
    <3>2. \A i \in Files : name'[i] = IF name[i] = from THEN to ELSE name[i]
      BY <1>1, <2>1, <3>1, RenamedFiles
    <3>3. QED
      BY <1>3, <2>1, <3>2 DEF Rename
  <2>2. QED
    BY <1>3, <2>1 DEF Rename
<1>4. CASE (Open("hup") \/ Replace("hup")) /\ Undo
  <2>1. phase \in {"open", "replace"} /\ phase' = "next" /\ todo' = Tail(todo) /\ Wrote(Stream)
    BY <1>4 DEF Open, Replace, Undo, Done
  <2>2. UNCHANGED fd
    BY <1>4, Typed DEF Undo, Open, Replace, NoFault, Fault, Controlled
  <2>3. UNCHANGED name \/ name' = Renamed(to, from)
    BY <1>4 DEF Undo
  <2>4. QED
    BY <1>1, <2>1, <2>2, <2>3, RenamedFiles
<1>5. CASE Open("hup") /\ ~Undo
  <2>1. /\ fresh' \in Free /\ name' = [name EXCEPT ![fresh'] = from]
        /\ phase = "open" /\ phase' = "replace" /\ UNCHANGED <<todo, lines, fd>>
    BY <1>5, SomeOf DEF Open
  <2>2. QED
    BY <1>1, <2>1 DEF Free
<1>6. CASE Replace("hup") /\ ~Undo
  BY <1>6 DEF Replace
<1>7. QED
  BY <1>2, <1>3, <1>4, <1>5, <1>6 DEF Rotation

(* Its stamps grow. *)
LEMMA StepGrow ==
  ASSUME Controlled, HupInv, Controlled',
         \/ UNCHANGED vars \/ Tick \/ \E s \in Streams : Write(s)
         \/ Ask("hup") \/ Enter("hup") \/ Leave("hup") \/ Rotation("hup")
  PROVE  StampsGrow'
<1> USE DEF Controlled
<1>1. /\ clock \in Nat /\ clock' \in Nat /\ since \in Nat /\ since' \in Nat
      /\ at["hup"] \in Nat /\ at'["hup"] \in Nat /\ at["hup"] \in Stamps
  BY LogRotateAssumption DEF TypeOK, Stamps, Askers
<1>2. Horizon \in Int /\ Horizon' \in Int
  BY <1>1 DEF Horizon
<1>3. pc["hup"] = "rotating" <=> holder = "hup"
  BY DEF LockMatches, Askers
<1>4. ASSUME Horizon <= Horizon',
             \A i \in Files : name'[i] \in Names =>
               name'[i] = name[i] \/ Before(name'[i], Horizon')
      PROVE  \A i \in Files : name'[i] \in Names => Before(name'[i], Horizon')
  BY <1>2, <1>4, BeforeLater DEF HupInv, StampsGrow
<1>5. CASE UNCHANGED vars \/ \E s \in Streams : Write(s)
  BY <1>5 DEF HupInv, StampsGrow, Horizon, Before, Write, vars, askVars, lockVars, rotVars, fsVars
<1>6. CASE Tick
  <2>1. UNCHANGED <<pc, at, since, phase, todo, name>> /\ clock' = clock + 1
    BY <1>6 DEF Tick, askVars, lockVars, rotVars, fsVars
  <2>2. Horizon <= Horizon'
    BY <1>1, <2>1 DEF Horizon
  <2>3. QED
    BY <1>1, <1>4, <2>1, <2>2 DEF HupInv, StampsGrow, Before
<1>7. CASE Ask("hup")
  <2>1. /\ UNCHANGED <<clock, since, phase, todo, name>> /\ pc["hup"] = "idle"
        /\ pc'["hup"] = "waiting" /\ at'["hup"] = clock /\ pc'["midnight"] = pc["midnight"]
    BY <1>7 DEF Ask, TypeOK, Askers, lockVars, rotVars, fsVars
  <2>2. Horizon' = Horizon
    BY <2>1 DEF Horizon
  <2>3. todo = <<>>
    <3>1. holder = Nobody
      BY <2>1 DEF LockMatches, TypeOK, Askers, HupInv, StampsGrow
    <3>2. QED
      BY <3>1 DEF LockMatches, JobMatches
  <2>4. DOMAIN todo' = {}
    BY <2>1, <2>3
  <2>5. QED
    BY <1>1, <1>2, <1>4, <2>1, <2>2, <2>4 DEF HupInv, StampsGrow
<1>8. CASE Enter("hup")
  <2>1. /\ UNCHANGED <<clock, at, todo, name>> /\ pc["hup"] = "waiting" /\ phase' = "inspect"
        /\ since' = clock /\ pc'["hup"] = "rotating" /\ pc'["midnight"] = pc["midnight"]
    BY <1>8 DEF Enter, TypeOK, Askers, fsVars
  <2>2. Horizon' = Horizon
    BY <2>1 DEF Horizon
  <2>3. QED
    BY <1>1, <1>2, <1>4, <2>1, <2>2 DEF HupInv, StampsGrow, Before
<1>9. CASE Leave("hup")
  <2>1. /\ UNCHANGED <<clock, at, todo, name>> /\ holder = "hup" /\ phase = "leave"
        /\ clock > since /\ pc'["hup"] = "idle" /\ pc'["midnight"] = pc["midnight"]
    BY <1>9 DEF Leave, TypeOK, Askers, fsVars
  <2>2. at["hup"] <= since
    BY <1>3, <2>1 DEF HupInv, StampsGrow
  <2>3. Horizon <= Horizon'
    BY <1>1, <1>3, <2>1, <2>2 DEF Horizon
  <2>4. QED
    BY <1>1, <1>4, <2>1, <2>3 DEF HupInv, StampsGrow, Before
<1>10. CASE Rotation("hup")
  <2>1. UNCHANGED <<clock, pc, at, since, holder>> /\ holder = "hup"
    BY <1>10 DEF Rotation, Inspect, Pick, Rename, Open, Replace, DupStderr, askVars, lockVars
  <2>2. pc["hup"] = "rotating"
    BY <1>3, <2>1
  <2>3. phase' # "inspect"
    BY <1>10 DEF Rotation, Inspect, Pick, Rename, Open, Replace, DupStderr, Undo, Done
  <2>4. Horizon' = at["hup"] + 1 /\ Horizon <= Horizon'
    BY <1>1, <2>1, <2>2, <2>3 DEF Horizon
  <2>5. \A i \in Files : name'[i] \in Names =>
          name'[i] = name[i] \/ Before(name'[i], Horizon')
    <3>1. phase = "rename" \/ Begun =>
            /\ Before(to, Horizon') /\ Before(from, Horizon')
      <4>1. ASSUME phase = "rename" \/ Begun
            PROVE  Before(to, Horizon') /\ Before(from, Horizon')
        <5>1. /\ from \in Names /\ to = Stamped(from, at["hup"])
              /\ Before(from, at["hup"])
          BY <2>1, <4>1, JobInHand
        <5>2. QED
          BY <1>1, <1>2, <2>4, <5>1, StampBefore, BeforeLater
      <4>2. QED
        BY <4>1
    <3>2. \A i \in Files : name'[i] = name[i] \/ name'[i] = Unlinked
                           \/ ((phase = "rename" \/ Begun) /\ name'[i] \in {from, to})
      BY <1>10, HupNames DEF Begun
    <3>3. QED
      BY <3>1, <3>2, LogRotateAssumption
  <2>6. \A k \in DOMAIN todo' : Before(todo'[k].file, at["hup"])
    <3>1. CASE Inspect("hup")
      <4>1. phase = "inspect"
        BY <3>1 DEF Inspect
      <4>2. Horizon = at["hup"]
        BY <2>2, <4>1 DEF Horizon
      <4>3. ASSUME NEW k \in DOMAIN todo'
            PROVE  Before(todo'[k].file, at["hup"])
        <5>1. PICK i \in Files : todo'[k].file = name[i] /\ name[i] \in Names
          BY <3>1, InspectJobs, Typed DEF Askers
        <5>2. Before(name[i], Horizon)
          BY <5>1 DEF HupInv, StampsGrow
        <5>3. QED
          BY <4>2, <5>1, <5>2
      <4>4. QED
        BY <4>3
    <3>2. CASE ~Inspect("hup")
      <4>1. todo' = todo \/ (todo # <<>> /\ todo' = Tail(todo))
        BY <1>10, <3>2
        DEF Rotation, Pick, Rename, Open, Replace, DupStderr, Undo, Done, Begun, JobMatches
      <4>2. CASE todo' = todo
        BY <4>2 DEF HupInv, StampsGrow
      <4>3. CASE todo # <<>> /\ todo' = Tail(todo)
        <5>1. todo # <<>> /\ todo \in Seq(Jobs)
          BY <4>3 DEF TypeOK, Jobs
        <5>2. QED
          BY <4>3, <5>1, TailOf DEF HupInv, StampsGrow
      <4>4. QED
        BY <4>1, <4>2, <4>3
    <3>3. QED
      BY <3>1, <3>2
  <2>7. QED
    BY <1>1, <1>4, <2>1, <2>4, <2>5, <2>6 DEF HupInv, StampsGrow, Before
<1>11. QED
  BY <1>5, <1>6, <1>7, <1>8, <1>9, <1>10

(* No two files have one name, and no job's new name is in use. *)
LEMMA StepDistinct ==
  ASSUME Controlled, HupInv, Controlled',
         \/ UNCHANGED vars \/ Tick \/ \E s \in Streams : Write(s)
         \/ Ask("hup") \/ Enter("hup") \/ Leave("hup") \/ Rotation("hup")
  PROVE  NamesDistinct'
<1>1. CASE UNCHANGED <<name, todo, from, fresh, phase, at>>
  BY <1>1 DEF HupInv, NamesDistinct, Begun, Stamped
<1>2. CASE UNCHANGED vars \/ Tick \/ \E s \in Streams : Write(s)
  BY <1>1, <1>2 DEF Tick, Write, vars, askVars, rotVars, fsVars
<1>3. CASE Ask("hup") \/ Enter("hup") \/ Leave("hup")
  <2>1. todo = <<>> /\ UNCHANGED <<todo, name>>
    <3>1. phase \in {"none", "leave"}
      BY <1>3 DEF Controlled, LockMatches, HupInv, StampsGrow, TypeOK, Askers, Ask, Enter, Leave
    <3>2. QED
      BY <1>3, <3>1 DEF Controlled, JobMatches, Ask, Enter, Leave, rotVars, fsVars
  <2>2. DOMAIN todo' = {}
    BY <2>1
  <2>3. phase' \notin {"open", "replace"}
    BY <1>3 DEF Controlled, JobMatches, Begun, Ask, Enter, Leave, rotVars, LockMatches, HupInv,
                StampsGrow, TypeOK, Askers
  <2>4. QED
    BY <2>1, <2>2, <2>3 DEF HupInv, NamesDistinct
<1>4. CASE Inspect("hup")
  <2>1. /\ phase = "inspect" /\ phase' = "next" /\ UNCHANGED <<name, at>> /\ holder = "hup"
    BY <1>4 DEF Inspect, askVars, fsVars
  <2>2. ASSUME NEW k \in DOMAIN todo', NEW l \in DOMAIN todo', todo'[k].file = todo'[l].file
        PROVE  k = l
    <3>1. fd[todo'[k].stream] = fd[todo'[l].stream]
      BY <1>4, <2>2, InspectJobs, Typed DEF Askers, HupInv, NamesDistinct, Controlled
    <3>2. todo'[k].stream = todo'[l].stream
      BY <1>4, <3>1, InspectJobs DEF Askers, Streams, Shared
    <3>3. QED
      BY <1>4, <3>2, InspectJobs DEF Askers
  <2>3. ASSUME NEW k \in DOMAIN todo', NEW i \in Files
        PROVE  name[i] # Stamped(todo'[k].file, at["hup"])
    <3>1. todo'[k].file \in Names /\ at["hup"] \in Stamps
      BY <1>4, InspectJobs DEF Askers, Controlled, TypeOK
    <3>2. CASE name[i] \in Names
      <4>1. Horizon = at["hup"]
        BY <2>1 DEF Horizon, Controlled, LockMatches, Askers
      <4>2. Before(name[i], at["hup"])
        BY <3>2, <4>1 DEF HupInv, StampsGrow
      <4>3. QED
        BY <3>1, <3>2, <4>2, BeforeStamp
    <3>3. CASE name[i] \notin Names
      BY <3>1, <3>3, StampedName
    <3>4. QED
      BY <3>2, <3>3
  <2>4. QED
    BY <2>1, <2>2, <2>3 DEF HupInv, NamesDistinct, Stamped
<1>5. CASE Pick("hup")
  <2>1. /\ phase = "next" /\ phase' \in {"next", "rename", "leave"} /\ UNCHANGED <<name, at>>
        /\ todo' = todo \/ (todo # <<>> /\ todo' = Tail(todo))
    BY <1>5 DEF Pick, askVars, fsVars
  <2>2. \A k \in DOMAIN todo, i \in Files : name[i] # Stamped(todo[k].file, at["hup"])
    BY <2>1 DEF HupInv, NamesDistinct, Begun
  <2>3. CASE todo' = todo
    BY <2>1, <2>3 DEF HupInv, NamesDistinct, Begun, Stamped
  <2>4. CASE todo # <<>> /\ todo' = Tail(todo)
    <3>1. \A k \in DOMAIN todo' :
            k \in Nat \ {0} /\ k + 1 \in DOMAIN todo /\ todo'[k] = todo[k + 1]
      BY <2>4, TailOf DEF Controlled, TypeOK, Jobs
    <3>2. \A k \in DOMAIN todo', l \in DOMAIN todo' : todo'[k].file = todo'[l].file => k = l
      BY <3>1 DEF HupInv, NamesDistinct
    <3>3. \A k \in DOMAIN todo', i \in Files : name[i] # Stamped(todo'[k].file, at["hup"])
      BY <2>2, <3>1
    <3>4. QED
      BY <2>1, <3>2, <3>3 DEF HupInv, NamesDistinct, Stamped
  <2>5. QED
    BY <2>1, <2>3, <2>4
<1>6. CASE Rename("hup") \/ Open("hup") \/ Replace("hup") \/ DupStderr("hup")
  <2>1. /\ holder = "hup" /\ (phase = "rename" \/ Begun) /\ UNCHANGED <<at, from, to>>
        /\ \/ phase' = "next" /\ todo' = Tail(todo)
           \/ Begun' /\ UNCHANGED todo
    BY <1>6 DEF Rename, Open, Replace, DupStderr, Undo, Done, Begun, askVars
  <2>2. /\ todo # <<>> /\ from \in Names /\ to \in Names
        /\ 1 \in DOMAIN todo /\ from = todo[1].file
        /\ to = Stamped(from, at["hup"]) /\ at["hup"] \in Stamps
        /\ Before(from, at["hup"]) /\ from # to
    BY <2>1, JobInHand
  <2>3. todo \in Seq(Jobs) /\ \A k \in DOMAIN todo : todo[k].file \in Names
    <3>1. todo \in Seq(Jobs)
      BY DEF Controlled, TypeOK, Jobs
    <3>2. \A k \in DOMAIN todo : todo[k] \in Jobs
      BY <3>1, ElementOfSeq
    <3>3. QED
      BY <3>1, <3>2 DEF Jobs
  <2>4. \A k \in DOMAIN todo : from # Stamped(todo[k].file, at["hup"])
    BY <2>2, <2>3, BeforeStamp
  <2>5. \A k \in DOMAIN todo : to = Stamped(todo[k].file, at["hup"]) => k = 1
    <3>1. ASSUME NEW k \in DOMAIN todo, to = Stamped(todo[k].file, at["hup"])
          PROVE  k = 1
      <4>1. todo[k].file = from
        BY <2>2, <2>3, <3>1, StampedTells
      <4>2. QED
        BY <2>2, <4>1 DEF HupInv, NamesDistinct
    <3>2. QED
      BY <3>1
  <2>6. \A k, l \in DOMAIN todo' : todo'[k].file = todo'[l].file => k = l
    <3>1. CASE UNCHANGED todo
      BY <3>1 DEF HupInv, NamesDistinct
    <3>2. CASE todo' = Tail(todo)
      <4>1. \A k \in DOMAIN todo' :
              k \in Nat /\ k + 1 \in DOMAIN todo /\ todo'[k] = todo[k + 1]
        BY <2>2, <2>3, <3>2, TailOf
      <4>2. ASSUME NEW k \in DOMAIN todo', NEW l \in DOMAIN todo', todo'[k].file = todo'[l].file
            PROVE  k = l
        <5>1. k + 1 = l + 1
          BY <4>1, <4>2 DEF HupInv, NamesDistinct
        <5>2. QED
          BY <4>1, <5>1
      <4>3. QED
        BY <4>2
    <3>3. QED
      BY <2>1, <3>1, <3>2
  <2>7. \A i, j \in Files : name[i] = name[j] /\ name[i] \in Names => i = j
    BY DEF HupInv, NamesDistinct
  <2>8. phase = "open" => \A i \in Files : name[i] # from
    BY DEF HupInv, NamesDistinct
  <2>9. phase = "replace" => \A i \in Files : name[i] = from => i = fresh
    BY DEF HupInv, NamesDistinct
  <2>10. Rotation("hup")
    BY <1>6 DEF Rotation
  <2>11. Unlinked \notin Names /\ Unused \notin Names
    BY LogRotateAssumption
  <2>12. \A i, j \in Files : name'[i] = name'[j] /\ name'[i] \in Names => i = j
    <3>1. CASE UNCHANGED name
      BY <2>7, <3>1
    <3>2. CASE /\ phase = "rename"
               /\ \A i \in Files : name'[i] = IF name[i] = from THEN to ELSE name[i]
      <4>1. \A i \in Files : name[i] # to
        BY <2>2, <3>2 DEF HupInv, NamesDistinct, Begun
      <4>2. QED
        BY <2>2, <2>7, <3>2, <4>1
    <3>3. CASE /\ phase = "open" /\ fresh' \in Files
               /\ \A i \in Files : name'[i] = IF i = fresh' THEN from ELSE name[i]
      BY <2>7, <2>8, <3>3
    <3>4. CASE \A i \in Files : name'[i] = IF name[i] = to THEN from
                                           ELSE IF name[i] = from THEN Unlinked ELSE name[i]
      BY <2>2, <2>7, <2>11, <3>4
    <3>5. QED
      BY <2>10, <3>1, <3>2, <3>3, <3>4, HupNames
  <2>13. \A i \in Files : name'[i] = from => phase' # "open" /\ (phase' = "replace" => i = fresh')
    <3>1. CASE phase' = "open"
      <4>1. /\ phase = "rename"
            /\ \A i \in Files : name'[i] = name[i] \/ name'[i] = to
            /\ \A i \in Files : name[i] = from => name'[i] = to
        <5>1. phase = "rename" /\ name' = Renamed(from, to)
          BY <1>6, <3>1 DEF Rename, Open, Replace, DupStderr, Undo, Done
        <5>2. \A i \in Files : name[i] # to
          BY <2>2, <5>1 DEF HupInv, NamesDistinct, Begun
        <5>3. QED
          BY <2>2, <5>1, <5>2, RenamedFiles DEF Controlled, TypeOK
      <4>2. QED
        BY <2>2, <4>1
    <3>2. CASE phase' = "replace"
      <4>1. phase = "open" /\ name' = [name EXCEPT ![fresh'] = from]
        BY <1>6, <3>2 DEF Rename, Open, Replace, DupStderr, Undo, Done
      <4>2. QED
        BY <2>8, <3>2, <4>1 DEF Controlled, TypeOK
    <3>3. QED
      BY <3>1, <3>2
  <2>14. \A k \in DOMAIN todo', i \in Files :
           name'[i] = Stamped(todo'[k].file, at["hup"]) => Begun' /\ k = 1
    <3>1. ASSUME NEW k \in DOMAIN todo, NEW i \in Files,
                 name'[i] = Stamped(todo[k].file, at["hup"])
          PROVE  k = 1
      <4>1. name'[i] # Unlinked
        BY <2>2, <2>3, <2>11, <3>1, StampedName
      <4>2. name'[i] \in {name[i], from, to}
        BY <2>10, <4>1, HupNames
      <4>3. name[i] = Stamped(todo[k].file, at["hup"]) => k = 1
        BY DEF HupInv, NamesDistinct
      <4>4. QED
        BY <2>4, <2>5, <3>1, <4>2, <4>3
    <3>2. CASE Begun' /\ UNCHANGED todo
      BY <3>1, <3>2
    <3>3. CASE todo' = Tail(todo)
      <4>1. \A k \in DOMAIN todo' :
              k \in Nat \ {0} /\ k + 1 \in DOMAIN todo /\ todo'[k] = todo[k + 1]
        BY <2>2, <2>3, <3>3, TailOf
      <4>2. ASSUME NEW k \in DOMAIN todo', NEW i \in Files,
                   name'[i] = Stamped(todo'[k].file, at["hup"])
            PROVE  FALSE
        <5>1. k + 1 = 1
          BY <3>1, <4>1, <4>2
        <5>2. QED
          BY <4>1, <5>1
      <4>3. QED
        BY <4>2
    <3>4. QED
      BY <2>1, <3>2, <3>3
  <2>15. QED
    BY <2>1, <2>6, <2>12, <2>13, <2>14 DEF NamesDistinct, Stamped
<1>7. QED
  BY <1>2, <1>3, <1>4, <1>5, <1>6 DEF Rotation

(* Every file with lines keeps a name, and so does the file of a stream. *)
LEMMA StepLinked ==
  ASSUME Controlled, HupInv, Controlled',
         \/ UNCHANGED vars \/ Tick \/ \E s \in Streams : Write(s)
         \/ Ask("hup") \/ Enter("hup") \/ Leave("hup") \/ Rotation("hup")
  PROVE  LogsLinked'
<1>1. CASE UNCHANGED <<name, lines, fd>>
  BY <1>1 DEF HupInv, LogsLinked, Opened
<1>2. ASSUME \A i \in Files : lines'[i] => lines[i] \/ Opened(i),
             UNCHANGED <<name, fd>>
      PROVE  LogsLinked'
  BY <1>2 DEF HupInv, LogsLinked, Opened
<1>3. ASSUME NEW s \in Streams, Wrote(s)
      PROVE  \A i \in Files : lines'[i] => lines[i] \/ Opened(i)
  BY <1>3 DEF Wrote, Controlled, TypeOK, Opened
<1>4. ASSUME NEW s \in Streams, Write(s)
      PROVE  LogsLinked'
  BY <1>2, <1>3, <1>4 DEF Write
<1>5. CASE Rotation("hup")
  <2>1. CASE Inspect("hup") \/ Pick("hup")
    BY <1>1, <2>1 DEF Inspect, Pick, fsVars
  <2>2. CASE Rename("hup") \/ Open("hup") \/ Replace("hup") \/ DupStderr("hup")
    <3>1. Stream \in Streams
      <4>1. holder = "hup" /\ (phase = "rename" \/ Begun)
        BY <2>2 DEF Rename, Open, Replace, DupStderr, Begun
      <4>2. QED
        BY <4>1, JobInHand
    <3>2. \A i \in Files : name'[i] = Unlinked =>
            name[i] = Unlinked \/ (phase = "replace" /\ i = fresh)
      <4>1. \A i \in Files : name[i] = from => phase # "open" /\ (phase = "replace" => i = fresh)
        BY DEF HupInv, NamesDistinct
      <4>2. from # Unlinked /\ to # Unlinked
        BY LogRotateAssumption DEF Controlled, TypeOK
      <4>3. QED
        BY <1>5, <4>1, <4>2, HupNames
    <3>3. phase = "replace" => name[fresh] # Unlinked /\ ~lines[fresh] /\ ~Opened(fresh)
      BY LogRotateAssumption DEF Controlled, FilesMatch, TypeOK
    <3>4. CASE UNCHANGED fd
      <4>1. \A i \in Files : lines'[i] => lines[i] \/ Opened(i) \/ (phase = "replace" /\ i = fresh
                                                                     /\ UNCHANGED name)
        <5>1. \/ lines' = lines \/ Wrote(Stream) \/ Wrote("out") \/ Wrote("err")
              \/ phase = "replace" /\ lines' = [lines EXCEPT ![fresh] = TRUE] /\ UNCHANGED name
          BY <2>2 DEF Rename, Open, Replace, DupStderr, Undo
        <5>2. QED
          BY <1>3, <3>1, <5>1 DEF Streams, Controlled, TypeOK
      <4>2. QED
        BY <3>2, <3>3, <3>4, <4>1 DEF HupInv, LogsLinked, Opened
    <3>5. CASE fd' # fd
      <4>1. UNCHANGED name
        BY <2>2, <3>5 DEF Rename, Open, Replace, DupStderr
      <4>2. \A s \in Streams : Opened(fd'[s]) \/ (phase = "replace" /\ fd'[s] = fresh)
        BY <2>2, <3>5 DEF Rename, Open, Replace, DupStderr, Controlled, TypeOK, Opened, Streams
      <4>3. \A i \in Files : lines'[i] => lines[i] \/ Opened(i) \/ (phase = "replace" /\ i = fresh)
        <5>1. \/ lines' = lines \/ Wrote(Stream) \/ Wrote("out") \/ Wrote("err")
              \/ phase = "replace" /\ lines' = [lines EXCEPT ![fresh] = TRUE]
          BY <2>2 DEF Rename, Open, Replace, DupStderr, Undo
        <5>2. QED
          BY <1>3, <3>1, <5>1 DEF Streams, Controlled, TypeOK
      <4>4. QED
        BY <3>3, <4>1, <4>2, <4>3 DEF HupInv, LogsLinked, Opened
    <3>6. QED
      BY <3>4, <3>5
  <2>3. QED
    BY <1>5, <2>1, <2>2 DEF Rotation
<1>6. CASE UNCHANGED vars \/ Tick \/ Ask("hup") \/ Enter("hup") \/ Leave("hup")
  BY <1>1, <1>6 DEF Tick, Ask, Enter, Leave, vars, fsVars
<1>7. QED
  BY <1>4, <1>5, <1>6

LEMMA InitHup == Init => HupInv
<1>1. SUFFICES ASSUME Init
               PROVE  HupInv
  OBVIOUS
<1>2. PICK i \in Files, j \in Files :
        /\ fd = [s \in Streams |-> IF s = "out" THEN i ELSE j]
        /\ name = [x \in Files |-> CASE x = i -> Configured("out")
                                     [] x = j /\ x # i -> Configured("err")
                                     [] OTHER -> Unused]
  BY <1>1, StartFiles
<1>3. /\ Configured("out") \in Names /\ Configured("err") \in Names
      /\ Configured("out") # Configured("err")
  BY ConfiguredName, ConfiguredTells DEF Streams
<1>4. \A x \in Files : \/ name[x] = Configured("out") /\ x = i
                       \/ name[x] = Configured("err") /\ x = j
                       \/ name[x] = Unused
  BY <1>2
<1>5. StampsGrow
  <2>1. \A x \in Files : name[x] \in Names => Before(name[x], Horizon)
    BY <1>4, ConfiguredBefore, LogRotateAssumption DEF Streams
  <2>2. DOMAIN todo = {} /\ at["hup"] = 0 /\ clock = 0 /\ pc = [a \in Askers |-> "idle"]
    BY <1>1 DEF Init, Askers
  <2>3. QED
    BY <2>1, <2>2 DEF StampsGrow, Askers
<1>6. NamesDistinct
  <2>1. DOMAIN todo = {} /\ phase = "none"
    BY <1>1 DEF Init
  <2>2. \A x, y \in Files : name[x] = name[y] /\ name[x] \in Names => x = y
    BY <1>3, <1>4, LogRotateAssumption
  <2>3. QED
    BY <2>1, <2>2 DEF NamesDistinct
<1>7. LogsLinked
  <2>1. \A x \in Files : ~lines[x] /\ name[x] # Unlinked
    BY <1>1, <1>3, <1>4, LogRotateAssumption DEF Init
  <2>2. QED
    BY <2>1 DEF LogsLinked
<1>8. QED
  BY <1>5, <1>6, <1>7 DEF HupInv

-----------------------------------------------------------------------------
(* The configured names *)

(* The job in hand is a stream's own file exactly when it is the stream's. *)
LEMMA OwnJob ==
  ASSUME Controlled, NEW s \in Streams, OwnName(s), phase = "rename" \/ Begun
  PROVE  /\ todo \in Seq(Jobs) /\ todo # <<>> /\ Stream \in Streams
         /\ from \in Names /\ to \in Names /\ from # to
         /\ Stream = s <=> from = Configured(s)
         /\ to # Configured(s) /\ Configured(s) \in Names
<1>1. todo \in Seq(Jobs) /\ todo # <<>> /\ from = Head(todo).file /\ to = Stamped(from, at[holder])
  BY DEF Controlled, TypeOK, JobMatches, Jobs
<1>2. Head(todo) \in Jobs /\ Head(todo) = todo[1] /\ 1 \in DOMAIN todo
  BY <1>1, TailOf
<1>3. Stream = s <=> from = Configured(s)
  BY <1>1, <1>2 DEF OwnName, Stream
<1>4. from \in Names /\ to \in Names /\ Stream \in Streams
  BY <1>2 DEF Controlled, TypeOK, Jobs, Stream
<1>5. at[holder] \in Stamps
  BY DEF Controlled, LockMatches, TypeOK, Begun
<1>6. to # Configured(s) /\ Configured(s) \in Names
  BY <1>1, <1>4, <1>5, StampedNotConfigured, ConfiguredName
<1>7. from # to
  <2>1. from.stamps \in Seq(Stamps)
    BY <1>4 DEF Names
  <2>2. to.stamps = Append(from.stamps, at[holder])
    BY <1>1, <1>4, <1>5, StampedFields
  <2>3. Len(to.stamps) = Len(from.stamps) + 1 /\ Len(from.stamps) \in Nat
    BY <1>5, <2>1, <2>2, AppendProperties
  <2>4. QED
    BY <2>3
<1>8. QED
  BY <1>1, <1>3, <1>4, <1>6, <1>7

LEMMA StepOwn ==
  ASSUME Controlled, Controlled', NEW s \in Streams, OwnName(s), s = "out" \/ ~Joined,
         [Next]_vars, faults' <= 1
  PROVE  OwnName(s)'
<1>1. name \in [Files -> Names \cup {Unused, Unlinked}] /\ fd \in [Streams -> Files]
  BY DEF Controlled, TypeOK
<1>2. Configured(s) \in Names /\ Unused \notin Names /\ Unlinked \notin Names
  BY ConfiguredName, LogRotateAssumption
<1>3. CASE UNCHANGED <<name, fd, todo, from, to, fresh, phase>>
  BY <1>3 DEF OwnName, AtHome, OnTheMove, Stream, Configured
<1>4. CASE /\ UNCHANGED <<name, fd, todo>>
           /\ phase \notin {"open", "replace"} /\ phase' \notin {"open", "replace"}
  BY <1>4 DEF OwnName, AtHome, Configured
<1>5. ASSUME NEW a \in Askers, Enter(a) \/ Leave(a) \/ Pick(a)
      PROVE  OwnName(s)'
  <2>1. /\ phase \notin {"open", "replace"} /\ phase' \notin {"open", "replace"}
        /\ UNCHANGED <<name, fd>>
        /\ todo' = todo \/ (todo # <<>> /\ todo' = Tail(todo))
    BY <1>5 DEF Enter, Leave, Pick, Controlled, LockMatches, fsVars
  <2>2. CASE todo' = todo
    BY <1>4, <2>1, <2>2
  <2>3. CASE todo # <<>> /\ todo' = Tail(todo)
    <3>1. \A k \in DOMAIN todo' : k + 1 \in DOMAIN todo /\ todo'[k] = todo[k + 1]
      BY <2>3, TailOf DEF Controlled, TypeOK, Jobs
    <3>2. \A k \in DOMAIN todo' : todo'[k].stream = s <=> todo'[k].file = Configured(s)
      BY <3>1 DEF OwnName
    <3>3. QED
      BY <2>1, <3>2 DEF OwnName, AtHome, Configured
  <2>4. QED
    BY <2>1, <2>2, <2>3
<1>6. ASSUME NEW a \in Askers, Inspect(a)
      PROVE  OwnName(s)'
  <2>1. phase = "inspect" /\ phase' = "next" /\ UNCHANGED <<name, fd>>
    BY <1>6 DEF Inspect, fsVars
  <2>2. \A i \in Files : name[i] = Configured(s) <=> i = fd[s]
    BY <2>1 DEF OwnName, AtHome
  <2>3. ASSUME NEW k \in DOMAIN todo'
        PROVE  todo'[k].stream = s <=> todo'[k].file = Configured(s)
    <3>1. todo'[k].stream \in Streams /\ todo'[k].file = name[fd[todo'[k].stream]]
      BY <1>6, InspectJobs
    <3>2. fd[todo'[k].stream] = fd[s] => todo'[k].stream = s
      <4>1. Shared => todo'[k].stream = "out"
        BY <1>6, InspectJobs
      <4>2. QED
        BY <3>1, <4>1 DEF Shared, Joined, Streams
    <3>3. QED
      BY <1>1, <2>2, <3>1, <3>2
  <2>4. QED
    BY <2>1, <2>2, <2>3 DEF OwnName, AtHome, Configured
<1>7. ASSUME NEW a \in Askers, Rename(a) \/ Open(a) \/ Replace(a) \/ DupStderr(a)
      PROVE  OwnName(s)'
  <2>1. /\ todo \in Seq(Jobs) /\ todo # <<>> /\ Stream \in Streams
        /\ from \in Names /\ to \in Names /\ from # to
        /\ Stream = s <=> from = Configured(s)
        /\ to # Configured(s)
    <3>1. phase = "rename" \/ Begun
      BY <1>7 DEF Rename, Open, Replace, DupStderr, Begun
    <3>2. QED
      BY <3>1, OwnJob
  <2>2. \A k \in DOMAIN todo : todo[k].stream = s <=> todo[k].file = Configured(s)
    BY DEF OwnName
  <2>3. todo' = todo \/ todo' = Tail(todo)
    BY <1>7 DEF Rename, Open, Replace, DupStderr, Undo, Done
  <2>4. \A k \in DOMAIN todo' : todo'[k].stream = s <=> todo'[k].file = Configured(s)
    BY <2>1, <2>2, <2>3, TailOf
  <2>5. ASSUME AtHome(s)', phase' \notin {"open", "replace"} \/ (UNCHANGED todo /\ Stream # s)
        PROVE  OwnName(s)'
    BY <2>4, <2>5 DEF OwnName, AtHome, Configured, Stream
  <2>6. ASSUME OnTheMove(s)', phase' \in {"open", "replace"}, UNCHANGED todo, Stream = s
        PROVE  OwnName(s)'
    BY <2>4, <2>6 DEF OwnName, AtHome, OnTheMove, Configured, Stream
  <2>7. phase \in {"open", "replace"} /\ Stream = s => OnTheMove(s)
    BY DEF OwnName
  <2>8. ~(phase \in {"open", "replace"} /\ Stream = s) => AtHome(s)
    BY DEF OwnName
  <2>9. CASE Rename(a)
    <3>1. phase = "rename" /\ UNCHANGED <<from, to, fd>>
      BY <2>9 DEF Rename
    <3>2. \A i \in Files : name[i] = Configured(s) <=> i = fd[s]
      BY <2>8, <3>1 DEF AtHome
    <3>3. CASE name' = Renamed(from, to) /\ phase' = "open" /\ UNCHANGED todo
      <4>1. CASE Stream = s
        <5>1. from = Configured(s)
          BY <2>1, <4>1
        <5>2. \A i \in Files : name'[i] = to <=> i = fd[s]
          BY <1>1, <1>2, <2>1, <3>2, <3>3, <5>1, RenamedFiles
        <5>3. \A i \in Files : name'[i] # from
          BY <1>1, <1>2, <2>1, <3>2, <3>3, <5>1, RenamedFiles
        <5>4. OnTheMove(s)'
          BY <3>1, <3>3, <5>1, <5>2, <5>3 DEF OnTheMove, Configured
        <5>5. QED
          BY <2>6, <3>3, <4>1, <5>4
      <4>2. CASE Stream # s
        <5>1. \A i \in Files : name'[i] = Configured(s) <=> i = fd[s]
          BY <1>1, <1>2, <2>1, <3>2, <3>3, <4>2, RenamedFiles
        <5>2. QED
          BY <2>5, <3>1, <3>3, <4>2, <5>1 DEF AtHome, Configured
      <4>3. QED
        BY <4>1, <4>2
    <3>4. CASE UNCHANGED name /\ phase' = "next"
      BY <2>5, <3>1, <3>2, <3>4 DEF AtHome, Configured
    <3>5. QED
      BY <2>9, <3>3, <3>4 DEF Rename, Done
  <2>10. CASE (Open(a) \/ Replace(a)) /\ Undo
    <3>1. name' = Renamed(to, from) /\ phase' = "next"
      <4>1. faults' # faults + 2
        BY Typed DEF Controlled
      <4>2. QED
        BY <2>10, <4>1 DEF Undo, Done
    <3>2. UNCHANGED fd
      BY <2>10, Typed DEF Undo, Open, Replace, NoFault, Fault, Controlled
    <3>3. phase \in {"open", "replace"}
      BY <2>10 DEF Open, Replace
    <3>4. \A i \in Files : name'[i] = Configured(s) <=> i = fd[s]
      <4>1. CASE Stream = s
        <5>1. from = Configured(s) /\ \A i \in Files : name[i] = to <=> i = fd[s]
          BY <2>7, <3>3, <4>1 DEF OnTheMove
        <5>2. QED
          BY <1>1, <1>2, <2>1, <3>1, <5>1, RenamedFiles
      <4>2. CASE Stream # s
        <5>1. from # Configured(s) /\ \A i \in Files : name[i] = Configured(s) <=> i = fd[s]
          BY <2>1, <2>8, <4>2 DEF AtHome
        <5>2. QED
          BY <1>1, <1>2, <2>1, <3>1, <5>1, RenamedFiles
      <4>3. QED
        BY <4>1, <4>2
    <3>5. QED
      BY <2>5, <3>1, <3>2, <3>4 DEF AtHome, Configured
  <2>11. CASE Open(a) /\ ~Undo
    <3>1. /\ fresh' \in Free /\ name' = [name EXCEPT ![fresh'] = from]
          /\ phase = "open" /\ phase' = "replace" /\ UNCHANGED <<todo, fd, from, to>>
      BY <2>11, SomeOf DEF Open
    <3>2. /\ fresh' \in Files /\ name[fresh'] = Unused
          /\ \A i \in Files : name'[i] = IF i = fresh' THEN from ELSE name[i]
      BY <1>1, <3>1 DEF Free
    <3>3. CASE Stream = s
      <4>1. /\ from = Configured(s)
            /\ \A i \in Files : name[i] = to <=> i = fd[s]
            /\ \A i \in Files : name[i] # from
        BY <2>7, <3>1, <3>3 DEF OnTheMove
      <4>2. \A i \in Files : name'[i] = to <=> i = fd[s]
        BY <1>2, <2>1, <3>2, <4>1
      <4>3. \A i \in Files : name'[i] = from <=> i = fresh'
        BY <3>2, <4>1
      <4>4. OnTheMove(s)'
        BY <3>1, <4>1, <4>2, <4>3 DEF OnTheMove, Configured
      <4>5. QED
        BY <2>6, <3>1, <3>3, <4>4
    <3>4. CASE Stream # s
      <4>1. from # Configured(s) /\ \A i \in Files : name[i] = Configured(s) <=> i = fd[s]
        BY <2>1, <2>8, <3>4 DEF AtHome
      <4>2. \A i \in Files : name'[i] = Configured(s) <=> i = fd[s]
        BY <1>1, <1>2, <3>2, <4>1
      <4>3. QED
        BY <2>5, <3>1, <3>4, <4>2 DEF AtHome, Configured
    <3>5. QED
      BY <3>3, <3>4
  <2>12. CASE Replace(a) /\ ~Undo
    <3>1. /\ UNCHANGED name /\ fd' = [fd EXCEPT ![Stream] = fresh]
          /\ phase = "replace" /\ phase' \notin {"open", "replace"}
      BY <2>12 DEF Replace, Done
    <3>2. CASE Stream = s
      <4>1. /\ from = Configured(s)
            /\ \A i \in Files : name[i] = from <=> i = fresh
        BY <2>7, <3>1, <3>2 DEF OnTheMove
      <4>2. fd'[s] = fresh
        BY <1>1, <3>1, <3>2
      <4>3. QED
        BY <2>5, <3>1, <4>1, <4>2 DEF AtHome, Configured
    <3>3. CASE Stream # s
      <4>1. fd'[s] = fd[s]
        BY <1>1, <3>1, <3>3
      <4>2. QED
        BY <2>5, <2>8, <3>1, <3>3, <4>1 DEF AtHome, Configured
    <3>4. QED
      BY <3>2, <3>3
  <2>13. CASE DupStderr(a)
    <3>1. s = "out" /\ phase = "dup" /\ phase' = "next" /\ UNCHANGED name /\ fd'["out"] = fd["out"]
      BY <1>1, <2>13 DEF DupStderr, Done, Joined, Streams
    <3>2. QED
      BY <2>5, <2>8, <3>1 DEF AtHome, Configured
  <2>14. QED
    BY <1>7, <2>9, <2>10, <2>11, <2>12, <2>13
<1>8. CASE Tick \/ UNCHANGED vars \/ \E r \in Streams : Write(r)
  BY <1>3, <1>8 DEF Tick, Write, vars, rotVars, fsVars
<1>9. ASSUME NEW a \in Askers, Ask(a)
      PROVE  OwnName(s)'
  BY <1>3, <1>9 DEF Ask, rotVars, fsVars
<1>10. QED
  BY <1>5, <1>6, <1>7, <1>8, <1>9 DEF Next, Rotation

(* Without a failure streams stay joined, or stay apart. *)
LEMMA StepJoined ==
  ASSUME Controlled, Controlled', [Next]_vars, faults' = 0
  PROVE  Joined' = Joined
<1>1. CASE UNCHANGED <<fd, phase>>
  BY <1>1 DEF Joined, Shared
<1>2. CASE UNCHANGED fd /\ phase # "dup" /\ phase' # "dup"
  BY <1>2 DEF Joined, Shared
<1>3. ASSUME NEW a \in Askers, Enter(a) \/ Leave(a) \/ Inspect(a) \/ Pick(a) \/ Rename(a) \/ Open(a)
      PROVE  Joined' = Joined
  <2>1. UNCHANGED fd /\ phase' # "dup"
    BY <1>3 DEF Enter, Leave, Inspect, Pick, Rename, Open, Undo, Done, fsVars
  <2>2. phase # "dup"
    BY <1>3 DEF Enter, Leave, Inspect, Pick, Rename, Open, Controlled, LockMatches
  <2>3. QED
    BY <1>2, <2>1, <2>2
<1>4. ASSUME NEW a \in Askers, Replace(a)
      PROVE  Joined' = Joined
  <2>1. ~Undo
    BY Typed DEF Undo, Fault, Controlled
  <2>2. /\ phase = "replace" /\ fd' = [fd EXCEPT ![Stream] = fresh] /\ Stream \in Streams
        /\ IF Shared THEN phase' = "dup" ELSE phase' = "next"
    <3>1. todo # <<>>
      BY <1>4 DEF Replace, Controlled, JobMatches, Begun
    <3>2. Stream \in Streams
      BY <3>1, TailOf DEF Controlled, TypeOK, Jobs, Stream
    <3>3. QED
      BY <1>4, <2>1, <3>2 DEF Replace, Done
  <2>3. CASE Shared
    BY <2>2, <2>3 DEF Joined
  <2>4. CASE ~Shared
    <3>1. fresh # fd["out"] /\ fresh # fd["err"] /\ fresh \in Files
      BY <2>2 DEF Controlled, FilesMatch, Opened, Streams
    <3>2. fd'["out"] # fd'["err"]
      BY <2>2, <2>4, <3>1 DEF Controlled, TypeOK, Shared, Streams
    <3>3. QED
      BY <2>2, <2>4, <3>2 DEF Joined, Shared
  <2>5. QED
    BY <2>3, <2>4
<1>5. ASSUME NEW a \in Askers, DupStderr(a)
      PROVE  Joined' = Joined
  <2>1. fd' = [fd EXCEPT !["err"] = fd["out"]] /\ phase = "dup"
    BY <1>5, Typed DEF DupStderr, Fault, Controlled
  <2>2. fd'["out"] = fd'["err"]
    BY <2>1 DEF Controlled, TypeOK, Streams
  <2>3. QED
    BY <2>1, <2>2 DEF Joined, Shared
<1>6. CASE Tick \/ UNCHANGED vars \/ \E r \in Streams : Write(r)
  BY <1>1, <1>6 DEF Tick, Write, vars, rotVars, fsVars
<1>7. ASSUME NEW a \in Askers, Ask(a)
      PROVE  Joined' = Joined
  BY <1>1, <1>7 DEF Ask, rotVars, fsVars
<1>8. QED
  BY <1>3, <1>4, <1>5, <1>6, <1>7 DEF Next, Rotation

LEMMA StepStreams ==
  ASSUME Controlled, Controlled', StreamsMatch, [Next]_vars
  PROVE  StreamsMatch'
<1>1. faults \in Nat /\ faults' \in Nat /\ faults <= faults'
  <2>1. faults \in Nat /\ faults' \in Nat
    BY LogRotateAssumption DEF Controlled, TypeOK
  <2>2. faults' \in {faults, faults + 1, faults + 2}
    BY DEF Next, Rotation, Inspect, Pick, Rename, Open, Replace, DupStderr, Enter, Leave, Ask,
           Write, Tick, vars, Undo, NoFault, Fault
  <2>3. QED
    BY <2>1, <2>2
<1>2. ASSUME faults' <= 1
      PROVE  OwnName("out")'
  <2>1. OwnName("out")
    BY <1>1, <1>2 DEF StreamsMatch
  <2>2. QED
    BY <1>2, <2>1, StepOwn DEF Streams
<1>3. ASSUME faults' = 0, ~Joined'
      PROVE  OwnName("err")'
  <2>1. faults = 0 /\ ~Joined
    BY <1>1, <1>3, StepJoined
  <2>2. OwnName("err")
    BY <2>1 DEF StreamsMatch
  <2>3. faults' <= 1
    BY <1>3
  <2>4. QED
    BY <2>1, <2>2, <2>3, StepOwn DEF Streams
<1>4. ASSUME faults' = 0, Joined'
      PROVE  \A k \in DOMAIN todo' : todo'[k].stream = "out"
  <2>1. faults = 0 /\ Joined
    <3>1. faults = 0
      BY <1>1, <1>4
    <3>2. Joined' = Joined
      BY <1>4, StepJoined
    <3>3. Joined
      BY <1>4, <3>2, Zenon
    <3>4. QED
      BY <3>1, <3>3
  <2>2. \A k \in DOMAIN todo : todo[k].stream = "out"
    BY <2>1 DEF StreamsMatch
  <2>3. CASE \E a \in Askers : Inspect(a)
    <3>1. PICK a \in Askers : Inspect(a)
      BY <2>3
    <3>2. Shared
      BY <2>1, <3>1 DEF Joined, Inspect
    <3>3. QED
      BY <3>1, <3>2, InspectJobs
  <2>4. CASE ~\E a \in Askers : Inspect(a)
    <3>1. todo' = todo \/ (todo' = Tail(todo) /\ todo # <<>>)
      BY <2>4
      DEF Next, Rotation, Pick, Rename, Open, Replace, DupStderr, Enter, Leave, Ask, Write, Tick,
          vars, Undo, Done, rotVars, Controlled, JobMatches, Begun
    <3>2. todo \in Seq(Jobs)
      BY DEF Controlled, TypeOK, Jobs
    <3>3. QED
      BY <2>2, <3>1, <3>2, TailOf
  <2>5. QED
    BY <2>3, <2>4
<1>5. QED
  BY <1>2, <1>3, <1>4, Zenon DEF StreamsMatch

LEMMA InitStreams == Init => StreamsMatch
<1>1. SUFFICES ASSUME Init
               PROVE  StreamsMatch
  OBVIOUS
<1>2. PICK i \in Files, j \in Files :
        /\ fd = [s \in Streams |-> IF s = "out" THEN i ELSE j]
        /\ name = [x \in Files |-> CASE x = i -> Configured("out")
                                     [] x = j /\ x # i -> Configured("err")
                                     [] OTHER -> Unused]
  BY <1>1, StartFiles
<1>3. /\ Configured("out") # Unused /\ Configured("err") # Unused
      /\ Configured("out") # Configured("err")
  BY ConfiguredName, ConfiguredTells, LogRotateAssumption DEF Streams
<1>4. DOMAIN todo = {} /\ phase = "none"
  BY <1>1 DEF Init
<1>5. fd["out"] = i /\ fd["err"] = j
  BY <1>2 DEF Streams
<1>6. AtHome("out")
  BY <1>2, <1>3, <1>5 DEF AtHome
<1>7. i # j => AtHome("err")
  BY <1>2, <1>3, <1>5 DEF AtHome
<1>8. QED
  BY <1>4, <1>5, <1>6, <1>7 DEF StreamsMatch, OwnName, Joined, Shared

-----------------------------------------------------------------------------
(* The theorems *)

LEMMA StepControl ==
  ASSUME Controlled, [Next]_vars
  PROVE  Controlled'
<1>1. TypeOK'
  BY StepTypes DEF Controlled
<1>2. LockMatches' /\ JobMatches' /\ FilesMatch'
  BY StepLock, StepJob, StepFiles DEF Controlled
<1>3. QED
  BY <1>1, <1>2 DEF Controlled

(* The invariant behind the two results below is inductive: the mutex has  *)
(* one holder, a job's names are those of its file, replacements are files *)
(* no stream leads to, and names are as the two results need them.         *)
THEOREM LogInvariant == Spec => []IInv
<1>1. Init => IInv
  BY InitTypes, InitControl, InitHup, InitStreams DEF IInv, HupInv
<1>2. IInv /\ [Next]_vars => IInv'
  <2>1. SUFFICES ASSUME IInv, [Next]_vars
                 PROVE  IInv'
    OBVIOUS
  <2>2. Controlled
    BY <2>1 DEF IInv, Controlled
  <2>3. Controlled'
    BY <2>1, <2>2, StepControl
  <2>4. StreamsMatch'
    BY <2>1, <2>2, <2>3, StepStreams DEF IInv
  <2>5. ASSUME at'["midnight"] = 0
        PROVE  HupInv'
    <3>1. at["midnight"] = 0 => HupInv
      BY <2>1 DEF IInv, HupInv
    <3>2. /\ HupInv
          /\ \/ UNCHANGED vars \/ Tick \/ \E s \in Streams : Write(s)
             \/ Ask("hup") \/ Enter("hup") \/ Leave("hup") \/ Rotation("hup")
      BY <2>1, <2>2, <2>5, <3>1, HupAlone
    <3>3. QED
      BY <2>2, <2>3, <3>2, StepGrow, StepDistinct, StepLinked DEF HupInv
  <2>6. QED
    BY <2>3, <2>4, <2>5 DEF IInv, Controlled, HupInv
<1>3. QED
  BY <1>1, <1>2, PTL DEF Spec

(* No rotation that SIGHUP asks for overwrites a rotated log: the second   *)
(* the mutex is held for keeps the stamps of two rotations apart           *)
(* (rotateLogsInternal, log_rotate.go:68).                                 *)
THEOREM SighupKeepsLogs == Spec => []HupKeepsLogs
<1>1. IInv => HupKeepsLogs
  BY DEF IInv, HupKeepsLogs, LogsLinked
<1>2. QED
  BY <1>1, LogInvariant, PTL

(* Over any one failing call stdout's live log is at its configured name   *)
(* whenever no rotation runs; stderr's is at its own or shares stdout's    *)
(* file as long as no call has failed (rotateFile, log_rotate.go:166-190). *)
THEOREM LogKeepsItsName == Spec => []LogAtItsName
<1>1. ASSUME IInv, holder = Nobody
      PROVE  /\ faults <= 1 => name[fd["out"]] = Configured("out")
             /\ faults = 0 => name[fd["err"]] = Configured("err") \/ Shared
  <2>1. phase = "none" /\ fd["out"] \in Files /\ fd["err"] \in Files
    BY <1>1 DEF IInv, LockMatches, TypeOK, Streams
  <2>2. ASSUME NEW s \in Streams, OwnName(s)
        PROVE  name[fd[s]] = Configured(s)
    BY <2>1, <2>2 DEF OwnName, AtHome, Streams
  <2>3. QED
    BY <1>1, <2>1, <2>2 DEF IInv, StreamsMatch, Joined, Streams
<1>2. IInv => LogAtItsName
  BY <1>1 DEF LogAtItsName
<1>3. QED
  BY <1>2, LogInvariant, PTL
=============================================================================
