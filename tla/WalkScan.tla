------------------------------ MODULE WalkScan ------------------------------
(***************************************************************************)
(* Scanning in-process (scanDirectory): fastwalk runs the callback from    *)
(* several goroutines at once, and the callback appends errors to a slice  *)
(* of the enclosing function without a lock.  Appends that overlap are a   *)
(* data race on a header of three words and on elements of two: whatever   *)
(* may come of it is left open, the end of the process included.           *)
(***************************************************************************)
EXTENDS Integers, FiniteSets

CONSTANTS Walkers,  \* fastwalk's goroutines
          Paths,    \* what the tree holds
          ChanRows, \* capacity of rowChan
          NoPath

VARIABLES
  ctxDone, \* the copier context has been cancelled
  todo,    \* paths no walker has visited
  at,      \* the path each walker is visiting
  pc,      \* control state of each walker
  errs,    \* the shared slice: the paths whose error it holds
  raced,   \* two appends have overlapped
  bad,     \* the paths whose visit failed
  queue,   \* paths on rowChan
  taken,   \* paths the dispatcher has received
  skipped, \* a walker has asked fastwalk to skip all
  result   \* "none" while scanDirectory runs, then "nil" or "error", or
           \* "died" when a race has taken the process down

vars == <<ctxDone, todo, at, pc, errs, raced, bad, queue, taken, skipped, result>>

Init ==
  /\ ctxDone = FALSE
  /\ todo = Paths
  /\ at = [w \in Walkers |-> NoPath] /\ pc = [w \in Walkers |-> "idle"]
  /\ errs = {} /\ bad = {} /\ raced = FALSE
  /\ queue = {} /\ taken = {}
  /\ skipped = FALSE /\ result = "none"

Cancel ==
  /\ ~ctxDone /\ result # "died"
  /\ ctxDone' = TRUE
  /\ UNCHANGED <<todo, at, pc, errs, raced, bad, queue, taken, skipped, result>>

Goto(w, s) == pc' = [pc EXCEPT ![w] = s]

(* The dispatcher receives. *)
Take ==
  /\ result # "died"
  /\ \E p \in queue : queue' = queue \ {p} /\ taken' = taken \cup {p}
  /\ UNCHANGED <<ctxDone, todo, at, pc, errs, raced, bad, skipped, result>>

-----------------------------------------------------------------------------
(* iter, called by walker w *)

(* ignore hides the path: a directory is not skipped, its paths still come. *)
Hide == UNCHANGED <<pc, at, bad>>

(* A path is handed out once; its visit ends in an error of the walk, of   *)
(* Info, Rel or Readlink, in a row to send, or, ignored, in nothing.       *)
Visit(w) ==
  /\ pc[w] = "idle"
  /\ ~skipped
  /\ \E p \in todo :
       /\ todo' = todo \ {p}
       /\ \/ Goto(w, "append") /\ at' = [at EXCEPT ![w] = p] /\ bad' = bad \cup {p}
          \/ Goto(w, "send") /\ at' = [at EXCEPT ![w] = p] /\ UNCHANGED bad
          \/ Hide
  /\ UNCHANGED <<ctxDone, errs, raced, queue, taken, skipped, result>>

Bug_LeaveForgetsPath(w) == Goto(w, "idle") /\ UNCHANGED at

Leave(w) == Goto(w, "idle") /\ at' = [at EXCEPT ![w] = NoPath]

(* errs = append(errs, err) starts with a read of the slice ... *)
AppendStarts(w) ==
  /\ pc[w] = "append"
  /\ Goto(w, "store")
  /\ raced' = (raced \/ \E v \in Walkers : pc[v] = "store")
  /\ UNCHANGED <<ctxDone, todo, at, errs, bad, queue, taken, skipped, result>>

Bug_AppendShadows(w) ==
  /\ pc[w] = "store"
  /\ UNCHANGED errs
  /\ Leave(w)
  /\ UNCHANGED <<ctxDone, todo, bad, raced, queue, taken, skipped, result>>

(* ... and has stored length and element at its end.  Once two have        *)
(* overlapped, any of the errors may be gone: the header of the one is     *)
(* stored over the other's, and a slice grown from a half-stored one holds *)
(* nil elements, which errors.Join leaves out.                             *)
AppendEnds(w) ==
  /\ pc[w] = "store"
  /\ IF raced THEN errs' \in SUBSET bad ELSE errs' = errs \cup {at[w]}
  /\ Leave(w)
  /\ UNCHANGED <<ctxDone, todo, bad, raced, queue, taken, skipped, result>>

(* A half-stored header has a capacity but no array: the next append       *)
(* stores through a nil pointer.                                           *)
RaceKills ==
  /\ raced /\ result = "none"
  /\ result' = "died"
  /\ UNCHANGED <<ctxDone, todo, at, pc, errs, raced, bad, queue, taken, skipped>>

(* The select on rowChan and the context. *)
Send(w) ==
  /\ pc[w] = "send"
  /\ \/ /\ Cardinality(queue) < ChanRows
        /\ queue' = queue \cup {at[w]}
        /\ UNCHANGED skipped
     \/ ctxDone /\ skipped' = TRUE /\ UNCHANGED queue
  /\ Leave(w)
  /\ UNCHANGED <<ctxDone, todo, errs, raced, bad, taken, result>>

(* fastwalk.Walk has waited for its goroutines; errors.Join(errs...). *)
WalkEnds ==
  /\ result = "none"
  /\ \A w \in Walkers : pc[w] = "idle"
  /\ todo = {} \/ skipped
  /\ result' = IF errs = {} THEN "nil" ELSE "error"
  /\ UNCHANGED <<ctxDone, todo, at, pc, errs, raced, bad, queue, taken, skipped>>

Returned == (result = "died" \/ (result # "none" /\ queue = {})) /\ UNCHANGED vars

-----------------------------------------------------------------------------
Walker(w) ==
  /\ result = "none"
  /\ Visit(w) \/ AppendStarts(w) \/ AppendEnds(w) \/ Send(w)

Next ==
  \/ Cancel \/ Take \/ (\E w \in Walkers : Walker(w)) \/ RaceKills
  \/ WalkEnds \/ Returned

-----------------------------------------------------------------------------
TypeOK ==
  /\ ctxDone \in BOOLEAN
  /\ todo \subseteq Paths
  /\ at \in [Walkers -> Paths \cup {NoPath}]
  /\ pc \in [Walkers -> {"idle", "append", "store", "send"}]
  /\ \A w \in Walkers : at[w] = NoPath <=> pc[w] = "idle"
  /\ errs \subseteq Paths /\ bad \subseteq Paths
  /\ raced \in BOOLEAN
  /\ queue \subseteq Paths /\ IsFiniteSet(queue) /\ Cardinality(queue) <= ChanRows
  /\ taken \subseteq Paths
  /\ skipped \in BOOLEAN
  /\ result \in {"none", "nil", "error", "died"}

(* The inductive invariant behind the properties of a scan: as long as     *)
(* appends have not overlapped, every error that was met is in the slice   *)
(* or about to be; and when the walk has ended nobody moves any more.      *)
Appending(w) == pc[w] \in {"append", "store"}

ErrorsKept ==
  \A p \in bad : p \in errs \/ \E w \in Walkers : Appending(w) /\ at[w] = p

WalkMatches ==
  /\ raced \/ ErrorsKept
  /\ result \in {"nil", "error"} =>
       (\A w \in Walkers : pc[w] = "idle") /\ (todo = {} \/ skipped)
  /\ result = "nil" => bad = {} \/ raced
=============================================================================
