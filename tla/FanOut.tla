------------------------------- MODULE FanOut -------------------------------
(***************************************************************************)
(* What a joiner promises to the runner that reads its result channel.     *)
(* Both joiners of the program (internal/selector/joiner.go and            *)
(* internal/copier/joiner.go) start one goroutine per job, keep at most    *)
(* limit of them alive, let each hand over at most one result and close    *)
(* the result channel only when no goroutine is left that could still send *)
(* on it: a send on a closed channel would panic.                          *)
(***************************************************************************)
EXTENDS Integers, FiniteSets

CONSTANT Jobs     \* the jobs a dispatcher may submit

VARIABLES limit,  \* how many of them may be alive at once: fixed from the start
          status, \* the life of each job
          sent,   \* the jobs whose result has been put on the channel
          closed  \* the result channel is closed

vars == <<limit, status, sent, closed>>

Alive == {j \in Jobs : status[j] = "alive"}

TypeOK ==
  /\ limit \in Nat
  /\ status \in [Jobs -> {"idle", "alive", "finished"}]
  /\ sent \subseteq Jobs
  /\ closed \in BOOLEAN

Init ==
  /\ limit \in Nat
  /\ status = [j \in Jobs |-> "idle"]
  /\ sent = {}
  /\ closed = FALSE

Launch(j) ==
  /\ status[j] = "idle"
  /\ ~closed
  /\ Cardinality(Alive) < limit
  /\ status' = [status EXCEPT ![j] = "alive"]
  /\ UNCHANGED <<limit, sent, closed>>

Send(j) ==
  /\ status[j] = "alive"
  /\ j \notin sent
  /\ ~closed
  /\ sent' = sent \cup {j}
  /\ UNCHANGED <<limit, status, closed>>

Finish(j) ==
  /\ status[j] = "alive"
  /\ status' = [status EXCEPT ![j] = "finished"]
  /\ UNCHANGED <<limit, sent, closed>>

Close ==
  /\ Alive = {}
  /\ ~closed
  /\ closed' = TRUE
  /\ UNCHANGED <<limit, status, sent>>

Next ==
  \/ Close
  \/ \E j \in Jobs : Launch(j) \/ Send(j) \/ Finish(j)

Spec == Init /\ [][Next]_vars
=============================================================================
