----------------------------- MODULE SyncChild -----------------------------
(***************************************************************************)
(* From the operator's command line to the end of a sync child: HandOver   *)
(* brings the settings to the child, SyncMount mounts, copies and cleans   *)
(* up with them.                                                           *)
(***************************************************************************)
EXTENDS Naturals

CONSTANTS Default, Values, Unset, \* of HandOver
          MaxFaults               \* bound on failing system calls

ASSUME ChildAssumption ==
  /\ DOMAIN Default = DOMAIN Values
  /\ {"sandbox.disabled", "worker.size"} \subseteq DOMAIN Default
  /\ Default["sandbox.disabled"] = "false"
  /\ Values["sandbox.disabled"] = {"true", "false"}
  /\ \A x \in DOMAIN Default : Unset \notin Values[x] \cup {Default[x], "", "true", "false"}
  /\ Default["worker.size"] # "" /\ "" \notin Values["worker.size"]
  /\ MaxFaults \in Nat

VARIABLES
  supported, command, flags, env, marks, namespace, conf,
  operated, wanted,                     \* of HandOver
  sandboxed,                            \* of both
  validNames, isolated, pc, k, dirs, mounts, skipped, stuck, faults

handVars  == <<supported, command, flags, env, marks, namespace, conf,
              operated, wanted>>
mountVars == <<validNames, isolated, pc, k, dirs, mounts, skipped, stuck, faults>>
vars == <<handVars, sandboxed, mountVars>>

Hand   == INSTANCE HandOver
Mounts == INSTANCE SyncMount

-----------------------------------------------------------------------------
Init == Hand!Init /\ Mounts!Init

HandsOver == Hand!Next /\ UNCHANGED mountVars

(* Runner.Execute of the syncer, with what HandOver has brought. *)
Syncs == command = "copy" /\ Mounts!Next /\ UNCHANGED handVars

Next == HandsOver \/ Syncs

Spec == Init /\ [][Next]_vars

-----------------------------------------------------------------------------
TypeOK == Mounts!TypeOK /\ Hand!TypeOK

(* The copier runs only when every mount and pin is in place, and inside   *)
(* the sandbox that was asked for: no failing step of prepareMountPoint is *)
(* passed over (runner.go:135-194).                                        *)
CopiesOnPins ==
  pc = "copy" => mounts = Mounts!Places /\ isolated = sandboxed

(* Over up to two hops the child copies with the settings the operator     *)
(* gave, whether by flag or environment (common_args.go:38-129), and the   *)
(* selector runs with his --worker-size; but for an empty text, which the  *)
(* environment cannot carry: the child falls back to the flag's default.   *)
SettingsArrive ==
  /\ pc = "copy" => \A x \in DOMAIN Default \ Hand!Local :
       \/ conf[x] = wanted[x]
       \/ wanted[x] = "" /\ conf[x] = Default[x] /\ operated # "sync"
  /\ command = "select" => Hand!Given("worker.size") = wanted["worker.size"]

(* Wherever preparation broke off, a cleanup that is not skipped takes     *)
(* down everything it can: what is left is what it failed to unmount or    *)
(* remove, and the workspace around that (runner.go:288-316).  Execute     *)
(* "always cleans up" (runner.go:62) only in this sense: a mount name that *)
(* is not local makes cleanup refuse its own paths, and all of it stays.   *)
OnlyStuckLeft ==
  pc = "return" /\ ~skipped =>
    /\ mounts \subseteq stuck
    /\ dirs \subseteq stuck \cup {"temp"}
    /\ stuck = {} => dirs = {}

(* A child of a selector leaves nothing on the host, even when it is       *)
(* killed, unless the operator has disabled the sandbox, at whatever hop   *)
(* he did so: "all mounts and temporary paths are created inside the       *)
(* isolated workspace" (runner.go:142).                                    *)
SandboxLeavesNothing ==
  /\ pc = "gone" /\ supported
  /\ operated # "sync" /\ wanted["sandbox.disabled"] = "false"
  => dirs = {} /\ mounts = {}

(* The mounts of the host are made private, and its /proc and temporary    *)
(* directory covered (mount_linux.go:16-50), by no process: a child enters *)
(* the sandbox only in namespaces of its own, also when its selector runs  *)
(* with the sandbox disabled or it was started by hand.                    *)
HostUntouched == isolated => namespace /\ wanted["sandbox.disabled"] = "false"

(* The settings, the marks and the namespaces agree with what the operator *)
(* wanted at every hop, and at every point of Execute what is mounted and  *)
(* made is what it has come by (inductive; conjuncts in the two modules).  *)
IInv ==
  /\ TypeOK
  /\ command # "copy" => pc = "sandbox"
  /\ Hand!SettingsKept /\ Hand!MarksTrue
  /\ Mounts!Preparing /\ Mounts!Cleaning /\ Mounts!Isolating
=============================================================================
