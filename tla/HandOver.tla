------------------------------ MODULE HandOver ------------------------------
(***************************************************************************)
(* How the configuration travels: "start" detaches a selector, a selector  *)
(* starts sync children, and each process reads its settings from its own  *)
(* flags and environment (viper) and writes them into the environment of   *)
(* the next, which inherits nothing else (util.TrustedChildEnvironment).   *)
(* A process is followed from hop to hop; of several sync children one.    *)
(***************************************************************************)
CONSTANTS Default, \* what each setting's flag is when nobody sets it
          Values,  \* bound: what an operator may give for each setting
          Unset    \* no such flag or variable

Settings == DOMAIN Default

(* Settings of the selector alone; the others are for the sync child. *)
Local == {"sandbox.disabled", "worker.size"}

VARIABLES
  supported, \* the build is for linux (main.go's sandboxSupported)
  command,   \* what the process at hand runs; "copy" once Syncer has read
             \* its settings
  flags, env,
  marks,     \* _SYNCER_INVOKED and _SYNCER_SANDBOXED in its environment
  namespace, \* it was started with namespaces of its own
  sandboxed, \* Runner.Sandboxed
  conf,      \* the settings the syncer's Runner has been built with
  operated,  \* the command the operator gave
  wanted     \* what his flags and environment came to

asked == <<supported, operated, wanted>>
vars == <<asked, command, flags, env, marks, namespace, sandboxed, conf>>

Nothing == [k \in Settings |-> Unset]

(* viper: a flag that was given, a variable that is not empty, the default. *)
Given(k) ==
  IF flags[k] # Unset THEN flags[k]
  ELSE IF env[k] \notin {Unset, ""} THEN env[k] ELSE Default[k]

Init ==
  /\ supported \in BOOLEAN
  /\ command \in {"start", "select", "sync"}
  /\ flags \in {f \in [Settings -> UNION {Values[k] : k \in Settings} \cup {Unset}] :
                  \A k \in Settings : f[k] \in Values[k] \cup {Unset}}
  /\ env = Nothing \/ \E k \in Settings : \E v \in Values[k] : env = [Nothing EXCEPT ![k] = v]
  /\ marks = {} /\ namespace = FALSE /\ sandboxed = FALSE
  /\ conf = Nothing
  /\ operated = command
  /\ wanted = [k \in Settings |-> Given(k)]

-----------------------------------------------------------------------------
SandboxDisabled == Given("sandbox.disabled") = "true" \/ ~supported

(* AssembleEnvironment: every setting of the child, a text also when empty. *)
Exported == [k \in Settings |-> IF k \in Local THEN Unset ELSE Given(k)]

Bug_DaemonStartForgetsLocal ==
  /\ command = "start" /\ command' = "select"
  /\ flags' = Nothing /\ env' = Exported
  /\ UNCHANGED <<asked, marks, namespace, sandboxed, conf>>

(* Daemonizer.Execute *)
DaemonStart ==
  /\ command = "start" /\ command' = "select"
  /\ flags' = Nothing
  /\ env' = [Exported EXCEPT
               !["worker.size"] = Given("worker.size"),
               !["sandbox.disabled"] = IF SandboxDisabled THEN "true" ELSE "false"]
  /\ UNCHANGED <<asked, marks, namespace, sandboxed, conf>>

Bug_InvokeAlwaysMarks ==
  /\ command = "select" /\ command' = "sync"
  /\ flags' = Nothing /\ env' = Exported
  /\ marks' = {"invoked", "sandboxed"}
  /\ namespace' = ~SandboxDisabled
  /\ UNCHANGED <<asked, sandboxed, conf>>

(* Invoker.Run: the child is told whether it has been isolated. *)
Invoke ==
  /\ command = "select" /\ command' = "sync"
  /\ flags' = Nothing /\ env' = Exported
  /\ marks' = {"invoked"} \cup IF SandboxDisabled THEN {} ELSE {"sandboxed"}
  /\ namespace' = ~SandboxDisabled
  /\ UNCHANGED <<asked, sandboxed, conf>>

(* entry.Syncer builds its Runner; flags and environment are not read again. *)
Syncer ==
  /\ command = "sync" /\ command' = "copy"
  /\ conf' = [k \in Settings |-> IF k \in Local THEN Unset ELSE Given(k)]
  /\ sandboxed' = (marks = {"invoked", "sandboxed"} /\ supported)
  /\ flags' = Nothing /\ env' = Nothing
  /\ UNCHANGED <<asked, marks, namespace>>

Next == DaemonStart \/ Invoke \/ Syncer

-----------------------------------------------------------------------------
TypeOK ==
  /\ supported \in BOOLEAN /\ namespace \in BOOLEAN /\ sandboxed \in BOOLEAN
  /\ operated \in {"start", "select", "sync"}
  /\ command \in {"start", "select", "sync", "copy"}
  /\ marks \subseteq {"invoked", "sandboxed"}
  /\ \A x \in Settings :
       /\ {flags[x], env[x], conf[x]} \subseteq Values[x] \cup {Default[x], Unset}
       /\ wanted[x] \in Values[x] \cup {Default[x]}

(* What holds at each hop, for SyncChild's invariant. *)

Arrives(x, v) ==
  v = wanted[x] \/ (wanted[x] = "" /\ v = Default[x] /\ operated # "sync")

SettingsKept ==
  /\ operated = "sync" => command \in {"sync", "copy"}
  /\ command # "copy" => \A x \in Settings \ Local : Arrives(x, Given(x))
  /\ command = "copy" => \A x \in Settings \ Local : Arrives(x, conf[x])
  /\ command \in {"start", "select"} =>
       /\ Given("worker.size") = wanted["worker.size"]
       /\ ~SandboxDisabled <=> supported /\ wanted["sandbox.disabled"] = "false"

MarksTrue ==
  /\ command \in {"start", "select"} => marks = {}
  /\ command # "copy" => ~sandboxed
  /\ command = "copy" => (sandboxed <=> "sandboxed" \in marks)
  /\ "sandboxed" \in marks => marks = {"invoked", "sandboxed"} /\ supported
  /\ command \in {"sync", "copy"} =>
       ("sandboxed" \in marks <=> /\ supported /\ operated # "sync"
                                  /\ wanted["sandbox.disabled"] = "false")
  /\ "sandboxed" \in marks => namespace
=============================================================================
