--------------------------- MODULE SyncChildProofs ---------------------------
(* Theorems about SyncChild, for any settings with any values an operator  *)
(* may give them and for any number of failing system calls.               *)
EXTENDS SyncChild, Sequences, TLAPS

(* SyncMount's half of the invariant, and HandOver's. *)

MountInv ==
  Mounts!TypeOK /\ Mounts!Preparing /\ Mounts!Cleaning /\ Mounts!Isolating

HandInv == Hand!TypeOK /\ Hand!SettingsKept /\ Hand!MarksTrue

-----------------------------------------------------------------------------
(* The three orders, and the places before and after a position in them. *)

LEMMA Orders ==
  /\ Len(Mounts!MountOrder) = 4 /\ Len(Mounts!UmountOrder) = 4
  /\ Len(Mounts!RemoveOrder) = 5
  /\ Mounts!MountOrder[1] = "src" /\ Mounts!MountOrder[2] = "dst"
  /\ Mounts!MountOrder[3] = "pinned-src" /\ Mounts!MountOrder[4] = "pinned-dst"
  /\ Mounts!UmountOrder[1] = "pinned-src" /\ Mounts!UmountOrder[2] = "pinned-dst"
  /\ Mounts!UmountOrder[3] = "src" /\ Mounts!UmountOrder[4] = "dst"
  /\ Mounts!RemoveOrder[1] = "pinned-src" /\ Mounts!RemoveOrder[2] = "pinned-dst"
  /\ Mounts!RemoveOrder[3] = "src" /\ Mounts!RemoveOrder[4] = "dst"
  /\ Mounts!RemoveOrder[5] = "temp"
BY DEF Mounts!MountOrder, Mounts!UmountOrder, Mounts!RemoveOrder

LEMMA MountedSteps ==
  /\ Mounts!Mounted(1) = {}
  /\ \A i \in 1..4 : Mounts!Mounted(i + 1) = Mounts!Mounted(i) \cup {Mounts!MountOrder[i]}
  /\ Mounts!Mounted(5) = Mounts!Places
<1>1. Mounts!Mounted(1) = {}
  BY DEF Mounts!Mounted
<1>2. ASSUME NEW i \in 1..4
      PROVE  Mounts!Mounted(i + 1) = Mounts!Mounted(i) \cup {Mounts!MountOrder[i]}
  <2>1. 1..((i + 1) - 1) = (1..(i - 1)) \cup {i}
    OBVIOUS
  <2>2. QED
    BY <2>1 DEF Mounts!Mounted
<1>3. Mounts!Mounted(5) = Mounts!Places
  <2>1. 1..(5 - 1) = {1, 2, 3, 4}
    OBVIOUS
  <2>2. Mounts!Mounted(5) = {Mounts!MountOrder[j] : j \in {1, 2, 3, 4}}
    BY <2>1 DEF Mounts!Mounted
  <2>3. QED
    BY <2>2, Orders DEF Mounts!Places
<1>4. QED
  BY <1>1, <1>2, <1>3

LEMMA ToUmountSteps ==
  /\ Mounts!ToUmount(1) = Mounts!Places
  /\ \A i \in 1..4 : Mounts!ToUmount(i) = {Mounts!UmountOrder[i]} \cup Mounts!ToUmount(i + 1)
  /\ Mounts!ToUmount(5) = {}
<1>1. 1..4 = {1, 2, 3, 4}
  OBVIOUS
<1>2. Mounts!ToUmount(1) = {Mounts!UmountOrder[j] : j \in {1, 2, 3, 4}}
  BY <1>1, Orders DEF Mounts!ToUmount
<1>3. ASSUME NEW i \in 1..4
      PROVE  Mounts!ToUmount(i) = {Mounts!UmountOrder[i]} \cup Mounts!ToUmount(i + 1)
  <2>1. i..4 = {i} \cup ((i + 1)..4)
    OBVIOUS
  <2>2. QED
    BY <2>1, Orders DEF Mounts!ToUmount
<1>4. Mounts!ToUmount(5) = {}
  BY Orders DEF Mounts!ToUmount
<1>5. QED
  BY <1>2, <1>3, <1>4, Orders DEF Mounts!Places

LEMMA ToRemoveSteps ==
  /\ Mounts!ToRemove(1) = Mounts!Places \cup {"temp"}
  /\ \A i \in 1..5 : Mounts!ToRemove(i) = {Mounts!RemoveOrder[i]} \cup Mounts!ToRemove(i + 1)
  /\ Mounts!ToRemove(6) = {}
<1>1. 1..5 = {1, 2, 3, 4, 5}
  OBVIOUS
<1>2. Mounts!ToRemove(1) = {Mounts!RemoveOrder[j] : j \in {1, 2, 3, 4, 5}}
  BY <1>1, Orders DEF Mounts!ToRemove
<1>3. ASSUME NEW i \in 1..5
      PROVE  Mounts!ToRemove(i) = {Mounts!RemoveOrder[i]} \cup Mounts!ToRemove(i + 1)
  <2>1. i..5 = {i} \cup ((i + 1)..5)
    OBVIOUS
  <2>2. QED
    BY <2>1, Orders DEF Mounts!ToRemove
<1>4. Mounts!ToRemove(6) = {}
  BY Orders DEF Mounts!ToRemove
<1>5. QED
  BY <1>2, <1>3, <1>4, Orders DEF Mounts!Places

(* The place a position stands for is one of the four (or the workspace). *)
LEMMA OrderRange ==
  /\ \A i \in 1..4 : Mounts!MountOrder[i] \in Mounts!Places
  /\ \A i \in 1..4 : Mounts!UmountOrder[i] \in Mounts!Places
  /\ \A i \in 1..4 : Mounts!RemoveOrder[i] \in Mounts!Places
<1>1. \A i \in 1..4 : i = 1 \/ i = 2 \/ i = 3 \/ i = 4
  OBVIOUS
<1>2. QED
  BY <1>1, Orders DEF Mounts!Places

-----------------------------------------------------------------------------
(* SyncMount's invariant, action by action. *)

LEMMA FaultsBound == MaxFaults \in Nat
BY ChildAssumption, Zenon

LEMMA MountInit == Mounts!Init => MountInv
<1> SUFFICES ASSUME Mounts!Init PROVE MountInv
  OBVIOUS
<1>1. Mounts!TypeOK
  <2>1. {isolated, skipped} \subseteq BOOLEAN
    BY Zenon DEF Mounts!Init
  <2>2. QED
    BY <2>1, Orders, FaultsBound DEF Mounts!Init, Mounts!TypeOK
<1>2. Mounts!Preparing
  BY DEF Mounts!Init, Mounts!Preparing
<1>3. Mounts!Cleaning
  BY DEF Mounts!Init, Mounts!Cleaning
<1>4. Mounts!Isolating
  BY Zenon DEF Mounts!Init, Mounts!Isolating
<1>5. QED
  BY <1>1, <1>2, <1>3, <1>4 DEF MountInv

LEMMA MountSandbox == ASSUME MountInv, Mounts!Sandbox PROVE MountInv'
<1> USE DEF MountInv, Mounts!Sandbox, Mounts!Works, Mounts!Fails,
        Mounts!confVars, Mounts!cleanVars
<1>1. Mounts!TypeOK'
  BY Orders, FaultsBound DEF Mounts!TypeOK
<1>2. Mounts!Preparing'
  BY DEF Mounts!Preparing, Mounts!TypeOK
<1>3. Mounts!Cleaning'
  BY DEF Mounts!Cleaning, Mounts!TypeOK, Mounts!Preparing
<1>4. Mounts!Isolating'
  <2>1. dirs = {} /\ mounts = {} /\ ~isolated
    BY DEF Mounts!Preparing, Mounts!Isolating
  <2>2. CASE isolated' = sandboxed /\ pc' = "temp"
    BY <2>1, <2>2, Zenon DEF Mounts!Isolating
  <2>3. CASE pc' = "return" /\ UNCHANGED isolated
    BY <2>1, <2>3, Zenon DEF Mounts!Isolating
  <2>4. QED
    BY <2>2, <2>3
<1>5. QED
  BY <1>1, <1>2, <1>3, <1>4

LEMMA MountMkdirTemp == ASSUME MountInv, Mounts!MkdirTemp PROVE MountInv'
<1> USE DEF MountInv, Mounts!MkdirTemp, Mounts!Works, Mounts!Fails,
        Mounts!confVars, Mounts!cleanVars
<1>1. Mounts!TypeOK'
  BY Orders, FaultsBound DEF Mounts!TypeOK, Mounts!Preparing
<1>2. Mounts!Preparing'
  BY DEF Mounts!Preparing, Mounts!TypeOK
<1>3. Mounts!Cleaning'
  BY DEF Mounts!Cleaning, Mounts!TypeOK, Mounts!Preparing
<1>4. Mounts!Isolating'
  BY Zenon DEF Mounts!Isolating, Mounts!Preparing, Mounts!TypeOK
<1>5. QED
  BY <1>1, <1>2, <1>3, <1>4

LEMMA MountChdir == ASSUME MountInv, Mounts!Chdir PROVE MountInv'
<1> USE DEF MountInv, Mounts!Chdir, Mounts!Works, Mounts!Fails,
        Mounts!confVars, Mounts!cleanVars
<1>1. Mounts!TypeOK'
  BY Orders, FaultsBound DEF Mounts!TypeOK
<1>2. Mounts!Preparing'
  BY MountedSteps, Orders DEF Mounts!Preparing, Mounts!TypeOK
<1>3. Mounts!Cleaning'
  BY DEF Mounts!Cleaning, Mounts!TypeOK
<1>4. Mounts!Isolating'
  BY Zenon DEF Mounts!Isolating, Mounts!Preparing, Mounts!TypeOK
<1>5. QED
  BY <1>1, <1>2, <1>3, <1>4

LEMMA MountOpenSubpath == ASSUME MountInv, Mounts!OpenSubpath PROVE MountInv'
<1> USE DEF MountInv, Mounts!OpenSubpath, Mounts!Works, Mounts!Fails,
        Mounts!confVars, Mounts!cleanVars
<1>1. Mounts!TypeOK'
  BY Orders, FaultsBound DEF Mounts!TypeOK
<1>2. Mounts!Preparing'
  BY Orders DEF Mounts!Preparing, Mounts!TypeOK
<1>3. Mounts!Cleaning'
  BY DEF Mounts!Cleaning, Mounts!TypeOK
<1>4. Mounts!Isolating'
  BY Zenon DEF Mounts!Isolating, Mounts!Preparing, Mounts!TypeOK
<1>5. QED
  BY <1>1, <1>2, <1>3, <1>4

LEMMA MountMakeDir == ASSUME MountInv, Mounts!MakeDir PROVE MountInv'
<1> USE DEF MountInv, Mounts!MakeDir, Mounts!Works, Mounts!Fails,
        Mounts!confVars, Mounts!cleanVars, Mounts!Place
<1>1. Mounts!TypeOK'
  BY Orders, OrderRange, FaultsBound DEF Mounts!TypeOK, Mounts!Preparing
<1>2. Mounts!Preparing'
  BY Orders DEF Mounts!Preparing, Mounts!TypeOK
<1>3. Mounts!Cleaning'
  BY DEF Mounts!Cleaning, Mounts!TypeOK
<1>4. Mounts!Isolating'
  BY Zenon DEF Mounts!Isolating, Mounts!Preparing, Mounts!TypeOK
<1>5. QED
  BY <1>1, <1>2, <1>3, <1>4

LEMMA MountMount == ASSUME MountInv, Mounts!Mount PROVE MountInv'
<1> USE DEF MountInv, Mounts!Mount, Mounts!Works, Mounts!Fails,
        Mounts!confVars, Mounts!cleanVars, Mounts!Place, Mounts!Advance
<1>1. Mounts!TypeOK'
  BY Orders, OrderRange, FaultsBound DEF Mounts!TypeOK, Mounts!Preparing
<1>2. Mounts!Preparing'
  <2>1. k \in 1..4 /\ mounts = Mounts!Mounted(k) /\ "temp" \in dirs /\ Mounts!MountOrder[k] \in dirs
    BY Orders DEF Mounts!Preparing, Mounts!TypeOK
  <2>2. /\ Mounts!Mounted(k + 1) = mounts \cup {Mounts!MountOrder[k]}
        /\ k = 4 => Mounts!Mounted(k + 1) = Mounts!Places
    BY <2>1, MountedSteps
  <2>3. CASE pc' = "cleanup"
    BY <2>3 DEF Mounts!Preparing
  <2>4. CASE pc' = "remount"
    BY <2>1, <2>2, <2>4, Orders DEF Mounts!Preparing
  <2>5. CASE pc' \notin {"cleanup", "remount"}
    <3>1. mounts' = Mounts!Mounted(k + 1) /\ dirs' = dirs
      BY <2>2, <2>5
    <3>2. \/ pc' = "check" /\ k = 4
          \/ pc' \in {"open", "mkdir"} /\ k' = k + 1 /\ k # 4
      BY <2>5, Orders
    <3>3. QED
      BY <2>1, <2>2, <3>1, <3>2, Orders DEF Mounts!Preparing
  <2>6. QED
    BY <2>3, <2>4, <2>5
<1>3. Mounts!Cleaning'
  BY DEF Mounts!Cleaning, Mounts!TypeOK
<1>4. Mounts!Isolating'
  BY Zenon DEF Mounts!Isolating, Mounts!Preparing, Mounts!TypeOK
<1>5. QED
  BY <1>1, <1>2, <1>3, <1>4

LEMMA MountRemount == ASSUME MountInv, Mounts!Remount PROVE MountInv'
<1> USE DEF MountInv, Mounts!Remount, Mounts!Works, Mounts!Fails,
        Mounts!confVars, Mounts!cleanVars, Mounts!Place, Mounts!Advance
<1>1. Mounts!TypeOK'
  BY Orders, OrderRange, FaultsBound DEF Mounts!TypeOK, Mounts!Preparing
<1>2. Mounts!Preparing'
  BY MountedSteps, Orders DEF Mounts!Preparing, Mounts!TypeOK
<1>3. Mounts!Cleaning'
  BY DEF Mounts!Cleaning, Mounts!TypeOK
<1>4. Mounts!Isolating'
  BY Zenon DEF Mounts!Isolating, Mounts!Preparing, Mounts!TypeOK
<1>5. QED
  BY <1>1, <1>2, <1>3, <1>4

LEMMA MountCheckPaths == ASSUME MountInv, Mounts!CheckPaths PROVE MountInv'
<1> USE DEF MountInv, Mounts!CheckPaths, Mounts!Works, Mounts!Fails,
        Mounts!confVars, Mounts!cleanVars
<1>1. Mounts!TypeOK'
  BY Orders, FaultsBound DEF Mounts!TypeOK
<1>2. Mounts!Preparing'
  BY DEF Mounts!Preparing, Mounts!TypeOK
<1>3. Mounts!Cleaning'
  BY DEF Mounts!Cleaning, Mounts!TypeOK
<1>4. Mounts!Isolating'
  BY Zenon DEF Mounts!Isolating, Mounts!Preparing, Mounts!TypeOK
<1>5. QED
  BY <1>1, <1>2, <1>3, <1>4

LEMMA MountCopyEnds == ASSUME MountInv, Mounts!CopyEnds PROVE MountInv'
<1> USE DEF MountInv, Mounts!CopyEnds, Mounts!confVars, Mounts!cleanVars
<1>1. Mounts!TypeOK'
  BY Orders, FaultsBound DEF Mounts!TypeOK
<1>2. Mounts!Preparing'
  BY DEF Mounts!Preparing, Mounts!TypeOK
<1>3. Mounts!Cleaning'
  BY DEF Mounts!Cleaning, Mounts!TypeOK
<1>4. Mounts!Isolating'
  BY Zenon DEF Mounts!Isolating, Mounts!Preparing, Mounts!TypeOK
<1>5. QED
  BY <1>1, <1>2, <1>3, <1>4

LEMMA MountCleanupPaths == ASSUME MountInv, Mounts!CleanupPaths PROVE MountInv'
<1> USE DEF MountInv, Mounts!CleanupPaths, Mounts!Works, Mounts!Fails,
        Mounts!confVars
<1>1. Mounts!TypeOK'
  <2>1. skipped' \in BOOLEAN
    BY Zenon DEF Mounts!TypeOK
  <2>2. QED
    BY <2>1, Orders, FaultsBound DEF Mounts!TypeOK
<1>2. Mounts!Preparing'
  BY DEF Mounts!Preparing, Mounts!TypeOK
<1>3. Mounts!Cleaning'
  BY ToUmountSteps, Orders DEF Mounts!Cleaning, Mounts!TypeOK
<1>4. Mounts!Isolating'
  BY Zenon DEF Mounts!Isolating, Mounts!Preparing, Mounts!TypeOK
<1>5. QED
  BY <1>1, <1>2, <1>3, <1>4

LEMMA MountUmount == ASSUME MountInv, Mounts!Umount PROVE MountInv'
<1> USE DEF MountInv, Mounts!Umount, Mounts!Works, Mounts!Fails, Mounts!confVars
<1>1. Mounts!TypeOK'
  BY Orders, FaultsBound DEF Mounts!TypeOK, Mounts!Cleaning
<1>2. Mounts!Preparing'
  BY DEF Mounts!Preparing, Mounts!TypeOK
<1>3. Mounts!Cleaning'
  BY ToUmountSteps, ToRemoveSteps, Orders DEF Mounts!Cleaning, Mounts!TypeOK
<1>4. Mounts!Isolating'
  BY Zenon DEF Mounts!Isolating, Mounts!Preparing, Mounts!TypeOK
<1>5. QED
  BY <1>1, <1>2, <1>3, <1>4

LEMMA MountRemove == ASSUME MountInv, Mounts!Remove PROVE MountInv'
<1> USE DEF MountInv, Mounts!Remove, Mounts!Works, Mounts!Fails,
        Mounts!confVars, Mounts!Removable
<1>1. Mounts!TypeOK'
  BY Orders, FaultsBound DEF Mounts!TypeOK
<1>2. Mounts!Preparing'
  BY DEF Mounts!Preparing, Mounts!TypeOK
<1>3. Mounts!Cleaning'
  BY ToRemoveSteps, Orders DEF Mounts!Cleaning, Mounts!TypeOK
<1>4. Mounts!Isolating'
  BY Zenon DEF Mounts!Isolating, Mounts!Preparing, Mounts!TypeOK
<1>5. QED
  BY <1>1, <1>2, <1>3, <1>4

LEMMA MountReturns == ASSUME MountInv, Mounts!Returns PROVE MountInv'
<1> USE DEF MountInv, Mounts!Returns, Mounts!Exits, Mounts!confVars,
        Mounts!cleanVars
<1>1. Mounts!TypeOK'
  BY Orders, FaultsBound DEF Mounts!TypeOK
<1>2. Mounts!Preparing'
  BY DEF Mounts!Preparing, Mounts!TypeOK
<1>3. Mounts!Cleaning'
  BY DEF Mounts!Cleaning, Mounts!TypeOK
<1>4. Mounts!Isolating'
  BY Zenon DEF Mounts!Isolating, Mounts!Preparing, Mounts!TypeOK
<1>5. QED
  BY <1>1, <1>2, <1>3, <1>4

LEMMA MountKilled == ASSUME MountInv, Mounts!Killed PROVE MountInv'
<1> USE DEF MountInv, Mounts!Killed, Mounts!Exits, Mounts!confVars,
        Mounts!cleanVars
<1>1. Mounts!TypeOK'
  BY Orders, FaultsBound DEF Mounts!TypeOK
<1>2. Mounts!Preparing'
  BY DEF Mounts!Preparing, Mounts!TypeOK
<1>3. Mounts!Cleaning'
  BY DEF Mounts!Cleaning, Mounts!TypeOK
<1>4. Mounts!Isolating'
  BY Zenon DEF Mounts!Isolating, Mounts!Preparing, Mounts!TypeOK
<1>5. QED
  BY <1>1, <1>2, <1>3, <1>4

-----------------------------------------------------------------------------
(* HandOver's invariant, hop by hop. *)

LEMMA SettingsFacts ==
  /\ Hand!Settings = DOMAIN Default
  /\ "sandbox.disabled" \in Hand!Settings /\ "worker.size" \in Hand!Settings
  /\ Default["sandbox.disabled"] = "false"
  /\ Values["sandbox.disabled"] = {"true", "false"}
  /\ Default["worker.size"] # "" /\ "" \notin Values["worker.size"]
  /\ Unset # "" /\ Unset # "true" /\ Unset # "false"
  /\ \A x \in Hand!Settings : Unset \notin Values[x] /\ Unset # Default[x]
BY ChildAssumption, Zenon DEF Hand!Settings

(* A setting is what the operator may give for it or its default. *)
LEMMA GivenType ==
  ASSUME Hand!TypeOK
  PROVE  \A x \in Hand!Settings : Hand!Given(x) \in Values[x] \cup {Default[x]}
BY SettingsFacts DEF Hand!TypeOK, Hand!Given

LEMMA HandInit == Hand!Init => HandInv
<1> SUFFICES ASSUME Hand!Init PROVE HandInv
  OBVIOUS
<1>1. Hand!TypeOK
  <2>1. {supported, namespace, sandboxed} \subseteq BOOLEAN
    BY Zenon DEF Hand!Init
  <2>2. \A x \in Hand!Settings : flags[x] \in Values[x] \cup {Unset}
    BY DEF Hand!Init
  <2>3. \A x \in Hand!Settings : env[x] \in Values[x] \cup {Unset} /\ conf[x] = Unset
    BY DEF Hand!Init, Hand!Nothing
  <2>4. \A x \in Hand!Settings : wanted[x] = Hand!Given(x)
    BY DEF Hand!Init
  <2>5. \A x \in Hand!Settings : wanted[x] \in Values[x] \cup {Default[x]}
    BY <2>2, <2>3, <2>4 DEF Hand!Given
  <2>6. operated = command /\ command \in {"start", "select", "sync"} /\ marks = {}
    BY DEF Hand!Init
  <2>7. QED
    BY <2>1, <2>2, <2>3, <2>5, <2>6 DEF Hand!TypeOK
<1>2. \A x \in Hand!Settings : wanted[x] = Hand!Given(x)
  BY DEF Hand!Init
<1>3. Hand!SettingsKept
  <2>1. ~Hand!SandboxDisabled <=> supported /\ wanted["sandbox.disabled"] = "false"
    BY <1>1, <1>2, GivenType, SettingsFacts DEF Hand!SandboxDisabled
  <2>2. operated = command /\ command # "copy"
    BY DEF Hand!Init
  <2>3. QED
    BY <1>2, <2>1, <2>2, SettingsFacts DEF Hand!SettingsKept, Hand!Arrives
<1>4. Hand!MarksTrue
  <2>1. marks = {} /\ ~sandboxed /\ operated = command /\ command # "copy"
    BY Zenon DEF Hand!Init
  <2>2. command \in {"sync", "copy"} => operated = "sync"
    BY <2>1
  <2>3. QED
    BY <2>1, <2>2 DEF Hand!MarksTrue
<1>5. QED
  BY <1>1, <1>3, <1>4 DEF HandInv

(* What the child is given is what it reads, but for an empty text. *)
LEMMA HandedOn ==
  ASSUME HandInv, command \in {"start", "select"},
         NEW x \in Hand!Settings \ Hand!Local,
         flags'[x] = Unset, env'[x] = Hand!Given(x), UNCHANGED <<wanted, operated>>
  PROVE  Hand!Arrives(x, Hand!Given(x))'
<1>1. Hand!Arrives(x, Hand!Given(x)) /\ operated # "sync"
  BY DEF HandInv, Hand!SettingsKept
<1>2. Hand!Given(x) # Unset
  BY GivenType, SettingsFacts DEF HandInv
<1>3. Hand!Given(x)' = IF Hand!Given(x) # "" THEN Hand!Given(x) ELSE Default[x]
  BY <1>2 DEF Hand!Given
<1>4. QED
  BY <1>1, <1>3 DEF Hand!Arrives

LEMMA HandDaemonStart == ASSUME HandInv, Hand!DaemonStart PROVE HandInv'
<1>1. /\ command = "start" /\ command' = "select" /\ marks' = marks /\ conf' = conf
      /\ UNCHANGED <<supported, operated, wanted, namespace, sandboxed>>
  BY DEF Hand!DaemonStart, Hand!asked
<1>2. \A x \in Hand!Settings :
        /\ flags'[x] = Unset
        /\ env'[x] = IF x = "worker.size" THEN Hand!Given(x)
                     ELSE IF x = "sandbox.disabled"
                          THEN IF Hand!SandboxDisabled THEN "true" ELSE "false"
                          ELSE Hand!Exported[x]
  BY SettingsFacts DEF Hand!DaemonStart, Hand!Nothing, Hand!Exported
<1>3. \A x \in Hand!Settings \ Hand!Local : env'[x] = Hand!Given(x)
  BY <1>2 DEF Hand!Local, Hand!Exported
<1>4. Hand!TypeOK'
  <2>1. ASSUME NEW x \in Hand!Settings
        PROVE  env'[x] \in Values[x] \cup {Default[x], Unset}
    BY <1>2, <1>3, GivenType, SettingsFacts DEF HandInv, Hand!Local
  <2>2. QED
    BY <1>1, <1>2, <2>1 DEF HandInv, Hand!TypeOK
<1>5. Hand!SettingsKept'
  <2>1. \A x \in Hand!Settings \ Hand!Local : Hand!Arrives(x, Hand!Given(x))'
    BY <1>1, <1>2, <1>3, HandedOn
  <2>2. Hand!Given("worker.size")' = wanted["worker.size"]
    <3>1. Hand!Given("worker.size") = wanted["worker.size"]
      BY <1>1 DEF HandInv, Hand!SettingsKept
    <3>2. Hand!Given("worker.size") \notin {Unset, ""}
      BY GivenType, SettingsFacts DEF HandInv
    <3>3. QED
      BY <1>2, <3>1, <3>2, SettingsFacts DEF Hand!Given
  <2>3. Hand!Given("sandbox.disabled")' = IF Hand!SandboxDisabled THEN "true" ELSE "false"
    BY <1>2, SettingsFacts DEF Hand!Given
  <2>4. Hand!SandboxDisabled' <=> Hand!SandboxDisabled
    BY <1>1, <2>3 DEF Hand!SandboxDisabled
  <2>5. QED
    BY <1>1, <2>1, <2>2, <2>4 DEF HandInv, Hand!SettingsKept
<1>6. Hand!MarksTrue'
  BY <1>1 DEF HandInv, Hand!MarksTrue
<1>7. QED
  BY <1>4, <1>5, <1>6 DEF HandInv

LEMMA HandInvoke == ASSUME HandInv, Hand!Invoke PROVE HandInv'
<1>1. /\ command = "select" /\ command' = "sync" /\ conf' = conf
      /\ UNCHANGED <<supported, operated, wanted, sandboxed>>
      /\ marks' = {"invoked"} \cup IF Hand!SandboxDisabled THEN {} ELSE {"sandboxed"}
  BY DEF Hand!Invoke, Hand!asked
<1>2. namespace' \in BOOLEAN /\ (namespace' <=> ~Hand!SandboxDisabled)
  BY Zenon DEF Hand!Invoke
<1>3. \A x \in Hand!Settings :
        /\ flags'[x] = Unset
        /\ env'[x] = IF x \in Hand!Local THEN Unset ELSE Hand!Given(x)
  BY DEF Hand!Invoke, Hand!Nothing, Hand!Exported
<1>4. Hand!TypeOK'
  <2>1. \A x \in Hand!Settings : env'[x] \in Values[x] \cup {Default[x], Unset}
    BY <1>3, GivenType DEF HandInv
  <2>2. QED
    BY <1>1, <1>2, <1>3, <2>1 DEF HandInv, Hand!TypeOK
<1>5. Hand!SettingsKept'
  <2>1. \A x \in Hand!Settings \ Hand!Local : Hand!Arrives(x, Hand!Given(x))'
    BY <1>1, <1>3, HandedOn
  <2>2. QED
    BY <1>1, <2>1 DEF HandInv, Hand!SettingsKept
<1>6. Hand!MarksTrue'
  <2>1. /\ ~Hand!SandboxDisabled <=> supported /\ wanted["sandbox.disabled"] = "false"
        /\ operated # "sync" /\ ~sandboxed
    BY <1>1 DEF HandInv, Hand!SettingsKept, Hand!MarksTrue
  <2>2. "sandboxed" \in marks' <=> ~Hand!SandboxDisabled
    BY <1>1
  <2>3. QED
    BY <1>1, <1>2, <2>1, <2>2 DEF Hand!MarksTrue
<1>7. QED
  BY <1>4, <1>5, <1>6 DEF HandInv

LEMMA HandSyncer == ASSUME HandInv, Hand!Syncer PROVE HandInv'
<1>1. /\ command = "sync" /\ command' = "copy"
      /\ UNCHANGED <<supported, operated, wanted, marks, namespace>>
  BY DEF Hand!Syncer, Hand!asked
<1>2. \A x \in Hand!Settings :
        /\ flags'[x] = Unset /\ env'[x] = Unset
        /\ conf'[x] = IF x \in Hand!Local THEN Unset ELSE Hand!Given(x)
  BY DEF Hand!Syncer, Hand!Nothing
<1>3. sandboxed' \in BOOLEAN /\ (sandboxed' <=> "sandboxed" \in marks)
  <2>1. "sandboxed" \in marks <=> marks = {"invoked", "sandboxed"} /\ supported
    BY DEF HandInv, Hand!MarksTrue
  <2>2. QED
    BY <2>1, Zenon DEF Hand!Syncer
<1>4. Hand!TypeOK'
  <2>1. \A x \in Hand!Settings : conf'[x] \in Values[x] \cup {Default[x], Unset}
    BY <1>2, GivenType DEF HandInv
  <2>2. QED
    BY <1>1, <1>2, <1>3, <2>1 DEF HandInv, Hand!TypeOK
<1>5. Hand!SettingsKept'
  BY <1>1, <1>2 DEF HandInv, Hand!SettingsKept, Hand!Arrives
<1>6. Hand!MarksTrue'
  BY <1>1, <1>3 DEF HandInv, Hand!MarksTrue
<1>7. QED
  BY <1>4, <1>5, <1>6 DEF HandInv

-----------------------------------------------------------------------------
(* SyncChild's invariant from the two. *)

LEMMA Halves == IInv <=> HandInv /\ MountInv /\ (command # "copy" => pc = "sandbox")
BY DEF IInv, TypeOK, HandInv, MountInv

(* While the settings travel nothing has been mounted. *)
LEMMA StepHandsOver == ASSUME IInv, HandsOver PROVE IInv'
<1>1. HandInv /\ MountInv /\ command # "copy" /\ pc = "sandbox" /\ UNCHANGED mountVars
  BY Halves DEF HandsOver, Hand!Next, Hand!DaemonStart, Hand!Invoke, Hand!Syncer
<1>2. HandInv'
  BY <1>1, HandDaemonStart, HandInvoke, HandSyncer DEF HandsOver, Hand!Next
<1>3. MountInv'
  <2>1. pc = "sandbox" /\ pc' = "sandbox" /\ ~isolated /\ dirs = {} /\ mounts = {} /\ k = 1
    BY <1>1 DEF mountVars, MountInv, Mounts!Preparing, Mounts!Isolating
  <2>2. Mounts!TypeOK'
    BY <1>1, <1>2 DEF mountVars, MountInv, HandInv, Mounts!TypeOK, Hand!TypeOK
  <2>3. Mounts!Preparing' /\ Mounts!Cleaning'
    BY <1>1, <2>1 DEF mountVars, Mounts!Preparing, Mounts!Cleaning
  <2>4. Mounts!Isolating'
    BY <1>1, <2>1, Zenon DEF mountVars, Mounts!Isolating
  <2>5. QED
    BY <2>2, <2>3, <2>4 DEF MountInv
<1>4. QED
  BY <1>1, <1>2, <1>3 DEF mountVars, IInv, TypeOK, HandInv, MountInv

LEMMA MountNext == ASSUME MountInv, Mounts!Next PROVE MountInv' /\ UNCHANGED sandboxed
<1>1. UNCHANGED sandboxed
  BY DEF Mounts!Next, Mounts!Prepare, Mounts!Cleanup, Mounts!Gone, Mounts!vars, Mounts!Sandbox,
         Mounts!MkdirTemp, Mounts!Chdir, Mounts!OpenSubpath, Mounts!MakeDir, Mounts!Mount,
         Mounts!Remount, Mounts!CheckPaths, Mounts!CopyEnds, Mounts!CleanupPaths,
         Mounts!Umount, Mounts!Remove, Mounts!Returns, Mounts!Killed, Mounts!Exits,
         Mounts!confVars
<1>2. CASE Mounts!Prepare
  BY <1>1, <1>2, MountSandbox, MountMkdirTemp, MountChdir, MountOpenSubpath, MountMakeDir,
     MountMount, MountRemount DEF Mounts!Prepare
<1>3. CASE Mounts!Cleanup
  BY <1>1, <1>3, MountCleanupPaths, MountUmount, MountRemove DEF Mounts!Cleanup
<1>4. CASE Mounts!Gone
  BY <1>4 DEF Mounts!Gone, Mounts!vars, Mounts!confVars, Mounts!cleanVars, MountInv,
              Mounts!TypeOK, Mounts!Preparing, Mounts!Cleaning, Mounts!Isolating, Mounts!Place
<1>5. QED
  BY <1>1, <1>2, <1>3, <1>4, MountCheckPaths, MountCopyEnds, MountReturns, MountKilled
     DEF Mounts!Next

LEMMA StepSyncs == ASSUME IInv, Syncs PROVE IInv'
<1>1. HandInv /\ MountInv /\ command = "copy" /\ Mounts!Next /\ UNCHANGED handVars
  BY Halves DEF Syncs
<1>2. MountInv' /\ UNCHANGED sandboxed
  BY <1>1, MountNext
<1>3. HandInv'
  <2>1. Hand!TypeOK'
    BY <1>1, <1>2 DEF HandInv, handVars, Hand!TypeOK
  <2>2. Hand!SettingsKept'
    BY <1>1 DEF HandInv, handVars, Hand!SettingsKept, Hand!Arrives
  <2>3. Hand!MarksTrue'
    BY <1>1, <1>2 DEF HandInv, handVars, Hand!MarksTrue
  <2>4. QED
    BY <2>1, <2>2, <2>3 DEF HandInv
<1>4. QED
  BY <1>1, <1>2, <1>3 DEF handVars, IInv, TypeOK, HandInv, MountInv

LEMMA StepStutters == ASSUME IInv, UNCHANGED vars PROVE IInv'
<1>1. HandInv /\ MountInv /\ UNCHANGED <<handVars, sandboxed, mountVars>>
  BY Halves DEF vars
<1>2. HandInv'
  BY <1>1 DEF HandInv, handVars, Hand!TypeOK, Hand!SettingsKept, Hand!MarksTrue, Hand!Arrives,
              Hand!Given, Hand!SandboxDisabled
<1>3. MountInv'
  BY <1>1 DEF MountInv, mountVars, Mounts!TypeOK, Mounts!Preparing, Mounts!Cleaning,
              Mounts!Isolating, Mounts!Place
<1>4. QED
  BY <1>1, <1>2, <1>3 DEF handVars, mountVars, IInv, TypeOK, HandInv, MountInv

(* From the operator's command to the end of the child the settings, the   *)
(* marks and the namespaces agree with what he wanted, and what is mounted *)
(* and made is what Execute has come by (common_args.go:38-129,            *)
(* invoker.go:63-77, runner.go:62-316), for any settings and failures.     *)
THEOREM SyncInvariant == Spec => []IInv
<1>1. Init => IInv
  BY HandInit, MountInit, Halves DEF Init, Mounts!Init
<1>2. IInv /\ [Next]_vars => IInv'
  BY StepHandsOver, StepSyncs, StepStutters DEF Next
<1>3. QED
  BY <1>1, <1>2, PTL DEF Spec

(* The copier runs only on complete mounts and pins, in the sandbox that   *)
(* was asked for (runner.go:135-194), whichever system calls fail.         *)
THEOREM SyncCopiesOnPins == Spec => []CopiesOnPins
<1>1. IInv => CopiesOnPins
  BY Zenon DEF IInv, Mounts!Preparing, Mounts!Isolating, CopiesOnPins
<1>2. QED
  BY <1>1, SyncInvariant, PTL

(* Every setting arrives at the child as the operator gave it, but for an  *)
(* empty text, for any settings and values (common_args.go:38-129).        *)
THEOREM SyncSettingsArrive == Spec => []SettingsArrive
<1>1. IInv => SettingsArrive
  <2>1. SUFFICES ASSUME IInv PROVE SettingsArrive
    OBVIOUS
  <2>2. pc = "copy" => command = "copy"
    BY <2>1 DEF IInv
  <2>3. QED
    BY <2>1, <2>2, SettingsFacts DEF IInv, Hand!SettingsKept, Hand!Arrives, SettingsArrive
<1>2. QED
  BY <1>1, SyncInvariant, PTL

(* A cleanup that is not skipped leaves only what it could not unmount or  *)
(* remove (runner.go:288-316), after any number of failing calls.          *)
THEOREM SyncOnlyStuckLeft == Spec => []OnlyStuckLeft
<1>1. IInv => OnlyStuckLeft
  BY DEF IInv, Mounts!Cleaning, OnlyStuckLeft
<1>2. QED
  BY <1>1, SyncInvariant, PTL

(* A sandboxed child of a selector leaves nothing on the host, however it  *)
(* ends (runner.go:142).                                                   *)
THEOREM SyncSandboxLeavesNothing == Spec => []SandboxLeavesNothing
<1>1. IInv => SandboxLeavesNothing
  <2>1. SUFFICES ASSUME IInv, pc = "gone", supported, operated # "sync",
                        wanted["sandbox.disabled"] = "false"
                 PROVE  dirs = {} /\ mounts = {}
    BY DEF SandboxLeavesNothing
  <2>2. command = "copy"
    BY <2>1 DEF IInv
  <2>3. sandboxed
    BY <2>1, <2>2, Zenon DEF IInv, Hand!MarksTrue
  <2>4. QED
    BY <2>1, <2>3, Zenon DEF IInv, Mounts!Isolating
<1>2. QED
  BY <1>1, SyncInvariant, PTL

(* No process enters the sandbox outside namespaces of its own or against  *)
(* the operator's will (mount_linux.go:16-50, invoker.go:63-77).           *)
THEOREM SyncHostUntouched == Spec => []HostUntouched
<1>1. IInv => HostUntouched
  <2>1. SUFFICES ASSUME IInv, isolated PROVE namespace /\ wanted["sandbox.disabled"] = "false"
    BY DEF HostUntouched
  <2>2. sandboxed /\ command = "copy"
    <3>1. sandboxed
      BY <2>1, Zenon DEF IInv, Mounts!Isolating
    <3>2. pc # "sandbox"
      BY <2>1, Zenon DEF IInv, Mounts!Isolating
    <3>3. QED
      BY <2>1, <3>1, <3>2 DEF IInv
  <2>3. QED
    BY <2>1, <2>2, Zenon DEF IInv, Hand!MarksTrue
<1>2. QED
  BY <1>1, SyncInvariant, PTL
=============================================================================
