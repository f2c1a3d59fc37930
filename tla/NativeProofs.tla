---------------------------- MODULE NativeProofs ----------------------------
(***************************************************************************)
(* Proofs about NativeCopy: the verdict "up to date" is right, and what is *)
(* renamed into place is a whole copy.                                     *)
(***************************************************************************)
EXTENDS NativeCopy, SequenceTheorems, TLAPS

FilesUntil(t) == [data : Seq(0..t), mtime : 0..t]

-----------------------------------------------------------------------------
(* Files *)

LEMMA FilesGrow ==
  ASSUME NEW t \in Nat, NEW u \in Nat, t <= u, NEW f \in FilesUntil(t)
  PROVE  f \in FilesUntil(u)
<1>1. 0..t \subseteq 0..u
  OBVIOUS
<1>2. Seq(0..t) \subseteq Seq(0..u)
  BY <1>1
<1>3. QED
  BY <1>1, <1>2 DEF FilesUntil

LEMMA FileThere ==
  ASSUME NEW t \in Nat, NEW f \in FilesUntil(t)
  PROVE  f # Absent
<1>1. Seq(0..t) \subseteq Seq(Nat) /\ 0..t \subseteq Nat
  <2>1. 0..t \subseteq Nat
    OBVIOUS
  <2>2. QED
    BY <2>1
<1>2. f \in [data : Seq(Nat), mtime : Nat]
  BY <1>1 DEF FilesUntil
<1>3. QED
  BY <1>2, NativeAssumption

(* A file written at one instant. *)
LEMMA FileWritten ==
  ASSUME NEW n \in Nat, NEW t \in Nat, NEW u \in Nat, t <= u
  PROVE  /\ File(n, t) \in FilesUntil(u)
         /\ File(n, t).mtime = t /\ Size(File(n, t)) = n
<1>1. [k \in 1..n |-> t] \in Seq(0..u) /\ Len([k \in 1..n |-> t]) = n
  OBVIOUS
<1>2. t \in 0..u
  OBVIOUS
<1>3. QED
  BY <1>1, <1>2 DEF File, FilesUntil, Size

LEMMA SizeOf ==
  ASSUME NEW t \in Nat, NEW f \in FilesUntil(t)
  PROVE  /\ f.data \in Seq(0..t) /\ f.mtime \in 0..t /\ f.mtime \in Nat
         /\ Size(f) \in Nat /\ Size(f) = Len(f.data)
BY DEF FilesUntil, Size

(* Sequences of one length and the same members are equal. *)
LEMMA SameData ==
  ASSUME NEW t \in Nat, NEW f \in FilesUntil(t), NEW g \in FilesUntil(t),
         Size(f) = Size(g), \A k \in 1..Size(f) : f.data[k] = g.data[k]
  PROVE  f.data = g.data
<1>1. f.data \in Seq(0..t) /\ g.data \in Seq(0..t) /\ Len(f.data) = Len(g.data)
  BY SizeOf
<1>2. \A k \in 1..Len(f.data) : f.data[k] = g.data[k]
  BY SizeOf
<1>3. QED
  BY <1>1, <1>2, SeqEqual

(* What one more block makes of a prefix. *)
LEMMA OneMoreBlock ==
  ASSUME NEW t \in Nat, NEW f \in FilesUntil(t), NEW g \in FilesUntil(t),
         Size(f) < Size(g),
         NEW h, h = [data |-> Append(f.data, g.data[Size(f) + 1]), mtime |-> t + 1]
  PROVE  /\ h \in FilesUntil(t + 1) /\ h.mtime = t + 1
         /\ Size(h) = Size(f) + 1
         /\ \A k \in 1..Size(f) : h.data[k] = f.data[k]
         /\ h.data[Size(f) + 1] = g.data[Size(f) + 1]
<1>1. /\ f.data \in Seq(0..t) /\ g.data \in Seq(0..t)
      /\ Size(f) = Len(f.data) /\ Size(g) = Len(g.data) /\ Size(f) \in Nat /\ Size(g) \in Nat
  BY SizeOf
<1>2. Size(f) + 1 \in 1..Len(g.data)
  BY <1>1
<1>3. g.data[Size(f) + 1] \in 0..t
  BY <1>1, <1>2, ElementOfSeq
<1>4. PICK b \in 0..t : b = g.data[Size(f) + 1]
  BY <1>3
<1>5. /\ Append(f.data, b) \in Seq(0..t) /\ Len(Append(f.data, b)) = Len(f.data) + 1
      /\ \A k \in 1..Len(f.data) : Append(f.data, b)[k] = f.data[k]
      /\ Append(f.data, b)[Len(f.data) + 1] = b
  BY <1>1, AppendProperties
<1>6. h.data = Append(f.data, b) /\ h.mtime = t + 1
  BY <1>4
<1>7. Append(f.data, b) \in Seq(0..t + 1) /\ t + 1 \in 0..t + 1
  <2>1. 0..t \subseteq 0..t + 1 /\ t + 1 \in 0..t + 1
    OBVIOUS
  <2>2. QED
    BY <1>5, <2>1
<1>8. h \in FilesUntil(t + 1)
  BY <1>4, <1>7 DEF FilesUntil
<1>9. QED
  BY <1>1, <1>4, <1>5, <1>6, <1>8 DEF Size

LEMMA Typed ==
  ASSUME TypeOK
  PROVE  /\ now \in Nat /\ now + 1 \in Nat
         /\ src \in FilesUntil(now) /\ src # Absent
         /\ dst = Absent \/ dst \in FilesUntil(now)
         /\ tmp = Absent \/ tmp \in FilesUntil(now)
         /\ srcInfo = Absent \/ srcInfo \in FilesUntil(now)
         /\ dstInfo = Absent \/ dstInfo \in FilesUntil(now)
         /\ tm \in Nat /\ tm <= now
         /\ src.mtime \in Nat /\ src.mtime <= now
<1>1. /\ now \in Nat /\ now + 1 \in Nat
      /\ src \in FilesUntil(now)
      /\ dst = Absent \/ dst \in FilesUntil(now)
      /\ tmp = Absent \/ tmp \in FilesUntil(now)
      /\ srcInfo = Absent \/ srcInfo \in FilesUntil(now)
      /\ dstInfo = Absent \/ dstInfo \in FilesUntil(now)
      /\ tm \in Nat /\ tm <= now
  BY DEF TypeOK, IsFile, FilesUntil
<1>2. src # Absent
  BY <1>1, FileThere
<1>3. src.mtime \in 0..now
  BY <1>1, SizeOf
<1>4. QED
  BY <1>1, <1>2, <1>3

-----------------------------------------------------------------------------
(* Types *)

LEMMA InitTypes == Init => TypeOK
<1>1. SUFFICES ASSUME Init
               PROVE  TypeOK
  OBVIOUS
<1>2. /\ src \in FilesUntil(3)
      /\ dst = Absent \/ dst \in FilesUntil(3)
  <2>1. \A n \in Blocks : n \in Nat
    BY DEF Blocks
  <2>2. \A n \in Blocks : File(n, 1) \in FilesUntil(3) /\ File(n, 2) \in FilesUntil(3)
                          /\ File(n, 3) \in FilesUntil(3)
    BY <2>1, FileWritten
  <2>3. dst \in Absence \cup Older \cup Newer
    BY <1>1, NativeAssumption DEF Init
  <2>4. QED
    BY <1>1, <2>2, <2>3 DEF Init, Absence, Older, Newer
<1>3. now = 3 /\ 3 \in Nat
  BY <1>1 DEF Init
<1>4. 0 \in 0..now /\ 0 \in 0..MaxWrites /\ 0 \in 0..MaxEdits
      /\ 0 \in 0..MaxFaults /\ 0 \in 0..MaxCrashes
  BY <1>3, NativeAssumption
<1>5. IsFile(src) /\ \A f \in {dst, tmp, srcInfo, dstInfo} : f = Absent \/ IsFile(f)
  BY <1>1, <1>2, <1>3 DEF Init, IsFile, FilesUntil
<1>6. QED
  BY <1>1, <1>3, <1>4, <1>5 DEF Init, TypeOK

(* Instants only pass, and what was a file stays one. *)
LEMMA TimePasses ==
  ASSUME TypeOK, [Next]_vars
  PROVE  /\ now' \in Nat /\ now' \in {now, now + 1}
         /\ \A f \in FilesUntil(now) : f \in FilesUntil(now')
<1>1. now' \in {now, now + 1}
  BY DEF Next, World, Copier, SrcWrite, SrcRemove, DstEdit, Crash, LstatSrc, LstatDst, OpenSrc,
         CreateTemp, Copy, RemoveDst, Rename, Chmod, Chtimes, vars
<1>2. now \in Nat
  BY DEF TypeOK
<1>3. QED
  BY <1>1, <1>2, FilesGrow

LEMMA StepSrcTypes ==
  ASSUME TypeOK, [Next]_vars
  PROVE  src' \in FilesUntil(now') /\ named' \in BOOLEAN
<1>1. src \in FilesUntil(now') /\ now \in Nat
  BY Typed, TimePasses
<1>2. CASE SrcWrite
  <2>1. PICK n \in Blocks : src' = File(n, now + 1) /\ now' = now + 1
    BY <1>2 DEF SrcWrite
  <2>2. n \in Nat /\ now + 1 \in Nat
    BY <1>1 DEF Blocks
  <2>3. src' \in FilesUntil(now')
    BY <2>1, <2>2, FileWritten
  <2>4. QED
    BY <1>2, <2>3 DEF SrcWrite, TypeOK
<1>3. CASE ~SrcWrite
  <2>1. src' = src /\ named' \in {named, FALSE}
    BY <1>3
    DEF Next, World, Copier, SrcRemove, DstEdit, Crash, LstatSrc, LstatDst, OpenSrc,
        CreateTemp, Copy, RemoveDst, Rename, Chmod, Chtimes, vars, diskVars
  <2>2. QED
    BY <1>1, <2>1 DEF TypeOK
<1>4. QED
  BY <1>2, <1>3

LEMMA StepDstTypes ==
  ASSUME TypeOK, CopyIsThere, [Next]_vars
  PROVE  /\ dst' = Absent \/ dst' \in FilesUntil(now')
         /\ undated' \in BOOLEAN /\ CopyIsThere'
<1>1. /\ dst = Absent \/ dst \in FilesUntil(now')
      /\ tmp = Absent \/ tmp \in FilesUntil(now')
      /\ now \in Nat /\ now' \in Nat /\ undated \in BOOLEAN
  BY Typed, TimePasses DEF TypeOK
<1>2. CASE DstEdit
  <2>1. PICK n \in Blocks : dst' = File(n, now + 1) /\ now' = now + 1
    BY <1>2 DEF DstEdit
  <2>2. n \in Nat /\ now + 1 \in Nat
    BY <1>1 DEF Blocks
  <2>3. dst' \in FilesUntil(now')
    BY <2>1, <2>2, FileWritten
  <2>4. undated' = FALSE /\ pc' = "idle"
    BY <1>2 DEF DstEdit
  <2>5. QED
    BY <2>3, <2>4 DEF CopyIsThere
<1>3. CASE Chtimes
  <2>1. /\ pc = "chtimes" /\ pc' = "idle" /\ now' = now
        /\ \/ dst' = [dst EXCEPT !.mtime = tm] /\ undated' = FALSE
           \/ dst' = Absent /\ undated' = FALSE
           \/ UNCHANGED <<dst, undated>>
    BY <1>3 DEF Chtimes, Return, TakeAway
  <2>2. dst \in FilesUntil(now) /\ tm \in 0..now
    BY <2>1, Typed DEF TypeOK, CopyIsThere
  <2>3. [dst EXCEPT !.mtime = tm] \in FilesUntil(now)
    BY <2>2 DEF FilesUntil
  <2>4. QED
    BY <1>1, <2>1, <2>3 DEF CopyIsThere
<1>4. CASE Rename
  <2>1. /\ tmp # Absent
        /\ \/ dst' = tmp /\ undated' = TRUE
           \/ UNCHANGED <<dst, undated>> /\ pc' = "idle"
    BY <1>4 DEF Rename, Abandon, Return, TypeOK
  <2>2. (dst' = Absent \/ dst' \in FilesUntil(now')) /\ undated' \in BOOLEAN
    BY <1>1, <2>1
  <2>3. CASE dst' = tmp /\ undated' = TRUE
    BY <2>1, <2>2, <2>3, Zenon DEF CopyIsThere
  <2>4. CASE UNCHANGED <<dst, undated>> /\ pc' = "idle"
    <3>1. dst' = dst /\ undated' = undated /\ pc' = "idle"
      BY <2>4
    <3>2. pc' \notin {"chmod", "chtimes"}
      BY <3>1
    <3>3. QED
      BY <2>2, <3>1, <3>2, Zenon DEF CopyIsThere
  <2>5. QED
    BY <2>1, <2>2, <2>3, <2>4
<1>5. CASE ~DstEdit /\ ~Chtimes /\ ~Rename
  <2>1. \/ UNCHANGED <<dst, undated>>
        \/ dst' = Absent /\ undated' = FALSE
    BY <1>5
    DEF Next, World, Copier, SrcWrite, SrcRemove, Crash, LstatSrc, LstatDst, OpenSrc,
        CreateTemp, Copy, RemoveDst, Chmod, TakeAway, vars, diskVars
  <2>2. pc' \in {"chmod", "chtimes"} => pc \in {"chmod", "chtimes"} /\ undated' = undated
    BY <1>5
    DEF Next, World, Copier, SrcWrite, SrcRemove, Crash, LstatSrc, LstatDst, OpenSrc,
        CreateTemp, Copy, RemoveDst, Chmod, TakeAway, vars, diskVars, Return, Abandon
  <2>3. (dst' = Absent \/ dst' \in FilesUntil(now')) /\ undated' \in BOOLEAN
    BY <1>1, <2>1
  <2>4. CASE dst' = dst /\ undated' = undated
    BY <2>2, <2>3, <2>4, Zenon DEF CopyIsThere
  <2>5. CASE dst' = Absent /\ undated' = FALSE
    BY <2>2, <2>3, <2>5, Zenon DEF CopyIsThere
  <2>6. QED
    BY <2>1, <2>4, <2>5
<1>6. QED
  BY <1>2, <1>3, <1>4, <1>5

(* The block that a step of the copy reads. *)
LEMMA CopiedBlock ==
  ASSUME TypeOK, Copy, pc' = "copy"
  PROVE  /\ tmp # Absent /\ Size(tmp) < Size(src) /\ now' = now + 1
         /\ tmp' = [data |-> Append(tmp.data, src.data[Size(tmp) + 1]), mtime |-> now + 1]
         /\ UNCHANGED <<src, tm>>
BY DEF Copy, TypeOK, Abandon, Return, localVars

LEMMA StepTmpTypes ==
  ASSUME TypeOK, [Next]_vars
  PROVE  /\ tmp' = Absent \/ tmp' \in FilesUntil(now')
         /\ pc' \in {"copy", "remove", "rename"} <=> tmp' # Absent
<1>1. /\ tmp = Absent \/ tmp \in FilesUntil(now')
      /\ now \in Nat /\ now' \in Nat /\ now + 1 \in Nat
      /\ pc \in {"copy", "remove", "rename"} <=> tmp # Absent
  BY Typed, TimePasses DEF TypeOK
<1>2. CASE CreateTemp
  <2>1. CASE tmp' = File(0, now + 1) /\ now' = now + 1 /\ pc' = "copy"
    <3>1. tmp' \in FilesUntil(now')
      BY <1>1, <2>1, FileWritten
    <3>2. QED
      BY <1>1, <2>1, <3>1, FileThere
  <2>2. QED
    BY <1>1, <1>2, <2>1 DEF CreateTemp, Return
<1>3. CASE Copy /\ pc' = "copy"
  <2>1. /\ tmp # Absent /\ Size(tmp) < Size(src) /\ now' = now + 1
        /\ tmp' = [data |-> Append(tmp.data, src.data[Size(tmp) + 1]), mtime |-> now + 1]
    BY <1>3, CopiedBlock
  <2>2. tmp \in FilesUntil(now) /\ src \in FilesUntil(now)
    BY <2>1, Typed
  <2>3. tmp' \in FilesUntil(now')
    BY <1>1, <2>1, <2>2, OneMoreBlock
  <2>4. QED
    BY <1>1, <1>3, <2>3, FileThere
<1>4. CASE Copy /\ pc' # "copy"
  BY <1>1, <1>4 DEF Copy, Abandon, Return
<1>5. CASE ~CreateTemp /\ ~Copy
  <2>1. tmp' \in {tmp, Absent}
    BY <1>5
    DEF Next, World, Copier, SrcWrite, SrcRemove, DstEdit, Crash, LstatSrc, LstatDst, OpenSrc,
        RemoveDst, Rename, Chmod, Chtimes, vars, diskVars, Abandon
  <2>2. pc' \in {"copy", "remove", "rename"} <=> tmp' # Absent
    BY <1>1, <1>5
    DEF Next, World, Copier, SrcWrite, SrcRemove, DstEdit, Crash, LstatSrc, LstatDst, OpenSrc,
        RemoveDst, Rename, Chmod, Chtimes, vars, diskVars, Abandon, Return
  <2>3. QED
    BY <1>1, <2>1, <2>2
<1>6. QED
  BY <1>2, <1>3, <1>4, <1>5

LEMMA StepLocalTypes ==
  ASSUME TypeOK, [Next]_vars
  PROVE  /\ srcInfo' = Absent \/ srcInfo' \in FilesUntil(now')
         /\ dstInfo' = Absent \/ dstInfo' \in FilesUntil(now')
         /\ tm' \in 0..now'
         /\ pc' # "idle" <=> srcInfo' # Absent
<1>1. /\ now \in Nat /\ now' \in Nat /\ now <= now'
      /\ src \in FilesUntil(now') /\ src # Absent
      /\ dst = Absent \/ dst \in FilesUntil(now')
      /\ srcInfo = Absent \/ srcInfo \in FilesUntil(now')
      /\ dstInfo = Absent \/ dstInfo \in FilesUntil(now')
      /\ tm \in Nat /\ tm <= now /\ src.mtime \in Nat /\ src.mtime <= now
      /\ pc # "idle" <=> srcInfo # Absent
  BY Typed, TimePasses DEF TypeOK
<1>2. srcInfo' \in {srcInfo, src, Absent} /\ dstInfo' \in {dstInfo, dst, Absent}
  BY DEF Next, World, Copier, SrcWrite, SrcRemove, DstEdit, Crash, LstatSrc, LstatDst, OpenSrc,
         CreateTemp, Copy, RemoveDst, Rename, Chmod, Chtimes, vars, localVars, Abandon, Return,
         Forget
<1>3. tm' \in {tm, src.mtime, 0}
  BY DEF Next, World, Copier, SrcWrite, SrcRemove, DstEdit, Crash, LstatSrc, LstatDst, OpenSrc,
         CreateTemp, Copy, RemoveDst, Rename, Chmod, Chtimes, vars, localVars, Abandon, Return,
         Forget
<1>4. pc' # "idle" <=> srcInfo' # Absent
  BY <1>1
  DEF Next, World, Copier, SrcWrite, SrcRemove, DstEdit, Crash, LstatSrc, LstatDst, OpenSrc,
      CreateTemp, Copy, RemoveDst, Rename, Chmod, Chtimes, vars, localVars, Abandon, Return,
      Forget
<1>5. QED
  BY <1>1, <1>2, <1>3, <1>4

LEMMA StepTypes ==
  ASSUME TypeOK, CopyIsThere, [Next]_vars
  PROVE  TypeOK'
<1>1. now' \in Nat
  BY TimePasses
<1>2. src' \in FilesUntil(now') /\ named' \in BOOLEAN
  BY StepSrcTypes
<1>3. /\ dst' = Absent \/ dst' \in FilesUntil(now')
      /\ undated' \in BOOLEAN
  BY StepDstTypes
<1>4. /\ tmp' = Absent \/ tmp' \in FilesUntil(now')
      /\ pc' \in {"copy", "remove", "rename"} <=> tmp' # Absent
  BY StepTmpTypes
<1>5. /\ srcInfo' = Absent \/ srcInfo' \in FilesUntil(now')
      /\ dstInfo' = Absent \/ dstInfo' \in FilesUntil(now')
      /\ tm' \in 0..now'
      /\ pc' # "idle" <=> srcInfo' # Absent
  BY StepLocalTypes
<1>6. leaked' \in BOOLEAN
  <2>1. leaked' \in {leaked, TRUE, leaked \/ tmp # Absent}
    BY Zenon DEF Next, World, Copier, SrcWrite, SrcRemove, DstEdit, Crash, LstatSrc, LstatDst,
       OpenSrc, CreateTemp, Copy, RemoveDst, Rename, Chmod, Chtimes, vars, diskVars, Abandon
  <2>2. QED
    BY <2>1 DEF TypeOK
<1>7. pc' \in {"idle", "lstat", "open", "temp", "copy", "remove", "rename", "chmod", "chtimes"}
  BY DEF Next, World, Copier, SrcWrite, SrcRemove, DstEdit, Crash, LstatSrc, LstatDst, OpenSrc,
         CreateTemp, Copy, RemoveDst, Rename, Chmod, Chtimes, vars, Abandon, Return, TypeOK
<1>8. /\ writes' \in 0..MaxWrites /\ edits' \in 0..MaxEdits
      /\ faults' \in 0..MaxFaults /\ crashes' \in 0..MaxCrashes
  <2>1. /\ writes \in 0..MaxWrites /\ edits \in 0..MaxEdits
        /\ faults \in 0..MaxFaults /\ crashes \in 0..MaxCrashes
    BY DEF TypeOK
  <2>2. /\ writes' = writes \/ (writes < MaxWrites /\ writes' = writes + 1)
        /\ edits' = edits \/ (edits < MaxEdits /\ edits' = edits + 1)
        /\ faults' = faults \/ (faults < MaxFaults /\ faults' = faults + 1)
        /\ crashes' = crashes \/ (crashes < MaxCrashes /\ crashes' = crashes + 1)
    BY DEF Next, World, Copier, SrcWrite, SrcRemove, DstEdit, Crash, LstatSrc, LstatDst, OpenSrc,
           CreateTemp, Copy, RemoveDst, Rename, Chmod, Chtimes, vars, envVars, Works, Fails
  <2>3. QED
    BY <2>1, <2>2, NativeAssumption
<1>9. QED
  BY <1>1, <1>2, <1>3, <1>4, <1>5, <1>6, <1>7, <1>8 DEF TypeOK, IsFile, FilesUntil

-----------------------------------------------------------------------------
(* The temporary file and the destination *)

(* A write to the source is an instant nothing else has. *)
LEMMA SourceWritten ==
  ASSUME TypeOK, SrcWrite
  PROVE  src'.mtime = now + 1 /\ src'.mtime > now /\ UNCHANGED <<dst, tmp, pc, tm>>
<1>1. PICK n \in Blocks : src' = File(n, now + 1)
  BY DEF SrcWrite
<1>2. n \in Nat /\ now \in Nat /\ now + 1 \in Nat
  BY Typed DEF Blocks
<1>3. src'.mtime = now + 1
  BY <1>1, <1>2, FileWritten
<1>4. QED
  BY <1>2, <1>3 DEF SrcWrite, localVars

(* Every other step leaves the source as it is. *)
LEMMA SourceKept ==
  ASSUME [Next]_vars, ~SrcWrite
  PROVE  UNCHANGED src
BY DEF Next, World, Copier, SrcRemove, DstEdit, Crash, LstatSrc, LstatDst, OpenSrc,
       CreateTemp, Copy, RemoveDst, Rename, Chmod, Chtimes, vars, diskVars

LEMMA StepPrefix ==
  ASSUME TypeOK, TempIsPrefix, [Next]_vars
  PROVE  TempIsPrefix'
<1>1. /\ now \in Nat /\ tm \in Nat /\ tm <= now /\ src.mtime \in Nat /\ src.mtime <= now
      /\ src \in FilesUntil(now)
      /\ tmp = Absent \/ (tmp \in FilesUntil(now) /\ tmp.mtime \in Nat /\ tmp.mtime <= now)
  <2>1. tmp = Absent \/ (tmp \in FilesUntil(now) /\ tmp.mtime \in 0..now)
    BY Typed, SizeOf
  <2>2. QED
    BY <2>1, Typed
<1>2. CASE SrcWrite
  <2>1. src'.mtime > now /\ UNCHANGED <<tmp, pc, tm>>
    BY <1>2, SourceWritten
  <2>2. src'.mtime # tm' /\ (tmp' # Absent => tmp'.mtime # src'.mtime)
    <3>1. src'.mtime = now + 1
      BY <1>2, SourceWritten
    <3>2. QED
      BY <1>1, <2>1, <3>1
  <2>3. QED
    BY <2>2 DEF TempIsPrefix
<1>3. CASE CreateTemp
  <2>1. CASE tmp' = File(0, now + 1) /\ pc' = "copy" /\ UNCHANGED <<src, tm>>
    <3>1. now + 1 \in Nat
      BY <1>1
    <3>2. tmp' = File(0, now + 1) /\ Size(File(0, now + 1)) = 0 /\ File(0, now + 1).mtime = now + 1
      BY <2>1, <3>1, FileWritten
    <3>3. Size(src) \in Nat
      BY <1>1, SizeOf
    <3>4. tmp'.mtime # src'.mtime /\ Size(tmp') = 0 /\ Size(tmp') <= Size(src')
      BY <1>1, <2>1, <3>2, <3>3
    <3>5. QED
      BY <2>1, <3>4 DEF TempIsPrefix, Size
  <2>2. CASE pc' = "idle" /\ tmp' = tmp
    BY <1>3, <2>2 DEF CreateTemp, TempIsPrefix, TypeOK
  <2>3. QED
    BY <1>3, <2>1, <2>2 DEF CreateTemp, Return, localVars
<1>4. CASE Copy /\ pc' = "copy"
  <2>1. /\ tmp # Absent /\ Size(tmp) < Size(src)
        /\ tmp' = [data |-> Append(tmp.data, src.data[Size(tmp) + 1]), mtime |-> now + 1]
        /\ UNCHANGED <<src, tm>>
    BY <1>4, CopiedBlock
  <2>2. tmp \in FilesUntil(now) /\ Size(tmp) \in Nat /\ Size(src) \in Nat
    BY <1>1, <2>1, SizeOf
  <2>3. /\ tmp'.mtime = now + 1 /\ Size(tmp') = Size(tmp) + 1
        /\ \A k \in 1..Size(tmp) : tmp'.data[k] = tmp.data[k]
        /\ tmp'.data[Size(tmp) + 1] = src.data[Size(tmp) + 1]
    <3>1. PICK h : h = tmp'
      OBVIOUS
    <3>2. h = [data |-> Append(tmp.data, src.data[Size(tmp) + 1]), mtime |-> now + 1]
      BY <2>1, <3>1
    <3>3. now \in Nat /\ src \in FilesUntil(now) /\ tmp \in FilesUntil(now) /\ Size(tmp) < Size(src)
      BY <1>1, <2>1, <2>2
    <3>4. h.mtime = now + 1
      BY <3>2, <3>3, OneMoreBlock
    <3>5. Size(h) = Size(tmp) + 1
      BY <3>2, <3>3, OneMoreBlock
    <3>6. ASSUME NEW k \in 1..Size(tmp)
          PROVE  h.data[k] = tmp.data[k]
      BY <3>2, <3>3, OneMoreBlock, ZenonT(30)
    <3>7. h.data[Size(tmp) + 1] = src.data[Size(tmp) + 1]
      BY <3>2, <3>3, OneMoreBlock, ZenonT(30)
    <3>8. QED
      BY <3>1, <3>4, <3>5, <3>6, <3>7 DEF Size
  <2>4. ASSUME src.mtime = tm
        PROVE  \A k \in 1..Size(tmp') : tmp'.data[k] = src.data[k]
    <3>1. \A k \in 1..Size(tmp) : tmp.data[k] = src.data[k]
      BY <2>1, <2>4 DEF TempIsPrefix
    <3>2. \A k \in 1..(Size(tmp) + 1) : tmp'.data[k] = src.data[k]
      BY <2>2, <2>3, <3>1
    <3>3. QED
      BY <2>3, <3>2
  <2>5. tmp'.mtime # src.mtime /\ Size(tmp') <= Size(src)
    BY <1>1, <2>1, <2>2, <2>3
  <2>6. UNCHANGED <<src, tm>> /\ pc' = "copy"
    BY <1>4, <2>1
  <2>7. QED
    BY <2>4, <2>5, <2>6 DEF TempIsPrefix, Size
<1>5. CASE Copy /\ pc' = "remove"
  <2>1. tmp # Absent /\ Size(tmp) >= Size(src) /\ UNCHANGED <<src, tmp, tm>>
    BY <1>5 DEF Copy, TypeOK, Abandon, Return, localVars
  <2>2. Size(tmp) \in Nat /\ Size(src) \in Nat
    BY <1>1, <2>1, SizeOf
  <2>3. src.mtime = tm => Size(tmp) = Size(src)
    BY <2>1, <2>2 DEF TempIsPrefix
  <2>4. QED
    BY <2>1, <2>3 DEF TempIsPrefix, Size
<1>6. CASE Copy /\ pc' \notin {"copy", "remove"}
  <2>1. tmp' = Absent
    BY <1>6 DEF Copy, Abandon, Return
  <2>2. QED
    BY <2>1 DEF TempIsPrefix
<1>7. CASE ~SrcWrite /\ ~CreateTemp /\ ~Copy
  <2>1. UNCHANGED src
    BY <1>7, SourceKept
  <2>2. tmp = Absent => tmp' = Absent
    BY <1>7
    DEF Next, World, Copier, SrcRemove, DstEdit, Crash, LstatSrc, LstatDst, OpenSrc,
        RemoveDst, Rename, Chmod, Chtimes, vars, diskVars, Abandon
  <2>3. tmp' = Absent \/ (UNCHANGED <<tmp, tm>> /\ (pc' = "copy" <=> pc = "copy"))
    BY <1>7
    DEF Next, World, Copier, SrcRemove, DstEdit, Crash, LstatSrc, LstatDst, OpenSrc, TypeOK,
        RemoveDst, Rename, Chmod, Chtimes, vars, diskVars, localVars, Abandon, Return
  <2>4. QED
    BY <2>1, <2>2, <2>3 DEF TempIsPrefix, Size
<1>8. QED
  BY <1>2, <1>3, <1>4, <1>5, <1>6, <1>7

LEMMA StepWhole ==
  ASSUME TypeOK, TempIsPrefix, RenamedIsWhole, [Next]_vars
  PROVE  RenamedIsWhole'
<1>1. CASE SrcWrite
  <2>1. src'.mtime = now + 1 /\ src'.mtime > now /\ tm' = tm
    BY <1>1, SourceWritten
  <2>2. src'.mtime # tm'
    BY <2>1, Typed
  <2>3. QED
    BY <2>2 DEF RenamedIsWhole
<1>2. CASE Rename
  <2>1. CASE dst' = tmp /\ UNCHANGED <<src, tm>>
    <3>1. tmp # Absent /\ pc # "copy" /\ tmp \in FilesUntil(now) /\ src \in FilesUntil(now)
      BY <1>2, Typed DEF Rename, TypeOK
    <3>2. src.mtime = tm => /\ Size(tmp) = Size(src)
                            /\ \A k \in 1..Size(tmp) : tmp.data[k] = src.data[k]
      BY <3>1 DEF TempIsPrefix
    <3>3. src.mtime = tm => tmp.data = src.data
      BY <3>1, <3>2, SameData, Typed
    <3>4. QED
      BY <2>1, <3>3 DEF RenamedIsWhole
  <2>2. CASE pc' = "idle"
    BY <2>2 DEF RenamedIsWhole
  <2>3. QED
    BY <1>2, <2>1, <2>2 DEF Rename, Abandon, Return, localVars
<1>3. CASE ~SrcWrite /\ ~Rename
  <2>1. UNCHANGED src
    BY <1>3, SourceKept
  <2>2. pc' \in {"chmod", "chtimes"} => pc \in {"chmod", "chtimes"} /\ UNCHANGED <<dst, tm>>
    BY <1>3
    DEF Next, World, Copier, SrcRemove, DstEdit, Crash, LstatSrc, LstatDst, OpenSrc, CreateTemp,
        Copy, RemoveDst, Chmod, Chtimes, vars, diskVars, localVars, Abandon, Return
  <2>3. QED
    BY <2>1, <2>2 DEF RenamedIsWhole
<1>4. QED
  BY <1>1, <1>2, <1>3

LEMMA StepSame ==
  ASSUME TypeOK, CopyIsThere, TempIsPrefix, RenamedIsWhole, SameTimeIsSame, [Next]_vars
  PROVE  SameTimeIsSame'
<1>1. /\ now \in Nat /\ src.mtime \in Nat /\ src.mtime <= now
      /\ dst = Absent \/ (dst \in FilesUntil(now) /\ dst.mtime \in 0..now)
  BY Typed, SizeOf
<1>2. CASE SrcWrite
  <2>1. src'.mtime = now + 1 /\ dst' = dst
    BY <1>2, SourceWritten
  <2>2. QED
    BY <1>1, <2>1 DEF SameTimeIsSame
<1>3. CASE DstEdit
  <2>1. PICK n \in Blocks : dst' = File(n, now + 1)
    BY <1>3 DEF DstEdit
  <2>2. n \in Nat /\ now + 1 \in Nat
    BY <1>1 DEF Blocks
  <2>3. dst'.mtime = now + 1 /\ src' = src
    BY <1>3, <2>1, <2>2, FileWritten DEF DstEdit
  <2>4. QED
    BY <1>1, <2>3 DEF SameTimeIsSame
<1>4. CASE Rename
  <2>1. (dst' = tmp /\ tmp # Absent) \/ dst' = dst
    BY <1>4 DEF Rename, TypeOK
  <2>2. src' = src
    BY <1>4 DEF Rename
  <2>3. QED
    BY <2>1, <2>2 DEF SameTimeIsSame, TempIsPrefix
<1>5. CASE Chtimes
  <2>1. pc = "chtimes" /\ src' = src /\ dst' \in {[dst EXCEPT !.mtime = tm], Absent, dst}
    BY <1>5 DEF Chtimes, TakeAway
  <2>2. dst \in FilesUntil(now) /\ dst # Absent
    BY <1>1, <2>1 DEF CopyIsThere
  <2>3. [dst EXCEPT !.mtime = tm].mtime = tm /\ [dst EXCEPT !.mtime = tm].data = dst.data
    BY <2>2 DEF FilesUntil
  <2>4. src.mtime = tm => dst.data = src.data
    BY <2>1 DEF RenamedIsWhole
  <2>5. QED
    BY <2>1, <2>3, <2>4 DEF SameTimeIsSame
<1>6. CASE ~SrcWrite /\ ~DstEdit /\ ~Rename /\ ~Chtimes
  <2>1. UNCHANGED src
    BY <1>6, SourceKept
  <2>2. dst' \in {dst, Absent}
    BY <1>6
    DEF Next, World, Copier, SrcRemove, Crash, LstatSrc, LstatDst, OpenSrc, CreateTemp,
        Copy, RemoveDst, Chmod, TakeAway, vars, diskVars
  <2>3. QED
    BY <2>1, <2>2 DEF SameTimeIsSame
<1>7. QED
  BY <1>2, <1>3, <1>4, <1>5, <1>6

LEMMA InitSame == Init => SameTimeIsSame
<1>1. SUFFICES ASSUME Init, dst # Absent
               PROVE  dst.mtime # src.mtime
  BY DEF SameTimeIsSame
<1>2. \A n \in Blocks : n \in Nat
  BY DEF Blocks
<1>3. \A n \in Blocks : File(n, 1).mtime = 1 /\ File(n, 2).mtime = 2 /\ File(n, 3).mtime = 3
  BY <1>2, FileWritten
<1>4. src.mtime = 2
  BY <1>1, <1>3 DEF Init
<1>5. dst \in Absence \cup Older \cup Newer
  BY <1>1, NativeAssumption DEF Init
<1>6. dst.mtime \in {1, 3}
  BY <1>1, <1>3, <1>5 DEF Absence, Older, Newer
<1>7. QED
  BY <1>4, <1>6

-----------------------------------------------------------------------------
(* The theorems *)

(* The invariant behind the two results below is inductive: the temporary  *)
(* file is a prefix of the source that was opened for as long as that is   *)
(* the source, and its own time is nobody else's.                          *)
THEOREM NativeInvariant == Spec => []IInv
<1>1. Init => IInv
  BY InitTypes, InitSame DEF Init, IInv, CopyIsThere, TempIsPrefix, RenamedIsWhole
<1>2. IInv /\ [Next]_vars => IInv'
  <2>1. SUFFICES ASSUME IInv, [Next]_vars
                 PROVE  IInv'
    OBVIOUS
  <2>2. /\ TypeOK /\ TempIsPrefix /\ RenamedIsWhole /\ SameTimeIsSame
        /\ CopyIsThere
    BY <2>1 DEF IInv
  <2>3. TypeOK' /\ CopyIsThere'
    BY <2>1, <2>2, StepTypes, StepDstTypes
  <2>4. TempIsPrefix' /\ RenamedIsWhole' /\ SameTimeIsSame'
    BY <2>1, <2>2, StepPrefix, StepWhole, StepSame
  <2>5. QED
    BY <2>3, <2>4 DEF IInv
<1>3. QED
  BY <1>1, <1>2, PTL DEF Spec

(* A destination with the source's size and time has its contents, however *)
(* often the source was written while it was copied (compareFile,          *)
(* copyFile).                                                              *)
THEOREM NativeUptodate == Spec => []UptodateIsSame
<1>1. IInv => UptodateIsSame
  BY DEF IInv, SameTimeIsSame, UptodateIsSame
<1>2. QED
  BY <1>1, NativeInvariant, PTL

(* What was renamed into place is the source that was opened, block by     *)
(* block, unless the source changed since (copyFile).                      *)
THEOREM NativeRenamedWhole == Spec => []RenamedIsWhole
<1>1. IInv => RenamedIsWhole
  BY DEF IInv
<1>2. QED
  BY <1>1, NativeInvariant, PTL
=============================================================================
