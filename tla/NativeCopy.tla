----------------------------- MODULE NativeCopy -----------------------------
(***************************************************************************)
(* The native copier on one regular file (copyRegularFile, compareFile and *)
(* copyFile): runs follow one another, every system call is a step, the    *)
(* source may be written or removed between any two of them, calls fail,   *)
(* the context is cancelled and the process dies.                          *)
(*                                                                         *)
(* A file is its blocks and its modification time.  A block is named by    *)
(* the instant it was written, so equal blocks hold equal contents, and no *)
(* two writes happen at the same instant.                                  *)
(***************************************************************************)
EXTENDS Integers, Sequences

CONSTANTS MaxWrites,  \* bound: writes to the source after the start
          MaxEdits,   \* bound: writes to the destination by others
          MaxFaults,  \* bound: failing system calls and cancellations
          MaxCrashes, \* bound: deaths of the process
          DstAtStart, \* destinations to start from
          Absent      \* no such file

Blocks == 1..2        \* files have one or two blocks

File(n, t) == [data |-> [k \in 1..n |-> t], mtime |-> t]
Size(f) == Len(f.data)

(* The source is written at instant 2: a destination may be older, newer,  *)
(* or not there.                                                           *)
Absence == {Absent}
Older == {File(n, 1) : n \in Blocks}
Newer == {File(n, 3) : n \in Blocks}

ASSUME NativeAssumption ==
  /\ MaxWrites \in Nat /\ MaxEdits \in Nat /\ MaxFaults \in Nat /\ MaxCrashes \in Nat
  /\ DstAtStart \subseteq Absence \cup Older \cup Newer
  /\ Absent \notin [data : Seq(Nat), mtime : Nat]

VARIABLES
  now,     \* the last instant at which something was written
  src,     \* the source file
  named,   \* the source path still leads to it
  dst,     \* the destination file, or Absent
  tmp,     \* the temporary file being written, or Absent
  undated, \* dst is a copy whose times were not set (yet, or ever)
  leaked,  \* a temporary file was left behind
  pc,      \* control state of copyRegularFile
  srcInfo, \* compareFile's Lstat of the source
  dstInfo, \* and of the destination
  tm,      \* the source's times, taken by copyFile
  writes, edits, faults, crashes

diskVars  == <<src, named, dst, undated, tmp, leaked>>
localVars == <<srcInfo, dstInfo, tm>>
envVars   == <<writes, edits, faults, crashes>>
vars == <<now, diskVars, pc, localVars, envVars>>

Init ==
  /\ now = 3
  /\ src \in {File(n, 2) : n \in Blocks} /\ named = TRUE
  /\ dst \in DstAtStart /\ undated = FALSE
  /\ tmp = Absent /\ leaked = FALSE
  /\ pc = "idle" /\ srcInfo = Absent /\ dstInfo = Absent /\ tm = 0
  /\ writes = 0 /\ edits = 0 /\ faults = 0 /\ crashes = 0

-----------------------------------------------------------------------------
(* The rest of the world *)

SrcWrite ==
  /\ named
  /\ writes < MaxWrites
  /\ \E n \in Blocks : src' = File(n, now + 1)
  /\ now' = now + 1
  /\ writes' = writes + 1
  /\ UNCHANGED <<named, dst, undated, tmp, leaked, pc, localVars, edits, faults, crashes>>

SrcRemove ==
  /\ named
  /\ writes < MaxWrites
  /\ named' = FALSE
  /\ writes' = writes + 1
  /\ UNCHANGED <<now, src, dst, undated, tmp, leaked, pc, localVars, edits, faults, crashes>>

(* Others may write the destination between two runs, not during one. *)
DstEdit ==
  /\ pc = "idle"
  /\ edits < MaxEdits
  /\ \E n \in Blocks : dst' = File(n, now + 1)
  /\ undated' = FALSE
  /\ now' = now + 1
  /\ edits' = edits + 1
  /\ UNCHANGED <<src, named, tmp, leaked, pc, localVars, writes, faults, crashes>>

(* Locals die with the call. *)
Forget == srcInfo' = Absent /\ dstInfo' = Absent /\ tm' = 0

Crash ==
  /\ pc # "idle"
  /\ crashes < MaxCrashes
  /\ crashes' = crashes + 1
  /\ leaked' = (leaked \/ tmp # Absent)
  /\ tmp' = Absent
  /\ pc' = "idle" /\ Forget
  /\ UNCHANGED <<now, src, named, dst, undated, writes, edits, faults>>

Fails == faults < MaxFaults /\ faults' = faults + 1
Works == UNCHANGED faults

(* The call returns, with whatever error. *)
Return == pc' = "idle" /\ Forget

-----------------------------------------------------------------------------
(* compareFile *)

(* A run reaches the file; a failing Lstat is an error. *)
LstatSrc ==
  /\ pc = "idle"
  /\ \/ Works /\ named /\ srcInfo' = src /\ pc' = "lstat" /\ UNCHANGED <<dstInfo, tm>>
     \/ Works /\ ~named /\ Return
     \/ Fails /\ Return
  /\ UNCHANGED <<now, diskVars, writes, edits, crashes>>

Bug_CopiesBoth(s, d) == d # Absent => (Size(s) # Size(d) /\ s.mtime > d.mtime)

Copies(s, d) == d # Absent => (Size(s) # Size(d) \/ s.mtime > d.mtime)

(* Sizes are compared before times; equal times are up to date, a newer    *)
(* destination is left alone.                                              *)
LstatDst ==
  /\ pc = "lstat"
  /\ \/ Works /\ Copies(srcInfo, dst) /\ pc' = "open" /\ dstInfo' = dst
        /\ UNCHANGED <<srcInfo, tm>>
     \/ Works /\ ~Copies(srcInfo, dst) /\ Return
     \/ Fails /\ Return
  /\ UNCHANGED <<now, diskVars, writes, edits, crashes>>

-----------------------------------------------------------------------------
(* copyFile *)

(* The times are read from the open file, before its contents. *)
OpenSrc ==
  /\ pc = "open"
  /\ \/ Works /\ named /\ tm' = src.mtime /\ pc' = "temp" /\ UNCHANGED <<srcInfo, dstInfo>>
     \/ Works /\ ~named /\ Return
     \/ Fails /\ Return
  /\ UNCHANGED <<now, diskVars, writes, edits, crashes>>

CreateTemp ==
  /\ pc = "temp"
  /\ \/ Works /\ tmp' = File(0, now + 1) /\ now' = now + 1 /\ pc' = "copy"
        /\ UNCHANGED localVars
     \/ Fails /\ Return /\ UNCHANGED <<now, tmp>>
  /\ UNCHANGED <<src, named, dst, undated, leaked, writes, edits, crashes>>

Bug_AbandonKeepsTemp == Return /\ UNCHANGED <<tmp, leaked>>

(* The temporary file is removed; whether that worked is not looked at.    *)
Abandon == Return /\ tmp' = Absent /\ leaked' \in {leaked, TRUE}

Bug_CopyKeepsCancelled ==
  /\ pc = "copy"
  /\ \/ /\ Works
        /\ Size(tmp) < Size(src)
        /\ tmp' = [data |-> Append(tmp.data, src.data[Size(tmp) + 1]), mtime |-> now + 1]
        /\ now' = now + 1
        /\ UNCHANGED <<pc, leaked, localVars>>
     \/ /\ Works \/ Fails
        /\ pc' = "remove"
        /\ UNCHANGED <<now, tmp, leaked, localVars>>
  /\ UNCHANGED <<src, named, dst, undated, writes, edits, crashes>>

(* io.Copy reads and writes block by block to the end of the file.  An     *)
(* error and the context abandon the copy; a full disk leaves the          *)
(* temporary file even without trying.                                     *)
Copy ==
  /\ pc = "copy"
  /\ \/ /\ Works
        /\ Size(tmp) < Size(src)
        /\ tmp' = [data |-> Append(tmp.data, src.data[Size(tmp) + 1]), mtime |-> now + 1]
        /\ now' = now + 1
        /\ UNCHANGED <<pc, leaked, localVars>>
     \/ /\ Works
        /\ Size(tmp) >= Size(src)
        /\ pc' = "remove"
        /\ UNCHANGED <<now, tmp, leaked, localVars>>
     \/ /\ Fails
        /\ Abandon
        /\ UNCHANGED now
  /\ UNCHANGED <<src, named, dst, undated, writes, edits, crashes>>

(* A destination that existed at the comparison is removed first. *)
RemoveDst ==
  /\ pc = "remove"
  /\ \/ /\ Works
        /\ IF dstInfo = Absent THEN UNCHANGED <<dst, undated>>
           ELSE dst' = Absent /\ undated' = FALSE
        /\ pc' = "rename"
        /\ UNCHANGED <<tmp, leaked, localVars>>
     \/ dstInfo # Absent /\ Fails /\ Abandon /\ UNCHANGED <<dst, undated>>
  /\ UNCHANGED <<now, src, named, writes, edits, crashes>>

Rename ==
  /\ pc = "rename"
  /\ \/ /\ Works
        /\ dst' = tmp /\ undated' = TRUE /\ tmp' = Absent
        /\ pc' = "chmod"
        /\ UNCHANGED <<leaked, localVars>>
     \/ Fails /\ Abandon /\ UNCHANGED <<dst, undated>>
  /\ UNCHANGED <<now, src, named, writes, edits, crashes>>

(* The copy is taken away again when its mode or its times cannot be set;  *)
(* whether that worked is not looked at, as on a server gone read-only.    *)
TakeAway ==
  \/ dst' = Absent /\ undated' = FALSE
  \/ UNCHANGED <<dst, undated>>

Chmod ==
  /\ pc = "chmod"
  /\ \/ Works /\ pc' = "chtimes" /\ UNCHANGED <<localVars, dst, undated>>
     \/ Fails /\ Return /\ TakeAway
  /\ UNCHANGED <<now, src, named, tmp, leaked, writes, edits, crashes>>

Bug_ChtimesLateStat ==
  /\ pc = "chtimes"
  /\ Works
  /\ dst' = IF dst = Absent THEN Absent ELSE [dst EXCEPT !.mtime = src.mtime]
  /\ undated' = FALSE
  /\ Return
  /\ UNCHANGED <<now, src, named, tmp, leaked, writes, edits, crashes>>

Chtimes ==
  /\ pc = "chtimes"
  /\ \/ Works /\ dst' = [dst EXCEPT !.mtime = tm] /\ undated' = FALSE
     \/ Fails /\ TakeAway
  /\ Return
  /\ UNCHANGED <<now, src, named, tmp, leaked, writes, edits, crashes>>

-----------------------------------------------------------------------------
World == SrcWrite \/ SrcRemove \/ DstEdit \/ Crash
Copier == LstatSrc \/ LstatDst \/ OpenSrc \/ CreateTemp \/ Copy \/ RemoveDst
          \/ Rename \/ Chmod \/ Chtimes

Next == World \/ Copier

Spec == Init /\ [][Next]_vars

(* Runs follow one another and each makes progress. *)
FairSpec == Spec /\ WF_vars(Copier)

-----------------------------------------------------------------------------
IsFile(f) == f \in [data : Seq(0..now), mtime : 0..now]

TypeOK ==
  /\ now \in Nat
  /\ IsFile(src) /\ named \in BOOLEAN
  /\ \A f \in {dst, tmp, srcInfo, dstInfo} : f = Absent \/ IsFile(f)
  /\ undated \in BOOLEAN /\ leaked \in BOOLEAN
  /\ pc \in {"idle", "lstat", "open", "temp", "copy", "remove", "rename", "chmod", "chtimes"}
  /\ pc \in {"copy", "remove", "rename"} <=> tmp # Absent
  /\ pc # "idle" <=> srcInfo # Absent
  /\ tm \in 0..now
  /\ writes \in 0..MaxWrites /\ edits \in 0..MaxEdits
  /\ faults \in 0..MaxFaults /\ crashes \in 0..MaxCrashes

(* The verdict "up to date" is right: a destination with the size and the  *)
(* time of the source has its contents, even when the source was written   *)
(* while it was copied, because the times are taken before the contents    *)
(* (copier.go:353, 386, 432).                                              *)
UptodateIsSame ==
  named /\ dst # Absent /\ Size(dst) = Size(src) /\ dst.mtime = src.mtime
    => dst.data = src.data

(* What is renamed into place is a whole copy: unless the source changed   *)
(* since it was opened, it equals the source from the rename on            *)
(* (copier.go:392-420).                                                    *)
RenamedIsWhole ==
  pc \in {"chmod", "chtimes"} /\ src.mtime = tm => dst.data = src.data

(* The inductive invariant behind these two.  While the source is the one  *)
(* that was opened, the temporary file is a prefix of it, and all of it    *)
(* from the end of the copy on; no file but a copy whose times were set    *)
(* has the source's time.                                                  *)
TempIsPrefix ==
  tmp # Absent =>
    /\ tmp.mtime # src.mtime
    /\ src.mtime = tm =>
         /\ Size(tmp) <= Size(src)
         /\ pc # "copy" => Size(tmp) = Size(src)
         /\ \A k \in 1..Size(tmp) : tmp.data[k] = src.data[k]

SameTimeIsSame == dst # Absent /\ dst.mtime = src.mtime => dst.data = src.data

CopyIsThere ==
  /\ undated => dst # Absent
  /\ pc \in {"chmod", "chtimes"} => undated

IInv ==
  /\ TypeOK
  /\ CopyIsThere
  /\ TempIsPrefix
  /\ RenamedIsWhole
  /\ SameTimeIsSame

(* Runs repair what writes to the source, failing calls, cancellations and *)
(* deaths of the process left behind: when these stop, source and          *)
(* destination become equal, as long as nobody else wrote the destination. *)
(* One state is beyond repair: a copy in place whose times were never set, *)
(* because the process died or because a call failed and so did the        *)
(* removal of the copy (copier.go:426-436).  It may mix two states of the  *)
(* source, and with the size of the source and a later time it is left     *)
(* alone.                                                                  *)
BeyondRepair == undated /\ Size(dst) = Size(src) /\ dst.mtime > src.mtime

Converges ==
  (dst # Absent => dst.mtime <= src.mtime) /\ [](edits = 0)
    => <>[](named => dst # Absent /\ (dst.data = src.data \/ BeyondRepair))
=============================================================================
