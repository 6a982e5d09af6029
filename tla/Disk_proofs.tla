------------------------------ MODULE Disk_proofs ------------------------------
(***************************************************************************)
(* The properties of Disk, for any number of clients, any sizes asked for  *)
(* and any OS images.                                                      *)
(***************************************************************************)
EXTENDS Disk, TLAPS

\* Where a resize has looked at the image and not yet left it.
Changing == {"extend", "grow", "restore", "shrink", "cut"}

(* One request at a time works on the image (lockDisk, manager.go:456-475). *)
HolderInv == \A c \in Callers : pc[c] \in Locked => holder = c

(* What a resize knows at each of its commands (disk.go:168-218). *)
PhaseInv ==
    /\ holder = NoCaller => ~even
    /\ \A c \in Callers :
          /\ pc[c] \in {"check", "inspect", "remove", "copy", "copied"} => ~even
          /\ pc[c] \in Changing => ~torn /\ size > 0
          /\ pc[c] = "extend" => goal > size
          /\ pc[c] = "grow" => goal = size
          /\ pc[c] = "shrink" => goal < size
          /\ pc[c] = "cut" => goal = fs

ImageInv ==
    /\ used <= fs
    /\ size > 0 /\ ~torn => fs <= size

(* A request that has overlapped with no other is the only one. *)
AloneInv ==
    \A c, d \in Callers :
        c \in alone /\ pc[c] # "idle" /\ d # c => pc[d] = "idle"

(* What it is about to record is true, and so is what the last one recorded *)
(* until the next begins to change the disk.                                *)
RecordInv ==
    /\ \A c \in Callers : c \in alone /\ pc[c] = "record" => seen[c] = InGB(size)
    /\ up /\ sure /\ (\A c \in Callers : pc[c] \in {"idle", "inspect"})
          => recorded = InGB(size)
    /\ ~up => ~sure /\ Idle

IInv == TypeOK /\ HolderInv /\ PhaseInv /\ ImageInv /\ AloneInv /\ RecordInv

-----------------------------------------------------------------------------
(* Sizes and GiB *)

(* The product of two numbers is one. *)
LEMMA NatTimes == \A m, n \in Nat : m * n \in Nat
OBVIOUS

(* VMDiskSizeGB returns a number, whatever the size of the file. *)
LEMMA InGBNat == ASSUME NEW n \in Nat PROVE InGB(n) \in Nat
BY DiskAssumption DEF InGB

(* The sizes an image can have: those of the OS images, those asked for, and *)
(* everything below.                                                         *)
LEMMA SizesFacts ==
    /\ Sizes \subseteq Nat
    /\ 0 \in Sizes
    /\ Bases \subseteq Sizes
    /\ \A g \in Goals : g * PerGB \in Sizes
    /\ \A n \in Nat, m \in Sizes : n <= m => n \in Sizes
<1> DEFINE Largest == Bases \cup {g * PerGB : g \in Goals}
<1>1. Largest \subseteq Nat
  <2>1. \A g \in Goals : g * PerGB \in Nat
    BY DiskAssumption, NatTimes
  <2> QED BY <2>1, DiskAssumption
<1>2. PICK b \in Bases : TRUE
  BY DiskAssumption
<1>3. \A n \in Nat, m \in Largest : n <= m => n \in Sizes
  BY DEF Sizes
<1>4. 0 \in Sizes
  BY <1>1, <1>2, <1>3
<1>5. \A m \in Largest : m \in Sizes
  BY <1>1, <1>3
<1>6. \A n \in Nat, m \in Sizes : n <= m => n \in Sizes
  <2>1. SUFFICES ASSUME NEW n \in Nat, NEW m \in Sizes, n <= m PROVE n \in Sizes
    OBVIOUS
  <2>2. PICK k \in Largest : m <= k
    BY DEF Sizes
  <2>3. m \in Nat
    BY DEF Sizes
  <2>4. k \in Nat
    BY <1>1
  <2>5. n <= k
    BY <2>1, <2>2, <2>3, <2>4
  <2> HIDE DEF Largest
  <2> QED BY <2>5, <1>3
<1> QED BY <1>4, <1>5, <1>6 DEF Sizes
-----------------------------------------------------------------------------
(* The invariant *)

(* A VM that has just been created satisfies it. *)
LEMMA InitIInv == Init => IInv
<1> SUFFICES ASSUME Init PROVE IInv
  OBVIOUS
<1> USE DiskAssumption, SizesFacts, InGBNat DEF Init
<1>1. TypeOK
  <2>1. base \in Sizes /\ 1 \in Sizes
    OBVIOUS
  <2> QED BY <2>1 DEF TypeOK
<1>2. HolderInv /\ PhaseInv /\ AloneInv /\ RecordInv
  BY DEF HolderInv, PhaseInv, AloneInv, RecordInv, Idle, Locked, Resizing, Changing
<1>3. ImageInv
  BY DEF ImageInv
<1> QED BY <1>1, <1>2, <1>3 DEF IInv

(* Every step of a request preserves it. *)
LEMMA RequestIInv ==
    ASSUME NEW c \in Callers, IInv, Step(c) \/ Inspect(c) \/ Reset(c)
    PROVE  IInv'
<1> USE DiskAssumption, SizesFacts, InGBNat
        DEF IInv, TypeOK, Goto, Proceed, Succeed, Fail, Release, Acquire, Outside,
            imageVars, resizeVars, historyVars
<1>1. CASE Check(c)
  <2> USE <1>1 DEF Check
  <2>1. TypeOK'
    BY DEF TypeOK, Locked, Resizing, Syncing
  <2>2. HolderInv'
    BY DEF HolderInv, Locked, Resizing
  <2>3. PhaseInv'
    BY DEF PhaseInv, Changing, Locked, Resizing, HolderInv
  <2>4. ImageInv'
    BY DEF ImageInv, PhaseInv, Changing
  <2>5. AloneInv'
    BY DEF AloneInv
  <2>6. RecordInv'
    BY DEF RecordInv, AloneInv, Idle
  <2> QED BY <2>1, <2>2, <2>3, <2>4, <2>5, <2>6 DEF IInv
<1>2. CASE Extend(c)
  <2> USE <1>2 DEF Extend
  <2>1. TypeOK'
    BY DEF TypeOK, Locked, Resizing, Syncing
  <2>2. HolderInv'
    BY DEF HolderInv, Locked, Resizing
  <2>3. PhaseInv'
    BY DEF PhaseInv, Changing, Locked, Resizing, HolderInv
  <2>4. ImageInv'
    BY DEF ImageInv, PhaseInv, Changing
  <2>5. AloneInv'
    BY DEF AloneInv
  <2>6. RecordInv'
    BY DEF RecordInv, AloneInv, Idle
  <2> QED BY <2>1, <2>2, <2>3, <2>4, <2>5, <2>6 DEF IInv
<1>3. CASE Grow(c)
  <2> USE <1>3 DEF Grow
  <2>1. TypeOK'
    BY DEF TypeOK, Locked, Resizing, Syncing
  <2>2. HolderInv'
    BY DEF HolderInv, Locked, Resizing
  <2>3. PhaseInv'
    BY DEF PhaseInv, Changing, Locked, Resizing, HolderInv
  <2>4. ImageInv'
    BY DEF ImageInv, PhaseInv, Changing
  <2>5. AloneInv'
    BY DEF AloneInv
  <2>6. RecordInv'
    BY DEF RecordInv, AloneInv, Idle
  <2> QED BY <2>1, <2>2, <2>3, <2>4, <2>5, <2>6 DEF IInv
<1>4. CASE Restore(c)
  <2> USE <1>4 DEF Restore
  <2>1. TypeOK'
    BY DEF TypeOK, Locked, Resizing, Syncing
  <2>2. HolderInv'
    BY DEF HolderInv, Locked, Resizing
  <2>3. PhaseInv'
    BY DEF PhaseInv, Changing, Locked, Resizing, HolderInv
  <2>4. ImageInv'
    BY DEF ImageInv, PhaseInv, Changing
  <2>5. AloneInv'
    BY DEF AloneInv
  <2>6. RecordInv'
    BY DEF RecordInv, AloneInv, Idle
  <2> QED BY <2>1, <2>2, <2>3, <2>4, <2>5, <2>6 DEF IInv
<1>5. CASE Shrink(c)
  <2> USE <1>5 DEF Shrink
  <2>1. TypeOK'
    BY DEF TypeOK, Locked, Resizing, Syncing
  <2>2. HolderInv'
    BY DEF HolderInv, Locked, Resizing
  <2>3. PhaseInv'
    BY DEF PhaseInv, Changing, Locked, Resizing, HolderInv
  <2>4. ImageInv'
    BY DEF ImageInv, PhaseInv, Changing
  <2>5. AloneInv'
    BY DEF AloneInv
  <2>6. RecordInv'
    BY DEF RecordInv, AloneInv, Idle
  <2> QED BY <2>1, <2>2, <2>3, <2>4, <2>5, <2>6 DEF IInv
<1>6. CASE Cut(c)
  <2> USE <1>6 DEF Cut
  <2>1. TypeOK'
    BY DEF TypeOK, Locked, Resizing, Syncing
  <2>2. HolderInv'
    BY DEF HolderInv, Locked, Resizing
  <2>3. PhaseInv'
    BY DEF PhaseInv, Changing, Locked, Resizing, HolderInv
  <2>4. ImageInv'
    BY DEF ImageInv, PhaseInv, Changing
  <2>5. AloneInv'
    BY DEF AloneInv
  <2>6. RecordInv'
    BY DEF RecordInv, AloneInv, Idle
  <2> QED BY <2>1, <2>2, <2>3, <2>4, <2>5, <2>6 DEF IInv
<1>7. CASE InspectExt4(c)
  <2> USE <1>7 DEF InspectExt4
  <2>1. TypeOK'
    BY DEF TypeOK, Locked, Resizing, Syncing
  <2>2. HolderInv'
    BY DEF HolderInv, Locked, Resizing
  <2>3. PhaseInv'
    BY DEF PhaseInv, Changing, Locked, Resizing, HolderInv
  <2>4. ImageInv'
    BY DEF ImageInv, PhaseInv, Changing
  <2>5. AloneInv'
    BY DEF AloneInv
  <2>6. RecordInv'
    BY DEF RecordInv, AloneInv, Idle
  <2> QED BY <2>1, <2>2, <2>3, <2>4, <2>5, <2>6 DEF IInv
<1>8. CASE Remove(c)
  <2> USE <1>8 DEF Remove
  <2>1. TypeOK'
    BY DEF TypeOK, Locked, Resizing, Syncing
  <2>2. HolderInv'
    BY DEF HolderInv, Locked, Resizing
  <2>3. PhaseInv'
    BY DEF PhaseInv, Changing, Locked, Resizing, HolderInv
  <2>4. ImageInv'
    BY DEF ImageInv, PhaseInv, Changing
  <2>5. AloneInv'
    BY DEF AloneInv
  <2>6. RecordInv'
    BY DEF RecordInv, AloneInv, Idle
  <2> QED BY <2>1, <2>2, <2>3, <2>4, <2>5, <2>6 DEF IInv
<1>9. CASE Copy(c)
  <2> USE <1>9 DEF Copy
  <2>1. TypeOK'
    <3>1. base \in Sizes /\ \A n \in 1 .. base - 1 : n \in Sizes
      OBVIOUS
    <3>2. 1 \in Sizes
      OBVIOUS
    <3>3. size' \in Sizes /\ fs' \in Sizes /\ used' \in Sizes
      BY <3>1, <3>2
    <3> QED BY <3>3 DEF TypeOK, Locked, Resizing, Syncing
  <2>2. HolderInv'
    BY DEF HolderInv, Locked, Resizing
  <2>3. PhaseInv'
    BY DEF PhaseInv, Changing, Locked, Resizing, HolderInv
  <2>4. ImageInv'
    BY DEF ImageInv, PhaseInv, Changing
  <2>5. AloneInv'
    BY DEF AloneInv
  <2>6. RecordInv'
    BY DEF RecordInv, AloneInv, Idle
  <2> QED BY <2>1, <2>2, <2>3, <2>4, <2>5, <2>6 DEF IInv
<1>10. CASE Copied(c)
  <2> USE <1>10 DEF Copied
  <2>1. TypeOK'
    BY DEF TypeOK, Locked, Resizing, Syncing
  <2>2. HolderInv'
    BY DEF HolderInv, Locked, Resizing
  <2>3. PhaseInv'
    BY DEF PhaseInv, Changing, Locked, Resizing, HolderInv
  <2>4. ImageInv'
    BY DEF ImageInv, PhaseInv, Changing
  <2>5. AloneInv'
    BY DEF AloneInv
  <2>6. RecordInv'
    BY DEF RecordInv, AloneInv, Idle
  <2> QED BY <2>1, <2>2, <2>3, <2>4, <2>5, <2>6 DEF IInv
<1>11. CASE Stat(c)
  <2> USE <1>11 DEF Stat
  <2>1. TypeOK'
    <3>1. seen' \in [Callers -> Nat]
      <4>1. TypeOK
        BY ONLY IInv DEF IInv
      <4>2. size \in Nat
        BY ONLY <4>1 DEF TypeOK, Sizes
      <4>3. InGB(size) \in Nat
        BY ONLY <4>2, InGBNat
      <4>4. seen' = [seen EXCEPT ![c] = InGB(size)] \/ seen' = seen
        BY ONLY <1>11 DEF Stat
      <4> QED BY ONLY <4>1, <4>3, <4>4 DEF TypeOK
    <3>2. pc' \in [Callers -> {"idle"} \cup Locked \cup Syncing]
      <4>1. pc' = [pc EXCEPT ![c] = "record"] \/ pc' = [pc EXCEPT ![c] = "idle"]
        BY ONLY <1>11 DEF Stat, Goto
      <4>2. pc \in [Callers -> {"idle"} \cup Locked \cup Syncing]
        BY ONLY IInv DEF IInv, TypeOK
      <4> QED BY ONLY <4>1, <4>2 DEF Syncing
    <3>3. sure' \in BOOLEAN
      <4>1. sure' = sure \/ sure' = FALSE
        BY ONLY <1>11 DEF Stat
      <4>2. sure \in BOOLEAN
        BY ONLY IInv DEF IInv, TypeOK
      <4> QED BY ONLY <4>1, <4>2, Zenon
    <3>4. UNCHANGED <<imageVars, base, recorded, holder, up, resizeVars, alone>>
      BY ONLY <1>11 DEF Stat
    <3>5. TypeOK
      BY ONLY IInv DEF IInv
    <3>6. Sizes' = Sizes /\ (Locked \cup Syncing)' = Locked \cup Syncing
      BY ONLY DEF Sizes, Locked, Resizing, Syncing
    <3> QED
      BY ONLY <3>1, <3>2, <3>3, <3>4, <3>5, <3>6 DEF TypeOK, imageVars, resizeVars
  <2>2. HolderInv'
    BY DEF HolderInv, Locked, Resizing
  <2>3. PhaseInv'
    BY DEF PhaseInv, Changing, Locked, Resizing, HolderInv
  <2>4. ImageInv'
    BY DEF ImageInv, PhaseInv, Changing
  <2>5. AloneInv'
    BY DEF AloneInv
  <2>6. RecordInv'
    BY DEF RecordInv, AloneInv, Idle
  <2> QED BY <2>1, <2>2, <2>3, <2>4, <2>5, <2>6 DEF IInv
<1>12. CASE Record(c)
  <2> USE <1>12 DEF Record
  <2>1. TypeOK'
    <3>1. recorded' \in Nat /\ seen' \in [Callers -> Nat]
      OBVIOUS
    <3>2. sure' = (c \in alone) \/ sure' = FALSE
      OBVIOUS
    <3>3. (c \in alone) = TRUE \/ (c \in alone) = FALSE
      BY ONLY SMT
    <3>4. sure' \in BOOLEAN
      BY ONLY <3>2, <3>3, Zenon
    <3> QED BY <3>1, <3>4 DEF TypeOK, Locked, Resizing, Syncing
  <2>2. HolderInv'
    BY DEF HolderInv, Locked, Resizing
  <2>3. PhaseInv'
    BY DEF PhaseInv, Changing, Locked, Resizing, HolderInv
  <2>4. ImageInv'
    BY DEF ImageInv, PhaseInv, Changing
  <2>5. AloneInv'
    BY DEF AloneInv
  <2>6. RecordInv'
    BY DEF RecordInv, AloneInv, Idle
  <2> QED BY <2>1, <2>2, <2>3, <2>4, <2>5, <2>6 DEF IInv
<1>13. CASE Inspect(c)
  <2> USE <1>13 DEF Inspect
  <2>1. TypeOK'
    BY DEF TypeOK, Locked, Resizing, Syncing
  <2>2. HolderInv'
    BY DEF HolderInv, Locked, Resizing
  <2>3. PhaseInv'
    BY DEF PhaseInv, Changing, Locked, Resizing, HolderInv
  <2>4. ImageInv'
    BY DEF ImageInv, PhaseInv, Changing
  <2>5. AloneInv'
    BY DEF AloneInv, Idle
  <2>6. RecordInv'
    BY DEF RecordInv, AloneInv, Idle
  <2> QED BY <2>1, <2>2, <2>3, <2>4, <2>5, <2>6 DEF IInv
<1>14. CASE Reset(c)
  <2> USE <1>14 DEF Reset
  <2>1. TypeOK'
    BY DEF TypeOK, Locked, Resizing, Syncing
  <2>2. HolderInv'
    BY DEF HolderInv, Locked, Resizing
  <2>3. PhaseInv'
    BY DEF PhaseInv, Changing, Locked, Resizing, HolderInv
  <2>4. ImageInv'
    BY DEF ImageInv, PhaseInv, Changing
  <2>5. AloneInv'
    BY DEF AloneInv, Idle
  <2>6. RecordInv'
    BY DEF RecordInv, AloneInv, Idle
  <2> QED BY <2>1, <2>2, <2>3, <2>4, <2>5, <2>6 DEF IInv
<1> QED BY <1>1, <1>2, <1>3, <1>4, <1>5, <1>6, <1>7, <1>8, <1>9, <1>10,
           <1>11, <1>12, <1>13, <1>14 DEF Step

(* So does a request for a size. *)
LEMMA ResizeIInv ==
    ASSUME NEW c \in Callers, NEW n \in Goals, IInv, Resize(c, n)
    PROVE  IInv'
<1> USE DiskAssumption, SizesFacts, InGBNat
        DEF IInv, TypeOK, Goto, Acquire, Resize, imageVars
<1>1. TypeOK'
  BY DEF TypeOK, Locked, Resizing
<1>2. HolderInv'
  BY DEF HolderInv, Locked, Resizing
<1>3. PhaseInv'
  BY DEF PhaseInv, Changing, Locked, Resizing, HolderInv
<1>4. ImageInv'
  BY DEF ImageInv
<1>5. AloneInv'
  BY DEF AloneInv, Idle
<1>6. RecordInv'
  BY DEF RecordInv, AloneInv, Idle
<1> QED BY <1>1, <1>2, <1>3, <1>4, <1>5, <1>6

(* And what happens around the requests. *)
LEMMA OutsideIInv ==
    ASSUME IInv, Guest \/ Export \/ Crash \/ Boot
    PROVE  IInv'
<1> USE DiskAssumption, SizesFacts, InGBNat
        DEF IInv, TypeOK, Release, Outside, imageVars, resizeVars, historyVars
<1>1. CASE Guest
  <2> USE <1>1 DEF Guest
  <2>1. TypeOK'
    BY DEF TypeOK
  <2>2. HolderInv' /\ AloneInv'
    BY DEF HolderInv, AloneInv, Locked, Resizing
  <2>3. PhaseInv'
    BY DEF PhaseInv, HolderInv, Changing, Locked, Resizing
  <2>4. ImageInv'
    BY DEF ImageInv
  <2>5. RecordInv'
    BY DEF RecordInv, Idle
  <2> QED BY <2>1, <2>2, <2>3, <2>4, <2>5
<1>2. CASE Export
  <2> USE <1>2 DEF Export
  <2>1. TypeOK'
    BY DEF TypeOK
  <2>2. HolderInv' /\ AloneInv'
    BY DEF HolderInv, AloneInv, Locked, Resizing
  <2>3. PhaseInv'
    BY DEF PhaseInv, HolderInv, Changing, Locked, Resizing
  <2>4. ImageInv'
    BY DEF ImageInv
  <2>5. RecordInv'
    BY DEF RecordInv, Idle
  <2> QED BY <2>1, <2>2, <2>3, <2>4, <2>5
<1>3. CASE Crash
  <2> USE <1>3 DEF Crash
  <2>1. TypeOK'
    BY DEF TypeOK
  <2>2. HolderInv' /\ AloneInv'
    BY DEF HolderInv, AloneInv, Locked, Resizing
  <2>3. PhaseInv'
    BY DEF PhaseInv, HolderInv, Changing, Locked, Resizing
  <2>4. ImageInv'
    BY DEF ImageInv
  <2>5. RecordInv'
    BY DEF RecordInv, Idle
  <2> QED BY <2>1, <2>2, <2>3, <2>4, <2>5
<1>4. CASE Boot
  <2> USE <1>4 DEF Boot
  <2>1. TypeOK'
    BY DEF TypeOK
  <2>2. HolderInv' /\ AloneInv'
    BY DEF HolderInv, AloneInv, Locked, Resizing
  <2>3. PhaseInv'
    BY DEF PhaseInv, HolderInv, Changing, Locked, Resizing
  <2>4. ImageInv'
    BY DEF ImageInv
  <2>5. RecordInv'
    BY DEF RecordInv, Idle
  <2> QED BY <2>1, <2>2, <2>3, <2>4, <2>5
<1> QED BY <1>1, <1>2, <1>3, <1>4

(* The invariant is inductive. *)
LEMMA NextIInv == IInv /\ [Next]_diskVars => IInv'
<1> SUFFICES ASSUME IInv, [Next]_diskVars PROVE IInv'
  OBVIOUS
<1>1. CASE \E c \in Callers : Step(c) \/ Inspect(c) \/ Reset(c)
  BY <1>1, RequestIInv
<1>2. CASE \E c \in Callers, n \in Goals : Resize(c, n)
  BY <1>2, ResizeIInv
<1>3. CASE Guest \/ Export \/ Crash \/ Boot
  BY <1>3, OutsideIInv
<1>4. CASE UNCHANGED diskVars
  BY <1>4 DEF diskVars, imageVars, resizeVars, historyVars, IInv, TypeOK, HolderInv,
              PhaseInv, ImageInv, AloneInv, RecordInv, Idle
<1> QED BY <1>1, <1>2, <1>3, <1>4 DEF Next

(* It holds in every state of every behaviour. *)
LEMMA Invariance == Spec => []IInv
BY InitIInv, NextIInv, PTL DEF Spec

-----------------------------------------------------------------------------
(* The theorems *)

(* Every variable keeps its type: no image is ever longer than the longest   *)
(* OS image and the largest size asked for, whatever fails and is tried again *)
(* (disk.go:163-218, manager.go:520-547).                                    *)
THEOREM TypeCorrect == Spec => []TypeOK
<1>1. IInv => TypeOK
  BY DEF IInv
<1> QED BY <1>1, Invariance, PTL

(* The data stay in the file system and the file system in the file *)
(* (disk.go:163-218).                                                *)
THEOREM DataKept == Spec => []DataInFsInFile
<1>1. IInv => DataInFsInFile
  BY DEF IInv, ImageInv, DataInFsInFile
<1> QED BY <1>1, Invariance, PTL

(* The row shows the size of the disk once requests that did not overlap have *)
(* succeeded (handlers.go:281-291).                                           *)
THEOREM RecordKept == Spec => []RecordedTrue
<1>1. IInv => RecordedTrue
  BY DEF IInv, RecordInv, RecordedTrue, Idle
<1> QED BY <1>1, Invariance, PTL

(* A resize of an even disk that reports success ends with the file and the *)
(* file system at the size asked for (disk.go:163-218, manager.go:543-547). *)
THEOREM ResizeExact == Spec => EvenResizeExact
<1> DEFINE Exact == \A c \in Callers :
                      pc[c] \in Resizing /\ pc'[c] = "stat" /\ (even \/ fs = size)
                          => size' = goal /\ fs' = goal
<1>1. IInv /\ [Next]_diskVars => [Exact]_diskVars
  <2> SUFFICES ASSUME IInv, [Next]_diskVars,
                      NEW c \in Callers,
                      pc[c] \in Resizing, pc'[c] = "stat", even \/ fs = size
               PROVE  size' = goal /\ fs' = goal
    OBVIOUS
  <2> USE DEF IInv, TypeOK, PhaseInv, Resizing, Goto, Acquire
  <2>1. ASSUME NEW d \in Callers, d # c, Step(d) \/ Inspect(d) \/ Reset(d)
        PROVE  FALSE
    BY <2>1 DEF Step, Check, Extend, Grow, Restore, Shrink, Cut, InspectExt4, Remove,
                Copy, Copied, Stat, Record, Inspect, Reset, Proceed, Succeed, Fail
  <2>2. CASE Check(c)
    BY <2>2 DEF Check, Proceed, Fail
  <2>3. CASE Grow(c)
    BY <2>3 DEF Grow, Proceed
  <2>4. CASE Cut(c)
    BY <2>4 DEF Cut, Fail
  <2>5. CASE \/ Extend(c) \/ Restore(c) \/ Shrink(c) \/ InspectExt4(c) \/ Remove(c)
            \/ Copy(c) \/ Copied(c) \/ Stat(c) \/ Record(c) \/ Inspect(c) \/ Reset(c)
    BY <2>5 DEF Extend, Restore, Shrink, InspectExt4, Remove, Copy, Copied, Stat, Record,
                Inspect, Reset, Proceed, Fail
  <2>6. ASSUME NEW d \in Callers, NEW n \in Goals, Resize(d, n) PROVE FALSE
    BY <2>6 DEF Resize
  <2>7. CASE Guest \/ Export \/ Crash \/ Boot
    BY <2>7 DEF Guest, Export, Crash, Boot, Outside
  <2>8. CASE UNCHANGED diskVars
    BY <2>8 DEF diskVars
  <2> QED BY <2>1, <2>2, <2>3, <2>4, <2>5, <2>6, <2>7, <2>8 DEF Next, Step
<1> QED BY <1>1, Invariance, PTL DEF Spec, EvenResizeExact
=============================================================================
