--------------------------- MODULE VmManager_proofs ---------------------------
(***************************************************************************)
(* Proofs about VmManager, for any sets of VM ids and goroutines and any   *)
(* address range.                                                          *)
(***************************************************************************)
EXTENDS VmManager, TLAPS

USE DEF Startable, Lockable, VmOps, DiskOps, Ops, StartPcs, StopPcs, DiskPcs, Pcs, NoIP

-----------------------------------------------------------------------------
(* Type correctness *)

LEMMA TypeInit == Init => TypeOK
<1> SUFFICES ASSUME Init PROVE TypeOK OBVIOUS
<1>1. natEnabled \in BOOLEAN BY DEF Init
<1> QED BY <1>1 DEF Init, TypeOK

(* In the calls that name a VM, arg is one. *)
ArgOK == \A c \in Callers : op[c] \notin {"none", "stopAll"} => arg[c] \in VMs

LEMMA TypeStart ==
  ASSUME TypeOK, ArgOK, NEW c \in Callers, StartStep(c) PROVE TypeOK' /\ ArgOK'
<1> USE DEF TypeOK, ArgOK, At, Goto, Leave, lockVars, hostVars, diskVars
<1>1. CASE StartRejected(c) BY <1>1 DEF StartRejected
<1>2. CASE StartAllocate(c) BY <1>2 DEF StartAllocate, AllocateIP, FreeIPs
<1>3. CASE StartTap(c) BY <1>3 DEF StartTap
<1>4. CASE StartNat(c)
  <2>1. natEnabled' \in BOOLEAN BY <1>4 DEF StartNat
  <2> QED BY <1>4, <2>1 DEF StartNat
<1>5. CASE StartJail(c) BY <1>5 DEF StartJail
<1>6. CASE StartSocket(c) BY <1>6 DEF StartSocket
<1>7. CASE StartRegister(c) BY <1>7 DEF StartRegister
<1>8. CASE StartTapFails(c) \/ StartNatFails(c) \/ StartJailFails(c)
           \/ StartSocketFails(c) \/ StartConfigureFails(c)
  BY <1>8 DEF StartTapFails, StartNatFails, StartJailFails, StartSocketFails,
     StartConfigureFails, AbandonStart, DeleteTap, ReleaseIP, KillProcess
<1> QED
  BY <1>1, <1>2, <1>3, <1>4, <1>5, <1>6, <1>7, <1>8 DEF StartStep

LEMMA TypeStop ==
  ASSUME TypeOK, ArgOK, NEW c \in Callers, StopStep(c) PROVE TypeOK' /\ ArgOK'
<1> USE DEF TypeOK, ArgOK, At, Goto, Leave, lockVars, hostVars, diskVars
<1>1. CASE StopRejected(c) BY <1>1 DEF StopRejected
<1>2. CASE StopBegin(c) BY <1>2 DEF StopBegin
<1>3. CASE StopKill(c) BY <1>3 DEF StopKill, KillProcess
<1>4. CASE StopRelease(c) BY <1>4 DEF StopRelease, DeleteTap, ReleaseIP
<1>5. CASE StopAllBegin(c) BY <1>5 DEF StopAllBegin
<1>6. CASE \E v \in VMs : StopAllSweep(c, v)
  BY <1>6 DEF StopAllSweep, KillProcess, DeleteTap, ReleaseIP
<1>7. CASE StopAllEnd(c) BY <1>7 DEF StopAllEnd
<1> QED BY <1>1, <1>2, <1>3, <1>4, <1>5, <1>6, <1>7 DEF StopStep

LEMMA TypeDisk ==
  ASSUME TypeOK, ArgOK, NEW c \in Callers, DiskStep(c) \/ PrepareStep(c)
  PROVE  TypeOK' /\ ArgOK'
<1> USE DEF TypeOK, ArgOK, At, Goto, DiskOpEnds, SetDisk, HasImage, lockVars, hostVars, diskVars
<1>1. CASE LockRejected(c) BY <1>1 DEF LockRejected
<1>2. CASE LockDisk(c) BY <1>2 DEF LockDisk
<1>3. CASE UnlockDisk(c) BY <1>3 DEF UnlockDisk
<1>4. CASE CleanupBody(c) BY <1>4 DEF CleanupBody
<1>5. CASE Ext4Body(c) BY <1>5 DEF Ext4Body
<1>6. CASE ResetRemove(c) BY <1>6 DEF ResetRemove
<1>7. CASE ResetCopy(c) BY <1>7 DEF ResetCopy
<1>8. CASE ResetFinish(c) BY <1>8 DEF ResetFinish
<1>9. CASE PrepareDir(c) \/ PrepareCopy(c) BY <1>9 DEF PrepareDir, PrepareCopy
<1>10. CASE PrepareFinish(c) BY <1>10 DEF PrepareFinish
<1> QED
  BY <1>1, <1>2, <1>3, <1>4, <1>5, <1>6, <1>7, <1>8, <1>9, <1>10 DEF DiskStep, PrepareStep

LEMMA TypeCall ==
  ASSUME TypeOK, ArgOK, NEW c \in Callers, CallStep(c) PROVE TypeOK' /\ ArgOK'
<1> USE DEF TypeOK, ArgOK, Goto, lockVars, hostVars, diskVars
<1>1. CASE \E v \in VMs : Create(c, v) BY <1>1 DEF Create, CallWith
<1>2. CASE \E v \in VMs, o \in VmOps : Invoke(c, o, v) BY <1>2 DEF Invoke, CallWith
<1>3. CASE InvokeStopAll(c) BY <1>3 DEF InvokeStopAll
<1>4. CASE Return(c) BY <1>4 DEF Return
<1> QED BY <1>1, <1>2, <1>3, <1>4 DEF CallStep

LEMMA TypeStep == TypeOK /\ ArgOK /\ [Next]_vars => TypeOK' /\ ArgOK'
<1> SUFFICES ASSUME TypeOK, ArgOK, [Next]_vars PROVE TypeOK' /\ ArgOK' OBVIOUS
<1>1. CASE \E c \in Callers : ManagerStep(c)
  BY <1>1, TypeStart, TypeStop, TypeDisk DEF ManagerStep
<1>2. CASE \E c \in Callers : CallStep(c) BY <1>2, TypeCall
<1>3. CASE \E v \in VMs : ProcessExit(v) \/ CreateUnprepared(v)
  BY <1>3 DEF TypeOK, ArgOK, ProcessExit, CreateUnprepared, KillProcess, lockVars, hostVars,
     diskVars, callVars
<1>4. CASE UNCHANGED vars
  BY <1>4 DEF TypeOK, ArgOK, vars, lockVars, hostVars, diskVars, callVars
<1> QED BY <1>1, <1>2, <1>3, <1>4 DEF Next

(* Every reachable state of the manager is well typed. *)
THEOREM TypeCorrect == Spec => []TypeOK
<1>1. Init => TypeOK /\ ArgOK BY TypeInit DEF Init, ArgOK
<1> QED BY <1>1, TypeStep, PTL DEF Spec

-----------------------------------------------------------------------------
(* The inductive invariant.  The safety properties are about what is left    *)
(* when a call has returned; that they are inductive takes what holds inside *)
(* a call.                                                                   *)

(* The goroutine inside StartVM, StopVM or StopAllVMs is the holder of mu,   *)
(* and a goroutine inside a call is there by an operation that leads there.  *)
HeldPcs == StartPcs \cup StopPcs \cup {"sweep"}

LockInv == \A c \in Callers :
    /\ pc[c] \in HeldPcs <=> mu = c
    /\ pc[c] \in StartPcs => op[c] = "start"
    /\ pc[c] \in StopPcs => op[c] = "stop"
    /\ pc[c] = "sweep" => op[c] = "stopAll"
    /\ pc[c] \in DiskPcs => op[c] \in DiskOps
    /\ pc[c] \in {"mkdir", "fill"} => op[c] = "prepare"

(* StartVM works on a VM that is neither registered nor locked, with an      *)
(* address of its own, and has no process before startJailer has run.        *)
StartInv == \A c \in Callers : Starting(c) =>
    /\ ~ Registered(arg[c]) /\ arg[c] \notin diskBusy
    /\ addr[c] \in allocatedIPs
    /\ \A v \in VMs : processes[v] # addr[c]
    /\ pc[c] \in {"tap", "nat", "jail"} => live[arg[c]] = NoIP
    /\ pc[c] # "tap" => arg[c] \in taps
    /\ pc[c] \in {"socket", "configure"} => arg[c] \in jails

(* StopVM works on a registered VM; StopAllVMs has visited all but todo.     *)
StopInv ==
    /\ \A c \in Callers :
          /\ pc[c] \in StopPcs => Registered(arg[c])
          /\ pc[c] = "release" => live[arg[c]] = NoIP
    /\ \A v \in todo : Registered(v)
    /\ ~ Sweeping => todo = {}

(* Registered VMs have distinct addresses. *)
AddressesDistinct ==
    \A v, w \in VMs : Registered(v) /\ v # w => processes[v] # processes[w]

(* A disk operation has its VM's mark, and has it alone. *)
DiskInv ==
    /\ \A c \in Callers : pc[c] \in DiskPcs =>
          /\ arg[c] \in diskBusy
          /\ ~ Registered(arg[c])
          /\ \A d \in Callers : pc[d] \in DiskPcs /\ arg[d] = arg[c] => d = c
    /\ DiskBusyOwned

(* An image that a cp is filling is there, and partial. *)
WriterInv == \A v \in VMs : writer[v] # NoCaller => disk[v] = "partial"

(* No address in use is free: half of AddressesAccounted, and the half that  *)
(* holds whatever addresses a program finds taken when it starts.            *)
AddressesTaken == \A v \in VMs : Holding(v) => processes[v] \in allocatedIPs

Base == TypeOK /\ ArgOK /\ LockInv /\ WriterInv

Core ==
    /\ StartInv
    /\ StopInv
    /\ AddressesDistinct
    /\ AddressesTaken
    /\ LiveTracked
    /\ DiskInv
    /\ RegisteredHasDevices
    /\ LiveHasDisk

Inv == Core /\ AddressesAccounted

(* What a step preserves: Core needs nothing else, AddressesAccounted needs Core. *)
AddressesKept ==
    /\ (AddressesDistinct /\ AddressesTaken)'
    /\ AddressesAccounted => AddressesAccounted'
Kept == Core' /\ AddressesKept

LEMMA LockStep == TypeOK /\ ArgOK /\ LockInv /\ [Next]_vars => LockInv'
<1> SUFFICES ASSUME TypeOK, ArgOK, LockInv, [Next]_vars PROVE LockInv' OBVIOUS
<1> USE DEF TypeOK, LockInv, HeldPcs, At, Goto, Free, Leave, lockVars, callVars
<1> USE NoneAssumption
<1>1. CASE \E c \in Callers : StartStep(c)
  BY <1>1 DEF StartStep, StartRejected, StartAllocate, StartTap, StartTapFails, StartNat,
     StartNatFails, StartJail, StartJailFails, StartSocket, StartSocketFails,
     StartRegister, StartConfigureFails, AbandonStart
<1>2. CASE \E c \in Callers : StopStep(c)
  BY <1>2 DEF StopStep, StopRejected, StopBegin, StopKill, StopRelease, StopAllBegin,
     StopAllSweep, StopAllEnd
<1>3. CASE \E c \in Callers : DiskStep(c)
  BY <1>3 DEF DiskStep, LockRejected, LockDisk, UnlockDisk, CleanupBody, Ext4Body,
     ResetRemove, ResetCopy, ResetFinish, DiskOpEnds
<1>4. CASE \E c \in Callers : PrepareStep(c)
  BY <1>4 DEF PrepareStep, PrepareDir, PrepareCopy, PrepareFinish, DiskOpEnds
<1>5. CASE \E c \in Callers : CallStep(c)
  BY <1>5 DEF CallStep, Create, Invoke, CallWith, InvokeStopAll, Return
<1>6. CASE \E v \in VMs : ProcessExit(v) \/ CreateUnprepared(v)
  BY <1>6 DEF ProcessExit, CreateUnprepared
<1>7. CASE UNCHANGED vars BY <1>7 DEF vars
<1> QED BY <1>1, <1>2, <1>3, <1>4, <1>5, <1>6, <1>7 DEF Next, ManagerStep

LEMMA WriterStep == TypeOK /\ ArgOK /\ WriterInv /\ [Next]_vars => WriterInv'
<1> SUFFICES ASSUME TypeOK, ArgOK, WriterInv, [Next]_vars PROVE WriterInv' OBVIOUS
<1> USE DEF TypeOK, ArgOK, WriterInv, At, SetDisk, DiskOpEnds, diskVars
<1>1. CASE \E c \in Callers : StartStep(c)
  BY <1>1 DEF StartStep, StartRejected, StartAllocate, StartTap, StartTapFails, StartNat,
     StartNatFails, StartJail, StartJailFails, StartSocket, StartSocketFails,
     StartRegister, StartConfigureFails, AbandonStart
<1>2. CASE \E c \in Callers : StopStep(c)
  BY <1>2 DEF StopStep, StopRejected, StopBegin, StopKill, StopRelease, StopAllBegin,
     StopAllSweep, StopAllEnd
<1>3. CASE \E c \in Callers : DiskStep(c)
  BY <1>3 DEF DiskStep, LockRejected, LockDisk, UnlockDisk, CleanupBody, Ext4Body,
     ResetRemove, ResetCopy, ResetFinish
<1>4. CASE \E c \in Callers : PrepareStep(c)
  BY <1>4 DEF PrepareStep, PrepareDir, PrepareCopy, PrepareFinish
<1>5. CASE \E c \in Callers : CallStep(c)
  BY <1>5 DEF CallStep, Create, Invoke, CallWith, InvokeStopAll, Return
<1>6. CASE \E v \in VMs : ProcessExit(v) \/ CreateUnprepared(v)
  BY <1>6 DEF ProcessExit, CreateUnprepared
<1>7. CASE UNCHANGED vars BY <1>7 DEF vars
<1> QED BY <1>1, <1>2, <1>3, <1>4, <1>5, <1>6, <1>7 DEF Next, ManagerStep

(* Each lemma below is one group of actions; Base is known before and after. *)

LEMMA InvStart ==
  ASSUME Base, Base', Core, NEW c \in Callers, StartStep(c) PROVE Kept
<1> USE NoneAssumption, IPRangeAssumption
<1> USE DEF Kept, AddressesKept, Core, StartInv, StopInv, AddressesDistinct, AddressesTaken,
  AddressesAccounted, LiveTracked, DiskInv, DiskBusyOwned, RegisteredHasDevices, LiveHasDisk,
  HasImage, Holding, Registered, Starting, Sweeping
<1> USE DEF At, Goto, Free, Leave, lockVars, hostVars, diskVars, Base, TypeOK, ArgOK, LockInv,
  HeldPcs
<1>1. CASE StartRejected(c) BY <1>1 DEF StartRejected
<1>2. CASE StartAllocate(c) BY <1>2 DEF StartAllocate, AllocateIP, FreeIPs, IPs
<1>3. CASE StartTap(c) BY <1>3 DEF StartTap
<1>4. CASE StartNat(c) BY <1>4 DEF StartNat
<1>5. CASE StartJail(c) BY <1>5 DEF StartJail
<1>6. CASE StartSocket(c) BY <1>6 DEF StartSocket
<1>7. CASE StartRegister(c) BY <1>7 DEF StartRegister
<1> USE DEF AbandonStart, DeleteTap, ReleaseIP, KillProcess
<1>8. CASE StartTapFails(c) BY <1>8 DEF StartTapFails
<1>9. CASE StartNatFails(c) BY <1>9 DEF StartNatFails
<1>10. CASE StartJailFails(c) BY <1>10 DEF StartJailFails
<1>11. CASE StartSocketFails(c) BY <1>11 DEF StartSocketFails
<1>12. CASE StartConfigureFails(c) BY <1>12 DEF StartConfigureFails
<1> QED
  BY <1>1, <1>2, <1>3, <1>4, <1>5, <1>6, <1>7, <1>8, <1>9, <1>10, <1>11, <1>12 DEF StartStep

LEMMA InvStop ==
  ASSUME Base, Base', Core, NEW c \in Callers, StopStep(c) PROVE Kept
<1> USE NoneAssumption, IPRangeAssumption
<1> USE DEF Kept, AddressesKept, Core, StartInv, StopInv, AddressesDistinct, AddressesTaken,
  AddressesAccounted, LiveTracked, DiskInv, DiskBusyOwned, RegisteredHasDevices, LiveHasDisk,
  HasImage, Holding, Registered, Starting, Sweeping
<1> USE DEF At, Goto, Free, Leave, lockVars, hostVars, diskVars, Base, TypeOK, ArgOK, LockInv,
  HeldPcs
<1> USE DEF DeleteTap, ReleaseIP, KillProcess
<1>1. CASE StopRejected(c) BY <1>1 DEF StopRejected
<1>2. CASE StopBegin(c) BY <1>2 DEF StopBegin
<1>3. CASE StopKill(c) BY <1>3 DEF StopKill
<1>4. CASE StopRelease(c) BY <1>4 DEF StopRelease
<1>5. CASE StopAllBegin(c) BY <1>5 DEF StopAllBegin
<1>6. CASE \E v \in VMs : StopAllSweep(c, v) BY <1>6 DEF StopAllSweep
<1>7. CASE StopAllEnd(c) BY <1>7 DEF StopAllEnd
<1> QED BY <1>1, <1>2, <1>3, <1>4, <1>5, <1>6, <1>7 DEF StopStep

(* An operation on a disk moves from one phase to another outside StartVM    *)
(* and StopAllVMs, and leaves the addresses alone.                           *)
ElsewherePcs == Pcs \ (StartPcs \cup {"sweep"})

Elsewhere(c) ==
    /\ pc[c] \in ElsewherePcs
    /\ \E p \in ElsewherePcs : pc' = [pc EXCEPT ![c] = p]
    /\ UNCHANGED <<processes, allocatedIPs, addr, todo>>

LEMMA AddressesUntouched ==
  ASSUME Base, Core, NEW c \in Callers, Elsewhere(c) PROVE AddressesKept
<1>1. pc \in [Callers -> Pcs]
  BY ONLY Base DEF Base, TypeOK
<1>2. PICK p \in ElsewherePcs : pc' = [pc EXCEPT ![c] = p]
  BY ONLY Elsewhere(c) DEF Elsewhere
<1>3. UNCHANGED <<processes, allocatedIPs, addr, todo>>
  BY ONLY Elsewhere(c) DEF Elsewhere
<1>4. \A d \in Callers : /\ pc'[d] \in StartPcs <=> pc[d] \in StartPcs
                         /\ pc'[d] = "sweep" <=> pc[d] = "sweep"
  <2>1. ASSUME NEW d \in Callers PROVE pc'[d] = IF d = c THEN p ELSE pc[d]
    BY ONLY <1>1, <1>2
  <2>2. pc[c] \in ElsewherePcs /\ p \in ElsewherePcs
    BY ONLY Elsewhere(c), <1>2 DEF Elsewhere
  <2> QED BY ONLY <2>1, <2>2 DEF ElsewherePcs
<1>5. \A d \in Callers : Starting(d)' <=> Starting(d)
  BY ONLY <1>4 DEF Starting
<1>6. Sweeping' <=> Sweeping
  BY ONLY <1>4 DEF Sweeping
<1>7. \A v \in VMs : Registered(v)' <=> Registered(v)
  BY ONLY <1>3 DEF Registered
<1>8. \A v \in VMs : Holding(v)' <=> Holding(v)
  BY ONLY <1>3, <1>6, <1>7 DEF Holding
<1>9. AddressesDistinct'
  BY ONLY <1>3, <1>7, Core DEF Core, AddressesDistinct
<1>10. AddressesTaken'
  BY ONLY <1>3, <1>7, <1>8, Core DEF Core, AddressesTaken
<1>11. AddressesAccounted => AddressesAccounted'
  BY ONLY <1>3, <1>5, <1>8 DEF AddressesAccounted
<1> QED BY ONLY <1>9, <1>10, <1>11 DEF AddressesKept

LEMMA InvDisk ==
  ASSUME Base, Base', Core, NEW c \in Callers, DiskStep(c) \/ PrepareStep(c) PROVE Kept
<1> USE NoneAssumption, IPRangeAssumption
<1> USE DEF Kept, AddressesKept, Core, StartInv, StopInv, AddressesDistinct, AddressesTaken,
  AddressesAccounted, LiveTracked, DiskInv, DiskBusyOwned, RegisteredHasDevices, LiveHasDisk,
  HasImage, Holding, Registered, Starting, Sweeping
<1> USE DEF At, Goto, Free, Leave, lockVars, hostVars, diskVars, Base, TypeOK, ArgOK, LockInv,
  HeldPcs
<1> USE DEF DiskOpEnds, SetDisk
<1>1. CASE LockRejected(c) BY <1>1 DEF LockRejected
<1>2. CASE LockDisk(c) BY <1>2 DEF LockDisk
<1>3. CASE UnlockDisk(c) BY <1>3 DEF UnlockDisk
<1>4. CASE CleanupBody(c)
  <2>1. live[arg[c]] = NoIP BY <1>4 DEF CleanupBody
  <2>2. LiveHasDisk' BY <1>4, <2>1 DEF CleanupBody
  <2>3. (StartInv /\ StopInv)' BY <1>4 DEF CleanupBody
  <2>4. AddressesKept
    <3>1. Elsewhere(c)
      BY ONLY <1>4 DEF CleanupBody, At, DiskOpEnds, Goto, lockVars, Elsewhere, ElsewherePcs
    <3> QED BY ONLY Base, Core, <3>1, AddressesUntouched, Zenon
  <2>5. (LiveTracked /\ RegisteredHasDevices)' BY <1>4 DEF CleanupBody
  <2>6. DiskInv' BY <1>4 DEF CleanupBody
  <2> QED BY <2>2, <2>3, <2>4, <2>5, <2>6
<1>5. CASE Ext4Body(c)
  <2>1. LiveHasDisk' BY <1>5 DEF Ext4Body
  <2>2. (StartInv /\ StopInv)' BY <1>5 DEF Ext4Body
  <2>3. AddressesKept
    <3>1. Elsewhere(c)
      BY ONLY <1>5 DEF Ext4Body, At, DiskOpEnds, Goto, lockVars, Elsewhere, ElsewherePcs
    <3> QED BY ONLY Base, Core, <3>1, AddressesUntouched, Zenon
  <2>4. (LiveTracked /\ RegisteredHasDevices)' BY <1>5 DEF Ext4Body
  <2>5. DiskInv' BY <1>5 DEF Ext4Body
  <2> QED BY <2>1, <2>2, <2>3, <2>4, <2>5
<1>6. CASE ResetRemove(c)
  <2>1. LiveHasDisk' BY <1>6 DEF ResetRemove
  <2>2. (StartInv /\ StopInv)' BY <1>6 DEF ResetRemove
  <2>3. AddressesKept
    <3>1. Elsewhere(c)
      BY ONLY <1>6 DEF ResetRemove, At, DiskOpEnds, Goto, lockVars, Elsewhere, ElsewherePcs
    <3> QED BY ONLY Base, Core, <3>1, AddressesUntouched, Zenon
  <2>4. (LiveTracked /\ RegisteredHasDevices)' BY <1>6 DEF ResetRemove
  <2>5. DiskInv' BY <1>6 DEF ResetRemove
  <2> QED BY <2>1, <2>2, <2>3, <2>4, <2>5
<1>7. CASE ResetCopy(c)
  <2>1. LiveHasDisk' BY <1>7 DEF ResetCopy
  <2>2. (StartInv /\ StopInv)' BY <1>7 DEF ResetCopy
  <2>3. AddressesKept
    <3>1. Elsewhere(c)
      BY ONLY <1>7 DEF ResetCopy, At, DiskOpEnds, Goto, lockVars, Elsewhere, ElsewherePcs
    <3> QED BY ONLY Base, Core, <3>1, AddressesUntouched, Zenon
  <2>4. (LiveTracked /\ RegisteredHasDevices)' BY <1>7 DEF ResetCopy
  <2>5. DiskInv' BY <1>7 DEF ResetCopy
  <2> QED BY <2>1, <2>2, <2>3, <2>4, <2>5
<1>8. CASE ResetFinish(c)
  <2>1. LiveHasDisk' BY <1>8 DEF ResetFinish
  <2>2. (StartInv /\ StopInv)' BY <1>8 DEF ResetFinish
  <2>3. AddressesKept
    <3>1. Elsewhere(c)
      BY ONLY <1>8 DEF ResetFinish, At, DiskOpEnds, Goto, lockVars, Elsewhere, ElsewherePcs
    <3> QED BY ONLY Base, Core, <3>1, AddressesUntouched, Zenon
  <2>4. (LiveTracked /\ RegisteredHasDevices)' BY <1>8 DEF ResetFinish
  <2>5. DiskInv' BY <1>8 DEF ResetFinish
  <2> QED BY <2>1, <2>2, <2>3, <2>4, <2>5
<1>9. CASE PrepareDir(c)
  <2>1. LiveHasDisk' BY <1>9 DEF PrepareDir
  <2>2. (StartInv /\ StopInv)' BY <1>9 DEF PrepareDir
  <2>3. AddressesKept
    <3>1. Elsewhere(c)
      BY ONLY <1>9 DEF PrepareDir, At, DiskOpEnds, Goto, lockVars, Elsewhere, ElsewherePcs
    <3> QED BY ONLY Base, Core, <3>1, AddressesUntouched, Zenon
  <2>4. (LiveTracked /\ RegisteredHasDevices)' BY <1>9 DEF PrepareDir
  <2>5. DiskInv' BY <1>9 DEF PrepareDir
  <2> QED BY <2>1, <2>2, <2>3, <2>4, <2>5
<1>10. CASE PrepareCopy(c)
  <2>1. LiveHasDisk' BY <1>10 DEF PrepareCopy
  <2>2. (StartInv /\ StopInv)' BY <1>10 DEF PrepareCopy
  <2>3. AddressesKept
    <3>1. Elsewhere(c)
      BY ONLY <1>10 DEF PrepareCopy, At, DiskOpEnds, Goto, lockVars, Elsewhere, ElsewherePcs
    <3> QED BY ONLY Base, Core, <3>1, AddressesUntouched, Zenon
  <2>4. (LiveTracked /\ RegisteredHasDevices)' BY <1>10 DEF PrepareCopy
  <2>5. DiskInv' BY <1>10 DEF PrepareCopy
  <2> QED BY <2>1, <2>2, <2>3, <2>4, <2>5
<1>11. CASE PrepareFinish(c)
  <2>1. LiveHasDisk' BY <1>11 DEF PrepareFinish
  <2>2. (StartInv /\ StopInv)' BY <1>11 DEF PrepareFinish
  <2>3. AddressesKept
    <3>1. Elsewhere(c)
      BY ONLY <1>11 DEF PrepareFinish, At, DiskOpEnds, Goto, lockVars, Elsewhere, ElsewherePcs
    <3> QED BY ONLY Base, Core, <3>1, AddressesUntouched, Zenon
  <2>4. (LiveTracked /\ RegisteredHasDevices)' BY <1>11 DEF PrepareFinish
  <2>5. DiskInv' BY <1>11 DEF PrepareFinish
  <2> QED BY <2>1, <2>2, <2>3, <2>4, <2>5
<1> QED
  BY <1>1, <1>2, <1>3, <1>4, <1>5, <1>6, <1>7, <1>8, <1>9, <1>10, <1>11
  DEF DiskStep, PrepareStep

LEMMA InvCall ==
  ASSUME Base, Base', Core, NEW c \in Callers, CallStep(c) PROVE Kept
<1> USE NoneAssumption, IPRangeAssumption
<1> USE DEF Kept, AddressesKept, Core, StartInv, StopInv, AddressesDistinct, AddressesTaken,
  AddressesAccounted, LiveTracked, DiskInv, DiskBusyOwned, RegisteredHasDevices, LiveHasDisk,
  HasImage, Holding, Registered, Starting, Sweeping
<1> USE DEF At, Goto, Free, Leave, lockVars, hostVars, diskVars, Base, TypeOK, ArgOK, LockInv,
  HeldPcs
<1>1. CASE \E v \in VMs : Create(c, v) BY <1>1 DEF Create, CallWith
<1>2. CASE \E v \in VMs, o \in VmOps : Invoke(c, o, v) BY <1>2 DEF Invoke, CallWith
<1>3. CASE InvokeStopAll(c) BY <1>3 DEF InvokeStopAll
<1>4. CASE Return(c) BY <1>4 DEF Return
<1> QED BY <1>1, <1>2, <1>3, <1>4 DEF CallStep

LEMMA InvExit ==
  ASSUME Base, Core, NEW v \in VMs, ProcessExit(v) \/ CreateUnprepared(v) PROVE Kept
<1> USE NoneAssumption
<1> USE DEF Kept, AddressesKept, Core, StartInv, StopInv, AddressesDistinct, AddressesTaken,
  AddressesAccounted, LiveTracked, DiskInv, DiskBusyOwned, RegisteredHasDevices, LiveHasDisk,
  HasImage, Holding, Registered, Starting, Sweeping
<1> USE DEF lockVars, hostVars, diskVars, callVars
<1>1. CASE ProcessExit(v) BY <1>1 DEF ProcessExit, KillProcess, Base, TypeOK
<1>2. CASE CreateUnprepared(v) BY <1>2 DEF CreateUnprepared
<1> QED BY <1>1, <1>2

LEMMA InvStutter == Core /\ UNCHANGED vars => Kept
BY DEF Kept, AddressesKept, Core, StartInv, StopInv, AddressesDistinct, AddressesTaken,
  AddressesAccounted, LiveTracked, DiskInv, DiskBusyOwned, RegisteredHasDevices, LiveHasDisk,
  HasImage, Holding, Registered, Starting, Sweeping, vars, lockVars, hostVars, diskVars, callVars

LEMMA BaseStep == Base /\ [Next]_vars => Base'
BY TypeStep, LockStep, WriterStep DEF Base

LEMMA CoreStep == Base /\ Core /\ [Next]_vars => Kept
<1> SUFFICES ASSUME Base, Core, [Next]_vars PROVE Kept OBVIOUS
<1>1. Base' BY BaseStep
<1>2. CASE \E c \in Callers : ManagerStep(c)
  BY <1>1, <1>2, InvStart, InvStop, InvDisk DEF ManagerStep
<1>3. CASE \E c \in Callers : CallStep(c) BY <1>1, <1>3, InvCall
<1>4. CASE \E v \in VMs : ProcessExit(v) \/ CreateUnprepared(v) BY <1>4, InvExit
<1>5. CASE UNCHANGED vars BY <1>5, InvStutter
<1> QED BY <1>2, <1>3, <1>4, <1>5 DEF Next

LEMMA InitInv == Init => Base /\ Inv
<1>1. Init => Base
  BY TypeInit, NoneAssumption DEF Init, Base, ArgOK, LockInv, WriterInv, HeldPcs
<1>2. Init => Inv
  BY DEF Init, Inv, Core, StartInv, StopInv, AddressesDistinct, AddressesTaken,
  AddressesAccounted, LiveTracked, DiskInv, DiskBusyOwned, RegisteredHasDevices, LiveHasDisk,
  HasImage, Holding, Registered, Starting, Sweeping
<1> QED BY <1>1, <1>2

LEMMA BaseCorrect == Spec => []Base
BY InitInv, BaseStep, PTL DEF Spec

(* Inv is an invariant of the manager: it holds at first, and every step of  *)
(* every goroutine, and every exit of a guest, preserves it.                 *)
THEOREM InvCorrect == Spec => []Inv
<1>1. Base /\ Inv /\ [Next]_vars => Inv' BY CoreStep DEF Inv, Kept, AddressesKept
<1> QED BY <1>1, InitInv, BaseCorrect, PTL DEF Spec

-----------------------------------------------------------------------------
(* The properties *)

(* Addresses are neither leaked nor freed in use. *)
THEOREM AddressesAccountedCorrect == Spec => []AddressesAccounted
BY InvCorrect, PTL DEF Inv, Core

(* No live firecracker process escapes the manager. *)
THEOREM LiveTrackedCorrect == Spec => []LiveTracked
BY InvCorrect, PTL DEF Inv, Core

LEMMA CoreLiveDistinct ==
  ASSUME Base, Core PROVE LiveAddressesDistinct
<1> SUFFICES ASSUME NEW v \in VMs, live[v] # NoIP
             PROVE  live[v] \in allocatedIPs /\ \A w \in VMs \ {v} : live[w] # live[v]
  BY DEF LiveAddressesDistinct
<1> USE DEF Base, TypeOK, LockInv, HeldPcs, Core, LiveTracked, Holding, Registered, Starting
<1>1. live[v] \in allocatedIPs BY DEF AddressesTaken, StartInv
<1>2. ASSUME NEW w \in VMs \ {v} PROVE live[w] # live[v]
  BY <1>2 DEF AddressesDistinct, StartInv
<1> QED BY <1>1, <1>2

(* Two live guests never have the same address, nor is it free to hand out.  *)
THEOREM LiveAddressesDistinctCorrect == Spec => []LiveAddressesDistinct
BY CoreLiveDistinct, BaseCorrect, InvCorrect, PTL DEF Inv

LEMMA CoreDiskExclusive ==
  ASSUME Base, Core PROVE DiskExclusive
<1> SUFFICES ASSUME NEW c \in Callers, pc[c] \in DiskPcs
             PROVE  /\ arg[c] \in diskBusy
                    /\ ~ Registered(arg[c]) /\ live[arg[c]] = NoIP
                    /\ \A d \in Callers \ {c} :
                          pc[d] \in DiskPcs \cup StartPcs => arg[d] # arg[c]
  BY DEF DiskExclusive
<1> USE DEF Base, TypeOK, ArgOK, LockInv, Core, DiskInv
<1>1. arg[c] \in VMs /\ arg[c] \in diskBusy /\ ~ Registered(arg[c]) OBVIOUS
<1>2. live[arg[c]] = NoIP BY <1>1 DEF LiveTracked, Holding, StartInv, Starting
<1>3. \A d \in Callers \ {c} : pc[d] \in DiskPcs \cup StartPcs => arg[d] # arg[c]
  BY <1>1 DEF StartInv, Starting
<1> QED BY <1>1, <1>2, <1>3

(* A disk operation has its VM's disk to itself, and no process runs on it. *)
THEOREM DiskExclusiveCorrect == Spec => []DiskExclusive
BY CoreDiskExclusive, BaseCorrect, InvCorrect, PTL DEF Inv

(* No error path leaves a disk marked busy. *)
THEOREM DiskBusyOwnedCorrect == Spec => []DiskBusyOwned
BY InvCorrect, PTL DEF Inv, Core, DiskInv

(* The image under a running guest is never removed. *)
THEOREM LiveHasDiskCorrect == Spec => []LiveHasDisk
BY InvCorrect, PTL DEF Inv, Core

(* A registered VM keeps its TAP device and its jail until it is stopped. *)
THEOREM RegisteredHasDevicesCorrect == Spec => []RegisteredHasDevices
BY InvCorrect, PTL DEF Inv, Core

-----------------------------------------------------------------------------
(* The manager implements VmPool: the registration in StartVM, the last step *)
(* of StopVM and of StopAllVMs, lockDisk and its unlock are the abstract     *)
(* steps; every other step is a stutter.                                     *)

poolVars == <<processes, diskBusy>>

LEMMA PoolStart ==
  ASSUME Base, Inv, NEW c \in Callers, StartStep(c) PROVE Pool!Next \/ UNCHANGED poolVars
<1>1. CASE StartRegister(c)
  <2>1. arg[c] \in VMs /\ addr[c] \in IPs
    BY <1>1 DEF StartRegister, At, Base, TypeOK, ArgOK, Inv, Core, StartInv, Starting
  <2>2. Pool!Start(arg[c], addr[c])
    BY <1>1, <2>1 DEF StartRegister, At, Pool!Start, Pool!Stopped, Inv, Core, StartInv, Starting,
       Registered
  <2> QED BY <2>1, <2>2 DEF Pool!Next
<1>2. CASE StartRejected(c) \/ StartAllocate(c) \/ StartTap(c) \/ StartTapFails(c)
           \/ StartNat(c) \/ StartNatFails(c) \/ StartJail(c) \/ StartJailFails(c)
           \/ StartSocket(c) \/ StartSocketFails(c) \/ StartConfigureFails(c)
  BY <1>2 DEF StartRejected, StartAllocate, StartTap, StartTapFails, StartNat, StartNatFails,
     StartJail, StartJailFails, StartSocket, StartSocketFails, StartConfigureFails,
     AbandonStart, lockVars, poolVars
<1> QED BY <1>1, <1>2 DEF StartStep

LEMMA PoolStop ==
  ASSUME Base, Inv, NEW c \in Callers, StopStep(c) PROVE Pool!Next \/ UNCHANGED poolVars
<1>1. CASE StopRelease(c)
  <2>1. arg[c] \in VMs BY <1>1 DEF StopRelease, At, Base, ArgOK
  <2>2. Pool!Stop(arg[c])
    BY <1>1 DEF StopRelease, At, Pool!Stop, Pool!Stopped, Inv, Core, StopInv, Registered
  <2> QED BY <2>1, <2>2 DEF Pool!Next
<1>2. CASE StopAllEnd(c) BY <1>2 DEF StopAllEnd, Pool!Next, Pool!StopAll
<1>3. CASE StopRejected(c) \/ StopBegin(c) \/ StopKill(c) \/ StopAllBegin(c)
           \/ (\E v \in VMs : StopAllSweep(c, v))
  BY <1>3 DEF StopRejected, StopBegin, StopKill, StopAllBegin, StopAllSweep, lockVars, poolVars
<1> QED BY <1>1, <1>2, <1>3 DEF StopStep

LEMMA PoolDisk ==
  ASSUME Base, Inv, NEW c \in Callers, DiskStep(c) \/ PrepareStep(c)
  PROVE  Pool!Next \/ UNCHANGED poolVars
<1>1. CASE LockDisk(c)
  <2>1. arg[c] \in VMs BY <1>1 DEF LockDisk, Base, ArgOK
  <2>2. Pool!UseDisk(arg[c]) BY <1>1 DEF LockDisk, Pool!UseDisk, Pool!Stopped, Registered
  <2> QED BY <2>1, <2>2 DEF Pool!Next
<1>2. CASE UnlockDisk(c)
  <2>1. arg[c] \in VMs /\ arg[c] \in diskBusy
    BY <1>2 DEF UnlockDisk, Base, LockInv, ArgOK, Inv, Core, DiskInv
  <2>2. Pool!LeaveDisk(arg[c]) BY <1>2, <2>1 DEF UnlockDisk, Pool!LeaveDisk
  <2> QED BY <2>1, <2>2 DEF Pool!Next
<1>3. CASE LockRejected(c) \/ CleanupBody(c) \/ Ext4Body(c) \/ ResetRemove(c)
           \/ ResetCopy(c) \/ ResetFinish(c) \/ PrepareStep(c)
  BY <1>3 DEF LockRejected, CleanupBody, Ext4Body, ResetRemove, ResetCopy, ResetFinish,
     PrepareStep, PrepareDir, PrepareCopy, PrepareFinish, DiskOpEnds, lockVars, poolVars
<1> QED BY <1>1, <1>2, <1>3 DEF DiskStep

(* Whatever its callers do, the manager looks to them like a pool of running *)
(* VMs with distinct addresses and exclusive disk operations.                *)
THEOREM ImplementsPool == Spec => PoolSpec
<1>1. Init => Pool!Init BY DEF Init, Pool!Init
<1>2. Base /\ Inv /\ [Next]_vars => [Pool!Next]_poolVars
  <2> SUFFICES ASSUME Base, Inv, [Next]_vars PROVE Pool!Next \/ UNCHANGED poolVars OBVIOUS
  <2>1. CASE \E c \in Callers : ManagerStep(c)
    BY <2>1, PoolStart, PoolStop, PoolDisk DEF ManagerStep
  <2>2. CASE \E c \in Callers : CallStep(c)
    BY <2>2 DEF CallStep, Create, Invoke, CallWith, InvokeStopAll, Return, lockVars, poolVars
  <2>3. CASE \E v \in VMs : ProcessExit(v) \/ CreateUnprepared(v)
    BY <2>3 DEF ProcessExit, CreateUnprepared, lockVars, poolVars
  <2>4. CASE UNCHANGED vars BY <2>4 DEF vars, lockVars, poolVars
  <2> QED BY <2>1, <2>2, <2>3, <2>4 DEF Next
<1> QED BY <1>1, <1>2, BaseCorrect, InvCorrect, PTL DEF Spec, PoolSpec, Pool!Spec, poolVars
=============================================================================
