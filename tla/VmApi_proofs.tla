----------------------------- MODULE VmApi_proofs -----------------------------
(***************************************************************************)
(* Proofs about VmApi, for any sets of VM ids, names and goroutines, any   *)
(* handlers and any database statements that may fail.  They are stated    *)
(* about a step of one goroutine, so that they serve the request handlers  *)
(* alone and inside the program that boots and shuts down around them.     *)
(***************************************************************************)
EXTENDS VmApi, VmManager_proofs

USE DEF Startable, Lockable, VmOps, DiskOps, Ops, StartPcs, StopPcs, DiskPcs, Pcs, NoIP
USE DEF Kinds, Stages, HandlerStatements, LifeStatements

-----------------------------------------------------------------------------
(* What the requests have in common: the state of a request tells what its   *)
(* goroutine does in the manager, and on which VM.  A goroutine without a    *)
(* handler is the one that restores VMs or stops them all.                   *)

Call(c) ==
    IF stage[c] = "undoing" THEN "stop"
    ELSE IF kind[c] = "create" THEN "prepare"
    ELSE IF kind[c] = "none" THEN "start"
    ELSE ManagerOp[kind[c]]

KindOK(c) ==
    /\ stage[c] = "none" => kind[c] = "none"
    /\ stage[c] = "read" => kind[c] \notin {"none", "create"}
    /\ stage[c] = "check" => kind[c] \in {"create", "update"}
    /\ stage[c] = "write" => kind[c] \in {"none", "create", "update"}
    /\ stage[c] = "act" => kind[c] \notin {"none", "create", "update"}
    /\ stage[c] = "wait" => kind[c] # "update"
    /\ stage[c] = "drop" => kind[c] \in {"create", "delete"}
    /\ stage[c] \in {"undo", "undoing"} => kind[c] = "start"

TargetOK(c) ==
    IF stage[c] = "none" \/ (kind[c] = "create" /\ stage[c] \in {"check", "write"})
    THEN target[c] = NoVM
    ELSE target[c] \in created

CallOK(c) ==
    IF stage[c] \in {"wait", "undoing"}
    THEN pc[c] # "idle" /\ op[c] = Call(c) /\ arg[c] = target[c]
    ELSE pc[c] = "idle" \/ (stage[c] = "none" /\ op[c] = "stopAll")

ReqInv == \A c \in Callers : KindOK(c) /\ TargetOK(c) /\ CallOK(c)

(* What goroutine c does about requests: it works inside the manager, or it   *)
(* is one that serves requests, and takes one or goes on with it.            *)
Arrival(c) ==
    \E k \in Requests, v \in VMs \cup {NoVM}, n \in Names \cup {NoName} : Arrive(c, k, v, n)
Handler(c) == IF stage[c] = "none" THEN pc[c] = "idle" ELSE kind[c] # "none"
ApiStep(c) == ManagerWorks(c) \/ (Handler(c) /\ (Arrival(c) \/ RequestStep(c)))

(* An id that CreateVM has not handed out stands for nothing, and only a row *)
(* that says running has an address.                                         *)
RowInv ==
    /\ \A v \in VMs \ created : state[v] = "none" /\ ~ Registered(v)
    /\ \A v \in VMs : ip[v] # NoIP => state[v] = "running"

-----------------------------------------------------------------------------
(* What a step inside the manager changes *)

LEMMA ManagerFrame ==
  ASSUME Base, NEW c \in Callers, ManagerStep(c)
  PROVE  /\ pc[c] \notin {"idle", "ok", "err"} /\ pc'[c] # "idle"
         /\ \A d \in Callers \ {c} : pc'[d] = pc[d] /\ addr'[d] = addr[d]
         /\ UNCHANGED <<op, arg, created>>
<1> USE DEF Base, TypeOK, LockInv, At, Goto, Leave
<1>1. CASE StartStep(c)
  BY <1>1 DEF StartStep, StartRejected, StartAllocate, StartTap, StartTapFails, StartNat,
     StartNatFails, StartJail, StartJailFails, StartSocket, StartSocketFails,
     StartRegister, StartConfigureFails, AbandonStart
<1>2. CASE StopStep(c)
  BY <1>2 DEF StopStep, StopRejected, StopBegin, StopKill, StopRelease, StopAllBegin,
     StopAllSweep, StopAllEnd
<1>3. CASE DiskStep(c)
  BY <1>3 DEF DiskStep, LockRejected, LockDisk, UnlockDisk, CleanupBody, Ext4Body,
     ResetRemove, ResetCopy, ResetFinish, DiskOpEnds
<1>4. CASE PrepareStep(c)
  BY <1>4 DEF PrepareStep, PrepareDir, PrepareCopy, PrepareFinish, DiskOpEnds
<1> QED BY <1>1, <1>2, <1>3, <1>4 DEF ManagerStep

(* A VM is registered when its start returns, and no longer when a stop of   *)
(* it, or of all VMs, does.                                                  *)
LEMMA ManagerRegisters ==
  ASSUME Base, NEW c \in Callers, ManagerStep(c)
  PROVE  \/ /\ UNCHANGED processes
            /\ op[c] \in {"start", "stopAll"} => pc'[c] # "ok"
            /\ op[c] = "stop" => pc'[c] # "ok" /\ (pc'[c] = "err" => ~ Registered(arg[c]))
         \/ /\ op[c] = "start" /\ pc'[c] = "ok" /\ UNCHANGED addr
            /\ pc[c] = "configure" /\ live[arg[c]] # NoIP
            /\ processes' = [processes EXCEPT ![arg[c]] = addr[c]]
         \/ /\ op[c] = "stop" /\ pc'[c] = "ok"
            /\ processes' = [processes EXCEPT ![arg[c]] = NoIP]
         \/ /\ op[c] = "stopAll" /\ pc'[c] = "ok"
            /\ processes' = [v \in VMs |-> NoIP]
<1> USE DEF Base, TypeOK, LockInv, At, Goto, Leave, lockVars
<1>1. CASE StartStep(c)
  BY <1>1 DEF StartStep, StartRejected, StartAllocate, StartTap, StartTapFails, StartNat,
     StartNatFails, StartJail, StartJailFails, StartSocket, StartSocketFails,
     StartRegister, StartConfigureFails, AbandonStart
<1>2. CASE StopStep(c)
  BY <1>2 DEF StopStep, StopRejected, StopBegin, StopKill, StopRelease, StopAllBegin,
     StopAllSweep, StopAllEnd
<1>3. CASE DiskStep(c)
  <2>1. op[c] \in DiskOps
    <3>1. CASE UnlockDisk(c) BY <3>1 DEF UnlockDisk
    <3> QED
      BY <1>3, <3>1 DEF DiskStep, LockRejected, LockDisk, CleanupBody, Ext4Body, ResetRemove,
         ResetCopy, ResetFinish
  <2> QED
    BY <1>3, <2>1 DEF DiskStep, LockRejected, LockDisk, UnlockDisk, CleanupBody, Ext4Body,
       ResetRemove, ResetCopy, ResetFinish, DiskOpEnds
<1>4. CASE PrepareStep(c)
  BY <1>4 DEF PrepareStep, PrepareDir, PrepareCopy, PrepareFinish, DiskOpEnds
<1> QED BY <1>1, <1>2, <1>3, <1>4 DEF ManagerStep

(* Only PrepareVMDisk makes the directory of a VM; a cleanup that succeeds   *)
(* has removed it.                                                           *)
LEMMA ManagerDisks ==
  ASSUME Base, NEW c \in Callers, ManagerStep(c)
  PROVE  /\ \A v \in VMs : disk[v] = "absent" =>
               disk'[v] = "absent" \/ (op[c] = "prepare" /\ arg[c] = v)
         /\ op[c] = "cleanup" /\ pc'[c] = "unlock" =>
               pc[c] \in DiskPcs /\ disk'[arg[c]] = "absent" /\ UNCHANGED processes
         /\ op[c] = "cleanup" /\ pc'[c] = "ok" =>
               pc[c] = "unlock" /\ UNCHANGED <<disk, processes>>
<1> USE DEF Base, TypeOK, ArgOK, LockInv, At, Goto, Leave, lockVars, diskVars, SetDisk, HasImage
<1>1. CASE StartStep(c)
  BY <1>1 DEF StartStep, StartRejected, StartAllocate, StartTap, StartTapFails, StartNat,
     StartNatFails, StartJail, StartJailFails, StartSocket, StartSocketFails,
     StartRegister, StartConfigureFails, AbandonStart
<1>2. CASE StopStep(c)
  BY <1>2 DEF StopStep, StopRejected, StopBegin, StopKill, StopRelease, StopAllBegin,
     StopAllSweep, StopAllEnd
<1>3. CASE DiskStep(c)
  <2>1. CASE LockRejected(c) \/ LockDisk(c) \/ UnlockDisk(c)
    BY <1>3, <2>1 DEF LockRejected, LockDisk, UnlockDisk
  <2>2. CASE CleanupBody(c)
    <3>1. arg[c] \in VMs /\ op[c] = "cleanup" /\ pc[c] = "body" /\ UNCHANGED processes
      BY <2>2 DEF CleanupBody, DiskOpEnds
    <3>2. \/ disk' = [disk EXCEPT ![arg[c]] = "absent"] /\ pc'[c] = "unlock"
          \/ disk' = [disk EXCEPT ![arg[c]] = "missing"] /\ HasImage(arg[c]) /\ pc'[c] = "unlockErr"
          \/ disk' = disk /\ pc'[c] = "unlockErr"
      BY <2>2 DEF CleanupBody, DiskOpEnds
    <3> QED BY ONLY <3>1, <3>2, TypeOK DEF TypeOK, HasImage, DiskPcs
  <2>3. CASE Ext4Body(c) BY <2>3 DEF Ext4Body, DiskOpEnds
  <2>4. CASE ResetRemove(c) \/ ResetCopy(c) BY <2>4 DEF ResetRemove, ResetCopy, DiskOpEnds
  <2>5. CASE ResetFinish(c)
    <3>1. arg[c] \in VMs /\ op[c] = "reset" BY <2>5 DEF ResetFinish
    <3>2. writer[arg[c]] = c => disk[arg[c]] # "absent"
      BY <3>1, NoneAssumption DEF WriterInv
    <3> QED BY <2>5, <3>1, <3>2 DEF ResetFinish, DiskOpEnds
  <2> QED BY <1>3, <2>1, <2>2, <2>3, <2>4, <2>5 DEF DiskStep
<1>4. CASE PrepareStep(c)
  BY <1>4 DEF PrepareStep, PrepareDir, PrepareCopy, PrepareFinish, DiskOpEnds
<1> QED BY <1>1, <1>2, <1>3, <1>4 DEF ManagerStep

-----------------------------------------------------------------------------
(* What a step of a request changes *)

(* Nothing of any other request, no registration and no disk. *)

-----------------------------------------------------------------------------
(* What a step of a request changes *)

(* Nothing of any other request, no registration and no disk. *)
LEMMA RequestFrame ==
  ASSUME ApiTypeOK, NEW c \in Callers, RequestStep(c) \/ Arrival(c)
  PROVE  /\ \A d \in Callers \ {c} :
               /\ stage'[d] = stage[d] /\ kind'[d] = kind[d] /\ target'[d] = target[d]
               /\ pc'[d] = pc[d] /\ op'[d] = op[d] /\ arg'[d] = arg[d] /\ addr'[d] = addr[d]
         /\ UNCHANGED <<processes, disk, live>>
<1> USE DEF ApiTypeOK, TypeOK, Advance, Answer, vars, lockVars, hostVars, diskVars, callVars, Goto
<1>1. CASE Arrival(c) BY <1>1 DEF Arrival, Arrive
<1>2. CASE ReadAccepted(c) \/ ReadRejected(c) \/ CheckName(c) \/ CheckNameFails(c)
           \/ UpdateRow(c) \/ WriteFails(c) \/ DropRow(c) \/ DropRowFails(c)
  BY <1>2 DEF ReadAccepted, ReadRejected, CheckName, CheckNameFails, UpdateRow, WriteFails,
     DropRow, DropRowFails
<1>3. CASE \E v \in VMs : Insert(c, v) BY <1>3 DEF Insert, Create, CallWith, CreateUnprepared
<1>4. CASE Act(c) \/ Undo(c) BY <1>4 DEF Act, Undo, Invoke, CallWith
<1>5. CASE ManagerFailed(c) \/ ManagerDone(c) \/ RecordStarted(c) \/ RecordStartedFails(c)
           \/ Undone(c) \/ RecordStopped(c)
  BY <1>5 DEF ManagerFailed, ManagerDone, RecordStarted, RecordStartedFails, Undone,
     RecordStopped, Return
<1> QED BY <1>1, <1>2, <1>3, <1>4, <1>5 DEF RequestStep

(* Whatever a request does is a step of the manager's callers, or no step of *)
(* the manager at all.                                                       *)
LEMMA ApiIsManager ==
  ASSUME ApiTypeOK, ReqInv, NEW c \in Callers, ApiStep(c) PROVE [Next]_vars
<1>1. CASE Arrival(c) BY <1>1 DEF Arrival, Arrive
<1>2. CASE ManagerWorks(c) BY <1>2 DEF ManagerWorks, Next
<1>3. CASE ReadAccepted(c) \/ ReadRejected(c) \/ CheckName(c) \/ CheckNameFails(c)
           \/ UpdateRow(c) \/ WriteFails(c) \/ DropRow(c) \/ DropRowFails(c)
  BY <1>3 DEF ReadAccepted, ReadRejected, CheckName, CheckNameFails, UpdateRow, WriteFails,
     DropRow, DropRowFails
<1>4. CASE \E v \in VMs : Insert(c, v) BY <1>4 DEF Insert, Next, CallStep
<1>5. CASE Act(c)
  <2>1. kind[c] \in Kinds \ {"create", "update"}
    BY <1>5 DEF Act, ReqInv, KindOK, ApiTypeOK
  <2>2. ManagerOp[kind[c]] \in VmOps BY <2>1 DEF ManagerOp
  <2>3. target[c] \in VMs BY <1>5 DEF Act, Invoke, ApiTypeOK, TypeOK
  <2> QED BY <1>5, <2>2, <2>3 DEF Act, Next, CallStep
<1>6. CASE Undo(c)
  <2>1. target[c] \in VMs BY <1>6 DEF Undo, Invoke, ApiTypeOK, TypeOK
  <2> QED BY <1>6, <2>1 DEF Undo, Next, CallStep
<1>7. CASE ManagerFailed(c) \/ ManagerDone(c) \/ RecordStarted(c) \/ RecordStartedFails(c)
           \/ Undone(c) \/ RecordStopped(c)
  BY <1>7 DEF ManagerFailed, ManagerDone, RecordStarted, RecordStartedFails, Undone,
     RecordStopped, Next, CallStep
<1> QED BY <1>1, <1>2, <1>3, <1>4, <1>5, <1>6, <1>7 DEF ApiStep, RequestStep

LEMMA ApiTypeStep ==
  ASSUME ApiTypeOK, TypeOK', NEW c \in Callers, ApiStep(c) PROVE ApiTypeOK'
<1> USE ApiAssumption DEF ApiTypeOK, Advance, Answer, rowVars, requestVars, apiVars
<1>1. CASE Arrival(c)
  BY <1>1 DEF Arrival, Arrive
<1>2. CASE ManagerWorks(c) BY <1>2 DEF ManagerWorks
<1>3. CASE ReadAccepted(c) \/ ReadRejected(c) \/ CheckName(c) \/ CheckNameFails(c)
           \/ WriteFails(c) \/ DropRowFails(c)
  BY <1>3 DEF ReadAccepted, ReadRejected, CheckName, CheckNameFails, WriteFails, DropRowFails
<1>4. CASE UpdateRow(c) \/ DropRow(c) BY <1>4 DEF UpdateRow, DropRow
<1>5. CASE \E v \in VMs : Insert(c, v) BY <1>5 DEF Insert
<1>6. CASE Act(c) \/ Undo(c) \/ ManagerFailed(c) \/ ManagerDone(c) \/ RecordStartedFails(c)
           \/ Undone(c)
  BY <1>6 DEF Act, Undo, ManagerFailed, ManagerDone, RecordStartedFails, Undone
<1>7. CASE RecordStarted(c)
  BY <1>7 DEF RecordStarted, UpdateVMState, TypeOK
<1>8. CASE RecordStopped(c)
  BY <1>8 DEF RecordStopped, UpdateVMState, TypeOK
<1> QED BY <1>1, <1>2, <1>3, <1>4, <1>5, <1>6, <1>7, <1>8 DEF ApiStep, RequestStep

-----------------------------------------------------------------------------
(* The state of a request and its goroutine's call keep in step. *)

LEMMA CreatedGrows ==
  ASSUME TypeOK, NEW c \in Callers, RequestStep(c) \/ Arrival(c) PROVE created \subseteq created'
<1> USE DEF vars, callVars
<1>1. CASE Arrival(c) BY <1>1 DEF Arrival, Arrive
<1>2. CASE RequestStep(c)
  BY <1>2 DEF RequestStep, ReadAccepted, ReadRejected, CheckName, CheckNameFails, UpdateRow,
     WriteFails, DropRow, DropRowFails, Insert, Create, CreateUnprepared, Act, Undo, Invoke,
     ManagerFailed, ManagerDone, RecordStarted, RecordStartedFails, Undone, RecordStopped, Return
<1> QED BY <1>1, <1>2

LEMMA ReqStep ==
  ASSUME Base, ApiTypeOK, ReqInv, NEW c \in Callers, ApiStep(c) PROVE ReqInv'
<1>1. CASE ManagerWorks(c)
  <2>1. UNCHANGED <<stage, kind, target, op, arg, created>> /\ pc[c] # "idle" /\ pc'[c] # "idle"
    BY <1>1, ManagerFrame DEF ManagerWorks, apiVars, requestVars
  <2>2. \A d \in Callers \ {c} : pc'[d] = pc[d] BY <1>1, ManagerFrame DEF ManagerWorks
  <2> QED BY <2>1, <2>2 DEF ReqInv, KindOK, TargetOK, CallOK, Call
<1>2. CASE Handler(c) /\ (Arrival(c) \/ RequestStep(c))
  <2>1. ASSUME NEW d \in Callers \ {c} PROVE (KindOK(d) /\ TargetOK(d) /\ CallOK(d))'
    <3>1. /\ stage'[d] = stage[d] /\ kind'[d] = kind[d] /\ target'[d] = target[d]
          /\ pc'[d] = pc[d] /\ op'[d] = op[d] /\ arg'[d] = arg[d]
      BY <1>2, RequestFrame
    <3>2. created \subseteq created' BY <1>2, CreatedGrows DEF ApiTypeOK
    <3> QED BY <3>1, <3>2 DEF ReqInv, KindOK, TargetOK, CallOK, Call
  <2>2. (KindOK(c) /\ TargetOK(c) /\ CallOK(c))'
    <3> USE DEF ApiTypeOK, TypeOK, ReqInv, KindOK, TargetOK, CallOK, Handler, Advance, Answer,
      vars, callVars, Goto
    <3>1. CASE Arrival(c) BY <1>2, <3>1, ApiAssumption, NoneAssumption DEF Arrival, Arrive, MayName
    <3>2. CASE ReadAccepted(c) \/ ReadRejected(c) \/ CheckName(c) \/ CheckNameFails(c)
               \/ UpdateRow(c) \/ WriteFails(c) \/ DropRow(c) \/ DropRowFails(c)
      BY <1>2, <3>2 DEF ReadAccepted, ReadRejected, CheckName, CheckNameFails, UpdateRow, WriteFails,
         DropRow, DropRowFails
    <3>3. CASE \E v \in VMs : Insert(c, v)
      BY <3>3 DEF Insert, Create, CallWith, CreateUnprepared, Call
    <3>4. CASE Act(c) \/ Undo(c) BY <3>4 DEF Act, Undo, Invoke, CallWith, Call
    <3>5. CASE ManagerFailed(c) \/ ManagerDone(c) \/ RecordStarted(c) \/ RecordStartedFails(c)
               \/ Undone(c) \/ RecordStopped(c)
      BY <3>5 DEF ManagerFailed, ManagerDone, RecordStarted, RecordStartedFails, Undone,
         RecordStopped, Return
    <3> QED BY <1>2, <3>1, <3>2, <3>3, <3>4, <3>5 DEF RequestStep
  <2> QED BY <2>1, <2>2 DEF ReqInv
<1> QED BY <1>1, <1>2 DEF ApiStep

(* The manager registers only a VM that a request or boot has named. *)
LEMMA CallsName ==
  ASSUME Base, ApiTypeOK, ReqInv, NEW c \in Callers, ManagerStep(c)
  PROVE  /\ op[c] # "stopAll" => /\ stage[c] \in {"wait", "undoing"} /\ op[c] = Call(c)
                                 /\ arg[c] = target[c] /\ target[c] \in created
         /\ op[c] = "stopAll" => stage[c] = "none"
<1>1. pc[c] \notin {"idle", "ok", "err"} BY ManagerFrame
<1>2. stage[c] \in {"wait", "undoing"} => Call(c) # "stopAll"
  BY DEF ReqInv, KindOK, Call, ManagerOp, ApiTypeOK
<1> QED BY <1>1, <1>2 DEF ReqInv, CallOK, TargetOK, KindOK

LEMMA RowStep ==
  ASSUME Base, ApiTypeOK, ReqInv, RowInv, NEW c \in Callers, ApiStep(c)
  PROVE  RowInv'
<1> USE DEF ApiTypeOK, TypeOK, RowInv, Registered
<1>1. CASE ManagerWorks(c)
  <2>1. UNCHANGED <<state, ip, created>>
    BY <1>1, ManagerFrame DEF ManagerWorks, apiVars, rowVars
  <2>2. ASSUME NEW v \in VMs \ created PROVE processes'[v] = NoIP
    BY <1>1, CallsName, ManagerRegisters DEF ManagerWorks
  <2> QED BY <2>1, <2>2
<1>2. CASE Handler(c) /\ (Arrival(c) \/ RequestStep(c))
  <2>1. UNCHANGED processes BY <1>2, RequestFrame
  <2>2. created \subseteq created' BY <1>2, CreatedGrows
  <2> USE DEF ReqInv, TargetOK, KindOK, rowVars, vars
  <2>3. CASE Arrival(c) BY <2>1, <2>3 DEF Arrival, Arrive
  <2>4. CASE ReadAccepted(c) \/ ReadRejected(c) \/ CheckName(c) \/ CheckNameFails(c)
             \/ UpdateRow(c) \/ WriteFails(c) \/ DropRow(c) \/ DropRowFails(c)
    BY <2>1, <2>4 DEF ReadAccepted, ReadRejected, CheckName, CheckNameFails, UpdateRow,
       WriteFails, DropRow, DropRowFails
  <2>5. CASE \E v \in VMs : Insert(c, v) BY <2>1, <2>5 DEF Insert, Create, CreateUnprepared
  <2>6. CASE Act(c) \/ Undo(c) \/ ManagerFailed(c) \/ ManagerDone(c) \/ RecordStartedFails(c)
             \/ Undone(c)
    BY <2>1, <2>2, <2>6 DEF Act, Undo, ManagerFailed, ManagerDone, RecordStartedFails, Undone
  <2>7. CASE RecordStarted(c) \/ RecordStopped(c)
    BY <2>1, <2>2, <2>7 DEF RecordStarted, RecordStopped, UpdateVMState
  <2> QED BY <1>2, <2>3, <2>4, <2>5, <2>6, <2>7 DEF RequestStep
<1> QED BY <1>1, <1>2 DEF ApiStep

-----------------------------------------------------------------------------
(* Deleting.  Clients wait for the answer to a create before they name its VM. *)

CreateInv ==
    \A c \in Callers : kind[c] = "create" /\ target[c] # NoVM =>
        /\ \A d \in Callers \ {c} : target[d] # target[c]
        /\ state[target[c]] # "none"
        /\ ~ Registered(target[c])

(* Once its directory is gone, a VM cannot be started any more. *)
Emptied(v) == disk[v] = "absent" /\ ~ Registered(v)

(* A delete drops the row only of a VM that it has emptied.  Where there is  *)
(* no row, the VM is empty, or its create has failed, so that no request on  *)
(* it has come further than to look for the row.                             *)
DeleteInv ==
    /\ \A c \in Callers :
          /\ kind[c] = "delete"
          /\ stage[c] = "drop" \/ (stage[c] = "wait" /\ pc[c] \in {"unlock", "ok"})
          => Emptied(target[c])
    /\ \A v \in created : state[v] = "none" =>
          \/ Emptied(v)
          \/ ~ Registered(v) /\ \A c \in Callers : target[c] = v => stage[c] = "read"

LEMMA CreateStep ==
  ASSUME Base, ApiTypeOK, ReqInv, RowInv, CreateInv, NEW c \in Callers, ApiStep(c)
  PROVE  CreateInv'
<1> USE NoneAssumption DEF ApiTypeOK, TypeOK, Registered
<1>1. CASE ManagerWorks(c)
  <2>1. UNCHANGED <<state, kind, target>> BY <1>1 DEF ManagerWorks, apiVars, rowVars, requestVars
  <2>2. ASSUME NEW d \in Callers, kind[d] = "create", target[d] # NoVM
        PROVE  processes'[target[d]] = NoIP
    <3>1. target[d] \in VMs /\ processes[target[d]] = NoIP BY <2>2 DEF CreateInv
    <3>2. op[c] = "start" => arg[c] # target[d]
      BY <1>1, <2>2, CallsName DEF ManagerWorks, CreateInv, Call, ReqInv, KindOK
    <3> QED BY <1>1, <3>1, <3>2, ManagerRegisters DEF ManagerWorks
  <2> QED BY <2>1, <2>2 DEF CreateInv
<1>2. CASE Handler(c) /\ (Arrival(c) \/ RequestStep(c))
  <2>1. UNCHANGED processes
        /\ \A d \in Callers \ {c} : kind'[d] = kind[d] /\ target'[d] = target[d]
    BY <1>2, RequestFrame
  <2>2. \A d \in Callers : target[d] = NoVM \/ target[d] \in created
    BY DEF ReqInv, TargetOK
  <2> USE DEF Advance, Answer, rowVars
  <2>3. CASE Arrival(c) BY <2>1, <2>3 DEF Arrival, Arrive, MayName, BeingCreated, CreateInv
  <2>4. CASE ReadAccepted(c) \/ ReadRejected(c) \/ CheckName(c) \/ CheckNameFails(c)
             \/ UpdateRow(c) \/ WriteFails(c) \/ DropRowFails(c)
    BY <2>1, <2>4 DEF ReadAccepted, ReadRejected, CheckName, CheckNameFails, UpdateRow,
       WriteFails, DropRowFails, CreateInv
  <2>5. CASE \E v \in VMs : Insert(c, v)
    BY <2>1, <2>2, <2>5 DEF Insert, Create, CreateUnprepared, RowInv, CreateInv
  <2>6. CASE DropRow(c) BY <2>1, <2>6 DEF DropRow, CreateInv
  <2>7. CASE Act(c) \/ Undo(c) \/ ManagerFailed(c) \/ ManagerDone(c) \/ RecordStartedFails(c)
             \/ Undone(c)
    BY <2>1, <2>7 DEF Act, Undo, ManagerFailed, ManagerDone, RecordStartedFails, Undone, CreateInv
  <2>8. CASE RecordStarted(c) \/ RecordStopped(c)
    BY <2>1, <2>8 DEF RecordStarted, RecordStopped, UpdateVMState, CreateInv
  <2> QED BY <1>2, <2>3, <2>4, <2>5, <2>6, <2>7, <2>8 DEF RequestStep
<1> QED BY <1>1, <1>2 DEF ApiStep

LEMMA EmptiedStays ==
  ASSUME Base, Core, ApiTypeOK, ReqInv, NEW c \in Callers, ManagerStep(c),
         NEW v \in VMs, Emptied(v), \A d \in Callers : kind[d] = "create" => target[d] # v
  PROVE  Emptied(v)'
<1> USE DEF Base, TypeOK, Emptied, Registered
<1>1. op[c] = "prepare" => arg[c] # v
  <2> SUFFICES ASSUME op[c] = "prepare", arg[c] = v PROVE FALSE OBVIOUS
  <2>1. stage[c] \in {"wait", "undoing"} /\ Call(c) = "prepare" /\ target[c] = v BY CallsName
  <2>2. stage[c] = "undoing" \/ kind[c] \in {"create", "none"} \/ kind[c] \in DOMAIN ManagerOp
    BY <2>1 DEF ReqInv, KindOK, ApiTypeOK, ManagerOp
  <2>3. \A k \in DOMAIN ManagerOp : ManagerOp[k] # "prepare" BY DEF ManagerOp
  <2> QED BY <2>1, <2>2, <2>3 DEF Call
<1>2. disk'[v] = "absent" BY <1>1, ManagerDisks
<1>3. live[v] = NoIP BY DEF Core, LiveHasDisk, HasImage
<1>4. processes'[v] = NoIP BY <1>3, ManagerRegisters
<1> QED BY <1>2, <1>4

LEMMA DeleteStep ==
  ASSUME Base, Core, ApiTypeOK, ReqInv, RowInv, CreateInv, DeleteInv, NEW c \in Callers, ApiStep(c)
  PROVE  DeleteInv'
<1> USE NoneAssumption DEF ApiTypeOK, TypeOK
<1>1. CASE ManagerWorks(c)
  <2>1. UNCHANGED <<state, kind, target, stage, created>> /\ ManagerStep(c)
    BY <1>1, ManagerFrame DEF ManagerWorks, apiVars, rowVars, requestVars
  <2>2. ASSUME NEW d \in Callers, kind[d] = "delete",
               stage[d] = "drop" \/ (stage[d] = "wait" /\ pc'[d] \in {"unlock", "ok"})
        PROVE  Emptied(target[d])'
    <3>1. target[d] \in VMs /\ (\A e \in Callers : kind[e] = "create" => target[e] # target[d])
      BY <2>2 DEF CreateInv, ReqInv, TargetOK
    <3>2. CASE Emptied(target[d]) BY <2>1, <3>1, <3>2, EmptiedStays
    <3>3. CASE ~ Emptied(target[d])
      <4>1. d = c /\ stage[c] = "wait" /\ pc[c] \notin {"unlock", "ok"}
        BY <2>1, <2>2, <3>3, ManagerFrame DEF DeleteInv
      <4>2. op[c] = "cleanup" /\ arg[c] = target[c]
        BY <2>1, <2>2, <4>1 DEF ReqInv, CallOK, Call, ManagerOp
      <4>3. pc[c] \in DiskPcs /\ disk'[arg[c]] = "absent" /\ UNCHANGED processes
        BY <2>1, <2>2, <4>1, <4>2, ManagerDisks
      <4>4. ~ Registered(arg[c]) BY <4>3 DEF Core, DiskInv
      <4> QED BY <2>1, <4>1, <4>2, <4>3, <4>4 DEF Emptied, Registered
    <3> QED BY <3>2, <3>3
  <2>3. ASSUME NEW v \in created, state[v] = "none"
        PROVE  \/ Emptied(v)'
               \/ ~ Registered(v)' /\ \A d \in Callers : target[d] = v => stage[d] = "read"
    <3>1. \A d \in Callers : kind[d] = "create" => target[d] # v BY <2>3 DEF CreateInv
    <3>2. CASE Emptied(v) BY <2>1, <3>1, <3>2, EmptiedStays
    <3>3. CASE ~ Registered(v) /\ \A d \in Callers : target[d] = v => stage[d] = "read"
      <4>1. op[c] = "start" => arg[c] # v BY <2>1, <3>3, CallsName
      <4>2. processes'[v] = NoIP BY <2>1, <3>3, <4>1, ManagerRegisters DEF Registered
      <4> QED BY <3>3, <4>2 DEF Registered
    <3> QED BY <2>3, <3>2, <3>3 DEF DeleteInv
  <2> QED BY <2>1, <2>2, <2>3 DEF DeleteInv
<1>2. CASE Handler(c) /\ (Arrival(c) \/ RequestStep(c))
  <2>1. /\ UNCHANGED <<processes, disk>>
        /\ \A d \in Callers \ {c} : kind'[d] = kind[d] /\ target'[d] = target[d]
                                    /\ stage'[d] = stage[d] /\ pc'[d] = pc[d]
    BY <1>2, RequestFrame
  <2>2. \A v \in VMs : Emptied(v)' <=> Emptied(v) BY <2>1 DEF Emptied, Registered
  <2> USE DEF Advance, Answer, rowVars, vars, callVars, ReqInv, TargetOK, KindOK
  <2>3. ASSUME NEW d \in Callers, kind'[d] = "delete",
               stage'[d] = "drop" \/ (stage'[d] = "wait" /\ pc'[d] \in {"unlock", "ok"})
        PROVE  Emptied(target[d])'
    <3>1. CASE d # c
      <4>1. Emptied(target[d]) /\ target[d] \in VMs /\ target'[d] = target[d]
        BY <2>1, <2>3, <3>1 DEF DeleteInv
      <4> QED BY <2>1, <4>1 DEF Emptied, Registered
    <3>2. CASE d = c
      <4>1. stage[c] = "wait" /\ pc[c] = "ok" /\ kind[c] = "delete" /\ target'[c] = target[c]
        BY <1>2, <2>3, <3>2 DEF Arrival, Arrive, RequestStep, ReadAccepted, ReadRejected, CheckName,
           CheckNameFails, Insert, CreateUnprepared, UpdateRow, WriteFails, DropRow, DropRowFails,
           Act, Undo, Invoke, CallWith, Goto, ManagerFailed, ManagerDone, RecordStarted,
           RecordStartedFails, Undone, RecordStopped
      <4>2. Emptied(target[c]) BY <4>1 DEF DeleteInv
      <4> QED BY <2>1, <3>2, <4>1, <4>2 DEF Emptied, Registered
    <3> QED BY <3>1, <3>2
  <2>4. ASSUME NEW v \in created', state'[v] = "none"
        PROVE  \/ Emptied(v)'
               \/ ~ Registered(v)' /\ \A d \in Callers : target'[d] = v => stage'[d] = "read"
    <3>1. CASE v \in created /\ state[v] = "none"
      <4>1. CASE Emptied(v) BY <2>2, <3>1, <4>1
      <4>2. CASE ~ Registered(v) /\ \A d \in Callers : target[d] = v => stage[d] = "read"
        <5>1. target'[c] = v => stage'[c] = "read"
          <6> USE DEF Acceptable
          <6>1. CASE Arrival(c) BY <6>1, <3>1 DEF Arrival, Arrive
          <6>2. CASE \E w \in VMs : Insert(c, w)
            BY <6>2, <3>1, <4>2 DEF Insert, Create, CreateUnprepared
          <6>3. CASE ReadAccepted(c) BY <6>3, <3>1, <4>2 DEF ReadAccepted
          <6>4. CASE RequestStep(c) /\ ~ ReadAccepted(c) /\ ~ \E w \in VMs : Insert(c, w)
            BY <6>4, <3>1, <4>2 DEF RequestStep, ReadRejected, CheckName, CheckNameFails, UpdateRow,
               WriteFails, DropRow, DropRowFails, Act, Undo, ManagerFailed, ManagerDone,
               RecordStarted, RecordStartedFails, Undone, RecordStopped
          <6> QED BY <1>2, <6>1, <6>2, <6>3, <6>4
        <5> QED BY <2>1, <4>2, <5>1 DEF Registered
      <4> QED BY <3>1, <4>1, <4>2 DEF DeleteInv
    <3>2. CASE v \notin created \/ state[v] # "none"
      <4>1. DropRow(c) /\ v = target[c] /\ v \in VMs
        BY <1>2, <2>4, <3>2 DEF Arrival, Arrive, RequestStep, ReadAccepted, ReadRejected, CheckName,
           CheckNameFails, Insert, Create, CreateUnprepared, UpdateRow, WriteFails, DropRow,
           DropRowFails, Act, Undo, Invoke, ManagerFailed, ManagerDone, RecordStarted,
           RecordStartedFails, Undone, RecordStopped, UpdateVMState, Return
      <4>2. CASE kind[c] = "delete"
        <5>1. Emptied(v) BY <4>1, <4>2 DEF DropRow, DeleteInv
        <5> QED BY <2>2, <4>1, <5>1
      <4>3. CASE kind[c] = "create"
        <5>1. ~ Registered(v) /\ \A d \in Callers \ {c} : target[d] # v
          BY <4>1, <4>3 DEF CreateInv
        <5>2. target'[c] = NoVM BY <4>1 DEF DropRow
        <5> QED BY <2>1, <4>1, <5>1, <5>2 DEF Registered
      <4> QED BY <4>1, <4>2, <4>3 DEF DropRow
    <3> QED BY <3>1, <3>2
  <2> QED BY <2>3, <2>4 DEF DeleteInv
<1> QED BY <1>1, <1>2 DEF ApiStep

-----------------------------------------------------------------------------
(* What the handlers and boot and shutdown rely on alike *)

ApiCore ==
    /\ Base /\ Core /\ ApiTypeOK
    /\ ReqInv /\ RowInv
    /\ CreateInv /\ DeleteInv

LEMMA ApiCoreStep ==
  ASSUME ApiCore, NEW c \in Callers, ApiStep(c)
  PROVE  ApiCore' /\ Kept /\ [Next]_vars
<1>1. Base /\ Core /\ ApiTypeOK /\ ReqInv /\ RowInv /\ CreateInv /\ DeleteInv BY DEF ApiCore
<1>2. [Next]_vars BY <1>1, ApiIsManager
<1>3. Base' BY ONLY <1>1, <1>2, BaseStep
<1>4. Kept BY ONLY <1>1, <1>2, CoreStep
<1>5. ApiTypeOK' BY <1>1, <1>3, ApiTypeStep DEF Base
<1>6. ReqInv' BY <1>1, ReqStep
<1>7. RowInv' BY <1>1, RowStep
<1>8. CreateInv' BY <1>1, CreateStep
<1>9. DeleteInv' BY <1>1, DeleteStep
<1>10. Core' BY ONLY <1>4 DEF Kept
<1> QED BY ONLY <1>2, <1>3, <1>4, <1>5, <1>6, <1>7, <1>8, <1>9, <1>10 DEF ApiCore

LEMMA ExitStep ==
  ASSUME ApiCore, NEW v \in VMs, ProcessExit(v), UNCHANGED apiVars
  PROVE  ApiCore' /\ Kept /\ [Next]_vars
<1>1. UNCHANGED <<processes, disk, created, pc, op, arg, addr, state, ip, name, stage, kind,
                  target, newName>>
  BY DEF ProcessExit, lockVars, diskVars, callVars, apiVars, rowVars, requestVars
<1>2. Base /\ Core BY DEF ApiCore
<1>3. [Next]_vars BY DEF Next
<1>4. Base' BY ONLY <1>2, <1>3, BaseStep
<1>5. Kept BY ONLY <1>2, <1>3, CoreStep
<1>6. (ApiTypeOK /\ ReqInv /\ RowInv /\ CreateInv /\ DeleteInv)'
  BY <1>1, <1>4 DEF ApiCore, Base, ApiTypeOK, ReqInv, KindOK, TargetOK, CallOK, Call, RowInv,
     CreateInv, DeleteInv, Emptied, Registered
<1> QED BY ONLY <1>3, <1>4, <1>5, <1>6 DEF ApiCore, Kept

LEMMA ApiStutter ==
  ASSUME ApiCore, UNCHANGED allVars PROVE ApiCore' /\ Kept /\ [Next]_vars
<1>1. UNCHANGED vars BY DEF allVars
<1>2. Base /\ Core BY DEF ApiCore
<1>3. Base' BY <1>1, <1>2, BaseStep
<1>4. Kept BY ONLY <1>1, <1>2, InvStutter
<1>5. (ApiTypeOK /\ ReqInv /\ RowInv /\ CreateInv /\ DeleteInv)'
  BY DEF allVars, vars, lockVars, hostVars, diskVars, callVars, apiVars, rowVars, requestVars,
     ApiCore, ApiTypeOK, TypeOK, ReqInv, KindOK, TargetOK, CallOK, Call, RowInv, CreateInv,
     DeleteInv, Emptied, Registered
<1> QED BY ONLY <1>1, <1>3, <1>4, <1>5 DEF ApiCore, Kept

(* A VM without a row is not registered and has no process. *)
LEMMA DeletedFacts ==
  ASSUME ApiCore PROVE DeletedVmNotRunning
<1> SUFFICES ASSUME NEW v \in created, state[v] = "none"
             PROVE  ~ Registered(v) /\ live[v] = NoIP
  BY DEF DeletedVmNotRunning
<1> USE DEF ApiCore, Base, TypeOK
<1>1. CASE Emptied(v) BY <1>1 DEF Emptied, Core, LiveHasDisk, HasImage
<1>2. CASE ~ Registered(v) /\ \A c \in Callers : target[c] = v => stage[c] = "read"
  <2>1. ASSUME NEW c \in Callers, Starting(c), arg[c] = v PROVE FALSE
    <3>1. pc[c] # "idle" /\ op[c] = "start" BY <2>1 DEF Starting, LockInv
    <3> QED BY <1>2, <2>1, <3>1 DEF ReqInv, CallOK
  <2> QED BY <1>2, <2>1 DEF Core, LiveTracked, Holding
<1> QED BY <1>1, <1>2 DEF DeleteInv

-----------------------------------------------------------------------------
(* The specification of the handlers *)

(* A goroutine that serves requests never stops all VMs. *)
HandlerInv(c) == op[c] # "stopAll" /\ (stage[c] # "none" => kind[c] # "none")
HandlersInv == \A c \in Callers : HandlerInv(c)

ApiInv == ApiCore /\ HandlersInv /\ AddressesAccounted

LEMMA HandlerStep ==
  ASSUME ApiCore, NEW c \in Callers, ApiStep(c), NEW d \in Callers, HandlerInv(d)
  PROVE  HandlerInv(d)'
<1> USE DEF ApiCore, HandlerInv
<1>1. CASE d # c
  <2>1. CASE ManagerWorks(c)
    BY <1>1, <2>1, ManagerFrame DEF ManagerWorks, apiVars, requestVars
  <2>2. CASE Arrival(c) \/ RequestStep(c) BY <1>1, <2>2, RequestFrame
  <2> QED BY <2>1, <2>2 DEF ApiStep
<1>2. CASE d = c
  <2> USE <1>2 DEF ApiTypeOK, TypeOK, Advance, Answer, vars, callVars
  <2>1. CASE ManagerWorks(c)
    BY <2>1, ManagerFrame DEF ManagerWorks, apiVars, requestVars
  <2>2. CASE Arrival(c) BY <2>2, ApiAssumption DEF Arrival, Arrive
  <2>3. CASE ReadAccepted(c) \/ ReadRejected(c) \/ CheckName(c) \/ CheckNameFails(c)
             \/ UpdateRow(c) \/ WriteFails(c) \/ DropRow(c) \/ DropRowFails(c)
    BY <2>3 DEF ReadAccepted, ReadRejected, CheckName, CheckNameFails, UpdateRow, WriteFails,
       DropRow, DropRowFails
  <2>4. CASE \E v \in VMs : Insert(c, v) BY <2>4 DEF Insert, Create, CallWith, CreateUnprepared
  <2>5. CASE Act(c)
    <3>1. ManagerOp[kind[c]] # "stopAll" /\ kind[c] # "none"
      BY <2>5 DEF Act, ManagerOp, ReqInv, KindOK
    <3> QED BY <2>5, <3>1 DEF Act, Invoke, CallWith
  <2>6. CASE Undo(c) BY <2>6 DEF Undo, Invoke, CallWith
  <2>7. CASE ManagerFailed(c) \/ ManagerDone(c) \/ RecordStarted(c) \/ RecordStartedFails(c)
             \/ Undone(c) \/ RecordStopped(c)
    BY <2>7 DEF ManagerFailed, ManagerDone, RecordStarted, RecordStartedFails, Undone,
       RecordStopped, Return
  <2> QED BY <2>1, <2>2, <2>3, <2>4, <2>5, <2>6, <2>7 DEF ApiStep, RequestStep
<1> QED BY <1>1, <1>2

LEMMA ApiNextStep ==
  ASSUME ApiInv, [ApiNext]_allVars
  PROVE  \/ \E c \in Callers : ApiStep(c)
         \/ \E v \in VMs : ProcessExit(v) /\ UNCHANGED apiVars
         \/ UNCHANGED allVars
<1>1. \A c \in Callers : Handler(c)
  BY DEF ApiInv, ApiCore, HandlersInv, HandlerInv, ReqInv, CallOK, Handler
<1> QED BY <1>1 DEF ApiNext, ApiStep, Arrival

LEMMA ApiInvInit == ApiInit => ApiInv
<1> SUFFICES ASSUME ApiInit PROVE ApiInv OBVIOUS
<1>1. Base /\ Inv BY InitInv DEF ApiInit
<1>2. ApiTypeOK BY <1>1 DEF ApiInit, Init, ApiTypeOK, Base
<1>3. HandlersInv /\ ReqInv /\ RowInv
  BY DEF ApiInit, Init, HandlersInv, HandlerInv, ReqInv, KindOK, TargetOK, CallOK, RowInv, Registered
<1>4. CreateInv /\ DeleteInv BY DEF ApiInit, Init, CreateInv, DeleteInv
<1> QED BY <1>1, <1>2, <1>3, <1>4 DEF ApiInv, ApiCore, Inv

LEMMA ApiInvStep ==
  ASSUME ApiInv, [ApiNext]_allVars PROVE ApiInv' /\ [Next]_vars
<1>1. ApiCore /\ HandlersInv /\ AddressesAccounted BY DEF ApiInv
<1>2. CASE \E c \in Callers : ApiStep(c)
  <2>1. PICK c \in Callers : ApiStep(c) BY <1>2
  <2>2. ApiCore' /\ Kept /\ [Next]_vars BY <1>1, <2>1, ApiCoreStep
  <2>3. HandlersInv' BY <1>1, <2>1, HandlerStep DEF HandlersInv
  <2> QED BY ONLY <1>1, <2>2, <2>3 DEF ApiInv, Kept, AddressesKept
<1>3. CASE \E v \in VMs : ProcessExit(v) /\ UNCHANGED apiVars
  <2>1. HandlersInv'
    BY <1>1, <1>3 DEF HandlersInv, HandlerInv, ProcessExit, callVars, apiVars, requestVars
  <2>2. ApiCore' /\ Kept /\ [Next]_vars BY <1>1, <1>3, ExitStep
  <2> QED BY ONLY <1>1, <2>1, <2>2 DEF ApiInv, Kept, AddressesKept
<1>4. CASE UNCHANGED allVars
  <2>1. HandlersInv'
    BY <1>1, <1>4 DEF HandlersInv, HandlerInv, allVars, vars, callVars, apiVars, requestVars
  <2>2. ApiCore' /\ Kept /\ [Next]_vars BY <1>1, <1>4, ApiStutter
  <2> QED BY ONLY <1>1, <2>1, <2>2 DEF ApiInv, Kept, AddressesKept
<1> QED BY <1>2, <1>3, <1>4, ApiNextStep

(* Whatever clients ask for and whichever statements fail, the handlers keep *)
(* what their requests, the rows and the manager have in common.             *)
LEMMA ApiInvCorrect == ApiSpec => []ApiInv
BY ApiInvInit, ApiInvStep, PTL DEF ApiSpec

(* The handlers call the manager as its specification allows: all that is    *)
(* proved of VmManager holds of it behind the API.                           *)
THEOREM ApiImplementsManager == ApiSpec => Spec
<1>1. ApiInit => Init BY DEF ApiInit
<1>2. ApiInv /\ [ApiNext]_allVars => [Next]_vars BY ApiInvStep
<1> QED BY <1>1, <1>2, ApiInvCorrect, PTL DEF ApiSpec, Spec

(* Every reachable state of the handlers is well typed. *)
THEOREM ApiTypeCorrect == ApiSpec => []ApiTypeOK
BY ApiInvCorrect, PTL DEF ApiInv, ApiCore

(* A VM whose row is gone does not run, whatever requests race with its      *)
(* delete.                                                                   *)
THEOREM DeletedVmNotRunningInApi == ApiSpec => []DeletedVmNotRunning
<1>1. ApiInv => DeletedVmNotRunning BY DeletedFacts DEF ApiInv
<1> QED BY <1>1, ApiInvCorrect, PTL

-----------------------------------------------------------------------------
(* Serial clients: no two requests are about one VM, so that what a request  *)
(* has read of its row stays true until it writes it.                        *)

SerialInv ==
    \A c, d \in Callers : target[c] # NoVM /\ c # d => target[c] # target[d]

(* The requests between a change to the manager and the row that records it. *)
Working(c) ==
    \/ stage[c] \in {"undo", "undoing"}
    \/ stage[c] = "wait" /\ kind[c] = "start"
    \/ stage[c] = "wait" /\ kind[c] = "stop" /\ pc[c] = "ok"

Settled(v) ==
    /\ Registered(v) => state[v] = "running" /\ ip[v] = processes[v]
    /\ "stopped" \in DbFails \/ (state[v] = "running" => Registered(v))

WorkOK(c) ==
    /\ stage[c] = "act" => Acceptable(kind[c], state[target[c]])
    /\ Working(c) /\ kind[c] = "start" => state[target[c]] \in {"stopped", "error"}
    /\ stage[c] = "wait" /\ kind[c] = "start" =>
          IF pc[c] = "ok" THEN processes[target[c]] = addr[c] /\ addr[c] # NoIP
          ELSE ~ Registered(target[c])
    /\ stage[c] = "wait" /\ kind[c] = "stop" /\ pc[c] = "ok" => ~ Registered(target[c])
    /\ stage[c] = "undoing" /\ pc[c] \in {"ok", "err"} => ~ Registered(target[c])

RecordInv ==
    /\ \A c \in Callers : WorkOK(c)
    /\ \A v \in VMs : (\A c \in Callers : Working(c) => target[c] # v) => Settled(v)

(* A request writes no row but its own, or that of the VM it creates. *)
LEMMA RowsFrame ==
  ASSUME ApiTypeOK, NEW c \in Callers, RequestStep(c) \/ Arrival(c),
         NEW v \in created, v # target[c]
  PROVE  state'[v] = state[v] /\ ip'[v] = ip[v]
<1> USE DEF ApiTypeOK, TypeOK, rowVars
<1>1. CASE Arrival(c) BY <1>1 DEF Arrival, Arrive
<1>2. CASE \E w \in VMs : Insert(c, w) BY <1>2 DEF Insert, Create, CreateUnprepared
<1>3. CASE RequestStep(c) /\ ~ \E w \in VMs : Insert(c, w)
  BY <1>3 DEF RequestStep, ReadAccepted, ReadRejected, CheckName, CheckNameFails, UpdateRow,
     WriteFails, DropRow, DropRowFails, Act, Undo, ManagerFailed, ManagerDone, RecordStarted,
     RecordStartedFails, Undone, RecordStopped, UpdateVMState
<1> QED BY <1>1, <1>2, <1>3

LEMMA SerialStep ==
  ASSUME Clients = "serial", ApiCore, SerialInv, NEW c \in Callers, ApiStep(c)
  PROVE  SerialInv'
<1> USE DEF ApiCore, ApiTypeOK, TypeOK
<1>1. CASE ManagerWorks(c) BY <1>1 DEF ManagerWorks, apiVars, requestVars, SerialInv
<1>2. CASE Handler(c) /\ (Arrival(c) \/ RequestStep(c))
  <2>1. \A d \in Callers \ {c} : target'[d] = target[d] BY <1>2, RequestFrame
  <2>2. target'[c] # NoVM => \A d \in Callers \ {c} : target[d] # target'[c]
    <3>1. CASE Arrival(c) BY <3>1 DEF Arrival, Arrive, MayName, Quiet
    <3>2. CASE \E v \in VMs : Insert(c, v)
      BY <3>2, NoneAssumption DEF Insert, Create, CreateUnprepared, Answer, ReqInv, TargetOK
    <3>3. CASE RequestStep(c) /\ ~ \E v \in VMs : Insert(c, v)
      BY <3>3 DEF RequestStep, ReadAccepted, ReadRejected, CheckName, CheckNameFails, UpdateRow,
         WriteFails, DropRow, DropRowFails, Act, Undo, ManagerFailed, ManagerDone, RecordStarted,
         RecordStartedFails, Undone, RecordStopped, Advance, Answer, SerialInv
    <3> QED BY <1>2, <3>1, <3>2, <3>3
  <2> QED BY <2>1, <2>2 DEF SerialInv
<1> QED BY <1>1, <1>2 DEF ApiStep

LEMMA RecordManager ==
  ASSUME ApiCore, HandlersInv, SerialInv, RecordInv, NEW c \in Callers, ManagerWorks(c)
  PROVE  RecordInv'
<1> USE DEF ApiCore, ApiTypeOK, TypeOK
<1>1. UNCHANGED <<state, ip, stage, kind, target>> /\ ManagerStep(c)
  BY DEF ManagerWorks, apiVars, rowVars, requestVars
<1>2. /\ stage[c] \in {"wait", "undoing"} /\ op[c] = Call(c)
      /\ arg[c] = target[c] /\ target[c] \in created
  BY <1>1, CallsName DEF HandlersInv, HandlerInv
<1>3. pc[c] \notin {"ok", "err"} /\ \A d \in Callers \ {c} : pc'[d] = pc[d] /\ addr'[d] = addr[d]
  BY <1>1, ManagerFrame
<1>4. op[c] # "stopAll" BY DEF HandlersInv, HandlerInv
<1>5. \A v \in VMs : v # target[c] => processes'[v] = processes[v]
  BY <1>1, <1>2, <1>4, ManagerRegisters
<1>6. op[c] = "start" <=> stage[c] = "wait" /\ kind[c] = "start"
  BY <1>2 DEF Call, ManagerOp, ReqInv, KindOK, HandlersInv, HandlerInv
<1>7. op[c] = "stop" <=> stage[c] = "undoing" \/ kind[c] = "stop"
  BY <1>2 DEF Call, ManagerOp, ReqInv, KindOK, HandlersInv, HandlerInv
<1>8. ASSUME NEW d \in Callers \ {c} PROVE WorkOK(d)' /\ (Working(d)' <=> Working(d))
  <2>1. stage[d] \in {"wait", "undoing"} => target[d] \in VMs /\ target[d] # target[c]
    BY <1>2, NoneAssumption DEF ReqInv, TargetOK, SerialInv
  <2> QED BY <1>1, <1>3, <1>5, <2>1 DEF RecordInv, WorkOK, Working, Registered, Acceptable
<1>9. WorkOK(c)'
  <2>1. WorkOK(c) /\ target[c] \in VMs BY <1>2 DEF RecordInv
  <2>2. CASE /\ UNCHANGED processes
             /\ op[c] = "start" => pc'[c] # "ok"
             /\ op[c] = "stop" => pc'[c] # "ok" /\ (pc'[c] = "err" => ~ Registered(arg[c]))
    BY <1>1, <1>2, <1>3, <1>6, <1>7, <2>1, <2>2 DEF WorkOK, Working, Registered
  <2>3. CASE op[c] = "start" /\ pc[c] = "configure" /\ pc'[c] = "ok" /\ UNCHANGED addr
             /\ processes' = [processes EXCEPT ![arg[c]] = addr[c]]
    <3>1. addr[c] # NoIP BY <2>3, IPRangeAssumption DEF Core, StartInv, Starting, IPs
    <3> QED BY <1>1, <1>2, <1>3, <1>6, <2>1, <2>3, <3>1 DEF WorkOK, Working, Registered
  <2>4. CASE op[c] = "stop" /\ processes' = [processes EXCEPT ![arg[c]] = NoIP]
    BY <1>1, <1>2, <1>3, <1>7, <2>1, <2>4 DEF WorkOK, Working, Registered, ReqInv, KindOK
  <2> QED BY <1>1, <1>4, <2>2, <2>3, <2>4, ManagerRegisters
<1>10. ASSUME NEW v \in VMs, \A d \in Callers : Working(d)' => target'[d] # v
       PROVE  Settled(v)'
  <2>1. \A d \in Callers : Working(d) => target[d] # v
    BY <1>1, <1>3, <1>8, <1>10 DEF Working
  <2>2. processes'[v] = processes[v]
    BY <1>1, <1>2, <1>4, <1>5, <1>6, <1>7, <1>10, ManagerRegisters DEF Working
  <2> QED BY <1>1, <2>1, <2>2 DEF RecordInv, Settled, Registered
<1> QED BY <1>8, <1>9, <1>10 DEF RecordInv

LEMMA RecordRequest ==
  ASSUME ApiCore, SerialInv, RecordInv, NEW c \in Callers, Handler(c),
         Arrival(c) \/ RequestStep(c)
  PROVE  RecordInv'
<1> USE DEF ApiCore, ApiTypeOK, TypeOK
<1>1. /\ UNCHANGED processes
      /\ \A d \in Callers \ {c} : stage'[d] = stage[d] /\ kind'[d] = kind[d]
            /\ target'[d] = target[d] /\ pc'[d] = pc[d] /\ addr'[d] = addr[d]
  BY RequestFrame
<1>2. \A v \in created : v # target[c] => state'[v] = state[v] /\ ip'[v] = ip[v]
  BY RowsFrame
<1>3. ASSUME NEW d \in Callers \ {c} PROVE WorkOK(d)' /\ (Working(d)' <=> Working(d))
  <2>1. stage[d] \in {"act", "wait", "undo", "undoing"} =>
           target[d] \in created /\ target[d] # target[c]
    BY NoneAssumption DEF ReqInv, TargetOK, SerialInv
  <2> QED BY <1>1, <1>2, <2>1 DEF RecordInv, WorkOK, Working, Registered, Acceptable
<1>4. \A d \in Callers \ {c} : target[d] # NoVM => target[d] # target[c] BY DEF SerialInv
<1>5. ASSUME target[c] \in VMs, ~ Working(c) PROVE Settled(target[c])
  BY <1>4, <1>5, NoneAssumption DEF RecordInv
<1>6. WorkOK(c)'
  <2> USE DEF Advance, Answer, vars, rowVars, lockVars, callVars, Goto, WorkOK, Working, Registered
  <2>1. target[c] = NoVM \/ target[c] \in VMs BY DEF ReqInv, TargetOK
  <2>2. CASE Arrival(c) BY <2>2 DEF Arrival, Arrive
  <2>3. CASE ReadAccepted(c)
    BY <1>1, <2>3 DEF ReadAccepted, ReqInv, KindOK
  <2>4. CASE ReadRejected(c) \/ CheckName(c) \/ CheckNameFails(c) \/ UpdateRow(c)
             \/ WriteFails(c) \/ DropRow(c) \/ DropRowFails(c)
    BY <2>4 DEF ReadRejected, CheckName, CheckNameFails, UpdateRow, WriteFails, DropRow,
       DropRowFails
  <2>5. CASE \E v \in VMs : Insert(c, v)
    BY <2>5 DEF Insert, Create, CallWith, CreateUnprepared, ReqInv, KindOK
  <2>6. CASE Act(c)
    <3>1. kind[c] = "start" =>
             state[target[c]] \in {"stopped", "error"} /\ ~ Registered(target[c])
      BY <1>5, <2>6 DEF Act, Invoke, RecordInv, Acceptable, Settled
    <3> QED BY <1>1, <2>6, <3>1 DEF Act, Invoke, CallWith
  <2>7. CASE Undo(c) BY <1>1, <2>7 DEF Undo, Invoke, CallWith, RecordInv
  <2>8. CASE RecordStartedFails(c)
    BY <1>1, <2>8 DEF RecordStartedFails, Return, RecordInv
  <2>9. CASE ManagerFailed(c) \/ ManagerDone(c) \/ RecordStarted(c) \/ Undone(c)
             \/ RecordStopped(c)
    BY <2>9 DEF ManagerFailed, ManagerDone, RecordStarted, Undone, RecordStopped
  <2> QED BY <2>2, <2>3, <2>4, <2>5, <2>6, <2>7, <2>8, <2>9 DEF RequestStep
<1>7. ASSUME NEW v \in VMs, v = target[c], target'[c] # v \/ ~ Working(c)'
      PROVE  Settled(v)'
  <2> USE DEF Advance, Answer, vars, rowVars, Registered
  <2>1. ~ Working(c) => Settled(v) BY <1>5, <1>7
  <2>2. v \in created BY <1>7, NoneAssumption DEF ReqInv, TargetOK
  <2>3. CASE Arrival(c) BY <1>7, <2>3, NoneAssumption DEF Arrival, Arrive, ReqInv, TargetOK
  <2>4. CASE ReadAccepted(c) \/ ReadRejected(c) \/ CheckName(c) \/ CheckNameFails(c)
             \/ UpdateRow(c) \/ WriteFails(c) \/ DropRow(c) \/ DropRowFails(c)
    BY <1>1, <1>7, <2>1, <2>4 DEF ReadAccepted, ReadRejected, CheckName, CheckNameFails,
       UpdateRow, WriteFails, DropRow, DropRowFails, Working, Settled
  <2>5. CASE \E w \in VMs : Insert(c, w)
    BY <1>7, <2>5, NoneAssumption DEF Insert, ReqInv, TargetOK
  <2>6. CASE Act(c) \/ ManagerDone(c)
    BY <1>1, <2>1, <2>6 DEF Act, ManagerDone, Working, Settled
  <2>7. CASE ManagerFailed(c)
    <3>1. kind[c] = "start" => ~ Registered(v) /\ state[v] \in {"stopped", "error"}
      BY <1>7, <2>7 DEF ManagerFailed, RecordInv, WorkOK, Working
    <3> QED BY <1>1, <2>1, <2>7, <3>1 DEF ManagerFailed, Working, Settled
  <2>8. CASE RecordStarted(c)
    <3>1. WorkOK(c) /\ stage[c] = "wait" /\ kind[c] = "start" /\ pc[c] = "ok"
      BY <2>8 DEF RecordStarted, RecordInv
    <3>2. processes[v] = addr[c] /\ addr[c] # NoIP /\ state[v] # "none"
      BY <1>7, <3>1 DEF WorkOK, Working
    <3>3. state'[v] = "running" /\ ip'[v] = addr[c]
      BY <1>7, <2>8, <3>2 DEF RecordStarted, UpdateVMState
    <3> QED BY <1>1, <3>2, <3>3 DEF Settled
  <2>9. CASE RecordStartedFails(c) \/ Undo(c)
    BY <1>7, <2>9 DEF RecordStartedFails, Undo, Working
  <2>10. CASE Undone(c)
    <3>1. ~ Registered(v) /\ state[v] \in {"stopped", "error"}
      BY <1>7, <2>10 DEF Undone, Return, RecordInv, WorkOK, Working, ReqInv, KindOK
    <3> QED BY <1>1, <2>10, <3>1 DEF Undone, Settled
  <2>11. CASE RecordStopped(c)
    <3>1. ~ Registered(v) BY <1>7, <2>11 DEF RecordStopped, RecordInv, WorkOK
    <3> QED BY <1>1, <1>7, <2>11, <3>1 DEF RecordStopped, UpdateVMState, Settled, Fails
  <2> QED
    BY <2>3, <2>4, <2>5, <2>6, <2>7, <2>8, <2>9, <2>10, <2>11 DEF RequestStep
<1>8. ASSUME NEW v \in VMs \ created PROVE Settled(v)'
  <2> USE DEF RowInv, Settled, Registered, rowVars
  <2>1. CASE Arrival(c) BY <1>1, <2>1 DEF Arrival, Arrive
  <2>2. CASE \E w \in VMs : Insert(c, w) BY <1>1, <2>2 DEF Insert
  <2>3. CASE RequestStep(c) /\ ~ \E w \in VMs : Insert(c, w)
    <3>1. state'[v] = state[v]
      BY <2>3 DEF RequestStep, ReadAccepted, ReadRejected, CheckName, CheckNameFails, UpdateRow,
         WriteFails, DropRow, DropRowFails, Act, Undo, ManagerFailed, ManagerDone, RecordStarted,
         RecordStartedFails, Undone, RecordStopped, UpdateVMState
    <3> QED BY <1>1, <3>1
  <2> QED BY <2>1, <2>2, <2>3
<1>9. ASSUME NEW v \in VMs, \A d \in Callers : Working(d)' => target'[d] # v
      PROVE  Settled(v)'
  <2>1. CASE v = target[c] BY <1>7, <1>9, <2>1
  <2>2. CASE v \notin created BY <1>8, <2>2
  <2>3. CASE v \in created /\ v # target[c]
    <3>1. \A d \in Callers : Working(d) => target[d] # v BY <1>1, <1>3, <1>9, <2>3
    <3> QED BY <1>1, <1>2, <2>3, <3>1 DEF RecordInv, Settled, Registered
  <2> QED BY <2>1, <2>2, <2>3
<1> QED BY <1>3, <1>6, <1>9 DEF RecordInv

SerialRecords == SerialInv /\ RecordInv

LEMMA SerialRecordsStep ==
  ASSUME Clients = "serial", ApiInv, SerialRecords, [ApiNext]_allVars
  PROVE  SerialRecords'
<1>1. ApiCore /\ HandlersInv /\ SerialInv /\ RecordInv BY DEF ApiInv, SerialRecords
<1>2. CASE \E c \in Callers : ApiStep(c)
  <2>1. PICK c \in Callers : ApiStep(c) BY <1>2
  <2>2. SerialInv' BY <1>1, <2>1, SerialStep
  <2>3. RecordInv'
    BY <1>1, <2>1, RecordManager, RecordRequest DEF ApiStep
  <2> QED BY <2>2, <2>3 DEF SerialRecords
<1>3. CASE \E v \in VMs : ProcessExit(v) /\ UNCHANGED apiVars
  BY <1>1, <1>3 DEF SerialRecords, ProcessExit, lockVars, callVars, apiVars, rowVars, requestVars,
     SerialInv, RecordInv, WorkOK, Working, Settled, Registered
<1>4. CASE UNCHANGED allVars
  BY <1>1, <1>4 DEF SerialRecords, allVars, vars, lockVars, callVars, apiVars, rowVars,
     requestVars, SerialInv, RecordInv, WorkOK, Working, Settled, Registered
<1> QED BY <1>2, <1>3, <1>4, ApiNextStep

LEMMA SerialRecordsCorrect == ASSUME Clients = "serial" PROVE ApiSpec => []SerialRecords
<1>1. ApiInit => SerialRecords
  BY DEF ApiInit, Init, SerialRecords, SerialInv, RecordInv, WorkOK, Working, Settled, Registered
<1>2. ApiInv /\ SerialRecords /\ [ApiNext]_allVars => SerialRecords' BY SerialRecordsStep
<1> QED BY <1>1, <1>2, ApiInvCorrect, PTL DEF ApiSpec

(* A VM on which no request is being served is in nobody's hands. *)
LEMMA QuietSettled ==
  ASSUME ApiCore, RecordInv, NEW v \in VMs, Quiet(v) PROVE Settled(v)
BY DEF RecordInv, Quiet

(* Under serial clients no failed database statement leaves a registered VM  *)
(* that stop and delete would both refuse: start takes it down again.        *)
THEOREM RegisteredVmsRecordedCorrect ==
  ASSUME Clients = "serial" PROVE ApiSpec => []RegisteredVmsRecorded
<1>1. ApiInv /\ SerialRecords => RegisteredVmsRecorded
  BY QuietSettled DEF ApiInv, SerialRecords, Settled, RegisteredVmsRecorded
<1> QED BY <1>1, ApiInvCorrect, SerialRecordsCorrect, PTL

(* A running row is true of the manager, if the statement that records a     *)
(* stop does not fail.                                                       *)
THEOREM RunningRowsTrueCorrect ==
  ASSUME Clients = "serial", "stopped" \notin DbFails PROVE ApiSpec => []RunningRowsTrue
<1>1. ApiInv /\ SerialRecords => RunningRowsTrue
  BY QuietSettled DEF ApiInv, SerialRecords, Settled, RunningRowsTrue
<1> QED BY <1>1, ApiInvCorrect, SerialRecordsCorrect, PTL

(* Under the same conditions the address in a running row belongs to no      *)
(* other guest.                                                              *)
THEOREM SubdomainsReachOwnVmCorrect ==
  ASSUME Clients = "serial", "stopped" \notin DbFails PROVE ApiSpec => []SubdomainsReachOwnVm
<1>1. ASSUME ApiInv, SerialRecords PROVE SubdomainsReachOwnVm
  <2> SUFFICES ASSUME NEW v \in VMs, NEW w \in VMs, v # w, Quiet(v), state[v] = "running",
                      live[w] # NoIP
               PROVE  live[w] # ip[v]
    BY DEF SubdomainsReachOwnVm
  <2>1. ApiCore /\ RecordInv BY <1>1 DEF ApiInv, SerialRecords
  <2>2. Registered(v) /\ ip[v] = processes[v] BY <2>1, QuietSettled DEF Settled
  <2>3. \/ Registered(w) /\ processes[w] = live[w]
        \/ \E c \in Callers : Starting(c) /\ addr[c] = live[w]
    BY <2>1 DEF ApiCore, Core, LiveTracked, Holding
  <2> QED BY <2>1, <2>2, <2>3 DEF ApiCore, Core, AddressesDistinct, StartInv
<1> QED BY <1>1, ApiInvCorrect, SerialRecordsCorrect, PTL
=============================================================================
