----------------------------- MODULE Sandfire_proofs -----------------------------
(***************************************************************************)
(* Proofs about Sandfire: what holds of the manager, the requests and the  *)
(* rows across boots, shutdowns and crashes at any step, for any number of *)
(* them and any database statements that may fail.                         *)
(***************************************************************************)
EXTENDS Sandfire, VmApi_proofs

USE DEF Startable, Lockable, VmOps, DiskOps, Ops, StartPcs, StopPcs, DiskPcs, Pcs, NoIP
USE DEF Kinds, Stages, HandlerStatements, LifeStatements, Phases

-----------------------------------------------------------------------------
(* The inductive invariant of the program *)

(* Main serves no request, restores VMs in phase "restore" only, and is the  *)
(* only one to stop all VMs.                                                 *)
MainInv ==
    /\ kind[Main] = "none" /\ stage[Main] \in {"none", "wait", "write"}
    /\ stage[Main] # "none" => phase = "restore"
    /\ op[Main] = "stopAll" => phase = "stopping"
    /\ \A c \in Handlers : HandlerInv(c)

(* Before the VMs are restored, and once the program has ended, its memory   *)
(* is empty.                                                                 *)
Resting == {"prepare", "cleanup", "load", "stopped", "crashed"}
AtRest ==
    /\ \A c \in Callers : stage[c] = "none" /\ pc[c] = "idle"
    /\ \A v \in VMs : live[v] = NoIP /\ processes[v] = NoIP
    /\ allocatedIPs = {}

PhaseInv ==
    /\ phase \in Resting => AtRest
    /\ phase = "restore" =>
          /\ \A c \in Handlers : stage[c] = "none"
          /\ queue \subseteq wasRunning \ {target[Main]}
          /\ stage[Main] # "none" => target[Main] \in wasRunning
    /\ phase = "stopping" => op[Main] = "stopAll" /\ pc[Main] # "idle"

LifeInv == ApiCore /\ LifeTypeOK /\ MainInv /\ PhaseInv

-----------------------------------------------------------------------------
(* A goroutine at work, in a handler or inside the manager *)

Acts(c) == (c \in Handlers /\ (Receive(c) \/ Serve(c))) \/ Work(c)

LEMMA Busy == ASSUME NEW c \in Callers, RequestStep(c) PROVE stage[c] # "none"
BY DEF RequestStep, ReadAccepted, ReadRejected, CheckName, CheckNameFails, Insert, UpdateRow,
   WriteFails, Act, ManagerFailed, ManagerDone, RecordStarted, RecordStartedFails, Undo, Undone,
   RecordStopped, DropRow, DropRowFails

LEMMA ActsAre ==
  ASSUME LifeInv, NEW c \in Callers, Acts(c)
  PROVE  /\ ApiStep(c) /\ (c = Main => ManagerWorks(c))
         /\ UNCHANGED <<phase, queue, orphans, starts>>
         /\ wasRunning' = {v \in wasRunning : state'[v] # "none"}
         /\ phase \notin Resting
         /\ phase = "restore" => c = Main
<1> USE DEF LifeInv, Acts, Handlers, lifeVars, Resting
<1>1. CASE Work(c)
  <2>1. ManagerStep(c) /\ UNCHANGED <<state, wasRunning>>
    BY <1>1 DEF Work, ManagerWorks, apiVars, rowVars
  <2>2. pc[c] # "idle" BY <2>1, ManagerFrame DEF ApiCore
  <2>3. phase = "restore" => c = Main
    BY <2>2 DEF MainInv, HandlerInv, PhaseInv, ApiCore, ReqInv, CallOK
  <2> QED
    BY <1>1, <2>1, <2>2, <2>3 DEF Work, ApiStep, PhaseInv, AtRest, LifeTypeOK
<1>2. CASE c # Main /\ Receive(c)
  <2>1. Arrival(c) BY <1>2 DEF Receive, Arrival
  <2>2. stage[c] = "none" /\ UNCHANGED state BY <2>1 DEF Arrival, Arrive, rowVars
  <2>3. Handler(c) BY <1>2, <2>2 DEF MainInv, HandlerInv, ApiCore, ReqInv, CallOK, Handler
  <2> QED BY <1>2, <2>1, <2>2, <2>3 DEF Receive, Accepting, ApiStep, LifeTypeOK
<1>3. CASE c # Main /\ Serve(c)
  <2>1. RequestStep(c) /\ stage[c] # "none" BY <1>3, Busy DEF Serve
  <2>2. Handler(c) BY <1>3, <2>1 DEF MainInv, HandlerInv, Handler
  <2> QED BY <1>3, <2>1, <2>2 DEF Serve, ApiStep, PhaseInv, AtRest
<1> QED BY <1>1, <1>2, <1>3

LEMMA MainStill ==
  ASSUME LifeInv, NEW c \in Handlers, Acts(c)
  PROVE  /\ stage'[Main] = stage[Main] /\ kind'[Main] = kind[Main] /\ target'[Main] = target[Main]
         /\ pc'[Main] = pc[Main] /\ op'[Main] = op[Main] /\ addr'[Main] = addr[Main]
<1> USE SandfireAssumption DEF LifeInv, Handlers, ApiCore
<1>1. CASE ManagerWorks(c)
  BY <1>1, ManagerFrame DEF ManagerWorks, apiVars, requestVars
<1>2. CASE RequestStep(c) \/ Arrival(c) BY <1>2, RequestFrame
<1> QED BY <1>1, <1>2, ActsAre DEF ApiStep

-----------------------------------------------------------------------------
(* What the handlers rely on holds throughout the life of the program. *)

(* Steps of Main outside the manager: it writes rows without making or       *)
(* dropping one, and names a VM only if it has a row and nobody creates it.  *)
LEMMA MainMoves ==
  ASSUME ApiCore, [Next]_vars, UNCHANGED <<processes, disk, created, kind>>,
         kind[Main] = "none",
         \A c \in Handlers : /\ stage'[c] = stage[c] /\ target'[c] = target[c]
                             /\ pc'[c] = pc[c] /\ op'[c] = op[c] /\ arg'[c] = arg[c],
         (KindOK(Main) /\ TargetOK(Main) /\ CallOK(Main))',
         stage' \in [Callers -> Stages], target' \in [Callers -> VMs \cup {NoVM}],
         state' \in [VMs -> {"none", "stopped", "running", "error"}],
         ip' \in [VMs -> IPs \cup {NoIP}], name' \in [VMs -> Names \cup {NoName}],
         newName' \in [Callers -> Names \cup {NoName}],
         \A v \in VMs : /\ state'[v] = "none" <=> state[v] = "none"
                        /\ ip'[v] # NoIP => state'[v] = "running",
         target'[Main] \in {NoVM, target[Main]} \/
            (state[target'[Main]] # "none" /\ \A c \in Callers : kind[c] # "create")
  PROVE  ApiCore' /\ Kept
<1> USE SandfireAssumption DEF ApiCore, Handlers
<1>1. Base' BY BaseStep
<1>2. Kept BY CoreStep
<1>3. ApiTypeOK' BY <1>1 DEF Base, ApiTypeOK
<1>4. ReqInv' BY DEF ReqInv, KindOK, TargetOK, CallOK, Call
<1>5. RowInv' BY DEF RowInv, Registered
<1>6. CreateInv'
  BY NoneAssumption DEF CreateInv, Registered, ApiTypeOK
<1>7. DeleteInv'
  <2>1. \A v \in VMs : Emptied(v)' <=> Emptied(v) BY DEF Emptied, Registered
  <2>2. ASSUME NEW c \in Callers, kind'[c] = "delete",
               stage'[c] = "drop" \/ (stage'[c] = "wait" /\ pc'[c] \in {"unlock", "ok"})
        PROVE  Emptied(target[c])'
    <3>1. target'[c] = target[c] /\ Emptied(target[c]) BY <2>2 DEF DeleteInv
    <3> QED BY <3>1 DEF Emptied, Registered
  <2>3. ASSUME NEW v \in created', state'[v] = "none"
        PROVE  \/ Emptied(v)'
               \/ ~ Registered(v)' /\ \A c \in Callers : target'[c] = v => stage'[c] = "read"
    <3>1. v \in VMs /\ v \in created /\ state[v] = "none" BY <2>3 DEF ApiTypeOK, TypeOK
    <3>2. CASE Emptied(v) BY <2>1, <3>1, <3>2
    <3>3. CASE ~ Registered(v) /\ \A c \in Callers : target[c] = v => stage[c] = "read"
      <4>1. target[Main] # v BY <3>3 DEF ReqInv, KindOK
      <4>2. target'[Main] # v BY <3>1, <4>1, NoneAssumption
      <4> QED BY <3>3, <4>2 DEF Registered
    <3> QED BY <3>1, <3>2, <3>3 DEF DeleteInv
  <2> QED BY <2>2, <2>3 DEF DeleteInv
<1> QED BY <1>1, <1>2, <1>3, <1>4, <1>5, <1>6, <1>7 DEF Kept

LEMMA RowWritten ==
  ASSUME ApiTypeOK, RowInv, NEW v \in VMs, NEW s \in {"stopped", "running", "error"},
         NEW i \in IPs \cup {NoIP}, i # NoIP => s = "running",
         UpdateVMState(v, s, i) \/ UNCHANGED rowVars
  PROVE  /\ state' \in [VMs -> {"none", "stopped", "running", "error"}]
         /\ ip' \in [VMs -> IPs \cup {NoIP}] /\ name' \in [VMs -> Names \cup {NoName}]
         /\ \A w \in VMs : /\ state'[w] = "none" <=> state[w] = "none"
                           /\ ip'[w] # NoIP => state'[w] = "running"
BY DEF ApiTypeOK, RowInv, UpdateVMState, rowVars

LEMMA RestoreStartCore ==
  ASSUME LifeInv, NEW v \in VMs, RestoreStart(v) PROVE ApiCore' /\ Kept
<1> USE SandfireAssumption
<1>1. phase = "restore" /\ v \in wasRunning BY DEF RestoreStart, RestoreNext, LifeInv, PhaseInv
<1>2. state[v] # "none" BY <1>1 DEF LifeInv, LifeTypeOK
<1>3. \A c \in Callers : kind[c] # "create"
  BY <1>1 DEF LifeInv, MainInv, PhaseInv, Handlers, ApiCore, ReqInv, KindOK
<1>4. [Next]_vars BY DEF RestoreStart, Next, CallStep
<1>5. /\ stage' = [stage EXCEPT ![Main] = "wait"] /\ target' = [target EXCEPT ![Main] = v]
      /\ pc' = [pc EXCEPT ![Main] = "enter"] /\ op' = [op EXCEPT ![Main] = "start"]
      /\ arg' = [arg EXCEPT ![Main] = v] /\ v \in created
      /\ UNCHANGED <<state, ip, name, kind, newName, processes, disk, created>>
  BY DEF RestoreStart, RestoreNext, Invoke, CallWith, Goto, rowVars, lockVars, diskVars
<1> QED
  BY <1>2, <1>3, <1>4, <1>5, NoneAssumption, MainMoves DEF LifeInv, ApiCore, MainInv, Handlers,
     ApiTypeOK, TypeOK, RowInv, KindOK, TargetOK, CallOK, Call
LEMMA MainStepsCore ==
  ASSUME LifeInv,
         \/ BootPrepare \/ RestoreRecord \/ RestoreClear
         \/ ShutdownStopAll \/ ShutdownList
         \/ \E v \in VMs : RestoreNoImage(v) \/ ShutdownClear(v)
  PROVE  ApiCore' /\ Kept
<1> USE SandfireAssumption, NoneAssumption
<1> USE DEF LifeInv, ApiCore, MainInv, Handlers, ApiTypeOK, TypeOK, KindOK, TargetOK, CallOK, Call,
  ReqInv
<1>1. CASE BootPrepare
  <2>1. UNCHANGED <<vars, state, name, requestVars>>
        /\ ip' \in [VMs -> IPs \cup {NoIP}]
        /\ \A v \in VMs : ip'[v] # NoIP => state[v] = "running"
    BY <1>1 DEF BootPrepare, RunningRows, RowInv
  <2>2. UNCHANGED <<processes, disk, created, stage, kind, target, newName, pc, op, arg>>
    BY <2>1 DEF vars, lockVars, diskVars, callVars, requestVars
  <2> QED BY <2>1, <2>2, MainMoves
<1>2. CASE \E v \in VMs : RestoreNoImage(v)
  <2>1. PICK v \in VMs : RestoreNoImage(v) BY <1>2
  <2>2. phase = "restore" /\ v \in wasRunning BY <2>1 DEF RestoreNoImage, RestoreNext, PhaseInv
  <2>3. state[v] # "none" /\ v \in created BY <2>2 DEF LifeTypeOK, RowInv
  <2>4. \A c \in Callers : kind[c] # "create" BY <2>2 DEF PhaseInv
  <2>5. /\ stage' = [stage EXCEPT ![Main] = "write"] /\ target' = [target EXCEPT ![Main] = v]
        /\ UNCHANGED <<vars, kind, newName>> /\ stage[Main] = "none"
        /\ UpdateVMState(v, "error", NoIP) \/ UNCHANGED rowVars
    BY <2>1 DEF RestoreNoImage, RestoreNext
  <2>6. UNCHANGED <<processes, disk, created, pc, op, arg>>
    BY <2>5 DEF vars, lockVars, diskVars, callVars
  <2>7. pc[Main] = "idle" BY <2>2, <2>5
  <2>8. /\ state' \in [VMs -> {"none", "stopped", "running", "error"}]
        /\ ip' \in [VMs -> IPs \cup {NoIP}] /\ name' \in [VMs -> Names \cup {NoName}]
        /\ \A w \in VMs : /\ state'[w] = "none" <=> state[w] = "none"
                          /\ ip'[w] # NoIP => state'[w] = "running"
    BY <2>5, RowWritten
  <2> QED BY <2>3, <2>4, <2>5, <2>6, <2>7, <2>8, MainMoves
<1>3. CASE RestoreRecord
  <2>1. phase = "restore" /\ stage[Main] = "wait" /\ target[Main] \in VMs
    BY <1>3 DEF RestoreRecord, PhaseInv, LifeTypeOK
  <2>2. /\ stage' = [stage EXCEPT ![Main] = "write"] /\ UNCHANGED <<kind, newName, target>>
        /\ pc' = [pc EXCEPT ![Main] = "idle"] /\ op' = [op EXCEPT ![Main] = "none"]
        /\ arg' = [arg EXCEPT ![Main] = NoVM] /\ UNCHANGED <<processes, disk, created>>
    BY <1>3 DEF RestoreRecord, Advance, Return, Goto, lockVars, diskVars
  <2>3. [Next]_vars BY <1>3 DEF RestoreRecord, Next, CallStep
  <2>4. \/ UpdateVMState(target[Main], "running", addr[Main])
        \/ UpdateVMState(target[Main], "error", NoIP)
        \/ UNCHANGED rowVars
    BY <1>3 DEF RestoreRecord
  <2>5. /\ state' \in [VMs -> {"none", "stopped", "running", "error"}]
        /\ ip' \in [VMs -> IPs \cup {NoIP}] /\ name' \in [VMs -> Names \cup {NoName}]
        /\ \A w \in VMs : /\ state'[w] = "none" <=> state[w] = "none"
                          /\ ip'[w] # NoIP => state'[w] = "running"
    BY <2>1, <2>4, RowWritten
  <2> QED BY <2>1, <2>2, <2>3, <2>5, MainMoves
<1>4. CASE RestoreClear
  <2>1. /\ stage' = [stage EXCEPT ![Main] = "none"] /\ target' = [target EXCEPT ![Main] = NoVM]
        /\ kind' = [kind EXCEPT ![Main] = "none"] /\ newName' = [newName EXCEPT ![Main] = NoName]
        /\ UNCHANGED <<vars, state, ip, name>> /\ stage[Main] = "write"
    BY <1>4 DEF RestoreClear, Answer, rowVars
  <2>2. UNCHANGED <<processes, disk, created, pc, op, arg>>
    BY <2>1 DEF vars, lockVars, diskVars, callVars
  <2>3. UNCHANGED kind /\ newName' \in [Callers -> Names \cup {NoName}] BY <2>1
  <2> QED BY <2>1, <2>2, <2>3, MainMoves DEF RowInv
<1>5. CASE ShutdownStopAll \/ ShutdownList
  <2>1. stage[Main] = "none" BY <1>5 DEF ShutdownStopAll, ShutdownList
  <2>2. UNCHANGED <<processes, disk, created, stage, kind, target, newName, state, ip, name>>
    BY <1>5 DEF ShutdownStopAll, ShutdownList, InvokeStopAll, Return, lockVars, diskVars, apiVars,
       rowVars, requestVars
  <2>3. /\ \A c \in Handlers : pc'[c] = pc[c] /\ op'[c] = op[c] /\ arg'[c] = arg[c]
        /\ pc'[Main] = "idle" \/ op'[Main] = "stopAll"
    BY <1>5 DEF ShutdownStopAll, ShutdownList, InvokeStopAll, Return, Goto
  <2>4. [Next]_vars BY <1>5 DEF ShutdownStopAll, ShutdownList, Next, CallStep
  <2> QED BY <2>1, <2>2, <2>3, <2>4, MainMoves DEF RowInv
<1>6. CASE \E v \in VMs : ShutdownClear(v)
  <2>1. PICK v \in VMs : ShutdownClear(v) BY <1>6
  <2>2. UNCHANGED <<vars, requestVars>> /\ (UpdateVMState(v, "stopped", NoIP) \/ UNCHANGED rowVars)
    BY <2>1 DEF ShutdownClear
  <2>3. UNCHANGED <<processes, disk, created, stage, kind, target, newName, pc, op, arg>>
    BY <2>2 DEF vars, lockVars, diskVars, callVars, requestVars
  <2>4. /\ state' \in [VMs -> {"none", "stopped", "running", "error"}]
        /\ ip' \in [VMs -> IPs \cup {NoIP}] /\ name' \in [VMs -> Names \cup {NoName}]
        /\ \A w \in VMs : /\ state'[w] = "none" <=> state[w] = "none"
                          /\ ip'[w] # NoIP => state'[w] = "running"
    BY <2>2, RowWritten
  <2> QED BY <2>2, <2>3, <2>4, MainMoves
<1> QED BY <1>1, <1>2, <1>3, <1>4, <1>5, <1>6

(* The end of the program, however it comes, leaves nothing of the manager   *)
(* that could disagree with the rows or the disks.                           *)
LEMMA MemoryLostCore ==
  ASSUME LifeInv, MemoryLost PROVE ApiCore' /\ AddressesAccounted' /\ AtRest'
<1> USE DEF LifeInv, ApiCore, MemoryLost
<1>1. Base'
  BY NoneAssumption DEF Base, TypeOK, ArgOK, LockInv, HeldPcs, WriterInv
<1>2. Core' /\ AddressesAccounted'
  BY DEF Core, StartInv, StopInv, AddressesDistinct, AddressesTaken, AddressesAccounted,
     LiveTracked, DiskInv, DiskBusyOwned, RegisteredHasDevices, LiveHasDisk, HasImage, Holding,
     Registered, Starting, Sweeping
<1>3. ApiTypeOK' BY <1>1, ApiAssumption DEF Base, ApiTypeOK, rowVars
<1>4. ReqInv' BY DEF ReqInv, KindOK, TargetOK, CallOK
<1>5. (RowInv /\ CreateInv /\ DeleteInv)'
  BY NoneAssumption DEF ApiTypeOK, TypeOK, RowInv, CreateInv, DeleteInv, Registered, rowVars
<1> QED BY <1>1, <1>2, <1>3, <1>4, <1>5 DEF AtRest

(* Cleaning up the host, and taking addresses for the table, disturb nothing *)
(* while no VM runs and no call is in progress.                              *)
LEMMA BootCleanupCore ==
  ASSUME LifeInv, BootCleanup \/ BootLoad PROVE ApiCore'
<1> USE DEF LifeInv, ApiCore
<1>1. AtRest BY DEF BootCleanup, BootLoad, PhaseInv, Resting
<1>2. /\ UNCHANGED <<processes, diskBusy, mu, natEnabled, live, disk, writer, created,
                     pc, op, arg, addr, todo, state, ip, name, stage, kind, target, newName>>
      /\ taps' \subseteq taps /\ jails' \subseteq jails
      /\ allocatedIPs' \subseteq IPs
  <2>1. CASE BootCleanup
    BY <2>1, <1>1 DEF BootCleanup, AtRest, lockVars, diskVars, callVars, apiVars, rowVars,
       requestVars
  <2>2. CASE BootLoad
    <3>1. {ip[v] : v \in VMs} \ {NoIP} \subseteq IPs BY DEF ApiTypeOK
    <3> QED
      BY <2>2, <3>1 DEF BootLoad, hostVars, diskVars, callVars, apiVars, rowVars, requestVars
  <2> QED BY <2>1, <2>2
<1>3. Base' BY <1>2 DEF Base, TypeOK, ArgOK, LockInv, WriterInv
<1>4. Core'
  BY <1>1, <1>2 DEF AtRest, Core, StartInv, StopInv, AddressesDistinct, AddressesTaken,
     LiveTracked, DiskInv, DiskBusyOwned, RegisteredHasDevices, LiveHasDisk, HasImage, Holding,
     Registered, Starting, Sweeping
<1>5. (ApiTypeOK /\ ReqInv /\ RowInv /\ CreateInv /\ DeleteInv)'
  BY <1>2, <1>3 DEF Base, ApiTypeOK, ReqInv, KindOK, TargetOK, CallOK, Call, RowInv, CreateInv,
     DeleteInv, Emptied, Registered
<1> QED BY <1>3, <1>4, <1>5
LEMMA LifeCoreStep ==
  ASSUME LifeInv, [LifeNext]_everything
  PROVE  ApiCore' /\ (AddressesAccounted /\ ~ BootLoad => AddressesAccounted')
<1> USE SandfireAssumption
<1>1. CASE \E c \in Callers : Acts(c)
  <2>1. \E c \in Callers : ApiStep(c) BY <1>1, ActsAre
  <2> QED BY <2>1, ApiCoreStep DEF LifeInv, Kept, AddressesKept
<1>2. CASE \/ BootPrepare \/ RestoreRecord \/ RestoreClear
           \/ ShutdownStopAll \/ ShutdownList
           \/ \E v \in VMs : RestoreNoImage(v) \/ ShutdownClear(v)
  BY <1>2, MainStepsCore DEF Kept, AddressesKept
<1>3. CASE \E v \in VMs : RestoreStart(v)
  BY <1>3, RestoreStartCore DEF Kept, AddressesKept
<1>4. CASE BootCleanup \/ BootLoad
  <2>1. BootCleanup /\ AddressesAccounted => AddressesAccounted'
    BY DEF BootCleanup, lockVars, callVars, AddressesAccounted, Holding, Registered, Sweeping,
       Starting
  <2> QED BY <1>4, <2>1, BootCleanupCore
<1>5. CASE ShutdownExit \/ Crash
  BY <1>5, MemoryLostCore DEF ShutdownExit, Crash
<1>6. CASE \/ BootEnd \/ ShutdownMark \/ ShutdownDrain \/ StartAgain
           \/ \E v \in VMs : OrphanExit(v)
           \/ UNCHANGED everything
  <2>1. UNCHANGED allVars
    BY <1>6 DEF BootEnd, ShutdownMark, ShutdownDrain, StartAgain, OrphanExit, everything, allVars
  <2> QED BY <2>1, ApiStutter DEF LifeInv, Kept, AddressesKept
<1>7. CASE \E v \in VMs : ProcessExit(v) /\ UNCHANGED <<apiVars, lifeVars>>
  BY <1>7, ExitStep DEF LifeInv, Kept, AddressesKept
<1> QED
  BY <1>1, <1>2, <1>3, <1>4, <1>5, <1>6, <1>7 DEF LifeNext, Boot, Shutdown, Acts, Handlers

LEMMA LifeTypeStep ==
  ASSUME LifeInv, ApiTypeOK', [LifeNext]_everything PROVE LifeTypeOK'
<1> USE SandfireAssumption DEF LifeInv, LifeTypeOK
<1>1. CASE \E c \in Callers : Acts(c)
  BY <1>1, ActsAre
<1>2. CASE Boot
  <2> USE DEF ApiCore, ApiTypeOK, TypeOK
  <2>1. CASE BootPrepare
    BY <2>1 DEF BootPrepare, RunningRows
  <2>2. CASE BootCleanup \/ BootLoad \/ BootEnd
    BY <2>2 DEF BootCleanup, BootLoad, BootEnd, apiVars, rowVars
  <2>3. CASE \E v \in VMs : RestoreStart(v) \/ RestoreNoImage(v)
    BY <2>3 DEF RestoreStart, RestoreNoImage, RestoreNext, UpdateVMState, rowVars
  <2>4. CASE RestoreRecord
    BY <2>4 DEF RestoreRecord, UpdateVMState, rowVars, lifeVars
  <2>5. CASE RestoreClear BY <2>5 DEF RestoreClear, rowVars
  <2> QED BY <1>2, <2>1, <2>2, <2>3, <2>4, <2>5 DEF Boot
<1>3. CASE Shutdown
  <2> USE DEF ApiCore, ApiTypeOK, TypeOK, RunningRows
  <2>1. CASE ShutdownMark BY <2>1 DEF ShutdownMark, apiVars, rowVars
  <2>2. CASE ShutdownStopAll \/ ShutdownList \/ ShutdownDrain
    BY <2>2 DEF ShutdownStopAll, ShutdownList, ShutdownDrain, apiVars, rowVars
  <2>3. CASE \E v \in VMs : ShutdownClear(v)
    BY <2>3 DEF ShutdownClear, UpdateVMState, rowVars
  <2>4. CASE ShutdownExit BY <2>4 DEF ShutdownExit, MemoryLost, rowVars
  <2> QED BY <1>3, <2>1, <2>2, <2>3, <2>4 DEF Shutdown
<1>4. CASE Crash BY <1>4 DEF Crash, MemoryLost, rowVars
<1>5. CASE StartAgain BY <1>5 DEF StartAgain, apiVars, rowVars
<1>6. CASE \E v \in VMs : OrphanExit(v) \/ (ProcessExit(v) /\ UNCHANGED <<apiVars, lifeVars>>)
  BY <1>6 DEF OrphanExit, apiVars, rowVars, lifeVars
<1>7. CASE UNCHANGED everything BY <1>7 DEF everything, apiVars, rowVars, lifeVars
<1> QED BY <1>1, <1>2, <1>3, <1>4, <1>5, <1>6, <1>7 DEF LifeNext, Acts, Handlers

LEMMA MainInvStep ==
  ASSUME LifeInv, [LifeNext]_everything PROVE MainInv'
<1> USE SandfireAssumption
<1>1. MainInv /\ ApiTypeOK /\ TypeOK BY DEF LifeInv, ApiCore, ApiTypeOK
<1>2. ASSUME NEW c \in Callers, Acts(c) PROVE MainInv'
  <2>1. ApiStep(c) /\ (c = Main => ManagerWorks(c)) /\ UNCHANGED phase BY <1>2, ActsAre
  <2>2. \A d \in Handlers : HandlerInv(d)'
    BY <1>1, <2>1, HandlerStep DEF MainInv, LifeInv, Handlers
  <2>3. /\ stage'[Main] = stage[Main] /\ kind'[Main] = kind[Main] /\ op'[Main] = op[Main]
    <3>1. CASE c = Main
      BY <2>1, <3>1, ManagerFrame DEF ManagerWorks, apiVars, requestVars, LifeInv, ApiCore
    <3>2. CASE c # Main BY <1>2, <3>2, MainStill DEF Handlers
    <3> QED BY <3>1, <3>2
  <2> QED BY <1>1, <2>1, <2>2, <2>3 DEF MainInv
<1> USE DEF MainInv, HandlerInv, Handlers, ApiTypeOK, TypeOK
<1>3. CASE BootPrepare \/ BootCleanup \/ BootLoad \/ BootEnd \/ RestoreClear
  BY <1>1, <1>3 DEF BootPrepare, BootCleanup, BootLoad, BootEnd, RestoreClear, Answer, vars,
     callVars, apiVars, requestVars
<1>4. CASE \E v \in VMs : RestoreStart(v) \/ RestoreNoImage(v)
  BY <1>1, <1>4 DEF RestoreStart, RestoreNoImage, RestoreNext, Invoke, CallWith, vars, callVars
<1>5. CASE RestoreRecord
  BY <1>1, <1>5 DEF RestoreRecord, Return, Advance, lifeVars
<1>6. CASE ShutdownMark \/ ShutdownDrain \/ StartAgain
           \/ \E v \in VMs : OrphanExit(v) \/ ShutdownClear(v)
  BY <1>1, <1>6 DEF ShutdownMark, ShutdownDrain, StartAgain, OrphanExit, ShutdownClear, vars,
     callVars, apiVars, requestVars, Ended
<1>7. CASE ShutdownStopAll \/ ShutdownList
  BY <1>1, <1>7 DEF ShutdownStopAll, ShutdownList, InvokeStopAll, Return, apiVars, requestVars
<1>8. CASE ShutdownExit \/ Crash BY <1>8 DEF ShutdownExit, Crash, MemoryLost
<1>9. CASE \E v \in VMs : ProcessExit(v) /\ UNCHANGED <<apiVars, lifeVars>>
  BY <1>1, <1>9 DEF ProcessExit, callVars, apiVars, requestVars, lifeVars
<1>10. CASE UNCHANGED everything
  BY <1>1, <1>10 DEF everything, vars, callVars, apiVars, requestVars, lifeVars
<1> QED
  BY <1>2, <1>3, <1>4, <1>5, <1>6, <1>7, <1>8, <1>9, <1>10
  DEF LifeNext, Boot, Shutdown, Acts

LEMMA PhaseInvStep ==
  ASSUME LifeInv, [LifeNext]_everything PROVE PhaseInv'
<1> USE SandfireAssumption
<1>0. [LifeNext]_everything OBVIOUS
<1>1. MainInv /\ PhaseInv /\ ApiTypeOK /\ TypeOK /\ LifeTypeOK BY DEF LifeInv, ApiCore, ApiTypeOK
<1>2. ASSUME NEW c \in Callers, Acts(c) PROVE PhaseInv'
  <2>1. /\ ApiStep(c) /\ (c = Main => ManagerWorks(c)) /\ UNCHANGED <<phase, queue>>
        /\ phase \notin Resting /\ (phase = "restore" => c = Main)
        /\ wasRunning' = {v \in wasRunning : state'[v] # "none"}
    BY <1>2, ActsAre
  <2>2. CASE phase = "restore"
    <3>1. UNCHANGED <<stage, target, state>>
      BY <2>1, <2>2 DEF ManagerWorks, apiVars, rowVars, requestVars
    <3> QED BY <1>1, <2>1, <2>2, <3>1 DEF PhaseInv, Resting, LifeTypeOK
  <2>3. CASE phase = "stopping"
    <3>1. op'[Main] = op[Main] /\ (pc[Main] # "idle" => pc'[Main] # "idle")
      <4>1. CASE c = Main
        BY <2>1, <4>1, ManagerFrame DEF ManagerWorks, LifeInv, ApiCore
      <4>2. CASE c # Main BY <1>2, <4>2, MainStill DEF Handlers
      <4> QED BY <4>1, <4>2
    <3> QED BY <1>1, <2>1, <2>3, <3>1 DEF PhaseInv, Resting
  <2> QED BY <2>1, <2>2, <2>3 DEF PhaseInv
<1>3. CASE ShutdownExit \/ Crash
  BY <1>3, MemoryLostCore DEF ShutdownExit, Crash, PhaseInv, Ended
<1>4. CASE StartAgain
  BY <1>1, <1>4 DEF StartAgain, Ended, PhaseInv, Resting, AtRest, vars, lockVars, hostVars,
     callVars, apiVars, requestVars
<1>5. CASE \E v \in VMs : OrphanExit(v) \/ (ProcessExit(v) /\ UNCHANGED <<apiVars, lifeVars>>)
  BY <1>1, <1>5 DEF OrphanExit, ProcessExit, PhaseInv, AtRest, vars, lockVars, hostVars,
     callVars, apiVars, requestVars, lifeVars
<1>6. CASE UNCHANGED everything
  BY <1>1, <1>6 DEF everything, PhaseInv, AtRest, vars, lockVars, hostVars, callVars, apiVars,
     requestVars, lifeVars
<1> USE DEF PhaseInv, Resting
<1>7. CASE BootPrepare \/ BootCleanup
  BY <1>1, <1>7 DEF BootPrepare, BootCleanup, AtRest, vars, lockVars, hostVars, callVars, apiVars,
     requestVars
<1>8. CASE BootLoad
  <2>1. \A c \in Callers : stage'[c] = "none" /\ target'[c] = NoVM
    BY <1>1, <1>8 DEF BootLoad, AtRest, apiVars, requestVars, LifeInv, ApiCore, ReqInv, TargetOK
  <2>2. phase' = "restore" /\ queue' \subseteq wasRunning' BY <1>8 DEF BootLoad
  <2>3. wasRunning' \subseteq VMs BY <1>1, <1>8 DEF BootLoad, LifeTypeOK
  <2> QED BY <2>1, <2>2, <2>3, NoneAssumption DEF Handlers
<1>9. CASE \E v \in VMs : RestoreStart(v) \/ RestoreNoImage(v)
  BY <1>1, <1>9 DEF RestoreStart, RestoreNoImage, RestoreNext, Handlers, ApiTypeOK
<1>10. CASE RestoreRecord
  BY <1>1, <1>10 DEF RestoreRecord, Advance, Handlers, ApiTypeOK, lifeVars
<1>11. CASE RestoreClear
  <2>1. target'[Main] = NoVM /\ stage'[Main] = "none" /\ queue \subseteq VMs
        /\ \A c \in Handlers : stage'[c] = stage[c]
    BY <1>1, <1>11 DEF RestoreClear, Answer, Handlers, ApiTypeOK, LifeTypeOK
  <2> QED BY <1>1, <1>11, <2>1, NoneAssumption DEF RestoreClear
<1>12. CASE BootEnd \/ ShutdownMark \/ ShutdownDrain \/ ShutdownList
            \/ \E v \in VMs : ShutdownClear(v)
  BY <1>12 DEF BootEnd, ShutdownMark, ShutdownDrain, ShutdownList, ShutdownClear
<1>13. CASE ShutdownStopAll
  BY <1>1, <1>13 DEF ShutdownStopAll, InvokeStopAll, Goto, TypeOK
<1> QED
  BY ONLY <1>0, <1>2, <1>3, <1>4, <1>5, <1>6, <1>7, <1>8, <1>9, <1>10, <1>11, <1>12, <1>13
  DEF LifeNext, Boot, Shutdown, Acts, Handlers

LEMMA LifeInvStep == LifeInv /\ [LifeNext]_everything => LifeInv'
<1> SUFFICES ASSUME LifeInv, [LifeNext]_everything PROVE LifeInv' OBVIOUS
<1>1. ApiCore' BY LifeCoreStep
<1>2. LifeTypeOK' BY <1>1, LifeTypeStep DEF ApiCore
<1>3. MainInv' BY MainInvStep
<1>4. PhaseInv' BY PhaseInvStep
<1> QED BY <1>1, <1>2, <1>3, <1>4 DEF LifeInv

LEMMA LifeInvInit == LifeInit => LifeInv /\ AddressesAccounted
<1> SUFFICES ASSUME LifeInit PROVE LifeInv /\ AddressesAccounted OBVIOUS
<1>1. ApiInv BY ApiInvInit DEF LifeInit
<1>2. ApiCore /\ AddressesAccounted BY <1>1 DEF ApiInv
<1>3. LifeTypeOK BY <1>2, SandfireAssumption DEF LifeInit, LifeTypeOK, ApiCore
<1>4. MainInv /\ PhaseInv
  BY SandfireAssumption
  DEF LifeInit, ApiInit, Init, MainInv, HandlerInv, Handlers, PhaseInv, AtRest
<1> QED BY <1>2, <1>3, <1>4 DEF LifeInv

LEMMA LifeInvCorrect == LifeSpec => []LifeInv
BY LifeInvInit, LifeInvStep, PTL DEF LifeSpec

-----------------------------------------------------------------------------
(* What holds in every run of the program *)

(* Every reachable state of the program is well typed; was_running is set    *)
(* only where there is a row.                                                *)
THEOREM LifeTypeCorrect == LifeSpec => []LifeTypeOK
BY LifeInvCorrect, PTL DEF LifeInv

(* A VM whose row is gone does not run, also after boots, crashes and        *)
(* shutdowns that cut a delete or a create short.                            *)
THEOREM DeletedVmNotRunningCorrect == LifeSpec => []DeletedVmNotRunning
<1>1. LifeInv => DeletedVmNotRunning BY DeletedFacts DEF LifeInv
<1> QED BY <1>1, LifeInvCorrect, PTL

(* Every live process is one the manager can stop, also after a restart: no  *)
(* address in a row and no leftover of a crash makes it lose track.          *)
THEOREM LiveTrackedInEveryRun == LifeSpec => []LiveTracked
BY LifeInvCorrect, PTL DEF LifeInv, ApiCore, Core

(* Two live guests never share an address, whatever addresses boot takes     *)
(* from the table.                                                           *)
THEOREM LiveAddressesDistinctInEveryRun == LifeSpec => []LiveAddressesDistinct
<1>1. LifeInv => LiveAddressesDistinct BY CoreLiveDistinct DEF LifeInv, ApiCore
<1> QED BY <1>1, LifeInvCorrect, PTL

(* A disk operation has its VM's disk to itself, also while boot restores    *)
(* VMs and while shutdown stops them.                                        *)
THEOREM DiskExclusiveInEveryRun == LifeSpec => []DiskExclusive
<1>1. LifeInv => DiskExclusive BY CoreDiskExclusive DEF LifeInv, ApiCore
<1> QED BY <1>1, LifeInvCorrect, PTL

-----------------------------------------------------------------------------
(* Processes that outlive the program *)

(* They are gone before anything is started. *)
OrphanInv == orphans # {} => phase \in {"prepare", "cleanup", "stopped", "crashed"}

LEMMA OrphanStep ==
  ASSUME OrphansFound, LifeInv, OrphanInv, [LifeNext]_everything PROVE OrphanInv'
<1> USE DEF OrphanInv
<1>1. CASE \E c \in Callers : Acts(c) BY <1>1, ActsAre
<1>2. CASE \/ BootPrepare \/ RestoreRecord \/ RestoreClear
           \/ \E v \in VMs : RestoreStart(v) \/ RestoreNoImage(v)
  BY <1>2 DEF BootPrepare, RestoreRecord, RestoreClear, RestoreStart, RestoreNoImage, RestoreNext,
     lifeVars
<1>3. CASE BootCleanup \/ BootLoad \/ BootEnd
  BY <1>3 DEF BootCleanup, BootLoad, BootEnd
<1>4. CASE ShutdownMark \/ ShutdownStopAll \/ ShutdownList \/ ShutdownDrain
           \/ \E v \in VMs : ShutdownClear(v)
  BY <1>4 DEF ShutdownMark, ShutdownStopAll, ShutdownList, ShutdownDrain, ShutdownClear
<1>5. CASE ShutdownExit \/ Crash \/ StartAgain \/ UNCHANGED everything
  BY <1>5 DEF ShutdownExit, Crash, StartAgain, Ended, everything, lifeVars
<1>6. CASE \E v \in VMs : OrphanExit(v) \/ (ProcessExit(v) /\ UNCHANGED <<apiVars, lifeVars>>)
  BY <1>6 DEF OrphanExit, lifeVars
<1> QED
  BY <1>1, <1>2, <1>3, <1>4, <1>5, <1>6 DEF LifeNext, Boot, Shutdown, Acts, Handlers

LEMMA OrphanCorrect == ASSUME OrphansFound PROVE LifeSpec => []OrphanInv
<1>1. LifeInit => OrphanInv BY DEF LifeInit, OrphanInv
<1>2. LifeInv /\ OrphanInv /\ [LifeNext]_everything => OrphanInv' BY OrphanStep
<1> QED BY <1>1, <1>2, LifeInvCorrect, PTL DEF LifeSpec

(* Where boot recognises the processes of the previous run, no two processes *)
(* ever run on the disk of one VM, however often the program crashes.        *)
THEOREM OneProcessPerDiskCorrect ==
  ASSUME OrphansFound PROVE LifeSpec => []OneProcessPerDisk
<1>1. LifeInv /\ OrphanInv => OneProcessPerDisk
  BY DEF LifeInv, LifeTypeOK, PhaseInv, Resting, AtRest, OrphanInv, OneProcessPerDisk
<1> QED BY <1>1, LifeInvCorrect, OrphanCorrect, PTL

-----------------------------------------------------------------------------
(* Graceful shutdown, when no request comes with the signal or after it *)

NoneRegistered == \A v \in VMs : ~ Registered(v)

QuietInv ==
    /\ phase \in {"marked", "stopping", "clearing", "draining"} =>
          \A c \in Handlers : stage[c] = "none"
    /\ phase = "stopping" /\ pc[Main] = "ok" => NoneRegistered
    /\ phase = "clearing" => NoneRegistered /\ RunningRows \subseteq queue
    /\ phase = "draining" => NoneRegistered /\ RunningRows = {}
    /\ phase = "stopped" => orphans = {} /\ RunningRows = {}

LEMMA QuietStep ==
  ASSUME QuietShutdown, "list" \notin DbFails, "clear" \notin DbFails,
         LifeInv, OrphansFound, OrphanInv, QuietInv, [LifeNext]_everything
  PROVE  QuietInv'
<1> USE SandfireAssumption
<1>0. [LifeNext]_everything OBVIOUS
<1>1. QuietInv /\ MainInv /\ PhaseInv /\ ApiCore /\ ApiTypeOK /\ TypeOK
  BY DEF LifeInv, ApiCore, ApiTypeOK
<1>2. ASSUME NEW c \in Callers, Acts(c) PROVE QuietInv'
  <2>1. /\ ApiStep(c) /\ (c = Main => ManagerWorks(c)) /\ UNCHANGED <<phase, queue, orphans>>
        /\ phase \notin Resting
    BY <1>2, ActsAre
  <2>2. CASE phase \notin {"marked", "stopping", "clearing", "draining"}
    BY <2>1, <2>2 DEF QuietInv, Resting
  <2>3. CASE phase \in {"marked", "stopping", "clearing", "draining"}
    <3>1. c = Main /\ ManagerStep(c) /\ UNCHANGED <<stage, state>>
      <4>1. c # Main => stage[c] = "none" /\ pc[c] = "idle"
        BY <1>1, <2>3 DEF QuietInv, MainInv, HandlerInv, Handlers, ApiCore, ReqInv, CallOK
      <4>2. ~ (c # Main /\ Receive(c)) BY <2>3 DEF Receive, Accepting
      <4>3. ~ (c # Main /\ Serve(c)) BY <4>1, Busy DEF Serve
      <4>4. Work(c) => ManagerStep(c) /\ UNCHANGED <<stage, state>>
        BY DEF Work, ManagerWorks, apiVars, rowVars, requestVars
      <4>5. Work(c) => pc[c] # "idle" BY <1>1, <4>4, ManagerFrame DEF ApiCore
      <4> QED BY <1>2, <4>1, <4>2, <4>3, <4>4, <4>5 DEF Acts, Handlers
    <3>2. pc[Main] # "idle" BY <1>1, <3>1, ManagerFrame DEF ApiCore
    <3>3. phase = "stopping" /\ op[Main] = "stopAll"
      BY <1>1, <2>3, <3>2 DEF MainInv, ApiCore, ReqInv, CallOK
    <3>4. pc'[Main] = "ok" => NoneRegistered'
      BY <1>1, <3>1, <3>3, ManagerRegisters DEF ApiCore, NoneRegistered, Registered
    <3> QED BY <1>1, <2>1, <3>1, <3>3, <3>4 DEF QuietInv
  <2> QED BY <2>2, <2>3
<1>3. CASE Boot
  BY <1>1, <1>3 DEF Boot, BootPrepare, BootCleanup, BootLoad, BootEnd, RestoreStart,
     RestoreNoImage, RestoreNext, RestoreRecord, RestoreClear, QuietInv, lifeVars
<1>4. CASE ShutdownMark \/ ShutdownStopAll
  BY <1>1, <1>4 DEF ShutdownMark, ShutdownStopAll, NoRequests, InvokeStopAll, Goto, QuietInv,
     apiVars, requestVars, Handlers, TypeOK
<1>5. CASE ShutdownList
  <2>1. NoneRegistered /\ UNCHANGED <<processes, stage, state>>
    BY <1>1, <1>5 DEF ShutdownList, Return, QuietInv, lockVars, apiVars, rowVars, requestVars
  <2> QED
    BY <1>1, <1>5, <2>1 DEF ShutdownList, QuietInv, NoneRegistered, Registered, RunningRows, Fails
<1>6. CASE \E v \in VMs : ShutdownClear(v)
  BY <1>1, <1>6 DEF ShutdownClear, UpdateVMState, QuietInv, NoneRegistered, Registered,
     RunningRows, Fails, vars, lockVars, requestVars, ApiTypeOK
<1>7. CASE ShutdownDrain
  BY <1>1, <1>7 DEF ShutdownDrain, QuietInv, NoneRegistered, Registered, RunningRows, vars,
     lockVars, apiVars, rowVars, requestVars
<1>8. CASE ShutdownExit
  <2>1. phase = "draining" /\ NoRequests /\ MemoryLost /\ phase' = "stopped"
    BY <1>8 DEF ShutdownExit
  <2>2. \A c \in Callers : pc[c] = "idle"
    BY <1>1, <2>1 DEF NoRequests, MainInv, HandlerInv, Handlers, ApiCore, ReqInv, CallOK
  <2>3. \A v \in VMs : live[v] = NoIP
    BY <1>1, <2>1, <2>2 DEF QuietInv, NoneRegistered, ApiCore, Core, LiveTracked, Holding, Starting
  <2>4. orphans = {} BY <2>1 DEF OrphanInv
  <2> QED
    BY <1>1, <2>1, <2>3, <2>4 DEF QuietInv, MemoryLost, RunningRows, rowVars
<1>9. CASE Crash \/ StartAgain BY <1>9 DEF Crash, StartAgain, QuietInv
<1>10. CASE \E v \in VMs : OrphanExit(v)
  BY <1>1, <1>10 DEF OrphanExit, QuietInv, NoneRegistered, Registered, RunningRows, vars,
     lockVars, callVars, apiVars, rowVars, requestVars
<1>11. CASE \E v \in VMs : ProcessExit(v) /\ UNCHANGED <<apiVars, lifeVars>>
  BY <1>1, <1>11 DEF ProcessExit, QuietInv, NoneRegistered, Registered, RunningRows,
     lockVars, callVars, apiVars, rowVars, requestVars, lifeVars
<1>12. CASE UNCHANGED everything
  BY <1>1, <1>12 DEF everything, QuietInv, NoneRegistered, Registered, RunningRows, vars,
     lockVars, callVars, apiVars, rowVars, requestVars, lifeVars
<1> QED
  BY ONLY <1>0, <1>2, <1>3, <1>4, <1>5, <1>6, <1>7, <1>8, <1>9, <1>10, <1>11, <1>12
  DEF LifeNext, Shutdown, Acts, Handlers

(* A graceful shutdown leaves no process, no row that says running and no    *)
(* address in a row, if no request comes with the signal or after it, boot   *)
(* recognises old processes and the statements that list and clear the rows  *)
(* succeed.                                                                  *)
THEOREM CleanShutdownCorrect ==
  ASSUME QuietShutdown, OrphansFound, "list" \notin DbFails, "clear" \notin DbFails
  PROVE  LifeSpec => []CleanShutdown
<1>1. LifeInit => QuietInv BY DEF LifeInit, QuietInv
<1>2. LifeInv /\ OrphanInv /\ QuietInv /\ [LifeNext]_everything => QuietInv' BY QuietStep
<1>3. LifeInv /\ QuietInv => CleanShutdown
  BY DEF LifeInv, ApiCore, RowInv, QuietInv, RunningRows, CleanShutdown
<1> QED BY <1>1, <1>2, <1>3, LifeInvCorrect, OrphanCorrect, PTL DEF LifeSpec
-----------------------------------------------------------------------------
(* Boot, when its statements succeed *)

Recorded(v) == (state[v] = "running" <=> Registered(v)) /\ ip[v] = processes[v]

(* Once its row is prepared, a VM has no address until it is started, and it *)
(* is marked, in the queue or in the hands of Main until its row is written. *)
BootInv ==
    /\ AddressesAccounted
    /\ phase \in {"cleanup", "load"} =>
          RunningRows \subseteq wasRunning /\ \A v \in VMs : ip[v] = NoIP
    /\ phase = "restore" =>
          /\ wasRunning \subseteq queue \cup {target[Main]}
          /\ \A v \in VMs \ (queue \cup {target[Main]}) : Recorded(v)
          /\ \A v \in queue : ~ Registered(v) /\ ip[v] = NoIP
          /\ stage[Main] = "write" => Recorded(target[Main])
          /\ stage[Main] = "wait" =>
                /\ ip[target[Main]] = NoIP
                /\ IF pc[Main] = "ok"
                   THEN addr[Main] # NoIP /\ processes[target[Main]] = addr[Main]
                   ELSE ~ Registered(target[Main])

LEMMA BootStep ==
  ASSUME "prepare" \notin DbFails, "load" \notin DbFails, "restored" \notin DbFails,
         LifeInv, BootInv, [LifeNext]_everything
  PROVE  BootInv'
<1> USE SandfireAssumption
<1>0. [LifeNext]_everything OBVIOUS
<1>1. /\ BootInv /\ MainInv /\ PhaseInv /\ LifeTypeOK
      /\ ApiCore /\ Base /\ RowInv /\ ReqInv /\ ApiTypeOK /\ TypeOK
  BY DEF LifeInv, ApiCore, ApiTypeOK
<1>2. ~ BootLoad => AddressesAccounted' BY <1>1, LifeCoreStep DEF BootInv
<1>3. ASSUME NEW c \in Callers, Acts(c) PROVE BootInv'
  <2>1. /\ UNCHANGED <<phase, queue>> /\ phase \notin Resting
        /\ phase = "restore" => c = Main /\ ManagerWorks(c)
        /\ wasRunning' = {v \in wasRunning : state'[v] # "none"}
    BY <1>3, ActsAre
  <2>2. ~ BootLoad BY <2>1 DEF BootLoad
  <2>3. CASE phase = "restore"
    <3>1. ManagerStep(Main) /\ UNCHANGED <<state, ip, stage, target>>
      BY <2>1, <2>3 DEF ManagerWorks, apiVars, rowVars, requestVars
    <3>2. stage[Main] = "wait" /\ op[Main] = "start" /\ arg[Main] = target[Main]
          /\ target[Main] \in created
      BY <1>1, <2>3, <3>1, CallsName DEF MainInv, Call
    <3>3. pc[Main] # "ok" BY <1>1, <3>1, ManagerFrame
    <3>4. ~ Registered(target[Main]) /\ target[Main] \in VMs
      BY <1>1, <2>3, <3>2, <3>3 DEF BootInv, TypeOK
    <3>5. \/ UNCHANGED processes /\ pc'[Main] # "ok"
          \/ /\ pc'[Main] = "ok" /\ UNCHANGED addr /\ pc[Main] = "configure"
             /\ processes' = [processes EXCEPT ![target[Main]] = addr[Main]]
      BY <1>1, <3>1, <3>2, ManagerRegisters
    <3>6. pc[Main] = "configure" => addr[Main] # NoIP
      BY <1>1, IPRangeAssumption DEF ApiCore, Core, StartInv, Starting, IPs, TypeOK
    <3>7. \A v \in VMs : v # target[Main] => processes'[v] = processes[v]
      BY <1>1, <3>5 DEF TypeOK
    <3>8. /\ ip[target[Main]] = NoIP
          /\ IF pc'[Main] = "ok"
             THEN addr'[Main] # NoIP /\ processes'[target[Main]] = addr'[Main]
             ELSE processes'[target[Main]] = NoIP
      BY <1>1, <2>3, <3>2, <3>4, <3>5, <3>6 DEF BootInv, Registered, TypeOK
    <3>9. target[Main] \notin queue /\ queue \subseteq VMs
      BY <1>1, <2>3 DEF PhaseInv, LifeTypeOK
    <3> QED
      BY <1>1, <1>2, <2>1, <2>2, <2>3, <3>1, <3>2, <3>7, <3>8, <3>9
      DEF BootInv, Recorded, Registered
  <2>4. CASE phase # "restore"
    BY <1>2, <2>1, <2>2, <2>4 DEF BootInv, Resting
  <2> QED BY <2>3, <2>4
<1>4. CASE BootPrepare
  BY <1>1, <1>2, <1>4 DEF BootPrepare, BootLoad, BootInv, Fails, RunningRows, RowInv
<1>5. CASE BootCleanup
  BY <1>1, <1>2, <1>5 DEF BootCleanup, BootLoad, BootInv, RunningRows, apiVars, rowVars
<1>6. CASE BootLoad
  <2>1. AtRest /\ phase = "load" /\ \A v \in VMs : ip[v] = NoIP
    BY <1>1, <1>6 DEF BootLoad, PhaseInv, Resting, BootInv
  <2>2. /\ UNCHANGED <<processes, pc, addr, todo, state, ip, stage, target, wasRunning>>
        /\ queue' = wasRunning /\ allocatedIPs' = {} /\ phase' = "restore"
    BY <1>6, <2>1 DEF BootLoad, callVars, apiVars, rowVars, requestVars, Fails
  <2>3. AddressesAccounted'
    BY <2>1, <2>2 DEF AtRest, AddressesAccounted, Holding, Registered, Starting, Sweeping
  <2>4. RunningRows \subseteq wasRunning BY <1>1, <2>1 DEF BootInv
  <2>5. stage'[Main] = "none" BY <2>1, <2>2 DEF AtRest
  <2>6. \A v \in VMs : ip'[v] = NoIP /\ processes'[v] = NoIP BY <2>1, <2>2 DEF AtRest
  <2>7. \A v \in VMs \ queue' : state'[v] # "running" BY <2>2, <2>4 DEF RunningRows
  <2>8. queue' \subseteq VMs BY <1>1, <2>2 DEF LifeTypeOK
  <2> QED
    BY <2>2, <2>3, <2>5, <2>6, <2>7, <2>8 DEF BootInv, Recorded, Registered
<1>7. CASE \E v \in VMs : RestoreStart(v) \/ RestoreNoImage(v)
  <2>1. PICK v \in VMs : RestoreStart(v) \/ RestoreNoImage(v) BY <1>7
  <2>2. /\ phase = "restore" /\ UNCHANGED phase /\ stage[Main] = "none" /\ v \in queue
        /\ queue' = queue \ {v} /\ UNCHANGED <<wasRunning, processes, addr>>
        /\ target'[Main] = v
    BY <1>1, <2>1 DEF RestoreStart, RestoreNoImage, RestoreNext, Invoke, CallWith, vars, lockVars,
       callVars, ApiTypeOK
  <2>3. target[Main] = NoVM BY <1>1, <2>2 DEF ReqInv, TargetOK
  <2>4. ~ Registered(v) /\ ip[v] = NoIP /\ state[v] # "none"
    BY <1>1, <2>2 DEF BootInv, PhaseInv, LifeTypeOK
  <2>5. \A w \in VMs : w # v => state'[w] = state[w] /\ ip'[w] = ip[w]
    BY <1>1, <2>1 DEF RestoreStart, RestoreNoImage, UpdateVMState, rowVars, ApiTypeOK
  <2>6. \/ stage'[Main] = "wait" /\ pc'[Main] = "enter" /\ UNCHANGED ip
        \/ stage'[Main] = "write" /\ state'[v] = "error" /\ ip'[v] = NoIP
    BY <1>1, <2>1, <2>4 DEF RestoreStart, RestoreNoImage, RestoreNext, Invoke, CallWith, Goto,
       UpdateVMState, Fails, rowVars, ApiTypeOK, TypeOK
  <2>7. queue \subseteq VMs BY <1>1 DEF LifeTypeOK
  <2>8. AddressesAccounted' BY <1>2, <2>2 DEF BootLoad
  <2>9. \A w \in VMs \ (queue \cup {target[Main]}) : w # v /\ Recorded(w)
    BY <1>1, <2>2 DEF BootInv
  <2>10. \A w \in VMs \ (queue' \cup {target'[Main]}) : Recorded(w)'
    BY <2>2, <2>3, <2>5, <2>9, NoneAssumption DEF Recorded, Registered
  <2>11. \A w \in queue' : ~ Registered(w)' /\ ip'[w] = NoIP
    BY <1>1, <2>2, <2>5, <2>7 DEF BootInv, Registered
  <2>12. wasRunning' \subseteq queue' \cup {target'[Main]}
    BY <1>1, <2>2, <2>3, NoneAssumption DEF BootInv, LifeTypeOK
  <2>13. stage'[Main] = "write" => state'[v] # "running" /\ ip'[v] = NoIP /\ processes'[v] = NoIP
    BY <2>2, <2>4, <2>6 DEF Registered
  <2>14. stage'[Main] = "wait" => ip'[v] = NoIP /\ pc'[Main] # "ok" /\ processes'[v] = NoIP
    BY <2>2, <2>4, <2>6 DEF Registered
  <2> QED
    BY <2>2, <2>8, <2>10, <2>11, <2>12, <2>13, <2>14 DEF BootInv, Recorded, Registered
<1>8. CASE RestoreRecord
  <2>1. /\ phase = "restore" /\ UNCHANGED <<phase, queue, wasRunning, processes, target>>
        /\ stage[Main] = "wait" /\ stage'[Main] = "write"
    BY <1>1, <1>8 DEF RestoreRecord, Return, Advance, lockVars, lifeVars, ApiTypeOK
  <2>2. /\ target[Main] \in wasRunning /\ target[Main] \notin queue /\ queue \subseteq VMs
        /\ target[Main] \in VMs /\ state[target[Main]] # "none"
    BY <1>1, <2>1 DEF PhaseInv, LifeTypeOK
  <2>3. Recorded(target[Main])'
    <3>1. processes[target[Main]] = IF pc[Main] = "ok" THEN addr[Main] ELSE NoIP
      BY <1>1, <2>1 DEF BootInv, Registered
    <3>2. pc[Main] = "ok" => addr[Main] # NoIP BY <1>1, <2>1 DEF BootInv
    <3>3. /\ state'[target[Main]] = IF pc[Main] = "ok" THEN "running" ELSE "error"
          /\ ip'[target[Main]] = IF pc[Main] = "ok" THEN addr[Main] ELSE NoIP
      BY <1>1, <1>8, <2>2 DEF RestoreRecord, UpdateVMState, Fails, ApiTypeOK
    <3> QED BY <2>1, <3>1, <3>2, <3>3 DEF Recorded, Registered
  <2>4. \A v \in VMs : v # target[Main] => state'[v] = state[v] /\ ip'[v] = ip[v]
    BY <1>1, <1>8 DEF RestoreRecord, UpdateVMState, rowVars, ApiTypeOK
  <2>5. AddressesAccounted' BY <1>2, <2>1 DEF BootLoad
  <2> QED
    BY <1>1, <2>1, <2>2, <2>3, <2>4, <2>5 DEF BootInv, Recorded, Registered
<1>9. CASE RestoreClear
  <2>1. /\ phase = "restore" /\ UNCHANGED <<vars, state, ip, phase, queue>>
        /\ stage[Main] = "write" /\ stage'[Main] = "none" /\ target'[Main] = NoVM
        /\ wasRunning' = wasRunning \ {target[Main]}
    BY <1>1, <1>9 DEF RestoreClear, Answer, Fails, rowVars, ApiTypeOK
  <2>2. UNCHANGED processes BY <2>1 DEF vars, lockVars
  <2>3. AddressesAccounted' BY <1>2, <2>1 DEF BootLoad
  <2> QED
    BY <1>1, <2>1, <2>2, <2>3, NoneAssumption DEF BootInv, Recorded, Registered
<1>10. CASE BootEnd \/ Shutdown \/ Crash \/ StartAgain
  <2>1. phase' \notin {"cleanup", "load", "restore"}
    BY <1>10 DEF BootEnd, Shutdown, ShutdownMark, ShutdownStopAll, ShutdownList, ShutdownClear,
       ShutdownDrain, ShutdownExit, Crash, StartAgain
  <2>2. ~ BootLoad BY <2>1 DEF BootLoad
  <2> QED BY <1>2, <2>1, <2>2 DEF BootInv
<1>11. CASE \/ \E v \in VMs : OrphanExit(v) \/ (ProcessExit(v) /\ UNCHANGED <<apiVars, lifeVars>>)
            \/ UNCHANGED everything
  <2>1. UNCHANGED <<processes, pc, addr, state, ip, stage, target, phase, queue, wasRunning>>
    BY <1>11 DEF OrphanExit, ProcessExit, everything, vars, lockVars, callVars, apiVars, rowVars,
       requestVars, lifeVars
  <2>2. AddressesAccounted' BY <1>2, <2>1 DEF BootLoad
  <2> QED BY <1>1, <2>1, <2>2 DEF BootInv, Recorded, Registered, RunningRows
<1> QED
  BY ONLY <1>0, <1>3, <1>4, <1>5, <1>6, <1>7, <1>8, <1>9, <1>10, <1>11
  DEF LifeNext, Boot, Acts, Handlers

(* Boot repairs whatever a crash at any step has left, if it recognises the  *)
(* processes of the previous run and its statements succeed.                 *)
THEOREM BootConsistentCorrect ==
  ASSUME OrphansFound, "prepare" \notin DbFails, "load" \notin DbFails, "restored" \notin DbFails
  PROVE  LifeSpec => []BootConsistent
<1>1. LifeInit => BootInv BY LifeInvInit DEF LifeInit, BootInv
<1>2. LifeInv /\ BootInv /\ [LifeNext]_everything => BootInv' BY BootStep
<1>3. ASSUME LifeInv, OrphanInv, BootInv PROVE BootConsistent
  <2> SUFFICES ASSUME phase = "restore", queue = {}, stage[Main] = "none"
               PROVE  /\ \A v \in VMs : Recorded(v)
                      /\ allocatedIPs = {processes[v] : v \in VMs} \ {NoIP}
                      /\ orphans = {} /\ wasRunning = {}
    BY DEF BootConsistent, Recorded
  <2> USE SandfireAssumption, NoneAssumption
  <2>1. ApiCore /\ MainInv /\ PhaseInv /\ LifeTypeOK /\ ReqInv /\ Base /\ TypeOK
    BY <1>3 DEF LifeInv, ApiCore, Base
  <2>2. target[Main] = NoVM /\ target[Main] \notin VMs BY <2>1 DEF ReqInv, TargetOK
  <2>3. \A v \in VMs : Recorded(v) BY <1>3, <2>2 DEF BootInv
  <2>4. wasRunning = {} BY <1>3, <2>1, <2>2 DEF BootInv, LifeTypeOK
  <2>5. orphans = {} BY <1>3 DEF OrphanInv
  <2>6. \A c \in Callers : pc[c] = "idle"
    BY <2>1 DEF MainInv, HandlerInv, Handlers, PhaseInv, ReqInv, CallOK
  <2>7. allocatedIPs = {processes[v] : v \in VMs} \ {NoIP}
    <3>1. \A a \in IPs :
            a \in allocatedIPs <=> \E v \in VMs : processes[v] # NoIP /\ processes[v] = a
      BY <1>3, <2>6 DEF BootInv, AddressesAccounted, Holding, Registered, Starting, Sweeping
    <3>2. 0 \notin IPs BY IPRangeAssumption DEF IPs
    <3> QED BY <2>1, <3>1, <3>2 DEF TypeOK
  <2> QED BY <2>3, <2>4, <2>5, <2>7
<1> QED BY <1>1, <1>2, <1>3, LifeInvCorrect, OrphanCorrect, PTL DEF LifeSpec
=============================================================================
