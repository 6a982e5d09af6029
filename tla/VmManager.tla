------------------------------ MODULE VmManager ------------------------------
(***************************************************************************)
(* The VM manager of internal/vm with the network manager of               *)
(* internal/network it drives: the calls StartVM, StopVM, StopAllVMs,      *)
(* CleanupVM, InspectVMDisk, ResizeVMDisk, ResetVMDisk and PrepareVMDisk,  *)
(* made by concurrent goroutines (HTTP handlers, the shutdown goroutine).  *)
(*                                                                         *)
(* A goroutine is a caller with a program counter.  Manager.mu is held     *)
(* across every external command of StartVM, StopVM and StopAllVMs; the    *)
(* disk operations hold it only while they set and clear diskBusy, and     *)
(* PrepareVMDisk never takes it.  A step of the model ends where another   *)
(* goroutine, or the host, can see or change the state in between.         *)
(***************************************************************************)
EXTENDS Integers

CONSTANTS
    VMs,            \* VM ids that CreateVM may hand out
    Callers,        \* goroutines that call the manager
    NoVM, NoCaller, \* "no VM" and "no goroutine"
    IPRangeStart,   \* last octet of the first guest address
    IPRangeEnd      \* last octet of the last guest address

ASSUME IPRangeAssumption == IPRangeStart \in Nat \ {0} /\ IPRangeEnd \in Nat
ASSUME NoneAssumption == NoVM \notin VMs /\ NoCaller \notin Callers

IPs == IPRangeStart .. IPRangeEnd
NoIP == 0

VARIABLES
    processes,    \* Manager.processes: VM -> address of its registered process, NoIP if no entry
    diskBusy,     \* Manager.diskBusy
    mu,           \* Manager.mu: the goroutine that holds it
    allocatedIPs, \* network.Manager.allocatedIPs
    natEnabled,   \* network.Manager.natEnabled
    taps,         \* VMs whose TAP device exists on the host
    jails,        \* VMs whose jail directory, with its bind mounts, exists
    live,         \* VM -> address given to its live firecracker process, NoIP if none lives
    disk,         \* VM -> its rootfs image, "missing" if there is none, "absent" if its directory is gone
    writer,       \* VM -> goroutine whose cp is filling that image
    created,      \* VM ids that CreateVM has handed out
    pc, op, arg,  \* each goroutine: where it is, in which call, on which VM
    addr,         \* the local variable ipAddress of StartVM
    todo          \* VMs that the loop of StopAllVMs has still to visit

hostVars == <<natEnabled, taps, jails, live>>
diskVars == <<disk, writer>>
lockVars == <<processes, diskBusy, mu, allocatedIPs>>
callVars == <<pc, op, arg, addr, todo>>
vars == <<lockVars, hostVars, diskVars, created, callVars>>

DiskOps == {"cleanup", "inspect", "resize", "reset"}
VmOps == DiskOps \cup {"start", "stop"}
Ops == VmOps \cup {"prepare", "stopAll"}

StartPcs == {"tap", "nat", "jail", "socket", "configure"}  \* inside StartVM, mu held
StopPcs == {"kill", "release"}                             \* inside StopVM, mu held
DiskPcs == {"body", "copy", "copying", "unlock", "unlockErr"} \* disk busy, mu not held
Pcs == {"idle", "enter", "sweep", "mkdir", "fill", "ok", "err"} \cup StartPcs \cup StopPcs \cup DiskPcs

Registered(v) == processes[v] # NoIP
\* A slip: the bridge's own address is not left out.
FreeIPsFromBridge == (IPRangeStart - 1 .. IPRangeEnd) \ allocatedIPs
FreeIPs == IPs \ allocatedIPs
HasImage(v) == disk[v] \in {"partial", "ready"}

TypeOK ==
    /\ processes \in [VMs -> IPs \cup {NoIP}]
    /\ diskBusy \subseteq VMs
    /\ mu \in Callers \cup {NoCaller}
    /\ allocatedIPs \subseteq IPs
    /\ natEnabled \in BOOLEAN
    /\ taps \subseteq VMs
    /\ jails \subseteq VMs
    /\ live \in [VMs -> IPs \cup {NoIP}]
    /\ disk \in [VMs -> {"absent", "missing", "partial", "ready"}]
    /\ writer \in [VMs -> Callers \cup {NoCaller}]
    /\ created \subseteq VMs
    /\ pc \in [Callers -> Pcs]
    /\ op \in [Callers -> Ops \cup {"none"}]
    /\ arg \in [Callers -> VMs \cup {NoVM}]
    /\ addr \in [Callers -> IPs \cup {NoIP}]
    /\ todo \subseteq VMs

Init ==
    /\ processes = [v \in VMs |-> NoIP]
    /\ diskBusy = {}
    /\ mu = NoCaller
    /\ allocatedIPs = {}
    /\ natEnabled = FALSE
    /\ taps = {}
    /\ jails = {}
    /\ live = [v \in VMs |-> NoIP]
    /\ disk = [v \in VMs |-> "absent"]
    /\ writer = [v \in VMs |-> NoCaller]
    /\ created = {}
    /\ pc = [c \in Callers |-> "idle"]
    /\ op = [c \in Callers |-> "none"]
    /\ arg = [c \in Callers |-> NoVM]
    /\ addr = [c \in Callers |-> NoIP]
    /\ todo = {}

-----------------------------------------------------------------------------
(* Control flow of one goroutine *)

At(c, o, p) == op[c] = o /\ pc[c] = p
Goto(c, p) == pc' = [pc EXCEPT ![c] = p]

(* A call that takes mu, decides and returns again releases it in the same step. *)
Free == mu = NoCaller
Leave(c, p) == mu' = NoCaller /\ Goto(c, p)

-----------------------------------------------------------------------------
(* The host: devices, jails and processes *)

\* A slip: the address is not marked as taken.
AllocateIPUnmarked(ip) == (\A j \in FreeIPs : ip <= j) /\ UNCHANGED allocatedIPs

(* AllocateIP hands out the lowest address that is not taken. *)
AllocateIP(ip) ==
    /\ \A j \in FreeIPs : ip <= j
    /\ allocatedIPs' = allocatedIPs \cup {ip}

\* A slip: nothing is given back.
KeepIP(ip) == UNCHANGED allocatedIPs
ReleaseIP(ip) == allocatedIPs' = allocatedIPs \ {ip}

(* `ip link delete` may fail; every caller then only logs, or ignores it. *)
DeleteTap(v) == taps' \in {taps, taps \ {v}}

\* A slip: the process is forgotten rather than killed.
LeaveProcess(v) == UNCHANGED live

(* FirecrackerProcess.stop returns only once the process has exited. *)
KillProcess(v) == live' = [live EXCEPT ![v] = NoIP]

(* A guest that halts ends its firecracker process; nobody is told. *)
ProcessExit(v) ==
    /\ live[v] # NoIP
    /\ KillProcess(v)
    /\ UNCHANGED <<lockVars, natEnabled, taps, jails, diskVars, created, callVars>>

-----------------------------------------------------------------------------
(* Calling the manager.  Once CreateVM has made the row of v, its creator     *)
(* goes on to PrepareVMDisk, and any other goroutine may name v.             *)

CallWith(c, o, v) ==
    /\ pc[c] = "idle"
    /\ Goto(c, "enter")
    /\ op' = [op EXCEPT ![c] = o]
    /\ arg' = [arg EXCEPT ![c] = v]
    /\ UNCHANGED <<lockVars, hostVars, diskVars, addr, todo>>

Create(c, v) ==
    /\ v \notin created
    /\ created' = created \cup {v}
    /\ CallWith(c, "prepare", v)

Invoke(c, o, v) ==
    /\ v \in created
    /\ CallWith(c, o, v)
    /\ UNCHANGED created

(* CreateVM inserts the row and reads it back; when that read fails, nobody  *)
(* prepares the disk.                                                        *)
CreateUnprepared(v) ==
    /\ v \notin created
    /\ created' = created \cup {v}
    /\ UNCHANGED <<lockVars, hostVars, diskVars, callVars>>

InvokeStopAll(c) ==
    /\ pc[c] = "idle"
    /\ Goto(c, "enter")
    /\ op' = [op EXCEPT ![c] = "stopAll"]
    /\ UNCHANGED <<lockVars, hostVars, diskVars, created, arg, addr, todo>>

Return(c) ==
    /\ pc[c] \in {"ok", "err"}
    /\ Goto(c, "idle")
    /\ op' = [op EXCEPT ![c] = "none"]
    /\ arg' = [arg EXCEPT ![c] = NoVM]
    /\ addr' = [addr EXCEPT ![c] = NoIP]
    /\ UNCHANGED <<lockVars, hostVars, diskVars, created, todo>>

-----------------------------------------------------------------------------
(* StartVM *)

\* A slip: diskBusy is not consulted.
StartableWhileBusy(v) == ~ Registered(v)
\* A slip: processes is not consulted.
StartableTwice(v) == v \notin diskBusy
Startable(v) == ~ Registered(v) /\ v \notin diskBusy

StartRejected(c) ==
    /\ At(c, "start", "enter") /\ Free
    /\ ~ Startable(arg[c]) \/ FreeIPs = {}
    /\ Goto(c, "err")
    /\ UNCHANGED <<lockVars, hostVars, diskVars, created, op, arg, addr, todo>>

StartAllocate(c) ==
    /\ At(c, "start", "enter") /\ Free
    /\ Startable(arg[c])
    /\ \E ip \in FreeIPs : AllocateIP(ip) /\ addr' = [addr EXCEPT ![c] = ip]
    /\ mu' = c
    /\ Goto(c, "tap")
    /\ UNCHANGED <<processes, diskBusy, hostVars, diskVars, created, op, arg, todo>>

(* What every failure path of StartVM undoes. *)
AbandonStart(c) ==
    /\ DeleteTap(arg[c])
    /\ ReleaseIP(addr[c])
    /\ addr' = [addr EXCEPT ![c] = NoIP]
    /\ Leave(c, "err")
    /\ UNCHANGED <<processes, diskBusy, natEnabled, diskVars, created, op, arg, todo>>

(* CreateTap removes a device of that name first and deletes it on failure. *)
StartTap(c) ==
    /\ At(c, "start", "tap")
    /\ taps' = taps \cup {arg[c]}
    /\ Goto(c, "nat")
    /\ UNCHANGED <<lockVars, natEnabled, jails, live, diskVars, created, op, arg, addr, todo>>

StartTapFails(c) ==
    /\ At(c, "start", "tap")
    /\ AbandonStart(c)
    /\ UNCHANGED <<jails, live>>

StartNat(c) ==
    /\ At(c, "start", "nat")
    /\ natEnabled' = TRUE
    /\ Goto(c, "jail")
    /\ UNCHANGED <<lockVars, taps, jails, live, diskVars, created, op, arg, addr, todo>>

StartNatFails(c) ==
    /\ At(c, "start", "nat") /\ ~ natEnabled
    /\ AbandonStart(c)
    /\ UNCHANGED <<jails, live>>

(* startJailer: the bind mount of the rootfs needs an image file. *)
StartJail(c) ==
    /\ At(c, "start", "jail")
    /\ HasImage(arg[c])
    /\ jails' = jails \cup {arg[c]}
    /\ live' = [live EXCEPT ![arg[c]] = addr[c]]
    /\ Goto(c, "socket")
    /\ UNCHANGED <<lockVars, natEnabled, taps, diskVars, created, op, arg, addr, todo>>

StartJailFails(c) ==
    /\ At(c, "start", "jail")
    /\ jails' = jails \ {arg[c]}
    /\ AbandonStart(c)
    /\ UNCHANGED live

StartSocket(c) ==
    /\ At(c, "start", "socket")
    /\ live[arg[c]] # NoIP
    /\ Goto(c, "configure")
    /\ UNCHANGED <<lockVars, hostVars, diskVars, created, op, arg, addr, todo>>

\* A slip: the jailer is launched again, without limit.
StartSocketRetries(c) ==
    /\ At(c, "start", "socket")
    /\ KillProcess(arg[c])
    /\ jails' = jails \ {arg[c]}
    /\ Goto(c, "jail")
    /\ UNCHANGED <<lockVars, natEnabled, taps, diskVars, created, op, arg, addr, todo>>

StartSocketFails(c) ==
    /\ At(c, "start", "socket")
    /\ KillProcess(arg[c])
    /\ jails' = jails \ {arg[c]}
    /\ AbandonStart(c)

(* configureVM, configureMMDS and start succeed; the process is registered. *)
StartRegister(c) ==
    /\ At(c, "start", "configure")
    /\ live[arg[c]] # NoIP
    /\ processes' = [processes EXCEPT ![arg[c]] = addr[c]]
    /\ Leave(c, "ok")
    /\ UNCHANGED <<diskBusy, allocatedIPs, hostVars, diskVars, created, op, arg, addr, todo>>

(* One of the three fails: these paths do not call cleanupJailDir. *)
StartConfigureFails(c) ==
    /\ At(c, "start", "configure")
    /\ KillProcess(arg[c])
    /\ AbandonStart(c)
    /\ UNCHANGED jails

StartStep(c) ==
    \/ StartRejected(c) \/ StartAllocate(c)
    \/ StartTap(c) \/ StartTapFails(c)
    \/ StartNat(c) \/ StartNatFails(c)
    \/ StartJail(c) \/ StartJailFails(c)
    \/ StartSocket(c) \/ StartSocketFails(c)
    \/ StartRegister(c) \/ StartConfigureFails(c)

-----------------------------------------------------------------------------
(* StopVM and StopAllVMs *)

StopRejected(c) ==
    /\ At(c, "stop", "enter") /\ Free
    /\ ~ Registered(arg[c])
    /\ Goto(c, "err")
    /\ UNCHANGED <<lockVars, hostVars, diskVars, created, op, arg, addr, todo>>

StopBegin(c) ==
    /\ At(c, "stop", "enter") /\ Free
    /\ Registered(arg[c])
    /\ mu' = c
    /\ Goto(c, "kill")
    /\ UNCHANGED <<processes, diskBusy, allocatedIPs, hostVars, diskVars, created, op, arg, addr, todo>>

StopKill(c) ==
    /\ At(c, "stop", "kill")
    /\ KillProcess(arg[c])
    /\ Goto(c, "release")
    /\ UNCHANGED <<lockVars, natEnabled, taps, jails, diskVars, created, op, arg, addr, todo>>

StopRelease(c) ==
    /\ At(c, "stop", "release")
    /\ DeleteTap(arg[c])
    /\ ReleaseIP(processes[arg[c]])
    /\ jails' = jails \ {arg[c]}
    /\ processes' = [processes EXCEPT ![arg[c]] = NoIP]
    /\ Leave(c, "ok")
    /\ UNCHANGED <<diskBusy, natEnabled, live, diskVars, created, op, arg, addr, todo>>

StopAllBegin(c) ==
    /\ At(c, "stopAll", "enter") /\ Free
    /\ mu' = c
    /\ todo' = {v \in VMs : Registered(v)}
    /\ Goto(c, "sweep")
    /\ UNCHANGED <<processes, diskBusy, allocatedIPs, hostVars, diskVars, created, op, arg, addr>>

StopAllSweep(c, v) ==
    /\ At(c, "stopAll", "sweep")
    /\ v \in todo
    /\ todo' = todo \ {v}
    /\ KillProcess(v)
    /\ DeleteTap(v)
    /\ ReleaseIP(processes[v])
    /\ jails' = jails \ {v}
    /\ UNCHANGED <<processes, diskBusy, mu, natEnabled, diskVars, created, pc, op, arg, addr>>

StopAllEnd(c) ==
    /\ At(c, "stopAll", "sweep")
    /\ todo = {}
    /\ processes' = [v \in VMs |-> NoIP]
    /\ Leave(c, "ok")
    /\ UNCHANGED <<diskBusy, allocatedIPs, hostVars, diskVars, created, op, arg, addr, todo>>

StopStep(c) ==
    \/ StopRejected(c) \/ StopBegin(c) \/ StopKill(c) \/ StopRelease(c)
    \/ StopAllBegin(c) \/ (\E v \in VMs : StopAllSweep(c, v)) \/ StopAllEnd(c)

-----------------------------------------------------------------------------
(* The disk operations of a stopped VM, bracketed by lockDisk and unlock *)

\* A slip: processes is not consulted.
LockableWhileRunning(v) == v \notin diskBusy
Lockable(v) == ~ Registered(v) /\ v \notin diskBusy

LockRejected(c) ==
    /\ pc[c] = "enter" /\ op[c] \in DiskOps /\ Free
    /\ ~ Lockable(arg[c])
    /\ Goto(c, "err")
    /\ UNCHANGED <<lockVars, hostVars, diskVars, created, op, arg, addr, todo>>

LockDisk(c) ==
    /\ pc[c] = "enter" /\ op[c] \in DiskOps /\ Free
    /\ Lockable(arg[c])
    /\ diskBusy' = diskBusy \cup {arg[c]}
    /\ Goto(c, "body")
    /\ UNCHANGED <<processes, mu, allocatedIPs, hostVars, diskVars, created, op, arg, addr, todo>>

\* A slip: unlock is not deferred but called on success.
UnlockDiskOnSuccess(c) ==
    /\ pc[c] \in {"unlock", "unlockErr"} /\ Free
    /\ diskBusy' = IF pc[c] = "unlock" THEN diskBusy \ {arg[c]} ELSE diskBusy
    /\ Goto(c, IF pc[c] = "unlock" THEN "ok" ELSE "err")
    /\ UNCHANGED <<processes, mu, allocatedIPs, hostVars, diskVars, created, op, arg, addr, todo>>

\* A slip: the whole map is reset.
UnlockAllDisks(c) ==
    /\ pc[c] \in {"unlock", "unlockErr"} /\ Free
    /\ diskBusy' = {}
    /\ Goto(c, IF pc[c] = "unlock" THEN "ok" ELSE "err")
    /\ UNCHANGED <<processes, mu, allocatedIPs, hostVars, diskVars, created, op, arg, addr, todo>>

UnlockDisk(c) ==
    /\ pc[c] \in {"unlock", "unlockErr"} /\ Free
    /\ diskBusy' = diskBusy \ {arg[c]}
    /\ Goto(c, IF pc[c] = "unlock" THEN "ok" ELSE "err")
    /\ UNCHANGED <<processes, mu, allocatedIPs, hostVars, diskVars, created, op, arg, addr, todo>>

SetDisk(v, d, w) ==
    /\ disk' = [disk EXCEPT ![v] = d]
    /\ writer' = [writer EXCEPT ![v] = w]

(* The exit of a disk operation that leaves the image as it is. *)
DiskOpEnds(c, p) ==
    /\ Goto(c, p)
    /\ UNCHANGED <<lockVars, hostVars, created, op, arg, addr, todo>>

(* CleanupVM: RemoveAll may fail before or after it has removed the image;   *)
(* where there is nothing it does not fail.                                  *)
CleanupBody(c) ==
    /\ At(c, "cleanup", "body")
    /\ \/ SetDisk(arg[c], "absent", NoCaller) /\ DiskOpEnds(c, "unlock")
       \/ HasImage(arg[c]) /\ SetDisk(arg[c], "missing", NoCaller) /\ DiskOpEnds(c, "unlockErr")
       \/ disk[arg[c]] # "absent" /\ UNCHANGED diskVars /\ DiskOpEnds(c, "unlockErr")

(* InspectExt4 and ResizeExt4 fail on a missing image and may fail on any. *)
Ext4Body(c) ==
    /\ pc[c] = "body" /\ op[c] \in {"inspect", "resize"}
    /\ \/ HasImage(arg[c]) /\ DiskOpEnds(c, "unlock")
       \/ DiskOpEnds(c, "unlockErr")
    /\ UNCHANGED diskVars

(* An image that is not there needs no removing. *)
ResetRemove(c) ==
    /\ At(c, "reset", "body")
    /\ \/ HasImage(arg[c]) /\ SetDisk(arg[c], "missing", NoCaller) /\ DiskOpEnds(c, "copy")
       \/ ~ HasImage(arg[c]) /\ UNCHANGED diskVars /\ DiskOpEnds(c, "copy")
       \/ UNCHANGED diskVars /\ DiskOpEnds(c, "unlockErr")

(* cp creates the image, or fails before it does. *)
ResetCopy(c) ==
    /\ At(c, "reset", "copy")
    /\ \/ disk[arg[c]] # "absent" /\ SetDisk(arg[c], "partial", c) /\ DiskOpEnds(c, "copying")
       \/ UNCHANGED diskVars /\ DiskOpEnds(c, "unlockErr")

(* cp ends: the old size is then restored by ResizeExt4, which may fail.  A  *)
(* PrepareVMDisk that overwrites the same file meanwhile decides what is in  *)
(* it.                                                                       *)
ResetFinish(c) ==
    /\ At(c, "reset", "copying")
    /\ IF writer[arg[c]] = c
       THEN \/ SetDisk(arg[c], "ready", NoCaller)
               /\ (DiskOpEnds(c, "unlock") \/ DiskOpEnds(c, "unlockErr"))
            \/ SetDisk(arg[c], "partial", NoCaller) /\ DiskOpEnds(c, "unlockErr")
       ELSE UNCHANGED diskVars /\ (DiskOpEnds(c, "unlock") \/ DiskOpEnds(c, "unlockErr"))

DiskStep(c) ==
    \/ LockRejected(c) \/ LockDisk(c) \/ UnlockDisk(c)
    \/ CleanupBody(c) \/ Ext4Body(c)
    \/ ResetRemove(c) \/ ResetCopy(c) \/ ResetFinish(c)

-----------------------------------------------------------------------------
(* PrepareVMDisk: no lock is taken *)

PrepareDir(c) ==
    /\ At(c, "prepare", "enter")
    /\ \/ disk[arg[c]] = "absent" /\ SetDisk(arg[c], "missing", NoCaller) /\ DiskOpEnds(c, "mkdir")
       \/ disk[arg[c]] # "absent" /\ UNCHANGED diskVars /\ DiskOpEnds(c, "mkdir")
       \/ UNCHANGED diskVars /\ DiskOpEnds(c, "err")

PrepareCopy(c) ==
    /\ At(c, "prepare", "mkdir")
    /\ \/ disk[arg[c]] # "absent" /\ SetDisk(arg[c], "partial", c) /\ DiskOpEnds(c, "fill")
       \/ UNCHANGED diskVars /\ DiskOpEnds(c, "err")

(* cp fails and leaves a partial image, or ends.  If the image was removed   *)
(* meanwhile chmod fails; if another cp has replaced it, that one goes on.   *)
PrepareFinish(c) ==
    /\ At(c, "prepare", "fill")
    /\ IF writer[arg[c]] = c
       THEN \/ SetDisk(arg[c], "ready", NoCaller) /\ DiskOpEnds(c, "ok")
            \/ SetDisk(arg[c], "partial", NoCaller) /\ DiskOpEnds(c, "err")
       ELSE /\ UNCHANGED diskVars
            /\ DiskOpEnds(c, "err") \/ (HasImage(arg[c]) /\ DiskOpEnds(c, "ok"))

PrepareStep(c) == PrepareDir(c) \/ PrepareCopy(c) \/ PrepareFinish(c)

-----------------------------------------------------------------------------
ManagerStep(c) == StartStep(c) \/ StopStep(c) \/ DiskStep(c) \/ PrepareStep(c)

CallStep(c) ==
    \/ \E v \in VMs : Create(c, v) \/ (\E o \in VmOps : Invoke(c, o, v))
    \/ InvokeStopAll(c)
    \/ Return(c)

Next ==
    \/ \E c \in Callers : ManagerStep(c) \/ CallStep(c)
    \/ \E v \in VMs : ProcessExit(v) \/ CreateUnprepared(v)

Spec == Init /\ [][Next]_vars

(* Every step of a call is taken in the end: external commands end (the      *)
(* socket wait and the kill have time limits), and sync.Mutex does not let   *)
(* a waiter starve.                                                          *)
FairSpec == Spec /\ \A c \in Callers : SF_vars(ManagerStep(c))

-----------------------------------------------------------------------------
(* Properties *)

Starting(c) == pc[c] \in StartPcs
Sweeping == \E c \in Callers : pc[c] = "sweep"

(* The entry of v in processes still stands for resources: StopAllVMs drops  *)
(* all the entries only once it has visited each of them.                    *)
Holding(v) == Registered(v) /\ (Sweeping => v \in todo)

(* No failure path of StartVM and no way of stopping leaks an address or     *)
(* frees one that is in use: the addresses taken are those of the registered *)
(* VMs and of the start in progress (manager.go:258-432, nat.go:38-57).      *)
AddressesAccounted ==
    \A ip \in IPs : ip \in allocatedIPs <=>
        \/ \E v \in VMs : Holding(v) /\ processes[v] = ip
        \/ \E c \in Callers : Starting(c) /\ addr[c] = ip

(* Every live firecracker process is one the manager can still stop: it is   *)
(* registered with its address, or belongs to the start in progress; no path *)
(* through StartVM, StopVM or StopAllVMs loses one.                          *)
LiveTracked ==
    \A v \in VMs : live[v] # NoIP =>
        \/ Holding(v) /\ processes[v] = live[v]
        \/ \E c \in Callers : Starting(c) /\ arg[c] = v /\ addr[c] = live[v]

(* Two live guests never share an address, and a live guest's address is     *)
(* never free for the next start: stop kills before it releases.             *)
LiveAddressesDistinct ==
    \A v \in VMs : live[v] # NoIP =>
        /\ live[v] \in allocatedIPs
        /\ \A w \in VMs \ {v} : live[w] # live[v]

(* While CleanupVM, InspectVMDisk, ResizeVMDisk or ResetVMDisk has the disk  *)
(* of v, no other such call has it, v is not registered, nobody is starting  *)
(* it and no process runs on it (manager.go:456-475).                        *)
DiskExclusive ==
    \A c \in Callers : pc[c] \in DiskPcs =>
        /\ arg[c] \in diskBusy
        /\ ~ Registered(arg[c]) /\ live[arg[c]] = NoIP
        /\ \A d \in Callers \ {c} :
              pc[d] \in DiskPcs \cup StartPcs => arg[d] # arg[c]

(* A disk marked busy is being worked on: no error path forgets the mark,    *)
(* after which the VM could never be started or deleted again.               *)
DiskBusyOwned ==
    \A v \in diskBusy : \E c \in Callers : pc[c] \in DiskPcs /\ arg[c] = v

(* A registered VM has its TAP device and its jail until it is stopped, even *)
(* when its guest has halted by itself.                                      *)
RegisteredHasDevices ==
    \A v \in VMs : Holding(v) => v \in taps /\ v \in jails

(* The image under a running guest is never removed: CleanupVM and           *)
(* ResetVMDisk keep off it and startJailer needs it.                         *)
LiveHasDisk == \A v \in VMs : live[v] # NoIP => HasImage(v)

(* What its callers see of the manager, one atomic step per call: VmPool. *)
Pool == INSTANCE VmPool WITH running <- processes, busy <- diskBusy
PoolSpec == Pool!Spec

(* Every call of the manager returns. *)
CallsReturn == \A c \in Callers : pc[c] = "enter" ~> pc[c] \in {"ok", "err"}

(* No VM stays locked out of starting by a disk operation. *)
DiskBusyCleared == \A v \in VMs : v \in diskBusy ~> v \notin diskBusy
=============================================================================
