------------------------------- MODULE Sandfire -------------------------------
(***************************************************************************)
(* The life of the sandfire program, cmd/sandfire/main.go, around its      *)
(* request handlers: boot with the clean-up after an unclean shutdown and  *)
(* the restoring of VMs, serving, graceful shutdown, and a crash at any    *)
(* step.  The table, the disks and what runs on the host outlive the       *)
(* program; everything else is lost.  Main is the goroutine that boots and *)
(* the one that shuts down; it calls the manager like any other.           *)
(***************************************************************************)
EXTENDS VmApi

CONSTANTS
    Main,          \* the caller that boots and shuts down
    OrphansFound,  \* whether the command line of a firecracker process names dataDir
    QuietShutdown, \* whether the signal comes when no request is in flight, and none comes later
    MaxStarts      \* bound on how often the program is started again

ASSUME SandfireAssumption ==
    /\ Main \in Callers
    /\ OrphansFound \in BOOLEAN /\ QuietShutdown \in BOOLEAN
    /\ MaxStarts \in Nat

VARIABLES
    phase,      \* where the program is
    wasRunning, \* rows whose column was_running is set
    queue,      \* VMs that the loop of boot or of shutdown has still to handle
    orphans,    \* VMs with a firecracker process that outlived the program
    starts      \* how often the program has been started again

lifeVars == <<phase, wasRunning, queue, orphans, starts>>
everything == <<vars, apiVars, lifeVars>>

Phases == {"prepare", "cleanup", "load", "restore", "serving",
           "marked", "stopping", "clearing", "draining", "stopped", "crashed"}
Handlers == Callers \ {Main}

RunningRows == {v \in VMs : state[v] = "running"}
Ended == phase \in {"stopped", "crashed"}

LifeTypeOK ==
    /\ ApiTypeOK
    /\ phase \in Phases
    /\ wasRunning \subseteq {v \in VMs : state[v] # "none"}
    /\ queue \subseteq VMs
    /\ orphans \subseteq VMs
    /\ starts \in 0 .. MaxStarts

LifeInit ==
    /\ ApiInit
    /\ phase = "prepare"
    /\ wasRunning = {} /\ queue = {} /\ orphans = {} /\ starts = 0

-----------------------------------------------------------------------------
(* Boot *)

\* A slip: the old addresses are kept.
BootPrepareKeepsIPs ==
    /\ phase = "prepare"
    /\ phase' = "cleanup"
    /\ wasRunning' = wasRunning \cup RunningRows
    /\ UNCHANGED <<vars, rowVars, requestVars, queue, orphans, starts>>

(* PrepareOrphanedVMsForRestart; when it fails boot goes on. *)
BootPrepare ==
    /\ phase = "prepare"
    /\ phase' = "cleanup"
    /\ \/ /\ wasRunning' = wasRunning \cup RunningRows
          /\ ip' = [v \in VMs |-> IF v \in RunningRows THEN NoIP ELSE ip[v]]
       \/ Fails("prepare") /\ UNCHANGED <<wasRunning, ip>>
    /\ UNCHANGED <<vars, state, name, requestVars, queue, orphans, starts>>

\* A slip: only devices and jails are cleaned up.
BootCleanupDevices ==
    /\ phase = "cleanup"
    /\ phase' = "load"
    /\ taps' \in SUBSET taps
    /\ jails' = {}
    /\ UNCHANGED <<lockVars, natEnabled, live, diskVars, created, callVars>>
    /\ UNCHANGED <<apiVars, wasRunning, queue, orphans, starts>>

(* CleanupOrphanedResources: a device may resist; jails are emptied. *)
BootCleanup ==
    /\ phase = "cleanup"
    /\ phase' = "load"
    /\ orphans' = IF OrphansFound THEN {} ELSE orphans
    /\ taps' \in SUBSET taps
    /\ jails' = {}
    /\ UNCHANGED <<lockVars, natEnabled, live, diskVars, created, callVars>>
    /\ UNCHANGED <<apiVars, wasRunning, queue, starts>>

(* GetAllocatedIPs after ClearAllocatedIPs, then GetVMsToRestart. *)
BootLoad ==
    /\ phase = "load"
    /\ phase' = "restore"
    /\ \/ allocatedIPs' = {ip[v] : v \in VMs} \ {NoIP}
       \/ Fails("load") /\ allocatedIPs' = {}
    /\ \/ queue' = wasRunning
       \/ Fails("load") /\ queue' = {}
    /\ UNCHANGED <<processes, diskBusy, mu, hostVars, diskVars, created, callVars>>
    /\ UNCHANGED <<apiVars, wasRunning, orphans, starts>>

\* A slip: was_running is cleared before the start.
RestoreNextUnmarked(s, v) ==
    /\ phase = "restore" /\ stage[Main] = "none" /\ v \in queue
    /\ queue' = queue \ {v}
    /\ wasRunning' = wasRunning \ {v}
    /\ stage' = [stage EXCEPT ![Main] = s]
    /\ target' = [target EXCEPT ![Main] = v]
    /\ UNCHANGED <<kind, newName, phase, orphans, starts>>

(* restoreRunningVMs, one VM at a time; its target is that VM. *)
RestoreNext(s, v) ==
    /\ phase = "restore" /\ stage[Main] = "none" /\ v \in queue
    /\ queue' = queue \ {v}
    /\ stage' = [stage EXCEPT ![Main] = s]
    /\ target' = [target EXCEPT ![Main] = v]
    /\ UNCHANGED <<kind, newName, phase, wasRunning, orphans, starts>>

RestoreStart(v) ==
    /\ RestoreNext("wait", v)
    /\ Invoke(Main, "start", v)
    /\ UNCHANGED rowVars

(* Its rootfs image is unknown, or cannot be read. *)
RestoreNoImage(v) ==
    /\ RestoreNext("write", v)
    /\ UpdateVMState(v, "error", NoIP) \/ (Fails("restored") /\ UNCHANGED rowVars)
    /\ UNCHANGED vars

(* The row is updated next; an error of the statement is ignored. *)
RestoreRecord ==
    /\ phase = "restore" /\ stage[Main] = "wait" /\ pc[Main] \in {"ok", "err"}
    /\ \/ IF pc[Main] = "ok" THEN UpdateVMState(target[Main], "running", addr[Main])
                             ELSE UpdateVMState(target[Main], "error", NoIP)
       \/ Fails("restored") /\ UNCHANGED rowVars
    /\ Return(Main)
    /\ Advance(Main, "write")
    /\ UNCHANGED lifeVars

RestoreClear ==
    /\ phase = "restore" /\ stage[Main] = "write"
    /\ \/ wasRunning' = wasRunning \ {target[Main]}
       \/ Fails("restored") /\ UNCHANGED wasRunning
    /\ Answer(Main)
    /\ UNCHANGED <<vars, rowVars, phase, queue, orphans, starts>>

BootEnd ==
    /\ phase = "restore" /\ queue = {} /\ stage[Main] = "none"
    /\ phase' = "serving"
    /\ UNCHANGED <<vars, apiVars, wasRunning, queue, orphans, starts>>

Boot ==
    \/ BootPrepare \/ BootCleanup \/ BootLoad \/ BootEnd
    \/ \E v \in VMs : RestoreStart(v) \/ RestoreNoImage(v)
    \/ RestoreRecord \/ RestoreClear

-----------------------------------------------------------------------------
(* Graceful shutdown; requests are accepted until the server's Shutdown *)

NoRequests == \A c \in Callers : stage[c] = "none"

(* MarkRunningVMsForRestart *)
ShutdownMark ==
    /\ phase = "serving"
    /\ QuietShutdown => NoRequests
    /\ phase' = "marked"
    /\ wasRunning' = wasRunning \cup RunningRows \/ (Fails("mark") /\ UNCHANGED wasRunning)
    /\ UNCHANGED <<vars, apiVars, queue, orphans, starts>>

ShutdownStopAll ==
    /\ phase = "marked"
    /\ phase' = "stopping"
    /\ InvokeStopAll(Main)
    /\ UNCHANGED <<apiVars, wasRunning, queue, orphans, starts>>

(* GetRunningVMs; its failure leaves nothing to update. *)
ShutdownList ==
    /\ phase = "stopping" /\ pc[Main] = "ok"
    /\ phase' = "clearing"
    /\ Return(Main)
    /\ queue' = RunningRows \/ (Fails("list") /\ queue' = {})
    /\ UNCHANGED <<apiVars, wasRunning, orphans, starts>>

\* A slip: the address is not cleared.
ShutdownClearState(v) ==
    /\ phase = "clearing" /\ v \in queue
    /\ queue' = queue \ {v}
    /\ state' = [state EXCEPT ![v] = "stopped"]
    /\ UNCHANGED <<vars, ip, name, requestVars, phase, wasRunning, orphans, starts>>

ShutdownClear(v) ==
    /\ phase = "clearing" /\ v \in queue
    /\ queue' = queue \ {v}
    /\ UpdateVMState(v, "stopped", NoIP) \/ (Fails("clear") /\ UNCHANGED rowVars)
    /\ UNCHANGED <<vars, requestVars, phase, wasRunning, orphans, starts>>

ShutdownDrain ==
    /\ phase = "clearing" /\ queue = {}
    /\ phase' = "draining"
    /\ UNCHANGED <<vars, apiVars, wasRunning, queue, orphans, starts>>

(* What the program keeps in memory is lost when it ends; copies in progress *)
(* end with it, and any firecracker process may survive it.                  *)
MemoryLost ==
    /\ processes' = [v \in VMs |-> NoIP] /\ diskBusy' = {} /\ mu' = NoCaller
    /\ allocatedIPs' = {} /\ natEnabled' = FALSE /\ todo' = {} /\ queue' = {}
    /\ pc' = [c \in Callers |-> "idle"] /\ op' = [c \in Callers |-> "none"]
    /\ arg' = [c \in Callers |-> NoVM] /\ addr' = [c \in Callers |-> NoIP]
    /\ stage' = [c \in Callers |-> "none"] /\ kind' = [c \in Callers |-> "none"]
    /\ target' = [c \in Callers |-> NoVM] /\ newName' = [c \in Callers |-> NoName]
    /\ writer' = [v \in VMs |-> NoCaller]
    /\ live' = [v \in VMs |-> NoIP]
    /\ orphans' \in SUBSET (orphans \cup {v \in VMs : live[v] # NoIP})
    /\ UNCHANGED <<taps, jails, disk, created, rowVars, wasRunning, starts>>

(* Shutdown waits for the requests in flight (longer than its 30 seconds is  *)
(* a crash of the model).                                                    *)
ShutdownExit ==
    /\ phase = "draining" /\ NoRequests
    /\ phase' = "stopped"
    /\ MemoryLost

Shutdown ==
    \/ ShutdownMark \/ ShutdownStopAll \/ ShutdownList
    \/ (\E v \in VMs : ShutdownClear(v)) \/ ShutdownDrain \/ ShutdownExit

-----------------------------------------------------------------------------
Crash ==
    /\ ~ Ended
    /\ phase' = "crashed"
    /\ MemoryLost

StartAgain ==
    /\ Ended /\ starts < MaxStarts
    /\ starts' = starts + 1
    /\ phase' = "prepare"
    /\ UNCHANGED <<vars, apiVars, wasRunning, queue, orphans>>

OrphanExit(v) ==
    /\ v \in orphans
    /\ orphans' = orphans \ {v}
    /\ UNCHANGED <<vars, apiVars, phase, wasRunning, queue, starts>>

-----------------------------------------------------------------------------
(* Serving: was_running is a column of the row that a delete drops. *)

Accepting ==
    phase = "serving" \/ (~ QuietShutdown /\ phase \in {"marked", "stopping", "clearing"})

Receive(c) ==
    /\ Accepting
    /\ \E k \in Requests, v \in VMs \cup {NoVM}, n \in Names \cup {NoName} : Arrive(c, k, v, n)
    /\ UNCHANGED lifeVars

\* A slip: was_running outlives the row.
ServeKeepsMark(c) == RequestStep(c) /\ UNCHANGED lifeVars

Serve(c) ==
    /\ RequestStep(c)
    /\ wasRunning' = {v \in wasRunning : state'[v] # "none"}
    /\ UNCHANGED <<phase, queue, orphans, starts>>

Work(c) == ManagerWorks(c) /\ UNCHANGED lifeVars

LifeNext ==
    \/ Boot \/ Shutdown \/ Crash \/ StartAgain
    \/ \E c \in Handlers : Receive(c) \/ Serve(c)
    \/ \E c \in Callers : Work(c)
    \/ \E v \in VMs : OrphanExit(v) \/ (ProcessExit(v) /\ UNCHANGED <<apiVars, lifeVars>>)

LifeSpec == LifeInit /\ [][LifeNext]_everything

(* Main goes on booting, the program is started again as long as the bound   *)
(* allows (Restart=on-failure in its unit), and every call takes its steps.  *)
LifeFairSpec ==
    /\ LifeSpec
    /\ WF_everything(Boot) /\ WF_everything(StartAgain)
    /\ \A c \in Callers : SF_everything(Work(c))

-----------------------------------------------------------------------------
(* Boot repairs whatever a crash at any step, or a race between requests,    *)
(* has left: once every VM to restart has been handled, the rows that say    *)
(* running are the registered VMs at their addresses, no address is taken by *)
(* anything else, no process of the previous run is left, and nothing waits  *)
(* for the next boot (main.go:92-121).                                       *)
BootConsistent ==
    phase = "restore" /\ queue = {} /\ stage[Main] = "none" =>
        /\ \A v \in VMs :
              /\ state[v] = "running" <=> Registered(v)
              /\ ip[v] = processes[v]
        /\ allocatedIPs = {processes[v] : v \in VMs} \ {NoIP}
        /\ orphans = {} /\ wasRunning = {}

(* Never do two firecracker processes run on the disk of one VM: a process   *)
(* that outlived the program is killed before its VM is started again.       *)
OneProcessPerDisk == \A v \in orphans : live[v] = NoIP

(* A graceful shutdown leaves nothing behind: no process, no row that says   *)
(* running, no address in a row.                                             *)
CleanShutdown ==
    phase = "stopped" => /\ orphans = {} /\ RunningRows = {}
                         /\ \A v \in VMs : ip[v] = NoIP

(* A VM that was running when the program ended is started again or put in   *)
(* state error by a later run, also when boot itself is cut short.           *)
Owed(v) == Ended /\ starts < MaxStarts /\ (state[v] = "running" \/ v \in wasRunning)
LastRunEnded == Ended /\ starts = MaxStarts
RunningVmsRestored ==
    \A v \in VMs : Owed(v) ~> (Registered(v) \/ state[v] = "error" \/ LastRunEnded)
=============================================================================
