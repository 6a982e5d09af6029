-------------------------------- MODULE VmApi --------------------------------
(***************************************************************************)
(* The request handlers of internal/api over the vms table of internal/db  *)
(* and the VM manager.  A request reads its row, decides, calls the        *)
(* manager and writes the row back; every database statement is a step of  *)
(* its own, and nothing holds a VM between them.                           *)
(***************************************************************************)
EXTENDS VmManager

CONSTANTS
    Requests,     \* the handlers that clients call
    Names,        \* names that clients give to VMs
    NoName,
    DbFails,      \* the database statements that may fail
    Clients       \* when clients call a handler on a VM, see MayName

Kinds == {"create", "update", "delete", "reset", "inspect", "resize", "start", "stop"}

(* The statements of the handlers, and those of boot and shutdown. *)
HandlerStatements == {"read", "write", "started", "stopped", "drop"}
LifeStatements == {"prepare", "load", "restored", "mark", "list", "clear"}

ASSUME ApiAssumption ==
    /\ Requests \subseteq Kinds
    /\ NoName \notin Names
    /\ DbFails \subseteq HandlerStatements \cup LifeStatements
    /\ Clients \in {"serial", "patient"}

VARIABLES
    state,   \* column state of each row of vms, "none" if there is no such row
    ip,      \* column ip_address, NoIP for NULL
    name,    \* column name
    stage,   \* where each request is
    kind,    \* which handler serves it
    target,  \* the VM in its path, or the one it creates
    newName  \* the name in its body

rowVars == <<state, ip, name>>
requestVars == <<stage, kind, target, newName>>
apiVars == <<rowVars, requestVars>>

Stages == {"none", "read", "check", "act", "wait", "write", "drop", "undo", "undoing"}

ManagerOp == [k \in Kinds \ {"create", "update"} |-> IF k = "delete" THEN "cleanup" ELSE k]

ApiTypeOK ==
    /\ TypeOK
    /\ state \in [VMs -> {"none", "stopped", "running", "error"}]
    /\ ip \in [VMs -> IPs \cup {NoIP}]
    /\ name \in [VMs -> Names \cup {NoName}]
    /\ stage \in [Callers -> Stages]
    /\ kind \in [Callers -> Kinds \cup {"none"}]
    /\ target \in [Callers -> VMs \cup {NoVM}]
    /\ newName \in [Callers -> Names \cup {NoName}]

ApiInit ==
    /\ Init
    /\ state = [v \in VMs |-> "none"]
    /\ ip = [v \in VMs |-> NoIP]
    /\ name = [v \in VMs |-> NoName]
    /\ stage = [c \in Callers |-> "none"]
    /\ kind = [c \in Callers |-> "none"]
    /\ target = [c \in Callers |-> NoVM]
    /\ newName = [c \in Callers |-> NoName]

Fails(s) == s \in DbFails

-----------------------------------------------------------------------------
(* One request *)

(* The steps of a request between two stages, and its answer. *)
Advance(c, s) == stage' = [stage EXCEPT ![c] = s] /\ UNCHANGED <<kind, target, newName>>

Answer(c) ==
    /\ stage' = [stage EXCEPT ![c] = "none"]
    /\ kind' = [kind EXCEPT ![c] = "none"]
    /\ target' = [target EXCEPT ![c] = NoVM]
    /\ newName' = [newName EXCEPT ![c] = NoName]

(* Serial clients have one request on a VM at a time; patient ones wait only *)
(* for the answer to its create.                                             *)
Quiet(v) == \A c \in Callers : target[c] # v
BeingCreated(v) == \E c \in Callers : kind[c] = "create" /\ target[c] = v
MayName(v) ==
    /\ v \in created
    /\ ~ BeingCreated(v)
    /\ Clients = "serial" => Quiet(v)

Arrive(c, k, v, n) ==
    /\ stage[c] = "none"
    /\ IF k = "create" THEN v = NoVM ELSE MayName(v)
    /\ k \in {"create", "update"} <=> n # NoName
    /\ stage' = [stage EXCEPT ![c] = IF k = "create" THEN "check" ELSE "read"]
    /\ kind' = [kind EXCEPT ![c] = k]
    /\ target' = [target EXCEPT ![c] = v]
    /\ newName' = [newName EXCEPT ![c] = n]
    /\ UNCHANGED <<vars, rowVars>>

(* The state that GetVM must report for the handler to go on. *)
Acceptable(k, s) ==
    CASE k = "start" -> s \in {"stopped", "error"}
      [] k = "stop" -> s = "running"
      [] OTHER -> s = "stopped"

ReadAccepted(c) ==
    /\ stage[c] = "read"
    /\ Acceptable(kind[c], state[target[c]])
    /\ Advance(c, IF kind[c] # "update" THEN "act"
                   ELSE IF newName[c] = name[target[c]] THEN "write" ELSE "check")
    /\ UNCHANGED <<vars, rowVars>>

(* No such VM, the wrong state, a bad body, a missing image, a failed query. *)
ReadRejected(c) ==
    /\ stage[c] = "read"
    /\ \/ ~ Acceptable(kind[c], state[target[c]])
       \/ kind[c] \notin {"delete", "inspect", "stop"}
       \/ Fails("read")
    /\ Answer(c)
    /\ UNCHANGED <<vars, rowVars>>

(* GetVMByName of a create, and of an update that renames. *)
NameTaken(n) == \E v \in VMs : state[v] # "none" /\ name[v] = n

CheckName(c) ==
    /\ stage[c] = "check"
    /\ IF NameTaken(newName[c]) THEN Answer(c) ELSE Advance(c, "write")
    /\ UNCHANGED <<vars, rowVars>>

CheckNameFails(c) ==
    /\ stage[c] = "check"
    /\ Fails("read") \/ kind[c] = "create"  \* a create also looks up its image
    /\ Answer(c)
    /\ UNCHANGED <<vars, rowVars>>

-----------------------------------------------------------------------------
(* Create and update *)

Insert(c, v) ==
    /\ kind[c] = "create" /\ stage[c] = "write"
    /\ state' = [state EXCEPT ![v] = "stopped"]
    /\ name' = [name EXCEPT ![v] = newName[c]]
    /\ UNCHANGED ip
    /\ \/ /\ Create(c, v)
          /\ stage' = [stage EXCEPT ![c] = "wait"]
          /\ target' = [target EXCEPT ![c] = v]
          /\ UNCHANGED <<kind, newName>>
       \/ Fails("read") /\ CreateUnprepared(v) /\ Answer(c)

(* UpdateVM touches a stopped row only, and reports no error otherwise. *)
UpdateRow(c) ==
    /\ kind[c] = "update" /\ stage[c] = "write"
    /\ name' = IF state[target[c]] = "stopped"
               THEN [name EXCEPT ![target[c]] = newName[c]] ELSE name
    /\ Answer(c)
    /\ UNCHANGED <<vars, state, ip>>

(* The statement fails: for a create it does when the new id is not new. *)
WriteFails(c) ==
    /\ kind[c] \in {"create", "update"} /\ stage[c] = "write"
    /\ Fails("write") \/ kind[c] = "create"
    /\ Answer(c)
    /\ UNCHANGED <<vars, rowVars>>

-----------------------------------------------------------------------------
(* The calls of the manager *)

Act(c) ==
    /\ stage[c] = "act"
    /\ Invoke(c, ManagerOp[kind[c]], target[c])
    /\ Advance(c, "wait")
    /\ UNCHANGED rowVars

\* A slip: a delete goes on when CleanupVM has failed.
ManagerFailedIgnored(c) ==
    /\ stage[c] = "wait" /\ pc[c] = "err"
    /\ Return(c)
    /\ IF kind[c] \in {"create", "delete"} THEN Advance(c, "drop") ELSE Answer(c)
    /\ UNCHANGED rowVars

(* A manager error is answered; a failed create drops its row first. *)
ManagerFailed(c) ==
    /\ stage[c] = "wait" /\ pc[c] = "err"
    /\ Return(c)
    /\ IF kind[c] = "create" THEN Advance(c, "drop") ELSE Answer(c)
    /\ UNCHANGED rowVars

(* The disk operations and create only record the disk size afterwards. *)
ManagerDone(c) ==
    /\ stage[c] = "wait" /\ pc[c] = "ok"
    /\ kind[c] \notin {"start", "stop"}
    /\ Return(c)
    /\ IF kind[c] = "delete" THEN Advance(c, "drop") ELSE Answer(c)
    /\ UNCHANGED rowVars

(* UpdateVMState sets a row in any state, and no row if there is none. *)
UpdateVMState(v, s, i) ==
    /\ state' = IF state[v] = "none" THEN state ELSE [state EXCEPT ![v] = s]
    /\ ip' = IF state[v] = "none" THEN ip ELSE [ip EXCEPT ![v] = i]
    /\ UNCHANGED name

RecordStarted(c) ==
    /\ stage[c] = "wait" /\ kind[c] = "start" /\ pc[c] = "ok"
    /\ UpdateVMState(target[c], "running", addr[c])
    /\ Return(c) /\ Answer(c)

\* A slip: the VM is left running.
RecordStartedNotUndone(c) ==
    /\ stage[c] = "wait" /\ kind[c] = "start" /\ pc[c] = "ok" /\ Fails("started")
    /\ Return(c) /\ Answer(c)
    /\ UNCHANGED rowVars

RecordStartedFails(c) ==
    /\ stage[c] = "wait" /\ kind[c] = "start" /\ pc[c] = "ok" /\ Fails("started")
    /\ Return(c) /\ Advance(c, "undo")
    /\ UNCHANGED rowVars

(* The start handler takes its VM down again, ignoring what StopVM says. *)
Undo(c) ==
    /\ stage[c] = "undo"
    /\ Invoke(c, "stop", target[c])
    /\ Advance(c, "undoing")
    /\ UNCHANGED rowVars

Undone(c) ==
    /\ stage[c] = "undoing"
    /\ Return(c) /\ Answer(c)
    /\ UNCHANGED rowVars

\* A slip: the row is not written.
RecordStoppedNowhere(c) ==
    /\ stage[c] = "wait" /\ kind[c] = "stop" /\ pc[c] = "ok"
    /\ Return(c) /\ Answer(c)
    /\ UNCHANGED rowVars

RecordStopped(c) ==
    /\ stage[c] = "wait" /\ kind[c] = "stop" /\ pc[c] = "ok"
    /\ UpdateVMState(target[c], "stopped", NoIP) \/ (Fails("stopped") /\ UNCHANGED rowVars)
    /\ Return(c) /\ Answer(c)

(* DeleteVM removes a stopped row only. *)
DropRow(c) ==
    /\ stage[c] = "drop"
    /\ IF state[target[c]] = "stopped"
       THEN /\ state' = [state EXCEPT ![target[c]] = "none"]
            /\ ip' = [ip EXCEPT ![target[c]] = NoIP]
            /\ name' = [name EXCEPT ![target[c]] = NoName]
       ELSE UNCHANGED rowVars
    /\ Answer(c)
    /\ UNCHANGED vars

(* DeleteCertificate or the statement itself fails. *)
DropRowFails(c) ==
    /\ stage[c] = "drop"
    /\ Fails("drop") \/ kind[c] = "delete"
    /\ Answer(c)
    /\ UNCHANGED <<vars, rowVars>>

-----------------------------------------------------------------------------
RequestStep(c) ==
    \/ ReadAccepted(c) \/ ReadRejected(c) \/ CheckName(c) \/ CheckNameFails(c)
    \/ (\E v \in VMs : Insert(c, v)) \/ UpdateRow(c) \/ WriteFails(c)
    \/ Act(c) \/ ManagerFailed(c) \/ ManagerDone(c)
    \/ RecordStarted(c) \/ RecordStartedFails(c) \/ Undo(c) \/ Undone(c)
    \/ RecordStopped(c)
    \/ DropRow(c) \/ DropRowFails(c)

ManagerWorks(c) == ManagerStep(c) /\ UNCHANGED apiVars

ApiNext ==
    \/ \E c \in Callers, k \in Requests, v \in VMs \cup {NoVM}, n \in Names \cup {NoName} :
          Arrive(c, k, v, n)
    \/ \E c \in Callers : RequestStep(c) \/ ManagerWorks(c)
    \/ \E v \in VMs : ProcessExit(v) /\ UNCHANGED apiVars

allVars == <<vars, apiVars>>
ApiSpec == ApiInit /\ [][ApiNext]_allVars

-----------------------------------------------------------------------------
(* A VM whose row has been deleted does not run: "Delete VM (must be         *)
(* stopped)", API.md:99.  The handler checks the row, removes the disk under *)
(* the disk lock and only then drops the row; a start in between finds no    *)
(* disk.                                                                     *)
DeletedVmNotRunning ==
    \A v \in created : state[v] = "none" => ~ Registered(v) /\ live[v] = NoIP

(* The subdomain of a VM leads to that VM and to no other: "Web proxy to     *)
(* route different subdomains to each VM", README.md:25.  The proxy sends a  *)
(* request to the address in a running row; while no request on v is being   *)
(* served, that address is not the one of another guest.                     *)
SubdomainsReachOwnVm ==
    \A v, w \in VMs : v # w /\ Quiet(v) /\ state[v] = "running" => live[w] # ip[v] \/ ip[v] = NoIP

(* While no request on v is being served, v is registered with the manager   *)
(* only if its row says running, at that address: no failed database         *)
(* statement leaves a process that stop and delete would both refuse.        *)
RegisteredVmsRecorded ==
    \A v \in VMs : Quiet(v) /\ Registered(v) => state[v] = "running" /\ ip[v] = processes[v]

(* And a row that says running is true of the manager, unless the statement  *)
(* that records a stop has failed.                                           *)
RunningRowsTrue ==
    \A v \in VMs : Quiet(v) /\ state[v] = "running" => Registered(v)
=============================================================================
