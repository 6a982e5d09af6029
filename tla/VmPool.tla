------------------------------- MODULE VmPool -------------------------------
(***************************************************************************)
(* What the VM manager promises its callers, each call one atomic step: a  *)
(* set of running VMs with pairwise distinct guest addresses, and a set of *)
(* stopped VMs whose disk one operation has to itself.                     *)
(***************************************************************************)
EXTENDS Integers

CONSTANTS VMs, IPs, NoIP

VARIABLES
    running, \* VM -> its guest address, NoIP if it is not running
    busy     \* VMs whose disk an operation is using

TypeOK ==
    /\ running \in [VMs -> IPs \cup {NoIP}]
    /\ busy \subseteq VMs

Init ==
    /\ running = [v \in VMs |-> NoIP]
    /\ busy = {}

Stopped(v) == running[v] = NoIP

Start(v, ip) ==
    /\ Stopped(v) /\ v \notin busy
    /\ \A w \in VMs : running[w] # ip
    /\ running' = [running EXCEPT ![v] = ip]
    /\ UNCHANGED busy

Stop(v) ==
    /\ ~ Stopped(v)
    /\ running' = [running EXCEPT ![v] = NoIP]
    /\ UNCHANGED busy

StopAll ==
    /\ running' = [v \in VMs |-> NoIP]
    /\ UNCHANGED busy

UseDisk(v) ==
    /\ Stopped(v) /\ v \notin busy
    /\ busy' = busy \cup {v}
    /\ UNCHANGED running

LeaveDisk(v) ==
    /\ v \in busy
    /\ busy' = busy \ {v}
    /\ UNCHANGED running

Next ==
    \/ \E v \in VMs, ip \in IPs : Start(v, ip)
    \/ \E v \in VMs : Stop(v) \/ UseDisk(v) \/ LeaveDisk(v)
    \/ StopAll

Spec == Init /\ [][Next]_<<running, busy>>
=============================================================================
