-------------------------------- MODULE Certs --------------------------------
(***************************************************************************)
(* The certificate manager (internal/certs/manager.go) and the request of  *)
(* the web server that calls it (internal/api/proxy.go,                    *)
(* handleCaddyGetCertificate).  The mutex is held only while a request     *)
(* decides what to do: a certificate is issued outside it, one call per    *)
(* VM, and the requests that come in the meantime wait on the channel of   *)
(* the one that issues.  Each request has a context, which ends when its   *)
(* client goes away.  The certificate files, the account key and the       *)
(* records at the DNS provider outlive the program.                        *)
(***************************************************************************)
EXTENDS Naturals, FiniteSets

CONSTANTS
    Callers,   \* goroutines that serve get-certificate
    VMs,
    NoCaller,
    Faults     \* which rare failures happen: "lost answer", "delete", "short write"

ASSUME CertsAssumption ==
    /\ NoCaller \notin Callers
    /\ "closed" \notin Callers /\ NoCaller # "closed"
    /\ Faults \subseteq {"lost answer", "delete", "short write"}

VARIABLES
    pc,         \* where each request is
    vm,         \* the VM of each request
    cancelled,  \* requests whose context has ended
    reply,      \* the contents each request was last answered with, or "error"
    inProgress, \* manager.inProgress: the request whose channel is in the map
    awaits,     \* the channel a waiting request holds: its issuer, or "closed"
    pending,    \* challenges of an order that have to be answered
    made,       \* DNS records an order holds the ID of
    records,    \* records the request's latest order has at the DNS provider
    file,       \* the certificate file of each VM
    rows,       \* VMs with a row in the table
    deleting,   \* VMs whose certificate is removed and whose row is not
    account,    \* the file account.key
    stage       \* how far the program has come in NewManager

requestVars == <<pc, vm, cancelled, reply>>
flightVars == <<inProgress, awaits>>
dnsVars == <<pending, made, records>>
tableVars == <<rows, deleting>>
bootVars == <<account, stage>>
certVars == <<requestVars, flightVars, dnsVars, file, tableVars, bootVars>>

\* Two names are ordered, the VM's domain and its wildcard: a challenge for each.
MaxChallenges == 2

\* An expiring certificate ("due") counts as none: it is inside RenewalThreshold.
FileStates == {"none", "empty", "cut", "whole", "due"}

OrderPhases == {"order", "records", "propagate", "validate"}
CleanPhases == {"abort", "clean"}
BeforeSave == OrderPhases \cup CleanPhases \cup {"finalize", "save"}
Issuing == BeforeSave \cup {"write", "leave"}
Phases == {"idle", "lookup", "enter", "wait"} \cup Issuing

TypeOK ==
    /\ pc \in [Callers -> Phases]
    /\ vm \in [Callers -> VMs]
    /\ cancelled \subseteq Callers
    /\ reply \in [Callers -> {"error"} \cup FileStates]
    /\ inProgress \in [VMs -> Callers \cup {NoCaller}]
    /\ awaits \in [Callers -> Callers \cup {NoCaller, "closed"}]
    /\ pending \in [Callers -> 0 .. MaxChallenges]
    /\ made \in [Callers -> 0 .. MaxChallenges]
    /\ records \in [Callers -> 0 .. MaxChallenges]
    /\ file \in [VMs -> FileStates]
    /\ rows \subseteq VMs /\ deleting \subseteq VMs
    /\ account \in {"none", "empty", "whole"}
    /\ stage \in {"down", "key", "save key", "zone", "up", "off"}

Init ==
    /\ pc = [c \in Callers |-> "idle"]
    /\ vm \in [Callers -> VMs]
    /\ cancelled = {}
    /\ reply = [c \in Callers |-> "none"]
    /\ inProgress = [v \in VMs |-> NoCaller]
    /\ awaits = [c \in Callers |-> NoCaller]
    /\ pending = [c \in Callers |-> 0]
    /\ made = [c \in Callers |-> 0]
    /\ records = [c \in Callers |-> 0]
    /\ file = [v \in VMs |-> "none"]
    /\ rows = VMs /\ deleting = {}
    /\ account = "none"
    /\ stage = "down"

-----------------------------------------------------------------------------
(* NewManager: the program boots, with or without a certificate manager *)

Boot ==
    /\ stage = "down"
    /\ stage' = "key"
    /\ UNCHANGED <<account, file, requestVars, flightVars, dnsVars, tableVars>>

(* loadOrCreateAccountKey: an empty file is no PEM data, and no new key is made. *)
LoadAccountKey ==
    /\ stage = "key"
    /\ CASE account = "whole" -> stage' = "zone" /\ UNCHANGED account
         [] account = "empty" -> stage' = "off" /\ UNCHANGED account
         [] account = "none" -> stage' = "save key" /\ account' = "empty"
    /\ UNCHANGED <<file, requestVars, flightVars, dnsVars, tableVars>>

SaveAccountKey ==
    /\ stage = "save key"
    /\ \E written \in BOOLEAN :
          /\ stage' = IF written THEN "zone" ELSE "off"
          /\ account' = IF written THEN "whole" ELSE account
    /\ UNCHANGED <<file, requestVars, flightVars, dnsVars, tableVars>>

(* getCloudflareZoneID: one request, with a time limit of its own. *)
FindZone ==
    /\ stage = "zone"
    /\ stage' \in {"up", "off"}
    /\ UNCHANGED <<account, file, requestVars, flightVars, dnsVars, tableVars>>

(* The program ends at any point: its requests, its map and the IDs of the *)
(* records it made are gone, and the records stay at the provider.         *)
Crash ==
    /\ stage # "down"
    /\ stage' = "down"
    /\ pc' = [c \in Callers |-> "idle"]
    /\ reply' = [c \in Callers |-> "none"]
    /\ cancelled' = {}
    /\ inProgress' = [v \in VMs |-> NoCaller]
    /\ awaits' = [c \in Callers |-> NoCaller]
    /\ pending' = [c \in Callers |-> 0]
    /\ made' = [c \in Callers |-> 0]
    /\ deleting' = {}
    /\ UNCHANGED <<vm, records, file, rows, account>>

-----------------------------------------------------------------------------
(* The request *)

(* handleCaddyGetCertificate, for the domain of a VM. *)
Request(c, v) ==
    /\ pc[c] = "idle" /\ stage \in {"up", "off"}
    /\ vm' = [vm EXCEPT ![c] = v]
    /\ cancelled' = cancelled \ {c}
    /\ IF stage = "up"
       THEN /\ pc' = [pc EXCEPT ![c] = "lookup"]
            /\ reply' = [reply EXCEPT ![c] = "none"]
       ELSE /\ reply' = [reply EXCEPT ![c] = "error"]
            /\ UNCHANGED pc
    /\ UNCHANGED <<flightVars, dnsVars, file, tableVars, bootVars>>

Answer(c, what) ==
    /\ pc' = [pc EXCEPT ![c] = "idle"]
    /\ reply' = [reply EXCEPT ![c] = what]

(* The row is read before the certificate is asked for. *)
Lookup(c) ==
    /\ pc[c] = "lookup"
    /\ \/ /\ vm[c] \in rows
          /\ pc' = [pc EXCEPT ![c] = "enter"]
          /\ UNCHANGED reply
       \/ Answer(c, "error")
    /\ UNCHANGED <<vm, cancelled, flightVars, dnsVars, file, tableVars, bootVars>>

(* The client goes away.  Nothing else ends a context. *)
Cancel(c) ==
    /\ pc[c] # "idle" /\ c \notin cancelled
    /\ cancelled' = cancelled \cup {c}
    /\ UNCHANGED <<pc, vm, reply, flightVars, dnsVars, file, tableVars, bootVars>>

-----------------------------------------------------------------------------
(* GetCertificate *)

\* A slip: an empty file is taken for a certificate.
LoadableEmpty(f) == f \in {"empty", "cut", "whole"}

(* loadCertificate parses the first block of the file and looks at its expiry. *)
Loadable(f) == f \in {"cut", "whole"}

\* What a request reads in the file of its VM.
Loaded(c) == IF Loadable(file[vm[c]]) THEN file[vm[c]] ELSE "error"

\* A slip: the map is not looked at.
EnterAlone(c) ==
    LET v == vm[c] IN
    /\ pc[c] = "enter"
    /\ IF Loadable(file[v])
       THEN Answer(c, Loaded(c)) /\ UNCHANGED flightVars
       ELSE /\ pc' = [pc EXCEPT ![c] = "order"]
            /\ inProgress' = [inProgress EXCEPT ![v] = c]
            /\ UNCHANGED <<reply, awaits>>
    /\ UNCHANGED <<vm, cancelled, dnsVars, file, tableVars, bootVars>>

(* Under the mutex: wait for the request that issues, or return the valid *)
(* certificate, or become the one that issues.                            *)
Enter(c) ==
    LET v == vm[c] IN
    /\ pc[c] = "enter"
    /\ \/ /\ inProgress[v] # NoCaller
          /\ pc' = [pc EXCEPT ![c] = "wait"]
          /\ awaits' = [awaits EXCEPT ![c] = inProgress[v]]
          /\ UNCHANGED <<reply, inProgress>>
       \/ /\ inProgress[v] = NoCaller
          /\ Loadable(file[v])
          /\ Answer(c, Loaded(c))
          /\ UNCHANGED flightVars
       \/ /\ inProgress[v] = NoCaller
          /\ ~Loadable(file[v])
          /\ pc' = [pc EXCEPT ![c] = "order"]
          /\ inProgress' = [inProgress EXCEPT ![v] = c]
          /\ UNCHANGED <<reply, awaits>>
    /\ UNCHANGED <<vm, cancelled, dnsVars, file, tableVars, bootVars>>

(* The select of a waiter: the channel is closed, or the context has ended. *)
(* The file is read without the mutex.                                      *)
Wake(c) ==
    /\ pc[c] = "wait"
    /\ \/ awaits[c] = "closed" /\ Answer(c, Loaded(c))
       \/ c \in cancelled /\ Answer(c, "error")
    /\ awaits' = [awaits EXCEPT ![c] = NoCaller]
    /\ UNCHANGED <<vm, cancelled, inProgress, dnsVars, file, tableVars, bootVars>>

\* A slip: only the map is cleared, and the channel stays open.
LeaveOpen(c) ==
    /\ pc[c] = "leave"
    /\ inProgress' = [inProgress EXCEPT ![vm[c]] = NoCaller]
    /\ pc' = [pc EXCEPT ![c] = "idle"]
    /\ UNCHANGED <<vm, cancelled, reply, awaits, dnsVars, file, tableVars, bootVars>>

(* The deferred function of the request that issued. *)
Leave(c) ==
    /\ pc[c] = "leave"
    /\ inProgress' = [inProgress EXCEPT ![vm[c]] = NoCaller]
    /\ awaits' = [d \in Callers |-> IF awaits[d] = c THEN "closed" ELSE awaits[d]]
    /\ pc' = [pc EXCEPT ![c] = "idle"]
    /\ UNCHANGED <<vm, cancelled, reply, dnsVars, file, tableVars, bootVars>>

-----------------------------------------------------------------------------
(* issueCertificate.  Every call takes the context of the request, and      *)
(* fails once it has ended.                                                 *)

Goto(c, there) == pc' = [pc EXCEPT ![c] = there]

\* The issuing fails with no record to remove.
GiveUp(c) ==
    /\ Goto(c, "leave")
    /\ reply' = [reply EXCEPT ![c] = "error"]

(* Register, AuthorizeOrder and GetAuthorization: a challenge for each name *)
(* that is not authorized already.  The list of challenges is a local of    *)
(* this order: what an earlier one left at the provider is not its concern. *)
Order(c) ==
    /\ pc[c] = "order"
    /\ \/ /\ c \notin cancelled
          /\ \E n \in 0 .. MaxChallenges : pending' = [pending EXCEPT ![c] = n]
          /\ Goto(c, "records")
          /\ UNCHANGED reply
       \/ GiveUp(c) /\ UNCHANGED pending
    /\ made' = [made EXCEPT ![c] = 0]
    /\ records' = [records EXCEPT ![c] = 0]
    /\ UNCHANGED <<vm, cancelled, flightVars, file, tableVars, bootVars>>

\* A slip: one record too many.
CreateOneMore(c) ==
    /\ pc[c] = "records" /\ made[c] <= pending[c]
    /\ c \notin cancelled
    /\ made' = [made EXCEPT ![c] = @ + 1]
    /\ records' = [records EXCEPT ![c] = @ + 1]
    /\ UNCHANGED <<requestVars, flightVars, pending, file, tableVars, bootVars>>

(* createDNSRecord for the next challenge.  The context can end, or the *)
(* answer get lost, after the provider made the record.                 *)
CreateRecord(c) ==
    LET Created == records' = [records EXCEPT ![c] = @ + 1] IN
    /\ pc[c] = "records" /\ made[c] < pending[c]
    /\ \/ /\ c \notin cancelled
          /\ Created
          /\ made' = [made EXCEPT ![c] = @ + 1]
          /\ UNCHANGED <<pc, cancelled>>
       \/ /\ Goto(c, "abort")
          /\ UNCHANGED <<made, cancelled, records>>
       \/ /\ c \notin cancelled
          /\ Created
          /\ \/ cancelled' = cancelled \cup {c}
             \/ "lost answer" \in Faults /\ UNCHANGED cancelled
          /\ Goto(c, "abort")
          /\ UNCHANGED made
    /\ UNCHANGED <<vm, reply, flightVars, pending, file, tableVars, bootVars>>

(* waitForDNSPropagation: asked for each record until all three servers show *)
(* it, for a minute at most.  It looks at the context between two rounds.    *)
Propagate(c) ==
    /\ pc[c] = "records" /\ made[c] = pending[c]
    /\ \/ c \notin cancelled /\ Goto(c, "validate")
       \/ made[c] > 0 /\ Goto(c, "abort")
       \/ made[c] = 0 /\ Goto(c, "validate")
    /\ UNCHANGED <<vm, cancelled, reply, flightVars, dnsVars, file, tableVars, bootVars>>

\* A slip: a challenge that is not accepted leaves the records behind.
ValidateKeepsRecords(c) ==
    /\ pc[c] = "validate"
    /\ \/ /\ c \notin cancelled \/ pending[c] = 0
          /\ Goto(c, "clean")
          /\ UNCHANGED reply
       \/ pending[c] > 0 /\ GiveUp(c)
    /\ UNCHANGED <<vm, cancelled, flightVars, dnsVars, file, tableVars, bootVars>>

(* Accept and WaitAuthorization, for every challenge. *)
Validate(c) ==
    /\ pc[c] = "validate"
    /\ \/ /\ c \notin cancelled \/ pending[c] = 0
          /\ Goto(c, "clean")
       \/ /\ pending[c] > 0
          /\ Goto(c, "abort")
    /\ UNCHANGED <<vm, cancelled, reply, flightVars, dnsVars, file, tableVars, bootVars>>

(* deleteDNSRecord, for each record: an error is logged, and the ID is gone. *)
RemoveRecord(c) ==
    /\ pc[c] \in CleanPhases /\ made[c] > 0
    /\ made' = [made EXCEPT ![c] = @ - 1]
    /\ \/ c \notin cancelled /\ records' = [records EXCEPT ![c] = @ - 1]
       \/ c \in cancelled /\ UNCHANGED records
       \/ "delete" \in Faults /\ UNCHANGED records
    /\ UNCHANGED <<requestVars, flightVars, pending, file, tableVars, bootVars>>

(* The records are cleaned up: the issuing fails, or goes on. *)
EndCleanup(c) ==
    /\ pc[c] \in CleanPhases /\ made[c] = 0
    /\ IF pc[c] = "clean" THEN Goto(c, "finalize") /\ UNCHANGED reply ELSE GiveUp(c)
    /\ pending' = [pending EXCEPT ![c] = 0]
    /\ UNCHANGED <<vm, cancelled, flightVars, made, records, file, tableVars, bootVars>>

\* A slip: the map is cleared as soon as the certificate has been issued.
FinalizeLeaves(c) ==
    /\ pc[c] = "finalize"
    /\ \/ c \notin cancelled /\ Goto(c, "save") /\ UNCHANGED reply
       \/ GiveUp(c)
    /\ inProgress' = [inProgress EXCEPT ![vm[c]] = NoCaller]
    /\ awaits' = [d \in Callers |-> IF awaits[d] = c THEN "closed" ELSE awaits[d]]
    /\ UNCHANGED <<vm, cancelled, dnsVars, file, tableVars, bootVars>>

(* The key, the request and CreateOrderCert. *)
Finalize(c) ==
    /\ pc[c] = "finalize"
    /\ \/ c \notin cancelled /\ Goto(c, "save") /\ UNCHANGED reply
       \/ GiveUp(c)
    /\ UNCHANGED <<vm, cancelled, flightVars, dnsVars, file, tableVars, bootVars>>

(* os.WriteFile opens and truncates the file, whatever became of the context. *)
Save(c) ==
    /\ pc[c] = "save"
    /\ \/ /\ file' = [file EXCEPT ![vm[c]] = "empty"]
          /\ Goto(c, "write")
          /\ UNCHANGED reply
       \/ GiveUp(c) /\ UNCHANGED file
    /\ UNCHANGED <<vm, cancelled, flightVars, dnsVars, tableVars, bootVars>>

(* ... and then writes it.  A file removed in between stays removed.  A write *)
(* cut short after the first certificate lacks the private key, at its end.   *)
Write(c) ==
    LET v == vm[c]
        Becomes(f) == file' = [file EXCEPT ![v] = IF @ = "none" THEN @ ELSE f]
    IN
    /\ pc[c] = "write"
    /\ \/ /\ Becomes("whole")
          /\ Goto(c, "leave")
          /\ reply' = [reply EXCEPT ![c] = "whole"]
       \/ GiveUp(c) /\ UNCHANGED file
       \/ "short write" \in Faults /\ GiveUp(c) /\ Becomes("cut")
    /\ UNCHANGED <<vm, cancelled, flightVars, dnsVars, tableVars, bootVars>>

-----------------------------------------------------------------------------
(* handleDeleteVM, of a VM that is stopped: the certificate, then the row *)

DeleteCertificate(v) ==
    /\ stage = "up" /\ v \in rows \ deleting
    /\ file' = [file EXCEPT ![v] = "none"]
    /\ deleting' = deleting \cup {v}
    /\ UNCHANGED <<requestVars, flightVars, dnsVars, rows, bootVars>>

(* The row goes, or the statement fails and the VM stays. *)
DeleteVM(v) ==
    /\ v \in deleting
    /\ deleting' = deleting \ {v}
    /\ rows' \in {rows, rows \ {v}}
    /\ UNCHANGED <<requestVars, flightVars, dnsVars, file, bootVars>>

(* A certificate comes within RenewalThreshold of its end. *)
Age(v) ==
    /\ file[v] \in {"cut", "whole"}
    /\ file' = [file EXCEPT ![v] = "due"]
    /\ UNCHANGED <<requestVars, flightVars, dnsVars, tableVars, bootVars>>

-----------------------------------------------------------------------------
Step(c) ==
    \/ Lookup(c)
    \/ Enter(c)
    \/ Wake(c)
    \/ Order(c)
    \/ CreateRecord(c)
    \/ Propagate(c)
    \/ Validate(c)
    \/ RemoveRecord(c)
    \/ EndCleanup(c)
    \/ Finalize(c)
    \/ Save(c)
    \/ Write(c)
    \/ Leave(c)

Next ==
    \/ \E c \in Callers : Step(c) \/ Cancel(c) \/ \E v \in VMs : Request(c, v)
    \/ \E v \in VMs : DeleteCertificate(v) \/ DeleteVM(v) \/ Age(v)
    \/ Boot \/ LoadAccountKey \/ SaveAccountKey \/ FindZone
    \/ Crash

Spec == Init /\ [][Next]_certVars

(* Every call of a request returns: the ACME client and the DNS requests   *)
(* answer or fail.  No client has to go away, and the program need not     *)
(* crash or start.                                                         *)
FairSpec == Spec /\ \A c \in Callers : WF_certVars(Step(c))

-----------------------------------------------------------------------------
(* Properties *)

(* GetCertificate's single flight (manager.go:104-147): of the requests that *)
(* run at once, one issues for a VM, and it is the one whose channel is in   *)
(* the map, whatever the contexts, failures and deletions in between.        *)
OneIssuePerVM ==
    \A c \in Callers : pc[c] \in Issuing => inProgress[vm[c]] = c

(* No certificate is ordered in vain (manager.go:107-129): until the request *)
(* that issues saves what it got, the file has no valid certificate, though  *)
(* the file was read before the order and the mutex is free since.           *)
NoNeedlessOrder ==
    \A c \in Callers : pc[c] \in BeforeSave => ~Loadable(file[vm[c]])

(* What a request answers with holds the private key too (manager.go:103,    *)
(* "Returns the PEM-encoded certificate chain and private key concatenated"), *)
(* although files are read while they are written and after a crash in it.   *)
ServedWhole == \A c \in Callers : reply[c] \notin {"empty", "cut"}

(* No challenge record outlives its order (manager.go:256-318): wherever the *)
(* order succeeds or fails, once issueCertificate is past its clean-up the   *)
(* provider has none of the records it made, those of a creation that came   *)
(* before the one that failed too, unless the client has gone away.  Then    *)
(* the clean-up, which uses the same context, cannot remove anything.        *)
RecordsRemoved ==
    \A c \in Callers \ cancelled :
        pc[c] \in {"finalize", "save", "write", "leave"} => records[c] = 0

(* Every get-certificate request is answered, the waiting ones too. *)
GetReturns == \A c \in Callers : pc[c] # "idle" ~> pc[c] = "idle"
=============================================================================
