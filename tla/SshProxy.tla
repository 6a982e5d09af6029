------------------------------ MODULE SshProxy ------------------------------
(***************************************************************************)
(* One connection to the SSH proxy (sshproxy/internal/sshproxy/server.go): *)
(* its sessions, each of which opens a connection of its own to a VM, the  *)
(* tunnel of a menu session being a goroutine of its own; its port         *)
(* forwards, which go through a connection that a session left in vmClient *)
(* or, when the login names a VM, through one dialled on demand and shared *)
(* by them; and the end of the connection, which none of these goroutines  *)
(* waits for.                                                              *)
(***************************************************************************)
EXTENDS Naturals, FiniteSets

CONSTANTS
    Sessions,  \* session channels, and the VM connection that each dials
    Requests,  \* what the client may ask for on each session channel
    Forwards,  \* direct-tcpip channels, and the VM connection each may dial
    NoClient,
    MaxChannels  \* bound on the sessions and forwards that are served at a time

ASSUME SshAssumption ==
    /\ MaxChannels \in Nat
    /\ Sessions \cap Forwards = {}
    /\ Requests \in [Sessions -> SUBSET {"menu", "direct", "exec", "subsystem"}]
    /\ NoClient \notin Sessions \cup Forwards

VARIABLES
    pinned,     \* whether the login names a VM (connState.targetVM)
    conn,       \* the client's connection, and whether handleConnection cleaned up
    channel,    \* session channels the client still holds
    kind,       \* what runs in each session
    menu,       \* sessions whose menu loop runs
    tunnel,     \* how far the connecting call of each session has come
    remote,     \* what became of the remote command of each session
    drained,    \* how many output streams of a command were copied to their end
    status,     \* the exit status each command was answered with
    link,       \* each VM connection
    vmClient,   \* connState.vmClient
    fwdClient,  \* connState.fwdClient
    fwdMu,      \* the forward that dials with fwdMu held
    watched,    \* on-demand connections whose end a goroutine waits for
    forward,    \* how far each forward has come
    via,        \* the VM connection each forward is about to dial through
    told        \* forwards whose target knows that nothing more will come

sessionVars == <<channel, kind, menu, tunnel, remote, drained, status>>
forwardVars == <<forward, via, told>>
onDemandVars == <<fwdClient, fwdMu, watched>>
sshVars == <<pinned, conn, sessionVars, link, vmClient, onDemandVars, forwardVars>>

Clients == Sessions \cup Forwards
Streams == 2

\* Interactive: "menu" through the prompt, "direct" for a shell of a pinned
\* login and for an exec of "connect".  Of a pinned login: "exec", "subsystem".
Interactive == {"menu", "direct"}
Commands == {"exec", "subsystem"}
Allowed == IF pinned THEN {"direct"} \cup Commands ELSE Interactive

TunnelPhases == {"none", "dial", "start", "run", "clear", "close"}
ForwardPhases == {"none", "lock", "redial", "dial", "copy", "up", "down"}

SshTypeOK ==
    /\ pinned \in BOOLEAN
    /\ conn \in {"open", "ended", "closed"}
    /\ channel \subseteq Sessions /\ menu \subseteq Sessions
    /\ kind \in [Sessions -> {"none"} \cup Interactive \cup Commands]
    /\ tunnel \in [Sessions -> TunnelPhases]
    /\ remote \in [Sessions -> {"none", "runs", "zero", "failed"}]
    /\ drained \in [Sessions -> 0 .. Streams]
    /\ status \in [Sessions -> {"none", "zero", "failed"}]
    /\ link \in [Clients -> {"open", "lost", "closed"}]
    /\ vmClient \in Sessions \cup {NoClient}
    /\ fwdClient \in Forwards \cup {NoClient} /\ fwdMu \in Forwards \cup {NoClient}
    /\ watched \subseteq Forwards
    /\ forward \in [Forwards -> ForwardPhases]
    /\ via \in [Forwards -> Clients \cup {NoClient}]
    /\ told \subseteq Forwards

SshInit ==
    /\ pinned \in BOOLEAN
    /\ conn = "open"
    /\ channel = {} /\ menu = {}
    /\ kind = [s \in Sessions |-> "none"]
    /\ tunnel = [s \in Sessions |-> "none"]
    /\ remote = [s \in Sessions |-> "none"]
    /\ drained = [s \in Sessions |-> 0]
    /\ status = [s \in Sessions |-> "none"]
    /\ link = [k \in Clients |-> "closed"]
    /\ vmClient = NoClient /\ fwdClient = NoClient /\ fwdMu = NoClient
    /\ watched = {}
    /\ forward = [f \in Forwards |-> "none"]
    /\ via = [f \in Forwards |-> NoClient]
    /\ told = {}

Serving ==
    {s \in Sessions : s \in channel \cup menu \/ tunnel[s] # "none"}
        \cup {f \in Forwards : forward[f] # "none"}
Free(k) == k \notin Serving /\ Cardinality(Serving) < MaxChannels

Become(k, there) == link' = [link EXCEPT ![k] = there]
Goto(s, there) == tunnel' = [tunnel EXCEPT ![s] = there]

\* A forward that still holds k has no use of the connection k that comes next.
NoMoreVia(k) == via' = [f \in Forwards |-> IF via[f] = k THEN NoClient ELSE via[f]]

-----------------------------------------------------------------------------
(* Sessions *)

OthersThanSessions == <<pinned, conn, link, vmClient, onDemandVars, forwardVars>>

(* handleSession: a session channel and the request that says what it is for. *)
OpenSession(s, k) ==
    /\ conn = "open" /\ Free(s) /\ k \in Allowed \cap Requests[s]
    /\ channel' = channel \cup {s}
    /\ kind' = [kind EXCEPT ![s] = k]
    /\ menu' = IF k = "menu" THEN menu \cup {s} ELSE menu
    /\ Goto(s, IF k = "menu" THEN "none" ELSE "dial")
    /\ UNCHANGED <<remote, drained, status, OthersThanSessions>>

(* handleInteractiveShell, "connect" at the prompt: the tunnel runs beside the loop. *)
MenuConnect(s) ==
    /\ s \in menu /\ s \in channel /\ tunnel[s] = "none"
    /\ Goto(s, "dial")
    /\ UNCHANGED <<channel, kind, menu, remote, drained, status, OthersThanSessions>>

(* The loop returns on "exit" at the prompt and on a read error, which it sees *)
(* while the tunnel runs too.  It closes the channel and tells nobody else.    *)
MenuReturns(s) ==
    /\ s \in menu
    /\ s \notin channel \/ tunnel[s] = "none"
    /\ menu' = menu \ {s} /\ channel' = channel \ {s}
    /\ kind' = IF tunnel[s] = "none" THEN [kind EXCEPT ![s] = "none"] ELSE kind
    /\ UNCHANGED <<tunnel, remote, drained, status, OthersThanSessions>>

(* The client closes a session. *)
Hangup(s) ==
    /\ s \in channel
    /\ channel' = channel \ {s}
    /\ UNCHANGED <<kind, menu, tunnel, remote, drained, status, OthersThanSessions>>

\* The call returns.  It takes the channel with it except below a menu.
Return(s) ==
    /\ Goto(s, "none")
    /\ channel' = IF s \in menu THEN channel ELSE channel \ {s}
    /\ kind' = IF s \in menu THEN kind ELSE [kind EXCEPT ![s] = "none"]
    /\ remote' = [remote EXCEPT ![s] = "none"]
    /\ drained' = [drained EXCEPT ![s] = 0]
    /\ status' = [status EXCEPT ![s] = "none"]

\* What the client of a command is told; nothing reaches a channel that is closed.
Report(s, what) ==
    status' = [status EXCEPT ![s] = IF kind[s] \in Commands /\ s \in channel THEN what ELSE @]

(* lookupRunningVM and dialVM: the VM runs and lets the proxy in, or the call *)
(* ends here (the client of a command is told).  An interactive session       *)
(* leaves its connection to the forwards.                                     *)
DialVM(s) ==
    /\ tunnel[s] = "dial"
    /\ \/ /\ Become(s, "open")
          /\ Goto(s, "start")
          /\ vmClient' = IF kind[s] \in Interactive THEN s ELSE vmClient
          /\ UNCHANGED <<channel, kind, remote, drained, status>>
       \/ Return(s) /\ UNCHANGED <<link, vmClient>>
    /\ UNCHANGED <<pinned, conn, menu, onDemandVars, forwardVars>>

Unwind(s) == Goto(s, IF kind[s] \in Commands THEN "close" ELSE "clear")

(* NewSession, the pipes, the terminal and the command: any of them may fail. *)
Start(s) ==
    /\ tunnel[s] = "start"
    /\ \/ /\ link[s] = "open"
          /\ remote' = [remote EXCEPT ![s] = "runs"]
          /\ Goto(s, "run")
          /\ UNCHANGED status
       \/ Unwind(s) /\ Report(s, "failed") /\ UNCHANGED remote
    /\ UNCHANGED <<channel, kind, menu, drained, OthersThanSessions>>

Ended(s) == remote[s] # "runs" \/ link[s] # "open"

\* A slip: the interactive session waits for its client instead of the remote side.
SessionWaitClient(s) ==
    /\ tunnel[s] = "run" /\ kind[s] \in Interactive
    /\ s \notin channel
    /\ remote' = [remote EXCEPT ![s] = "none"]
    /\ Unwind(s)
    /\ UNCHANGED <<channel, kind, menu, drained, status, OthersThanSessions>>

(* session.Wait of an interactive session: the output is not waited for. *)
SessionWait(s) ==
    /\ tunnel[s] = "run" /\ kind[s] \in Interactive
    /\ Ended(s)
    /\ remote' = [remote EXCEPT ![s] = "none"]
    /\ Unwind(s)
    /\ UNCHANGED <<channel, kind, menu, drained, status, OthersThanSessions>>

\* A slip: a stream that ends is counted more than once.
DrainStreamAgain(s) ==
    /\ tunnel[s] = "run" /\ kind[s] \in Commands
    /\ Ended(s)
    /\ drained' = [drained EXCEPT ![s] = @ + 1]
    /\ UNCHANGED <<channel, kind, menu, tunnel, remote, status, OthersThanSessions>>

(* One output stream of a command comes to its end, by itself or cut off with *)
(* the connection: the copy reads an end either way.                          *)
DrainStream(s) ==
    /\ tunnel[s] = "run" /\ kind[s] \in Commands
    /\ Ended(s)
    /\ drained[s] < Streams
    /\ drained' = [drained EXCEPT ![s] = @ + 1]
    /\ UNCHANGED <<channel, kind, menu, tunnel, remote, status, OthersThanSessions>>

(* The client is gone, and the remote command writes to it: the copy fails.  A *)
(* copy from a command that writes nothing goes on reading.                    *)
DropStream(s) ==
    /\ tunnel[s] = "run" /\ kind[s] \in Commands
    /\ s \notin channel /\ ~Ended(s)
    /\ drained[s] < Streams
    /\ drained' = [drained EXCEPT ![s] = @ + 1]
    /\ UNCHANGED <<channel, kind, menu, tunnel, remote, status, OthersThanSessions>>

(* exitCode: an error that is no exit status counts as a failure.  The status *)
(* of a subsystem is not waited for.                                          *)
ExitCode(s) ==
    IF kind[s] = "subsystem" \/ remote[s] = "zero" THEN "zero" ELSE "failed"

\* A slip: the status is reaped with the first of the streams.
SendExitStatusEarly(s) ==
    /\ tunnel[s] = "run" /\ kind[s] \in Commands
    /\ drained[s] > 0
    /\ kind[s] = "subsystem" \/ Ended(s)
    /\ Report(s, ExitCode(s))
    /\ Goto(s, "close")
    /\ UNCHANGED <<channel, kind, menu, remote, drained, OthersThanSessions>>

(* A command is answered once both streams have ended (wg.Wait) and, unless *)
(* it is a subsystem, its exit status has come (session.Wait).              *)
SendExitStatus(s) ==
    /\ tunnel[s] = "run" /\ kind[s] \in Commands
    /\ drained[s] = Streams
    /\ kind[s] = "subsystem" \/ Ended(s)
    /\ Report(s, ExitCode(s))
    /\ Goto(s, "close")
    /\ UNCHANGED <<channel, kind, menu, remote, drained, OthersThanSessions>>

\* A slip: the connection is closed before vmClient is cleared.
ClearAfterClose(s) ==
    /\ tunnel[s] = "clear"
    /\ Become(s, "closed")
    /\ Goto(s, "close")
    /\ UNCHANGED <<pinned, conn, channel, kind, menu, remote, drained, status,
                   vmClient, onDemandVars, forwardVars>>

(* The deferred function of an interactive session clears vmClient, whoever  *)
(* stored it ...                                                             *)
ClearClient(s) ==
    /\ tunnel[s] = "clear"
    /\ vmClient' = NoClient
    /\ Goto(s, "close")
    /\ UNCHANGED <<pinned, conn, channel, kind, menu, remote, drained, status,
                   link, onDemandVars, forwardVars>>

(* ... and closes the connection, which ends a remote command that still runs. *)
CloseClient(s) ==
    /\ tunnel[s] = "close"
    /\ Become(s, "closed")
    /\ Return(s)
    /\ NoMoreVia(s)
    /\ UNCHANGED <<pinned, conn, menu, vmClient, onDemandVars, forward, told>>

-----------------------------------------------------------------------------
(* The VMs *)

(* The remote command of a session ends. *)
RemoteExit(s) ==
    /\ tunnel[s] = "run" /\ remote[s] = "runs" /\ link[s] = "open"
    /\ remote' \in {[remote EXCEPT ![s] = code] : code \in {"zero", "failed"}}
    /\ UNCHANGED <<channel, kind, menu, tunnel, drained, status, OthersThanSessions>>

(* A VM connection breaks, with its VM or without.  Once its session is about *)
(* to close it, this makes no difference.                                     *)
Lose(k) ==
    /\ link[k] = "open"
    /\ k \in Sessions => tunnel[k] \in {"start", "run"}
    /\ Become(k, "lost")
    /\ UNCHANGED <<pinned, conn, sessionVars, vmClient, onDemandVars, forwardVars>>

-----------------------------------------------------------------------------
(* Forwards: handleDirectTCPIP *)

OthersThanForwards == <<pinned, conn, sessionVars, vmClient>>
Forward(f, there) == forward' = [forward EXCEPT ![f] = there]

(* vmClient is read under mu and used after; without one, a pinned login's *)
(* forward goes on and any other is rejected.                              *)
OpenForward(f) ==
    /\ conn = "open" /\ Free(f)
    /\ \/ vmClient # NoClient /\ Forward(f, "dial")
       \/ vmClient = NoClient /\ pinned /\ Forward(f, "lock")
    /\ via' = [via EXCEPT ![f] = vmClient]
    /\ UNCHANGED <<told, link, onDemandVars, OthersThanForwards>>

\* A slip: fwdMu is not held while the VM is dialled.
LockForwardBriefly(f) ==
    /\ forward[f] = "lock" /\ fwdMu = NoClient
    /\ via' = [via EXCEPT ![f] = fwdClient]
    /\ Forward(f, IF fwdClient # NoClient THEN "dial" ELSE "redial")
    /\ UNCHANGED <<onDemandVars, told, link, OthersThanForwards>>

(* pinnedForwardClient, to where it has a connection or has to dial one. *)
LockForward(f) ==
    /\ forward[f] = "lock" /\ fwdMu = NoClient
    /\ \/ /\ fwdClient # NoClient
          /\ via' = [via EXCEPT ![f] = fwdClient]
          /\ Forward(f, "dial")
          /\ UNCHANGED fwdMu
       \/ /\ fwdClient = NoClient
          /\ fwdMu' = f
          /\ Forward(f, "redial")
          /\ UNCHANGED via
    /\ UNCHANGED <<fwdClient, watched, told, link, OthersThanForwards>>

(* The VM is looked up and dialled with fwdMu held. *)
Redial(f) ==
    /\ forward[f] = "redial"
    /\ \/ /\ Become(f, "open")
          /\ fwdClient' = f
          /\ watched' = watched \cup {f}
          /\ via' = [via EXCEPT ![f] = f]
          /\ Forward(f, "dial")
       \/ Forward(f, "none") /\ UNCHANGED <<link, fwdClient, watched, via>>
    /\ fwdMu' = NoClient
    /\ UNCHANGED <<told, OthersThanForwards>>

(* The goroutine that waits for the end of an on-demand connection. *)
Forget(f) ==
    /\ f \in watched /\ link[f] \in {"lost", "closed"} /\ fwdMu = NoClient
    /\ watched' = watched \ {f}
    /\ fwdClient' = IF fwdClient = f THEN NoClient ELSE fwdClient
    /\ NoMoreVia(f)
    /\ UNCHANGED <<fwdMu, link, forward, told, OthersThanForwards>>

(* The target is dialled through the VM connection, which may have ended      *)
(* since, and the channel is accepted unless it is gone with its connection.  *)
DialTarget(f) ==
    /\ forward[f] = "dial"
    /\ \/ /\ via[f] # NoClient /\ link[via[f]] = "open" /\ conn = "open"
          /\ Forward(f, "copy")
       \/ Forward(f, "none")
    /\ via' = [via EXCEPT ![f] = NoClient]
    /\ UNCHANGED <<told, link, onDemandVars, OthersThanForwards>>

\* What dials through an ssh.Client is a channel of it, never a *net.TCPConn.
IsTCPConn(f) == FALSE

\* One of the two copies ends; the other goes on, or the forward ends.
CopyEnds(f, other) ==
    \/ forward[f] = "copy" /\ Forward(f, other)
    \/ forward[f] \in {"up", "down"} \ {other} /\ Forward(f, "none")

(* Channel -> target: the user sends nothing more, or is gone, or the VM      *)
(* connection is.  Only a TCP connection would be told.                       *)
CopyUpEnds(f) ==
    /\ CopyEnds(f, "down")
    /\ told' = IF forward[f] = "copy" /\ IsTCPConn(f) THEN told \cup {f} ELSE told \ {f}
    /\ UNCHANGED <<via, link, onDemandVars, OthersThanForwards>>

(* Target -> channel: at any time, or with the connection on one of its sides. *)
CopyDownEnds(f) ==
    /\ CopyEnds(f, "up")
    /\ told' = told \ {f}
    /\ UNCHANGED <<via, link, onDemandVars, OthersThanForwards>>

-----------------------------------------------------------------------------
(* The connection *)

(* The client goes: every channel ends. *)
Disconnect ==
    /\ conn = "open"
    /\ conn' = "ended"
    /\ channel' = {}
    /\ UNCHANGED <<pinned, kind, menu, tunnel, remote, drained, status, link,
                   vmClient, onDemandVars, forwardVars>>

(* The deferred function of handleConnection closes the on-demand connection. *)
CloseForwards ==
    /\ conn = "ended" /\ fwdMu = NoClient
    /\ conn' = "closed"
    /\ IF fwdClient # NoClient THEN Become(fwdClient, "closed") ELSE UNCHANGED link
    /\ UNCHANGED <<pinned, sessionVars, vmClient, onDemandVars, forwardVars>>

-----------------------------------------------------------------------------
SessionStep(s) ==
    \/ DialVM(s) \/ Start(s)
    \/ SessionWait(s) \/ DrainStream(s) \/ SendExitStatus(s)
    \/ ClearClient(s) \/ CloseClient(s)

ForwardStep(f) ==
    \/ LockForward(f) \/ Redial(f) \/ DialTarget(f)

SshNext ==
    \/ \E s \in Sessions :
          \/ \E k \in Interactive \cup Commands : OpenSession(s, k)
          \/ MenuConnect(s) \/ MenuReturns(s) \/ Hangup(s)
          \/ SessionStep(s) \/ DropStream(s) \/ RemoteExit(s)
    \/ \E k \in Clients : Lose(k)
    \/ \E f \in Forwards :
          \/ OpenForward(f) \/ ForwardStep(f)
          \/ CopyUpEnds(f) \/ CopyDownEnds(f) \/ Forget(f)
    \/ Disconnect \/ CloseForwards

SshSpec == SshInit /\ [][SshNext]_sshVars

(* Every call a session makes of the API and of a VM answers or fails, and  *)
(* its goroutine goes on then; a client takes the output of a command that  *)
(* has ended, or leaves.  Nothing is assumed of a remote command: the end   *)
(* of its input need not end it, and it may run or stay silent for ever, as *)
(* may the target of a forward.                                             *)
SshFairSpec == SshSpec /\ \A s \in Sessions : WF_sshVars(SessionStep(s))

-----------------------------------------------------------------------------
(* Properties *)

(* Forwards never start from a connection that the proxy has closed: what    *)
(* vmClient names (server.go:48, read at 1303-1305) belongs to a session     *)
(* that runs, whichever of the sessions of a connection end, in any order.   *)
VmClientHeld ==
    vmClient # NoClient =>
        /\ tunnel[vmClient] \in {"start", "run", "clear"}
        /\ link[vmClient] \in {"open", "lost"}

(* The on-demand connection is "shared by all forwards on the SSH connection" *)
(* (server.go:1256-1257): two forwards that dial at once, one that breaks and  *)
(* one that is forgotten never leave an open one that fwdClient has lost.    *)
OneForwardClient == \A f \in Forwards : link[f] = "open" => fwdClient = f

(* "The remote command's real exit status is relayed" (server.go:1001): a     *)
(* client is told of a success only if the command succeeded and both copies  *)
(* of its streams are over, also when the VM connection breaks or another     *)
(* error comes in between.  Output that a connection cut off after the exit   *)
(* status had come is not missed: the code cannot tell it from an end.        *)
StatusTrue ==
    \A s \in Sessions : kind[s] = "exec" /\ status[s] = "zero" =>
        remote[s] = "zero" /\ drained[s] = Streams

(* A VM connection that a session dialled and that breaks, or whose remote    *)
(* command ends, is closed, whatever the client does: it may stay, leave the  *)
(* menu below which the tunnel runs or hold on to a half-closed channel       *)
(* (server.go:639-644, 755-767, 796-801, 973-979, 1039, 1093-1101).  That the *)
(* client leaves is not enough: the proxy waits for the remote side.          *)
ConnectionsReleased ==
    \A s \in Sessions :
        link[s] = "lost" \/ (tunnel[s] = "run" /\ remote[s] # "runs") ~> link[s] = "closed"

(* "Signal EOF to target" (server.go:1354): when the user of a forward has    *)
(* nothing more to send, with every connection intact, the target learns it.  *)
EofReachesTarget ==
    [][\A f \in Forwards :
          /\ forward[f] = "copy" /\ forward'[f] = "down"
          /\ conn = "open" /\ \A k \in Clients : link[k] # "lost"
          => f \in told']_sshVars
=============================================================================
