--------------------------- MODULE SshProxy_proofs ---------------------------
(***************************************************************************)
(* Proofs about SshProxy, for any sets of sessions and forwards, any       *)
(* requests the client may make of them and any bound on channels.         *)
(***************************************************************************)
EXTENDS SshProxy, TLAPS

(***************************************************************************)
(* The inductive invariant.                                                *)
(***************************************************************************)

(* What vmClient names is the connection of an interactive session, whose    *)
(* deferred function clears vmClient before it closes the connection.        *)
ClientInv ==
    vmClient # NoClient =>
        /\ kind[vmClient] \in Interactive
        /\ tunnel[vmClient] \in {"start", "run", "clear"}
        /\ link[vmClient] \in {"open", "lost"}

(* The forward that dials is the one that holds fwdMu, and it does so only   *)
(* while there is no on-demand connection.                                   *)
ForwardInv ==
    /\ \A f \in Forwards : forward[f] = "redial" <=> fwdMu = f
    /\ fwdMu # NoClient => fwdClient = NoClient
    /\ OneForwardClient

(* Only a command is answered, and its call does nothing more after that.    *)
StatusInv ==
    /\ \A s \in Sessions : status[s] # "none" => kind[s] \in Commands /\ tunnel[s] = "close"
    /\ StatusTrue

SshInv == ClientInv /\ ForwardInv /\ StatusInv

-----------------------------------------------------------------------------
(* Type correctness *)

LEMMA TypeInit == SshInit => SshTypeOK
<1> SUFFICES ASSUME SshInit PROVE SshTypeOK OBVIOUS
<1>1. pinned \in BOOLEAN BY DEF SshInit
<1> QED
  BY <1>1 DEF SshInit, SshTypeOK, Clients, TunnelPhases, ForwardPhases, Streams, Interactive,
     Commands

(* Every step of a session, and the end of its remote command. *)
LEMMA TypeSession ==
  ASSUME SshTypeOK, NEW s \in Sessions, SessionStep(s) \/ DropStream(s) \/ RemoteExit(s)
  PROVE  SshTypeOK'
<1> USE DEF SshTypeOK, Clients, TunnelPhases, Streams, Goto, Become, Return, Report, Unwind,
  OthersThanSessions, onDemandVars, forwardVars
<1>1. CASE DialVM(s) BY <1>1 DEF DialVM
<1>2. CASE Start(s) BY <1>2 DEF Start
<1>3. CASE SessionWait(s) BY <1>3 DEF SessionWait
<1>4. CASE DrainStream(s) BY <1>4 DEF DrainStream
<1>5. CASE SendExitStatus(s) BY <1>5 DEF SendExitStatus, ExitCode
<1>6. CASE ClearClient(s) BY <1>6 DEF ClearClient
<1>7. CASE CloseClient(s) BY <1>7 DEF CloseClient, NoMoreVia
<1>8. CASE RemoteExit(s) BY <1>8 DEF RemoteExit
<1>9. CASE DropStream(s) BY <1>9 DEF DropStream
<1> QED BY <1>1, <1>2, <1>3, <1>4, <1>5, <1>6, <1>7, <1>8, <1>9 DEF SessionStep

(* What the client does with its sessions, and the menu loop. *)
LEMMA TypeMenu ==
  ASSUME SshTypeOK, NEW s \in Sessions,
         (\E k \in Interactive \cup Commands : OpenSession(s, k))
            \/ MenuConnect(s) \/ MenuReturns(s) \/ Hangup(s)
  PROVE  SshTypeOK'
<1> USE DEF SshTypeOK, Clients, TunnelPhases, Streams, Goto, OthersThanSessions, onDemandVars,
  forwardVars
<1>1. CASE \E k \in Interactive \cup Commands : OpenSession(s, k) BY <1>1 DEF OpenSession
<1>2. CASE MenuConnect(s) BY <1>2 DEF MenuConnect
<1>3. CASE MenuReturns(s) BY <1>3 DEF MenuReturns
<1>4. CASE Hangup(s) BY <1>4 DEF Hangup
<1> QED BY <1>1, <1>2, <1>3, <1>4

LEMMA TypeForward ==
  ASSUME SshTypeOK, NEW f \in Forwards,
         OpenForward(f) \/ ForwardStep(f) \/ CopyUpEnds(f) \/ CopyDownEnds(f) \/ Forget(f)
  PROVE  SshTypeOK'
<1> USE DEF SshTypeOK, Clients, ForwardPhases, Become, Forward, OthersThanForwards, onDemandVars,
  sessionVars
<1>1. CASE OpenForward(f) BY <1>1 DEF OpenForward
<1>2. CASE LockForward(f) BY <1>2 DEF LockForward
<1>3. CASE Redial(f) BY <1>3 DEF Redial
<1>4. CASE DialTarget(f) BY <1>4 DEF DialTarget
<1>5. CASE CopyUpEnds(f) BY <1>5 DEF CopyUpEnds, CopyEnds
<1>6. CASE CopyDownEnds(f) BY <1>6 DEF CopyDownEnds, CopyEnds
<1>7. CASE Forget(f) BY <1>7 DEF Forget, NoMoreVia
<1> QED BY <1>1, <1>2, <1>3, <1>4, <1>5, <1>6, <1>7 DEF ForwardStep

(* A connection breaks, or the client's ends. *)
LEMMA TypeConn ==
  ASSUME SshTypeOK, (\E k \in Clients : Lose(k)) \/ Disconnect \/ CloseForwards
  PROVE  SshTypeOK'
<1> USE DEF SshTypeOK, Clients, Become, onDemandVars, forwardVars, sessionVars
<1>1. CASE \E k \in Clients : Lose(k) BY <1>1 DEF Lose
<1>2. CASE Disconnect BY <1>2 DEF Disconnect
<1>3. CASE CloseForwards BY <1>3 DEF CloseForwards
<1> QED BY <1>1, <1>2, <1>3

LEMMA TypeStep == SshTypeOK /\ [SshNext]_sshVars => SshTypeOK'
<1> SUFFICES ASSUME SshTypeOK, [SshNext]_sshVars PROVE SshTypeOK' OBVIOUS
<1>1. CASE UNCHANGED sshVars
  BY <1>1 DEF SshTypeOK, sshVars, sessionVars, onDemandVars, forwardVars
<1> QED BY <1>1, TypeSession, TypeMenu, TypeForward, TypeConn DEF SshNext

(* Every reachable state of a connection to the proxy is well typed. *)
THEOREM SshTypeCorrect == SshSpec => []SshTypeOK
BY TypeInit, TypeStep, PTL DEF SshSpec

-----------------------------------------------------------------------------
(* The invariant is inductive.  A session touches what its own connection,   *)
(* and what vmClient, stand for; only forwards touch fwdClient and fwdMu.    *)

LEMMA InvSession ==
  ASSUME SshTypeOK, SshInv, NEW s \in Sessions,
         SessionStep(s) \/ DropStream(s) \/ RemoteExit(s)
  PROVE  SshInv'
<1> USE SshAssumption
<1> USE DEF SshTypeOK, Clients, Goto, Become, Return, Report, Unwind, OthersThanSessions,
  onDemandVars, forwardVars
<1>1. CASE DialVM(s)
  <2>1. ClientInv' BY <1>1 DEF DialVM, SshInv, ClientInv
  <2>2. ForwardInv' BY <1>1 DEF DialVM, SshInv, ForwardInv, OneForwardClient
  <2>3. StatusInv' BY <1>1 DEF DialVM, SshInv, StatusInv, StatusTrue
  <2> QED BY <2>1, <2>2, <2>3 DEF SshInv
<1>2. CASE Start(s)
  <2>1. ClientInv' BY <1>2 DEF Start, SshInv, ClientInv, Interactive, Commands
  <2>2. ForwardInv' BY <1>2 DEF Start, SshInv, ForwardInv, OneForwardClient
  <2>3. StatusInv' BY <1>2 DEF Start, SshInv, StatusInv, StatusTrue
  <2> QED BY <2>1, <2>2, <2>3 DEF SshInv
<1>3. CASE SessionWait(s)
  <2>1. ClientInv' BY <1>3 DEF SessionWait, SshInv, ClientInv, Interactive, Commands
  <2>2. ForwardInv' BY <1>3 DEF SessionWait, SshInv, ForwardInv, OneForwardClient
  <2>3. StatusInv' BY <1>3 DEF SessionWait, SshInv, StatusInv, StatusTrue
  <2> QED BY <2>1, <2>2, <2>3 DEF SshInv
<1>4. CASE DrainStream(s)
  <2>1. ClientInv' BY <1>4 DEF DrainStream, SshInv, ClientInv
  <2>2. ForwardInv' BY <1>4 DEF DrainStream, SshInv, ForwardInv, OneForwardClient
  <2>3. StatusInv' BY <1>4 DEF DrainStream, SshInv, StatusInv, StatusTrue
  <2> QED BY <2>1, <2>2, <2>3 DEF SshInv
<1>5. CASE SendExitStatus(s)
  <2>1. ClientInv' BY <1>5 DEF SendExitStatus, SshInv, ClientInv, Interactive, Commands
  <2>2. ForwardInv' BY <1>5 DEF SendExitStatus, SshInv, ForwardInv, OneForwardClient
  <2>3. StatusInv' BY <1>5 DEF SendExitStatus, ExitCode, SshInv, StatusInv, StatusTrue
  <2> QED BY <2>1, <2>2, <2>3 DEF SshInv
<1>6. CASE ClearClient(s)
  <2>1. ClientInv' BY <1>6 DEF ClearClient, SshInv, ClientInv
  <2>2. ForwardInv' BY <1>6 DEF ClearClient, SshInv, ForwardInv, OneForwardClient
  <2>3. StatusInv' BY <1>6 DEF ClearClient, SshInv, StatusInv, StatusTrue
  <2> QED BY <2>1, <2>2, <2>3 DEF SshInv
<1>7. CASE CloseClient(s)
  <2>1. ClientInv' BY <1>7 DEF CloseClient, SshInv, ClientInv
  <2>2. ForwardInv' BY <1>7 DEF CloseClient, SshInv, ForwardInv, OneForwardClient
  <2>3. StatusInv' BY <1>7 DEF CloseClient, SshInv, StatusInv, StatusTrue
  <2> QED BY <2>1, <2>2, <2>3 DEF SshInv
<1>8. CASE RemoteExit(s)
  <2>1. ClientInv' BY <1>8 DEF RemoteExit, SshInv, ClientInv
  <2>2. ForwardInv' BY <1>8 DEF RemoteExit, SshInv, ForwardInv, OneForwardClient
  <2>3. StatusInv' BY <1>8 DEF RemoteExit, SshInv, StatusInv, StatusTrue
  <2> QED BY <2>1, <2>2, <2>3 DEF SshInv
<1>9. CASE DropStream(s)
  <2>1. ClientInv' BY <1>9 DEF DropStream, SshInv, ClientInv
  <2>2. ForwardInv' BY <1>9 DEF DropStream, SshInv, ForwardInv, OneForwardClient
  <2>3. StatusInv' BY <1>9 DEF DropStream, SshInv, StatusInv, StatusTrue
  <2> QED BY <2>1, <2>2, <2>3 DEF SshInv
<1> QED BY <1>1, <1>2, <1>3, <1>4, <1>5, <1>6, <1>7, <1>8, <1>9 DEF SessionStep

LEMMA InvMenu ==
  ASSUME SshTypeOK, SshInv, NEW s \in Sessions,
         (\E k \in Interactive \cup Commands : OpenSession(s, k))
            \/ MenuConnect(s) \/ MenuReturns(s) \/ Hangup(s)
  PROVE  SshInv'
<1> USE DEF SshTypeOK, Goto, OthersThanSessions, onDemandVars, forwardVars
<1>1. ForwardInv'
  BY DEF OpenSession, MenuConnect, MenuReturns, Hangup, SshInv, ForwardInv, OneForwardClient
<1>2. CASE \E k \in Interactive \cup Commands : OpenSession(s, k)
  <2>1. tunnel[s] = "none" BY <1>2 DEF OpenSession, Free, Serving
  <2>2. ClientInv' BY <1>2, <2>1 DEF OpenSession, SshInv, ClientInv
  <2>3. StatusInv' BY <1>2, <2>1 DEF OpenSession, SshInv, StatusInv, StatusTrue
  <2> QED BY <1>1, <2>2, <2>3 DEF SshInv
<1>3. CASE MenuConnect(s) \/ MenuReturns(s) \/ Hangup(s)
  <2>1. ClientInv' BY <1>3 DEF MenuConnect, MenuReturns, Hangup, SshInv, ClientInv
  <2>2. StatusInv' BY <1>3 DEF MenuConnect, MenuReturns, Hangup, SshInv, StatusInv, StatusTrue
  <2> QED BY <1>1, <2>1, <2>2 DEF SshInv
<1> QED BY <1>2, <1>3

LEMMA InvForward ==
  ASSUME SshTypeOK, SshInv, NEW f \in Forwards,
         OpenForward(f) \/ ForwardStep(f) \/ CopyUpEnds(f) \/ CopyDownEnds(f) \/ Forget(f)
  PROVE  SshInv'
<1> USE SshAssumption
<1> USE DEF SshTypeOK, Clients, Become, Forward, OthersThanForwards, onDemandVars, sessionVars
<1>1. StatusInv'
  BY DEF OpenForward, ForwardStep, LockForward, Redial, DialTarget, CopyUpEnds, CopyDownEnds,
     Forget, SshInv, StatusInv, StatusTrue
<1>2. CASE Redial(f)
  <2>1. ClientInv' BY <1>2 DEF Redial, SshInv, ClientInv
  <2>2. fwdClient = NoClient /\ fwdMu = f BY <1>2 DEF Redial, SshInv, ForwardInv
  <2>3. ForwardInv' BY <1>2, <2>2 DEF Redial, SshInv, ForwardInv, OneForwardClient
  <2> QED BY <1>1, <2>1, <2>3 DEF SshInv
<1>3. CASE LockForward(f)
  <2>1. ClientInv' BY <1>3 DEF LockForward, SshInv, ClientInv
  <2>2. ForwardInv' BY <1>3 DEF LockForward, SshInv, ForwardInv, OneForwardClient
  <2> QED BY <1>1, <2>1, <2>2 DEF SshInv
<1>4. CASE Forget(f)
  <2>1. ClientInv' BY <1>4 DEF Forget, SshInv, ClientInv
  <2>2. ForwardInv' BY <1>4 DEF Forget, SshInv, ForwardInv, OneForwardClient
  <2> QED BY <1>1, <2>1, <2>2 DEF SshInv
<1>5. CASE OpenForward(f) \/ DialTarget(f) \/ CopyUpEnds(f) \/ CopyDownEnds(f)
  <2>1. ClientInv'
    BY <1>5 DEF OpenForward, DialTarget, CopyUpEnds, CopyDownEnds, SshInv, ClientInv
  <2>2. fwdClient' = fwdClient /\ fwdMu' = fwdMu /\ link' = link
    BY <1>5 DEF OpenForward, DialTarget, CopyUpEnds, CopyDownEnds
  <2>3. forward[f] # "redial"
        /\ \E p \in ForwardPhases \ {"redial"} : forward' = [forward EXCEPT ![f] = p]
    BY <1>5 DEF OpenForward, DialTarget, CopyUpEnds, CopyDownEnds, CopyEnds, Free, Serving,
       ForwardPhases
  <2>4. ForwardInv' BY <2>2, <2>3 DEF SshInv, ForwardInv, OneForwardClient
  <2> QED BY <1>1, <2>1, <2>4 DEF SshInv
<1> QED BY <1>2, <1>3, <1>4, <1>5 DEF ForwardStep

LEMMA InvConn ==
  ASSUME SshTypeOK, SshInv, (\E k \in Clients : Lose(k)) \/ Disconnect \/ CloseForwards
  PROVE  SshInv'
<1> USE SshAssumption
<1> USE DEF SshTypeOK, Clients, Become, onDemandVars, forwardVars, sessionVars
<1>1. StatusInv' BY DEF Lose, Disconnect, CloseForwards, SshInv, StatusInv, StatusTrue
<1>2. ClientInv' BY DEF Lose, Disconnect, CloseForwards, SshInv, ClientInv
<1>3. ForwardInv' BY DEF Lose, Disconnect, CloseForwards, SshInv, ForwardInv, OneForwardClient
<1> QED BY <1>1, <1>2, <1>3 DEF SshInv

LEMMA SshInvCorrect == SshSpec => [](SshTypeOK /\ SshInv)
<1>1. SshInit => SshInv
  <2> SUFFICES ASSUME SshInit PROVE SshInv OBVIOUS
  <2>1. ClientInv BY DEF SshInit, ClientInv
  <2>2. ForwardInv
    BY SshAssumption DEF SshInit, ForwardInv, OneForwardClient, Clients
  <2>3. StatusInv BY DEF SshInit, StatusInv, StatusTrue
  <2> QED BY <2>1, <2>2, <2>3 DEF SshInv
<1>2. SshTypeOK /\ SshInv /\ [SshNext]_sshVars => SshInv'
  <2> SUFFICES ASSUME SshTypeOK, SshInv, [SshNext]_sshVars PROVE SshInv' OBVIOUS
  <2>1. CASE UNCHANGED sshVars
    BY <2>1 DEF sshVars, sessionVars, onDemandVars, forwardVars, SshInv, ClientInv, ForwardInv,
       OneForwardClient, StatusInv, StatusTrue
  <2> QED BY <2>1, InvSession, InvMenu, InvForward, InvConn DEF SshNext
<1> QED BY <1>1, <1>2, SshTypeCorrect, TypeStep, PTL DEF SshSpec

-----------------------------------------------------------------------------
(* The properties *)

(* A forward that starts never finds in vmClient a connection that the proxy *)
(* has closed, whichever sessions of the connection ended before.            *)
THEOREM VmClientHeldCorrect == SshSpec => []VmClientHeld
<1>1. SshInv => VmClientHeld BY DEF SshInv, ClientInv, VmClientHeld
<1> QED BY <1>1, SshInvCorrect, PTL

(* An open on-demand connection is the one that fwdClient names, so there is *)
(* never a second one and none is lost.                                      *)
THEOREM OneForwardClientCorrect == SshSpec => []OneForwardClient
<1>1. SshInv => OneForwardClient BY DEF SshInv, ForwardInv
<1> QED BY <1>1, SshInvCorrect, PTL

(* The client of a command is told of a success only after the command has   *)
(* succeeded and both of its streams have come to their end.                 *)
THEOREM StatusTrueCorrect == SshSpec => []StatusTrue
<1>1. SshInv => StatusTrue BY DEF SshInv, StatusInv
<1> QED BY <1>1, SshInvCorrect, PTL
=============================================================================
