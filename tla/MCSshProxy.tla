----------------------------- MODULE MCSshProxy -----------------------------
(* Small instances of SshProxy for TLC. *)
EXTENDS SshProxy, TLC

CONSTANTS s1, s2, f1, f2

OneSession == {s1}
TwoSessions == {s1, s2}
OneForward == {f1}
TwoForwards == {f1, f2}

\* Commands share nothing with other sessions: one session that may run them is enough.
AnyThing == [s \in OneSession |-> Interactive \cup Commands]
AnyAndInteractive == AnyThing @@ s2 :> Interactive
=============================================================================
