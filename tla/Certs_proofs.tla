---------------------------- MODULE Certs_proofs ----------------------------
(***************************************************************************)
(* The safety properties of Certs, for any number of requests and VMs.     *)
(***************************************************************************)
EXTENDS Certs, TLAPS

(* A file lacks its private key only after a write that was cut short. *)
NoneCut ==
    "short write" \notin Faults =>
        /\ \A v \in VMs : file[v] # "cut"
        /\ ServedWhole

(* An order knows of every record it made until it fails or cleans up, and of  *)
(* every one there is if its client stays and the provider answers.           *)
KnownRecords ==
    \A c \in Callers :
        /\ pc[c] = "records" => records[c] = made[c]
        /\ pc[c] \in {"validate"} \cup CleanPhases => made[c] <= records[c]
        /\ Faults \cap {"lost answer", "delete"} = {} /\ c \notin cancelled =>
              /\ pc[c] \in {"validate"} \cup CleanPhases => records[c] = made[c]
              /\ pc[c] \in {"finalize", "save", "write", "leave"} => records[c] = 0

IInv == TypeOK /\ OneIssuePerVM /\ NoNeedlessOrder /\ NoneCut /\ KnownRecords

-----------------------------------------------------------------------------
(* The invariant *)

(* The phases of a request, and the contents of a file. *)
LEMMA PhaseFacts ==
    /\ "idle" \in Phases /\ "lookup" \in Phases /\ "enter" \in Phases /\ "wait" \in Phases
    /\ "order" \in Phases /\ "records" \in Phases /\ "propagate" \in Phases /\ "validate" \in Phases
    /\ "abort" \in Phases /\ "clean" \in Phases /\ "finalize" \in Phases /\ "save" \in Phases
    /\ "write" \in Phases /\ "leave" \in Phases
    /\ "none" \in FileStates /\ "empty" \in FileStates /\ "cut" \in FileStates
    /\ "whole" \in FileStates /\ "due" \in FileStates
BY DEF Phases, Issuing, BeforeSave, OrderPhases, CleanPhases, FileStates

(* The number of challenges of an order is a number. *)
LEMMA ChallengeFacts ==
    /\ MaxChallenges \in Nat
    /\ 0 \in 0 .. MaxChallenges
    /\ \A m, n \in 0 .. MaxChallenges : m < n => m + 1 \in 0 .. MaxChallenges
    /\ \A m \in 0 .. MaxChallenges : m > 0 => m - 1 \in 0 .. MaxChallenges
BY DEF MaxChallenges

(* Taking one away keeps the order of two numbers. *)
LEMMA LessFacts == \A m, n \in Nat : m > 0 /\ m <= n => m - 1 <= n /\ m - 1 <= n - 1
OBVIOUS

(* The records of a request are counted. *)
LEMMA RecordFacts == TypeOK => \A c \in Callers : records[c] \in Nat /\ made[c] \in Nat
<1> SUFFICES ASSUME TypeOK, NEW c \in Callers PROVE records[c] \in Nat /\ made[c] \in Nat
  OBVIOUS
<1>1. records[c] \in 0 .. MaxChallenges /\ made[c] \in 0 .. MaxChallenges
  BY DEF TypeOK
<1> QED BY ONLY <1>1 DEF MaxChallenges

(* It holds before the program first boots. *)
LEMMA InitIInv == Init => IInv
<1> SUFFICES ASSUME Init PROVE IInv
  OBVIOUS
<1> USE CertsAssumption DEF Init
<1>1. TypeOK
  BY PhaseFacts, ChallengeFacts DEF TypeOK
<1>2. OneIssuePerVM /\ NoNeedlessOrder
  BY DEF OneIssuePerVM, NoNeedlessOrder, Issuing, BeforeSave, OrderPhases, CleanPhases
<1>3. NoneCut
  BY DEF NoneCut, ServedWhole
<1>4. KnownRecords
  BY DEF KnownRecords, CleanPhases
<1> QED BY <1>1, <1>2, <1>3, <1>4 DEF IInv

(* What a request reads in a file. *)
LEMMA LoadedFacts ==
    TypeOK => \A c \in Callers : Loaded(c) \in {"error"} \cup FileStates
BY DEF TypeOK, Loaded

(* Every step of a request keeps the types of the variables. *)
LEMMA StepTypeOK ==
    ASSUME NEW c \in Callers, TypeOK, KnownRecords, Step(c)
    PROVE  TypeOK'
<1>0. /\ pending[c] \in 0 .. MaxChallenges /\ made[c] \in 0 .. MaxChallenges
      /\ records[c] \in 0 .. MaxChallenges /\ vm[c] \in VMs
  BY ONLY TypeOK DEF TypeOK
<1>1. CASE Lookup(c)
  <2>1. pc' \in [Callers -> Phases]
    <3>1. \/ pc' = [pc EXCEPT ![c] = "enter"]
          \/ pc' = [pc EXCEPT ![c] = "idle"]
      BY ONLY <1>1 DEF Lookup, Answer
    <3> QED BY ONLY <3>1, TypeOK, PhaseFacts DEF TypeOK
  <2>2. reply' \in [Callers -> {"error"} \cup FileStates]
    <3>1. \/ reply' = reply
          \/ reply' = [reply EXCEPT ![c] = "error"]
      BY ONLY <1>1 DEF Lookup, Answer
    <3> QED BY ONLY <3>1, TypeOK, PhaseFacts DEF TypeOK
  <2>3. UNCHANGED <<vm, cancelled, inProgress, awaits, pending, made, records, file, rows, deleting, account, stage>>
      BY ONLY <1>1 DEF Lookup, Answer, requestVars, flightVars, dnsVars, tableVars, bootVars
  <2> QED BY ONLY <2>1, <2>2, <2>3, TypeOK DEF TypeOK
<1>2. CASE Enter(c)
  <2>1. pc' \in [Callers -> Phases]
    <3>1. \/ pc' = [pc EXCEPT ![c] = "wait"]
          \/ pc' = [pc EXCEPT ![c] = "idle"]
          \/ pc' = [pc EXCEPT ![c] = "order"]
      BY ONLY <1>2 DEF Enter, Answer, flightVars
    <3> QED BY ONLY <3>1, TypeOK, PhaseFacts DEF TypeOK
  <2>2. reply' \in [Callers -> {"error"} \cup FileStates]
    <3>1. \/ reply' = reply
          \/ reply' = [reply EXCEPT ![c] = Loaded(c)]
      BY ONLY <1>2 DEF Enter, Answer, flightVars
    <3> QED BY ONLY <3>1, TypeOK, LoadedFacts DEF TypeOK
  <2>3. inProgress' \in [VMs -> Callers \cup {NoCaller}]
    <3>1. inProgress' = inProgress \/ inProgress' = [inProgress EXCEPT ![vm[c]] = c]
      BY ONLY <1>2 DEF Enter, flightVars
    <3> QED BY ONLY <3>1, TypeOK DEF TypeOK
  <2>4. awaits' \in [Callers -> Callers \cup {NoCaller, "closed"}]
    <3>1. awaits' = awaits \/ awaits' = [awaits EXCEPT ![c] = inProgress[vm[c]]]
      BY ONLY <1>2 DEF Enter, flightVars
    <3>2. inProgress[vm[c]] \in Callers \cup {NoCaller}
      BY ONLY <1>0, TypeOK DEF TypeOK
    <3> QED BY ONLY <3>1, <3>2, TypeOK DEF TypeOK
  <2>5. UNCHANGED <<vm, cancelled, pending, made, records, file, rows, deleting, account, stage>>
      BY ONLY <1>2 DEF Enter, Answer, flightVars, requestVars, flightVars, dnsVars, tableVars, bootVars
  <2> QED BY ONLY <2>1, <2>2, <2>3, <2>4, <2>5, TypeOK DEF TypeOK
<1>3. CASE Wake(c)
  <2>1. pc' \in [Callers -> Phases]
    <3>1. pc' = [pc EXCEPT ![c] = "idle"]
      BY ONLY <1>3 DEF Wake, Answer
    <3> QED BY ONLY <3>1, TypeOK, PhaseFacts DEF TypeOK
  <2>2. reply' \in [Callers -> {"error"} \cup FileStates]
    <3>1. \/ reply' = [reply EXCEPT ![c] = Loaded(c)]
          \/ reply' = [reply EXCEPT ![c] = "error"]
      BY ONLY <1>3 DEF Wake, Answer
    <3> QED BY ONLY <3>1, TypeOK, LoadedFacts DEF TypeOK
  <2>3. awaits' \in [Callers -> Callers \cup {NoCaller, "closed"}]
    <3>1. awaits' = [awaits EXCEPT ![c] = NoCaller]
      BY ONLY <1>3 DEF Wake
    <3> QED BY ONLY <3>1, TypeOK DEF TypeOK
  <2>4. UNCHANGED <<vm, cancelled, inProgress, pending, made, records, file, rows, deleting, account, stage>>
      BY ONLY <1>3 DEF Wake, Answer, requestVars, flightVars, dnsVars, tableVars, bootVars
  <2> QED BY ONLY <2>1, <2>2, <2>3, <2>4, TypeOK DEF TypeOK
<1>4. CASE Order(c)
  <2>1. pc' \in [Callers -> Phases]
    <3>1. \/ pc' = [pc EXCEPT ![c] = "records"]
          \/ pc' = [pc EXCEPT ![c] = "leave"]
      BY ONLY <1>4 DEF Order, Goto, GiveUp
    <3> QED BY ONLY <3>1, TypeOK, PhaseFacts DEF TypeOK
  <2>2. reply' \in [Callers -> {"error"} \cup FileStates]
    <3>1. \/ reply' = reply
          \/ reply' = [reply EXCEPT ![c] = "error"]
      BY ONLY <1>4 DEF Order, Goto, GiveUp
    <3> QED BY ONLY <3>1, TypeOK, PhaseFacts DEF TypeOK
  <2>3. pending' \in [Callers -> 0 .. MaxChallenges]
    <3>1. \/ pending' = pending
          \/ \E n \in 0 .. MaxChallenges : pending' = [pending EXCEPT ![c] = n]
      BY ONLY <1>4 DEF Order
    <3> QED BY ONLY <3>1, TypeOK DEF TypeOK
  <2>4. made' \in [Callers -> 0 .. MaxChallenges]
    <3>1. made' = [made EXCEPT ![c] = 0]
      BY ONLY <1>4 DEF Order
    <3> QED BY ONLY <3>1, TypeOK, ChallengeFacts DEF TypeOK
  <2>5. records' \in [Callers -> 0 .. MaxChallenges]
    <3>1. records' = [records EXCEPT ![c] = 0]
      BY ONLY <1>4 DEF Order
    <3> QED BY ONLY <3>1, TypeOK, ChallengeFacts DEF TypeOK
  <2>6. UNCHANGED <<vm, cancelled, inProgress, awaits, file, rows, deleting, account, stage>>
      BY ONLY <1>4 DEF Order, Goto, GiveUp, requestVars, flightVars, dnsVars, tableVars, bootVars
  <2> QED BY ONLY <2>1, <2>2, <2>3, <2>4, <2>5, <2>6, TypeOK DEF TypeOK
<1>5. CASE CreateRecord(c)
  <2>1. pc' \in [Callers -> Phases]
    <3>1. \/ pc' = pc
          \/ pc' = [pc EXCEPT ![c] = "abort"]
      BY ONLY <1>5 DEF CreateRecord, Goto
    <3> QED BY ONLY <3>1, TypeOK, PhaseFacts DEF TypeOK
  <2>2. made' \in [Callers -> 0 .. MaxChallenges]
    <3>1. made[c] + 1 \in 0 .. MaxChallenges
      BY ONLY <1>0, <1>5, ChallengeFacts DEF CreateRecord
    <3>2. made' = made \/ made' = [made EXCEPT ![c] = made[c] + 1]
      BY ONLY <1>5 DEF CreateRecord
    <3> QED BY ONLY <3>1, <3>2, TypeOK DEF TypeOK
  <2>3. cancelled' \subseteq Callers
    <3>1. cancelled' = cancelled \/ cancelled' = cancelled \cup {c}
      BY ONLY <1>5 DEF CreateRecord
    <3> QED BY ONLY <3>1, TypeOK DEF TypeOK
  <2>4. records' \in [Callers -> 0 .. MaxChallenges]
    <3>1. records[c] + 1 \in 0 .. MaxChallenges
      <4>1. made[c] < pending[c] /\ records[c] = made[c]
        BY ONLY <1>5, KnownRecords DEF CreateRecord, KnownRecords
      <4> QED BY ONLY <1>0, <4>1, ChallengeFacts
    <3>2. records' = records \/ records' = [records EXCEPT ![c] = records[c] + 1]
      BY ONLY <1>5 DEF CreateRecord
    <3> QED BY ONLY <3>1, <3>2, TypeOK DEF TypeOK
  <2>5. UNCHANGED <<vm, reply, inProgress, awaits, pending, file, rows, deleting, account, stage>>
      BY ONLY <1>5 DEF CreateRecord, Goto, requestVars, flightVars, dnsVars, tableVars, bootVars
  <2> QED BY ONLY <2>1, <2>2, <2>3, <2>4, <2>5, TypeOK DEF TypeOK
<1>6. CASE Propagate(c)
  <2>1. pc' \in [Callers -> Phases]
    <3>1. \/ pc' = [pc EXCEPT ![c] = "validate"]
          \/ pc' = [pc EXCEPT ![c] = "abort"]
      BY ONLY <1>6 DEF Propagate, Goto
    <3> QED BY ONLY <3>1, TypeOK, PhaseFacts DEF TypeOK
  <2>2. UNCHANGED <<vm, cancelled, reply, inProgress, awaits, pending, made, records, file, rows, deleting, account, stage>>
      BY ONLY <1>6 DEF Propagate, Goto, requestVars, flightVars, dnsVars, tableVars, bootVars
  <2> QED BY ONLY <2>1, <2>2, TypeOK DEF TypeOK
<1>7. CASE Validate(c)
  <2>1. pc' \in [Callers -> Phases]
    <3>1. \/ pc' = [pc EXCEPT ![c] = "clean"]
          \/ pc' = [pc EXCEPT ![c] = "abort"]
      BY ONLY <1>7 DEF Validate, Goto
    <3> QED BY ONLY <3>1, TypeOK, PhaseFacts DEF TypeOK
  <2>2. UNCHANGED <<vm, cancelled, reply, inProgress, awaits, pending, made, records, file, rows, deleting, account, stage>>
      BY ONLY <1>7 DEF Validate, Goto, requestVars, flightVars, dnsVars, tableVars, bootVars
  <2> QED BY ONLY <2>1, <2>2, TypeOK DEF TypeOK
<1>8. CASE RemoveRecord(c)
  <2>1. made' \in [Callers -> 0 .. MaxChallenges]
    <3>1. made[c] - 1 \in 0 .. MaxChallenges
      BY ONLY <1>0, <1>8, ChallengeFacts DEF RemoveRecord
    <3>2. made' = [made EXCEPT ![c] = made[c] - 1]
      BY ONLY <1>8 DEF RemoveRecord
    <3> QED BY ONLY <3>1, <3>2, TypeOK DEF TypeOK
  <2>2. records' \in [Callers -> 0 .. MaxChallenges]
    <3>1. records[c] - 1 \in 0 .. MaxChallenges
      <4>1. records[c] \in Nat /\ made[c] \in Nat
        BY RecordFacts
      <4>2. made[c] > 0 /\ made[c] <= records[c]
        BY ONLY <1>8, KnownRecords DEF RemoveRecord, KnownRecords
      <4>3. records[c] > 0
        BY ONLY <4>1, <4>2
      <4> QED BY ONLY <1>0, <4>3, ChallengeFacts
    <3>2. records' = records \/ records' = [records EXCEPT ![c] = records[c] - 1]
      BY ONLY <1>8 DEF RemoveRecord
    <3> QED BY ONLY <3>1, <3>2, TypeOK DEF TypeOK
  <2>3. UNCHANGED <<pc, vm, cancelled, reply, inProgress, awaits, pending, file, rows, deleting, account, stage>>
      BY ONLY <1>8 DEF RemoveRecord, requestVars, flightVars, dnsVars, tableVars, bootVars
  <2> QED BY ONLY <2>1, <2>2, <2>3, TypeOK DEF TypeOK
<1>9. CASE EndCleanup(c)
  <2>1. pc' \in [Callers -> Phases]
    <3>1. \/ pc' = [pc EXCEPT ![c] = "finalize"]
          \/ pc' = [pc EXCEPT ![c] = "leave"]
      BY ONLY <1>9 DEF EndCleanup, Goto, GiveUp
    <3> QED BY ONLY <3>1, TypeOK, PhaseFacts DEF TypeOK
  <2>2. reply' \in [Callers -> {"error"} \cup FileStates]
    <3>1. \/ reply' = reply
          \/ reply' = [reply EXCEPT ![c] = "error"]
      BY ONLY <1>9 DEF EndCleanup, Goto, GiveUp
    <3> QED BY ONLY <3>1, TypeOK, PhaseFacts DEF TypeOK
  <2>3. pending' \in [Callers -> 0 .. MaxChallenges]
    <3>1. pending' = [pending EXCEPT ![c] = 0]
      BY ONLY <1>9 DEF EndCleanup
    <3> QED BY ONLY <3>1, TypeOK, ChallengeFacts DEF TypeOK
  <2>4. UNCHANGED <<vm, cancelled, inProgress, awaits, made, records, file, rows, deleting, account, stage>>
      BY ONLY <1>9 DEF EndCleanup, Goto, GiveUp, requestVars, flightVars, dnsVars, tableVars, bootVars
  <2> QED BY ONLY <2>1, <2>2, <2>3, <2>4, TypeOK DEF TypeOK
<1>10. CASE Finalize(c)
  <2>1. pc' \in [Callers -> Phases]
    <3>1. \/ pc' = [pc EXCEPT ![c] = "save"]
          \/ pc' = [pc EXCEPT ![c] = "leave"]
      BY ONLY <1>10 DEF Finalize, Goto, GiveUp
    <3> QED BY ONLY <3>1, TypeOK, PhaseFacts DEF TypeOK
  <2>2. reply' \in [Callers -> {"error"} \cup FileStates]
    <3>1. \/ reply' = reply
          \/ reply' = [reply EXCEPT ![c] = "error"]
      BY ONLY <1>10 DEF Finalize, Goto, GiveUp
    <3> QED BY ONLY <3>1, TypeOK, PhaseFacts DEF TypeOK
  <2>3. UNCHANGED <<vm, cancelled, inProgress, awaits, pending, made, records, file, rows, deleting, account, stage>>
      BY ONLY <1>10 DEF Finalize, Goto, GiveUp, requestVars, flightVars, dnsVars, tableVars, bootVars
  <2> QED BY ONLY <2>1, <2>2, <2>3, TypeOK DEF TypeOK
<1>11. CASE Save(c)
  <2>1. pc' \in [Callers -> Phases]
    <3>1. \/ pc' = [pc EXCEPT ![c] = "write"]
          \/ pc' = [pc EXCEPT ![c] = "leave"]
      BY ONLY <1>11 DEF Save, Goto, GiveUp
    <3> QED BY ONLY <3>1, TypeOK, PhaseFacts DEF TypeOK
  <2>2. reply' \in [Callers -> {"error"} \cup FileStates]
    <3>1. \/ reply' = reply
          \/ reply' = [reply EXCEPT ![c] = "error"]
      BY ONLY <1>11 DEF Save, Goto, GiveUp
    <3> QED BY ONLY <3>1, TypeOK, PhaseFacts DEF TypeOK
  <2>3. file' \in [VMs -> FileStates]
    <3>1. file' = file \/ file' = [file EXCEPT ![vm[c]] = "empty"]
      BY ONLY <1>11 DEF Save
    <3> QED BY ONLY <3>1, TypeOK, PhaseFacts DEF TypeOK
  <2>4. UNCHANGED <<vm, cancelled, inProgress, awaits, pending, made, records, rows, deleting, account, stage>>
      BY ONLY <1>11 DEF Save, Goto, GiveUp, requestVars, flightVars, dnsVars, tableVars, bootVars
  <2> QED BY ONLY <2>1, <2>2, <2>3, <2>4, TypeOK DEF TypeOK
<1>12. CASE Write(c)
  <2>1. pc' \in [Callers -> Phases]
    <3>1. pc' = [pc EXCEPT ![c] = "leave"]
      BY ONLY <1>12 DEF Write, Goto, GiveUp
    <3> QED BY ONLY <3>1, TypeOK, PhaseFacts DEF TypeOK
  <2>2. reply' \in [Callers -> {"error"} \cup FileStates]
    <3>1. \/ reply' = [reply EXCEPT ![c] = "whole"]
          \/ reply' = [reply EXCEPT ![c] = "error"]
      BY ONLY <1>12 DEF Write, Goto, GiveUp
    <3> QED BY ONLY <3>1, TypeOK, PhaseFacts DEF TypeOK
  <2>3. file' \in [VMs -> FileStates]
    <3>1. \/ file' = file
          \/ file' = [file EXCEPT ![vm[c]] = IF @ = "none" THEN @ ELSE "whole"]
          \/ file' = [file EXCEPT ![vm[c]] = IF @ = "none" THEN @ ELSE "cut"]
      BY ONLY <1>12 DEF Write
    <3> QED BY ONLY <3>1, TypeOK, PhaseFacts DEF TypeOK
  <2>4. UNCHANGED <<vm, cancelled, inProgress, awaits, pending, made, records, rows, deleting, account, stage>>
      BY ONLY <1>12 DEF Write, Goto, GiveUp, requestVars, flightVars, dnsVars, tableVars, bootVars
  <2> QED BY ONLY <2>1, <2>2, <2>3, <2>4, TypeOK DEF TypeOK
<1>13. CASE Leave(c)
  <2>1. pc' \in [Callers -> Phases]
    <3>1. pc' = [pc EXCEPT ![c] = "idle"]
      BY ONLY <1>13 DEF Leave
    <3> QED BY ONLY <3>1, TypeOK, PhaseFacts DEF TypeOK
  <2>2. inProgress' \in [VMs -> Callers \cup {NoCaller}]
    <3>1. inProgress' = [inProgress EXCEPT ![vm[c]] = NoCaller]
      BY ONLY <1>13 DEF Leave
    <3> QED BY ONLY <3>1, TypeOK DEF TypeOK
  <2>3. awaits' \in [Callers -> Callers \cup {NoCaller, "closed"}]
    <3>1. awaits' = [d \in Callers |-> IF awaits[d] = c THEN "closed" ELSE awaits[d]]
      BY ONLY <1>13 DEF Leave
    <3> QED BY ONLY <3>1, TypeOK DEF TypeOK
  <2>4. UNCHANGED <<vm, cancelled, reply, pending, made, records, file, rows, deleting, account, stage>>
      BY ONLY <1>13 DEF Leave, requestVars, flightVars, dnsVars, tableVars, bootVars
  <2> QED BY ONLY <2>1, <2>2, <2>3, <2>4, TypeOK DEF TypeOK
<1> QED BY <1>1, <1>2, <1>3, <1>4, <1>5, <1>6, <1>7, <1>8, <1>9, <1>10, <1>11, <1>12, <1>13 DEF Step

(* Every step of a request keeps its records and what it knows of them.  The *)
(* other requests have records of their own.                                 *)
LEMMA StepKnownRecords ==
    ASSUME NEW c \in Callers, TypeOK, KnownRecords, Step(c)
    PROVE  KnownRecords'
<1> SUFFICES ASSUME NEW d \in Callers
             PROVE  /\ pc'[d] = "records" => records'[d] = made'[d]
                    /\ pc'[d] \in {"validate"} \cup CleanPhases => made'[d] <= records'[d]
                    /\ Faults \cap {"lost answer", "delete"} = {} /\ d \notin cancelled' =>
                          /\ pc'[d] \in {"validate"} \cup CleanPhases => records'[d] = made'[d]
                          /\ pc'[d] \in {"finalize", "save", "write", "leave"} => records'[d] = 0
  BY DEF KnownRecords
<1> USE DEF TypeOK, KnownRecords, CleanPhases, Goto, GiveUp, Answer,
            requestVars, flightVars, dnsVars, tableVars, bootVars
<1>0. records[d] \in Nat /\ made[d] \in Nat
  BY RecordFacts
<1>1. CASE Lookup(c)
  BY <1>0, <1>1 DEF Lookup
<1>2. CASE Enter(c)
  BY <1>0, <1>2 DEF Enter
<1>3. CASE Wake(c)
  BY <1>0, <1>3 DEF Wake
<1>4. CASE Order(c)
  BY <1>0, <1>4 DEF Order
<1>5. CASE CreateRecord(c)
  <2> USE <1>5 DEF CreateRecord
  <2>1. CASE d # c
    <3>1. /\ pc'[d] = pc[d] /\ records'[d] = records[d] /\ made'[d] = made[d]
          /\ d \notin cancelled' => d \notin cancelled
      BY <2>1
    <3> QED BY ONLY <3>1, KnownRecords DEF KnownRecords
  <2>2. CASE d = c
    <3>1. \/ pc'[c] = pc[c] /\ records'[c] = records[c] + 1 /\ made'[c] = made[c] + 1
          \/ pc'[c] = "abort" /\ records'[c] = records[c] /\ made'[c] = made[c]
          \/ /\ pc'[c] = "abort" /\ records'[c] = records[c] + 1 /\ made'[c] = made[c]
             /\ c \in cancelled' \/ "lost answer" \in Faults
      OBVIOUS
    <3>2. pc[c] = "records" /\ records[c] = made[c] /\ c \in Callers
      OBVIOUS
    <3>3. made'[c] <= records'[c] /\ (pc'[c] = "records" => records'[c] = made'[c])
      <4>1. made[c] \in Nat /\ records[c] \in Nat
        BY <1>0, <2>2
      <4>2. made[c] <= records[c] /\ made[c] <= records[c] + 1 /\ made[c] + 1 <= records[c] + 1
        BY ONLY <4>1, <3>2
      <4> QED BY ONLY <3>1, <3>2, <4>2
    <3>4. Faults \cap {"lost answer", "delete"} = {} /\ c \notin cancelled' =>
              records'[c] = made'[c]
      BY ONLY <1>0, <2>2, <3>1, <3>2
    <3>5. pc'[c] \in {"records", "abort"}
      BY ONLY <3>1, <3>2
    <3> QED BY ONLY <2>2, <3>3, <3>4, <3>5
  <2> QED BY <2>1, <2>2
<1>6. CASE Propagate(c)
  <2> USE <1>6 DEF Propagate
  <2>1. CASE d # c
    <3>1. /\ pc'[d] = pc[d] /\ records'[d] = records[d] /\ made'[d] = made[d]
          /\ d \notin cancelled' => d \notin cancelled
      BY <2>1
    <3> QED BY ONLY <3>1, KnownRecords DEF KnownRecords
  <2>2. CASE d = c
    <3>1. records'[c] = made'[c] /\ records'[c] \in Nat /\ made'[c] <= records'[c]
      <4>1. records'[c] = records[c] /\ made'[c] = made[c] /\ made[c] = records[c]
        OBVIOUS
      <4>2. made[c] <= records[c]
        BY ONLY <1>0, <2>2, <4>1
      <4> QED BY ONLY <1>0, <2>2, <4>1, <4>2
    <3>2. pc'[c] \in {"validate", "abort"}
      OBVIOUS
    <3> QED BY ONLY <2>2, <3>1, <3>2
  <2> QED BY <2>1, <2>2
<1>7. CASE Validate(c)
  BY <1>0, <1>7 DEF Validate
<1>8. CASE RemoveRecord(c)
  <2> USE <1>8 DEF RemoveRecord
  <2>1. CASE d # c
    <3>1. /\ pc'[d] = pc[d] /\ records'[d] = records[d] /\ made'[d] = made[d]
          /\ d \notin cancelled' => d \notin cancelled
      BY <2>1
    <3> QED BY ONLY <3>1, KnownRecords DEF KnownRecords
  <2>2. CASE d = c
    <3>1. \/ records'[c] = records[c] - 1 /\ made'[c] = made[c] - 1
          \/ /\ records'[c] = records[c] /\ made'[c] = made[c] - 1
             /\ c \in cancelled' \/ "delete" \in Faults
      OBVIOUS
    <3>2. /\ pc[c] \in CleanPhases /\ pc'[c] = pc[c] /\ made[c] > 0 /\ made[c] <= records[c]
          /\ Faults \cap {"lost answer", "delete"} = {} /\ c \notin cancelled => records[c] = made[c]
          /\ cancelled' = cancelled
      OBVIOUS
    <3>3. made'[c] <= records'[c]
      <4>1. made[c] \in Nat /\ records[c] \in Nat
        BY <1>0, <2>2
      <4>2. made[c] - 1 <= records[c] /\ made[c] - 1 <= records[c] - 1
        BY ONLY <4>1, <3>2, LessFacts
      <4> QED BY ONLY <3>1, <4>2
    <3>4. Faults \cap {"lost answer", "delete"} = {} /\ c \notin cancelled' =>
              records'[c] = made'[c]
      BY ONLY <1>0, <2>2, <3>1, <3>2
    <3>5. pc'[c] \in {"abort", "clean"}
      BY ONLY <3>2 DEF CleanPhases
    <3> QED BY ONLY <2>2, <3>3, <3>4, <3>5
  <2> QED BY <2>1, <2>2
<1>9. CASE EndCleanup(c)
  BY <1>0, <1>9 DEF EndCleanup
<1>10. CASE Finalize(c)
  BY <1>0, <1>10 DEF Finalize
<1>11. CASE Save(c)
  BY <1>0, <1>11 DEF Save
<1>12. CASE Write(c)
  BY <1>0, <1>12 DEF Write
<1>13. CASE Leave(c)
  BY <1>0, <1>13 DEF Leave
<1> QED BY <1>1, <1>2, <1>3, <1>4, <1>5, <1>6, <1>7, <1>8, <1>9, <1>10, <1>11, <1>12, <1>13 DEF Step

(* A step of a request that starts no order and leaves map and files alone. *)
Quiet(c) ==
    /\ UNCHANGED <<vm, file, inProgress>>
    /\ \A d \in Callers \ {c} : pc'[d] = pc[d] /\ reply'[d] = reply[d]
    /\ pc'[c] \in Issuing => pc[c] \in Issuing
    /\ pc'[c] \in BeforeSave => pc[c] \in BeforeSave
    /\ reply'[c] \in {reply[c], "error", Loaded(c)}

(* It keeps the rest of the invariant. *)
LEMMA QuietStep ==
    ASSUME NEW c \in Callers, IInv, Quiet(c)
    PROVE  OneIssuePerVM' /\ NoNeedlessOrder' /\ NoneCut'
<1>1. OneIssuePerVM'
  <2> SUFFICES ASSUME NEW d \in Callers, pc'[d] \in Issuing PROVE inProgress'[vm'[d]] = d
    BY DEF OneIssuePerVM
  <2>1. pc[d] \in Issuing
    BY ONLY Quiet(c), pc'[d] \in Issuing DEF Quiet
  <2> QED BY ONLY <2>1, IInv, Quiet(c) DEF IInv, OneIssuePerVM, Quiet
<1>2. NoNeedlessOrder'
  <2> SUFFICES ASSUME NEW d \in Callers, pc'[d] \in BeforeSave PROVE ~Loadable(file'[vm'[d]])
    BY DEF NoNeedlessOrder
  <2>1. pc[d] \in BeforeSave
    BY ONLY Quiet(c), pc'[d] \in BeforeSave DEF Quiet
  <2> QED BY ONLY <2>1, IInv, Quiet(c) DEF IInv, NoNeedlessOrder, Quiet
<1>3. NoneCut'
  <2>1. ASSUME "short write" \notin Faults, NEW d \in Callers
        PROVE  reply'[d] \notin {"empty", "cut"}
    <3>1. reply[d] \notin {"empty", "cut"} /\ \A v \in VMs : file[v] # "cut"
      BY ONLY IInv, <2>1 DEF IInv, NoneCut, ServedWhole
    <3>2. vm[d] \in VMs
      BY ONLY IInv DEF IInv, TypeOK
    <3>3. reply'[d] \in {reply[d], "error", Loaded(d)}
      BY ONLY Quiet(c) DEF Quiet
    <3>4. Loaded(d) \notin {"empty", "cut"}
      BY ONLY <3>1, <3>2 DEF Loaded, Loadable
    <3> QED BY ONLY <3>1, <3>3, <3>4
  <2>2. ASSUME "short write" \notin Faults PROVE \A v \in VMs : file'[v] # "cut"
    BY ONLY IInv, Quiet(c), <2>2 DEF IInv, NoneCut, Quiet
  <2> QED BY <2>1, <2>2 DEF NoneCut, ServedWhole
<1> QED BY <1>1, <1>2, <1>3

(* Every step of a request keeps the invariant: one request issues for a VM, *)
(* so that no other can change the file under it.                            *)
LEMMA StepIInv ==
    ASSUME NEW c \in Callers, IInv, Step(c)
    PROVE  IInv'
<1>0. TypeOK' /\ KnownRecords'
  BY StepTypeOK, StepKnownRecords DEF IInv
<1> SUFFICES OneIssuePerVM' /\ NoNeedlessOrder' /\ NoneCut'
  BY <1>0 DEF IInv
<1>t. TypeOK
  BY DEF IInv
<1>1. CASE Lookup(c)
  <2>1. Quiet(c)
    BY ONLY <1>1, <1>t
       DEF Lookup, Answer, Quiet, TypeOK, flightVars, dnsVars, requestVars,
           Issuing, BeforeSave, OrderPhases, CleanPhases
  <2> QED BY <2>1, QuietStep
<1>2. CASE Enter(c)
  <2>1. CASE inProgress[vm[c]] = NoCaller /\ ~Loadable(file[vm[c]])
    <3>1. /\ pc[c] = "enter" /\ pc' = [pc EXCEPT ![c] = "order"]
          /\ inProgress' = [inProgress EXCEPT ![vm[c]] = c]
          /\ UNCHANGED <<vm, reply, file>>
      BY ONLY <1>2, <2>1 DEF Enter
    <3>2. OneIssuePerVM'
      <4> SUFFICES ASSUME NEW d \in Callers, pc'[d] \in Issuing PROVE inProgress'[vm'[d]] = d
        BY DEF OneIssuePerVM
      <4>1. vm[d] \in VMs /\ vm[c] \in VMs /\ inProgress \in [VMs -> Callers \cup {NoCaller}]
        BY ONLY <1>t DEF TypeOK
      <4>2. CASE d = c
        BY ONLY <3>1, <4>1, <4>2
      <4>3. CASE d # c
        <5>1. pc[d] \in Issuing
          BY ONLY <1>t, <3>1, <4>3, pc'[d] \in Issuing DEF TypeOK
        <5>2. inProgress[vm[d]] = d
          BY ONLY <5>1, IInv DEF IInv, OneIssuePerVM
        <5>3. d # NoCaller
          BY CertsAssumption
        <5> QED BY ONLY <2>1, <3>1, <4>1, <5>2, <5>3
      <4> QED BY <4>2, <4>3
    <3>3. NoNeedlessOrder'
      <4> SUFFICES ASSUME NEW d \in Callers, pc'[d] \in BeforeSave PROVE ~Loadable(file'[vm'[d]])
        BY DEF NoNeedlessOrder
      <4>1. CASE d = c
        BY ONLY <2>1, <3>1, <4>1
      <4>2. CASE d # c
        <5>1. pc[d] \in BeforeSave
          BY ONLY <1>t, <3>1, <4>2, pc'[d] \in BeforeSave DEF TypeOK
        <5> QED BY ONLY <3>1, <5>1, IInv DEF IInv, NoNeedlessOrder
      <4> QED BY <4>1, <4>2
    <3>4. NoneCut'
      BY ONLY <3>1, IInv DEF IInv, NoneCut, ServedWhole
    <3> QED BY <3>2, <3>3, <3>4
  <2>2. CASE ~(inProgress[vm[c]] = NoCaller /\ ~Loadable(file[vm[c]]))
    <3>1. Quiet(c)
      BY ONLY <1>2, <2>2, <1>t
         DEF Enter, Answer, Quiet, TypeOK, flightVars, Issuing, BeforeSave, OrderPhases, CleanPhases
    <3> QED BY <3>1, QuietStep
  <2> QED BY <2>1, <2>2
<1>3. CASE Wake(c)
  <2>1. Quiet(c)
    BY ONLY <1>3, <1>t
       DEF Wake, Answer, Quiet, TypeOK, flightVars, dnsVars, requestVars,
           Issuing, BeforeSave, OrderPhases, CleanPhases
  <2> QED BY <2>1, QuietStep
<1>4. CASE Order(c)
  <2>1. Quiet(c)
    BY ONLY <1>4, <1>t
       DEF Order, Goto, GiveUp, Quiet, TypeOK, flightVars, dnsVars, requestVars,
           Issuing, BeforeSave, OrderPhases, CleanPhases
  <2> QED BY <2>1, QuietStep
<1>5. CASE CreateRecord(c)
  <2>1. Quiet(c)
    BY ONLY <1>5, <1>t
       DEF CreateRecord, Goto, Quiet, TypeOK, flightVars, dnsVars, requestVars,
           Issuing, BeforeSave, OrderPhases, CleanPhases
  <2> QED BY <2>1, QuietStep
<1>6. CASE Propagate(c)
  <2>1. Quiet(c)
    BY ONLY <1>6, <1>t
       DEF Propagate, Goto, Quiet, TypeOK, flightVars, dnsVars, requestVars,
           Issuing, BeforeSave, OrderPhases, CleanPhases
  <2> QED BY <2>1, QuietStep
<1>7. CASE Validate(c)
  <2>1. Quiet(c)
    BY ONLY <1>7, <1>t
       DEF Validate, Goto, Quiet, TypeOK, flightVars, dnsVars, requestVars,
           Issuing, BeforeSave, OrderPhases, CleanPhases
  <2> QED BY <2>1, QuietStep
<1>8. CASE RemoveRecord(c)
  <2>1. Quiet(c)
    BY ONLY <1>8, <1>t
       DEF RemoveRecord, Quiet, TypeOK, flightVars, dnsVars, requestVars,
           Issuing, BeforeSave, OrderPhases, CleanPhases
  <2> QED BY <2>1, QuietStep
<1>9. CASE EndCleanup(c)
  <2>1. Quiet(c)
    BY ONLY <1>9, <1>t
       DEF EndCleanup, Goto, GiveUp, Quiet, TypeOK, flightVars, dnsVars, requestVars,
           Issuing, BeforeSave, OrderPhases, CleanPhases
  <2> QED BY <2>1, QuietStep
<1>10. CASE Finalize(c)
  <2>1. Quiet(c)
    BY ONLY <1>10, <1>t
       DEF Finalize, Goto, GiveUp, Quiet, TypeOK, flightVars, dnsVars, requestVars,
           Issuing, BeforeSave, OrderPhases, CleanPhases
  <2> QED BY <2>1, QuietStep
<1>11. CASE Save(c)
  <2>1. /\ pc[c] = "save" /\ pc'[c] \in {"write", "leave"}
        /\ \A d \in Callers \ {c} : pc'[d] = pc[d]
        /\ UNCHANGED <<vm, inProgress>>
        /\ reply' = reply \/ reply' = [reply EXCEPT ![c] = "error"]
        /\ file' = file \/ file' = [file EXCEPT ![vm[c]] = "empty"]
    BY ONLY <1>11, <1>t DEF Save, Goto, GiveUp, TypeOK, flightVars
  <2>2. OneIssuePerVM'
    <3> SUFFICES ASSUME NEW d \in Callers, pc'[d] \in Issuing PROVE inProgress'[vm'[d]] = d
      BY DEF OneIssuePerVM
    <3>1. pc[d] \in Issuing
      BY ONLY <2>1, pc'[d] \in Issuing DEF Issuing, BeforeSave, OrderPhases, CleanPhases
    <3> QED BY ONLY <2>1, <3>1, IInv DEF IInv, OneIssuePerVM
  <2>3. NoNeedlessOrder'
    <3> SUFFICES ASSUME NEW d \in Callers, pc'[d] \in BeforeSave PROVE ~Loadable(file'[vm'[d]])
      BY DEF NoNeedlessOrder
    <3>1. d # c
      BY ONLY <2>1, pc'[d] \in BeforeSave DEF BeforeSave, OrderPhases, CleanPhases
    <3>2. pc[d] \in BeforeSave /\ vm'[d] = vm[d]
      BY ONLY <2>1, <3>1, pc'[d] \in BeforeSave
    <3>3. vm[d] # vm[c]
      <4>1. inProgress[vm[d]] = d /\ inProgress[vm[c]] = c
        BY ONLY <2>1, <3>2, IInv DEF IInv, OneIssuePerVM, Issuing, BeforeSave
      <4> QED BY ONLY <3>1, <4>1
    <3>4. file'[vm[d]] = file[vm[d]]
      BY ONLY <1>t, <2>1, <3>3 DEF TypeOK
    <3> QED BY ONLY <3>2, <3>4, IInv DEF IInv, NoNeedlessOrder, Loadable
  <2>4. NoneCut'
    BY ONLY <1>t, <2>1, IInv DEF IInv, TypeOK, NoneCut, ServedWhole
  <2> QED BY <2>2, <2>3, <2>4
<1>12. CASE Write(c)
  <2>1. /\ pc[c] = "write" /\ pc'[c] \in {"leave"}
        /\ \A d \in Callers \ {c} : pc'[d] = pc[d]
        /\ UNCHANGED <<vm, inProgress>>
        /\ reply' = [reply EXCEPT ![c] = "whole"] \/ reply' = [reply EXCEPT ![c] = "error"]
        /\ \/ file' = file
           \/ file' = [file EXCEPT ![vm[c]] = IF @ = "none" THEN @ ELSE "whole"]
           \/ /\ "short write" \in Faults
              /\ file' = [file EXCEPT ![vm[c]] = IF @ = "none" THEN @ ELSE "cut"]
    BY ONLY <1>12, <1>t DEF Write, Goto, GiveUp, TypeOK, flightVars
  <2>2. OneIssuePerVM'
    <3> SUFFICES ASSUME NEW d \in Callers, pc'[d] \in Issuing PROVE inProgress'[vm'[d]] = d
      BY DEF OneIssuePerVM
    <3>1. pc[d] \in Issuing
      BY ONLY <2>1, pc'[d] \in Issuing DEF Issuing, BeforeSave, OrderPhases, CleanPhases
    <3> QED BY ONLY <2>1, <3>1, IInv DEF IInv, OneIssuePerVM
  <2>3. NoNeedlessOrder'
    <3> SUFFICES ASSUME NEW d \in Callers, pc'[d] \in BeforeSave PROVE ~Loadable(file'[vm'[d]])
      BY DEF NoNeedlessOrder
    <3>1. d # c
      BY ONLY <2>1, pc'[d] \in BeforeSave DEF BeforeSave, OrderPhases, CleanPhases
    <3>2. pc[d] \in BeforeSave /\ vm'[d] = vm[d]
      BY ONLY <2>1, <3>1, pc'[d] \in BeforeSave
    <3>3. vm[d] # vm[c]
      <4>1. inProgress[vm[d]] = d /\ inProgress[vm[c]] = c
        BY ONLY <2>1, <3>2, IInv DEF IInv, OneIssuePerVM, Issuing, BeforeSave
      <4> QED BY ONLY <3>1, <4>1
    <3>4. file'[vm[d]] = file[vm[d]]
      BY ONLY <1>t, <2>1, <3>3 DEF TypeOK
    <3> QED BY ONLY <3>2, <3>4, IInv DEF IInv, NoNeedlessOrder, Loadable
  <2>4. NoneCut'
    BY ONLY <1>t, <2>1, IInv DEF IInv, TypeOK, NoneCut, ServedWhole
  <2> QED BY <2>2, <2>3, <2>4
<1>13. CASE Leave(c)
  <2>1. /\ pc[c] = "leave" /\ pc'[c] = "idle"
        /\ \A d \in Callers \ {c} : pc'[d] = pc[d]
        /\ inProgress' = [inProgress EXCEPT ![vm[c]] = NoCaller]
        /\ UNCHANGED <<vm, reply, file>>
    BY ONLY <1>13, <1>t DEF Leave, TypeOK
  <2>2. OneIssuePerVM'
    <3> SUFFICES ASSUME NEW d \in Callers, pc'[d] \in Issuing PROVE inProgress'[vm'[d]] = d
      BY DEF OneIssuePerVM
    <3>1. d # c
      BY ONLY <2>1, pc'[d] \in Issuing DEF Issuing, BeforeSave, OrderPhases, CleanPhases
    <3>2. pc[d] \in Issuing /\ pc[c] \in Issuing
      BY ONLY <2>1, <3>1, pc'[d] \in Issuing DEF Issuing
    <3>3. inProgress[vm[d]] = d /\ inProgress[vm[c]] = c
      BY ONLY <3>2, IInv DEF IInv, OneIssuePerVM
    <3>4. vm[d] \in VMs /\ inProgress \in [VMs -> Callers \cup {NoCaller}]
      BY ONLY <1>t DEF TypeOK
    <3> QED BY ONLY <2>1, <3>1, <3>3, <3>4
  <2>3. NoNeedlessOrder'
    <3> SUFFICES ASSUME NEW d \in Callers, pc'[d] \in BeforeSave PROVE ~Loadable(file'[vm'[d]])
      BY DEF NoNeedlessOrder
    <3>1. pc[d] \in BeforeSave
      BY ONLY <2>1, pc'[d] \in BeforeSave DEF BeforeSave, OrderPhases, CleanPhases
    <3> QED BY ONLY <2>1, <3>1, IInv DEF IInv, NoNeedlessOrder
  <2>4. NoneCut'
    BY ONLY <2>1, IInv DEF IInv, NoneCut, ServedWhole
  <2> QED BY <2>2, <2>3, <2>4
<1> QED BY <1>1, <1>2, <1>3, <1>4, <1>5, <1>6, <1>7, <1>8, <1>9, <1>10, <1>11, <1>12, <1>13 DEF Step

(* So does everything else that can happen: clients, deletions, expiry, boot *)
(* and crashes.                                                               *)
LEMMA OtherIInv ==
    ASSUME IInv,
           \/ \E c \in Callers : Cancel(c) \/ \E v \in VMs : Request(c, v)
           \/ \E v \in VMs : DeleteCertificate(v) \/ DeleteVM(v) \/ Age(v)
           \/ Boot \/ LoadAccountKey \/ SaveAccountKey \/ FindZone
           \/ Crash
    PROVE  IInv'
<1> USE CertsAssumption
    DEF IInv, TypeOK, Loadable, Issuing, BeforeSave, OrderPhases, CleanPhases, Phases, FileStates,
        requestVars, flightVars, dnsVars, tableVars, bootVars
<1>1. ASSUME NEW c \in Callers, Cancel(c) PROVE IInv'
  <2> USE <1>1 DEF Cancel
  <2>1. TypeOK'
    OBVIOUS
  <2>2. OneIssuePerVM' /\ NoNeedlessOrder'
    BY DEF OneIssuePerVM, NoNeedlessOrder
  <2>3. NoneCut'
    BY DEF NoneCut, ServedWhole
  <2>4. KnownRecords'
    BY DEF KnownRecords
  <2> QED BY <2>1, <2>2, <2>3, <2>4
<1>2. ASSUME NEW c \in Callers, NEW v \in VMs, Request(c, v) PROVE IInv'
  <2> USE <1>2 DEF Request
  <2>1. TypeOK'
    OBVIOUS
  <2>2. OneIssuePerVM' /\ NoNeedlessOrder'
    <3>1. pc'[c] \in {"idle", "lookup"} /\ \A d \in Callers \ {c} : pc'[d] = pc[d] /\ vm'[d] = vm[d]
      OBVIOUS
    <3> QED BY <3>1 DEF OneIssuePerVM, NoNeedlessOrder
  <2>3. NoneCut'
    BY DEF NoneCut, ServedWhole
  <2>4. KnownRecords'
    <3>1. /\ pc'[c] \in {"idle", "lookup"} /\ UNCHANGED <<records, made>>
          /\ \A d \in Callers \ {c} : pc'[d] = pc[d] /\ (d \notin cancelled' => d \notin cancelled)
      OBVIOUS
    <3> QED BY ONLY <3>1, IInv DEF IInv, KnownRecords, CleanPhases
  <2> QED BY <2>1, <2>2, <2>3, <2>4
<1>3. ASSUME NEW v \in VMs, DeleteCertificate(v) PROVE IInv'
  <2> USE <1>3 DEF DeleteCertificate
  <2>1. TypeOK'
    OBVIOUS
  <2>2. OneIssuePerVM' /\ NoNeedlessOrder'
    BY DEF OneIssuePerVM, NoNeedlessOrder
  <2>3. NoneCut'
    BY DEF NoneCut, ServedWhole
  <2>4. KnownRecords'
    BY DEF KnownRecords
  <2> QED BY <2>1, <2>2, <2>3, <2>4
<1>4. ASSUME NEW v \in VMs, DeleteVM(v) PROVE IInv'
  <2> USE <1>4 DEF DeleteVM
  <2>1. TypeOK'
    OBVIOUS
  <2>2. OneIssuePerVM' /\ NoNeedlessOrder'
    BY DEF OneIssuePerVM, NoNeedlessOrder
  <2>3. NoneCut'
    BY DEF NoneCut, ServedWhole
  <2>4. KnownRecords'
    BY DEF KnownRecords
  <2> QED BY <2>1, <2>2, <2>3, <2>4
<1>5. ASSUME NEW v \in VMs, Age(v) PROVE IInv'
  <2> USE <1>5 DEF Age
  <2>1. TypeOK'
    OBVIOUS
  <2>2. OneIssuePerVM' /\ NoNeedlessOrder'
    BY DEF OneIssuePerVM, NoNeedlessOrder
  <2>3. NoneCut'
    BY DEF NoneCut, ServedWhole
  <2>4. KnownRecords'
    BY DEF KnownRecords
  <2> QED BY <2>1, <2>2, <2>3, <2>4
<1>6. CASE Boot
  <2> USE <1>6 DEF Boot
  <2>1. TypeOK'
    OBVIOUS
  <2>2. OneIssuePerVM' /\ NoNeedlessOrder'
    BY DEF OneIssuePerVM, NoNeedlessOrder
  <2>3. NoneCut'
    BY DEF NoneCut, ServedWhole
  <2>4. KnownRecords'
    BY DEF KnownRecords
  <2> QED BY <2>1, <2>2, <2>3, <2>4
<1>7. CASE LoadAccountKey
  <2> USE <1>7 DEF LoadAccountKey
  <2>1. TypeOK'
    OBVIOUS
  <2>2. OneIssuePerVM' /\ NoNeedlessOrder'
    BY DEF OneIssuePerVM, NoNeedlessOrder
  <2>3. NoneCut'
    BY DEF NoneCut, ServedWhole
  <2>4. KnownRecords'
    BY DEF KnownRecords
  <2> QED BY <2>1, <2>2, <2>3, <2>4
<1>8. CASE SaveAccountKey
  <2> USE <1>8 DEF SaveAccountKey
  <2>1. TypeOK'
    OBVIOUS
  <2>2. OneIssuePerVM' /\ NoNeedlessOrder'
    BY DEF OneIssuePerVM, NoNeedlessOrder
  <2>3. NoneCut'
    BY DEF NoneCut, ServedWhole
  <2>4. KnownRecords'
    BY DEF KnownRecords
  <2> QED BY <2>1, <2>2, <2>3, <2>4
<1>9. CASE FindZone
  <2> USE <1>9 DEF FindZone
  <2>1. TypeOK'
    OBVIOUS
  <2>2. OneIssuePerVM' /\ NoNeedlessOrder'
    BY DEF OneIssuePerVM, NoNeedlessOrder
  <2>3. NoneCut'
    BY DEF NoneCut, ServedWhole
  <2>4. KnownRecords'
    BY DEF KnownRecords
  <2> QED BY <2>1, <2>2, <2>3, <2>4
<1>10. CASE Crash
  <2> USE <1>10 DEF Crash
  <2>1. TypeOK'
    <3>1. pending' \in [Callers -> 0 .. MaxChallenges] /\ made' \in [Callers -> 0 .. MaxChallenges]
      BY ONLY Crash, ChallengeFacts DEF Crash
    <3>2. records' \in [Callers -> 0 .. MaxChallenges]
      BY ONLY Crash, TypeOK DEF Crash, TypeOK
    <3> QED BY <3>1, <3>2
  <2>2. OneIssuePerVM' /\ NoNeedlessOrder'
    BY DEF OneIssuePerVM, NoNeedlessOrder
  <2>3. NoneCut'
    BY DEF NoneCut, ServedWhole
  <2>4. KnownRecords'
    BY DEF KnownRecords
  <2> QED BY <2>1, <2>2, <2>3, <2>4
<1> QED BY <1>1, <1>2, <1>3, <1>4, <1>5, <1>6, <1>7, <1>8, <1>9, <1>10

(* The invariant is inductive. *)
LEMMA NextIInv == IInv /\ [Next]_certVars => IInv'
<1> SUFFICES ASSUME IInv, [Next]_certVars PROVE IInv'
  OBVIOUS
<1>1. CASE \E c \in Callers : Step(c)
  BY <1>1, StepIInv
<1>2. CASE UNCHANGED certVars
  BY <1>2 DEF certVars, requestVars, flightVars, dnsVars, tableVars, bootVars, IInv, TypeOK,
              OneIssuePerVM, NoNeedlessOrder, NoneCut, ServedWhole, Loadable, KnownRecords
<1>3. CASE Next /\ ~\E c \in Callers : Step(c)
  BY <1>3, OtherIInv DEF Next
<1> QED BY <1>1, <1>2, <1>3

(* It holds in every state of every behaviour. *)
LEMMA Invariance == Spec => []IInv
BY InitIInv, NextIInv, PTL DEF Spec

-----------------------------------------------------------------------------
(* The theorems *)

(* Every variable keeps its type; an order never holds more records than the *)
(* two names it is for can need (manager.go:179-360).                        *)
THEOREM TypeCorrect == Spec => []TypeOK
<1>1. IInv => TypeOK
  BY DEF IInv
<1> QED BY <1>1, Invariance, PTL

(* However many requests ask for a VM's certificate at once, one issues it *)
(* (manager.go:104-147).                                                   *)
THEOREM OneIssueCorrect == Spec => []OneIssuePerVM
<1>1. IInv => OneIssuePerVM
  BY DEF IInv
<1> QED BY <1>1, Invariance, PTL

(* And only while there is no valid certificate (manager.go:107-129). *)
THEOREM NoNeedlessOrderCorrect == Spec => []NoNeedlessOrder
<1>1. IInv => NoNeedlessOrder
  BY DEF IInv
<1> QED BY <1>1, Invariance, PTL

(* No request is answered with a part of a certificate, unless a write of the *)
(* file has been cut short after its first block (manager.go:353-357).        *)
THEOREM ServedWholeCorrect ==
    ASSUME "short write" \notin Faults
    PROVE  Spec => []ServedWhole
<1>1. IInv => ServedWhole
  BY DEF IInv, NoneCut
<1> QED BY <1>1, Invariance, PTL

(* If the DNS provider loses no answer and fails no deletion, an order whose  *)
(* client stays leaves no record behind, wherever it ends (manager.go:256-318). *)
THEOREM RecordsRemovedCorrect ==
    ASSUME Faults \cap {"lost answer", "delete"} = {}
    PROVE  Spec => []RecordsRemoved
<1>1. IInv => RecordsRemoved
  BY DEF IInv, KnownRecords, RecordsRemoved
<1> QED BY <1>1, Invariance, PTL
=============================================================================
