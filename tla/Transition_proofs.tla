------------------------- MODULE Transition_proofs --------------------------
(***************************************************************************)
(* Proofs about the guarded execution path, for any number of workers,     *)
(* sessions, plans, actors, calls and decisions.                           *)
(***************************************************************************)
EXTENDS Transition, StateStore_proofs

-----------------------------------------------------------------------------
(* The steps of execute as sets of strings                                 *)

\* What the gates are called and in which order.
LEMMA StepNames ==
    /\ Len(STEPS) = 5
    /\ 1..Len(STEPS) = 1..5
    /\ STEPS[1] = "validate_state"
    /\ STEPS[2] = "validate_constraints"
    /\ STEPS[3] = "validate_policy"
    /\ STEPS[4] = "verify_authorization"
    /\ STEPS[5] = "request_approval"
BY DEF STEPS

LEMMA StepIsAction ==
    /\ \A i \in 1..5 : STEPS[i] \in Actions
    /\ {"executing", "rejected", "human_review"} \subseteq Actions
BY StepNames DEF Actions

\* The places behind each gate, spelled out.
LEMMA Places ==
    /\ PastGate(5) = {"regenerate", "executing", "commit", "record_artifact",
                      "complete", "park", "human_review"}
    /\ PastGate(4) = PastGate(5) \cup {"request_approval"}
    /\ PastGate(3) = PastGate(4) \cup {"verify_authorization"}
    /\ PastGate(2) = PastGate(3) \cup {"validate_policy"}
    /\ PastGate(1) = PastGate(2) \cup {"validate_constraints"}
    /\ PastLoad    = PastGate(1) \cup {"validate_state"}
<1>1. /\ {STEPS[j] : j \in 1..1} = {"validate_state"}
      /\ {STEPS[j] : j \in 1..2} = {"validate_state", "validate_constraints"}
      /\ {STEPS[j] : j \in 1..3} = {"validate_state", "validate_constraints", "validate_policy"}
      /\ {STEPS[j] : j \in 1..4} = {"validate_state", "validate_constraints", "validate_policy",
                                    "verify_authorization"}
      /\ {STEPS[j] : j \in 1..5} = {"validate_state", "validate_constraints", "validate_policy",
                                    "verify_authorization", "request_approval"}
    BY StepNames
<1>2. PastLoad = {"validate_state", "validate_constraints", "validate_policy",
                  "verify_authorization", "request_approval", "regenerate", "executing",
                  "commit", "record_artifact", "complete", "park", "human_review"}
    BY DEF PastLoad, PCs
<1> QED
    BY <1>1, <1>2 DEF PastGate

LEMMA SubjectParts ==
    ASSUME NEW r \in Subjects
    PROVE  r[1] \in Sessions /\ r[2] \in Plans /\ r = <<r[1], r[2]>>
BY DEF Subjects

-----------------------------------------------------------------------------
(* The chain: every step of the path is a step of the store, or none       *)

LEMMA StoreFits ==
    ASSUME TypeOK, [Next]_vars
    PROVE  StoreAction \/ StoreUntouched
<1>1. CASE UNCHANGED vars
    BY <1>1 DEF vars, StoreUntouched
<1>2. ASSUME NEW e \in Clients, Request(e) PROVE StoreUntouched
    BY <1>2 DEF Request, Execute, StoreUntouched
<1>3. ASSUME NEW e \in Clients, StartCommit(e) PROVE StoreAction
    <2>1. head[e] \in Nat /\ request[e] \in Contents
        BY <1>3, ContentsAssumption DEF TypeOK, StartCommit, At
    <2> QED
        BY <1>3, <2>1 DEF StartCommit, StoreAction
<1>4. ASSUME NEW e \in Clients, RunStatement(e) \/ CommitRefused(e) \/ VerifyResult(e)
      PROVE  StoreAction
    BY <1>4 DEF RunStatement, CommitRefused, VerifyResult, StoreAction, StoreStep
<1>5. ASSUME NEW e \in Clients, Step(e),
             ~(StartCommit(e) \/ RunStatement(e) \/ CommitRefused(e) \/ VerifyResult(e))
      PROVE  StoreUntouched
    BY <1>5 DEF Step, FindCompleted, LoadPlan, ValidateState, ValidateConstraints, ValidatePolicy,
        VerifyAuthorization, RequestApproval, RegenerateArtifacts, ParkSession, HumanReview,
        RecordArtifact, Complete, StoreUntouched
<1>6. ASSUME NEW e \in Clients, Crash(e) PROVE StoreAction \/ StoreUntouched
    BY <1>6 DEF Crash, StoreAction, StoreUntouched
<1>7. ASSUME NEW s \in Sessions, Recover(s) \/ Approve(s) PROVE StoreUntouched
    BY <1>7 DEF Recover, OpenSession, StoreCandidates, Approve, Decide, StoreUntouched
<1>8. ASSUME NEW r \in Subjects, Bury(r) PROVE StoreUntouched
    BY <1>8 DEF Bury, StoreUntouched
<1> QED
    BY <1>1, <1>2, <1>3, <1>4, <1>5, <1>6, <1>7, <1>8 DEF Next

-----------------------------------------------------------------------------
(* Types                                                                   *)

LEMMA LogTyped ==
    ASSUME TypeOK, NEW e \in Clients, ~At(e, "idle"), NEW action \in Actions, Log(e, action)
    PROVE  /\ audit' \in [Subjects -> SUBSET (Actions \X Actors)]
           /\ completed' = completed /\ buried' = buried
BY DEF TypeOK, Log

LEMMA ReplyTyped ==
    ASSUME TypeOK, NEW e \in Clients, NEW kind \in Kinds, NEW v \in Nat, Reply(e, kind, v)
    PROVE  /\ pc' \in [Clients -> PCs]
           /\ head' \in [Clients -> Nat]
           /\ answer' \in [Clients -> [kind : Kinds, version : Nat]]
           /\ \A d \in Clients : ~At(d, "idle")' => ~At(d, "idle")
BY DEF TypeOK, Reply, Goto, PCs, At

LEMMA GotoTyped ==
    ASSUME TypeOK, NEW e \in Clients, ~At(e, "idle"), NEW place \in PCs, Goto(e, place)
    PROVE  /\ pc' \in [Clients -> PCs]
           /\ \A d \in Clients : ~At(d, "idle")' => ~At(d, "idle")
BY DEF TypeOK, Goto, At

\* Every request was asked by somebody, for some stored session's plan.
LEMMA AskedTyped ==
    ASSUME TypeOK, UNCHANGED asked, \A d \in Clients : ~At(d, "idle")' => ~At(d, "idle")
    PROVE  /\ request' \in [Clients -> Subjects \cup {Blank}]
           /\ approver' \in [Clients -> Actors \cup {Blank}]
           /\ \A d \in Clients : ~At(d, "idle")' => request'[d] \in Subjects /\ approver'[d] \in Actors
           /\ calls' \in Nat
BY DEF TypeOK, asked

\* The conjuncts a step of execute leaves alone, if it leaves the tables alone.
LEMMA RestTyped ==
    ASSUME TypeOK
    PROVE  /\ UNCHANGED tables =>
                /\ status' \in [Sessions -> {"NONE", "OPEN", "APPROVED", "REJECTED"}]
                /\ base' \in [Sessions -> Nat]
                /\ candidates' \in [Sessions -> SUBSET Plans]
                /\ approvals' \in [Subjects -> Seq(DecisionRow)]
                /\ decisions' \in Nat
           /\ UNCHANGED trail =>
                /\ audit' \in [Subjects -> SUBSET (Actions \X Actors)]
                /\ completed' \in [Subjects -> SUBSET Nat]
                /\ buried' \subseteq Subjects
           /\ UNCHANGED files =>
                /\ DOMAIN sheets' \subseteq Nat
                /\ \A v \in DOMAIN sheets' : sheets'[v] \in Subjects
                /\ artifacts' \subseteq Nat
BY DEF TypeOK, tables, trail, files

\* A gate opens or stays shut.
LEMMA GateTyped ==
    ASSUME TypeOK, StoreTypeOK', NEW e \in Clients, ~At(e, "idle"), pc[e] \in Actions,
           UNCHANGED <<tables, files, asked>>,
           \/ \E place \in PCs : Pass(e, place) /\ head' \in [Clients -> Nat]
           \/ \E kind \in Kinds : Refuse(e, kind)
    PROVE  TypeOK'
<1>1. CASE \E place \in PCs : Pass(e, place) /\ head' \in [Clients -> Nat]
    <2> PICK place \in PCs : Pass(e, place) /\ head' \in [Clients -> Nat]
        BY <1>1
    <2>1. /\ Log(e, pc[e]) /\ Goto(e, place) /\ answer' = answer
        BY DEF Pass
    <2> QED
        BY <2>1, LogTyped, GotoTyped, AskedTyped, RestTyped DEF TypeOK
<1>2. CASE \E kind \in Kinds : Refuse(e, kind)
    <2> PICK kind \in Kinds : Refuse(e, kind)
        BY <1>2
    <2>1. Log(e, "rejected") /\ Reply(e, kind, 0)
        BY DEF Refuse
    <2> QED
        BY <2>1, StepIsAction, LogTyped, ReplyTyped, AskedTyped, RestTyped DEF TypeOK
<1> QED
    BY <1>1, <1>2

LEMMA GatesTyped ==
    ASSUME TypeOK, StoreTypeOK', NEW e \in Clients,
           ValidateState(e) \/ ValidateConstraints(e) \/ ValidatePolicy(e)
             \/ VerifyAuthorization(e) \/ RequestApproval(e) \/ StartCommit(e)
    PROVE  TypeOK'
<1>1. ~At(e, "idle") /\ pc[e] \in Actions
    BY StepNames, StepIsAction
    DEF ValidateState, ValidateConstraints, ValidatePolicy, VerifyAuthorization,
        RequestApproval, StartCommit, At
<1>2. UNCHANGED <<tables, files, asked>>
    BY DEF ValidateState, ValidateConstraints, ValidatePolicy, VerifyAuthorization,
        RequestApproval, StartCommit
<1>3. CASE ValidateState(e)
    <2>1. HeadVersion = base[Session(e)] => HeadVersion \in Nat
        BY <1>1, SubjectParts DEF TypeOK, Session
    <2>2. CASE HeadVersion = base[Session(e)]
        <3>1. Pass(e, "validate_constraints") /\ head' = [head EXCEPT ![e] = HeadVersion]
            BY <1>3, <2>2 DEF ValidateState
        <3>2. head' \in [Clients -> Nat] /\ "validate_constraints" \in PCs
            BY <2>1, <2>2, <3>1 DEF TypeOK, PCs
        <3> QED
            BY <1>1, <1>2, <3>1, <3>2, GateTyped
    <2>3. CASE HeadVersion # base[Session(e)]
        BY <1>1, <1>2, <1>3, <2>3, GateTyped DEF ValidateState, Kinds
    <2> QED
        BY <2>2, <2>3
<1>4. CASE ValidateConstraints(e)
    BY <1>1, <1>2, <1>4, GateTyped DEF ValidateConstraints, TypeOK, PCs, Kinds
<1>5. CASE ValidatePolicy(e)
    BY <1>1, <1>2, <1>5, GateTyped DEF ValidatePolicy, TypeOK, PCs, Kinds
<1>6. CASE VerifyAuthorization(e)
    BY <1>1, <1>2, <1>6, GateTyped DEF VerifyAuthorization, TypeOK, PCs, Kinds
<1>7. CASE RequestApproval(e)
    BY <1>1, <1>2, <1>7, GateTyped DEF RequestApproval, TypeOK, PCs, Kinds
<1>8. CASE StartCommit(e)
    BY <1>1, <1>2, <1>8, GateTyped DEF StartCommit, TypeOK, PCs, Kinds
<1> QED
    BY <1>3, <1>4, <1>5, <1>6, <1>7, <1>8

LEMMA StepTyped ==
    ASSUME TypeOK, StoreTypeOK', NEW e \in Clients, Step(e)
    PROVE  TypeOK'
<1>1. CASE FindCompleted(e)
    <2>1. ~At(e, "idle") /\ \A v \in completed[request[e]] : request[e] \in Subjects => v \in Nat
        BY <1>1 DEF FindCompleted, At, TypeOK
    <2>2. /\ pc' \in [Clients -> PCs]
          /\ head' \in [Clients -> Nat]
          /\ answer' \in [Clients -> [kind : Kinds, version : Nat]]
          /\ \A d \in Clients : ~At(d, "idle")' => ~At(d, "idle")
        BY <1>1, <2>1, ReplyTyped, GotoTyped DEF FindCompleted, TypeOK, PCs, Kinds
    <2> QED
        BY <1>1, <2>2, AskedTyped, RestTyped DEF FindCompleted, TypeOK
<1>2. CASE LoadPlan(e)
    <2>1. /\ pc' \in [Clients -> PCs]
          /\ head' \in [Clients -> Nat]
          /\ answer' \in [Clients -> [kind : Kinds, version : Nat]]
          /\ \A d \in Clients : ~At(d, "idle")' => ~At(d, "idle")
        BY <1>2, ReplyTyped, GotoTyped DEF LoadPlan, At, TypeOK, PCs, Kinds
    <2> QED
        BY <1>2, <2>1, AskedTyped, RestTyped DEF LoadPlan, TypeOK
<1>3. CASE ValidateState(e) \/ ValidateConstraints(e) \/ ValidatePolicy(e)
             \/ VerifyAuthorization(e) \/ RequestApproval(e) \/ StartCommit(e)
    BY <1>3, GatesTyped
<1>4. CASE RegenerateArtifacts(e)
    <2>1. /\ request[e] \in Subjects /\ NextVersion(head[e]) \in Nat
          /\ Goto(e, "executing") /\ ~At(e, "idle")
        BY <1>4 DEF RegenerateArtifacts, At, TypeOK, NextVersion
    <2>2. /\ DOMAIN sheets' \subseteq Nat
          /\ \A v \in DOMAIN sheets' : sheets'[v] \in Subjects
        BY <1>4, <2>1 DEF RegenerateArtifacts, Put, TypeOK
    <2> QED
        BY <1>4, <2>1, <2>2, GotoTyped, AskedTyped, RestTyped DEF RegenerateArtifacts, TypeOK, PCs
<1>5. CASE RunStatement(e)
    BY <1>5, AskedTyped, RestTyped DEF RunStatement, TypeOK, At
<1>6. CASE CommitRefused(e)
    <2>1. /\ pc' \in [Clients -> PCs]
          /\ head' \in [Clients -> Nat]
          /\ answer' \in [Clients -> [kind : Kinds, version : Nat]]
          /\ \A d \in Clients : ~At(d, "idle")' => ~At(d, "idle")
        BY <1>6, ReplyTyped DEF CommitRefused, Kinds
    <2> QED
        BY <1>6, <2>1, AskedTyped, RestTyped DEF CommitRefused, TypeOK
<1>7. CASE VerifyResult(e)
    <2>1. ~At(e, "idle") /\ (Goto(e, "record_artifact") \/ Goto(e, "park"))
        BY <1>7 DEF VerifyResult, At
    <2> QED
        BY <1>7, <2>1, GotoTyped, AskedTyped, RestTyped DEF VerifyResult, TypeOK, PCs
<1>8. CASE ParkSession(e)
    <2>1. ~At(e, "idle") /\ Goto(e, "human_review") /\ Session(e) \in Sessions
        BY <1>8, SubjectParts DEF ParkSession, At, TypeOK, Session
    <2> QED
        BY <1>8, <2>1, GotoTyped, AskedTyped, RestTyped DEF ParkSession, TypeOK, PCs
<1>9. CASE HumanReview(e)
    <2>1. ~At(e, "idle") /\ Log(e, "human_review") /\ Reply(e, "verification_failed", 0)
        BY <1>9 DEF HumanReview, At
    <2> QED
        BY <1>9, <2>1, StepIsAction, LogTyped, ReplyTyped, AskedTyped, RestTyped
        DEF HumanReview, TypeOK, Kinds
<1>10. CASE RecordArtifact(e)
    <2>1. ~At(e, "idle") /\ Goto(e, "complete") /\ NextVersion(head[e]) \in Nat
        BY <1>10 DEF RecordArtifact, At, TypeOK, NextVersion
    <2> QED
        BY <1>10, <2>1, GotoTyped, AskedTyped, RestTyped DEF RecordArtifact, TypeOK, PCs
<1>11. CASE Complete(e)
    <2>1. NextVersion(head[e]) \in Nat
        BY DEF TypeOK, NextVersion
    <2>2. Reply(e, "committed", NextVersion(head[e]))
        BY <1>11 DEF Complete
    <2> QED
        BY <1>11, <2>1, <2>2, ReplyTyped, AskedTyped, RestTyped DEF Complete, TypeOK, Kinds
<1> QED
    BY <1>1, <1>2, <1>3, <1>4, <1>5, <1>6, <1>7, <1>8, <1>9, <1>10, <1>11 DEF Step

LEMMA RequestsTyped ==
    ASSUME TypeOK, StoreTypeOK',
           \/ \E e \in Clients : Request(e) \/ Crash(e)
           \/ \E s \in Sessions : Recover(s) \/ Approve(s)
           \/ \E r \in Subjects : Bury(r)
    PROVE  TypeOK'
<1>1. ASSUME NEW e \in Clients, Request(e) PROVE TypeOK'
    <2> PICK s \in Sessions, p \in Plans, a \in Actors : Execute(e, s, p, a)
        BY <1>1 DEF Request
    <2>1. <<s, p>> \in Subjects
        BY DEF Subjects
    <2>2. /\ pc' \in [Clients -> PCs]
          /\ request' \in [Clients -> Subjects \cup {Blank}]
          /\ approver' \in [Clients -> Actors \cup {Blank}]
          /\ \A d \in Clients : ~At(d, "idle")' => request'[d] \in Subjects /\ approver'[d] \in Actors
        BY <2>1 DEF Execute, Goto, At, PCs, TypeOK
    <2>3. answer' \in [Clients -> [kind : Kinds, version : Nat]] /\ calls' \in Nat
        BY DEF Execute, NoAnswer, Kinds, TypeOK
    <2> QED
        BY <2>2, <2>3, RestTyped DEF Execute, TypeOK
<1>2. ASSUME NEW e \in Clients, Crash(e) PROVE TypeOK'
    <2>1. Reply(e, "none", 0)
        BY <1>2 DEF Crash
    <2> QED
        BY <1>2, <2>1, ReplyTyped, AskedTyped, RestTyped DEF Crash, TypeOK, Kinds
<1>3. ASSUME NEW s \in Sessions, OpenSession(s) PROVE TypeOK'
    <2>1. status' \in [Sessions -> {"NONE", "OPEN", "APPROVED", "REJECTED"}]
             /\ base' \in [Sessions -> Nat]
        BY <1>3 DEF OpenSession, TypeOK, StoreTypeOK
    <2> QED
        BY <1>3, <2>1, AskedTyped, RestTyped DEF OpenSession, TypeOK, At
<1>4. ASSUME NEW s \in Sessions, StoreCandidates(s) PROVE TypeOK'
    BY <1>4, AskedTyped, RestTyped DEF StoreCandidates, TypeOK, At
<1>5. ASSUME NEW s \in Sessions, Approve(s) PROVE TypeOK'
    <2> PICK p \in Plans, a \in Actors, d \in {"APPROVED", "REJECTED"} : Decide(s, p, a, d)
        BY <1>5 DEF Approve
    <2>1. <<s, p>> \in Subjects /\ [approver |-> a, decision |-> d] \in DecisionRow
        BY DEF Subjects, DecisionRow
    <2>2. approvals' \in [Subjects -> Seq(DecisionRow)]
        BY <2>1 DEF Decide, TypeOK
    <2>3. status' \in [Sessions -> {"NONE", "OPEN", "APPROVED", "REJECTED"}] /\ decisions' \in Nat
        BY DEF Decide, TypeOK
    <2> QED
        BY <2>2, <2>3, AskedTyped, RestTyped DEF Decide, TypeOK, At
<1>6. ASSUME NEW r \in Subjects, Bury(r) PROVE TypeOK'
    <2>1. buried' \subseteq Subjects
        BY <1>6 DEF Bury, TypeOK
    <2> QED
        BY <1>6, <2>1, AskedTyped, RestTyped DEF Bury, TypeOK, At
<1> QED
    BY <1>1, <1>2, <1>3, <1>4, <1>5, <1>6 DEF Recover

LEMMA NextTyped ==
    ASSUME TypeOK, StoreTypeOK', [Next]_vars
    PROVE  TypeOK'
<1>1. CASE UNCHANGED vars
    BY <1>1, AskedTyped, RestTyped DEF vars, TypeOK, At
<1>2. CASE Next
    BY <1>2, StepTyped, RequestsTyped DEF Next
<1> QED
    BY <1>1, <1>2

-----------------------------------------------------------------------------
(* What no step takes back                                                 *)

\* Sessions, candidates, decisions, log entries, files and versions only grow.
Grows ==
    /\ \A s \in Sessions : status[s] # "NONE" => status'[s] # "NONE" /\ base'[s] = base[s]
    /\ \A s \in Sessions : candidates[s] \subseteq candidates'[s]
    /\ \A r \in Subjects : \A i \in 1..Len(approvals[r]) :
          i \in 1..Len(approvals'[r]) /\ approvals'[r][i] = approvals[r][i]
    /\ \A r \in Subjects : audit[r] \subseteq audit'[r]
    /\ DOMAIN sheets \subseteq DOMAIN sheets'
    /\ artifacts \subseteq artifacts'
    /\ \A v \in DOMAIN state_versions :
          v \in DOMAIN state_versions' /\ state_versions'[v] = state_versions[v]

LEMMA TablesGrow ==
    ASSUME TypeOK, [Next]_vars
    PROVE  /\ \A s \in Sessions : status[s] # "NONE" => status'[s] # "NONE" /\ base'[s] = base[s]
           /\ \A s \in Sessions : candidates[s] \subseteq candidates'[s]
           /\ \A r \in Subjects : \A i \in 1..Len(approvals[r]) :
                 i \in 1..Len(approvals'[r]) /\ approvals'[r][i] = approvals[r][i]
<1> DEFINE Goal == /\ \A s \in Sessions : status[s] # "NONE" =>
                          status'[s] # "NONE" /\ base'[s] = base[s]
                   /\ \A s \in Sessions : candidates[s] \subseteq candidates'[s]
                   /\ \A r \in Subjects : \A i \in 1..Len(approvals[r]) :
                         i \in 1..Len(approvals'[r]) /\ approvals'[r][i] = approvals[r][i]
<1>1. CASE UNCHANGED tables
    BY <1>1 DEF tables
<1>2. ASSUME NEW s \in Sessions, Recover(s) PROVE Goal
    BY <1>2 DEF Recover, OpenSession, StoreCandidates, TypeOK
<1>3. ASSUME NEW s \in Sessions, Approve(s) PROVE Goal
    <2> PICK p \in Plans, a \in Actors, d \in {"APPROVED", "REJECTED"} : Decide(s, p, a, d)
        BY <1>3 DEF Approve
    <2>1. <<s, p>> \in Subjects /\ [approver |-> a, decision |-> d] \in DecisionRow
        BY DEF Subjects, DecisionRow
    <2>2. \A r \in Subjects : \A i \in 1..Len(approvals[r]) :
              i \in 1..Len(approvals'[r]) /\ approvals'[r][i] = approvals[r][i]
        <3> DEFINE row == [approver |-> a, decision |-> d]
        <3>1. approvals' = [approvals EXCEPT ![<<s, p>>] = Append(@, row)] /\ row \in DecisionRow
            BY <2>1 DEF Decide
        <3> HIDE DEF row
        <3>2. ASSUME NEW q \in Seq(DecisionRow), NEW i \in 1..Len(q)
              PROVE  i \in 1..Len(Append(q, row)) /\ Append(q, row)[i] = q[i]
            BY <3>1
        <3>3. \A r \in Subjects : approvals[r] \in Seq(DecisionRow) /\
                  approvals'[r] = IF r = <<s, p>> THEN Append(approvals[r], row) ELSE approvals[r]
            BY <2>1, <3>1 DEF TypeOK
        <3> QED
            BY <3>2, <3>3
    <2>3. status[s] # "NONE" => status'[s] # "NONE"
        BY DEF Decide, TypeOK
    <2> QED
        BY <2>2, <2>3 DEF Decide, TypeOK
<1>4. ASSUME NEW e \in Clients, ParkSession(e) PROVE Goal
    BY <1>4 DEF ParkSession, TypeOK
<1>5. ASSUME NEW e \in Clients, Step(e), ~ParkSession(e) PROVE UNCHANGED tables
    BY <1>5 DEF Step, FindCompleted, LoadPlan, ValidateState, ValidateConstraints, ValidatePolicy,
        VerifyAuthorization, RequestApproval, RegenerateArtifacts, StartCommit, RunStatement,
        CommitRefused, VerifyResult, HumanReview, RecordArtifact, Complete
<1>6. ASSUME NEW e \in Clients, Request(e) \/ Crash(e) PROVE UNCHANGED tables
    BY <1>6 DEF Request, Execute, Crash
<1>7. ASSUME NEW r \in Subjects, Bury(r) PROVE UNCHANGED tables
    BY <1>7 DEF Bury
<1>8. CASE UNCHANGED vars
    BY <1>1, <1>8 DEF vars
<1> QED
    BY <1>1, <1>2, <1>3, <1>4, <1>5, <1>6, <1>7, <1>8 DEF Next

LEMMA RecordsGrow ==
    ASSUME TypeOK, [Next]_vars
    PROVE  /\ \A r \in Subjects : audit[r] \subseteq audit'[r]
           /\ DOMAIN sheets \subseteq DOMAIN sheets'
           /\ artifacts \subseteq artifacts'
<1>1. CASE UNCHANGED <<trail, files>>
    BY <1>1 DEF trail, files
<1>2. ASSUME NEW e \in Clients, RegenerateArtifacts(e) \/ RecordArtifact(e) \/ Complete(e)
      PROVE  /\ audit' = audit
             /\ DOMAIN sheets \subseteq DOMAIN sheets'
             /\ artifacts \subseteq artifacts'
    BY <1>2 DEF RegenerateArtifacts, RecordArtifact, Complete, Put, trail, files
<1>3. ASSUME NEW e \in Clients, NEW action, Log(e, action), UNCHANGED files
      PROVE  /\ \A r \in Subjects : audit[r] \subseteq audit'[r]
             /\ DOMAIN sheets \subseteq DOMAIN sheets'
             /\ artifacts \subseteq artifacts'
    BY <1>3 DEF Log, TypeOK, files
<1>4. ASSUME NEW e \in Clients,
             ValidateState(e) \/ ValidateConstraints(e) \/ ValidatePolicy(e)
               \/ VerifyAuthorization(e) \/ RequestApproval(e) \/ StartCommit(e) \/ HumanReview(e)
      PROVE  UNCHANGED files /\ \E action \in Actions : Log(e, action)
    BY <1>4, StepNames, StepIsAction
    DEF ValidateState, ValidateConstraints, ValidatePolicy, VerifyAuthorization,
        RequestApproval, StartCommit, HumanReview, Pass, Refuse, At
<1>5. ASSUME NEW e \in Clients,
             Request(e) \/ Crash(e) \/ FindCompleted(e) \/ LoadPlan(e) \/ RunStatement(e)
               \/ CommitRefused(e) \/ VerifyResult(e) \/ ParkSession(e)
      PROVE  UNCHANGED <<trail, files>>
    BY <1>5 DEF Request, Execute, Crash, FindCompleted, LoadPlan, RunStatement, CommitRefused,
        VerifyResult, ParkSession
<1>6. ASSUME NEW s \in Sessions, Recover(s) \/ Approve(s) PROVE UNCHANGED <<trail, files>>
    BY <1>6 DEF Recover, OpenSession, StoreCandidates, Approve, Decide
<1>7. ASSUME NEW r \in Subjects, Bury(r) PROVE UNCHANGED <<audit, files>>
    BY <1>7 DEF Bury
<1>8. CASE UNCHANGED vars
    BY <1>1, <1>8 DEF vars
<1> QED
    BY <1>1, <1>2, <1>3, <1>4, <1>5, <1>6, <1>7, <1>8 DEF Next, Step, files

LEMMA ChainGrows ==
    ASSUME StoreInv, StoreAction \/ StoreUntouched
    PROVE  \A v \in DOMAIN state_versions :
               v \in DOMAIN state_versions' /\ state_versions'[v] = state_versions[v]
<1>1. CASE state_versions' = state_versions
    BY <1>1
<1>2. ASSUME NEW c \in Clients, CommitRow(c)
      PROVE  \A v \in DOMAIN state_versions :
                 v \in DOMAIN state_versions' /\ state_versions'[v] = state_versions[v]
    <2>1. /\ HeadVersion \in Nat
          /\ DOMAIN state_versions = 1..HeadVersion
          /\ DOMAIN state_versions' = 1..(HeadVersion + 1)
          /\ \A v \in DOMAIN state_versions : state_versions'[v] = state_versions[v]
        BY <1>2, CommitExtends DEF StoreInv, ChainUnbroken
    <2> QED
        BY <2>1
<1> QED
    BY <1>1, <1>2, StepExtendsOrKeeps

LEMMA NextGrows == ASSUME StoreInv, TypeOK, [Next]_vars PROVE Grows
BY TablesGrow, RecordsGrow, StoreFits, ChainGrows DEF Grows

-----------------------------------------------------------------------------
(* Those who are not on the move                                           *)

\* Nothing of worker d's own state changes.
Rests(d) ==
    /\ pc'[d] = pc[d] /\ request'[d] = request[d] /\ approver'[d] = approver[d]
    /\ head'[d] = head[d] /\ answer'[d] = answer[d]
    /\ phase'[d] = phase[d] /\ parent'[d] = parent[d] /\ content'[d] = content[d]

\* A step of one worker is a step of that worker only.
LEMMA OthersRest ==
    ASSUME StoreInv, TypeOK, NEW e \in Clients, Request(e) \/ Step(e) \/ Crash(e),
           NEW d \in Clients, d # e
    PROVE  Rests(d)
<1>1. CASE Request(e)
    BY <1>1 DEF Request, Execute, Goto, TypeOK, Rests, storeVars
<1>2. CASE Crash(e)
    BY <1>2 DEF Crash, Reply, Goto, Disconnect, EndWithout, Return, TypeOK, StoreTypeOK, Rests,
        storeVars, asked
<1>3. CASE ValidateState(e) \/ ValidateConstraints(e) \/ ValidatePolicy(e)
             \/ VerifyAuthorization(e) \/ RequestApproval(e) \/ HumanReview(e)
    BY <1>3 DEF ValidateState, ValidateConstraints, ValidatePolicy, VerifyAuthorization,
        RequestApproval, HumanReview, Pass, Refuse, Reply, Goto, TypeOK, Rests, storeVars, asked
<1>4. CASE FindCompleted(e) \/ LoadPlan(e) \/ RegenerateArtifacts(e) \/ ParkSession(e)
             \/ RecordArtifact(e) \/ Complete(e)
    BY <1>4 DEF FindCompleted, LoadPlan, RegenerateArtifacts, ParkSession, RecordArtifact,
        Complete, Reply, Goto, TypeOK, Rests, storeVars, asked
<1>5. CASE StartCommit(e)
    BY <1>5 DEF StartCommit, BeginCommit, Pass, Goto, TypeOK, StoreTypeOK, Rests, asked
<1>6. CASE RunStatement(e)
    BY <1>6 DEF RunStatement, LockHead, InsertRow, TypeOK, StoreTypeOK, Rests, asked
<1>7. CASE CommitRefused(e)
    BY <1>7 DEF CommitRefused, RefuseStale, RefuseDuplicate, EndWithout, Return, Reply, Goto,
        TypeOK, StoreTypeOK, Rests, asked
<1>8. CASE VerifyResult(e)
    BY <1>8 DEF VerifyResult, CommitRow, RollBack, EndWithout, Return, Goto,
        TypeOK, StoreTypeOK, Rests, asked
<1> QED
    BY <1>1, <1>2, <1>3, <1>4, <1>5, <1>6, <1>7, <1>8 DEF Step

LEMMA AllRest ==
    ASSUME \/ UNCHANGED vars
           \/ \E s \in Sessions : Recover(s) \/ Approve(s)
           \/ \E r \in Subjects : Bury(r),
           NEW d \in Clients
    PROVE  Rests(d)
BY DEF vars, Recover, OpenSession, StoreCandidates, Approve, Decide, Bury, Rests, storeVars, asked

\* Whatever the others do, what a resting worker relies on stays true.
LEMMA RestingBehind ==
    ASSUME TypeOK, Grows, NEW d \in Clients, Behind(d), Rests(d)
    PROVE  Behind(d)'
<1>1. pc[d] # "idle" => request[d] \in Subjects /\ Session(d) \in Sessions
    BY SubjectParts DEF TypeOK, At, Session
<1>2. pc[d] # "idle" => status'[Session(d)] # "NONE" /\ base'[Session(d)] = base[Session(d)]
    BY <1>1 DEF Behind, Grows
<1> QED
    BY <1>1, <1>2, Places, StepNames, SMTT(20) DEF Behind, Grows, Rests, Session, Plan, Executed, Written

-----------------------------------------------------------------------------
(* The invariant                                                           *)

\* Candidates belong to a stored session, whose base is settled.
CandidatesStored == \A s \in Sessions : candidates[s] # {} => status[s] # "NONE"

\* Why an answer is true: a version that is in the chain for ever, or a flaw of
\* the plan that keeps it out of the chain for ever.
AnswerBacked(e) ==
    /\ answer[e].kind \in {"committed", "replayed"} =>
          /\ answer[e].version \in DOMAIN state_versions
          /\ Executed(answer[e].version) = request[e]
    /\ answer[e].kind \in {"constraints_failed", "verification_failed"} =>
          request[e] \in Illegal \cup Unverifiable

AnswersBacked == \A e \in Clients : AnswerBacked(e)

\* The inductive invariant.  What the chain says of the gates cannot be proved
\* of the chain alone: it holds because it held of the request that wrote the
\* version, gate by gate (GatesBehindHold), and because nothing it rests on is
\* ever taken back (Grows).
TransInv ==
    /\ StoreInv
    /\ TypeOK
    /\ CandidatesStored
    /\ PlanOnItsBase
    /\ OnlyGovernedVersions
    /\ GatesBehindHold
    /\ RecordsFollowCommits
    /\ AnswersBacked

-----------------------------------------------------------------------------
(* The worker on the move                                                  *)

LEMMA IdleBehind ==
    ASSUME NEW e \in Clients, pc'[e] = "idle", phase'[e] = "none"
    PROVE  Behind(e)'
<1>1. /\ \A i \in 1..Len(STEPS) : "idle" \notin PastGate(i)
      /\ "idle" \notin PastLoad \cup PastGate(1) \cup PastGate(2) \cup PastGate(4) \cup PastGate(5)
      /\ "idle" \notin Written \cup {"complete", "park", "human_review"}
    BY DEF PastGate, PastLoad, Written
<1> QED
    BY <1>1 DEF Behind

\* Outside the place where it commits, a worker has no transaction open.
LEMMA NoTransaction ==
    ASSUME NEW e \in Clients, StoreTypeOK, Behind(e), pc[e] # "commit"
    PROVE  phase[e] = "none"
BY DEF Behind

LEMMA ReplyBehind ==
    ASSUME TypeOK, NEW e \in Clients, Behind(e), pc[e] # "commit", UNCHANGED phase,
           NEW kind, NEW v, Reply(e, kind, v)
    PROVE  Behind(e)'
BY NoTransaction, IdleBehind DEF Reply, Goto, TypeOK

\* A gate that opens adds its entry to what is behind the worker.
LEMMA PassBehind ==
    ASSUME TypeOK, Grows, NEW e \in Clients, Behind(e),
           UNCHANGED <<asked, phase, parent, content>>,
           \/ At(e, "validate_state") /\ Pass(e, "validate_constraints")
                 /\ head'[e] = base[Session(e)]
           \/ At(e, "validate_constraints") /\ Pass(e, "validate_policy")
                 /\ head' = head /\ request[e] \notin Illegal
           \/ At(e, "validate_policy") /\ Pass(e, "verify_authorization") /\ head' = head
           \/ At(e, "verify_authorization") /\ Pass(e, "request_approval")
                 /\ head' = head /\ (ApprovalRequired => approver[e] \in Permitted)
           \/ At(e, "request_approval") /\ Pass(e, "regenerate")
                 /\ head' = head
                 /\ (ApprovalRequired => ApprovedBy(request[e], approver[e]))
    PROVE  Behind(e)'
<1>1. /\ pc[e] \in PastLoad /\ pc[e] # "commit"
      /\ pc[e] \in {STEPS[i] : i \in 1..5}
    BY Places, StepNames DEF At
<1>2. request[e] \in Subjects /\ Session(e) \in Sessions /\ Plan(e) \in Plans
    BY <1>1, Places, SubjectParts DEF TypeOK, At, Session, Plan
<1>3. /\ status'[Session(e)] # "NONE" /\ base'[Session(e)] = base[Session(e)]
      /\ Plan(e) \in candidates'[Session(e)]
      /\ phase'[e] = "none"
    BY <1>1, <1>2, Places, NoTransaction DEF Behind, Grows, TypeOK
<1>4. <<pc[e], approver[e]>> \in audit'[request[e]] /\ audit[request[e]] \subseteq audit'[request[e]]
    BY <1>2 DEF Pass, Log, TypeOK, Grows
<1>5. ASSUME ApprovalRequired, ApprovedBy(request[e], approver[e])
      PROVE  \E i \in 1..Len(approvals[request[e]]) :
                 approvals[request[e]][i] = [approver |-> approver[e], decision |-> "APPROVED"]
    <2>1. approvals[request[e]] \in Seq(DecisionRow)
        BY <1>2 DEF TypeOK
    <2>2. PICK i \in 1..Len(approvals[request[e]]) :
              i = Len(approvals[request[e]])
        BY <1>5, <2>1 DEF ApprovedBy, Decided
    <2>3. approvals[request[e]][i] \in DecisionRow
        BY <2>1
    <2> QED
        BY <1>5, <2>2, <2>3 DEF ApprovedBy, Decision, DecisionRow
<1>6. Session(e)' = Session(e) /\ Plan(e)' = Plan(e)
    BY DEF asked, Session, Plan
<1>7. /\ pc'[e] \in PastGate(1) \ (PastGate(5) \ {"regenerate"})
      /\ \A i \in 1..5 : pc'[e] \in PastGate(i) => pc[e] \in PastGate(i) \/ pc[e] = STEPS[i]
    <2>1. \/ pc[e] = "validate_state" /\ pc'[e] = "validate_constraints"
          \/ pc[e] = "validate_constraints" /\ pc'[e] = "validate_policy"
          \/ pc[e] = "validate_policy" /\ pc'[e] = "verify_authorization"
          \/ pc[e] = "verify_authorization" /\ pc'[e] = "request_approval"
          \/ pc[e] = "request_approval" /\ pc'[e] = "regenerate"
        BY DEF At, Pass, Goto, TypeOK
    <2>2. pc'[e] \in PastGate(1) \ (PastGate(5) \ {"regenerate"})
        BY <2>1, Places
    <2>3. ASSUME NEW i \in 1..5, pc'[e] \in PastGate(i)
          PROVE  pc[e] \in PastGate(i) \/ pc[e] = STEPS[i]
        <3>1. i = 1 \/ i = 2 \/ i = 3 \/ i = 4 \/ i = 5
            OBVIOUS
        <3> QED
            BY <2>1, <2>3, <3>1, Places, StepNames
    <2> QED
        BY <2>2, <2>3
<1>8. /\ pc[e] # STEPS[1] => head'[e] = head[e]
      /\ pc[e] = STEPS[1] => head'[e] = base[Session(e)]
      /\ pc[e] = STEPS[2] => request[e] \notin Illegal
      /\ pc[e] = STEPS[4] => (ApprovalRequired => approver[e] \in Permitted)
      /\ pc[e] = STEPS[5] => (ApprovalRequired => ApprovedBy(request[e], approver[e]))
    BY StepNames DEF At
<1>9. /\ \A i \in 1..5 : pc[e] \in PastGate(i) => <<STEPS[i], approver[e]>> \in audit[request[e]]
      /\ pc[e] \in PastGate(1) => head[e] = base[Session(e)]
      /\ pc[e] \in PastGate(2) => request[e] \notin Illegal
      /\ pc[e] \in PastGate(4) => (ApprovalRequired => approver[e] \in Permitted)
      /\ pc[e] \notin PastGate(5)
    BY <1>1, StepNames, Places DEF Behind
<1>10. /\ \A i \in 1..5 : pc'[e] \in PastGate(i) => <<STEPS[i], approver[e]>> \in audit'[request[e]]
       /\ head'[e] = base'[Session(e)]
       /\ pc'[e] \in PastGate(2) => request[e] \notin Illegal
       /\ pc'[e] \in PastGate(4) => (ApprovalRequired => approver[e] \in Permitted)
    BY <1>1, <1>3, <1>4, <1>7, <1>8, <1>9, StepNames
<1>11. pc'[e] \in PastGate(5) => (ApprovalRequired =>
          \E i \in 1..Len(approvals'[request[e]]) :
              approvals'[request[e]][i] = [approver |-> approver[e], decision |-> "APPROVED"])
    BY <1>2, <1>5, <1>7, <1>8, <1>9 DEF Grows
<1>12. /\ pc'[e] \notin PastGate(5) \ {"regenerate"}
       /\ pc'[e] \notin Written \cup {"complete", "park", "human_review"}
       /\ request'[e] = request[e] /\ approver'[e] = approver[e]
    BY <1>7, Places DEF Written, asked
<1> QED
    BY <1>3, <1>6, <1>10, <1>11, <1>12, StepNames DEF Behind

\* Past the last gate only the sheets, the open row and the written one are new.
LEMMA LaterBehind ==
    ASSUME TypeOK, Grows, NEW e \in Clients, Behind(e), UNCHANGED <<asked, head>>,
           pc[e] \in PastGate(5), pc'[e] \in PastGate(5) \ {"regenerate"},
           NextVersion(head[e]) \in DOMAIN sheets',
           pc'[e] # "executing" => <<"executing", approver[e]>> \in audit'[request[e]],
           phase'[e] # "none" =>
               pc'[e] = "commit" /\ parent'[e] = head[e] /\ content'[e] = request[e],
           pc'[e] \in Written =>
               /\ NextVersion(head[e]) \in DOMAIN state_versions'
               /\ Executed(NextVersion(head[e]))' = request[e],
           pc'[e] = "complete" => NextVersion(head[e]) \in artifacts',
           pc'[e] \in {"park", "human_review"} => request[e] \in Unverifiable
    PROVE  Behind(e)'
<1>1. request[e] \in Subjects /\ Session(e) \in Sessions /\ Plan(e) \in Plans
    BY Places, SubjectParts DEF TypeOK, At, Session, Plan
<1>2. \A i \in 1..5 : pc[e] \in PastGate(i)
    <2> TAKE i \in 1..5
    <2>1. i = 1 \/ i = 2 \/ i = 3 \/ i = 4 \/ i = 5
        OBVIOUS
    <2> QED
        BY <2>1, Places
<1>3. pc[e] \in PastLoad /\ pc[e] # "idle" /\ pc'[e] # "idle"
    BY Places
<1>4. /\ \A i \in 1..5 : <<STEPS[i], approver[e]>> \in audit[request[e]]
      /\ status[Session(e)] # "NONE"
      /\ Plan(e) \in candidates[Session(e)]
      /\ head[e] = base[Session(e)]
      /\ request[e] \notin Illegal
      /\ ApprovalRequired => approver[e] \in Permitted
      /\ ApprovalRequired =>
            \E i \in 1..Len(approvals[request[e]]) :
                approvals[request[e]][i] = [approver |-> approver[e], decision |-> "APPROVED"]
    BY <1>2, <1>3, StepNames DEF Behind
<1>5. /\ \A i \in 1..5 : <<STEPS[i], approver[e]>> \in audit'[request[e]]
      /\ status'[Session(e)] # "NONE"
      /\ Plan(e) \in candidates'[Session(e)]
      /\ head[e] = base'[Session(e)]
      /\ ApprovalRequired =>
            \E i \in 1..Len(approvals'[request[e]]) :
                approvals'[request[e]][i] = [approver |-> approver[e], decision |-> "APPROVED"]
    BY <1>1, <1>4 DEF Grows
<1>6. /\ request'[e] = request[e] /\ approver'[e] = approver[e] /\ head'[e] = head[e]
      /\ Session(e)' = Session(e) /\ Plan(e)' = Plan(e)
      /\ NextVersion(head[e])' = NextVersion(head[e])
    BY DEF asked, Session, Plan, NextVersion
<1> QED
    BY <1>3, <1>4, <1>5, <1>6, StepNames DEF Behind

LEMMA GateBehind ==
    ASSUME TypeOK, Grows, NEW e \in Clients, Behind(e),
           ValidateState(e) \/ ValidateConstraints(e) \/ ValidatePolicy(e)
             \/ VerifyAuthorization(e) \/ RequestApproval(e)
    PROVE  Behind(e)'
<1>1. pc[e] # "commit" /\ UNCHANGED <<asked, phase, parent, content>>
    BY DEF ValidateState, ValidateConstraints, ValidatePolicy, VerifyAuthorization,
        RequestApproval, At, storeVars
<1>2. CASE \E kind \in Kinds : Refuse(e, kind)
    BY <1>1, <1>2, ReplyBehind DEF Refuse
<1>3. CASE ValidateState(e) /\ ~\E kind \in Kinds : Refuse(e, kind)
    <2>1. At(e, "validate_state") /\ Pass(e, "validate_constraints")
             /\ head' = [head EXCEPT ![e] = HeadVersion] /\ HeadVersion = base[Session(e)]
        BY <1>3 DEF ValidateState, Kinds
    <2>2. head'[e] = base[Session(e)]
        BY <2>1 DEF TypeOK
    <2> QED
        BY <1>1, <2>1, <2>2, PassBehind
<1>4. CASE ValidateConstraints(e) /\ ~\E kind \in Kinds : Refuse(e, kind)
    BY <1>1, <1>4, PassBehind DEF ValidateConstraints, Kinds
<1>5. CASE ValidatePolicy(e)
    BY <1>1, <1>5, PassBehind DEF ValidatePolicy
<1>6. CASE VerifyAuthorization(e) /\ ~\E kind \in Kinds : Refuse(e, kind)
    BY <1>1, <1>6, PassBehind DEF VerifyAuthorization, Kinds
<1>7. CASE RequestApproval(e) /\ ~\E kind \in Kinds : Refuse(e, kind)
    BY <1>1, <1>7, PassBehind DEF RequestApproval, Kinds
<1> QED
    BY <1>2, <1>3, <1>4, <1>5, <1>6, <1>7

\* What VerifyResult commits is the request's plan, right after its head.
LEMMA CommitWrites ==
    ASSUME StoreInv, NEW e \in Clients, Behind(e), CommitRow(e)
    PROVE  /\ pc[e] = "commit" /\ parent[e] = head[e] /\ content[e] = request[e]
           /\ head[e] = HeadVersion
           /\ DOMAIN state_versions' = DOMAIN state_versions \cup {NextVersion(head[e])}
           /\ state_versions'[NextVersion(head[e])].content = request[e]
<1>1. phase[e] # "none"
    BY DEF CommitRow
<1>2. pc[e] = "commit" /\ parent[e] = head[e] /\ content[e] = request[e]
    BY <1>1 DEF Behind
<1>3. /\ parent[e] = HeadVersion
      /\ HeadVersion \in Nat
      /\ DOMAIN state_versions = 1..HeadVersion
      /\ DOMAIN state_versions' = 1..(HeadVersion + 1)
      /\ state_versions'[HeadVersion + 1] = [parent |-> HeadVersion, content |-> content[e]]
    BY CommitExtends DEF StoreInv, ChainUnbroken
<1>4. NextVersion(head[e]) = HeadVersion + 1
    BY <1>2, <1>3 DEF NextVersion
<1>5. DOMAIN state_versions' = DOMAIN state_versions \cup {NextVersion(head[e])}
    BY <1>3, <1>4
<1>6. state_versions'[NextVersion(head[e])].content = request[e]
    BY <1>2, <1>3, <1>4
<1> QED
    BY <1>2, <1>3, <1>5, <1>6

LEMMA StepBehind ==
    ASSUME StoreInv, TypeOK, Grows, NEW e \in Clients, Behind(e), Step(e)
    PROVE  Behind(e)'
<1>0. StoreTypeOK
    BY DEF StoreInv
<1>1. CASE FindCompleted(e) \/ LoadPlan(e)
    <2>2. pc[e] # "commit" /\ pc[e] # "idle" /\ UNCHANGED <<phase, asked>>
        BY <1>1 DEF FindCompleted, LoadPlan, storeVars, At
    <2>3. CASE \E kind, v : Reply(e, kind, v)
        BY <2>2, <2>3, ReplyBehind
    <2>4. CASE ~\E kind, v : Reply(e, kind, v)
        <3>1. \/ pc'[e] = "load_plan"
              \/ pc'[e] = "validate_state" /\ Plan(e) \in candidates[Session(e)]
            BY <1>1, <2>4 DEF FindCompleted, LoadPlan, Goto, TypeOK
        <3>2. request[e] \in Subjects /\ Session(e) \in Sessions
            BY <2>2, SubjectParts DEF TypeOK, At, Session
        <3>3. /\ status'[Session(e)] # "NONE" /\ candidates[Session(e)] \subseteq candidates'[Session(e)]
              /\ phase'[e] = "none"
              /\ Session(e)' = Session(e) /\ Plan(e)' = Plan(e)
            BY <2>2, <3>2, NoTransaction, <1>0 DEF Behind, Grows, asked, Session, Plan
        <3>4. /\ \A i \in 1..5 : pc'[e] \notin PastGate(i)
              /\ pc'[e] \notin Written \cup {"complete", "park", "human_review"}
              /\ pc'[e] = "load_plan" => pc'[e] \notin PastLoad
            <4>1. ASSUME NEW i \in 1..5 PROVE pc'[e] \notin PastGate(i)
                <5>1. i = 1 \/ i = 2 \/ i = 3 \/ i = 4 \/ i = 5
                    OBVIOUS
                <5> QED
                    BY <3>1, <5>1, Places
            <4> QED
                BY <3>1, <4>1, Places DEF Written
        <3> QED
            BY <3>1, <3>3, <3>4, StepNames DEF Behind
    <2> QED
        BY <2>3, <2>4
<1>2. CASE ValidateState(e) \/ ValidateConstraints(e) \/ ValidatePolicy(e)
             \/ VerifyAuthorization(e) \/ RequestApproval(e)
    BY <1>2, GateBehind
<1>3. CASE RegenerateArtifacts(e)
    <2>1. /\ pc[e] = "regenerate" /\ pc'[e] = "executing"
          /\ UNCHANGED <<asked, head, phase>>
          /\ NextVersion(head[e]) \in DOMAIN sheets'
        BY <1>3 DEF RegenerateArtifacts, At, Goto, TypeOK, Put, storeVars
    <2> QED
        BY <1>0, <2>1, LaterBehind, NoTransaction, Places DEF Written
<1>4. CASE StartCommit(e)
    <2>1. /\ pc[e] = "executing" /\ pc'[e] = "commit"
          /\ UNCHANGED <<asked, head, files>>
          /\ parent'[e] = head[e] /\ content'[e] = request[e]
        BY <1>0, <1>4 DEF StartCommit, BeginCommit, At, Pass, Goto, TypeOK, StoreTypeOK
    <2>2. request[e] \in Subjects
        BY <2>1 DEF TypeOK, At
    <2>3. <<"executing", approver[e]>> \in audit'[request[e]]
        BY <1>4, <2>1, <2>2 DEF StartCommit, Pass, Log, TypeOK
    <2>4. NextVersion(head[e]) \in DOMAIN sheets'
        BY <2>1, Places DEF Behind, files
    <2> QED
        BY <2>1, <2>3, <2>4, LaterBehind, Places DEF Written
<1>5. CASE RunStatement(e)
    <2>1. /\ pc[e] = "commit" /\ pc' = pc
          /\ UNCHANGED <<asked, head, files, trail>>
          /\ parent' = parent /\ content' = content /\ phase[e] # "none"
        BY <1>5 DEF RunStatement, LockHead, InsertRow, At
    <2>2. /\ NextVersion(head[e]) \in DOMAIN sheets'
          /\ <<"executing", approver[e]>> \in audit'[request[e]]
          /\ parent'[e] = head[e] /\ content'[e] = request[e]
        BY <2>1, Places DEF Behind, files, trail
    <2> QED
        BY <2>1, <2>2, LaterBehind, Places DEF Written
<1>6. CASE CommitRefused(e)
    BY <1>0, <1>6, IdleBehind
    DEF CommitRefused, RefuseStale, RefuseDuplicate, EndWithout, Return, Reply, Goto, TypeOK, StoreTypeOK
<1>7. CASE VerifyResult(e)
    <2>1. /\ pc[e] = "commit" /\ phase'[e] = "none"
          /\ UNCHANGED <<asked, head, files, trail>>
        BY <1>0, <1>7 DEF VerifyResult, CommitRow, RollBack, EndWithout, Return, At, StoreTypeOK
    <2>2. /\ NextVersion(head[e]) \in DOMAIN sheets'
          /\ <<"executing", approver[e]>> \in audit'[request[e]]
        BY <2>1, Places DEF Behind, files, trail
    <2>3. \/ pc'[e] = "park" /\ request[e] \in Unverifiable
          \/ pc'[e] = "record_artifact" /\ CommitRow(e)
        BY <1>7 DEF VerifyResult, Goto, TypeOK
    <2>4. CommitRow(e) => /\ NextVersion(head[e]) \in DOMAIN state_versions'
                          /\ Executed(NextVersion(head[e]))' = request[e]
        BY <2>1, CommitWrites DEF Executed, NextVersion
    <2> QED
        BY <2>1, <2>2, <2>3, <2>4, LaterBehind, Places DEF Written
<1>8. CASE ParkSession(e)
    <2>1. /\ pc[e] = "park" /\ pc'[e] = "human_review"
          /\ UNCHANGED <<asked, head, files, trail, storeVars>>
        BY <1>8 DEF ParkSession, At, Goto, TypeOK
    <2>2. /\ NextVersion(head[e]) \in DOMAIN sheets'
          /\ <<"executing", approver[e]>> \in audit'[request[e]]
          /\ phase'[e] = "none" /\ request[e] \in Unverifiable
        BY <1>0, <2>1, Places, NoTransaction DEF Behind, files, trail, storeVars
    <2> QED
        BY <2>1, <2>2, LaterBehind, Places DEF Written
<1>9. CASE HumanReview(e) \/ Complete(e)
    BY <1>9, ReplyBehind DEF HumanReview, Complete, At, storeVars
<1>10. CASE RecordArtifact(e)
    <2>1. /\ pc[e] = "record_artifact" /\ pc'[e] = "complete"
          /\ UNCHANGED <<asked, head, trail, sheets, storeVars>>
          /\ NextVersion(head[e]) \in artifacts'
        BY <1>10 DEF RecordArtifact, At, Goto, TypeOK
    <2>2. /\ NextVersion(head[e]) \in DOMAIN sheets'
          /\ <<"executing", approver[e]>> \in audit'[request[e]]
          /\ phase'[e] = "none"
          /\ NextVersion(head[e]) \in DOMAIN state_versions'
          /\ Executed(NextVersion(head[e]))' = request[e]
        BY <1>0, <2>1, Places, NoTransaction DEF Behind, Written, trail, storeVars, Executed, NextVersion
    <2> QED
        BY <2>1, <2>2, LaterBehind, Places
<1> QED
    BY <1>1, <1>2, <1>3, <1>4, <1>5, <1>6, <1>7, <1>8, <1>9, <1>10 DEF Step

LEMMA GatesKept ==
    ASSUME StoreInv, TypeOK, Grows, GatesBehindHold, [Next]_vars
    PROVE  GatesBehindHold'
<1> SUFFICES ASSUME NEW d \in Clients PROVE Behind(d)'
    BY DEF GatesBehindHold
<1>1. Behind(d) /\ StoreTypeOK
    BY DEF GatesBehindHold, StoreInv
<1>2. CASE Rests(d)
    BY <1>1, <1>2, RestingBehind
<1>3. CASE Step(d)
    BY <1>1, <1>3, StepBehind
<1>4. CASE Request(d)
    <2> PICK s \in Sessions, p \in Plans, a \in Actors : Execute(d, s, p, a)
        BY <1>4 DEF Request
    <2>1. /\ pc'[d] = "find_completed" /\ phase'[d] = "none"
          /\ Session(d)' = s /\ status'[s] # "NONE"
        BY <1>1, NoTransaction DEF Execute, At, Goto, TypeOK, Session, storeVars, tables
    <2>2. /\ \A i \in 1..5 : "find_completed" \notin PastGate(i)
          /\ "find_completed" \notin PastLoad \cup Written \cup {"complete", "park", "human_review"}
        BY DEF PastGate, PastLoad, Written
    <2> QED
        BY <2>1, <2>2, StepNames DEF Behind
<1>5. CASE Crash(d)
    <2>1. pc'[d] = "idle"
        BY <1>5 DEF Crash, Reply, Goto, TypeOK
    <2>2. phase'[d] = "none"
        BY <1>1, <1>5 DEF Crash, Disconnect, EndWithout, Return, StoreTypeOK, storeVars
    <2> QED
        BY <2>1, <2>2, IdleBehind
<1> QED
    BY <1>2, <1>3, <1>4, <1>5, OthersRest, AllRest DEF Next

-----------------------------------------------------------------------------
(* The chain                                                               *)

\* A new version is the plan of a worker that stood right before its commit.
LEMMA NewVersion ==
    ASSUME StoreInv, TypeOK, GatesBehindHold, [Next]_vars
    PROVE  \/ state_versions' = state_versions
           \/ \E e \in Clients :
                 /\ pc[e] = "commit" /\ request[e] \notin Unverifiable
                 /\ head[e] = HeadVersion
                 /\ VerifyResult(e) /\ CommitRow(e)
                 /\ DOMAIN state_versions' = DOMAIN state_versions \cup {NextVersion(head[e])}
                 /\ state_versions'[NextVersion(head[e])].content = request[e]
<1>1. ASSUME NEW e \in Clients, VerifyResult(e), CommitRow(e), request[e] \notin Unverifiable
      PROVE  /\ pc[e] = "commit"
             /\ head[e] = HeadVersion
             /\ DOMAIN state_versions' = DOMAIN state_versions \cup {NextVersion(head[e])}
             /\ state_versions'[NextVersion(head[e])].content = request[e]
    BY <1>1, CommitWrites DEF GatesBehindHold
<1>2. ASSUME NEW e \in Clients, VerifyResult(e)
      PROVE  state_versions' = state_versions \/ (CommitRow(e) /\ request[e] \notin Unverifiable)
    BY <1>2 DEF VerifyResult, RollBack, EndWithout
<1>3. ASSUME NEW e \in Clients, Step(e), ~VerifyResult(e)
      PROVE  state_versions' = state_versions
    BY <1>3 DEF Step, FindCompleted, LoadPlan, ValidateState, ValidateConstraints, ValidatePolicy,
        VerifyAuthorization, RequestApproval, RegenerateArtifacts, StartCommit, BeginCommit,
        RunStatement, LockHead, InsertRow, CommitRefused, RefuseStale, RefuseDuplicate, EndWithout,
        ParkSession, HumanReview, RecordArtifact, Complete, storeVars
<1>4. ASSUME NEW e \in Clients, Request(e) \/ Crash(e) PROVE state_versions' = state_versions
    BY <1>4 DEF Request, Execute, Crash, Disconnect, EndWithout, storeVars
<1>5. ASSUME NEW s \in Sessions, Recover(s) \/ Approve(s) PROVE state_versions' = state_versions
    BY <1>5 DEF Recover, OpenSession, StoreCandidates, Approve, Decide, storeVars
<1>6. ASSUME NEW r \in Subjects, Bury(r) PROVE state_versions' = state_versions
    BY <1>6 DEF Bury, storeVars
<1>7. CASE UNCHANGED vars
    BY <1>7 DEF vars, storeVars
<1> QED
    BY <1>1, <1>2, <1>3, <1>4, <1>5, <1>6, <1>7 DEF Next

LEMMA CandidatesKept ==
    ASSUME TypeOK, Grows, CandidatesStored, [Next]_vars
    PROVE  CandidatesStored'
<1>1. CASE candidates' = candidates
    BY <1>1 DEF CandidatesStored, Grows
<1>2. ASSUME NEW s \in Sessions, StoreCandidates(s) PROVE CandidatesStored'
    BY <1>2 DEF StoreCandidates, CandidatesStored, Grows, TypeOK
<1>3. ASSUME NEW e \in Clients, Request(e) \/ Step(e) \/ Crash(e) PROVE candidates' = candidates
    BY <1>3 DEF Request, Execute, Crash, Step, FindCompleted, LoadPlan, ValidateState,
        ValidateConstraints, ValidatePolicy, VerifyAuthorization, RequestApproval,
        RegenerateArtifacts, StartCommit, RunStatement, CommitRefused, VerifyResult, ParkSession,
        HumanReview, RecordArtifact, Complete, tables
<1>4. ASSUME NEW s \in Sessions, OpenSession(s) \/ Approve(s) PROVE candidates' = candidates
    BY <1>4 DEF OpenSession, Approve, Decide
<1>5. ASSUME NEW r \in Subjects, Bury(r) PROVE candidates' = candidates
    BY <1>5 DEF Bury, tables
<1>6. CASE UNCHANGED vars
    BY <1>1, <1>6 DEF vars, tables
<1> QED
    BY <1>1, <1>2, <1>3, <1>4, <1>5, <1>6 DEF Next, Recover

\* A version that executes a lawful, verified, approved plan goes on doing so.
LEMMA GovernedKept ==
    ASSUME StoreInv, TypeOK, Grows, OnlyGovernedVersions, GatesBehindHold, [Next]_vars
    PROVE  OnlyGovernedVersions'
<1> SUFFICES ASSUME NEW v, NEW r \in Subjects,
                    v \in DOMAIN state_versions', state_versions'[v].content = r
             PROVE  /\ r[2] \in candidates'[r[1]]
                    /\ r \notin Illegal \cup Unverifiable
                    /\ \E a \in Actors : AuthorisedBy(r, a)'
    BY DEF OnlyGovernedVersions, Executed
<1>0. r[1] \in Sessions
    BY SubjectParts
<1>1. ASSUME NEW a \in Actors, AuthorisedBy(r, a) PROVE AuthorisedBy(r, a)'
    BY <1>0, <1>1, StepNames DEF AuthorisedBy, Grows
<1>2. CASE v \in DOMAIN state_versions
    <2>1. state_versions[v].content = r
        BY <1>2 DEF Grows
    <2>2. /\ r[2] \in candidates[r[1]]
          /\ r \notin Illegal \cup Unverifiable
          /\ \E a \in Actors : AuthorisedBy(r, a)
        BY <1>0, <1>2, <2>1 DEF OnlyGovernedVersions, Executed
    <2> QED
        BY <1>0, <1>1, <2>2 DEF Grows
<1>3. ASSUME NEW e \in Clients, pc[e] = "commit", request[e] \notin Unverifiable, r = request[e]
      PROVE  /\ r[2] \in candidates'[r[1]]
             /\ r \notin Illegal \cup Unverifiable
             /\ \E a \in Actors : AuthorisedBy(r, a)'
    <2>1. approver[e] \in Actors
        BY <1>3 DEF TypeOK, At
    <2>2. /\ pc[e] \in PastLoad /\ \A i \in 1..5 : pc[e] \in PastGate(i)
          /\ pc[e] \in PastGate(5) \ {"regenerate", "executing"}
        <3>1. ASSUME NEW i \in 1..5 PROVE pc[e] \in PastGate(i)
            <4>1. i = 1 \/ i = 2 \/ i = 3 \/ i = 4 \/ i = 5
                OBVIOUS
            <4> QED
                BY <1>3, <4>1, Places
        <3> QED
            BY <1>3, <3>1, Places
    <2>3. Behind(e)
        BY DEF GatesBehindHold
    <2>4. r[2] \in candidates[r[1]] /\ r \notin Illegal
        BY <1>3, <2>2, <2>3 DEF Behind, Session, Plan
    <2>5. AuthorisedBy(r, approver[e])
        BY <1>3, <2>2, <2>3, StepNames DEF Behind, AuthorisedBy
    <2> QED
        BY <1>0, <1>1, <1>3, <2>1, <2>4, <2>5 DEF Grows
<1> QED
    BY <1>2, <1>3, NewVersion

\* ... and on the version it was computed for.
LEMMA BaseKept ==
    ASSUME StoreInv, TypeOK, Grows, CandidatesStored, OnlyGovernedVersions, PlanOnItsBase,
           GatesBehindHold, [Next]_vars
    PROVE  PlanOnItsBase'
<1> SUFFICES ASSUME NEW v \in DOMAIN state_versions', state_versions'[v].content \in Subjects
             PROVE  base'[state_versions'[v].content[1]] = v - 1
    BY DEF PlanOnItsBase, Executed
<1> DEFINE r == state_versions'[v].content
<1> HIDE DEF r
<1>0. r \in Subjects /\ r[1] \in Sessions
    BY SubjectParts DEF r
<1>1. CASE v \in DOMAIN state_versions
    <2>1. state_versions[v].content = r
        BY <1>1 DEF Grows, r
    <2>2. base[r[1]] = v - 1 /\ status[r[1]] # "NONE"
        BY <1>0, <1>1, <2>1 DEF PlanOnItsBase, OnlyGovernedVersions, CandidatesStored, Executed
    <2> QED
        BY <1>0, <2>2 DEF Grows, r
<1>2. ASSUME NEW e \in Clients, pc[e] = "commit", r = request[e],
             v = NextVersion(head[e])
      PROVE  base'[r[1]] = v - 1
    <2>1. head[e] = base[r[1]] /\ status[r[1]] # "NONE" /\ head[e] \in Nat
        BY <1>2, Places DEF GatesBehindHold, Behind, Session, TypeOK
    <2> QED
        BY <1>0, <1>2, <2>1 DEF Grows, NextVersion
<1> QED
    BY <1>1, <1>2, NewVersion DEF r

-----------------------------------------------------------------------------
(* The records and the answers                                             *)

LEMMA RecordsKept ==
    ASSUME TypeOK, Grows, GatesBehindHold, RecordsFollowCommits, [Next]_vars
    PROVE  RecordsFollowCommits'
<1> DEFINE Reached(e) == /\ NextVersion(head[e]) \in DOMAIN state_versions
                         /\ Executed(NextVersion(head[e])) = request[e]
                         /\ NextVersion(head[e]) \in DOMAIN sheets
<1>1. ASSUME UNCHANGED <<artifacts, completed>> PROVE RecordsFollowCommits'
    BY <1>1 DEF RecordsFollowCommits, Grows, Executed
<1>2. ASSUME NEW e \in Clients, pc[e] \in Written PROVE Reached(e)
    BY <1>2, Places DEF GatesBehindHold, Behind, Written
<1>3. ASSUME NEW e \in Clients, RecordArtifact(e) PROVE RecordsFollowCommits'
    <2>1. Reached(e) /\ completed' = completed /\ artifacts' = artifacts \cup {NextVersion(head[e])}
        BY <1>2, <1>3 DEF RecordArtifact, At, Written, trail
    <2>2. artifacts' \subseteq DOMAIN state_versions' \cap DOMAIN sheets'
        BY <2>1 DEF RecordsFollowCommits, Grows
    <2>3. ASSUME NEW r \in Subjects, NEW v \in completed'[r]
          PROVE  v \in artifacts' /\ state_versions'[v].content = r
        BY <2>1, <2>3 DEF RecordsFollowCommits, Grows, Executed
    <2> QED
        BY <2>2, <2>3 DEF RecordsFollowCommits, Executed
<1>4. ASSUME NEW e \in Clients, Complete(e) PROVE RecordsFollowCommits'
    <2>1. /\ Reached(e) /\ NextVersion(head[e]) \in artifacts /\ artifacts' = artifacts
          /\ completed' = [completed EXCEPT ![request[e]] = @ \cup {NextVersion(head[e])}]
        BY <1>2, <1>4 DEF Complete, At, Written, files, GatesBehindHold, Behind
    <2>2. artifacts' \subseteq DOMAIN state_versions' \cap DOMAIN sheets'
        BY <2>1 DEF RecordsFollowCommits, Grows
    <2>3. ASSUME NEW r \in Subjects, NEW v \in completed'[r]
          PROVE  v \in artifacts' /\ state_versions'[v].content = r
        <3>1. CASE v \in completed[r]
            BY <2>1, <3>1 DEF RecordsFollowCommits, Grows, Executed
        <3>2. CASE v \notin completed[r]
            <4>1. r = request[e] /\ v = NextVersion(head[e])
                BY <2>1, <2>3, <3>2 DEF TypeOK
            <4> QED
                BY <2>1, <4>1 DEF Grows, Executed
        <3> QED
            BY <3>1, <3>2
    <2> QED
        BY <2>2, <2>3 DEF RecordsFollowCommits, Executed
<1>5. ASSUME NEW e \in Clients, Request(e) \/ Crash(e) PROVE UNCHANGED <<artifacts, completed>>
    BY <1>5 DEF Request, Execute, Crash, trail, files
<1>6. ASSUME NEW e \in Clients, Step(e), ~RecordArtifact(e), ~Complete(e)
      PROVE  UNCHANGED <<artifacts, completed>>
    BY <1>6 DEF Step, FindCompleted, LoadPlan, ValidateState, ValidateConstraints, ValidatePolicy,
        VerifyAuthorization, RequestApproval, RegenerateArtifacts, StartCommit, RunStatement,
        CommitRefused, VerifyResult, ParkSession, HumanReview, Pass, Refuse, Log, trail, files
<1>7. ASSUME NEW s \in Sessions, Recover(s) \/ Approve(s) PROVE UNCHANGED <<artifacts, completed>>
    BY <1>7 DEF Recover, OpenSession, StoreCandidates, Approve, Decide, trail, files
<1>8. ASSUME NEW r \in Subjects, Bury(r) PROVE UNCHANGED <<artifacts, completed>>
    BY <1>8 DEF Bury, files
<1>9. CASE UNCHANGED vars
    BY <1>1, <1>9 DEF vars, trail, files
<1> QED
    BY <1>1, <1>3, <1>4, <1>5, <1>6, <1>7, <1>8, <1>9 DEF Next

\* The answers a worker's step can give, each with what it stands on.
LEMMA NewAnswer ==
    ASSUME TypeOK, GatesBehindHold, RecordsFollowCommits, NEW e \in Clients,
           Request(e) \/ Step(e) \/ Crash(e)
    PROVE  \/ answer'[e] = answer[e] /\ request'[e] = request[e]
           \/ answer'[e].kind \notin {"committed", "replayed", "constraints_failed",
                                      "verification_failed"}
           \/ /\ answer'[e].kind \in {"committed", "replayed"} /\ request'[e] = request[e]
              /\ answer'[e].version \in DOMAIN state_versions
              /\ Executed(answer'[e].version) = request[e]
           \/ /\ answer'[e].kind \in {"constraints_failed", "verification_failed"}
              /\ request'[e] = request[e]
              /\ request[e] \in Illegal \cup Unverifiable
<1>1. ASSUME NEW kind, NEW v, Reply(e, kind, v)
      PROVE  answer'[e].kind = kind /\ answer'[e].version = v
    BY <1>1 DEF Reply, TypeOK
<1>2. CASE Request(e)
    BY <1>2 DEF Request, Execute, NoAnswer, TypeOK
<1>3. CASE Crash(e)
    BY <1>1, <1>3 DEF Crash
<1>4. CASE FindCompleted(e)
    <2>1. request[e] \in Subjects /\ request' = request
        BY <1>4 DEF FindCompleted, TypeOK, At, asked
    <2>2. CASE answer' = answer
        BY <2>1, <2>2
    <2>3. ASSUME NEW v \in completed[request[e]], Reply(e, "replayed", v)
          PROVE  /\ answer'[e].kind = "replayed" /\ answer'[e].version = v
                 /\ v \in DOMAIN state_versions /\ Executed(v) = request[e]
        BY <1>1, <2>1, <2>3 DEF RecordsFollowCommits
    <2> QED
        BY <1>4, <2>1, <2>2, <2>3 DEF FindCompleted
<1>5. CASE Complete(e)
    <2>1. Reply(e, "committed", NextVersion(head[e])) /\ request' = request /\ pc[e] \in Written
        BY <1>5 DEF Complete, At, Written, asked
    <2>2. NextVersion(head[e]) \in DOMAIN state_versions
             /\ Executed(NextVersion(head[e])) = request[e]
        BY <2>1 DEF GatesBehindHold, Behind
    <2> QED
        BY <1>1, <2>1, <2>2
<1>6. CASE ValidateConstraints(e)
    BY <1>1, <1>6 DEF ValidateConstraints, Pass, Refuse, asked
<1>7. CASE HumanReview(e)
    <2>1. Reply(e, "verification_failed", 0) /\ request' = request /\ pc[e] = "human_review"
        BY <1>7 DEF HumanReview, At, asked
    <2>2. request[e] \in Unverifiable
        BY <2>1 DEF GatesBehindHold, Behind
    <2> QED
        BY <1>1, <2>1, <2>2
<1>8. CASE LoadPlan(e) \/ ValidateState(e) \/ ValidatePolicy(e) \/ VerifyAuthorization(e)
             \/ RequestApproval(e) \/ CommitRefused(e)
    BY <1>1, <1>8 DEF LoadPlan, ValidateState, ValidatePolicy, VerifyAuthorization,
        RequestApproval, CommitRefused, Pass, Refuse, asked
<1>9. CASE RegenerateArtifacts(e) \/ StartCommit(e) \/ RunStatement(e) \/ VerifyResult(e)
             \/ ParkSession(e) \/ RecordArtifact(e)
    BY <1>9 DEF RegenerateArtifacts, StartCommit, RunStatement, VerifyResult, ParkSession,
        RecordArtifact, Pass, asked
<1> QED
    BY <1>2, <1>3, <1>4, <1>5, <1>6, <1>7, <1>8, <1>9 DEF Step

LEMMA AnswersKept ==
    ASSUME StoreInv, TypeOK, Grows, GatesBehindHold, RecordsFollowCommits, AnswersBacked, [Next]_vars
    PROVE  AnswersBacked'
<1> SUFFICES ASSUME NEW d \in Clients PROVE AnswerBacked(d)'
    BY DEF AnswersBacked
<1>1. AnswerBacked(d)
    BY DEF AnswersBacked
<1>2. CASE answer'[d] = answer[d] /\ request'[d] = request[d]
    BY <1>1, <1>2 DEF AnswerBacked, Grows, Executed
<1>3. CASE Request(d) \/ Step(d) \/ Crash(d)
    BY <1>2, <1>3, NewAnswer DEF AnswerBacked, Grows, Executed
<1> QED
    BY <1>2, <1>3, OthersRest, AllRest DEF Next, Rests

-----------------------------------------------------------------------------
(* The theorems                                                            *)

LEMMA TransInvInit == Init => TransInv
<1> SUFFICES ASSUME Init PROVE TransInv
    OBVIOUS
<1>1. DOMAIN state_versions = {1} /\ state_versions[1] = [parent |-> 0, content |-> Seed]
    BY DEF Init
<1>2. HeadVersion = 1
    BY <1>1 DEF HeadVersion
<1>3. StoreInv
    <2>1. StoreTypeOK
        BY <1>1, ContentsAssumption DEF Init, StoreTypeOK, Phases, Outcomes, Row
    <2> QED
        BY <1>1, <1>2, <2>1 DEF Init, StoreInv, ChainUnbroken, OneWriterPerVersion,
            InsertedExtendsHead, SeenReached
<1>4. TypeOK
    BY <1>3 DEF Init, StoreInv, TypeOK, At, NoAnswer, PCs, Kinds
<1>5. PlanOnItsBase /\ OnlyGovernedVersions
    BY <1>1, PlanAssumption DEF PlanOnItsBase, OnlyGovernedVersions, Executed
<1>6. GatesBehindHold
    BY IdleBehind, Places, StepNames DEF Init, GatesBehindHold, Behind, Written
<1>7. CandidatesStored /\ RecordsFollowCommits /\ AnswersBacked
    BY DEF Init, CandidatesStored, RecordsFollowCommits, AnswersBacked, AnswerBacked, NoAnswer
<1> QED
    BY <1>3, <1>4, <1>5, <1>6, <1>7 DEF TransInv

LEMMA TransInvNext == TransInv /\ [Next]_vars => TransInv'
<1> SUFFICES ASSUME TransInv, [Next]_vars PROVE TransInv'
    OBVIOUS
<1>1. StoreInv' /\ StoreTypeOK'
    BY StoreFits, StoreStepSafe DEF TransInv, StoreInv
<1>2. Grows /\ TypeOK'
    BY <1>1, NextGrows, NextTyped DEF TransInv
<1>3. CandidatesStored' /\ PlanOnItsBase' /\ OnlyGovernedVersions'
    BY <1>2, CandidatesKept, BaseKept, GovernedKept DEF TransInv
<1>4. GatesBehindHold' /\ RecordsFollowCommits' /\ AnswersBacked'
    BY <1>2, GatesKept, RecordsKept, AnswersKept DEF TransInv
<1> QED
    BY <1>1, <1>2, <1>3, <1>4 DEF TransInv

\* The inductive invariant holds in every behaviour of the path.
THEOREM Invariant == Spec => []TransInv
BY TransInvInit, TransInvNext, PTL DEF Spec

\* Tables, log, files and workers are well typed for ever.
THEOREM Typed == Spec => []TypeOK
<1>1. TransInv => TypeOK
    BY DEF TransInv
<1> QED
    BY <1>1, Invariant, PTL

\* However executions interleave and die, the versions are 1, 2, ..., n.
THEOREM Unbroken == Spec => []ChainUnbroken
<1>1. TransInv => ChainUnbroken
    BY DEF TransInv, StoreInv
<1> QED
    BY <1>1, Invariant, PTL

\* No plan is ever committed on a version other than the one it was computed for.
THEOREM OnItsBase == Spec => []PlanOnItsBase
<1>1. TransInv => PlanOnItsBase
    BY DEF TransInv
<1> QED
    BY <1>1, Invariant, PTL

\* A session's plans are executed at most once between them: two versions that
\* come from one session share its base, so they are one version.
THEOREM Once == Spec => []ExecutedOnce
<1>1. ASSUME TransInv,
             NEW v \in DOMAIN state_versions, NEW w \in DOMAIN state_versions,
             Executed(v) \in Subjects, Executed(w) \in Subjects, Executed(v)[1] = Executed(w)[1]
      PROVE  v = w
    <2>1. base[Executed(v)[1]] = v - 1 /\ base[Executed(w)[1]] = w - 1
        BY <1>1 DEF TransInv, PlanOnItsBase
    <2>2. v \in Nat /\ w \in Nat
        BY <1>1 DEF TransInv, StoreInv, StoreTypeOK
    <2> QED
        BY <1>1, <2>1, <2>2
<1>2. TransInv => ExecutedOnce
    BY <1>1 DEF ExecutedOnce
<1> QED
    BY <1>2, Invariant, PTL

\* No version of a production gets past the seven gates unlawful, unverified,
\* unlogged or unapproved.
THEOREM Governed == Spec => []OnlyGovernedVersions
<1>1. TransInv => OnlyGovernedVersions
    BY DEF TransInv
<1> QED
    BY <1>1, Invariant, PTL

\* What a gate established still holds when the worker has gone on from it.
THEOREM GatesHold == Spec => []GatesBehindHold
<1>1. TransInv => GatesBehindHold
    BY DEF TransInv
<1> QED
    BY <1>1, Invariant, PTL

\* Completed entries and artifact rows never run ahead of the chain.
THEOREM RecordsFollow == Spec => []RecordsFollowCommits
<1>1. TransInv => RecordsFollowCommits
    BY DEF TransInv
<1> QED
    BY <1>1, Invariant, PTL

\* No caller is told of a version that does not hold its plan, and none whose
\* plan was refused for what it is will ever find it committed.
THEOREM Truthful == Spec => []AnswersTruthful
<1>1. ASSUME TransInv, NEW e \in Clients PROVE AnswerBacked(e)
    BY <1>1 DEF TransInv, AnswersBacked
<1>2. ASSUME TransInv, NEW v \in DOMAIN state_versions
      PROVE  Executed(v) \notin Illegal \cup Unverifiable
    BY <1>2, PlanAssumption DEF TransInv, OnlyGovernedVersions
<1>3. TransInv => AnswersTruthful
    BY <1>1, <1>2 DEF AnswersTruthful, AnswerBacked
<1> QED
    BY <1>3, Invariant, PTL

\* The chain moves when one worker commits on the head it checked, and only then.
THEOREM OnlyCommits == Spec => OnlyCommitsExtend
<1> DEFINE Extends == state_versions' # state_versions =>
                         \E e \in Clients :
                             /\ pc[e] = "commit" /\ pc'[e] = "record_artifact"
                             /\ head[e] = HeadVersion
                             /\ \A d \in Clients \ {e} : pc'[d] = pc[d]
<1>1. ASSUME TransInv, [Next]_vars, state_versions' # state_versions PROVE Extends
    <2>1. PICK e \in Clients : /\ pc[e] = "commit" /\ request[e] \notin Unverifiable
                               /\ head[e] = HeadVersion
                               /\ VerifyResult(e)
        BY <1>1, NewVersion DEF TransInv
    <2>2. pc'[e] = "record_artifact"
        BY <1>1, <2>1 DEF TransInv, TypeOK, VerifyResult, Goto
    <2>3. \A d \in Clients \ {e} : pc'[d] = pc[d]
        BY <1>1, <2>1, OthersRest DEF TransInv, Step, Rests
    <2> QED
        BY <2>1, <2>2, <2>3
<1>2. TransInv /\ [Next]_vars => [Extends]_vars
    BY <1>1
<1> QED
    BY <1>2, Invariant, PTL DEF Spec, OnlyCommitsExtend

\* Committed versions stay, whoever races and whatever dies.
THEOREM KeptForEver == Spec => AppendOnly
<1> DEFINE Kept == \A v \in DOMAIN state_versions :
                       v \in DOMAIN state_versions' /\ state_versions'[v] = state_versions[v]
<1>1. TransInv /\ [Next]_vars => [Kept]_storeVars
    BY NextGrows DEF TransInv, Grows
<1> QED
    BY <1>1, Invariant, PTL DEF Spec, AppendOnly

-----------------------------------------------------------------------------
(* The path implements the promise                                         *)

chainBar    == [v \in DOMAIN state_versions |-> Executed(v)]
openedBar   == {s \in Sessions : status[s] # "NONE"}
approvedBar == {r \in Subjects : \E i \in 1..Len(approvals[r]) :
                                    approvals[r][i].decision = "APPROVED"}

LEMMA PromiseInit == Init => Promise!GovInit
<1> SUFFICES ASSUME Init PROVE Promise!GovInit
    OBVIOUS
<1>1. chainBar = <<Seed>>
    BY DEF Init, chainBar, Executed
<1>2. openedBar = {} /\ approvedBar = {}
    BY DEF Init, openedBar, approvedBar
<1>3. base = [s \in Sessions |-> 0]
    BY DEF Init
<1> QED
    BY <1>1, <1>2, <1>3 DEF Promise!GovInit, chainBar, openedBar, approvedBar

\* The chain as the promise sees it: a sequence as long as the head's version.
LEMMA ChainIsSeq ==
    ASSUME StoreInv
    PROVE  /\ chainBar \in Seq(Contents)
           /\ Len(chainBar) = HeadVersion
           /\ DOMAIN state_versions = 1..HeadVersion
           /\ HeadVersion \in Nat
           /\ \A v \in 1..HeadVersion : chainBar[v] = state_versions[v].content
<1>1. HeadVersion \in Nat /\ DOMAIN state_versions = 1..HeadVersion
    BY DEF StoreInv, ChainUnbroken
<1>2. \A v \in 1..HeadVersion : state_versions[v].content \in Contents
    BY <1>1 DEF StoreInv, StoreTypeOK, Row
<1>3. chainBar = [v \in 1..HeadVersion |-> state_versions[v].content]
    BY <1>1 DEF chainBar, Executed
<1> QED
    BY <1>1, <1>2, <1>3

\* A commit appends the request's plan to the promised chain.
LEMMA CommitIsExecute ==
    ASSUME TransInv, NEW e \in Clients, VerifyResult(e), CommitRow(e), request[e] \notin Unverifiable
    PROVE  Promise!Execute(Session(e), Plan(e)) /\ Session(e) \in Sessions /\ Plan(e) \in Plans
<1>1. /\ Behind(e) /\ pc[e] = "commit" /\ pc[e] # "idle"
      /\ UNCHANGED tables
    BY DEF TransInv, GatesBehindHold, VerifyResult, At
<1>2. /\ request[e] \in Subjects /\ Session(e) \in Sessions /\ Plan(e) \in Plans
      /\ request[e] = <<Session(e), Plan(e)>>
    BY <1>1, SubjectParts DEF TransInv, TypeOK, At, Session, Plan
<1>3. /\ Session(e) \in openedBar
      /\ head[e] = base[Session(e)]
      /\ request[e] \notin Illegal
    BY <1>1, <1>2, Places DEF Behind, openedBar
<1>4. ASSUME ApprovalRequired PROVE request[e] \in approvedBar
    <2>1. PICK i \in 1..Len(approvals[request[e]]) :
              approvals[request[e]][i] = [approver |-> approver[e], decision |-> "APPROVED"]
        BY <1>1, <1>4, Places DEF Behind
    <2> QED
        BY <1>2, <2>1 DEF approvedBar
<1>5. UNCHANGED <<openedBar, base, approvedBar>>
    BY <1>1 DEF tables, openedBar, approvedBar
<1> DEFINE n == HeadVersion
<1>6. /\ n \in Nat /\ head[e] = n
      /\ DOMAIN state_versions = 1..n
      /\ DOMAIN state_versions' = 1..(n + 1)
      /\ \A v \in 1..n : state_versions'[v] = state_versions[v]
      /\ state_versions'[n + 1].content = request[e]
    <2>1. StoreInv /\ n \in Nat /\ DOMAIN state_versions = 1..n
        BY DEF TransInv, StoreInv, ChainUnbroken
    <2>2. /\ head[e] = n /\ content[e] = request[e]
          /\ DOMAIN state_versions' = 1..(n + 1)
          /\ \A v \in DOMAIN state_versions : state_versions'[v] = state_versions[v]
          /\ state_versions'[n + 1] = [parent |-> n, content |-> content[e]]
        BY <1>1, <2>1, CommitExtends, CommitWrites
    <2> QED
        BY <2>1, <2>2
<1>7. chainBar \in Seq(Contents) /\ Len(chainBar) = n
         /\ \A v \in 1..n : chainBar[v] = state_versions[v].content
    BY ChainIsSeq DEF TransInv
<1> HIDE DEF n
<1>8. chainBar' = Append(chainBar, request[e])
    <2>1. chainBar' = [v \in 1..(n + 1) |-> state_versions'[v].content]
        BY <1>6 DEF chainBar, Executed
    <2>2. Append(chainBar, request[e]) =
              [v \in 1..(n + 1) |-> IF v = n + 1 THEN request[e] ELSE chainBar[v]]
        BY <1>6, <1>7
    <2>3. \A v \in 1..(n + 1) :
              state_versions'[v].content = IF v = n + 1 THEN request[e] ELSE chainBar[v]
        BY <1>6, <1>7
    <2> QED
        BY <2>1, <2>2, <2>3
<1> QED
    BY <1>2, <1>3, <1>4, <1>5, <1>6, <1>7, <1>8
    DEF Promise!Execute, chainBar, openedBar, approvedBar

\* Storing a session opens it, on a version the promised chain has.
LEMMA OpenSessionIsOpen ==
    ASSUME TransInv, NEW s \in Sessions, OpenSession(s)
    PROVE  \E b \in 1..Len(chainBar) : Promise!Open(s, b)
<1>1. PICK b \in DOMAIN state_versions : base' = [base EXCEPT ![s] = b]
    BY DEF OpenSession
<1>2. b \in 1..Len(chainBar)
    BY <1>1, ChainIsSeq DEF TransInv
<1>3. s \notin openedBar /\ openedBar' = openedBar \cup {s}
    BY DEF OpenSession, openedBar, TransInv, TypeOK
<1>4. chainBar' = chainBar /\ approvedBar' = approvedBar
    BY DEF OpenSession, storeVars, chainBar, approvedBar, Executed
<1> QED
    BY <1>1, <1>2, <1>3, <1>4 DEF Promise!Open, chainBar, openedBar, approvedBar

\* A decision approves, or leaves the promise's state alone.
LEMMA DecideIsApprove ==
    ASSUME TransInv, NEW s \in Sessions, NEW p \in Plans, NEW a \in Actors,
           NEW d \in {"APPROVED", "REJECTED"}, Decide(s, p, a, d)
    PROVE  Promise!Approve(s, p) \/ UNCHANGED <<chainBar, openedBar, base, approvedBar>>
<1> DEFINE row == [approver |-> a, decision |-> d]
<1>1. /\ <<s, p>> \in Subjects
      /\ row \in DecisionRow /\ row.decision = d
      /\ approvals' = [approvals EXCEPT ![<<s, p>>] = Append(@, row)]
    BY DEF Subjects, DecisionRow, Decide
<1> HIDE DEF row
<1>2. s \in openedBar /\ openedBar' = openedBar
    BY DEF Decide, TransInv, CandidatesStored, TypeOK, openedBar
<1>3. chainBar' = chainBar /\ base' = base
    BY DEF Decide, storeVars, chainBar, Executed
<1>4. ASSUME NEW q \in Seq(DecisionRow)
      PROVE  (\E i \in 1..Len(Append(q, row)) : Append(q, row)[i].decision = "APPROVED")
                <=> (\E i \in 1..Len(q) : q[i].decision = "APPROVED") \/ d = "APPROVED"
    <2>1. /\ Len(q) \in Nat /\ Len(Append(q, row)) = Len(q) + 1
          /\ Append(q, row)[Len(q) + 1] = row
          /\ \A i \in 1..Len(q) : Append(q, row)[i] = q[i]
        BY <1>1
    <2> QED
        BY <1>1, <2>1
<1>5. \A r \in Subjects :
          /\ approvals[r] \in Seq(DecisionRow)
          /\ approvals'[r] = IF r = <<s, p>> THEN Append(approvals[r], row) ELSE approvals[r]
    BY <1>1 DEF TransInv, TypeOK
<1>6. \A r \in Subjects :
          r \in approvedBar' <=> r \in approvedBar \/ (r = <<s, p>> /\ d = "APPROVED")
    <2> TAKE r \in Subjects
    <2>1. CASE r # <<s, p>>
        BY <1>5, <2>1 DEF approvedBar
    <2>2. CASE r = <<s, p>>
        <3>1. /\ approvals[r] \in Seq(DecisionRow)
              /\ approvals'[r] = Append(approvals[r], row)
            BY <1>5, <2>2
        <3>2. r \in approvedBar' <=>
                  \E i \in 1..Len(approvals'[r]) : approvals'[r][i].decision = "APPROVED"
            BY DEF approvedBar
        <3>3. r \in approvedBar <=>
                  \E i \in 1..Len(approvals[r]) : approvals[r][i].decision = "APPROVED"
            BY DEF approvedBar
        <3> QED
            BY <1>4, <2>2, <3>1, <3>2, <3>3
    <2> QED
        BY <2>1, <2>2
<1>7. approvedBar' = IF d = "APPROVED" THEN approvedBar \cup {<<s, p>>} ELSE approvedBar
    <2>1. approvedBar \subseteq Subjects /\ approvedBar' \subseteq Subjects
        BY DEF approvedBar
    <2> QED
        BY <1>1, <1>6, <2>1
<1> QED
    BY <1>2, <1>3, <1>7 DEF Promise!Approve, chainBar, openedBar, approvedBar

\* Every other step happens inside the path and is none of the promise's.
LEMMA PromiseNext ==
    ASSUME TransInv, [Next]_vars
    PROVE  Promise!GovNext \/ UNCHANGED <<chainBar, openedBar, base, approvedBar>>
<1> DEFINE Still == UNCHANGED <<chainBar, openedBar, base, approvedBar>>
<1>1. CASE UNCHANGED <<state_versions, status, base, approvals>>
    BY <1>1 DEF chainBar, openedBar, approvedBar, Executed
<1>2. ASSUME NEW s \in Sessions, OpenSession(s) PROVE Promise!GovNext
    BY <1>2, OpenSessionIsOpen DEF Promise!GovNext, chainBar
<1>3. ASSUME NEW s \in Sessions, Approve(s) PROVE Promise!GovNext \/ Still
    BY <1>3, DecideIsApprove DEF Approve, Promise!GovNext
<1>4. ASSUME NEW s \in Sessions, StoreCandidates(s)
      PROVE  UNCHANGED <<state_versions, status, base, approvals>>
    BY <1>4 DEF StoreCandidates, storeVars
<1>5. ASSUME NEW e \in Clients, VerifyResult(e), state_versions' # state_versions
      PROVE  Promise!GovNext
    <2>1. CommitRow(e) /\ request[e] \notin Unverifiable
        BY <1>5 DEF VerifyResult, RollBack, EndWithout
    <2> QED
        BY <1>5, <2>1, CommitIsExecute DEF Promise!GovNext
<1>6. ASSUME NEW e \in Clients, ParkSession(e) PROVE Still
    <2>1. UNCHANGED <<state_versions, base, approvals>>
        BY <1>6 DEF ParkSession, storeVars
    <2>2. Session(e) \in Sessions /\ status[Session(e)] # "NONE"
        BY <1>6, SubjectParts DEF ParkSession, At, TransInv, TypeOK, GatesBehindHold, Behind, Session
    <2>3. openedBar' = openedBar
        BY <1>6, <2>2 DEF ParkSession, TransInv, TypeOK, openedBar
    <2> QED
        BY <2>1, <2>3 DEF chainBar, approvedBar, Executed
<1>7. ASSUME NEW e \in Clients, Request(e) \/ Step(e) \/ Crash(e),
             state_versions' = state_versions, ~ParkSession(e)
      PROVE  UNCHANGED <<state_versions, status, base, approvals>>
    BY <1>7 DEF Request, Execute, Crash, Step, FindCompleted, LoadPlan, ValidateState,
        ValidateConstraints, ValidatePolicy, VerifyAuthorization, RequestApproval,
        RegenerateArtifacts, StartCommit, RunStatement, CommitRefused, VerifyResult,
        HumanReview, RecordArtifact, Complete, tables
<1>8. ASSUME NEW e \in Clients, Request(e) \/ Step(e) \/ Crash(e), ~VerifyResult(e)
      PROVE  state_versions' = state_versions
    BY <1>8 DEF Request, Execute, Crash, Disconnect, Step, FindCompleted, LoadPlan, ValidateState,
        ValidateConstraints, ValidatePolicy, VerifyAuthorization, RequestApproval,
        RegenerateArtifacts, StartCommit, BeginCommit, RunStatement, LockHead, InsertRow,
        CommitRefused, RefuseStale, RefuseDuplicate, EndWithout, ParkSession, HumanReview,
        RecordArtifact, Complete, storeVars
<1>9. ASSUME NEW r \in Subjects, Bury(r) PROVE UNCHANGED <<state_versions, status, base, approvals>>
    BY <1>9 DEF Bury, storeVars, tables
<1>10. CASE UNCHANGED vars
    BY <1>1, <1>10 DEF vars, storeVars, tables
<1> QED
    BY <1>1, <1>2, <1>3, <1>4, <1>5, <1>6, <1>7, <1>8, <1>9, <1>10 DEF Next, Recover

\* Gates, locks, retries and crashes implement the one-step promise.
THEOREM Promised == Spec => KeepsPromise
<1>1. TransInv /\ [Next]_vars =>
          [Promise!GovNext]_<<chainBar, openedBar, base, approvedBar>>
    BY PromiseNext
<1>2. TransInv /\ [Next]_vars => [Promise!GovNext]_(Promise!govVars)
    BY <1>1 DEF Promise!govVars, chainBar, openedBar, approvedBar
<1> QED
    BY <1>2, PromiseInit, Invariant, PTL DEF Spec, KeepsPromise, Promise!GovSpec
=============================================================================
