----------------------------- MODULE Transition -----------------------------
(***************************************************************************)
(* The guarded execution path: TransitionService.execute and the requests  *)
(* it races with.                                                          *)
(*                                                                         *)
(* A client of the store is one worker that serves execute requests.  Each *)
(* request walks the seven gates of STEPS; every repository call is its    *)
(* own transaction, so between any two of them other requests run, a       *)
(* producer may change a decision, and the process may die.  Only the      *)
(* commit of gate 6 and the verification of gate 7 share a transaction.    *)
(*                                                                         *)
(* An append to the audit log that directly follows the read it reports on *)
(* belongs to the same action: nothing reads those entries back.  The      *)
(* entry that is read back, transition.completed, is an action of its own. *)
(***************************************************************************)
EXTENDS StateStore, Sequences

CONSTANTS
    Sessions, Plans,
    Actors,            \* names a request or a decision may carry, a blank one among them
    Seed,              \* what version 1 says
    Illegal,           \* <<session, plan>>: breaks a HARD rule when re-validated
    Unverifiable,      \* <<session, plan>>: legal, but one of V1..V6 fails
    Permitted,         \* actors allowed to authorise; never the blank one
    ApprovalRequired,  \* approval.schedule_change.required of the policy
    MaxCalls,          \* bound of the runs: execute requests
    MaxDecisions       \* bound of the runs: decisions of producers

Subjects == Sessions \X Plans

ASSUME ContentsAssumption == Contents = Subjects \cup {Seed}
ASSUME PlanAssumption ==
    /\ Illegal \subseteq Subjects
    /\ Unverifiable \subseteq Subjects
    /\ Seed \notin Subjects
    /\ Blank \notin Contents
ASSUME PolicyAssumption ==
    /\ ApprovalRequired \in BOOLEAN
    /\ Permitted \subseteq Actors
    /\ Blank \notin Actors

VARIABLES
    status,      \* recovery_sessions.status, "NONE" before the row exists
    base,        \* recovery_sessions.base_version
    candidates,  \* per session: the ids in candidate_plans
    approvals,   \* per subject: the decisions on record, oldest first
    audit,       \* per subject: <<action, actor>> entries of audit_log
    completed,   \* per subject: new_version of its transition.completed entries
    buried,      \* subjects whose completed entry is past the 500 newest
    sheets,      \* call-sheet files: version in the key -> plan they were drawn from
    artifacts,   \* versions with rows in the artifacts table
    pc,          \* per worker: the next step of execute
    request,     \* per worker: the <<session, plan>> it was asked to execute
    approver,    \* per worker: the approver named in the request
    head,        \* per worker: version of the head it read at gate 1
    answer,      \* per worker: [kind, version] of its last response
    calls,       \* execute requests so far
    decisions    \* decisions so far

tables == <<status, base, candidates, approvals, decisions>>
trail  == <<audit, completed, buried>>
files  == <<sheets, artifacts>>
asked  == <<request, approver, calls>>
vars   == <<storeVars, tables, trail, files, pc, asked, head, answer>>

NoAnswer == [kind |-> "none", version |-> 0]
STEPS == <<"validate_state", "validate_constraints", "validate_policy",
           "verify_authorization", "request_approval">>

-----------------------------------------------------------------------------
(* Helpers of execute                                                      *)

Session(e) == request[e][1]
Plan(e)    == request[e][2]

At(e, step) == pc[e] = step
Goto(e, step) == pc' = [pc EXCEPT ![e] = step]

\* The response, or the exception its error handler turns into one.
Reply(e, kind, version) ==
    /\ Goto(e, "idle")
    /\ head'   = [head EXCEPT ![e] = 0]
    /\ answer' = [answer EXCEPT ![e] = [kind |-> kind, version |-> version]]

Log(e, action) ==
    /\ audit' = [audit EXCEPT ![request[e]] = @ \cup {<<action, approver[e]>>}]
    /\ UNCHANGED <<completed, buried>>

\* A gate opens: its entry is written before the next gate is tried.
Pass(e, next) ==
    /\ Log(e, pc[e])
    /\ Goto(e, next)
    /\ UNCHANGED answer

\* A gate stays shut: transition.rejected, then the typed exception.
Refuse(e, kind) == Log(e, "rejected") /\ Reply(e, kind, 0)

\* The newest decision on a plan.
Decided(r)   == approvals[r] # <<>>
Decision(r)  == approvals[r][Len(approvals[r])]

-----------------------------------------------------------------------------
(* Sessions and decisions: the requests executions race with               *)

Init ==
    /\ state_versions = [v \in {1} |-> [parent |-> 0, content |-> Seed]]
    /\ phase   = [c \in Clients |-> "none"]
    /\ parent  = [c \in Clients |-> 0]
    /\ content = [c \in Clients |-> Blank]
    /\ seen    = [c \in Clients |-> 0]
    /\ outcome = [c \in Clients |-> "none"]
    /\ status     = [s \in Sessions |-> "NONE"]
    /\ base       = [s \in Sessions |-> 0]
    /\ candidates = [s \in Sessions |-> {}]
    /\ approvals  = [r \in Subjects |-> <<>>]
    /\ audit      = [r \in Subjects |-> {}]
    /\ completed  = [r \in Subjects |-> {}]
    /\ buried     = {}
    /\ sheets     = <<>>
    /\ artifacts  = {}
    /\ pc       = [e \in Clients |-> "idle"]
    /\ request  = [e \in Clients |-> Blank]
    /\ approver = [e \in Clients |-> Blank]
    /\ head     = [e \in Clients |-> 0]
    /\ answer   = [e \in Clients |-> NoAnswer]
    /\ calls     = 0
    /\ decisions = 0

\* create_session_with_id: the recovery was computed on a version that was the
\* head when it started, and need not be the head any more.
OpenSession(s) ==
    /\ status[s] = "NONE"
    /\ \E b \in DOMAIN state_versions : base' = [base EXCEPT ![s] = b]
    /\ status' = [status EXCEPT ![s] = "OPEN"]
    /\ UNCHANGED <<storeVars, candidates, approvals, decisions, trail, files, pc, asked, head, answer>>

\* add_candidates, a transaction of its own: a recovery that dies before it
\* leaves a session without candidates.
StoreCandidates(s) ==
    /\ status[s] # "NONE"
    /\ candidates[s] = {}
    /\ candidates' = [candidates EXCEPT ![s] = Plans]
    /\ UNCHANGED <<storeVars, status, base, approvals, decisions, trail, files, pc, asked, head, answer>>

\* POST /approve: whoever it names, whatever the session's status, whatever the
\* plan's verdict; only the foreign key to candidate_plans can refuse it.
Decide(s, p, a, decision) ==
    /\ p \in candidates[s]
    /\ decisions < MaxDecisions
    /\ decisions' = decisions + 1
    /\ approvals' = [approvals EXCEPT ![<<s, p>>] =
                        Append(@, [approver |-> a, decision |-> decision])]
    /\ status' = [status EXCEPT ![s] = decision]
    /\ UNCHANGED <<storeVars, base, candidates, trail, files, pc, asked, head, answer>>

\* Five hundred younger entries of other requests hide a completed entry.
Bury(r) ==
    /\ completed[r] # {}
    /\ buried' = buried \cup {r}
    /\ UNCHANGED <<storeVars, tables, audit, completed, files, pc, asked, head, answer>>

-----------------------------------------------------------------------------
(* TransitionService.execute                                               *)

\* POST /execute reaches a worker; the session row is read (404 without it).
Execute(e, s, p, a) ==
    /\ At(e, "idle")
    /\ calls < MaxCalls
    /\ status[s] # "NONE"
    /\ calls'    = calls + 1
    /\ request'  = [request EXCEPT ![e] = <<s, p>>]
    /\ approver' = [approver EXCEPT ![e] = a]
    /\ answer'   = [answer EXCEPT ![e] = NoAnswer]
    /\ Goto(e, "find_completed")
    /\ UNCHANGED <<storeVars, tables, trail, files, head>>

\* Mutant: the audit scan compares the action and not the subject.
FindCompletedOfAnyPlan(e) ==
    /\ At(e, "find_completed")
    /\ \/ \E r \in Subjects \ buried : \E v \in completed[r] : Reply(e, "replayed", v)
       \/ /\ \A r \in Subjects \ buried : completed[r] = {}
          /\ Goto(e, "load_plan")
          /\ UNCHANGED <<head, answer>>
    /\ UNCHANGED <<storeVars, tables, trail, files, asked>>

\* _find_completed: a transition.completed entry among the 500 newest answers
\* the call with the version it names.
FindCompleted(e) ==
    /\ At(e, "find_completed")
    /\ \/ /\ request[e] \notin buried
          /\ \E v \in completed[request[e]] : Reply(e, "replayed", v)
       \/ /\ completed[request[e]] = {} \/ request[e] \in buried
          /\ Goto(e, "load_plan")
          /\ UNCHANGED <<head, answer>>
    /\ UNCHANGED <<storeVars, tables, trail, files, asked>>

\* _load_plan: the stored candidate, stamped with the session's base version.
LoadPlan(e) ==
    /\ At(e, "load_plan")
    /\ \/ /\ Plan(e) \in candidates[Session(e)]
          /\ Goto(e, "validate_state")
          /\ UNCHANGED <<head, answer>>
       \/ /\ Plan(e) \notin candidates[Session(e)]
          /\ Reply(e, "approval_missing", 0)
    /\ UNCHANGED <<storeVars, tables, trail, files, asked>>

\* Mutant: the plan is rebased on whatever the head is by now.
ValidateStateAnyHead(e) ==
    /\ At(e, "validate_state")
    /\ head' = [head EXCEPT ![e] = HeadVersion]
    /\ Pass(e, "validate_constraints")
    /\ UNCHANGED <<storeVars, tables, files, asked>>

\* Gate 1: the head is still the version the plan was computed for.
ValidateState(e) ==
    /\ At(e, "validate_state")
    /\ \/ /\ HeadVersion = base[Session(e)]
          /\ head' = [head EXCEPT ![e] = HeadVersion]
          /\ Pass(e, "validate_constraints")
       \/ /\ HeadVersion # base[Session(e)]
          /\ Refuse(e, "stale_state")
    /\ UNCHANGED <<storeVars, tables, files, asked>>

\* Gate 2: the plan is applied to the head just read and re-validated.
ValidateConstraints(e) ==
    /\ At(e, "validate_constraints")
    /\ \/ /\ request[e] \notin Illegal
          /\ Pass(e, "validate_policy")
          /\ UNCHANGED head
       \/ /\ request[e] \in Illegal
          /\ Refuse(e, "constraints_failed")
    /\ UNCHANGED <<storeVars, tables, files, asked>>

\* Gate 3 only reads whether an approval is required.
ValidatePolicy(e) ==
    /\ At(e, "validate_policy")
    /\ Pass(e, "verify_authorization")
    /\ UNCHANGED <<storeVars, tables, files, asked, head>>

\* Gate 4: a named, permitted approver.
VerifyAuthorization(e) ==
    /\ At(e, "verify_authorization")
    /\ \/ /\ ApprovalRequired => approver[e] \in Permitted
          /\ Pass(e, "request_approval")
          /\ UNCHANGED head
       \/ /\ ApprovalRequired
          /\ approver[e] \notin Permitted
          /\ Refuse(e, "not_authorized")
    /\ UNCHANGED <<storeVars, tables, files, asked>>

\* Mutants: any decision will do, and any approver will do.
ApprovedByAnyDecision(r, a) ==
    /\ Decided(r)
    /\ Decision(r).approver = a

ApprovedByAnyone(r, a) ==
    /\ Decided(r)
    /\ Decision(r).decision = "APPROVED"

\* Gate 5: the newest decision on the plan is an approval by that approver.
ApprovedBy(r, a) ==
    /\ Decided(r)
    /\ Decision(r).decision = "APPROVED"
    /\ Decision(r).approver = a

RequestApproval(e) ==
    /\ At(e, "request_approval")
    /\ \/ /\ ApprovalRequired => ApprovedBy(request[e], approver[e])
          /\ Pass(e, "regenerate")
          /\ UNCHANGED head
       \/ /\ ApprovalRequired
          /\ ~ApprovedBy(request[e], approver[e])
          /\ Refuse(e, "approval_missing")
    /\ UNCHANGED <<storeVars, tables, files, asked>>

\* Mutant: the sheets are registered as soon as they are drawn.
RegenerateAndRegister(e) ==
    /\ At(e, "regenerate")
    /\ sheets' = Put(sheets, NextVersion(head[e]), request[e])
    /\ artifacts' = artifacts \cup {NextVersion(head[e])}
    /\ Goto(e, "executing")
    /\ UNCHANGED <<storeVars, tables, trail, asked, head, answer>>

\* Gate 6 draws the call sheets first, under the number the version will get.
RegenerateArtifacts(e) ==
    /\ At(e, "regenerate")
    /\ sheets' = Put(sheets, NextVersion(head[e]), request[e])
    /\ Goto(e, "executing")
    /\ UNCHANGED <<storeVars, tables, trail, artifacts, asked, head, answer>>

\* The transition.executing entry, then commit_state.
StartCommit(e) ==
    /\ At(e, "executing")
    /\ BeginCommit(e, head[e], request[e])
    /\ Pass(e, "commit")
    /\ UNCHANGED <<tables, files, asked, head>>

\* commit_state waits for the head row, or inserts the new one.
RunStatement(e) ==
    /\ At(e, "commit")
    /\ LockHead(e) \/ InsertRow(e)
    /\ UNCHANGED <<tables, trail, files, pc, asked, head, answer>>

\* Mutant: only StaleStateError is expected, a duplicate key is swallowed.
CommitRefusedIfStale(e) ==
    /\ At(e, "commit")
    /\ RefuseStale(e)
    /\ Reply(e, "stale_state", 0)
    /\ UNCHANGED <<tables, trail, files, asked>>

\* A lost race leaves no audit entry: the exception passes execute by.
CommitRefused(e) ==
    /\ At(e, "commit")
    /\ \/ RefuseStale(e) /\ Reply(e, "stale_state", 0)
       \/ RefuseDuplicate(e) /\ Reply(e, "integrity_error", 0)
    /\ UNCHANGED <<tables, trail, files, asked>>

\* Gate 7 inside the transaction: the six checks, then COMMIT or rollback.
VerifyResult(e) ==
    /\ At(e, "commit")
    /\ \/ /\ request[e] \notin Unverifiable
          /\ CommitRow(e)
          /\ Goto(e, "record_artifact")
       \/ /\ request[e] \in Unverifiable
          /\ RollBack(e)
          /\ Goto(e, "park")
    /\ UNCHANGED <<tables, trail, files, asked, head, answer>>

\* Mutant: the status the module's docstring names, which the schema forbids.
ParkSessionForReview(e) ==
    /\ At(e, "park")
    /\ status' = [status EXCEPT ![Session(e)] = "HUMAN_REVIEW"]
    /\ Goto(e, "human_review")
    /\ UNCHANGED <<storeVars, base, candidates, approvals, decisions, trail, files, asked, head, answer>>

\* After a failed verification the session row is set back to OPEN ...
ParkSession(e) ==
    /\ At(e, "park")
    /\ status' = [status EXCEPT ![Session(e)] = "OPEN"]
    /\ Goto(e, "human_review")
    /\ UNCHANGED <<storeVars, base, candidates, approvals, decisions, trail, files, asked, head, answer>>

\* ... the entry asking for a human is appended, and the exception goes on.
HumanReview(e) ==
    /\ At(e, "human_review")
    /\ Log(e, "human_review")
    /\ Reply(e, "verification_failed", 0)
    /\ UNCHANGED <<storeVars, tables, files, asked>>

RecordArtifact(e) ==
    /\ At(e, "record_artifact")
    /\ artifacts' = artifacts \cup {NextVersion(head[e])}
    /\ Goto(e, "complete")
    /\ UNCHANGED <<storeVars, tables, trail, sheets, asked, head, answer>>

\* transition.completed is what a later identical call will be answered from.
Complete(e) ==
    /\ At(e, "complete")
    /\ completed' = [completed EXCEPT ![request[e]] = @ \cup {NextVersion(head[e])}]
    /\ buried' = buried \ {request[e]}
    /\ Reply(e, "committed", NextVersion(head[e]))
    /\ UNCHANGED <<storeVars, tables, audit, files, asked>>

\* The process dies with the request in it, or its connection drops: the
\* transaction is rolled back, everything committed before stays.
Crash(e) ==
    /\ ~At(e, "idle")
    /\ Reply(e, "none", 0)
    /\ IF phase[e] = "none" THEN UNCHANGED storeVars ELSE Disconnect(e)
    /\ UNCHANGED <<tables, trail, files, asked>>

-----------------------------------------------------------------------------

Step(e) ==
    \/ FindCompleted(e)
    \/ LoadPlan(e)
    \/ ValidateState(e)
    \/ ValidateConstraints(e)
    \/ ValidatePolicy(e)
    \/ VerifyAuthorization(e)
    \/ RequestApproval(e)
    \/ RegenerateArtifacts(e)
    \/ StartCommit(e)
    \/ RunStatement(e)
    \/ CommitRefused(e)
    \/ VerifyResult(e)
    \/ ParkSession(e)
    \/ HumanReview(e)
    \/ RecordArtifact(e)
    \/ Complete(e)

Request(e) == \E s \in Sessions, p \in Plans, a \in Actors : Execute(e, s, p, a)

Recover(s) == OpenSession(s) \/ StoreCandidates(s)

Approve(s) ==
    \E p \in Plans, a \in Actors, d \in {"APPROVED", "REJECTED"} : Decide(s, p, a, d)

Next ==
    \/ \E e \in Clients : Request(e) \/ Step(e) \/ Crash(e)
    \/ \E s \in Sessions : Recover(s) \/ Approve(s)
    \/ \E r \in Subjects : Bury(r)

Spec == Init /\ [][Next]_vars

\* A live server goes on with each request it has begun, and PostgreSQL queues
\* the waiters of a row lock.  Nothing obliges a client to call or a producer
\* to decide.
FairSpec ==
    /\ Spec
    /\ \A e \in Clients : WF_vars(Step(e)) /\ SF_vars(RunStatement(e))

-----------------------------------------------------------------------------
(* Properties                                                              *)

PCs == {"idle", "find_completed", "load_plan", "validate_state",
        "validate_constraints", "validate_policy", "verify_authorization",
        "request_approval", "regenerate", "executing", "commit",
        "record_artifact", "complete", "park", "human_review"}

Kinds == {"none", "replayed", "committed", "approval_missing", "stale_state",
          "constraints_failed", "not_authorized", "integrity_error",
          "verification_failed"}

Actions == {STEPS[i] : i \in 1..Len(STEPS)} \cup {"executing", "rejected", "human_review"}

DecisionRow == [approver : Actors, decision : {"APPROVED", "REJECTED"}]

\* Type invariant of the tables and of the workers.
TypeOK ==
    /\ StoreTypeOK
    /\ status     \in [Sessions -> {"NONE", "OPEN", "APPROVED", "REJECTED"}]
    /\ base       \in [Sessions -> Nat]
    /\ candidates \in [Sessions -> SUBSET Plans]
    /\ approvals  \in [Subjects -> Seq(DecisionRow)]
    /\ audit      \in [Subjects -> SUBSET (Actions \X Actors)]
    /\ completed  \in [Subjects -> SUBSET Nat]
    /\ buried     \subseteq Subjects
    /\ DOMAIN sheets \subseteq Nat
    /\ \A v \in DOMAIN sheets : sheets[v] \in Subjects
    /\ artifacts  \subseteq Nat
    /\ pc         \in [Clients -> PCs]
    /\ request    \in [Clients -> Subjects \cup {Blank}]
    /\ \A e \in Clients : ~At(e, "idle") => request[e] \in Subjects /\ approver[e] \in Actors
    /\ approver   \in [Clients -> Actors \cup {Blank}]
    /\ head       \in [Clients -> Nat]
    /\ answer     \in [Clients -> [kind : Kinds, version : Nat]]
    /\ calls      \in Nat
    /\ decisions  \in Nat

\* The plan a version executes, when it is not the production's first state.
Executed(v) == state_versions[v].content

\* A committed plan extends exactly the version it was computed for, however
\* the head moved between planning, approval and commit.
PlanOnItsBase ==
    \A v \in DOMAIN state_versions :
        Executed(v) \in Subjects => base[Executed(v)[1]] = v - 1

\* One plan makes at most one version, and one session at most one version:
\* retries, replays past the audit window and racing requests included.
ExecutedOnce ==
    \A v, w \in DOMAIN state_versions :
        Executed(v) \in Subjects /\ Executed(w) \in Subjects
            /\ Executed(v)[1] = Executed(w)[1] => v = w

\* The approver of a version passed every gate, and the log says so, before the
\* version existed.
AuthorisedBy(r, a) ==
    /\ \A i \in 1..Len(STEPS) : <<STEPS[i], a>> \in audit[r]
    /\ <<"executing", a>> \in audit[r]
    /\ ApprovalRequired =>
        /\ a \in Permitted
        /\ \E i \in 1..Len(approvals[r]) :
              approvals[r][i] = [approver |-> a, decision |-> "APPROVED"]

\* No version without the seven gates: each one executes a stored, lawful plan
\* that verified, approved and executed by one and the same permitted approver.
OnlyGovernedVersions ==
    \A v \in DOMAIN state_versions :
        Executed(v) \in Subjects =>
            /\ Executed(v)[2] \in candidates[Executed(v)[1]]
            /\ Executed(v) \notin Illegal \cup Unverifiable
            /\ \E a \in Actors : AuthorisedBy(Executed(v), a)

\* The places execute can be at once it has loaded the plan, and past gate i.
PastLoad    == PCs \ {"idle", "find_completed", "load_plan"}
PastGate(i) == PastLoad \ {STEPS[j] : j \in 1..i}
Written     == {"record_artifact", "complete"}

\* Wherever a request stands, what the gates behind it established still holds:
\* the plan it loaded, the base it checked, the entries it logged, the approval
\* it read, the sheets it drew, and the row it is writing or has written.
Behind(e) ==
    LET r == request[e]
        a == approver[e]
        v == NextVersion(head[e])
    IN  /\ pc[e] # "idle" => status[Session(e)] # "NONE"
        /\ pc[e] \in PastLoad => Plan(e) \in candidates[Session(e)]
        /\ \A i \in 1..Len(STEPS) : pc[e] \in PastGate(i) => <<STEPS[i], a>> \in audit[r]
        /\ pc[e] \in PastGate(1) => head[e] = base[Session(e)]
        /\ pc[e] \in PastGate(2) => r \notin Illegal
        /\ pc[e] \in PastGate(4) => (ApprovalRequired => a \in Permitted)
        /\ pc[e] \in PastGate(5) =>
              (ApprovalRequired => \E i \in 1..Len(approvals[r]) :
                  approvals[r][i] = [approver |-> a, decision |-> "APPROVED"])
        /\ pc[e] \in PastGate(5) \ {"regenerate"} => v \in DOMAIN sheets
        /\ pc[e] \in PastGate(5) \ {"regenerate", "executing"} =>
              <<"executing", a>> \in audit[r]
        /\ phase[e] # "none" =>
              pc[e] = "commit" /\ parent[e] = head[e] /\ content[e] = r
        /\ pc[e] \in Written => v \in DOMAIN state_versions /\ Executed(v) = r
        /\ pc[e] = "complete" => v \in artifacts
        /\ pc[e] \in {"park", "human_review"} => r \in Unverifiable

GatesBehindHold == \A e \in Clients : Behind(e)

\* The log and the artifact table run behind the chain and never ahead of it: a
\* completed entry names a committed version of that plan with its call sheets
\* drawn and registered.
RecordsFollowCommits ==
    /\ artifacts \subseteq DOMAIN state_versions \cap DOMAIN sheets
    /\ \A r \in Subjects : \A v \in completed[r] :
          v \in artifacts /\ Executed(v) = r

\* What a caller is told is so: a version reported as written or replayed holds
\* its plan, and a plan refused by rules or by verification is in no version.
AnswersTruthful ==
    \A e \in Clients :
        /\ answer[e].kind \in {"committed", "replayed"} =>
              /\ answer[e].version \in DOMAIN state_versions
              /\ Executed(answer[e].version) = request[e]
        /\ answer[e].kind \in {"constraints_failed", "verification_failed"} =>
              \A v \in DOMAIN state_versions : Executed(v) # request[e]

\* A version is written by a request that holds the head it was checked
\* against, and by nothing else; no other step touches the chain.
OnlyCommitsExtend ==
    [][state_versions' # state_versions =>
          \E e \in Clients :
              /\ pc[e] = "commit" /\ pc'[e] = "record_artifact"
              /\ head[e] = HeadVersion
              /\ \A d \in Clients \ {e} : pc'[d] = pc[d]]_vars

\* Every execute request whose worker survives gets its answer, however many
\* others wait for the same head row.
ExecuteAnswered == \A e \in Clients : ~At(e, "idle") ~> At(e, "idle")

-----------------------------------------------------------------------------
(* The promise this path keeps                                             *)

Promise ==
    INSTANCE Governance WITH
        Unfit    <- Illegal \cup Unverifiable,
        chain    <- [v \in DOMAIN state_versions |-> Executed(v)],
        opened   <- {s \in Sessions : status[s] # "NONE"},
        approved <- {r \in Subjects : \E i \in 1..Len(approvals[r]) :
                                         approvals[r][i].decision = "APPROVED"}

\* The concurrent, crashing path implements the one-step promise.
KeepsPromise == Promise!GovSpec

-----------------------------------------------------------------------------
(* What the documentation says and the code does not do                    *)

\* "a retry after a dropped connection": a call for a plan that was committed
\* is answered from the record, not refused as stale.
RetryIsReplayed ==
    \A e \in Clients :
        answer[e].kind = "stale_state" =>
            \A v \in DOMAIN state_versions : Executed(v) # request[e]

\* The registered call sheets of a version were drawn from that version.
CallSheetsShowVersion ==
    \A v \in artifacts : sheets[v] = Executed(v)
=============================================================================
