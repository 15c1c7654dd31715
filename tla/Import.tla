------------------------------- MODULE Import -------------------------------
(***************************************************************************)
(* Uploaded productions: ImportService over the version chain.             *)
(*                                                                         *)
(* A workbook is parsed and staged for review; a person commits it as      *)
(* version 1 of a new production, or rejects it, or it expires and is      *)
(* purged.  Every file here names the same production, so commits race for *)
(* one version 1.  A client of the store is an API worker; each of its     *)
(* reads and writes of import_staging is a transaction of its own, and     *)
(* none but the first looks at the status the row has by then.             *)
(***************************************************************************)
EXTENDS StateStore, FiniteSets

CONSTANTS
    Broken,    \* files that do not parse into a state, or parse with errors
    MaxCalls   \* bound of the runs: requests

ASSUME FilesAssumption == Broken \subseteq Contents /\ Blank \notin Contents

VARIABLES
    staging,   \* import_staging: row -> [file, status, version, expires]
    lastRow,   \* ids given out so far
    audit,     \* import.committed entries: <<row, version>>
    pc,        \* per worker: the next step of its request
    row,       \* per worker: the staging_id of its request (0 = none)
    file,      \* per worker: the workbook uploaded, or the state fetched
    clean,     \* per worker: no E013 and no parse error so far
    answer,    \* per worker: [kind, version] of its last response
    calls      \* requests so far

table  == <<staging, lastRow, audit>>
locals == <<row, file, clean>>
vars   == <<storeVars, table, pc, locals, answer, calls>>

NoAnswer == [kind |-> "none", version |-> 0]

At(w, step) == pc[w] = step
Goto(w, step) == pc' = [pc EXCEPT ![w] = step]

\* The response, or the error its handler turns into one.
Reply(w, kind, version) ==
    /\ Goto(w, "idle")
    /\ answer' = [answer EXCEPT ![w] = [kind |-> kind, version |-> version]]

\* A status a row has at the moment a statement reads it.
Is(r, status) == r \in DOMAIN staging /\ staging[r].status = status

PendingOf(f) == {r \in DOMAIN staging : Is(r, "PENDING_REVIEW") /\ staging[r].file = f}

\* One request more: what the worker knew before is gone.
Begin(w, step, r, f) ==
    /\ At(w, "idle")
    /\ calls < MaxCalls
    /\ calls' = calls + 1
    /\ Goto(w, step)
    /\ row'    = [row EXCEPT ![w] = r]
    /\ file'   = [file EXCEPT ![w] = f]
    /\ clean'  = [clean EXCEPT ![w] = f \notin Broken]
    /\ answer' = [answer EXCEPT ![w] = NoAnswer]
    /\ UNCHANGED <<storeVars, table>>

Init ==
    /\ StoreInit
    /\ staging = <<>>
    /\ lastRow = 0
    /\ audit = {}
    /\ pc     = [w \in Clients |-> "idle"]
    /\ row    = [w \in Clients |-> 0]
    /\ file   = [w \in Clients |-> Blank]
    /\ clean  = [w \in Clients |-> FALSE]
    /\ answer = [w \in Clients |-> NoAnswer]
    /\ calls = 0

-----------------------------------------------------------------------------
(* stage_import                                                            *)

Upload(w, f) == Begin(w, "find_pending", 0, f)

\* A file under review is answered with that review; any other is parsed, and
\* only a state that came out of it can collide with a production.
FindPending(w) ==
    /\ At(w, "find_pending")
    /\ \/ PendingOf(file[w]) # {} /\ Reply(w, "duplicate", 0)
       \/ /\ PendingOf(file[w]) = {}
          /\ Goto(w, IF clean[w] THEN "production_exists" ELSE "insert")
          /\ UNCHANGED answer
    /\ UNCHANGED <<storeVars, table, locals, calls>>

\* E013, when the catalogue has the production already.
ProductionExists(w) ==
    /\ At(w, "production_exists")
    /\ clean' = [clean EXCEPT ![w] = DOMAIN state_versions = {}]
    /\ Goto(w, "insert")
    /\ UNCHANGED <<storeVars, table, row, file, answer, calls>>

StagedRow(f, status, expires) ==
    [file |-> f, status |-> status, version |-> 0, expires |-> expires]

AddRow(w, status, expires) ==
    /\ lastRow' = lastRow + 1
    /\ staging' = Put(staging, lastRow + 1, StagedRow(file[w], status, expires))
    /\ Reply(w, "staged", 0)
    /\ UNCHANGED audit

\* Mutants: errors do not count; the partial unique index is not there.
InsertStagedAnyway(w) ==
    /\ At(w, "insert")
    /\ PendingOf(file[w]) = {}
    /\ AddRow(w, "PENDING_REVIEW", "later")
    /\ UNCHANGED <<storeVars, locals, calls>>

InsertStagedTwice(w) ==
    /\ At(w, "insert")
    /\ IF clean[w] THEN AddRow(w, "PENDING_REVIEW", "later") ELSE AddRow(w, "FAILED", "never")
    /\ UNCHANGED <<storeVars, locals, calls>>

\* The row is inserted, for review or as a record of the failure; a second
\* pending row of one file meets the unique index.
InsertStaged(w) ==
    /\ At(w, "insert")
    /\ \/ clean[w] /\ PendingOf(file[w]) = {} /\ AddRow(w, "PENDING_REVIEW", "later")
       \/ clean[w] /\ PendingOf(file[w]) # {} /\ Reply(w, "integrity_error", 0) /\ UNCHANGED table
       \/ ~clean[w] /\ AddRow(w, "FAILED", "never")
    /\ UNCHANGED <<storeVars, locals, calls>>

-----------------------------------------------------------------------------
(* commit_import                                                           *)

CommitImport(w, r) == Begin(w, "fetch", r, Blank)

\* What the fetched row allows, decided once for the whole request.
Fetch(w) ==
    /\ At(w, "fetch")
    /\ \/ row[w] \notin DOMAIN staging /\ Reply(w, "not_found", 0) /\ UNCHANGED file
       \/ /\ Is(row[w], "COMMITTED")
          /\ Reply(w, "committed", staging[row[w]].version)
          /\ file' = [file EXCEPT ![w] = staging[row[w]].file]
       \/ /\ Is(row[w], "FAILED") \/ Is(row[w], "REJECTED")
          /\ Reply(w, "refused", 0)
          /\ UNCHANGED file
       \/ /\ Is(row[w], "PENDING_REVIEW")
          /\ file' = [file EXCEPT ![w] = staging[row[w]].file]
          /\ Goto(w, "commit_state")
          /\ UNCHANGED answer
    /\ UNCHANGED <<storeVars, table, row, clean, calls>>

\* commit_state of a root, in the store's own steps.
StartCommit(w) ==
    /\ At(w, "commit_state")
    /\ BeginCommit(w, 0, file[w])
    /\ Goto(w, "storing")
    /\ UNCHANGED <<table, locals, answer, calls>>

RunStatement(w) ==
    /\ At(w, "storing")
    /\ LockHead(w) \/ InsertRow(w)
    /\ UNCHANGED <<table, pc, locals, answer, calls>>

\* Mutant: a refused commit is taken for an earlier success.
StoreRefusedIsSuccess(w) ==
    /\ At(w, "storing")
    /\ RefuseStale(w)
    /\ Goto(w, "audit")
    /\ UNCHANGED <<table, locals, answer, calls>>

\* The production exists by now, whoever made it: 409.  Root commits wait for
\* one another at the catalogue row, so none of them meets the primary key.
StoreRefused(w) ==
    /\ At(w, "storing")
    /\ RefuseStale(w)
    /\ Reply(w, "stale", 0)
    /\ UNCHANGED <<table, locals, calls>>

\* The transaction commits: version 1 is there.
Stored(w) ==
    /\ At(w, "storing")
    /\ CommitRow(w)
    /\ Goto(w, "audit")
    /\ UNCHANGED <<table, locals, answer, calls>>

\* append_audit with the sha of the row, if the row is still there.
AuditCommit(w) ==
    /\ At(w, "audit")
    /\ audit' = audit \cup {<<row[w], 1>>}
    /\ Goto(w, "mark")
    /\ UNCHANGED <<storeVars, staging, lastRow, locals, answer, calls>>

\* _mark_committed: UPDATE by id, whatever the row says by now.
MarkCommitted(w) ==
    /\ At(w, "mark")
    /\ staging' = IF row[w] \in DOMAIN staging
                  THEN [staging EXCEPT ![row[w]].status = "COMMITTED",
                                       ![row[w]].version = 1,
                                       ![row[w]].expires = "never"]
                  ELSE staging
    /\ Reply(w, "committed", 1)
    /\ UNCHANGED <<storeVars, lastRow, audit, locals, calls>>

-----------------------------------------------------------------------------
(* reject_import, purge_expired                                            *)

RejectImport(w, r) == Begin(w, "fetch_reject", r, Blank)

FetchReject(w) ==
    /\ At(w, "fetch_reject")
    /\ \/ row[w] \notin DOMAIN staging /\ Reply(w, "not_found", 0)
       \/ row[w] \in DOMAIN staging /\ Goto(w, "reject") /\ UNCHANGED answer
    /\ UNCHANGED <<storeVars, table, locals, calls>>

\* UPDATE by id: a row that is committed meanwhile is rejected all the same.
Reject(w) ==
    /\ At(w, "reject")
    /\ staging' = IF row[w] \in DOMAIN staging
                  THEN [staging EXCEPT ![row[w]].status = "REJECTED"]
                  ELSE staging
    /\ Reply(w, "rejected", 0)
    /\ UNCHANGED <<storeVars, lastRow, audit, locals, calls>>

\* Twenty-four hours pass for a row that has an expiry.
Expire(r) ==
    /\ r \in DOMAIN staging
    /\ staging[r].expires = "later"
    /\ staging' = [staging EXCEPT ![r].expires = "past"]
    /\ UNCHANGED <<storeVars, lastRow, audit, pc, locals, answer, calls>>

Without(rows) == [r \in DOMAIN staging \ rows |-> staging[r]]

\* Mutant: the sweep looks at the expiry alone, which a rejected row keeps.
PurgeAnyStatus ==
    LET old == {r \in DOMAIN staging : staging[r].expires = "past"}
    IN  /\ old # {}
        /\ staging' = Without(old)
        /\ UNCHANGED <<storeVars, lastRow, audit, pc, locals, answer, calls>>

\* purge_expired: one DELETE.
Purge ==
    LET old == {r \in DOMAIN staging : Is(r, "PENDING_REVIEW") /\ staging[r].expires = "past"}
    IN  /\ old # {}
        /\ staging' = Without(old)
        /\ UNCHANGED <<storeVars, lastRow, audit, pc, locals, answer, calls>>

-----------------------------------------------------------------------------

\* The worker dies with its request; its open transaction is rolled back.
Crash(w) ==
    /\ ~At(w, "idle")
    /\ Reply(w, "none", 0)
    /\ IF phase[w] = "none" THEN UNCHANGED storeVars ELSE Disconnect(w)
    /\ UNCHANGED <<table, locals, calls>>

Step(w) ==
    \/ FindPending(w)
    \/ ProductionExists(w)
    \/ InsertStaged(w)
    \/ Fetch(w)
    \/ StartCommit(w)
    \/ RunStatement(w)
    \/ StoreRefused(w)
    \/ Stored(w)
    \/ AuditCommit(w)
    \/ MarkCommitted(w)
    \/ FetchReject(w)
    \/ Reject(w)

Request(w) ==
    \/ \E f \in Contents : Upload(w, f)
    \/ \E r \in 1..lastRow : CommitImport(w, r) \/ RejectImport(w, r)

Next ==
    \/ \E w \in Clients : Request(w) \/ Step(w) \/ Crash(w)
    \/ \E r \in 1..lastRow : Expire(r)
    \/ Purge

Spec == Init /\ [][Next]_vars

\* As in the execution path: a live worker goes on, and whoever waits for the
\* catalogue row of a first commit is woken when that transaction ends.
FairSpec ==
    /\ Spec
    /\ \A w \in Clients :
        /\ WF_vars(Step(w)) /\ SF_vars(StartCommit(w)) /\ SF_vars(RunStatement(w))

-----------------------------------------------------------------------------
(* Properties                                                              *)

Statuses == {"PENDING_REVIEW", "COMMITTED", "REJECTED", "FAILED"}

PCs == {"idle", "find_pending", "production_exists", "insert", "fetch", "commit_state",
        "storing", "audit", "mark", "fetch_reject", "reject"}

Kinds == {"none", "duplicate", "staged", "integrity_error", "not_found", "committed",
          "refused", "stale", "rejected"}

StagedRows == [file : Contents, status : Statuses, version : {0, 1},
               expires : {"never", "later", "past"}]

\* Type invariant of the staging table and of the workers.
TypeOK ==
    /\ StoreTypeOK
    /\ lastRow \in Nat
    /\ DOMAIN staging \subseteq 1..lastRow
    /\ \A r \in DOMAIN staging : staging[r] \in StagedRows
    /\ audit \subseteq (1..lastRow) \X {1}
    /\ pc \in [Clients -> PCs]
    /\ row \in [Clients -> 0..lastRow]
    /\ file \in [Clients -> Contents \cup {Blank}]
    /\ clean \in [Clients -> BOOLEAN]
    /\ answer \in [Clients -> [kind : Kinds, version : {0, 1}]]
    /\ calls \in Nat

\* A workbook with errors never becomes a production, and a production has one
\* root: whatever is uploaded, rejected, purged and committed again meanwhile.
OnlyCleanRoots ==
    /\ DOMAIN state_versions \subseteq {1}
    /\ \A v \in DOMAIN state_versions : state_versions[v].content \notin Broken

\* One file, one review: two uploads of it at once do not leave two rows open.
OnePendingPerFile == \A f \in Contents : Cardinality(PendingOf(f)) <= 1

\* The file a version was made of.
RootIs(f) == 1 \in DOMAIN state_versions /\ state_versions[1].content = f

\* What the records say happened did happen: a row that names a version, and
\* every import.committed entry whose row still exists, is the file in that
\* version - never the file that lost the race for it.
RecordsTellTruth ==
    /\ \A r \in DOMAIN staging : staging[r].version = 1 => RootIs(staging[r].file)
    /\ \A r \in DOMAIN staging : <<r, 1>> \in audit => RootIs(staging[r].file)

\* Whoever is told that an import is committed can open it: the version is
\* there and holds the workbook that was staged under that id.
CommitAnswersTruthful ==
    \A w \in Clients : answer[w].kind = "committed" => answer[w].version = 1 /\ RootIs(file[w])

\* The record of a decision is kept: once a row is committed, rejected or failed
\* no sweep removes it, and a version it names is never forgotten.
DecisionsKept ==
    [][\A r \in DOMAIN staging :
          /\ ~Is(r, "PENDING_REVIEW") => r \in DOMAIN staging' /\ staging'[r].status # "PENDING_REVIEW"
          /\ staging[r].version = 1 => r \in DOMAIN staging' /\ staging'[r].version = 1]_vars

\* Every request whose worker survives is answered, however many race for the
\* first version.
RequestAnswered == \A w \in Clients : ~At(w, "idle") ~> At(w, "idle")
=============================================================================
