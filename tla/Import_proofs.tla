--------------------------- MODULE Import_proofs ----------------------------
(***************************************************************************)
(* Proofs about imports, for any number of workers, workbooks and calls.   *)
(***************************************************************************)
EXTENDS Import, StateStore_proofs, FiniteSetTheorems

\* Places of commit_import after the row was fetched.
Committing == {"commit_state", "storing", "audit", "mark"}

\* What a worker relies on, given where its request stands: an open transaction
\* writes the fetched state as a root; a row under commit has a clean file; a
\* success is only claimed of the root that is there.
Behind(w) ==
    /\ phase[w] # "none" <=> At(w, "storing")
    /\ At(w, "storing") => parent[w] = 0 /\ content[w] = file[w]
    /\ ~At(w, "idle") => answer[w] = NoAnswer
    /\ pc[w] \in {"find_pending", "production_exists", "insert"} => file[w] \in Contents
    /\ pc[w] \in {"find_pending", "insert"} /\ clean[w] => file[w] \notin Broken
    /\ At(w, "production_exists") => file[w] \notin Broken
    /\ pc[w] \in Committing =>
          /\ row[w] \in 1..lastRow
          /\ file[w] \in Contents \ Broken
          /\ row[w] \in DOMAIN staging => staging[row[w]].file = file[w]
    /\ pc[w] \in {"audit", "mark"} => RootIs(file[w])
    /\ answer[w].kind = "committed" => answer[w].version = 1 /\ RootIs(file[w])

\* What a row of the table says, alone and beside its neighbours.
RowsTrue ==
    /\ \A r \in DOMAIN staging :
          /\ Is(r, "PENDING_REVIEW") => staging[r].file \notin Broken /\ staging[r].version = 0
          /\ Is(r, "COMMITTED") => staging[r].version = 1
    /\ \A r, q \in DOMAIN staging :
          /\ Is(r, "PENDING_REVIEW") /\ Is(q, "PENDING_REVIEW")
          /\ staging[r].file = staging[q].file
          => r = q

\* The inductive invariant.
ImportInv ==
    /\ StoreInv
    /\ TypeOK
    /\ OnlyCleanRoots
    /\ \A w \in Clients : Behind(w)
    /\ RowsTrue
    /\ RecordsTellTruth

LEMMA InvInit == Init => ImportInv
<1> SUFFICES ASSUME Init PROVE ImportInv
    OBVIOUS
<1>1. StoreInv
    BY StoreInvInit DEF Init
<1>2. DOMAIN staging = {} /\ DOMAIN state_versions = {} /\ lastRow = 0
    BY DEF Init, StoreInit
<1>3. TypeOK
    BY <1>1, <1>2 DEF Init, TypeOK, StoreInv, PCs, Kinds, NoAnswer
<1>4. \A w \in Clients : Behind(w)
    BY <1>2 DEF Init, StoreInit, Behind, At, NoAnswer, Committing
<1>5. OnlyCleanRoots /\ RowsTrue /\ RecordsTellTruth
    BY <1>2 DEF OnlyCleanRoots, RowsTrue, RecordsTellTruth
<1> QED
    BY <1>1, <1>3, <1>4, <1>5 DEF ImportInv

-----------------------------------------------------------------------------
(* The chain                                                               *)

\* Every step of an import is a step of the store, or none.
LEMMA ImportFits ==
    ASSUME ImportInv, [Next]_vars
    PROVE  StoreAction \/ StoreUntouched
<1>1. CASE UNCHANGED vars
    BY <1>1 DEF vars, StoreUntouched
<1>2. ASSUME NEW w \in Clients, Request(w) PROVE StoreUntouched
    BY <1>2 DEF Request, Upload, CommitImport, RejectImport, Begin, StoreUntouched
<1>3. ASSUME NEW w \in Clients, StartCommit(w) PROVE StoreAction
    <2>1. file[w] \in Contents
        BY <1>3 DEF ImportInv, Behind, StartCommit, At, Committing
    <2> QED
        BY <1>3, <2>1 DEF StartCommit, StoreAction
<1>4. ASSUME NEW w \in Clients, RunStatement(w) \/ StoreRefused(w) \/ Stored(w)
      PROVE  StoreAction
    BY <1>4 DEF RunStatement, StoreRefused, Stored, StoreAction, StoreStep
<1>5. ASSUME NEW w \in Clients, Step(w),
             ~(StartCommit(w) \/ RunStatement(w) \/ StoreRefused(w) \/ Stored(w))
      PROVE  StoreUntouched
    BY <1>5 DEF Step, FindPending, ProductionExists, InsertStaged, Fetch, AuditCommit,
        MarkCommitted, FetchReject, Reject, StoreUntouched
<1>6. ASSUME NEW w \in Clients, Crash(w) PROVE StoreAction \/ StoreUntouched
    BY <1>6 DEF Crash, StoreAction, StoreUntouched
<1>7. ASSUME NEW r \in 1..lastRow, Expire(r) PROVE StoreUntouched
    BY <1>7 DEF Expire, StoreUntouched
<1>8. CASE Purge
    BY <1>8 DEF Purge, StoreUntouched
<1> QED
    BY <1>1, <1>2, <1>3, <1>4, <1>5, <1>6, <1>7, <1>8 DEF Next

\* A version is only ever committed by a worker at that place of its import.
LEMMA CommitIsStored ==
    ASSUME ImportInv, [Next]_vars, NEW w \in Clients, CommitRow(w)
    PROVE  parent[w] = 0 /\ content[w] \in Contents \ Broken
<1>1. At(w, "storing")
    BY DEF ImportInv, Behind, CommitRow
<1> QED
    BY <1>1 DEF ImportInv, Behind, At, Committing

\* The chain stays whole, a root stays what it is, and it is a clean workbook.
LEMMA ChainStep ==
    ASSUME ImportInv, [Next]_vars
    PROVE  /\ StoreInv'
           /\ OnlyCleanRoots'
           /\ \A f : RootIs(f) => RootIs(f)'
<1>1. StoreInv'
    BY ImportFits, StoreStepSafe DEF ImportInv
<1>2. CASE state_versions' = state_versions
    BY <1>1, <1>2 DEF ImportInv, OnlyCleanRoots, RootIs
<1>3. ASSUME NEW w \in Clients, CommitRow(w)
      PROVE  OnlyCleanRoots' /\ \A f : RootIs(f) => RootIs(f)'
    <2>1. /\ parent[w] = HeadVersion
          /\ DOMAIN state_versions' = 1..(HeadVersion + 1)
          /\ \A v \in DOMAIN state_versions : state_versions'[v] = state_versions[v]
          /\ state_versions'[HeadVersion + 1] =
                 [parent |-> HeadVersion, content |-> content[w]]
        BY <1>3, CommitExtends DEF ImportInv
    <2>2. HeadVersion = 0 /\ content[w] \notin Broken
        BY <1>3, <2>1, CommitIsStored
    <2>3. DOMAIN state_versions' = {1} /\ state_versions'[1].content = content[w]
        BY <2>1, <2>2
    <2>4. DOMAIN state_versions = {}
        BY <2>2 DEF ImportInv, StoreInv, ChainUnbroken
    <2> QED
        BY <2>2, <2>3, <2>4 DEF OnlyCleanRoots, RootIs
<1> QED
    BY <1>1, <1>2, <1>3, ImportFits, StepExtendsOrKeeps DEF ImportInv

-----------------------------------------------------------------------------
(* The staging table                                                       *)

\* What any step may do to the table: new rows get new ids, a row keeps its
\* file, decisions stay, and what the records say is true afterwards.
TableMoved ==
    /\ lastRow' \in Nat /\ lastRow' >= lastRow
    /\ DOMAIN staging' \subseteq 1..lastRow'
    /\ DOMAIN staging' \subseteq DOMAIN staging \cup {lastRow + 1}
    /\ \A r \in DOMAIN staging' : staging'[r] \in StagedRows
    /\ \A r \in DOMAIN staging' :
          r \in DOMAIN staging => staging'[r].file = staging[r].file
    /\ audit' \subseteq (1..lastRow') \X {1}
    /\ RowsTrue'
    /\ RecordsTellTruth'
    /\ \A r \in DOMAIN staging :
          /\ ~Is(r, "PENDING_REVIEW") =>
                r \in DOMAIN staging' /\ staging'[r].status # "PENDING_REVIEW"
          /\ staging[r].version = 1 => r \in DOMAIN staging' /\ staging'[r].version = 1

RootsStay == \A f : RootIs(f) => RootIs(f)'

LEMMA TableUntouched ==
    ASSUME ImportInv, RootsStay, UNCHANGED table
    PROVE  TableMoved
<1>1. staging' = staging /\ lastRow' = lastRow /\ audit' = audit
    BY DEF table
<1>2. RowsTrue'
    BY <1>1 DEF ImportInv, RowsTrue, Is
<1>3. RecordsTellTruth'
    BY <1>1 DEF ImportInv, RecordsTellTruth, RootsStay
<1> QED
    BY <1>1, <1>2, <1>3 DEF ImportInv, TypeOK, TableMoved, Is

\* An UPDATE by id: whatever it writes, it reopens nothing and takes no version
\* back, and it names a version only if the root is that file.
LEMMA RowUpdated ==
    ASSUME ImportInv, RootsStay, NEW r \in DOMAIN staging, NEW new \in StagedRows,
           staging' = [staging EXCEPT ![r] = new], lastRow' = lastRow, audit' = audit,
           new.file = staging[r].file,
           new.status = "PENDING_REVIEW" => Is(r, "PENDING_REVIEW") /\ new.version = 0,
           new.status = "COMMITTED" => new.version = 1,
           staging[r].version = 1 => new.version = 1,
           new.version = 1 => staging[r].version = 1 \/ RootIs(new.file)
    PROVE  TableMoved
<1>1. /\ DOMAIN staging' = DOMAIN staging
      /\ staging'[r] = new
      /\ \A q \in DOMAIN staging : q # r => staging'[q] = staging[q]
    OBVIOUS
<1>2. \A q \in DOMAIN staging :
          /\ staging'[q].file = staging[q].file
          /\ Is(q, "PENDING_REVIEW")' => Is(q, "PENDING_REVIEW")
          /\ staging[q].version = 1 => staging'[q].version = 1
    BY <1>1 DEF Is
<1>3. RowsTrue'
    BY <1>1, <1>2 DEF ImportInv, RowsTrue, Is
<1>4. RecordsTellTruth'
    BY <1>1, <1>2 DEF ImportInv, RecordsTellTruth, RootsStay
<1> QED
    BY <1>1, <1>2, <1>3, <1>4 DEF ImportInv, TypeOK, TableMoved, Is

\* An INSERT: the id is new, and a pending row is the only one of its file.
LEMMA RowAdded ==
    ASSUME ImportInv, RootsStay, NEW f \in Contents,
           NEW status \in {"PENDING_REVIEW", "FAILED"}, NEW expires \in {"later", "never"},
           staging' = Put(staging, lastRow + 1, StagedRow(f, status, expires)),
           lastRow' = lastRow + 1, audit' = audit,
           status = "PENDING_REVIEW" => f \notin Broken /\ PendingOf(f) = {}
    PROVE  TableMoved
<1> DEFINE n == lastRow + 1
           new == StagedRow(f, status, expires)
<1>1. n \notin DOMAIN staging /\ DOMAIN staging \subseteq 1..lastRow /\ lastRow \in Nat
    BY DEF ImportInv, TypeOK
<1>2. /\ DOMAIN staging' = DOMAIN staging \cup {n}
      /\ staging'[n] = new
      /\ \A q \in DOMAIN staging : staging'[q] = staging[q]
    BY <1>1 DEF Put
<1>3. /\ new \in StagedRows /\ new.file = f /\ new.status = status /\ new.version = 0
    BY DEF StagedRow, StagedRows, Statuses
<1>4. RowsTrue'
    <2>1. \A r \in DOMAIN staging' :
              /\ Is(r, "PENDING_REVIEW")' =>
                    staging'[r].file \notin Broken /\ staging'[r].version = 0
              /\ Is(r, "COMMITTED")' => staging'[r].version = 1
        BY <1>2, <1>3 DEF ImportInv, RowsTrue, Is
    <2>2. \A q \in DOMAIN staging :
              Is(q, "PENDING_REVIEW") /\ status = "PENDING_REVIEW" => staging[q].file # f
        BY DEF PendingOf
    <2>3. \A r, q \in DOMAIN staging' :
              /\ Is(r, "PENDING_REVIEW")' /\ Is(q, "PENDING_REVIEW")'
              /\ staging'[r].file = staging'[q].file
              => r = q
        BY <1>2, <1>3, <2>2 DEF ImportInv, RowsTrue, Is
    <2> QED
        BY <2>1, <2>3 DEF RowsTrue
<1>5. <<n, 1>> \notin audit
    BY <1>1 DEF ImportInv, TypeOK
<1>6. RecordsTellTruth'
    BY <1>2, <1>3, <1>5 DEF ImportInv, RecordsTellTruth, RootsStay
<1>7. audit' \subseteq (1..lastRow') \X {1}
    BY <1>1 DEF ImportInv, TypeOK
<1>8. \A r \in DOMAIN staging' : staging'[r] \in StagedRows
    BY <1>2, <1>3 DEF ImportInv, TypeOK
<1> QED
    BY <1>1, <1>2, <1>3, <1>4, <1>6, <1>7, <1>8 DEF TableMoved, Is

\* A DELETE of rows that carry no decision.
LEMMA RowsRemoved ==
    ASSUME ImportInv, RootsStay, NEW old \in SUBSET DOMAIN staging,
           \A r \in old : Is(r, "PENDING_REVIEW"),
           staging' = Without(old), lastRow' = lastRow, audit' = audit
    PROVE  TableMoved
<1>1. /\ DOMAIN staging' = DOMAIN staging \ old
      /\ \A q \in DOMAIN staging' : staging'[q] = staging[q]
    BY DEF Without
<1>2. RowsTrue'
    BY <1>1 DEF ImportInv, RowsTrue, Is
<1>3. RecordsTellTruth'
    BY <1>1 DEF ImportInv, RecordsTellTruth, RootsStay
<1>4. \A r \in old : staging[r].version = 0
    BY DEF ImportInv, RowsTrue
<1> QED
    BY <1>1, <1>2, <1>3, <1>4 DEF ImportInv, TypeOK, TableMoved, Is

LEMMA InsertMoves ==
    ASSUME ImportInv, RootsStay, NEW w \in Clients, InsertStaged(w)
    PROVE  TableMoved
<1>1. file[w] \in Contents /\ (clean[w] => file[w] \notin Broken)
    BY DEF ImportInv, Behind, InsertStaged, At
<1>2. CASE UNCHANGED table
    BY <1>2, TableUntouched
<1>3. CASE clean[w] /\ PendingOf(file[w]) = {} /\ AddRow(w, "PENDING_REVIEW", "later")
    BY <1>1, <1>3, RowAdded DEF AddRow
<1>4. CASE ~clean[w] /\ AddRow(w, "FAILED", "never")
    BY <1>1, <1>4, RowAdded DEF AddRow
<1> QED
    BY <1>2, <1>3, <1>4 DEF InsertStaged

LEMMA AuditMoves ==
    ASSUME ImportInv, RootsStay, NEW w \in Clients, AuditCommit(w)
    PROVE  TableMoved
<1>1. /\ staging' = staging /\ lastRow' = lastRow /\ audit' = audit \cup {<<row[w], 1>>}
      /\ row[w] \in 1..lastRow /\ RootIs(file[w])
      /\ row[w] \in DOMAIN staging => staging[row[w]].file = file[w]
    BY DEF AuditCommit, ImportInv, Behind, At, Committing
<1>2. RowsTrue'
    BY <1>1 DEF ImportInv, RowsTrue, Is
<1>3. RecordsTellTruth'
    BY <1>1 DEF ImportInv, RecordsTellTruth, RootsStay
<1> QED
    BY <1>1, <1>2, <1>3 DEF ImportInv, TypeOK, TableMoved, Is

LEMMA MarkMoves ==
    ASSUME ImportInv, RootsStay, NEW w \in Clients, MarkCommitted(w)
    PROVE  TableMoved
<1> DEFINE r == row[w]
<1>1. /\ lastRow' = lastRow /\ audit' = audit /\ RootIs(file[w])
      /\ r \in DOMAIN staging => staging[r].file = file[w]
    BY DEF MarkCommitted, ImportInv, Behind, At, Committing
<1>2. CASE r \notin DOMAIN staging
    BY <1>1, <1>2, TableUntouched DEF MarkCommitted, table
<1>3. CASE r \in DOMAIN staging
    <2> DEFINE new == [staging[r] EXCEPT !.status = "COMMITTED", !.version = 1,
                                         !.expires = "never"]
    <2>1. staging[r] \in StagedRows
        BY <1>3 DEF ImportInv, TypeOK
    <2>2. /\ new \in StagedRows /\ new.file = staging[r].file
          /\ new.status = "COMMITTED" /\ new.version = 1
        BY <2>1 DEF StagedRows, Statuses
    <2>3. staging' = [staging EXCEPT ![r] = new]
        BY <1>3 DEF MarkCommitted
    <2> HIDE DEF new
    <2> QED
        BY <1>1, <1>3, <2>2, <2>3, RowUpdated
<1> QED
    BY <1>2, <1>3

LEMMA RejectMoves ==
    ASSUME ImportInv, RootsStay, NEW w \in Clients, Reject(w)
    PROVE  TableMoved
<1> DEFINE r == row[w]
<1>1. lastRow' = lastRow /\ audit' = audit
    BY DEF Reject
<1>2. CASE r \notin DOMAIN staging
    BY <1>1, <1>2, TableUntouched DEF Reject, table
<1>3. CASE r \in DOMAIN staging
    <2> DEFINE new == [staging[r] EXCEPT !.status = "REJECTED"]
    <2>1. staging[r] \in StagedRows
        BY <1>3 DEF ImportInv, TypeOK
    <2>2. /\ new \in StagedRows /\ new.file = staging[r].file
          /\ new.status = "REJECTED" /\ new.version = staging[r].version
        BY <2>1 DEF StagedRows, Statuses
    <2>3. staging' = [staging EXCEPT ![r] = new]
        BY <1>3 DEF Reject
    <2> HIDE DEF new
    <2> QED
        BY <1>1, <1>3, <2>2, <2>3, RowUpdated
<1> QED
    BY <1>2, <1>3

LEMMA ExpireMoves ==
    ASSUME ImportInv, RootsStay, NEW r \in 1..lastRow, Expire(r)
    PROVE  TableMoved
<1> DEFINE new == [staging[r] EXCEPT !.expires = "past"]
<1>1. r \in DOMAIN staging /\ lastRow' = lastRow /\ audit' = audit
    BY DEF Expire
<1>2. staging[r] \in StagedRows
    BY <1>1 DEF ImportInv, TypeOK
<1>3. /\ new \in StagedRows /\ new.file = staging[r].file
      /\ new.status = staging[r].status /\ new.version = staging[r].version
    BY <1>2 DEF StagedRows
<1>4. staging' = [staging EXCEPT ![r] = new]
    BY DEF Expire
<1>5. /\ new.status = "PENDING_REVIEW" => Is(r, "PENDING_REVIEW") /\ new.version = 0
      /\ new.status = "COMMITTED" => new.version = 1
    BY <1>1, <1>3 DEF ImportInv, RowsTrue, Is
<1> HIDE DEF new
<1> QED
    BY <1>1, <1>3, <1>4, <1>5, RowUpdated

\* Every step moves the table lawfully.
LEMMA TableStep ==
    ASSUME ImportInv, [Next]_vars
    PROVE  TableMoved
<1>1. RootsStay
    BY ChainStep DEF RootsStay
<1>2. CASE UNCHANGED vars
    BY <1>1, <1>2, TableUntouched DEF vars
<1>3. ASSUME NEW w \in Clients, Request(w) PROVE TableMoved
    BY <1>1, <1>3, TableUntouched DEF Request, Upload, CommitImport, RejectImport, Begin
<1>4. ASSUME NEW w \in Clients, Crash(w) PROVE TableMoved
    BY <1>1, <1>4, TableUntouched DEF Crash
<1>5. ASSUME NEW w \in Clients, Step(w) PROVE TableMoved
    <2>1. CASE InsertStaged(w) \/ AuditCommit(w) \/ MarkCommitted(w) \/ Reject(w)
        BY <1>1, <2>1, InsertMoves, AuditMoves, MarkMoves, RejectMoves
    <2>2. CASE ~(InsertStaged(w) \/ AuditCommit(w) \/ MarkCommitted(w) \/ Reject(w))
        <3>1. UNCHANGED table
            BY <1>5, <2>2 DEF Step, FindPending, ProductionExists, Fetch, StartCommit,
                RunStatement, StoreRefused, Stored, FetchReject
        <3> QED
            BY <1>1, <3>1, TableUntouched
    <2> QED
        BY <2>1, <2>2
<1>6. ASSUME NEW r \in 1..lastRow, Expire(r) PROVE TableMoved
    BY <1>1, <1>6, ExpireMoves
<1>7. CASE Purge
    <2> DEFINE old == {r \in DOMAIN staging : Is(r, "PENDING_REVIEW") /\ staging[r].expires = "past"}
    <2>1. staging' = Without(old) /\ lastRow' = lastRow /\ audit' = audit
        BY <1>7 DEF Purge
    <2>2. old \in SUBSET DOMAIN staging /\ \A r \in old : Is(r, "PENDING_REVIEW")
        OBVIOUS
    <2> HIDE DEF old
    <2> QED
        BY <1>1, <2>1, <2>2, RowsRemoved
<1> QED
    BY <1>2, <1>3, <1>4, <1>5, <1>6, <1>7 DEF Next

-----------------------------------------------------------------------------
(* The workers                                                             *)

\* What the worker's variables range over.
WorkersTyped ==
    /\ pc \in [Clients -> PCs]
    /\ row \in [Clients -> 0..lastRow]
    /\ file \in [Clients -> Contents \cup {Blank}]
    /\ clean \in [Clients -> BOOLEAN]
    /\ answer \in [Clients -> [kind : Kinds, version : {0, 1}]]
    /\ calls \in Nat

\* Nothing of worker d's own state changes.
Rests(d) ==
    /\ pc'[d] = pc[d] /\ row'[d] = row[d] /\ file'[d] = file[d] /\ clean'[d] = clean[d]
    /\ answer'[d] = answer[d]
    /\ phase'[d] = phase[d] /\ parent'[d] = parent[d] /\ content'[d] = content[d]

\* Whatever the others do, what a resting worker relies on stays true.
LEMMA RestingBehind ==
    ASSUME TypeOK, TableMoved, RootsStay, NEW d \in Clients, Behind(d), Rests(d)
    PROVE  Behind(d)'
<1>1. \A step : At(d, step)' <=> At(d, step)
    BY DEF At, Rests
<1>2. ASSUME pc[d] \in Committing
      PROVE  /\ row[d] \in 1..lastRow'
             /\ file[d] \in Contents \ Broken
             /\ row[d] \in DOMAIN staging' => staging'[row[d]].file = file[d]
    <2>1. row[d] \in 1..lastRow /\ row[d] # lastRow + 1
        BY <1>2 DEF Behind, TypeOK
    <2>2. row[d] \in 1..lastRow'
        BY <2>1 DEF TableMoved, TypeOK
    <2> QED
        BY <1>2, <2>1, <2>2 DEF Behind, TableMoved
<1>3. /\ pc[d] \in {"audit", "mark"} => RootIs(file[d])'
      /\ answer[d].kind = "committed" => answer[d].version = 1 /\ RootIs(file[d])'
    BY DEF Behind, RootsStay, RootIs, Rests
<1> QED
    BY <1>1, <1>2, <1>3 DEF Behind, Rests

\* What a step of w leaves to the others.
Moves(w) ==
    /\ WorkersTyped'
    /\ Behind(w)'
    /\ \A d \in Clients \ {w} : Rests(d)

LEMMA RequestMoves ==
    ASSUME ImportInv, TableMoved, RootsStay, NEW w \in Clients, Request(w)
    PROVE  Moves(w)
<1> USE DEF ImportInv
<1>1. PICK step \in {"find_pending", "fetch", "fetch_reject"},
           r \in 0..lastRow, f \in Contents \cup {Blank} :
              /\ Begin(w, step, r, f)
              /\ step = "find_pending" => f \in Contents
    BY DEF Request, Upload, CommitImport, RejectImport, TypeOK
<1>2. lastRow' = lastRow /\ UNCHANGED <<phase, parent, content>>
    BY <1>1 DEF Begin, storeVars, table
<1>3. WorkersTyped'
    BY <1>1, <1>2 DEF WorkersTyped, TypeOK, Begin, Goto, PCs, Kinds, NoAnswer
<1>4. Behind(w)'
    BY <1>1, <1>2 DEF Begin, Goto, At, Behind, TypeOK, NoAnswer, Committing
<1>5. \A d \in Clients \ {w} : Rests(d)
    BY <1>1, <1>2 DEF Begin, Goto, TypeOK, Rests
<1> QED
    BY <1>3, <1>4, <1>5 DEF Moves

\* A response that claims no commit ends a request in good order.
LEMMA ReplyMoves ==
    ASSUME ImportInv, NEW w \in Clients, NEW kind \in Kinds \ {"committed"},
           Reply(w, kind, 0), phase'[w] = "none",
           row' = row, clean' = clean, calls' = calls, lastRow' \in Nat, lastRow' >= lastRow,
           file' = file,
           \A d \in Clients \ {w} :
              phase'[d] = phase[d] /\ parent'[d] = parent[d] /\ content'[d] = content[d]
    PROVE  Moves(w)
<1> USE DEF ImportInv
<1>1. row' \in [Clients -> 0..lastRow']
    BY DEF TypeOK
<1>2. WorkersTyped'
    BY <1>1 DEF WorkersTyped, TypeOK, Reply, Goto, PCs
<1>3. Behind(w)'
    BY DEF Reply, Goto, At, Behind, TypeOK, Committing
<1>4. \A d \in Clients \ {w} : Rests(d)
    BY DEF Reply, Goto, TypeOK, Rests
<1> QED
    BY <1>2, <1>3, <1>4 DEF Moves

LEMMA StageMoves ==
    ASSUME ImportInv, TableMoved, RootsStay, NEW w \in Clients,
           FindPending(w) \/ ProductionExists(w) \/ InsertStaged(w)
    PROVE  Moves(w)
<1>0. WorkersTyped
    BY DEF ImportInv, TypeOK, WorkersTyped
<1> USE DEF ImportInv
<1>1. UNCHANGED <<phase, parent, content, row, file, calls>>
    BY DEF FindPending, ProductionExists, InsertStaged, storeVars, locals
<1>2. phase[w] = "none" /\ file[w] \in Contents
    BY DEF FindPending, ProductionExists, InsertStaged, Behind, At, StoreInv, StoreTypeOK
<1>3. lastRow' \in Nat /\ lastRow' >= lastRow
    BY DEF TableMoved
<1>4. CASE \E kind \in {"duplicate", "staged", "integrity_error"} :
              Reply(w, kind, 0) /\ clean' = clean
    BY <1>1, <1>2, <1>3, <1>4, ReplyMoves DEF Kinds
<1>5. CASE /\ At(w, "find_pending") /\ UNCHANGED <<answer, clean>> /\ lastRow' = lastRow
           /\ Goto(w, IF clean[w] THEN "production_exists" ELSE "insert")
    <2>1. WorkersTyped'
        <3>1. pc' \in [Clients -> PCs]
            BY <1>0, <1>5 DEF WorkersTyped, Goto, PCs
        <3>2. UNCHANGED <<row, file, clean, answer, calls, lastRow>>
            BY <1>1, <1>5
        <3> QED
            BY <1>0, <3>1, <3>2 DEF WorkersTyped
    <2>2. Behind(w)'
        <3>1. /\ pc'[w] = IF clean[w] THEN "production_exists" ELSE "insert"
              /\ answer'[w] = NoAnswer /\ clean'[w] = clean[w]
              /\ clean[w] => file[w] \notin Broken
            BY <1>5 DEF Goto, At, Behind, TypeOK
        <3>2. pc'[w] \in {"production_exists", "insert"}
            BY <3>1
        <3> QED
            BY <1>1, <1>2, <3>1, <3>2 DEF At, Behind, Committing, NoAnswer
    <2>3. \A d \in Clients \ {w} : Rests(d)
        BY <1>1, <1>5 DEF Goto, TypeOK, Rests
    <2> QED
        BY <2>1, <2>2, <2>3 DEF Moves
<1>6. CASE ProductionExists(w)
    <2>1. lastRow' = lastRow
        BY <1>6 DEF ProductionExists, table
    <2>2. WorkersTyped'
        <3>1. pc' \in [Clients -> PCs]
            BY <1>0, <1>6 DEF WorkersTyped, ProductionExists, Goto, PCs
        <3>2. clean' \in [Clients -> BOOLEAN]
            BY <1>0, <1>6 DEF WorkersTyped, ProductionExists
        <3>3. UNCHANGED <<row, file, answer, calls, lastRow>>
            BY <1>1, <1>6, <2>1 DEF ProductionExists
        <3> QED
            BY <1>0, <3>1, <3>2, <3>3 DEF WorkersTyped
    <2>3. Behind(w)'
        <3>1. pc'[w] = "insert" /\ answer'[w] = NoAnswer /\ file[w] \notin Broken
            BY <1>6 DEF ProductionExists, Goto, At, Behind, TypeOK
        <3> QED
            BY <1>1, <1>2, <3>1 DEF At, Behind, Committing, NoAnswer
    <2>4. \A d \in Clients \ {w} : Rests(d)
        BY <1>1, <1>6 DEF ProductionExists, Goto, TypeOK, Rests
    <2> QED
        BY <2>2, <2>3, <2>4 DEF Moves
<1> QED
    BY <1>4, <1>5, <1>6 DEF FindPending, InsertStaged, AddRow, locals, table

LEMMA FetchMoves ==
    ASSUME ImportInv, TableMoved, RootsStay, NEW w \in Clients, Fetch(w)
    PROVE  Moves(w)
<1>0. WorkersTyped
    BY DEF ImportInv, TypeOK, WorkersTyped
<1> USE DEF ImportInv
<1>1. /\ UNCHANGED <<state_versions, phase, parent, content, row, clean, calls, staging, lastRow>>
      /\ phase[w] = "none" /\ lastRow' \in Nat /\ lastRow' >= lastRow
      /\ answer[w] = NoAnswer
    BY DEF Fetch, storeVars, table, Behind, At, TypeOK
<1>2. CASE \E kind \in {"not_found", "refused"} : Reply(w, kind, 0) /\ file' = file
    BY <1>1, <1>2, ReplyMoves DEF Kinds
<1>3. CASE /\ Is(row[w], "COMMITTED")
           /\ Reply(w, "committed", staging[row[w]].version)
           /\ file' = [file EXCEPT ![w] = staging[row[w]].file]
    <2>1. /\ row[w] \in DOMAIN staging /\ staging[row[w]] \in StagedRows
          /\ staging[row[w]].version = 1 /\ RootIs(staging[row[w]].file)
        BY <1>3 DEF Is, RowsTrue, RecordsTellTruth, TypeOK
    <2>2. /\ pc' = [pc EXCEPT ![w] = "idle"]
          /\ answer' = [answer EXCEPT ![w] = [kind |-> "committed", version |-> 1]]
        BY <1>3, <2>1 DEF Reply, Goto
    <2>3. /\ pc'[w] = "idle" /\ file'[w] = staging[row[w]].file
          /\ answer'[w] = [kind |-> "committed", version |-> 1]
        BY <1>0, <1>3, <2>2 DEF WorkersTyped
    <2>4. RootIs(file[w])'
        BY <1>1, <2>1, <2>3 DEF RootIs
    <2>5. WorkersTyped'
        BY <1>0, <1>1, <1>3, <2>1, <2>2 DEF WorkersTyped, PCs, Kinds, StagedRows
    <2>6. Behind(w)'
        BY <1>1, <2>3, <2>4 DEF Behind, At, Committing
    <2>7. \A d \in Clients \ {w} : Rests(d)
        BY <1>0, <1>1, <1>3, <2>2 DEF Rests, WorkersTyped
    <2> QED
        BY <2>5, <2>6, <2>7 DEF Moves
<1>4. CASE /\ Is(row[w], "PENDING_REVIEW")
           /\ file' = [file EXCEPT ![w] = staging[row[w]].file]
           /\ Goto(w, "commit_state")
           /\ answer' = answer
    <2>1. /\ row[w] \in DOMAIN staging /\ row[w] \in 1..lastRow
          /\ staging[row[w]] \in StagedRows /\ staging[row[w]].file \notin Broken
        BY <1>4 DEF Is, RowsTrue, TypeOK
    <2>2. /\ pc'[w] = "commit_state" /\ file'[w] = staging[row[w]].file
          /\ answer'[w] = NoAnswer
        BY <1>0, <1>1, <1>4 DEF WorkersTyped, Goto
    <2>3. WorkersTyped'
        BY <1>0, <1>1, <1>4, <2>1 DEF WorkersTyped, PCs, StagedRows, Goto
    <2>4. Behind(w)'
        BY <1>1, <2>1, <2>2 DEF Behind, At, Committing, StagedRows, NoAnswer
    <2>5. \A d \in Clients \ {w} : Rests(d)
        BY <1>0, <1>1, <1>4 DEF Rests, WorkersTyped, Goto
    <2> QED
        BY <2>3, <2>4, <2>5 DEF Moves
<1> QED
    BY <1>2, <1>3, <1>4 DEF Fetch

\* The statements of commit_state, until it returns.
LEMMA StoreMoves ==
    ASSUME ImportInv, TableMoved, RootsStay, StoreInv', NEW w \in Clients,
           StartCommit(w) \/ RunStatement(w)
    PROVE  Moves(w)
<1>0. WorkersTyped /\ StoreTypeOK
    BY DEF ImportInv, TypeOK, WorkersTyped
<1> USE DEF ImportInv
<1>1. UNCHANGED <<staging, lastRow, row, file, clean, answer, calls>>
    BY DEF StartCommit, RunStatement, table, locals
<1>2. /\ pc[w] \in {"commit_state", "storing"} /\ answer[w] = NoAnswer
      /\ row[w] \in 1..lastRow /\ file[w] \in Contents \ Broken
      /\ row[w] \in DOMAIN staging => staging[row[w]].file = file[w]
    BY DEF StartCommit, RunStatement, At, Behind, Committing
<1>3. /\ pc'[w] = "storing" /\ phase'[w] # "none" /\ parent'[w] = 0 /\ content'[w] = file[w]
      /\ pc' \in [Clients -> PCs]
      /\ \A d \in Clients \ {w} :
            /\ pc'[d] = pc[d]
            /\ phase'[d] = phase[d] /\ parent'[d] = parent[d] /\ content'[d] = content[d]
    <2>1. CASE StartCommit(w)
        BY <1>0, <2>1 DEF StartCommit, BeginCommit, Goto, WorkersTyped, PCs, StoreTypeOK
    <2>2. CASE RunStatement(w)
        <3>1. phase[w] # "none" /\ parent[w] = 0 /\ content[w] = file[w] /\ pc[w] = "storing"
            BY <2>2 DEF RunStatement, Behind, At
        <3> QED
            BY <1>0, <2>2, <3>1
            DEF RunStatement, LockHead, InsertRow, WorkersTyped, StoreTypeOK
    <2> QED
        BY <2>1, <2>2
<1>4. WorkersTyped'
    BY <1>0, <1>1, <1>3 DEF WorkersTyped
<1>5. Behind(w)'
    BY <1>1, <1>2, <1>3 DEF Behind, At, Committing, NoAnswer
<1>6. \A d \in Clients \ {w} : Rests(d)
    BY <1>1, <1>3 DEF Rests
<1> QED
    BY <1>4, <1>5, <1>6 DEF Moves

\* The commit, after which the root is the fetched state.
LEMMA StoredMoves ==
    ASSUME ImportInv, TableMoved, RootsStay, NEW w \in Clients, Stored(w)
    PROVE  Moves(w)
<1>0. WorkersTyped /\ StoreTypeOK
    BY DEF ImportInv, TypeOK, WorkersTyped
<1> USE DEF ImportInv
<1>1. UNCHANGED <<staging, lastRow, row, file, clean, answer, calls>>
    BY DEF Stored, table, locals
<1>2. /\ answer[w] = NoAnswer /\ parent[w] = 0 /\ content[w] = file[w]
      /\ row[w] \in 1..lastRow /\ file[w] \in Contents \ Broken
      /\ row[w] \in DOMAIN staging => staging[row[w]].file = file[w]
    BY DEF Stored, At, Behind, Committing
<1>3. RootIs(file[w])'
    <2>1. /\ parent[w] = HeadVersion
          /\ DOMAIN state_versions' = 1..(HeadVersion + 1)
          /\ state_versions'[HeadVersion + 1] =
                 [parent |-> HeadVersion, content |-> content[w]]
        BY CommitExtends DEF Stored
    <2>2. 1 \in DOMAIN state_versions' /\ state_versions'[1].content = file[w]
        BY <1>2, <2>1
    <2> QED
        BY <1>1, <2>2 DEF RootIs
<1>4. /\ pc'[w] = "audit" /\ phase'[w] = "none"
      /\ pc' \in [Clients -> PCs]
      /\ \A d \in Clients \ {w} :
            /\ pc'[d] = pc[d]
            /\ phase'[d] = phase[d] /\ parent'[d] = parent[d] /\ content'[d] = content[d]
    BY <1>0 DEF Stored, CommitRow, Return, Goto, WorkersTyped, PCs, StoreTypeOK
<1>5. WorkersTyped'
    BY <1>0, <1>1, <1>4 DEF WorkersTyped
<1>6. Behind(w)'
    BY <1>1, <1>2, <1>3, <1>4 DEF Behind, At, Committing, NoAnswer, RootIs
<1>7. \A d \in Clients \ {w} : Rests(d)
    BY <1>1, <1>4 DEF Rests
<1> QED
    BY <1>5, <1>6, <1>7 DEF Moves

\* The entry and the mark, for a version that is there.
LEMMA RecordMoves ==
    ASSUME ImportInv, TableMoved, RootsStay, NEW w \in Clients,
           AuditCommit(w) \/ MarkCommitted(w)
    PROVE  Moves(w)
<1>0. WorkersTyped
    BY DEF ImportInv, TypeOK, WorkersTyped
<1> USE DEF ImportInv
<1>1. UNCHANGED <<phase, parent, content, lastRow, row, file, clean, calls>>
    BY DEF AuditCommit, MarkCommitted, storeVars, locals
<1>2. /\ answer[w] = NoAnswer /\ phase[w] = "none" /\ RootIs(file[w])
      /\ row[w] \in 1..lastRow /\ file[w] \in Contents \ Broken
    BY DEF AuditCommit, MarkCommitted, At, Behind, Committing
<1>3. RootIs(file[w])'
    BY <1>1, <1>2 DEF RootsStay, RootIs
<1>4. CASE AuditCommit(w)
    <2>1. pc' = [pc EXCEPT ![w] = "mark"] /\ answer' = answer /\ staging' = staging
        BY <1>4 DEF AuditCommit, Goto
    <2>2. row[w] \in DOMAIN staging => staging[row[w]].file = file[w]
        BY <1>4 DEF AuditCommit, At, Behind, Committing
    <2>3. WorkersTyped' /\ pc'[w] = "mark"
        BY <1>0, <1>1, <2>1 DEF WorkersTyped, PCs
    <2>4. Behind(w)'
        BY <1>1, <1>2, <1>3, <2>1, <2>2, <2>3 DEF Behind, At, Committing, NoAnswer
    <2>5. \A d \in Clients \ {w} : Rests(d)
        BY <1>0, <1>1, <2>1 DEF Rests, WorkersTyped
    <2> QED
        BY <2>3, <2>4, <2>5 DEF Moves
<1>5. CASE MarkCommitted(w)
    <2>1. /\ pc' = [pc EXCEPT ![w] = "idle"]
          /\ answer' = [answer EXCEPT ![w] = [kind |-> "committed", version |-> 1]]
        BY <1>5 DEF MarkCommitted, Reply, Goto
    <2>2. WorkersTyped'
        BY <1>0, <1>1, <2>1 DEF WorkersTyped, PCs, Kinds
    <2>3. pc'[w] = "idle" /\ answer'[w] = [kind |-> "committed", version |-> 1]
        BY <1>0, <2>1 DEF WorkersTyped
    <2>4. Behind(w)'
        BY <1>1, <1>2, <1>3, <2>3 DEF Behind, At, Committing
    <2>5. \A d \in Clients \ {w} : Rests(d)
        BY <1>0, <1>1, <2>1 DEF Rests, WorkersTyped
    <2> QED
        BY <2>2, <2>4, <2>5 DEF Moves
<1> QED
    BY <1>4, <1>5

\* Refusals and rejections: the request ends, or goes on, with nothing committed.
LEMMA EndMoves ==
    ASSUME ImportInv, TableMoved, RootsStay, NEW w \in Clients,
           StoreRefused(w) \/ FetchReject(w) \/ Reject(w) \/ Crash(w)
    PROVE  Moves(w)
<1>0. WorkersTyped /\ StoreTypeOK
    BY DEF ImportInv, TypeOK, WorkersTyped
<1> USE DEF ImportInv
<1>1. UNCHANGED <<row, file, clean, calls>> /\ lastRow' \in Nat /\ lastRow' >= lastRow
    BY DEF StoreRefused, FetchReject, Reject, Crash, locals, TableMoved
<1>2. CASE FetchReject(w) /\ Goto(w, "reject") /\ answer' = answer
    <2>1. /\ UNCHANGED <<phase, parent, content, staging, lastRow>>
          /\ phase[w] = "none" /\ answer[w] = NoAnswer
        BY <1>2 DEF FetchReject, storeVars, table, Behind, At
    <2>2. pc' = [pc EXCEPT ![w] = "reject"]
        BY <1>2 DEF Goto
    <2>3. WorkersTyped' /\ pc'[w] = "reject"
        BY <1>0, <1>1, <1>2, <2>1, <2>2 DEF WorkersTyped, PCs
    <2>4. Behind(w)'
        BY <1>1, <1>2, <2>1, <2>3 DEF Behind, At, Committing, NoAnswer
    <2>5. \A d \in Clients \ {w} : Rests(d)
        BY <1>0, <1>1, <1>2, <2>1, <2>2 DEF Rests, WorkersTyped
    <2> QED
        BY <2>3, <2>4, <2>5 DEF Moves
<1>3. CASE \E kind \in {"stale", "not_found", "rejected", "none"} :
              /\ Reply(w, kind, 0)
              /\ phase'[w] = "none"
              /\ \A d \in Clients \ {w} :
                    phase'[d] = phase[d] /\ parent'[d] = parent[d] /\ content'[d] = content[d]
    BY <1>1, <1>3, ReplyMoves DEF Kinds
<1>4. CASE StoreRefused(w)
    BY <1>0, <1>3, <1>4 DEF StoreRefused, RefuseStale, EndWithout, Return, StoreTypeOK
<1>5. CASE Crash(w)
    BY <1>0, <1>3, <1>5 DEF Crash, Disconnect, EndWithout, Return, StoreTypeOK, storeVars
<1>6. CASE FetchReject(w) \/ Reject(w)
    <2>1. phase[w] = "none" /\ UNCHANGED <<phase, parent, content>>
        BY <1>6 DEF FetchReject, Reject, Behind, At, storeVars
    <2> QED
        BY <1>2, <1>3, <1>6, <2>1 DEF FetchReject, Reject
<1> QED
    BY <1>4, <1>5, <1>6

\* Expiry, the sweep and a stuttering step touch no worker.
LEMMA NobodyMoves ==
    ASSUME ImportInv, TableMoved, RootsStay,
           UNCHANGED vars \/ Purge \/ \E r \in 1..lastRow : Expire(r)
    PROVE  WorkersTyped' /\ \A d \in Clients : Behind(d)'
<1>1. /\ UNCHANGED <<phase, parent, content, pc, row, file, clean, answer, calls>>
      /\ lastRow' = lastRow
    BY DEF vars, Purge, Expire, storeVars, locals, table
<1>2. WorkersTyped'
    BY <1>1 DEF ImportInv, TypeOK, WorkersTyped
<1>3. \A d \in Clients : Rests(d)
    BY <1>1 DEF Rests
<1> QED
    BY <1>2, <1>3, RestingBehind DEF ImportInv

LEMMA InvStep == ImportInv /\ [Next]_vars => ImportInv'
<1> SUFFICES ASSUME ImportInv, [Next]_vars
             PROVE  ImportInv'
    OBVIOUS
<1>1. StoreInv' /\ OnlyCleanRoots' /\ RootsStay
    BY ChainStep DEF RootsStay
<1>2. TableMoved
    BY TableStep
<1>3. WorkersTyped' /\ \A d \in Clients : Behind(d)'
    <2>1. CASE UNCHANGED vars \/ Purge \/ \E r \in 1..lastRow : Expire(r)
        BY <1>1, <1>2, <2>1, NobodyMoves
    <2>2. ASSUME NEW w \in Clients, Request(w) \/ Step(w) \/ Crash(w)
          PROVE  WorkersTyped' /\ \A d \in Clients : Behind(d)'
        <3>1. Moves(w)
            BY <1>1, <1>2, <2>2, RequestMoves, StageMoves, FetchMoves, StoreMoves, StoredMoves,
               RecordMoves, EndMoves
            DEF Step
        <3> QED
            BY <1>1, <1>2, <3>1, RestingBehind DEF Moves, ImportInv
    <2> QED
        BY <2>1, <2>2 DEF Next
<1>4. TypeOK'
    BY <1>1, <1>2, <1>3 DEF TableMoved, WorkersTyped, TypeOK, StoreInv
<1> QED
    BY <1>1, <1>2, <1>3, <1>4 DEF ImportInv, TableMoved

LEMMA InvAlways == Spec => []ImportInv
<1>1. Init => ImportInv
    BY InvInit
<1>2. ImportInv /\ [Next]_vars => ImportInv'
    BY InvStep
<1> QED
    BY <1>1, <1>2, PTL DEF Spec

-----------------------------------------------------------------------------
(* The promises                                                            *)

\* Store, staging table and workers are well formed, whatever dies.
THEOREM ImportTyped == Spec => []TypeOK
<1>1. ImportInv => TypeOK
    BY DEF ImportInv
<1> QED
    BY <1>1, InvAlways, PTL

\* However commits race, a production gets one root, and no workbook with errors.
THEOREM CleanRootsOnly == Spec => []OnlyCleanRoots
<1>1. ImportInv => OnlyCleanRoots
    BY DEF ImportInv
<1> QED
    BY <1>1, InvAlways, PTL

\* What the staging table and the audit log say was committed is the root.
THEOREM RecordsTrue == Spec => []RecordsTellTruth
<1>1. ImportInv => RecordsTellTruth
    BY DEF ImportInv
<1> QED
    BY <1>1, InvAlways, PTL

\* commit_import answers with version 1 only if it holds the staged workbook.
THEOREM CommitsTrue == Spec => []CommitAnswersTruthful
<1>1. ImportInv => CommitAnswersTruthful
    BY DEF ImportInv, Behind, CommitAnswersTruthful
<1> QED
    BY <1>1, InvAlways, PTL

\* The partial unique index and the status rules leave one open review a file.
THEOREM ReviewsUnique == Spec => []OnePendingPerFile
<1>1. ASSUME ImportInv, NEW f \in Contents
      PROVE  Cardinality(PendingOf(f)) <= 1
    <2>1. CASE PendingOf(f) = {}
        BY <2>1, FS_EmptySet
    <2>2. CASE PendingOf(f) # {}
        <3>1. PICK r \in DOMAIN staging : r \in PendingOf(f)
            BY <2>2 DEF PendingOf
        <3>2. ASSUME NEW q \in PendingOf(f) PROVE q = r
            <4>1. /\ q \in DOMAIN staging /\ Is(q, "PENDING_REVIEW")
                  /\ Is(r, "PENDING_REVIEW") /\ staging[q].file = staging[r].file
                BY <3>1, <3>2 DEF PendingOf
            <4>2. RowsTrue
                BY <1>1 DEF ImportInv
            <4> QED
                BY <3>1, <4>1, <4>2 DEF RowsTrue
        <3>3. PendingOf(f) = {r}
            BY <3>1, <3>2
        <3>4. Cardinality({r}) = 1
            BY FS_Singleton
        <3> QED
            BY <3>3, <3>4
    <2> QED
        BY <2>1, <2>2
<1>2. ImportInv => OnePendingPerFile
    BY <1>1 DEF OnePendingPerFile
<1> QED
    BY <1>2, InvAlways, PTL

\* No sweep, crash or late request takes back a decision or the version it names.
THEOREM DecisionsStay == Spec => DecisionsKept
<1> DEFINE Kept == \A r \in DOMAIN staging :
              /\ ~Is(r, "PENDING_REVIEW") =>
                    r \in DOMAIN staging' /\ staging'[r].status # "PENDING_REVIEW"
              /\ staging[r].version = 1 => r \in DOMAIN staging' /\ staging'[r].version = 1
<1>1. ImportInv /\ [Next]_vars => [Kept]_vars
    BY TableStep DEF TableMoved
<1> QED
    BY <1>1, InvAlways, PTL DEF Spec, DecisionsKept
=============================================================================
