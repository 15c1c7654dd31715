----------------------------- MODULE StateStore -----------------------------
(***************************************************************************)
(* The append-only chain of production states: the state_versions table of *)
(* one production and PriRepository.commit_state, the only code that       *)
(* writes it.                                                              *)
(*                                                                         *)
(* Every writer (an execute request, an import) runs commit_state in its   *)
(* own database transaction at PostgreSQL's default READ COMMITTED.  What  *)
(* that isolation level does to "SELECT ... ORDER BY version DESC LIMIT 1  *)
(* FOR UPDATE" is the point of the module: the statement picks the head    *)
(* row of its own snapshot, waits for that row's lock, and is not          *)
(* evaluated again when the lock is granted, because the row it waited for *)
(* is never changed - a competitor only adds a row after it.               *)
(***************************************************************************)
EXTENDS Integers

CONSTANTS
    Clients,   \* the database connections that may call commit_state
    Contents,  \* what a snapshot says, as far as anyone compares snapshots
    Blank,     \* the snapshot local of a connection with no commit_state running
    MaxVersion \* bound of the runs: no writer starts from a version past it

VARIABLES
    state_versions,  \* committed rows: version -> [parent, content]
    phase,           \* per client: where its commit_state transaction stands
    parent,          \* per client: parent_version of the state it writes (0 = None)
    content,         \* per client: the snapshot it writes
    seen,            \* per client: the head its SELECT ... FOR UPDATE returned
    outcome          \* per client: how its last commit_state call ended

storeVars == <<state_versions, phase, parent, content, seen, outcome>>

-----------------------------------------------------------------------------
(* Versions and rows                                                       *)

\* Mutant: the number is advanced twice.
NextVersionSkipped(p) == p + 2

\* ProductionState.apply numbers the successor of a state, and a root is 1.
NextVersion(p) == p + 1

Row == [parent : Nat, content : Contents]

\* The version at the head of the chain, 0 when the production has none.
HeadVersion ==
    IF DOMAIN state_versions = {} THEN 0
    ELSE CHOOSE v \in DOMAIN state_versions :
            \A w \in DOMAIN state_versions : w <= v

\* Insert or overwrite one entry of a table.
Put(table, key, value) ==
    [k \in DOMAIN table \cup {key} |-> IF k = key THEN value ELSE table[k]]

\* A client holds the row lock on the head it selected from the moment the
\* lock is granted to the end of its transaction.
Holding(c) == phase[c] \in {"locked", "inserted"}

\* Another open transaction has the same primary key in its write set: an
\* INSERT of that key waits for it.
KeyInFlight(c) ==
    \E d \in Clients \ {c} : phase[d] = "inserted" /\ parent[d] = parent[c]

\* The catalogue row is in the write set of whoever inserted it first, until
\* the first version of the production is committed with it: "ON CONFLICT DO
\* NOTHING" waits for that transaction.
CatalogueInFlight(c) ==
    /\ DOMAIN state_versions = {}
    /\ \E d \in Clients \ {c} : phase[d] # "none"

-----------------------------------------------------------------------------
(* The steps of commit_state                                               *)

StoreInit ==
    /\ state_versions = <<>>
    /\ phase   = [c \in Clients |-> "none"]
    /\ parent  = [c \in Clients |-> 0]
    /\ content = [c \in Clients |-> Blank]
    /\ seen    = [c \in Clients |-> 0]
    /\ outcome = [c \in Clients |-> "none"]

\* The transaction opens, upserts the catalogue row and issues the SELECT,
\* which fixes the head row it will return.
BeginCommit(c, p, x) ==
    /\ phase[c] = "none"
    /\ ~CatalogueInFlight(c)
    /\ phase'   = [phase EXCEPT ![c] = "selecting"]
    /\ parent'  = [parent EXCEPT ![c] = p]
    /\ content' = [content EXCEPT ![c] = x]
    /\ seen'    = [seen EXCEPT ![c] = HeadVersion]
    /\ outcome' = [outcome EXCEPT ![c] = "none"]
    /\ UNCHANGED state_versions

\* FOR UPDATE is granted once no other transaction holds that row.  An empty
\* table has no row to lock.
LockHead(c) ==
    /\ phase[c] = "selecting"
    /\ seen[c] # 0 => \A d \in Clients \ {c} : ~(Holding(d) /\ seen[d] = seen[c])
    /\ phase' = [phase EXCEPT ![c] = "locked"]
    /\ UNCHANGED <<state_versions, parent, content, seen, outcome>>

\* The call is over: its locals are gone and its caller knows the outcome.
Return(c, result) ==
    /\ phase'   = [phase EXCEPT ![c] = "none"]
    /\ parent'  = [parent EXCEPT ![c] = 0]
    /\ content' = [content EXCEPT ![c] = Blank]
    /\ seen'    = [seen EXCEPT ![c] = 0]
    /\ outcome' = [outcome EXCEPT ![c] = result]

\* The transaction ends, leaving nothing behind.
EndWithout(c, result) ==
    /\ Return(c, result)
    /\ UNCHANGED state_versions

\* Mutant: the loser selects again with the parent it already has, for ever.
RefuseStaleRetries(c) ==
    /\ phase[c] = "locked"
    /\ seen[c] # parent[c]
    /\ phase' = [phase EXCEPT ![c] = "selecting"]
    /\ seen'  = [seen EXCEPT ![c] = HeadVersion]
    /\ UNCHANGED <<state_versions, parent, content, outcome>>

\* The optimistic check: the head read is not the parent the state was built on.
RefuseStale(c) ==
    /\ phase[c] = "locked"
    /\ seen[c] # parent[c]
    /\ EndWithout(c, "stale")

\* INSERT meets the primary key (production_id, version).
RefuseDuplicate(c) ==
    /\ phase[c] = "locked"
    /\ seen[c] = parent[c]
    /\ NextVersion(parent[c]) \in DOMAIN state_versions
    /\ EndWithout(c, "integrity_error")

\* The key is free: the new row is in the table, for its transaction only.
InsertRow(c) ==
    /\ phase[c] = "locked"
    /\ seen[c] = parent[c]
    /\ NextVersion(parent[c]) \notin DOMAIN state_versions
    /\ ~KeyInFlight(c)
    /\ phase' = [phase EXCEPT ![c] = "inserted"]
    /\ UNCHANGED <<state_versions, parent, content, seen, outcome>>

\* The post_insert hook accepted the row and the transaction commits.
CommitRow(c) ==
    /\ phase[c] = "inserted"
    /\ state_versions' = Put(state_versions, NextVersion(parent[c]),
                             [parent |-> parent[c], content |-> content[c]])
    /\ Return(c, "ok")

\* The post_insert hook raised: the insert is rolled back.
RollBack(c) ==
    /\ phase[c] = "inserted"
    /\ EndWithout(c, "rolled_back")

\* The process or its connection dies: the server rolls the transaction back.
Disconnect(c) ==
    /\ phase[c] # "none"
    /\ EndWithout(c, "none")

-----------------------------------------------------------------------------
(* Writers in general: the state a writer commits was built on a version   *)
(* that was the head when it was read, or is the root of an import.        *)

Write(c) ==
    \E p \in {0} \cup DOMAIN state_versions, x \in Contents :
        p < MaxVersion /\ BeginCommit(c, p, x)

StoreStep(c) ==
    \/ LockHead(c)
    \/ RefuseStale(c)
    \/ RefuseDuplicate(c)
    \/ InsertRow(c)
    \/ CommitRow(c)
    \/ RollBack(c)

StoreNext == \E c \in Clients : Write(c) \/ StoreStep(c) \/ Disconnect(c)

StoreSpec == StoreInit /\ [][StoreNext]_storeVars

-----------------------------------------------------------------------------
(* Properties                                                              *)

Phases   == {"none", "selecting", "locked", "inserted"}
Outcomes == {"none", "ok", "stale", "integrity_error", "rolled_back"}

\* Type invariant of the table and of the transactions.
StoreTypeOK ==
    /\ DOMAIN state_versions \subseteq Nat \ {0}
    /\ \A v \in DOMAIN state_versions : state_versions[v] \in Row
    /\ phase   \in [Clients -> Phases]
    /\ parent  \in [Clients -> Nat]
    /\ content \in [Clients -> Contents \cup {Blank}]
    /\ \A c \in Clients : phase[c] # "none" => content[c] \in Contents
    /\ seen    \in [Clients -> Nat]
    /\ outcome \in [Clients -> Outcomes]

\* The versions of a production are 1, 2, ..., HeadVersion with no hole, and each
\* names the one before it as its parent: whatever commits, refusals, rolled
\* back verifications and lost connections came before.
ChainUnbroken ==
    /\ DOMAIN state_versions = 1..HeadVersion
    /\ \A v \in DOMAIN state_versions : state_versions[v].parent = v - 1

\* A transaction that has inserted its row still extends the head: nobody can
\* move the head under it before it commits.
InsertedExtendsHead == \A c \in Clients : phase[c] = "inserted" => parent[c] = HeadVersion

\* Append-only: no step removes or rewrites a committed version.
AppendOnly ==
    [][\A v \in DOMAIN state_versions :
          v \in DOMAIN state_versions' /\ state_versions'[v] = state_versions[v]]_storeVars
=============================================================================
