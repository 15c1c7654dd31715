------------------------- MODULE StateStore_proofs --------------------------
(***************************************************************************)
(* Proofs about the chain of production states, for any number of          *)
(* connections, contents and versions.                                     *)
(***************************************************************************)
EXTENDS StateStore, TLAPS

\* No transaction has seen a head the table does not have yet.
SeenReached == \A c \in Clients : seen[c] <= HeadVersion

\* The row lock and the primary key keep at most one writer of a given version
\* between its INSERT and its COMMIT.
OneWriterPerVersion ==
    \A c, d \in Clients :
        phase[c] = "inserted" /\ phase[d] = "inserted" /\ parent[c] = parent[d] => c = d

\* The inductive invariant.  ChainUnbroken alone is not inductive: that a
\* commit lands right after the head needs InsertedExtendsHead, which needs
\* that what a transaction saw was once the head (SeenReached) and that no
\* second writer of the same version is in flight (OneWriterPerVersion).
StoreInv ==
    /\ StoreTypeOK
    /\ HeadVersion \in Nat
    /\ ChainUnbroken
    /\ OneWriterPerVersion
    /\ InsertedExtendsHead
    /\ SeenReached

\* A step of any caller, whatever parent version it brings along.
StoreAction ==
    \E c \in Clients :
        \/ \E p \in Nat, x \in Contents : BeginCommit(c, p, x)
        \/ StoreStep(c)
        \/ Disconnect(c)

StoreUntouched == UNCHANGED storeVars

-----------------------------------------------------------------------------
\* The head of a table whose versions are 1..n is n.
LEMMA MaxIs ==
    ASSUME NEW n \in Nat
    PROVE  (IF 1..n = {} THEN 0
            ELSE CHOOSE v \in 1..n : \A w \in 1..n : w <= v) = n
<1>1. CASE n = 0
    BY <1>1
<1>2. CASE n # 0
    <2>1. n \in 1..n /\ \A w \in 1..n : w <= n
        BY <1>2
    <2>2. ASSUME NEW v \in 1..n, \A w \in 1..n : w <= v
          PROVE  v = n
        BY <2>1, <2>2
    <2>3. (CHOOSE v \in 1..n : \A w \in 1..n : w <= v) = n
        BY <2>1, <2>2
    <2> QED
        BY <2>1, <2>3
<1> QED
    BY <1>1, <1>2

\* A step that leaves the table alone leaves its head alone.
LEMMA HeadKept ==
    ASSUME state_versions' = state_versions
    PROVE  HeadVersion' = HeadVersion
BY DEF HeadVersion

\* The empty table satisfies the invariant.
LEMMA StoreInvInit == StoreInit => StoreInv
<1> SUFFICES ASSUME StoreInit PROVE StoreInv
    OBVIOUS
<1>1. DOMAIN state_versions = {}
    BY DEF StoreInit
<1>2. HeadVersion = 0
    BY <1>1 DEF HeadVersion
<1>3. StoreTypeOK
    BY <1>1 DEF StoreInit, StoreTypeOK, Phases, Outcomes, Row
<1> QED
    BY <1>1, <1>2, <1>3
    DEF StoreInit, StoreInv, ChainUnbroken, OneWriterPerVersion,
        InsertedExtendsHead, SeenReached

\* A step that starts or ends a transaction without writing, or moves it
\* between its phases, keeps the invariant as long as no row becomes "inserted".
LEMMA QuietStep ==
    ASSUME StoreInv,
           state_versions' = state_versions,
           StoreTypeOK',
           \A c \in Clients : phase'[c] = "inserted" =>
               phase[c] = "inserted" /\ parent'[c] = parent[c],
           \A c \in Clients : seen'[c] <= HeadVersion
    PROVE  StoreInv'
<1>1. HeadVersion' = HeadVersion
    BY HeadKept
<1>2. ChainUnbroken'
    BY <1>1 DEF StoreInv, ChainUnbroken
<1>3. OneWriterPerVersion'
    BY DEF StoreInv, OneWriterPerVersion
<1>4. InsertedExtendsHead'
    BY <1>1 DEF StoreInv, InsertedExtendsHead
<1>5. SeenReached'
    BY <1>1 DEF SeenReached
<1> QED
    BY <1>1, <1>2, <1>3, <1>4, <1>5 DEF StoreInv

-----------------------------------------------------------------------------
(* The steps that leave the table alone                                    *)

\* Opening a transaction: the parent is the caller's affair, the head is not.
LEMMA BeginCommitSafe ==
    ASSUME StoreInv, NEW c \in Clients, NEW p \in Nat, NEW x \in Contents,
           BeginCommit(c, p, x)
    PROVE  StoreInv'
<1>1. StoreTypeOK'
    BY DEF StoreInv, StoreTypeOK, BeginCommit, Phases, Outcomes
<1>2. \A d \in Clients : phase'[d] = "inserted" =>
          phase[d] = "inserted" /\ parent'[d] = parent[d]
    BY DEF StoreInv, StoreTypeOK, BeginCommit
<1>3. \A d \in Clients : seen'[d] <= HeadVersion
    BY DEF StoreInv, StoreTypeOK, SeenReached, BeginCommit
<1> QED
    BY <1>1, <1>2, <1>3, QuietStep DEF BeginCommit

LEMMA LockHeadSafe ==
    ASSUME StoreInv, NEW c \in Clients, LockHead(c)
    PROVE  StoreInv'
<1>1. StoreTypeOK'
    BY DEF StoreInv, StoreTypeOK, LockHead, Phases
<1>2. \A d \in Clients : phase'[d] = "inserted" =>
          phase[d] = "inserted" /\ parent'[d] = parent[d]
    BY DEF StoreInv, StoreTypeOK, LockHead
<1>3. \A d \in Clients : seen'[d] <= HeadVersion
    BY DEF StoreInv, SeenReached, LockHead
<1> QED
    BY <1>1, <1>2, <1>3, QuietStep DEF LockHead

\* A transaction that ends without a row: refused, rolled back or cut off.
LEMMA EndWithoutSafe ==
    ASSUME StoreInv, NEW c \in Clients, NEW r \in Outcomes, EndWithout(c, r)
    PROVE  StoreInv'
<1>1. StoreTypeOK'
    BY DEF StoreInv, StoreTypeOK, EndWithout, Return, Phases
<1>2. \A d \in Clients : phase'[d] = "inserted" =>
          phase[d] = "inserted" /\ parent'[d] = parent[d]
    BY DEF StoreInv, StoreTypeOK, EndWithout, Return
<1>3. \A d \in Clients : seen'[d] <= HeadVersion
    BY DEF StoreInv, StoreTypeOK, SeenReached, EndWithout, Return
<1> QED
    BY <1>1, <1>2, <1>3, QuietStep DEF EndWithout

-----------------------------------------------------------------------------
(* The steps that write                                                    *)

\* The key after the parent is free and the parent was once the head, so the
\* parent is the head; nobody else has that key in flight.
LEMMA InsertRowSafe ==
    ASSUME StoreInv, NEW c \in Clients, InsertRow(c)
    PROVE  StoreInv'
<1>1. StoreTypeOK'
    BY DEF StoreInv, StoreTypeOK, InsertRow, Phases
<1>2. state_versions' = state_versions /\ HeadVersion' = HeadVersion
    BY HeadKept DEF InsertRow
<1>3. ChainUnbroken'
    BY <1>2 DEF StoreInv, ChainUnbroken
<1>4. OneWriterPerVersion'
    BY DEF StoreInv, StoreTypeOK, OneWriterPerVersion, InsertRow, KeyInFlight
<1>5. InsertedExtendsHead'
    <2>1. parent[c] \in 0..HeadVersion /\ parent[c] + 1 \notin 1..HeadVersion
        BY DEF StoreInv, StoreTypeOK, ChainUnbroken, SeenReached, InsertRow, NextVersion
    <2>2. parent[c] = HeadVersion
        BY <2>1 DEF StoreInv
    <2> QED
        BY <1>2, <2>2 DEF StoreInv, StoreTypeOK, InsertedExtendsHead, InsertRow
<1>6. SeenReached'
    BY <1>2 DEF StoreInv, SeenReached, InsertRow
<1> QED
    BY <1>1, <1>2, <1>3, <1>4, <1>5, <1>6 DEF StoreInv

\* The row that becomes visible is the one right after the head.
LEMMA CommitExtends ==
    ASSUME StoreInv, NEW c \in Clients, CommitRow(c)
    PROVE  /\ parent[c] = HeadVersion
           /\ DOMAIN state_versions' = 1..(HeadVersion + 1)
           /\ HeadVersion' = HeadVersion + 1
           /\ \A v \in DOMAIN state_versions : state_versions'[v] = state_versions[v]
           /\ state_versions'[HeadVersion + 1] =
                  [parent |-> HeadVersion, content |-> content[c]]
<1>1. parent[c] = HeadVersion
    BY DEF StoreInv, InsertedExtendsHead, CommitRow
<1>2. HeadVersion \in Nat /\ DOMAIN state_versions = 1..HeadVersion
    BY DEF StoreInv, ChainUnbroken
<1>3. state_versions' =
          [k \in 1..HeadVersion \cup {HeadVersion + 1} |->
              IF k = HeadVersion + 1 THEN [parent |-> HeadVersion, content |-> content[c]]
              ELSE state_versions[k]]
    BY <1>1, <1>2 DEF CommitRow, Put, NextVersion
<1>4. 1..HeadVersion \cup {HeadVersion + 1} = 1..(HeadVersion + 1)
    BY <1>2
<1>5. DOMAIN state_versions' = 1..(HeadVersion + 1)
    BY <1>3, <1>4
<1>6. HeadVersion' = HeadVersion + 1
    <2> DEFINE m == HeadVersion + 1
    <2>1. m \in Nat
        BY <1>2
    <2>2. HeadVersion' = IF 1..m = {} THEN 0
                         ELSE CHOOSE v \in 1..m : \A w \in 1..m : w <= v
        BY <1>5 DEF HeadVersion
    <2> HIDE DEF m
    <2>3. HeadVersion' = m
        BY <2>1, <2>2, MaxIs
    <2> QED
        BY <2>3 DEF m
<1>7. \A v \in DOMAIN state_versions : state_versions'[v] = state_versions[v]
    BY <1>2, <1>3
<1>8. state_versions'[HeadVersion + 1] = [parent |-> HeadVersion, content |-> content[c]]
    BY <1>2, <1>3
<1> QED
    BY <1>1, <1>5, <1>6, <1>7, <1>8

LEMMA CommitRowSafe ==
    ASSUME StoreInv, NEW c \in Clients, CommitRow(c)
    PROVE  StoreInv'
<1> DEFINE n == HeadVersion
<1>0. n \in Nat
    BY DEF StoreInv
<1>1. /\ parent[c] = n
      /\ DOMAIN state_versions = 1..n
      /\ DOMAIN state_versions' = 1..(n + 1)
      /\ HeadVersion' = n + 1
      /\ \A v \in 1..n : state_versions'[v] = state_versions[v]
      /\ state_versions'[n + 1] = [parent |-> n, content |-> content[c]]
    BY CommitExtends DEF StoreInv, ChainUnbroken
<1> HIDE DEF n
<1>2. StoreTypeOK'
    <2>1. phase[c] = "inserted" /\ content[c] \in Contents
        BY DEF StoreInv, StoreTypeOK, CommitRow
    <2>2. ASSUME NEW v \in 1..(n + 1) PROVE state_versions'[v] \in Row
        <3>1. CASE v = n + 1
            BY <1>0, <1>1, <2>1, <3>1 DEF Row
        <3>2. CASE v # n + 1
            <4>1. v \in 1..n
                BY <1>0, <3>2
            <4> QED
                BY <1>1, <4>1 DEF StoreInv, StoreTypeOK
        <3> QED
            BY <3>1, <3>2
    <2>3. DOMAIN state_versions' \subseteq Nat \ {0}
        BY <1>0, <1>1
    <2> QED
        BY <1>1, <2>2, <2>3 DEF StoreInv, StoreTypeOK, CommitRow, Return, Phases, Outcomes
<1>3. ChainUnbroken'
    BY <1>0, <1>1 DEF StoreInv, ChainUnbroken
<1>4. \A d \in Clients : phase'[d] = "inserted" =>
          d # c /\ phase[d] = "inserted" /\ parent'[d] = parent[d]
    BY DEF StoreInv, StoreTypeOK, CommitRow, Return
<1>5. \A d \in Clients : phase'[d] # "inserted"
    BY <1>1, <1>4 DEF StoreInv, OneWriterPerVersion, InsertedExtendsHead, CommitRow, n
<1>6. OneWriterPerVersion' /\ InsertedExtendsHead'
    BY <1>5 DEF OneWriterPerVersion, InsertedExtendsHead
<1>7. SeenReached'
    BY <1>0, <1>1 DEF StoreInv, StoreTypeOK, SeenReached, CommitRow, Return, n
<1> QED
    BY <1>0, <1>1, <1>2, <1>3, <1>6, <1>7 DEF StoreInv

-----------------------------------------------------------------------------
(* Every step                                                              *)

\* The invariant survives any step of any caller of commit_state.
LEMMA StoreStepSafe ==
    ASSUME StoreInv, StoreAction \/ StoreUntouched
    PROVE  StoreInv'
<1>1. CASE StoreUntouched
    BY <1>1 DEF StoreUntouched, storeVars, StoreInv, StoreTypeOK, HeadVersion, ChainUnbroken,
        OneWriterPerVersion, InsertedExtendsHead, SeenReached
<1>2. CASE StoreAction
    <2> PICK c \in Clients :
            \/ \E p \in Nat, x \in Contents : BeginCommit(c, p, x)
            \/ StoreStep(c)
            \/ Disconnect(c)
        BY <1>2 DEF StoreAction
    <2>1. CASE \E p \in Nat, x \in Contents : BeginCommit(c, p, x)
        BY <2>1, BeginCommitSafe
    <2>2. CASE LockHead(c)
        BY <2>2, LockHeadSafe
    <2>3. CASE RefuseStale(c)
        BY <2>3, EndWithoutSafe DEF RefuseStale, Outcomes
    <2>4. CASE RefuseDuplicate(c)
        BY <2>4, EndWithoutSafe DEF RefuseDuplicate, Outcomes
    <2>5. CASE InsertRow(c)
        BY <2>5, InsertRowSafe
    <2>6. CASE CommitRow(c)
        BY <2>6, CommitRowSafe
    <2>7. CASE RollBack(c)
        BY <2>7, EndWithoutSafe DEF RollBack, Outcomes
    <2>8. CASE Disconnect(c)
        BY <2>8, EndWithoutSafe DEF Disconnect, Outcomes
    <2> QED
        BY <2>1, <2>2, <2>3, <2>4, <2>5, <2>6, <2>7, <2>8 DEF StoreStep
<1> QED
    BY <1>1, <1>2

\* What one step of one caller does to the table.
LEMMA StepExtendsOrKeeps ==
    ASSUME StoreInv, StoreAction \/ StoreUntouched
    PROVE  \/ state_versions' = state_versions
           \/ \E c \in Clients : CommitRow(c)
BY DEF StoreAction, StoreStep, StoreUntouched, storeVars, BeginCommit, LockHead, RefuseStale,
    RefuseDuplicate, InsertRow, RollBack, Disconnect, EndWithout

LEMMA NextIsAction == ASSUME StoreInv, StoreNext PROVE StoreAction
<1> PICK c \in Clients : Write(c) \/ StoreStep(c) \/ Disconnect(c)
    BY DEF StoreNext
<1>1. CASE Write(c)
    <2> PICK p \in {0} \cup DOMAIN state_versions, x \in Contents : BeginCommit(c, p, x)
        BY <1>1 DEF Write
    <2>1. p \in Nat
        BY DEF StoreInv, StoreTypeOK
    <2> QED
        BY <2>1 DEF StoreAction
<1> QED
    BY <1>1 DEF StoreAction

\* The chain of a production: every behaviour of any number of writers keeps
\* the invariant.
THEOREM StoreInvariant == StoreSpec => []StoreInv
<1>1. StoreInit => StoreInv
    BY StoreInvInit
<1>2. StoreInv /\ [StoreNext]_storeVars => StoreInv'
    BY StoreStepSafe, NextIsAction DEF StoreUntouched
<1> QED
    BY <1>1, <1>2, PTL DEF StoreSpec

\* The table and the transactions are well typed for ever.
THEOREM StoreTyped == StoreSpec => []StoreTypeOK
<1>1. StoreInv => StoreTypeOK
    BY DEF StoreInv
<1> QED
    BY <1>1, StoreInvariant, PTL

\* commit_state never leaves a hole in the chain and never forks it.
THEOREM StoreUnbroken == StoreSpec => []ChainUnbroken
<1>1. StoreInv => ChainUnbroken
    BY DEF StoreInv
<1> QED
    BY <1>1, StoreInvariant, PTL

\* An inserted, uncommitted row is the only one of its version, and the head
\* waits for it.
THEOREM StoreInsertExclusive == StoreSpec => [](OneWriterPerVersion /\ InsertedExtendsHead)
<1>1. StoreInv => OneWriterPerVersion /\ InsertedExtendsHead
    BY DEF StoreInv
<1> QED
    BY <1>1, StoreInvariant, PTL

\* No committed version is ever removed or rewritten.
THEOREM StoreAppendOnly == StoreSpec => AppendOnly
<1> DEFINE Kept == \A v \in DOMAIN state_versions :
                       v \in DOMAIN state_versions' /\ state_versions'[v] = state_versions[v]
<1>1. ASSUME StoreInv, [StoreNext]_storeVars PROVE [Kept]_storeVars
    <2>1. CASE UNCHANGED storeVars
        BY <2>1
    <2>2. CASE StoreNext
        <3>1. CASE state_versions' = state_versions
            BY <3>1
        <3>2. ASSUME NEW c \in Clients, CommitRow(c) PROVE Kept
            <4>1. /\ HeadVersion \in Nat
                  /\ DOMAIN state_versions = 1..HeadVersion
                  /\ DOMAIN state_versions' = 1..(HeadVersion + 1)
                  /\ \A v \in DOMAIN state_versions : state_versions'[v] = state_versions[v]
                BY <1>1, <3>2, CommitExtends DEF StoreInv, ChainUnbroken
            <4> QED
                BY <4>1
        <3> QED
            BY <1>1, <2>2, <3>1, <3>2, NextIsAction, StepExtendsOrKeeps
    <2> QED
        BY <1>1, <2>1, <2>2
<1> QED
    BY <1>1, StoreInvariant, PTL DEF StoreSpec, AppendOnly
=============================================================================
