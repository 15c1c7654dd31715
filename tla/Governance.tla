----------------------------- MODULE Governance -----------------------------
(***************************************************************************)
(* What the guarded execution path promises, with every gate, lock, retry  *)
(* and crash taken out: a production has one chain of versions, and a plan *)
(* enters it at most once, on the version it was computed for, when it is  *)
(* lawful, verifiable and approved.                                        *)
(***************************************************************************)
EXTENDS Integers, Sequences

CONSTANTS
    Sessions, Plans,
    Unfit,            \* <<session, plan>> pairs that break a rule or a check
    Seed,             \* what version 1 says
    ApprovalRequired

VARIABLES
    chain,     \* what each version says, oldest first
    opened,    \* sessions stored so far
    base,      \* the version each session was computed for
    approved   \* <<session, plan>> pairs somebody has approved

govVars == <<chain, opened, base, approved>>

GovInit ==
    /\ chain = <<Seed>>
    /\ opened = {}
    /\ base = [s \in Sessions |-> 0]
    /\ approved = {}

Open(s, b) ==
    /\ s \notin opened
    /\ b \in 1..Len(chain)
    /\ opened' = opened \cup {s}
    /\ base' = [base EXCEPT ![s] = b]
    /\ UNCHANGED <<chain, approved>>

Approve(s, p) ==
    /\ s \in opened
    /\ approved' = approved \cup {<<s, p>>}
    /\ UNCHANGED <<chain, opened, base>>

Execute(s, p) ==
    /\ s \in opened
    /\ base[s] = Len(chain)
    /\ <<s, p>> \notin Unfit
    /\ ApprovalRequired => <<s, p>> \in approved
    /\ chain' = Append(chain, <<s, p>>)
    /\ UNCHANGED <<opened, base, approved>>

GovNext ==
    \E s \in Sessions :
        \/ \E b \in 1..Len(chain) : Open(s, b)
        \/ \E p \in Plans : Approve(s, p) \/ Execute(s, p)

GovSpec == GovInit /\ [][GovNext]_govVars
=============================================================================
