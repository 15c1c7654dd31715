---------------------------- MODULE MCTransition ----------------------------
(***************************************************************************)
(* Instances of the execution path: sessions on the first versions of one  *)
(* production, and the workers that execute their plans.  Plan A is fine   *)
(* in every session, plan B passes the rules but not verification, and     *)
(* plan C breaks a rule.                                                   *)
(***************************************************************************)
EXTENDS Transition, TLC

CONSTANTS planA, planB, planC

MCContents     == Subjects \cup {Seed}
MCIllegal      == (Sessions \X {planC}) \cap Subjects
MCUnverifiable == (Sessions \X {planB}) \cap Subjects

\* Workers are interchangeable, and so are sessions.
WorkersAndSessions == Permutations(Clients) \cup Permutations(Sessions)
=============================================================================
