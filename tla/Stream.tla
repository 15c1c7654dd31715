------------------------------- MODULE Stream -------------------------------
(***************************************************************************)
(* The stage stream and the screens that watch it: a bounded queue per     *)
(* connected client, the recoveries, decisions and executions that fill    *)
(* it, and what a screen does with the frames it gets.                     *)
(*                                                                         *)
(* One production, one disruption.  Recoveries are numbered in the order   *)
(* in which they were asked for; the number stands for the session.        *)
(***************************************************************************)
EXTENDS FiniteSetsExt, Sequences, Integers

CONSTANTS
    Screens,        \* Browser tabs on the governance page.
    QueueSize,      \* Frames a client may be behind.
    MaxRuns         \* Bound on recoveries.

ASSUME StreamAssumption == QueueSize \in Nat \ {0} /\ MaxRuns \in Nat

VARIABLES
    queue,      \* Per subscribed screen its frames.
    asked,      \* Per screen the sessions it has asked for.
    shows,      \* Per screen the session whose options it shows.
    run,        \* Per recovery how far it is.
    execution,  \* How far the execution of a plan is.
    missed      \* History: which screens came by which offer in vain, and how.

streamVars == <<queue, asked, shows, run, execution, missed>>

Nothing == 0    \* No recovery.
Runs == 1..MaxRuns

Frame(stage, r) == [stage |-> stage, run |-> r]

StreamInit ==
    /\ queue = <<>>
    /\ asked = [s \in Screens |-> {}]
    /\ shows = [s \in Screens |-> Nothing]
    /\ run = [r \in Runs |-> "none"]
    /\ execution = "none"
    /\ missed = {}

(***************************************************************************)
(* The broker.                                                             *)
(***************************************************************************)
Subscribed == DOMAIN queue

\* The places of the offers among some frames.
Offers(frames) == {i \in DOMAIN frames : frames[i].stage = "AWAITING_APPROVAL"}

\* If the frame is an offer, these screens lose it.
Lost(frame, screens) ==
    {<<s, frame.run, "lost">> : s \in {s \in screens : frame.stage = "AWAITING_APPROVAL"}}

\* Mutant: a full queue takes the frame, too.
AnnounceToAll(frame) ==
    /\ queue' = [s \in Subscribed |-> Append(queue[s], frame)]
    /\ missed' = missed \cup Lost(frame, Screens \ Subscribed)

\* Every client's queue gets the frame, unless it is full.
Announce(frame) ==
    /\ queue' = [s \in Subscribed |->
                    IF Len(queue[s]) < QueueSize THEN Append(queue[s], frame) ELSE queue[s]]
    /\ missed' = missed \cup
          Lost(frame, {s \in Screens : s \notin Subscribed \/ Len(queue[s]) >= QueueSize})

\* The page opens, or its connection is made again: from here on it gets frames.
Subscribe(s) ==
    /\ s \notin Subscribed
    /\ queue' = [t \in Subscribed \cup {s} |-> IF t = s THEN <<>> ELSE queue[t]]
    /\ UNCHANGED <<asked, shows, run, execution, missed>>

\* The connection is lost, and with it what was in its queue.
Unsubscribe(s) ==
    /\ s \in Subscribed
    /\ queue' = [t \in Subscribed \ {s} |-> queue[t]]
    /\ missed' = missed \cup {<<s, queue[s][i].run, "lost">> : i \in Offers(queue[s])}
    /\ UNCHANGED <<asked, shows, run, execution>>

(***************************************************************************)
(* The screen.  An offer makes it ask for the session, once; of the offers *)
(* among the frames it renders together only the last does.  The answers   *)
(* may come in any order: the last to come is shown.                       *)
(***************************************************************************)
Receive(s) ==
    /\ s \in Subscribed
    /\ \E k \in DOMAIN queue[s] :
         LET offers == {i \in Offers(queue[s]) : i <= k}
             older  == {i \in offers : \E j \in offers : i < j}
         IN  /\ queue' = [queue EXCEPT ![s] = SubSeq(@, k + 1, Len(@))]
             /\ asked' = [asked EXCEPT ![s] = @ \cup {queue[s][i].run : i \in offers \ older}]
             /\ missed' = missed \cup {<<s, queue[s][i].run, "overtaken">> : i \in older}
    /\ UNCHANGED <<shows, run, execution>>

HasCandidates == {r \in Runs : run[r] \in {"offered", "answered"}}
HasSession == HasCandidates \cup {r \in Runs : run[r] \in {"stored", "bare"}}

\* GET /sessions/{id}: the session with the candidates it has.  Unknown, or after
\* any other failure of the request, the screen is cleared and asks no more.
ShowSession(s) ==
    /\ \E r \in asked[s] :
         /\ asked' = [asked EXCEPT ![s] = @ \ {r}]
         /\ \/ /\ r \in HasSession
               /\ shows' = [shows EXCEPT ![s] = r]
               /\ UNCHANGED missed
            \/ /\ shows' = [shows EXCEPT ![s] = Nothing]
               /\ missed' = missed \cup {<<s, q, "unanswered">> : q \in {r} \cap HasSession}
    /\ UNCHANGED <<queue, run, execution>>

(***************************************************************************)
(* A recovery, as it appears on the stream: the stages are announced when  *)
(* the computation is over, the offer once it is stored.                   *)
(***************************************************************************)
StartRun(runs) ==
    /\ \E r \in runs :
         /\ run[r] = "none" /\ \A q \in 1..(r - 1) : run[q] # "none"
         /\ run' = [run EXCEPT ![r] = "asked"]
         /\ Announce(Frame("EVENT_RECEIVED", r))
    /\ UNCHANGED <<asked, shows, execution>>

\* recover takes a thread of the pool.
Compute(r) ==
    /\ run[r] = "asked"
    /\ run' = [run EXCEPT ![r] = "computing"]
    /\ UNCHANGED <<queue, asked, shows, execution, missed>>

\* The pipeline's stages, one frame for all: there is no await between them.
Computed(r) ==
    /\ run[r] = "computing"
    /\ run' = [run EXCEPT ![r] = "computed"]
    /\ Announce(Frame("IMPACT_COMPUTED", r))
    /\ UNCHANGED <<asked, shows, execution>>

\* Two of the transactions of _persist; any of them may fail instead.
Persist(r) ==
    /\ run[r] \in {"computed", "stored"}
    /\ run' = [run EXCEPT ![r] = IF @ = "computed" THEN "stored" ELSE "offered"]
    /\ UNCHANGED <<queue, asked, shows, execution, missed>>

FailRun(r) ==
    /\ run[r] \in {"computed", "stored"}
    /\ run' = [run EXCEPT ![r] = IF @ = "computed" THEN "failed" ELSE "bare"]
    /\ UNCHANGED <<queue, asked, shows, execution, missed>>

\* Mutant: the offer is announced with the other stages; then storing it fails.
FinishRunEarly(r) ==
    /\ run[r] = "computed"
    /\ run' = [run EXCEPT ![r] = "failed"]
    /\ Announce(Frame("AWAITING_APPROVAL", r))
    /\ UNCHANGED <<asked, shows, execution>>

\* The offer and the response; no offer if nothing is recommended.
FinishRun(r) ==
    /\ run[r] = "offered"
    /\ run' = [run EXCEPT ![r] = "answered"]
    /\ \/ Announce(Frame("AWAITING_APPROVAL", r))
       \/ UNCHANGED <<queue, missed>>
    /\ UNCHANGED <<asked, shows, execution>>

(***************************************************************************)
(* Decision and execution of a plan of the session a screen shows.         *)
(***************************************************************************)
Decide ==
    /\ execution = "none"
    /\ \E s \in Screens : shows[s] \in HasCandidates /\ Announce(Frame("APPROVED", shows[s]))
    /\ execution' = "approved"
    /\ UNCHANGED <<asked, shows, run>>

Execute ==
    /\ execution = "approved"
    /\ \E s \in Screens : shows[s] \in HasCandidates /\ Announce(Frame("EXECUTING", shows[s]))
    /\ execution' = "executing"
    /\ UNCHANGED <<asked, shows, run>>

Executed ==
    /\ execution = "executing"
    /\ \E stage \in {"VERIFIED", "FAILED"} : Announce(Frame(stage, Nothing))
    /\ execution' = "ended"
    /\ UNCHANGED <<asked, shows, run>>
=============================================================================
