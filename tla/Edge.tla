-------------------------------- MODULE Edge --------------------------------
(***************************************************************************)
(* The edge of the API process: disruptions are reported or typed, put on  *)
(* the event fabric, recovered from and shown.  Typed ones pass a rate     *)
(* limit, a language model and a check that does not trust it.  Publishing,*)
(* polling, probing and recovering share the threads of one pool.          *)
(***************************************************************************)
EXTENDS Fabric, Stream

CONSTANTS
    Callers,        \* Addresses disruptions are typed from.
    Limit,          \* How many each may type in a window.
    Window,         \* Length of the window.
    Loads,          \* What a behaviour may bring.
    None            \* Nothing.

ASSUME EdgeAssumption ==
    /\ Messages \subseteq Nat
    /\ Limit \in Nat /\ Window \in Nat /\ None \notin Callers

\* Recoveries have numbers, and the days of a board are counted from an epoch.
ASSUME LoadsAssumption ==
    \A l \in Loads :
        /\ l.runs \subseteq Runs
        /\ \A b \in l.boards : \A row \in b.rows : row.date \in Nat

VARIABLES
    load,       \* The load of this behaviour.
    open,       \* The process runs.
    board,      \* The current state of the production.
    recent,     \* Per caller the ages of its calls: _RECENT.
    call,       \* Per message the call it may come from.
    admitted    \* History: callers and ages of the calls that were let through.

edgeVars == <<load, open, board, recent, call, admitted>>
vars == <<fabricVars, streamVars, edgeVars>>

NoCall == [phase |-> "none", caller |-> None, board |-> None, event |-> None]

Init ==
    /\ FabricInit /\ StreamInit
    /\ load \in Loads
    /\ open = TRUE
    /\ board \in load.boards
    /\ recent = [c \in Callers |-> <<>>]
    /\ call = [m \in Messages |-> NoCall]
    /\ admitted = <<>>

\* The next message this behaviour may bring.
IsNext(m) ==
    LET unused == {n \in Messages : n <= load.messages /\ call[n] = NoCall /\ task[n] = "none"}
    IN  unused # {} /\ m = Min(unused)

(***************************************************************************)
(* The rate limit: entries older than the window are forgotten.            *)
(***************************************************************************)

\* The queue from its first entry that is no older than the window.
NoOlderThan(ages, window) ==
    LET first == CHOOSE k \in 1 .. Len(ages) + 1 :
                    /\ \A i \in 1 .. k - 1 : ages[i] > window
                    /\ k <= Len(ages) => ages[k] <= window
    IN  SubSeq(ages, first, Len(ages))

\* Mutant: an entry exactly one window old is forgotten, too.
PrunedEarly(ages) == NoOlderThan(ages, Window - 1)

Pruned(ages) == NoOlderThan(ages, Window)

(***************************************************************************)
(* What the model may choose from, and what is made of its reply.  A board *)
(* has places, a cast, and rows: a date, whether it shoots scenes, where,  *)
(* and who is in them.                                                     *)
(***************************************************************************)
Dates(b) == {row.date : row \in {row \in b.rows : row.shoots}}

Kind(b, id) ==
    IF id \in b.places THEN "location" ELSE IF id \in b.cast THEN "person" ELSE "unknown"

KindFor == [x \in {"location.blocked", "actor.unavailable"} |->
                IF x = "location.blocked" THEN "location" ELSE "person"]

\* Mutant: the day the model claims is taken as it is.
ResolveAnyDay(reply, b) == {reply.day}

\* The claimed day if the board shoots then, else the first day it appears on.
ResolveDay(reply, b) ==
    LET appears == {row.date : row \in {row \in b.rows :
                       row.date \in Dates(b) /\ (row.place = reply.entity \/ reply.entity \in row.players)}}
    IN  IF reply.day \in Dates(b) THEN {reply.day}
        ELSE IF appears = {} THEN {} ELSE {Min(appears)}

\* resolve: the event, or None for a clarification.
Resolve(reply, b) ==
    IF /\ reply.confident
       /\ reply.type \in DOMAIN KindFor
       /\ Kind(b, reply.entity) = KindFor[reply.type]
       /\ ResolveDay(reply, b) # {}
    THEN [type |-> reply.type, entity |-> reply.entity,
          day |-> CHOOSE day \in ResolveDay(reply, b) : TRUE]
    ELSE None

(***************************************************************************)
(* Requests.                                                               *)
(***************************************************************************)

\* POST /events, its row stored: announced by a task of its own.
Ingest(m) ==
    /\ IsNext(m) /\ load.reported
    /\ Schedule(m)
    /\ UNCHANGED <<up, letter, patience, reports, breaker, reachable, crowded,
                   streamVars, edgeVars>>

\* POST /disruptions/inject: through the limit, the board is read, the model asked.
Inject(m, c) ==
    /\ IsNext(m) /\ load.replies # {}
    /\ Len(Pruned(recent[c])) < Limit
    /\ recent' = [recent EXCEPT ![c] = Append(Pruned(@), 0)]
    /\ admitted' = Append(admitted, [caller |-> c, age |-> 0])
    /\ call' = [call EXCEPT ![m] = [phase |-> "asking", caller |-> c, board |-> board, event |-> None]]
    /\ UNCHANGED <<fabricVars, streamVars, load, open, board>>

\* 429, which forgets old entries as well.
Throttle(c) ==
    /\ Len(Pruned(recent[c])) >= Limit
    /\ recent' = [recent EXCEPT ![c] = Pruned(@)]
    /\ UNCHANGED <<fabricVars, streamVars, load, open, board, call, admitted>>

\* The reply, checked against the board read before; accepted, it is scheduled.
Replied(m) ==
    /\ call[m].phase = "asking"
    /\ \E reply \in load.replies :
         LET event == Resolve(reply, call[m].board)
         IN  /\ call' = [call EXCEPT ![m].phase = "answered", ![m].event = event]
             /\ IF event = None THEN UNCHANGED task ELSE Schedule(m)
    /\ UNCHANGED <<up, letter, patience, reports, breaker, reachable, crowded,
                   streamVars, load, open, board, recent, admitted>>

\* Meanwhile a version is committed, or the demo is reset.
Rewrite ==
    /\ board' \in load.boards \ {board}
    /\ UNCHANGED <<fabricVars, streamVars, load, open, recent, call, admitted>>

(***************************************************************************)
(* The pool.                                                               *)
(***************************************************************************)
Computing == {r \in Runs : run[r] = "computing"}

FreeThread == Busy + Cardinality(Computing) < Threads

InThread(m) == FreeThread /\ (Attempt(m) \/ StartPoll(m)) /\ UNCHANGED <<streamVars, edgeVars>>
RunInThread(r) == FreeThread /\ Compute(r) /\ UNCHANGED <<fabricVars, edgeVars>>

TakeThread == (\E m \in Messages : InThread(m)) \/ (\E r \in Runs : RunInThread(r))

\* The probe takes a thread, or waits in vain for one.
Probe ==
    /\ IF FreeThread THEN ProbeOnce ELSE ProbeStarves
    /\ UNCHANGED <<streamVars, edgeVars>>

(***************************************************************************)
(* Time, shutdown, and the whole.                                          *)
(***************************************************************************)
Older(age) == IF age > Window THEN age ELSE age + 1

Tick ==
    /\ FabricTick
    /\ recent' = [c \in Callers |-> [i \in DOMAIN recent[c] |-> Older(recent[c][i])]]
    /\ admitted' = [i \in DOMAIN admitted |-> [admitted[i] EXCEPT !.age = Older(@)]]
    /\ UNCHANGED <<streamVars, load, open, board, call>>

\* Requests and tasks are waited for, then the producer is flushed.
Close ==
    /\ \A m \in Messages : call[m].phase # "asking"
    /\ \A r \in Runs : run[r] \in {"none", "failed", "bare", "answered"}
    /\ Flush
    /\ open' = FALSE
    /\ UNCHANGED <<streamVars, load, board, recent, call, admitted>>

\* What goes on by itself.
FabricProgress ==
    /\ \E m \in Messages :
          \/ Produce(m) \/ ProduceFails(m) \/ PollServes(m) \/ PollEnds(m)
          \/ letter[m].left = 0 /\ GiveUp(m)
    /\ UNCHANGED <<streamVars, edgeVars>>

StreamProgress ==
    /\ \/ \E r \in Runs : Computed(r) \/ Persist(r) \/ FailRun(r) \/ FinishRun(r)
       \/ \E s \in Screens : Receive(s) \/ ShowSession(s)
    /\ UNCHANGED <<fabricVars, edgeVars>>

Progress == FabricProgress \/ StreamProgress \/ \E m \in Messages : Replied(m)

\* What the world does: the broker and the way to it, clients and their tabs.
FabricWorld ==
    /\ Change \/ Health \/ \E m \in Messages : Acknowledge(m) \/ GiveUp(m)
    /\ UNCHANGED <<streamVars, edgeVars>>

StreamWorld ==
    /\ \/ \E s \in Screens \cap load.screens : Subscribe(s) \/ Unsubscribe(s)
       \/ StartRun(load.runs) \/ Decide \/ Execute \/ Executed
    /\ UNCHANGED <<fabricVars, edgeVars>>

Clients ==
    \/ Rewrite
    \/ \E m \in Messages : Ingest(m) \/ \E c \in Callers : Inject(m, c)
    \/ \E c \in Callers : Throttle(c)

Next ==
    open /\ (Progress \/ TakeThread \/ Probe \/ Tick
              \/ FabricWorld \/ StreamWorld \/ Clients \/ Close)

\* What was begun goes on, time included, and so does the probe.
Fairness ==
    /\ WF_vars(open /\ (Progress \/ TakeThread \/ Tick))
    /\ WF_vars(open /\ Probe)

Spec == Init /\ [][Next]_vars /\ Fairness
-----------------------------------------------------------------------------
\* Every variable has its type; counters and places agree.
TypeOK ==
    /\ up \in BOOLEAN /\ reachable \in BOOLEAN \cup {Unset}
    /\ letter \in [Messages -> [at : {"unsent", "queued", "reported", "settled", "refused"},
                                left : 0..DeliveryTimeout]]
    /\ task \in [Messages -> {"none", "scheduled", "producing", "draining", "polling", "ended"}]
    /\ patience \in [Messages -> 0..PollTimeout]
    /\ {report.message : report \in Range(reports)} = {m \in Messages : letter[m].at = "reported"}
    /\ breaker.failures \in Nat /\ breaker.openFor \in 0..Cooldown \cup {Unset}
    /\ crowded \subseteq Messages
    /\ Subscribed \subseteq Screens
    /\ missed \subseteq Screens \X Runs \X {"lost", "overtaken", "unanswered"}
    /\ \A s \in Subscribed : Len(queue[s]) <= QueueSize
    /\ asked \in [Screens -> SUBSET Runs] /\ shows \in [Screens -> Runs \cup {Nothing}]
    /\ run \in [Runs -> {"none", "asked", "computing", "computed", "stored", "bare", "offered",
                         "answered", "failed"}]
    /\ execution \in {"none", "approved", "executing", "ended"}
    /\ Busy + Cardinality(Computing) <= Threads
    /\ load \in Loads /\ open \in BOOLEAN /\ board \in load.boards
    /\ \A c \in Callers : Len(recent[c]) <= Limit
    /\ \A m \in Messages : call[m].phase \in {"none", "asking", "answered"}

\* Health follows the broker: while it stays reachable the fabric ends up "ok"
\* for good - whatever failed before, reported late or opened the breaker - and
\* while it stays away the fabric ends up "degraded" (status, is_open, probe_once).
HealthFollowsBroker ==
    /\ <>[](up /\ open) => <>[](Status = "ok")
    /\ <>[](~up /\ open) => <>[](Status = "degraded")

\* The report of a message that shared the client with no other is counted when
\* its task is over: poll outlasts the delivery timeout (_schedule, _on_delivery).
LoneReportCounted ==
    \A m \in Messages \ crowded : task[m] = "ended" => letter[m].at \in {"settled", "refused"}

\* In no window, both its ends included, is one caller let through more often
\* than the limit says (_rate_limit).
RateRespected ==
    \A c \in Callers :
        Cardinality({i \in DOMAIN admitted : admitted[i].caller = c /\ admitted[i].age <= Window}) <= Limit

\* What a typed disruption says, whatever the model replied, was on the board the
\* call read: a place or a member of the cast, as its type wants, and a day on
\* which scenes are shot (resolve, _resolve_day).
InjectedOnBoard ==
    \A m \in Messages :
        LET event == call[m].event
            b == call[m].board
        IN  event # None =>
              /\ event.entity \in IF event.type = "location.blocked" THEN b.places ELSE b.cast
              /\ \E row \in b.rows : row.date = event.day /\ row.shoots

\* A screen came by the offer of a recovery in vain.
Missed(s, r) == \E how \in {"lost", "overtaken", "unanswered"} : <<s, r, how>> \in missed

\* The offer of a recovery is in a screen's queue.
Offered(s, r) ==
    s \in Subscribed /\ \E i \in Offers(queue[s]) : queue[s][i].run = r

\* An offer that is in a screen's queue comes to be shown with its candidates -
\* unless the connection goes, a newer offer is rendered with it, or the one
\* request for the session fails although it is there (run_recovery, publish, load).
ScreenInformed ==
    \A s \in Screens, r \in Runs :
        (open /\ Offered(s, r)) ~>
            \/ shows[s] = r /\ r \in HasCandidates
            \/ Missed(s, r)
            \/ ~open
=============================================================================
