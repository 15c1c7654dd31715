------------------------------- MODULE Fabric -------------------------------
(***************************************************************************)
(* The API's connection to the event fabric: the producer with its circuit *)
(* breaker, and the bridge that publishes in the background and probes the *)
(* broker.  Publishing runs in threads of one pool, which the probe and    *)
(* the computation of recoveries use as well.                              *)
(*                                                                         *)
(* Time is counted in ticks.  What has a deadline holds the clock until it *)
(* is done: a delivery report comes within DeliveryTimeout of its message, *)
(* a poll returns within PollTimeout.                                      *)
(***************************************************************************)
EXTENDS FiniteSetsExt, SequencesExt, Integers

CONSTANTS
    Messages,           \* Disruptions that may be announced.
    Threads,            \* Threads of the pool.
    Threshold,          \* Failures in a row that open the breaker.
    Cooldown,           \* How long it then stays open.
    DeliveryTimeout,    \* When the client gives a message up.
    PollTimeout,        \* How long a task waits for a delivery report.
    QueueLimit,         \* Messages the client holds.
    Unset               \* No time.

\* The waits of the tasks outlast the client's own, as configured.
ASSUME TimesAssumption ==
    /\ {Threads, Threshold, Cooldown, DeliveryTimeout, QueueLimit} \subseteq Nat \ {0}
    /\ PollTimeout \in Nat /\ DeliveryTimeout < PollTimeout
    /\ Unset \notin Nat

VARIABLES
    up,         \* The broker can be reached.
    letter,     \* Per message where it is, and what it has left of its time.
    task,       \* Per message where its background task stands.
    patience,   \* Per message the time its poll has left.
    reports,    \* Delivery reports nobody has served, in order.
    breaker,    \* Failures in a row, and how long it stays open.
    reachable,  \* What the last probe found; Unset before the first.
    crowded     \* History: messages that shared the client with another.

fabricVars == <<up, letter, task, patience, reports, breaker, reachable, crowded>>

Closed == [failures |-> 0, openFor |-> Unset]

FabricInit ==
    /\ up \in BOOLEAN
    /\ letter = [m \in Messages |-> [at |-> "unsent", left |-> 0]]
    /\ task = [m \in Messages |-> "none"]
    /\ patience = [m \in Messages |-> 0]
    /\ reports = <<>>
    /\ breaker = Closed
    /\ reachable = Unset
    /\ crowded = {}

(***************************************************************************)
(* The breaker.  Reading it after the cooldown resets it: the next attempt *)
(* is let through, and the count starts from nothing.                      *)
(***************************************************************************)

\* Mutant: once open it stays open until a success.
IsOpenForever(b) == b.openFor # Unset

IsOpen(b) == b.openFor # Unset /\ b.openFor > 0

Looked(b) == IF b.openFor = 0 THEN Closed ELSE b

RecordFailure(b) ==
    [failures |-> b.failures + 1,
     openFor  |-> IF b.failures + 1 >= Threshold /\ b.openFor = Unset
                  THEN Cooldown ELSE b.openFor]

RecordSuccess(b) == Closed

(***************************************************************************)
(* The client library.  External: a message it accepted is held until it   *)
(* is reported, a report is parked until somebody polls.                   *)
(***************************************************************************)
Held == {m \in Messages : letter[m].at \in {"queued", "reported"}}

OnDelivery(b, report) == IF report.ok THEN RecordSuccess(b) ELSE RecordFailure(b)

\* The breaker after the reports waiting, served in their order.
AfterReports(b, waiting) ==
    LET after[i \in 0..Len(waiting)] ==
            IF i = 0 THEN b ELSE OnDelivery(after[i - 1], waiting[i])
    IN  after[Len(waiting)]

Serve(waiting) ==
    /\ breaker' = AfterReports(breaker, waiting)
    /\ reports' = <<>>

Settled(waiting) ==
    [m \in Messages |->
        IF \E i \in DOMAIN waiting : waiting[i].message = m
        THEN [at |-> "settled", left |-> 0] ELSE letter[m]]

Report(m, ok) ==
    /\ letter' = [letter EXCEPT ![m] = [at |-> "reported", left |-> 0]]
    /\ reports' = Append(reports, [message |-> m, ok |-> ok])
    /\ UNCHANGED <<up, task, patience, breaker, reachable, crowded>>

Acknowledge(m) ==
    /\ up /\ letter[m].at = "queued"
    /\ Report(m, TRUE)

\* Refused by the broker, or out of time - though it may be on the topic.
GiveUp(m) ==
    /\ letter[m].at = "queued" /\ (up \/ letter[m].left = 0)
    /\ Report(m, FALSE)

\* The broker, or the way to it, fails or comes back.
Change ==
    /\ up' = ~up
    /\ UNCHANGED <<letter, task, patience, reports, breaker, reachable, crowded>>

(***************************************************************************)
(* The bridge: one task per message, each call of the producer in a thread.*)
(***************************************************************************)
Polling == {m \in Messages : task[m] = "polling"}

\* Threads the fabric has in use.
Busy == Cardinality({m \in Messages : task[m] \in {"producing", "polling"}})

\* publish_disruption: the task is scheduled and the caller goes on.
Schedule(m) ==
    /\ task[m] = "none"
    /\ task' = [task EXCEPT ![m] = "scheduled"]

\* publish looks at the breaker, and refuses the message or goes on.
Attempt(m) ==
    /\ task[m] = "scheduled"
    /\ breaker' = Looked(breaker)
    /\ IF IsOpen(breaker)
       THEN /\ task' = [task EXCEPT ![m] = "ended"]
            /\ letter' = [letter EXCEPT ![m].at = "refused"]
       ELSE /\ task' = [task EXCEPT ![m] = "producing"]
            /\ UNCHANGED letter
    /\ UNCHANGED <<up, patience, reports, reachable, crowded>>

\* produce, then poll(0): whatever report is parked is served here too.
Produce(m) ==
    /\ task[m] = "producing"
    /\ Cardinality(Held) < QueueLimit
    /\ task' = [task EXCEPT ![m] = "draining"]
    /\ letter' = [Settled(reports) EXCEPT ![m] = [at |-> "queued", left |-> DeliveryTimeout]]
    /\ crowded' = LET others == {o \in Messages \ {m} :
                                    o \in Held \/ task[o] \in {"producing", "draining", "polling"}}
                  IN  IF others = {} THEN crowded ELSE crowded \cup others \cup {m}
    /\ Serve(reports)
    /\ UNCHANGED <<up, patience, reachable>>

\* The local queue is full, or the client refuses the message for reasons of its own.
ProduceFails(m) ==
    /\ task[m] = "producing"
    /\ task' = [task EXCEPT ![m] = "ended"]
    /\ letter' = [letter EXCEPT ![m].at = "refused"]
    /\ breaker' = RecordFailure(breaker)
    /\ UNCHANGED <<up, patience, reports, reachable, crowded>>

StartPoll(m) ==
    /\ task[m] = "draining"
    /\ task' = [task EXCEPT ![m] = "polling"]
    /\ patience' = [patience EXCEPT ![m] = PollTimeout]
    /\ UNCHANGED <<up, letter, reports, breaker, reachable, crowded>>

\* poll returns as soon as it served a report, whosever that was.
PollServes(m) ==
    /\ task[m] = "polling" /\ reports # <<>>
    /\ task' = [task EXCEPT ![m] = "ended"]
    /\ patience' = [patience EXCEPT ![m] = 0]
    /\ letter' = Settled(reports)
    /\ Serve(reports)
    /\ UNCHANGED <<up, reachable, crowded>>

\* Mutant: the task does not wait for the report.
PollEndsAtOnce(m) ==
    /\ task[m] = "polling" /\ reports = <<>>
    /\ task' = [task EXCEPT ![m] = "ended"]
    /\ patience' = [patience EXCEPT ![m] = 0]
    /\ UNCHANGED <<up, letter, reports, breaker, reachable, crowded>>

PollEnds(m) ==
    /\ task[m] = "polling" /\ reports = <<>> /\ patience[m] = 0
    /\ task' = [task EXCEPT ![m] = "ended"]
    /\ UNCHANGED <<up, letter, patience, reports, breaker, reachable, crowded>>

(***************************************************************************)
(* Health: the probe asks for metadata every so often, status reads what   *)
(* it left behind.                                                         *)
(***************************************************************************)
Status ==
    IF IsOpen(breaker) \/ reachable = FALSE THEN "degraded" ELSE "ok"

\* /health reads the breaker, and reading it is a step.
Health ==
    /\ breaker' = Looked(breaker)
    /\ UNCHANGED <<up, letter, task, patience, reports, reachable, crowded>>

\* Asked in a thread of the pool, the broker answers, or does not in time.
ProbeOnce ==
    /\ reachable' = up
    /\ UNCHANGED <<up, letter, task, patience, reports, breaker, crowded>>

\* wait_for ran out before a thread took the question.
ProbeStarves ==
    /\ reachable' = FALSE
    /\ UNCHANGED <<up, letter, task, patience, reports, breaker, crowded>>

(***************************************************************************)
(* Time.                                                                   *)
(***************************************************************************)
Less(n) == IF n \in Nat /\ n > 0 THEN n - 1 ELSE n

NothingDue ==
    /\ \A m \in Messages : letter[m].at = "queued" => letter[m].left > 0
    /\ \A m \in Polling : patience[m] > 0

FabricTick ==
    /\ NothingDue
    /\ letter' = [m \in Messages |-> [letter[m] EXCEPT !.left = Less(@)]]
    /\ patience' = [m \in Messages |-> Less(patience[m])]
    /\ breaker' = [breaker EXCEPT !.openFor = Less(@)]
    /\ UNCHANGED <<up, task, reports, reachable, crowded>>

(***************************************************************************)
(* Shutdown: aclose waits for every task, then flushes for a while; what   *)
(* is still in the queue then is lost with the process.                    *)
(***************************************************************************)
TasksEnded == \A m \in Messages : task[m] \in {"none", "ended"}

Flush ==
    /\ TasksEnded
    /\ \E answered \in SUBSET {m \in Messages : letter[m].at = "queued"} :
         LET late == SetToSeq({[message |-> m, ok |-> up] : m \in answered})
         IN  /\ letter' = Settled(reports \o late)
             /\ Serve(reports \o late)
    /\ UNCHANGED <<up, task, patience, reachable, crowded>>
=============================================================================
