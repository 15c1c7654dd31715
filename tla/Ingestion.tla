----------------------------- MODULE Ingestion -----------------------------
(***************************************************************************)
(* How a disruption becomes a recovery session: the topic                  *)
(* production.events, the consumer group that reads it, the API that       *)
(* computes and stores recoveries, and the clients that report disruptions *)
(* over HTTP instead.                                                      *)
(*                                                                         *)
(* One production, hence one partition.  Delivery is at least once: a      *)
(* consumer that dies before it commits its offset leaves the message to   *)
(* be delivered again, to itself or to another process of the group, and   *)
(* the events table is what keeps the second delivery from planning again. *)
(* A recovery runs in the API process; its caller may stop waiting for it  *)
(* without stopping it.                                                    *)
(***************************************************************************)
EXTENDS Integers, Sequences

CONSTANTS
    Consumers,  \* processes of the group: two while one revision replaces another
    Events,     \* event ids
    Posted,     \* events reported by POST /events; all others come by the topic
    Strangers,  \* events that name a production the catalogue does not have
    Unstorable, \* events the table takes in no attempt: a payload JSONB refuses
    Junk,       \* the value of a message that is no envelope
    MaxTopic,   \* bound of the runs: messages others put on the topic
    MaxRuns,    \* bound of the runs: no client asks for a recovery past it
    MaxUpsets   \* bound of the runs: deaths, timeouts and stolen partitions

ASSUME ConsumersAssumption == "none" \notin Consumers

ASSUME EventsAssumption ==
    /\ Posted \subseteq Events
    /\ Strangers \subseteq Events
    /\ Unstorable \subseteq Events
    /\ Junk \notin Events

VARIABLES
    topic,      \* messages of the partition, oldest first
    committed,  \* the group's offset: how many messages are consumed
    owner,      \* the consumer the partition is assigned to, or "none"
    events,     \* event_id of every row in the events table
    announcing, \* posted events whose fire-and-forget publish is under way
    pc,         \* per consumer: where run and handle stand
    next,       \* per consumer: offset after the message last polled
    call,       \* per consumer: the recovery it waits for (0 = none)
    runs,       \* the API's recoveries: [event, by, step], a session id each
    sessions,   \* ids of the recovery_sessions rows
    planned,    \* ids of the sessions whose candidates are stored
    requested,  \* events handed to the producer for recovery.requested
    completed,  \* session ids handed to the producer for recovery.completed
    upsets      \* failures so far

group  == <<committed, owner>>
api    == <<runs, sessions, planned>>
out    == <<requested, completed>>
worker == <<pc, next, call>>
vars   == <<topic, group, events, announcing, worker, api, out, upsets>>

At(c, step) == pc[c] = step
Goto(c, step) == pc' = [pc EXCEPT ![c] = step]

\* The message a consumer is handling.
Message(c) == topic[next[c]]

\* A failure: bounded in the runs, counted so that a property can ask for none.
Upset == upsets < MaxUpsets /\ upsets' = upsets + 1

Init ==
    /\ topic = <<>>
    /\ committed = 0
    /\ owner = "none"
    /\ events = {}
    /\ announcing = {}
    /\ pc = [c \in Consumers |-> "poll"]
    /\ next = [c \in Consumers |-> 0]
    /\ call = [c \in Consumers |-> 0]
    /\ runs = <<>>
    /\ sessions = {}
    /\ planned = {}
    /\ requested = {}
    /\ completed = {}
    /\ upsets = 0

-----------------------------------------------------------------------------
(* Reports                                                                 *)

\* Another producer puts an event, for the first time or again, or something
\* that is no event at all on the shared topic.
Publish(m) ==
    /\ Len(topic) < MaxTopic
    /\ topic' = Append(topic, m)
    /\ UNCHANGED <<group, events, announcing, worker, api, out, upsets>>

\* POST /events: the row is stored, then its publication is scheduled.
\* Reporting it again, for an unknown production, or with what the table refuses,
\* changes nothing.
Ingest(e) ==
    /\ e \notin events \cup Strangers \cup Unstorable
    /\ events' = events \cup {e}
    /\ announcing' = announcing \cup {e}
    /\ UNCHANGED <<topic, group, worker, api, out, upsets>>

\* The scheduled task publishes, or finds the breaker open, or dies with the API.
Announce(e) ==
    /\ e \in announcing
    /\ announcing' = announcing \ {e}
    /\ topic' \in {topic, Append(topic, e)}
    /\ UNCHANGED <<group, events, worker, api, out, upsets>>

-----------------------------------------------------------------------------
(* RecoveryConsumer                                                        *)

\* Mutant: a message that is not an envelope is raised, not skipped.
PollRaises(c) ==
    /\ At(c, "poll")
    /\ owner = c
    /\ next[c] < Len(topic)
    /\ next' = [next EXCEPT ![c] = @ + 1]
    /\ IF topic[next[c] + 1] = Junk
       THEN Goto(c, "down") /\ owner' = "none"
       ELSE Goto(c, "record") /\ UNCHANGED owner
    /\ UNCHANGED <<topic, committed, events, announcing, call, api, out, upsets>>

\* poll returns the next message; what does not decode is to be skipped.
Poll(c) ==
    /\ At(c, "poll")
    /\ owner = c
    /\ next[c] < Len(topic)
    /\ next' = [next EXCEPT ![c] = @ + 1]
    /\ Goto(c, IF topic[next[c] + 1] = Junk THEN "commit" ELSE "record")
    /\ UNCHANGED <<topic, group, events, announcing, call, api, out, upsets>>

\* Mutants: the insert is an upsert; a database failure reads as a duplicate.
RecordUpserts(c) ==
    /\ At(c, "record")
    /\ Message(c) \notin Unstorable
    /\ events' = events \cup {Message(c)}
    /\ Goto(c, "request")
    /\ UNCHANGED <<topic, group, announcing, next, call, api, out, upsets>>

RecordSwallows(c) ==
    /\ At(c, "record")
    /\ \/ /\ Message(c) \notin events \cup Strangers \cup Unstorable
          /\ events' = events \cup {Message(c)}
          /\ Goto(c, "request")
       \/ Goto(c, "commit") /\ UNCHANGED events
    /\ UNCHANGED <<topic, group, announcing, next, call, api, out, upsets>>

\* record_event: the first insert goes on to a recovery.  Any integrity error -
\* the event is there already, or its production is not - skips the message.
Record(c) ==
    /\ At(c, "record")
    /\ Message(c) \notin Unstorable
    /\ \/ /\ Message(c) \notin events \cup Strangers
          /\ events' = events \cup {Message(c)}
          /\ Goto(c, "request")
       \/ /\ Message(c) \in events \cup Strangers
          /\ Goto(c, "commit")
          /\ UNCHANGED events
    /\ UNCHANGED <<topic, group, announcing, next, call, api, out, upsets>>

\* Mutant: the offset is committed before the work is done.
RequestAfterCommit(c) ==
    /\ At(c, "request")
    /\ requested' = requested \cup {Message(c)}
    /\ committed' = IF owner = c THEN next[c] ELSE committed
    /\ Goto(c, "invoke")
    /\ UNCHANGED <<topic, owner, events, announcing, next, call, api, completed, upsets>>

\* recovery.requested is published; publish never raises, whatever the broker does.
Request(c) ==
    /\ At(c, "request")
    /\ requested' = requested \cup {Message(c)}
    /\ Goto(c, "invoke")
    /\ UNCHANGED <<topic, group, events, announcing, next, call, api, completed, upsets>>

\* The API starts a recovery for an event it knows.
StartRun(e, by) ==
    /\ e \in events
    /\ runs' = Append(runs, [event |-> e, by |-> by, step |-> "computing"])
    /\ UNCHANGED <<sessions, planned>>

\* ApiRecoveryInvoker posts to /recover.
Invoke(c) ==
    /\ At(c, "invoke")
    /\ StartRun(Message(c), "consumer")
    /\ call' = [call EXCEPT ![c] = Len(runs) + 1]
    /\ Goto(c, "waiting")
    /\ UNCHANGED <<topic, group, events, announcing, next, out, upsets>>

\* Mutant: the API answers and stores afterwards.
AnsweredEarly(c) ==
    /\ At(c, "waiting")
    /\ completed' = completed \cup {call[c]}
    /\ call' = [call EXCEPT ![c] = 0]
    /\ Goto(c, "commit")
    /\ UNCHANGED <<topic, group, events, announcing, next, api, requested, upsets>>

\* The response is in: recovery.completed is published and flushed, and a flush
\* that gives up does not raise either.
Answered(c) ==
    /\ At(c, "waiting")
    /\ runs[call[c]].step = "done"
    /\ completed' = completed \cup {call[c]}
    /\ call' = [call EXCEPT ![c] = 0]
    /\ Goto(c, "commit")
    /\ UNCHANGED <<topic, group, events, announcing, next, api, requested, upsets>>

\* The offset is committed; a consumer that lost the partition gets an error
\* for it and dies of that.
Commit(c) ==
    /\ At(c, "commit")
    /\ \/ owner = c /\ committed' = next[c] /\ Goto(c, "poll")
       \/ owner # c /\ Goto(c, "down") /\ UNCHANGED committed
    /\ UNCHANGED <<topic, owner, events, announcing, next, call, api, out, upsets>>

\* The consumer is gone, and so is its membership of the group.
Leave(c) ==
    /\ Goto(c, "down")
    /\ call' = [call EXCEPT ![c] = 0]
    /\ owner' = IF owner = c THEN "none" ELSE owner
    /\ UNCHANGED <<topic, committed, events, announcing, next, api, out>>

\* Any step may raise - the database, the API or the 60 s timeout of the call -
\* and nothing is committed: the exception ends the process, as a crash would.
Die(c) ==
    /\ ~At(c, "down")
    /\ Upset
    /\ Leave(c)

\* The call fails because the API dropped the recovery.
CallFails(c) ==
    /\ At(c, "waiting")
    /\ runs[call[c]].step = "dead"
    /\ Leave(c)
    /\ UNCHANGED upsets

\* Any other error of the insert is raised.  A message that is refused every time
\* ends every process that takes it, and is delivered again.
Refused(c) ==
    /\ At(c, "record")
    /\ Message(c) \in Unstorable
    /\ Leave(c)
    /\ UNCHANGED upsets

\* Cloud Run starts the process again.
Restart(c) ==
    /\ At(c, "down")
    /\ Goto(c, "poll")
    /\ UNCHANGED <<topic, group, events, announcing, next, call, api, out, upsets>>

\* Mutant: an assigned partition is read from its beginning.
AssignFromStart(c) ==
    /\ At(c, "poll")
    /\ owner' = c
    /\ next' = [next EXCEPT ![c] = 0]
    /\ UNCHANGED <<topic, committed, events, announcing, pc, call, api, out>>

\* A polling member is given the partition, from the group's offset on.
Assign(c) ==
    /\ At(c, "poll")
    /\ owner' = c
    /\ next' = [next EXCEPT ![c] = committed]
    /\ UNCHANGED <<topic, committed, events, announcing, pc, call, api, out>>

\* The partition is free ...
Join(c) == owner = "none" /\ Assign(c) /\ UNCHANGED upsets

\* ... or taken from a member that is leaving, or has not polled for too long
\* and goes on with its message not knowing.
Rebalance(c) == owner \notin {"none", c} /\ Upset /\ Assign(c)

-----------------------------------------------------------------------------
(* The API's recoveries                                                    *)

\* A client asks for a recovery of a recorded event, as often as it likes.
Recover(e) ==
    /\ Len(runs) < MaxRuns
    /\ StartRun(e, "client")
    /\ UNCHANGED <<topic, group, events, announcing, worker, out, upsets>>

RunStep(r, from, to) ==
    /\ runs[r].step = from
    /\ runs' = [runs EXCEPT ![r].step = to]
    /\ UNCHANGED <<topic, group, events, announcing, worker, out>>

\* The result is computed and streamed; the session row is inserted ...
StoreSession(r) ==
    /\ RunStep(r, "computing", "candidates")
    /\ sessions' = sessions \cup {r}
    /\ UNCHANGED <<planned, upsets>>

\* ... then, in a transaction of their own, its candidates ...
StoreCandidates(r) ==
    /\ RunStep(r, "candidates", "audit")
    /\ planned' = planned \cup {r}
    /\ UNCHANGED <<sessions, upsets>>

\* ... then the audit entry, and the response goes out.
FinishRun(r) ==
    /\ RunStep(r, "audit", "done")
    /\ UNCHANGED <<sessions, planned, upsets>>

\* The API instance dies, or the database refuses the next statement.
DropRun(r) ==
    /\ \E step \in {"computing", "candidates", "audit"} : RunStep(r, step, "dead")
    /\ Upset
    /\ UNCHANGED <<sessions, planned>>

-----------------------------------------------------------------------------

Handle(c) ==
    \/ Poll(c)
    \/ Record(c)
    \/ Refused(c)
    \/ Request(c)
    \/ Invoke(c)
    \/ Answered(c)
    \/ Commit(c)
    \/ CallFails(c)
    \/ Restart(c)

RunOn(r) == StoreSession(r) \/ StoreCandidates(r) \/ FinishRun(r)

Report ==
    \/ \E m \in (Events \ Posted) \cup {Junk} : Publish(m)
    \/ \E e \in Posted : Ingest(e) \/ Announce(e)

Next ==
    \/ Report
    \/ \E c \in Consumers : Handle(c) \/ Die(c) \/ Join(c) \/ Rebalance(c)
    \/ \E e \in Events : Recover(e)
    \/ \E r \in 1..Len(runs) : RunOn(r) \/ DropRun(r)

Spec == Init /\ [][Next]_vars

\* Cloud Run keeps one consumer alive, the group assigns a free partition, and
\* the API finishes or drops what it has begun.  No report is owed.
FairSpec ==
    /\ Spec
    /\ \A c \in Consumers : WF_vars(Handle(c))
    /\ WF_vars(\E c \in Consumers : Join(c))
    /\ WF_vars(\E r \in 1..Len(runs) : RunOn(r))

-----------------------------------------------------------------------------
(* Properties                                                              *)

PCs   == {"poll", "record", "request", "invoke", "waiting", "commit", "down"}
Steps == {"computing", "candidates", "audit", "done", "dead"}
Run   == [event : Events, by : {"consumer", "client"}, step : Steps]

\* Type invariant of the topic, the group, the tables and the processes.
TypeOK ==
    /\ topic \in Seq(Events \cup {Junk})
    /\ committed \in 0..Len(topic)
    /\ owner \in Consumers \cup {"none"}
    /\ events \subseteq Events \ (Strangers \cup Unstorable)
    /\ announcing \subseteq Posted
    /\ pc \in [Consumers -> PCs]
    /\ next \in [Consumers -> 0..Len(topic)]
    /\ call \in [Consumers -> 0..Len(runs)]
    /\ runs \in Seq(Run)
    /\ sessions \subseteq 1..Len(runs)
    /\ planned \subseteq sessions
    /\ requested \subseteq Events
    /\ completed \subseteq 1..Len(runs)
    /\ upsets \in Nat

\* An event is in the pipeline's past once it cannot be taken for new again.
Known(m) == m \in {Junk} \cup Strangers \cup events

\* No offset runs past an event that is not on record: whatever dies, whoever
\* commits, only junk and events of unknown productions are passed unrecorded; an
\* event the table refuses is not passed at all (handle, record_event).
PassedIsKnown == \A i \in 1..committed : Known(topic[i])

\* One delivery of an event plans it: redeliveries, duplicates on the topic, an
\* HTTP report of the same event and a second consumer on the same message do not.
PlannedOnce ==
    \A r, q \in 1..Len(runs) :
        runs[r].by = "consumer" /\ runs[q].by = "consumer"
            /\ runs[r].event = runs[q].event => r = q

\* What is announced can be looked up: a completed message names a session
\* whose candidates are stored, a requested one an event on record.
AnnouncedIsStored == completed \subseteq planned /\ requested \subseteq events

\* The group's offset never goes back, two consumers or not.
OffsetForward == [][committed' >= committed]_vars

\* The stored session of an event.
Recovered(m) == \E r \in sessions : runs[r].event = m

\* While nothing fails, an event of the topic is passed only after its recovery
\* session is stored.
UndisturbedIsRecovered ==
    upsets = 0 =>
        \A i \in 1..committed :
            topic[i] \in Events \ (Posted \cup Strangers) => Recovered(topic[i])

\* A message the table refuses stands at place i or before it.
Blocked(i) == \E j \in DOMAIN topic : j <= i /\ topic[j] \in Unstorable

\* Once failures end, every message is consumed, junk, duplicates and events of
\* unknown productions included, whoever died on it: one thing only stops what is
\* queued behind it, an event the database refuses each time (handle; the restart
\* "on a poisoned message" of run_forever).
Drained == \A i \in 1..MaxTopic : Len(topic) >= i ~> committed >= i \/ Blocked(i)

-----------------------------------------------------------------------------
(* What the documentation says and the code does not do                    *)

\* "Offsets advance only after a message has been fully handled and its recovery
\* session written": no event of the topic is passed without its session.
OffsetAfterSession ==
    \A i \in 1..committed : topic[i] \in Events \ Strangers => Recovered(topic[i])
=============================================================================
