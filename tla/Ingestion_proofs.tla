-------------------------- MODULE Ingestion_proofs --------------------------
(***************************************************************************)
(* Proofs about event ingestion, for any number of consumers, events,      *)
(* messages, recoveries and failures.                                      *)
(***************************************************************************)
EXTENDS Ingestion, TLAPS

\* A consumer that holds a message it has polled and not yet let go of.
Holding(c) == pc[c] \in {"record", "request", "invoke", "waiting", "commit"}

\* A consumer whose insert was the first, and who has not asked for a recovery.
Planning(c) == pc[c] \in {"request", "invoke"}

-----------------------------------------------------------------------------
(* What only grows                                                         *)

\* Messages stay where they are, rows stay, a recovery keeps its event and its
\* caller.
Grown ==
    /\ Len(topic') >= Len(topic)
    /\ \A i \in 1..Len(topic) : topic'[i] = topic[i]
    /\ events \subseteq events'
    /\ Len(runs') >= Len(runs)
    /\ \A r \in 1..Len(runs) : runs'[r].event = runs[r].event /\ runs'[r].by = runs[r].by
    /\ sessions \subseteq sessions'
    /\ planned \subseteq planned'
    /\ upsets' >= upsets

\* What the other consumers hold is theirs.
OthersRest(c) ==
    \A d \in Consumers \ {c} :
        pc'[d] = pc[d] /\ next'[d] = next[d] /\ call'[d] = call[d]

\* Putting one more message at the end.
LEMMA Appended ==
    ASSUME NEW S, NEW s \in Seq(S), NEW x \in S
    PROVE  /\ Append(s, x) \in Seq(S)
           /\ Len(Append(s, x)) = Len(s) + 1
           /\ \A i \in 1..Len(s) : Append(s, x)[i] = s[i]
           /\ Append(s, x)[Len(s) + 1] = x
OBVIOUS

\* One step of one recovery touches its step and nothing else.
LEMMA RunStepped ==
    ASSUME TypeOK, NEW r \in 1..Len(runs), NEW from \in Steps, NEW to \in Steps,
           RunStep(r, from, to)
    PROVE  /\ runs' \in Seq(Run)
           /\ Len(runs') = Len(runs)
           /\ \A q \in 1..Len(runs) :
                 /\ runs'[q].event = runs[q].event
                 /\ runs'[q].by = runs[q].by
                 /\ q # r => runs'[q].step = runs[q].step
           /\ runs[r].step = from
           /\ runs'[r].step = to
<1>1. runs \in Seq(Run)
    BY DEF TypeOK
<1>2. runs' = [runs EXCEPT ![r].step = to]
    BY DEF RunStep
<1>3. runs[r] \in Run
    BY <1>1
<1>4. [runs[r] EXCEPT !.step = to] \in Run
    BY <1>3 DEF Run
<1>5. runs' = [runs EXCEPT ![r] = [runs[r] EXCEPT !.step = to]]
    BY <1>2
<1>6. runs' \in Seq(Run) /\ Len(runs') = Len(runs)
    BY <1>1, <1>4, <1>5
<1>7. \A q \in 1..Len(runs) :
          runs'[q] = IF q = r THEN [runs[r] EXCEPT !.step = to] ELSE runs[q]
    BY <1>1, <1>5
<1> QED
    BY <1>3, <1>6, <1>7 DEF Run, RunStep

\* A new recovery.
LEMMA RunStarted ==
    ASSUME TypeOK, NEW e \in Events, NEW by \in {"consumer", "client"}, StartRun(e, by)
    PROVE  /\ runs' \in Seq(Run)
           /\ Len(runs') = Len(runs) + 1
           /\ \A q \in 1..Len(runs) : runs'[q] = runs[q]
           /\ runs'[Len(runs) + 1] = [event |-> e, by |-> by, step |-> "computing"]
           /\ e \in events
           /\ sessions' = sessions /\ planned' = planned
<1>1. [event |-> e, by |-> by, step |-> "computing"] \in Run
    BY DEF Run, Steps
<1>2. runs \in Seq(Run)
    BY DEF TypeOK
<1> QED
    BY <1>1, <1>2, Appended DEF StartRun

-----------------------------------------------------------------------------
(* The inductive invariant                                                 *)

\* What a consumer holds is a message it has polled; past the insert it is on
\* record or was skipped for good; and it waits for the recovery of that event.
Held ==
    \A c \in Consumers :
        /\ Holding(c) => next[c] \in 1..Len(topic)
        /\ At(c, "record") => Message(c) \in Events
        /\ Planning(c) => Message(c) \in events
        /\ At(c, "waiting") =>
              /\ call[c] \in 1..Len(runs)
              /\ runs[call[c]].event = Message(c)
        /\ At(c, "commit") => Known(Message(c))

\* The assigned consumer is exactly where the group's offset says.
Placed ==
    \A c \in Consumers :
        owner = c =>
            \/ At(c, "poll") /\ next[c] = committed
            \/ Holding(c) /\ next[c] = committed + 1

\* A recovery is of a recorded event and stores its parts in order.
RunsInOrder ==
    \A r \in 1..Len(runs) :
        /\ runs[r].event \in events
        /\ runs[r].step \in {"candidates", "audit", "done"} => r \in sessions
        /\ runs[r].step \in {"audit", "done"} => r \in planned

\* One event, one consumer that will plan it, and only until it is planned.
OnePlanner ==
    /\ \A c \in Consumers : Planning(c) =>
           \A r \in 1..Len(runs) : runs[r].by = "consumer" => runs[r].event # Message(c)
    /\ \A c, d \in Consumers :
           Planning(c) /\ Planning(d) /\ Message(c) = Message(d) => c = d

\* While nothing failed, only the assigned consumer is at work - a message refused
\* leaves the others down - and an event of the topic that is on record is recovered
\* or in its hands.
Undisturbed ==
    upsets = 0 =>
        /\ \A c \in Consumers : owner # c => At(c, "poll") \/ At(c, "down")
        /\ \A r \in 1..Len(runs) : runs[r].step # "dead"
        /\ \A e \in events \ Posted :
              \/ Recovered(e)
              \/ \E c \in Consumers : (Planning(c) \/ At(c, "waiting")) /\ Message(c) = e

IngestInv ==
    /\ TypeOK
    /\ Held
    /\ Placed
    /\ PassedIsKnown
    /\ RunsInOrder
    /\ AnnouncedIsStored
    /\ OnePlanner
    /\ PlannedOnce
    /\ Undisturbed
    /\ UndisturbedIsRecovered

LEMMA InvInit == Init => IngestInv
<1> SUFFICES ASSUME Init PROVE IngestInv
    OBVIOUS
<1>1. TypeOK
    BY DEF Init, TypeOK, PCs
<1>2. \A c \in Consumers : At(c, "poll") /\ ~Holding(c) /\ ~Planning(c)
    BY DEF Init, At, Holding, Planning
<1>3. committed = 0 /\ Len(runs) = 0 /\ events = {} /\ owner = "none"
    BY DEF Init
<1>4. Held /\ Placed /\ OnePlanner
    BY <1>2, <1>3 DEF Held, Placed, OnePlanner, Init, At
<1>5. PassedIsKnown /\ UndisturbedIsRecovered /\ RunsInOrder /\ PlannedOnce
    BY <1>3 DEF PassedIsKnown, UndisturbedIsRecovered, RunsInOrder, PlannedOnce
<1>6. AnnouncedIsStored /\ Undisturbed
    BY <1>2, <1>3 DEF AnnouncedIsStored, Undisturbed, Init
<1> QED
    BY <1>1, <1>4, <1>5, <1>6 DEF IngestInv

-----------------------------------------------------------------------------
(* What kinds of steps there are                                           *)

\* Somebody reports: the topic or the events table gains an entry.
Reported ==
    /\ UNCHANGED <<group, worker, api, out, upsets>>
    /\ events \subseteq events'
    /\ events' \subseteq events \cup (Posted \ (Strangers \cup Unstorable))
    /\ announcing' \subseteq Posted
    /\ topic' \in Seq(Events \cup {Junk})
    /\ Len(topic') >= Len(topic)
    /\ \A i \in 1..Len(topic) : topic'[i] = topic[i]

LEMMA ReportIsReported ==
    ASSUME TypeOK, Report
    PROVE  Reported
<1> USE EventsAssumption DEF TypeOK, Reported, group, worker, api, out
<1>1. ASSUME NEW m \in (Events \ Posted) \cup {Junk}, Publish(m)
      PROVE  Reported
    BY <1>1, Appended DEF Publish
<1>2. ASSUME NEW e \in Posted, Ingest(e)
      PROVE  Reported
    BY <1>2 DEF Ingest
<1>3. ASSUME NEW e \in Posted, Announce(e)
      PROVE  Reported
    <2>1. CASE topic' = topic
        BY <1>3, <2>1 DEF Announce
    <2>2. CASE topic' = Append(topic, e)
        BY <1>3, <2>2, Appended DEF Announce
    <2> QED
        BY <1>3, <2>1, <2>2 DEF Announce
<1> QED
    BY <1>1, <1>2, <1>3 DEF Report

\* The API works: only its tables, and the count of failures, may change.
Worked ==
    /\ UNCHANGED <<topic, group, events, announcing, worker, out>>
    /\ runs' \in Seq(Run)
    /\ Len(runs') >= Len(runs)
    /\ \A q \in 1..Len(runs) : runs'[q].event = runs[q].event /\ runs'[q].by = runs[q].by
    /\ \A q \in 1..Len(runs') \ 1..Len(runs) : runs'[q].by = "client"
    /\ sessions \subseteq sessions' /\ sessions' \subseteq 1..Len(runs')
    /\ planned \subseteq planned' /\ planned' \subseteq sessions'
    /\ upsets' \in Nat /\ upsets' >= upsets
    /\ upsets' = 0 => \A q \in 1..Len(runs') :
                         runs'[q].step = "dead" => q \in 1..Len(runs) /\ runs[q].step = "dead"
    /\ RunsInOrder'

APIStep ==
    \/ \E e \in Events : Recover(e)
    \/ \E r \in 1..Len(runs) : RunOn(r) \/ DropRun(r)

LEMMA APIStepIsWork ==
    ASSUME TypeOK, RunsInOrder, APIStep
    PROVE  Worked
<1> USE DEF TypeOK
<1>1. ASSUME NEW e \in Events, Recover(e)
      PROVE  Worked
    <2>1. StartRun(e, "client")
        BY <1>1 DEF Recover
    <2>2. UNCHANGED <<topic, committed, owner, events, announcing, pc, next, call,
                      requested, completed, upsets>>
        BY <1>1 DEF Recover, group, worker, out
    <2>3. /\ runs' \in Seq(Run)
          /\ Len(runs') = Len(runs) + 1
          /\ \A q \in 1..Len(runs) : runs'[q] = runs[q]
          /\ runs'[Len(runs) + 1] = [event |-> e, by |-> "client", step |-> "computing"]
          /\ e \in events
          /\ sessions' = sessions /\ planned' = planned
        BY <2>1, RunStarted
    <2>4. Len(runs) \in Nat /\ 1..Len(runs') = 1..Len(runs) \cup {Len(runs) + 1}
        BY <2>3
    <2>5. RunsInOrder'
        <3> SUFFICES ASSUME NEW q \in 1..Len(runs')
                     PROVE  /\ runs'[q].event \in events'
                            /\ runs'[q].step \in {"candidates", "audit", "done"} => q \in sessions'
                            /\ runs'[q].step \in {"audit", "done"} => q \in planned'
            BY DEF RunsInOrder
        <3>1. CASE q = Len(runs) + 1
            BY <2>2, <2>3, <3>1
        <3>2. CASE q \in 1..Len(runs)
            BY <2>2, <2>3, <3>2 DEF RunsInOrder
        <3> QED
            BY <2>4, <3>1, <3>2
    <2>6. \A q \in 1..Len(runs') \ 1..Len(runs) : runs'[q].by = "client"
        BY <2>3, <2>4
    <2>7. \A q \in 1..Len(runs') :
              runs'[q].step = "dead" => q \in 1..Len(runs) /\ runs[q].step = "dead"
        BY <2>3, <2>4
    <2> QED
        <3>1. runs' \in Seq(Run) /\ Len(runs') >= Len(runs)
            BY <2>3, <2>4
        <3>2. sessions' \subseteq 1..Len(runs') /\ planned' \subseteq sessions'
            BY <2>3, <2>4
        <3>3. \A q \in 1..Len(runs) : runs'[q].event = runs[q].event /\ runs'[q].by = runs[q].by
            BY <2>3
        <3> QED
            BY <2>2, <2>3, <2>5, <2>6, <2>7, <3>1, <3>2, <3>3 DEF Worked, group, worker, out
<1>2. ASSUME NEW r \in 1..Len(runs), NEW from \in {"computing", "candidates", "audit"},
             NEW to \in {"candidates", "audit", "done", "dead"}, RunStep(r, from, to),
             sessions' = IF to = "candidates" THEN sessions \cup {r} ELSE sessions,
             planned' = IF to = "audit" THEN planned \cup {r} ELSE planned,
             upsets' = IF to = "dead" THEN upsets + 1 ELSE upsets,
             <<from, to>> \in {<<"computing", "candidates">>, <<"candidates", "audit">>,
                               <<"audit", "done">>} \/ to = "dead"
      PROVE  Worked
    <2>1. UNCHANGED <<topic, committed, owner, events, announcing, pc, next, call,
                      requested, completed>>
        BY <1>2 DEF RunStep, group, worker, out
    <2>2. /\ runs' \in Seq(Run)
          /\ Len(runs') = Len(runs)
          /\ \A q \in 1..Len(runs) :
                /\ runs'[q].event = runs[q].event
                /\ runs'[q].by = runs[q].by
                /\ q # r => runs'[q].step = runs[q].step
          /\ runs[r].step = from
          /\ runs'[r].step = to
        BY <1>2, RunStepped DEF Steps
    <2>3. RunsInOrder'
        BY <1>2, <2>1, <2>2 DEF RunsInOrder
    <2>4. /\ sessions \subseteq sessions' /\ sessions' \subseteq 1..Len(runs')
          /\ planned \subseteq planned' /\ planned' \subseteq sessions'
        BY <1>2, <2>2 DEF RunsInOrder
    <2>5. /\ upsets' \in Nat /\ upsets' >= upsets
          /\ upsets' = 0 => to # "dead"
        BY <1>2
    <2>6. upsets' = 0 => \A q \in 1..Len(runs') :
              runs'[q].step = "dead" => q \in 1..Len(runs) /\ runs[q].step = "dead"
        BY <2>2, <2>5
    <2> QED
        BY <2>1, <2>2, <2>3, <2>4, <2>5, <2>6 DEF Worked, group, worker, out
<1>3. ASSUME NEW r \in 1..Len(runs), StoreSession(r)
      PROVE  Worked
    BY <1>2, <1>3 DEF StoreSession
<1>4. ASSUME NEW r \in 1..Len(runs), StoreCandidates(r)
      PROVE  Worked
    BY <1>2, <1>4 DEF StoreCandidates
<1>5. ASSUME NEW r \in 1..Len(runs), FinishRun(r)
      PROVE  Worked
    BY <1>2, <1>5 DEF FinishRun
<1>6. ASSUME NEW r \in 1..Len(runs), DropRun(r)
      PROVE  Worked
    BY <1>2, <1>6 DEF DropRun, Upset
<1> QED
    BY <1>1, <1>3, <1>4, <1>5, <1>6 DEF APIStep, RunOn

-----------------------------------------------------------------------------
(* Steps of others                                                         *)

\* A report puts messages behind what is there and rows next to what is there.
LEMMA ReportSafe ==
    ASSUME IngestInv, Report
    PROVE  IngestInv'
<1> USE DEF IngestInv
<1>1. Reported
    BY ReportIsReported
<1>2. UNCHANGED <<committed, owner, pc, next, call, runs, sessions, planned,
                  requested, completed, upsets>>
    BY <1>1 DEF Reported, group, worker, api, out
<1>3. /\ events \subseteq events' /\ events' \subseteq events \cup (Posted \ (Strangers \cup Unstorable))
      /\ Len(topic) \in Nat /\ Len(topic') \in Nat /\ Len(topic') >= Len(topic)
      /\ \A i \in 1..Len(topic) : topic'[i] = topic[i]
    BY <1>1 DEF Reported, TypeOK
<1>4. \A c \in Consumers :
          /\ Holding(c)' <=> Holding(c)
          /\ Planning(c)' <=> Planning(c)
          /\ \A step : At(c, step)' <=> At(c, step)
          /\ Planning(c) \/ At(c, "record") \/ At(c, "waiting") \/ At(c, "commit") => Holding(c)
    BY <1>2 DEF Holding, Planning, At
<1>5. \A c \in Consumers : Holding(c) => Message(c)' = Message(c)
    BY <1>2, <1>3 DEF Held, Message
<1>6. TypeOK'
    BY <1>1, <1>2, <1>3, EventsAssumption DEF Reported, TypeOK
<1>7. Held'
    BY <1>2, <1>3, <1>4, <1>5 DEF Held, Known
<1>8. Placed'
    BY <1>2, <1>4 DEF Placed
<1>9. PassedIsKnown'
    <2> SUFFICES ASSUME NEW i \in 1..committed'
                 PROVE  Known(topic[i])'
        BY DEF PassedIsKnown
    <2>1. i \in 1..committed /\ i \in 1..Len(topic)
        BY <1>2, <1>3 DEF TypeOK
    <2> QED
        BY <1>2, <1>3, <2>1 DEF PassedIsKnown, Known
<1>10. RunsInOrder' /\ AnnouncedIsStored' /\ PlannedOnce'
    BY <1>2, <1>3 DEF RunsInOrder, AnnouncedIsStored, PlannedOnce
<1>11. OnePlanner'
    BY <1>2, <1>4, <1>5 DEF OnePlanner
<1>12. \A e : Recovered(e)' <=> Recovered(e)
    BY <1>2 DEF Recovered
<1>13. Undisturbed'
    BY <1>2, <1>3, <1>4, <1>5, <1>12 DEF Undisturbed
<1>14. UndisturbedIsRecovered'
    <2> SUFFICES ASSUME upsets' = 0, NEW i \in 1..committed',
                        topic'[i] \in Events \ (Posted \cup Strangers)
                 PROVE  Recovered(topic[i])'
        BY DEF UndisturbedIsRecovered
    <2>1. upsets = 0 /\ i \in 1..committed
        BY <1>2
    <2>2. committed \in 0..Len(topic)
        BY DEF TypeOK
    <2>3. topic'[i] = topic[i]
        BY <1>3, <2>1, <2>2
    <2>4. Recovered(topic[i])
        BY <2>1, <2>3 DEF UndisturbedIsRecovered
    <2> QED
        BY <1>2, <2>3, <2>4 DEF Recovered
<1> QED
    BY <1>6, <1>7, <1>8, <1>9, <1>10, <1>11, <1>13, <1>14

\* The API adds recoveries and brings them forward; it takes nothing back.
LEMMA APISafe ==
    ASSUME IngestInv, APIStep
    PROVE  IngestInv'
<1> USE DEF IngestInv
<1>1. Worked
    BY APIStepIsWork
<1>2. UNCHANGED <<topic, committed, owner, events, announcing, pc, next, call,
                  requested, completed>>
    BY <1>1 DEF Worked, group, worker, out
<1>3. /\ Len(runs) \in Nat /\ Len(runs') \in Nat /\ Len(runs') >= Len(runs)
      /\ \A q \in 1..Len(runs) : runs'[q].event = runs[q].event /\ runs'[q].by = runs[q].by
      /\ \A q \in 1..Len(runs') \ 1..Len(runs) : runs'[q].by = "client"
      /\ sessions \subseteq sessions' /\ planned \subseteq planned'
    <2>1. runs \in Seq(Run) /\ runs' \in Seq(Run)
        BY <1>1 DEF Worked, TypeOK
    <2> QED
        BY <1>1, <2>1 DEF Worked
<1>4. \A c \in Consumers :
          /\ Holding(c)' <=> Holding(c)
          /\ Planning(c)' <=> Planning(c)
          /\ Message(c)' = Message(c)
          /\ \A step : At(c, step)' <=> At(c, step)
    BY <1>2 DEF Holding, Planning, At, Message
<1>5. TypeOK'
    BY <1>1, <1>2, <1>3 DEF Worked, TypeOK
<1>6. Held'
    BY <1>2, <1>3, <1>4 DEF Held, Known
<1>7. Placed' /\ PassedIsKnown'
    BY <1>2, <1>4 DEF Placed, PassedIsKnown, Known
<1>8. RunsInOrder' /\ AnnouncedIsStored'
    BY <1>1, <1>2, <1>3 DEF Worked, AnnouncedIsStored
<1>9. OnePlanner'
    BY <1>3, <1>4 DEF OnePlanner
<1>10. PlannedOnce'
    BY <1>3 DEF PlannedOnce
<1>11. \A e : Recovered(e) => Recovered(e)'
    BY <1>3 DEF Recovered, TypeOK
<1>12. upsets' = 0 => upsets = 0
    BY <1>1 DEF Worked, TypeOK
<1>13. Undisturbed'
    BY <1>1, <1>2, <1>4, <1>11, <1>12 DEF Undisturbed, Worked
<1>14. UndisturbedIsRecovered'
    BY <1>2, <1>11, <1>12 DEF UndisturbedIsRecovered
<1> QED
    BY <1>5, <1>6, <1>7, <1>8, <1>9, <1>10, <1>13, <1>14

-----------------------------------------------------------------------------
(* Steps of a consumer                                                     *)

\* Whoever does not step is at the same place, with the same message.
LEMMA OthersKeep ==
    ASSUME NEW c \in Consumers, OthersRest(c), topic' = topic
    PROVE  \A d \in Consumers \ {c} :
               /\ Holding(d)' <=> Holding(d)
               /\ Planning(d)' <=> Planning(d)
               /\ Message(d)' = Message(d)
               /\ \A step : At(d, step)' <=> At(d, step)
BY DEF OthersRest, Holding, Planning, Message, At

\* What a step that leaves the API's tables alone cannot disturb.
LEMMA TablesKeep ==
    ASSUME RunsInOrder, PlannedOnce, runs' = runs, sessions' = sessions,
           planned' = planned, events \subseteq events'
    PROVE  /\ RunsInOrder' /\ PlannedOnce'
           /\ \A e : Recovered(e)' <=> Recovered(e)
BY DEF RunsInOrder, PlannedOnce, Recovered

\* A step of c that changes neither the topic, the offset, the tables nor what
\* is announced, and leaves c with nothing to plan it had not before.
Idled(c) ==
    /\ OthersRest(c)
    /\ UNCHANGED <<topic, committed, events, announcing, runs, sessions, planned,
                   requested, completed>>
    /\ ~Planning(c)' /\ ~At(c, "record")' /\ ~At(c, "waiting")'

LEMMA IdledSafe ==
    ASSUME IngestInv, NEW c \in Consumers, Idled(c), TypeOK', Placed', Undisturbed',
           upsets' = 0 => upsets = 0,
           Holding(c)' => next'[c] \in 1..Len(topic) /\ Known(topic[next'[c]])
    PROVE  IngestInv'
<1> USE DEF IngestInv
<1>1. UNCHANGED <<topic, committed, events, runs, sessions, planned, requested, completed>>
    BY DEF Idled
<1>2. \A d \in Consumers \ {c} :
          /\ Holding(d)' <=> Holding(d)
          /\ Planning(d)' <=> Planning(d)
          /\ Message(d)' = Message(d)
          /\ \A step : At(d, step)' <=> At(d, step)
          /\ next'[d] = next[d] /\ call'[d] = call[d]
    BY <1>1, OthersKeep DEF Idled, OthersRest
<1>3. Held'
    <2> SUFFICES ASSUME NEW d \in Consumers
                 PROVE  /\ Holding(d)' => next'[d] \in 1..Len(topic')
                        /\ At(d, "record")' => Message(d)' \in Events
                        /\ Planning(d)' => Message(d)' \in events'
                        /\ At(d, "waiting")' =>
                              /\ call'[d] \in 1..Len(runs')
                              /\ runs'[call'[d]].event = Message(d)'
                        /\ At(d, "commit")' => Known(Message(d))'
        BY DEF Held
    <2>1. CASE d = c
        <3>1. At(c, "commit")' => Holding(c)'
            BY DEF At, Holding
        <3> QED
            BY <1>1, <2>1, <3>1 DEF Idled, Message, Known
    <2>2. CASE d # c
        BY <1>1, <1>2, <2>2 DEF Held, Known
    <2> QED
        BY <2>1, <2>2
<1>4. PassedIsKnown' /\ AnnouncedIsStored'
    BY <1>1 DEF PassedIsKnown, Known, AnnouncedIsStored
<1>5. OnePlanner'
    BY <1>1, <1>2 DEF OnePlanner, Idled
<1>6. RunsInOrder' /\ PlannedOnce' /\ \A e : Recovered(e)' <=> Recovered(e)
    BY <1>1, TablesKeep
<1>7. UndisturbedIsRecovered'
    BY <1>1, <1>6 DEF UndisturbedIsRecovered
<1> QED
    BY <1>3, <1>4, <1>5, <1>6, <1>7

\* The consumer dies, and whatever it held is the next owner's to read again.
LEMMA LeaveSafe ==
    ASSUME IngestInv, NEW c \in Consumers, Leave(c), upsets' \in Nat, upsets' >= upsets,
           upsets' > 0 \/ At(c, "record")
    PROVE  IngestInv'
<1> USE DEF IngestInv
<1>1. /\ At(c, "down")' /\ OthersRest(c)
      /\ owner' # c /\ (owner' = owner \/ owner' = "none")
    BY ConsumersAssumption DEF Leave, Goto, At, OthersRest, TypeOK
<1>2. Idled(c) /\ ~Holding(c)'
    BY <1>1 DEF Leave, Idled, Planning, Holding, At, api, out
<1>3. TypeOK'
    BY <1>1 DEF Leave, Goto, TypeOK, PCs, api, out
<1>4. Placed'
    BY <1>1, <1>2, OthersKeep, ConsumersAssumption DEF Placed, Idled, OthersRest
<1>5. Undisturbed'
    <2> SUFFICES ASSUME upsets' = 0
                 PROVE  Undisturbed'
        BY DEF Undisturbed
    <2>1. upsets = 0 /\ At(c, "record") /\ owner = c
        <3>1. upsets = 0 /\ At(c, "record")
            BY DEF TypeOK
        <3>2. ~At(c, "poll") /\ ~At(c, "down")
            BY <3>1 DEF At
        <3> QED
            BY <3>1, <3>2 DEF Undisturbed
    <2>2. \A d \in Consumers \ {c} :
              /\ At(d, "poll") \/ At(d, "down")
              /\ At(d, "poll")' \/ At(d, "down")'
        BY <1>1, <2>1 DEF Undisturbed, OthersRest, At
    <2>3. \A d \in Consumers : ~Planning(d) /\ ~At(d, "waiting")
        BY <2>1, <2>2 DEF Planning, At
    <2>4. UNCHANGED <<events, runs, sessions>>
        BY DEF Leave, api
    <2>5. \A e : Recovered(e) => Recovered(e)'
        BY <2>4 DEF Recovered
    <2> QED
        BY <1>1, <2>1, <2>2, <2>3, <2>4, <2>5 DEF Undisturbed
<1>6. upsets' = 0 => upsets = 0
    BY DEF TypeOK
<1> QED
    BY <1>2, <1>3, <1>4, <1>5, <1>6, IdledSafe

LEMMA RestartSafe ==
    ASSUME IngestInv, NEW c \in Consumers, Restart(c)
    PROVE  IngestInv'
<1> USE DEF IngestInv
<1>1. /\ At(c, "down") /\ At(c, "poll")' /\ OthersRest(c)
      /\ UNCHANGED <<topic, committed, owner, events, announcing, next, call, runs,
                      sessions, planned, requested, completed, upsets>>
    BY DEF Restart, Goto, At, OthersRest, TypeOK, group, api, out
<1>2. Idled(c) /\ ~Holding(c)'
    BY <1>1 DEF Idled, Planning, Holding, At
<1>3. TypeOK'
    BY <1>1 DEF Restart, Goto, TypeOK, PCs
<1>4. owner # c
    BY <1>1 DEF Placed, At, Holding
<1>5. Placed'
    BY <1>1, <1>2, <1>4, OthersKeep DEF Placed, OthersRest
<1>6. \A d \in Consumers :
          /\ Planning(d)' <=> Planning(d)
          /\ At(d, "waiting")' <=> At(d, "waiting")
          /\ Message(d)' = Message(d)
          /\ At(d, "poll") \/ At(d, "down") => At(d, "poll")' \/ At(d, "down")'
    BY <1>1 DEF OthersRest, Planning, Message, At
<1>7. Undisturbed'
    BY <1>1, <1>6 DEF Undisturbed, Recovered
<1> QED
    BY <1>1, <1>2, <1>3, <1>5, <1>7, IdledSafe

\* The partition changes hands, at the offset the group has committed.
LEMMA AssignSafe ==
    ASSUME IngestInv, NEW c \in Consumers, Assign(c), upsets' \in Nat, upsets' >= upsets,
           owner = "none" \/ upsets' > 0
    PROVE  IngestInv'
<1> USE DEF IngestInv
<1>1. /\ At(c, "poll") /\ At(c, "poll")' /\ OthersRest(c)
      /\ owner' = c /\ next'[c] = committed
      /\ UNCHANGED <<topic, committed, events, announcing, runs, sessions, planned,
                      requested, completed>>
    BY DEF Assign, At, OthersRest, TypeOK, api, out
<1>2. Idled(c) /\ ~Holding(c)'
    BY <1>1 DEF Idled, Planning, Holding, At
<1>3. TypeOK'
    BY <1>1 DEF Assign, TypeOK, api, out
<1>4. Placed'
    BY <1>1 DEF Placed
<1>5. Undisturbed'
    <2> SUFFICES ASSUME upsets' = 0
                 PROVE  Undisturbed'
        BY DEF Undisturbed
    <2>1. upsets = 0 /\ \A d \in Consumers : At(d, "poll") \/ At(d, "down")
        BY <1>1, ConsumersAssumption DEF Undisturbed, TypeOK
    <2>2. \A d \in Consumers : ~Planning(d) /\ ~At(d, "waiting")
        BY <2>1 DEF Planning, At
    <2>3. \A d \in Consumers : At(d, "poll")' \/ At(d, "down")'
        BY <1>1, <2>1 DEF OthersRest, At
    <2>4. \A e : Recovered(e) => Recovered(e)'
        BY <1>1 DEF Recovered
    <2> QED
        BY <1>1, <2>1, <2>2, <2>3, <2>4 DEF Undisturbed
<1>6. upsets' = 0 => upsets = 0
    BY DEF TypeOK
<1> QED
    BY <1>1, <1>2, <1>3, <1>4, <1>5, <1>6, IdledSafe

\* The next message is in hand; what is no envelope is passed over.
LEMMA PollSafe ==
    ASSUME IngestInv, NEW c \in Consumers, Poll(c)
    PROVE  IngestInv'
<1> USE DEF IngestInv
<1>1. /\ At(c, "poll") /\ owner = c /\ OthersRest(c)
      /\ next'[c] = next[c] + 1 /\ next'[c] \in 1..Len(topic)
      /\ pc'[c] = IF topic[next[c] + 1] = Junk THEN "commit" ELSE "record"
      /\ UNCHANGED <<topic, committed, owner, events, announcing, call, runs, sessions,
                      planned, requested, completed, upsets>>
    BY DEF Poll, Goto, At, OthersRest, TypeOK, group, api, out
<1>2. /\ topic[next'[c]] \in Events \cup {Junk}
      /\ Message(c)' = topic[next'[c]]
      /\ pc'[c] = IF Message(c)' = Junk THEN "commit" ELSE "record"
    BY <1>1 DEF Message, TypeOK
<1>3. \A d \in Consumers \ {c} :
          /\ Holding(d)' <=> Holding(d)
          /\ Planning(d)' <=> Planning(d)
          /\ Message(d)' = Message(d)
          /\ \A step : At(d, step)' <=> At(d, step)
          /\ next'[d] = next[d] /\ call'[d] = call[d]
    BY <1>1, OthersKeep DEF OthersRest
<1>4. Holding(c)' /\ ~Planning(c)' /\ ~At(c, "waiting")' /\ ~Planning(c) /\ ~At(c, "waiting")
    BY <1>1 DEF Holding, Planning, At
<1>5. TypeOK'
    BY <1>1 DEF Poll, Goto, TypeOK, PCs
<1>6. Held'
  <2> DEFINE HeldBy(d) == /\ Holding(d) => next[d] \in 1..Len(topic)
                          /\ At(d, "record") => Message(d) \in Events
                          /\ Planning(d) => Message(d) \in events
                          /\ At(d, "waiting") => /\ call[d] \in 1..Len(runs)
                                                /\ runs[call[d]].event = Message(d)
                          /\ At(d, "commit") => Known(Message(d))
  <2>1. HeldBy(c)'
    BY <1>1, <1>2, <1>4 DEF Known, At
  <2>2. ASSUME NEW d \in Consumers \ {c} PROVE HeldBy(d)'
    <3>1. HeldBy(d)
      BY DEF Held
    <3>2. \A e : Known(e)' <=> Known(e)
      BY <1>1 DEF Known
    <3> QED
      BY <1>1, <1>3, <3>1, <3>2
  <2> QED
    BY <2>1, <2>2 DEF Held
<1>7. Placed'
    BY <1>1, <1>3, <1>4, ConsumersAssumption DEF Placed, At, Holding
<1>8. PassedIsKnown' /\ AnnouncedIsStored'
    BY <1>1 DEF PassedIsKnown, Known, AnnouncedIsStored
<1>9. OnePlanner'
    BY <1>1, <1>3, <1>4 DEF OnePlanner
<1>10. RunsInOrder' /\ PlannedOnce' /\ \A e : Recovered(e)' <=> Recovered(e)
    BY <1>1, TablesKeep
<1>11. Undisturbed'
    BY <1>1, <1>3, <1>4, <1>10 DEF Undisturbed
<1>12. UndisturbedIsRecovered'
    BY <1>1, <1>10 DEF UndisturbedIsRecovered
<1> QED
    BY <1>5, <1>6, <1>7, <1>8, <1>9, <1>10, <1>11, <1>12

\* The insert decides: the first one plans, every other passes the message by.
LEMMA RecordSafe ==
    ASSUME IngestInv, NEW c \in Consumers, Record(c)
    PROVE  IngestInv'
<1> USE DEF IngestInv
<1>1. /\ At(c, "record") /\ OthersRest(c) /\ next'[c] = next[c]
      /\ Message(c) \in Events
      /\ UNCHANGED <<topic, committed, owner, announcing, next, call, runs, sessions,
                      planned, requested, completed, upsets>>
    BY DEF Record, Goto, At, OthersRest, TypeOK, group, api, out, Held
<1>2. \/ /\ Message(c) \notin events \cup Strangers
         /\ events' = events \cup {Message(c)}
         /\ pc'[c] = "request"
      \/ /\ Known(Message(c))
         /\ events' = events
         /\ pc'[c] = "commit"
    BY DEF Record, Goto, At, TypeOK, Known
<1>3. \A d \in Consumers \ {c} :
          /\ Holding(d)' <=> Holding(d)
          /\ Planning(d)' <=> Planning(d)
          /\ Message(d)' = Message(d)
          /\ \A step : At(d, step)' <=> At(d, step)
          /\ next'[d] = next[d] /\ call'[d] = call[d]
    BY <1>1, OthersKeep DEF OthersRest
<1>4. /\ Message(c)' = Message(c)
      /\ Holding(c) /\ Holding(c)'
      /\ ~Planning(c) /\ ~At(c, "waiting") /\ ~At(c, "waiting")'
      /\ Planning(c)' => pc'[c] = "request"
    BY <1>1, <1>2 DEF Message, Holding, Planning, At
<1>5. events \subseteq events'
    BY <1>2
<1>6. TypeOK'
    BY <1>1, <1>2 DEF Record, Goto, TypeOK, PCs
<1>7. Held'
    BY <1>1, <1>2, <1>3, <1>4, <1>5 DEF Held, Known, At
<1>8. Placed'
    BY <1>1, <1>3, <1>4 DEF Placed, Holding, At
<1>9. PassedIsKnown' /\ AnnouncedIsStored'
    BY <1>1, <1>5 DEF PassedIsKnown, Known, AnnouncedIsStored
<1>10. \A r \in 1..Len(runs) : runs[r].event \in events
    BY DEF RunsInOrder
<1>11. \A d \in Consumers : Planning(d) => Message(d) \in events
    BY DEF Held
<1>12. OnePlanner'
    BY <1>1, <1>2, <1>3, <1>4, <1>10, <1>11 DEF OnePlanner
<1>13. RunsInOrder' /\ PlannedOnce' /\ \A e : Recovered(e)' <=> Recovered(e)
    BY <1>1, <1>5, TablesKeep
<1>14. Undisturbed'
    BY <1>1, <1>2, <1>3, <1>4, <1>13 DEF Undisturbed, Planning, At
<1>15. UndisturbedIsRecovered'
    BY <1>1, <1>13 DEF UndisturbedIsRecovered
<1> QED
    BY <1>6, <1>7, <1>8, <1>9, <1>12, <1>13, <1>14, <1>15

LEMMA RequestSafe ==
    ASSUME IngestInv, NEW c \in Consumers, Request(c)
    PROVE  IngestInv'
<1> USE DEF IngestInv
<1>1. /\ At(c, "request") /\ pc'[c] = "invoke" /\ OthersRest(c) /\ next'[c] = next[c]
      /\ Message(c) \in events
      /\ requested' = requested \cup {Message(c)}
      /\ UNCHANGED <<topic, committed, owner, events, announcing, next, call, runs, sessions,
                      planned, completed, upsets>>
    BY DEF Request, Goto, At, OthersRest, TypeOK, group, api, Held, Planning
<1>2. \A d \in Consumers \ {c} :
          /\ Holding(d)' <=> Holding(d)
          /\ Planning(d)' <=> Planning(d)
          /\ Message(d)' = Message(d)
          /\ \A step : At(d, step)' <=> At(d, step)
          /\ next'[d] = next[d] /\ call'[d] = call[d]
    BY <1>1, OthersKeep DEF OthersRest
<1>3. /\ Message(c)' = Message(c)
      /\ Holding(c) /\ Holding(c)' /\ Planning(c) /\ Planning(c)'
      /\ ~At(c, "waiting") /\ ~At(c, "waiting")'
    BY <1>1 DEF Message, Holding, Planning, At
<1>4. TypeOK'
    BY <1>1 DEF Request, Goto, TypeOK, PCs
<1>5. Held'
    BY <1>1, <1>2, <1>3 DEF Held, Known, At
<1>6. Placed'
    BY <1>1, <1>2, <1>3 DEF Placed, Holding, At
<1>7. PassedIsKnown' /\ AnnouncedIsStored'
    BY <1>1 DEF PassedIsKnown, Known, AnnouncedIsStored
<1>8. OnePlanner'
    BY <1>1, <1>2, <1>3 DEF OnePlanner
<1>9. RunsInOrder' /\ PlannedOnce' /\ \A e : Recovered(e)' <=> Recovered(e)
    BY <1>1, TablesKeep
<1>10. Undisturbed'
    BY <1>1, <1>2, <1>3, <1>9 DEF Undisturbed, At
<1>11. UndisturbedIsRecovered'
    BY <1>1, <1>9 DEF UndisturbedIsRecovered
<1> QED
    BY <1>4, <1>5, <1>6, <1>7, <1>8, <1>9, <1>10, <1>11

\* The call starts the one recovery that the first insert entitles to.
LEMMA InvokeSafe ==
    ASSUME IngestInv, NEW c \in Consumers, Invoke(c)
    PROVE  IngestInv'
<1> USE DEF IngestInv
<1> DEFINE m == Message(c)
           n == Len(runs) + 1
<1>1. /\ At(c, "invoke") /\ pc'[c] = "waiting" /\ OthersRest(c) /\ next'[c] = next[c]
      /\ m \in events /\ m \in Events
      /\ call'[c] = n
      /\ UNCHANGED <<topic, committed, owner, events, announcing, next, requested,
                      completed, upsets>>
    BY DEF Invoke, Goto, At, OthersRest, TypeOK, group, out, Held, Planning
<1>2. \A d \in Consumers \ {c} :
          /\ Holding(d)' <=> Holding(d)
          /\ Planning(d)' <=> Planning(d)
          /\ Message(d)' = Message(d)
          /\ \A step : At(d, step)' <=> At(d, step)
          /\ next'[d] = next[d] /\ call'[d] = call[d]
    BY <1>1, OthersKeep DEF OthersRest
<1>3. /\ runs' \in Seq(Run)
      /\ Len(runs') = n
      /\ \A q \in 1..Len(runs) : runs'[q] = runs[q]
      /\ runs'[n] = [event |-> m, by |-> "consumer", step |-> "computing"]
      /\ sessions' = sessions /\ planned' = planned
    BY <1>1, RunStarted DEF Invoke
<1>4. Len(runs) \in Nat /\ 1..Len(runs') = 1..Len(runs) \cup {n} /\ n \notin 1..Len(runs)
    BY <1>3 DEF TypeOK
<1>5. /\ Message(c)' = m
      /\ Holding(c) /\ Holding(c)' /\ Planning(c) /\ ~Planning(c)'
      /\ At(c, "waiting")' /\ ~At(c, "record")' /\ ~At(c, "commit")'
    BY <1>1 DEF Message, Holding, Planning, At
<1>6. TypeOK'
    <2>1. call' \in [Consumers -> 0..Len(runs')]
        BY <1>3, <1>4 DEF Invoke, TypeOK
    <2>2. pc' \in [Consumers -> PCs]
        BY DEF Invoke, Goto, TypeOK, PCs
    <2>3. sessions' \subseteq 1..Len(runs') /\ completed' \subseteq 1..Len(runs')
        BY <1>1, <1>3, <1>4 DEF TypeOK
    <2> QED
        BY <1>1, <1>3, <2>1, <2>2, <2>3 DEF TypeOK
<1>7. Held'
    <2>1. ASSUME NEW d \in Consumers \ {c}, At(d, "waiting")'
          PROVE  call'[d] \in 1..Len(runs') /\ runs'[call'[d]].event = Message(d)'
        <3>1. call[d] \in 1..Len(runs) /\ runs[call[d]].event = Message(d)
            BY <1>2, <2>1 DEF Held
        <3> QED
            BY <1>2, <1>3, <1>4, <3>1
    <2>2. call'[c] \in 1..Len(runs') /\ runs'[call'[c]].event = Message(c)'
        BY <1>1, <1>3, <1>4, <1>5
    <2> QED
        BY <1>1, <1>2, <1>5, <2>1, <2>2 DEF Held, Known
<1>8. Placed'
    BY <1>1, <1>2, <1>5 DEF Placed, Holding, At
<1>9. PassedIsKnown' /\ AnnouncedIsStored'
    BY <1>1, <1>3 DEF PassedIsKnown, Known, AnnouncedIsStored
<1>10. RunsInOrder'
    <2>1. ASSUME NEW r \in 1..Len(runs')
          PROVE  /\ runs'[r].event \in events'
                 /\ runs'[r].step \in {"candidates", "audit", "done"} => r \in sessions'
                 /\ runs'[r].step \in {"audit", "done"} => r \in planned'
        <3>1. CASE r = n
            BY <1>1, <1>3, <3>1
        <3>2. CASE r \in 1..Len(runs)
            BY <1>1, <1>3, <3>2 DEF RunsInOrder
        <3> QED
            BY <1>4, <3>1, <3>2
    <2> QED
        BY <2>1 DEF RunsInOrder
<1>11. \A r \in 1..Len(runs) : runs[r].by = "consumer" => runs[r].event # m
    BY <1>5 DEF OnePlanner
<1>12. PlannedOnce'
    <2> SUFFICES ASSUME NEW r \in 1..Len(runs'), NEW q \in 1..Len(runs'),
                        runs'[r].by = "consumer", runs'[q].by = "consumer",
                        runs'[r].event = runs'[q].event
                 PROVE  r = q
        BY DEF PlannedOnce
    <2>1. CASE r = n /\ q \in 1..Len(runs)
        BY <1>3, <1>11, <2>1
    <2>2. CASE q = n /\ r \in 1..Len(runs)
        BY <1>3, <1>11, <2>2
    <2>3. CASE r \in 1..Len(runs) /\ q \in 1..Len(runs)
        BY <1>3, <2>3 DEF PlannedOnce
    <2> QED
        BY <1>4, <2>1, <2>2, <2>3
<1>13. OnePlanner'
    <2>1. ASSUME NEW d \in Consumers, Planning(d)'
          PROVE  /\ d # c /\ Planning(d) /\ Message(d)' = Message(d) /\ Message(d) # m
        BY <1>2, <1>5, <2>1 DEF OnePlanner
    <2>2. ASSUME NEW d \in Consumers, Planning(d)', NEW r \in 1..Len(runs'),
                 runs'[r].by = "consumer"
          PROVE  runs'[r].event # Message(d)'
        <3>1. CASE r = n
            BY <1>3, <2>1, <2>2, <3>1
        <3>2. CASE r \in 1..Len(runs)
            BY <1>3, <2>1, <2>2, <3>2 DEF OnePlanner
        <3> QED
            BY <1>4, <3>1, <3>2
    <2>3. ASSUME NEW d \in Consumers, NEW e \in Consumers, Planning(d)', Planning(e)',
                 Message(d)' = Message(e)'
          PROVE  d = e
        BY <2>1, <2>3 DEF OnePlanner
    <2> QED
        BY <2>2, <2>3 DEF OnePlanner
<1>14. \A e : Recovered(e) => Recovered(e)'
    BY <1>3 DEF Recovered, TypeOK
<1>15. Undisturbed'
    <2> SUFFICES ASSUME upsets' = 0
                 PROVE  Undisturbed'
        BY DEF Undisturbed
    <2>1. upsets = 0
        BY <1>1
    <2>2. \A d \in Consumers : owner' # d => At(d, "poll")' \/ At(d, "down")'
        BY <1>1, <1>2, <2>1 DEF Undisturbed, At
    <2>3. \A r \in 1..Len(runs') : runs'[r].step # "dead"
        BY <1>3, <1>4, <2>1 DEF Undisturbed
    <2>4. ASSUME NEW e \in events' \ Posted
          PROVE  \/ Recovered(e)'
                 \/ \E d \in Consumers :
                        (Planning(d)' \/ At(d, "waiting")') /\ Message(d)' = e
        BY <1>1, <1>2, <1>5, <1>14, <2>1 DEF Undisturbed
    <2> QED
        BY <2>2, <2>3, <2>4 DEF Undisturbed
<1>16. UndisturbedIsRecovered'
    BY <1>1, <1>14 DEF UndisturbedIsRecovered
<1> QED
    BY <1>6, <1>7, <1>8, <1>9, <1>10, <1>12, <1>13, <1>15, <1>16

\* The answer comes after the session and its candidates are stored.
LEMMA AnsweredSafe ==
    ASSUME IngestInv, NEW c \in Consumers, Answered(c)
    PROVE  IngestInv'
<1> USE DEF IngestInv
<1>1. /\ At(c, "waiting") /\ pc'[c] = "commit" /\ OthersRest(c) /\ next'[c] = next[c]
      /\ call[c] \in 1..Len(runs) /\ runs[call[c]].step = "done"
      /\ runs[call[c]].event = Message(c)
      /\ completed' = completed \cup {call[c]}
      /\ UNCHANGED <<topic, committed, owner, events, announcing, next, runs, sessions,
                      planned, requested, upsets>>
    BY DEF Answered, Goto, At, OthersRest, TypeOK, group, api, Held
<1>2. \A d \in Consumers \ {c} :
          /\ Holding(d)' <=> Holding(d)
          /\ Planning(d)' <=> Planning(d)
          /\ Message(d)' = Message(d)
          /\ \A step : At(d, step)' <=> At(d, step)
          /\ next'[d] = next[d] /\ call'[d] = call[d]
    BY <1>1, OthersKeep DEF OthersRest
<1>3. /\ Message(c)' = Message(c)
      /\ Holding(c) /\ Holding(c)' /\ ~Planning(c) /\ ~Planning(c)'
      /\ ~At(c, "waiting")' /\ ~At(c, "record")'
    BY <1>1 DEF Message, Holding, Planning, At
<1>4. Message(c) \in events /\ call[c] \in sessions /\ call[c] \in planned
    BY <1>1 DEF RunsInOrder
<1>5. TypeOK'
    <2>1. pc' \in [Consumers -> PCs]
        BY DEF Answered, Goto, TypeOK, PCs
    <2>2. call' \in [Consumers -> 0..Len(runs')]
        BY <1>1 DEF Answered, TypeOK
    <2>3. completed' \subseteq 1..Len(runs')
        BY <1>1 DEF TypeOK
    <2> QED
        BY <1>1, <2>1, <2>2, <2>3 DEF TypeOK
<1>6. Held'
    BY <1>1, <1>2, <1>3, <1>4 DEF Held, Known, At
<1>7. Placed'
    BY <1>1, <1>2, <1>3 DEF Placed, Holding, At
<1>8. PassedIsKnown' /\ AnnouncedIsStored'
    BY <1>1, <1>4 DEF PassedIsKnown, Known, AnnouncedIsStored
<1>9. OnePlanner'
    BY <1>1, <1>2, <1>3 DEF OnePlanner
<1>10. RunsInOrder' /\ PlannedOnce' /\ \A e : Recovered(e)' <=> Recovered(e)
    BY <1>1, TablesKeep
<1>11. Recovered(Message(c))
    BY <1>1, <1>4 DEF Recovered
<1>12. Undisturbed'
    <2> SUFFICES ASSUME upsets = 0
                 PROVE  Undisturbed'
        BY <1>1 DEF Undisturbed
    <2>1. \A d \in Consumers : owner' # d => At(d, "poll")' \/ At(d, "down")'
        <3>1. owner = c
            BY <1>1 DEF Undisturbed, At
        <3>2. \A d \in Consumers \ {c} : At(d, "poll") \/ At(d, "down")
            BY <3>1 DEF Undisturbed
        <3> QED
            BY <1>1, <1>2, <3>1, <3>2
    <2>2. \A r \in 1..Len(runs') : runs'[r].step # "dead"
        BY <1>1 DEF Undisturbed
    <2>3. ASSUME NEW e \in events' \ Posted
          PROVE  \/ Recovered(e)'
                 \/ \E d \in Consumers :
                        (Planning(d)' \/ At(d, "waiting")') /\ Message(d)' = e
        <3>1. CASE e = Message(c)
            BY <1>10, <1>11, <3>1
        <3>2. CASE e # Message(c)
            BY <1>1, <1>2, <1>10, <3>2 DEF Undisturbed
        <3> QED
            BY <3>1, <3>2
    <2> QED
        BY <2>1, <2>2, <2>3 DEF Undisturbed
<1>13. UndisturbedIsRecovered'
    BY <1>1, <1>10 DEF UndisturbedIsRecovered
<1> QED
    BY <1>5, <1>6, <1>7, <1>8, <1>9, <1>10, <1>12, <1>13

\* The offset moves past one message, and that one is known.
LEMMA CommitSafe ==
    ASSUME IngestInv, NEW c \in Consumers, Commit(c)
    PROVE  IngestInv'
<1> USE DEF IngestInv
<1>1. /\ At(c, "commit") /\ OthersRest(c) /\ next'[c] = next[c]
      /\ UNCHANGED <<topic, owner, events, announcing, next, call, runs, sessions,
                      planned, requested, completed, upsets>>
    BY DEF Commit, Goto, At, OthersRest, TypeOK, api, out
<1>2. \A d \in Consumers \ {c} :
          /\ Holding(d)' <=> Holding(d)
          /\ Planning(d)' <=> Planning(d)
          /\ Message(d)' = Message(d)
          /\ \A step : At(d, step)' <=> At(d, step)
          /\ next'[d] = next[d] /\ call'[d] = call[d]
    BY <1>1, OthersKeep DEF OthersRest
<1>3. RunsInOrder' /\ PlannedOnce' /\ \A e : Recovered(e)' <=> Recovered(e)
    BY <1>1, TablesKeep
<1>4. CASE owner # c
    <2>1. committed' = committed /\ pc'[c] = "down"
        BY <1>4 DEF Commit, Goto, At, TypeOK
    <2>2. Idled(c) /\ ~Holding(c)'
        BY <1>1, <2>1 DEF Idled, Planning, Holding, At
    <2>3. TypeOK'
        BY <1>1, <2>1 DEF Commit, Goto, TypeOK, PCs
    <2>4. Placed'
        BY <1>1, <1>2, <1>4, <2>1 DEF Placed
    <2>5. upsets # 0
        BY <1>1, <1>4 DEF Undisturbed, At
    <2>6. Undisturbed'
        BY <1>1, <2>5 DEF Undisturbed
    <2> QED
        BY <1>1, <2>2, <2>3, <2>4, <2>6, IdledSafe
<1>5. CASE owner = c
    <2>1. committed' = next[c] /\ pc'[c] = "poll" /\ next[c] = committed + 1
        BY <1>1, <1>5 DEF Commit, Goto, At, TypeOK, Placed
    <2>2. /\ At(c, "poll")' /\ ~Holding(c)' /\ ~Planning(c)' /\ ~At(c, "record")'
          /\ ~At(c, "waiting")' /\ ~At(c, "commit")'
          /\ Holding(c) /\ ~Planning(c) /\ ~At(c, "waiting")
        BY <1>1, <2>1 DEF At, Holding, Planning
    <2>3. next[c] \in 1..Len(topic) /\ Known(topic[next[c]])
        BY <1>1, <2>2 DEF Held, Message
    <2>4. TypeOK'
        BY <1>1, <2>1, <2>3 DEF Commit, Goto, TypeOK, PCs
    <2>5. Held'
        BY <1>1, <1>2, <2>2 DEF Held, Known
    <2>6. Placed'
        BY <1>1, <1>5, <2>1, <2>2 DEF Placed
    <2>7. \A i \in 1..committed' : i \in 1..committed \/ i = next[c]
        BY <2>1 DEF TypeOK
    <2>8. PassedIsKnown' /\ AnnouncedIsStored'
        BY <1>1, <2>3, <2>7 DEF PassedIsKnown, Known, AnnouncedIsStored
    <2>9. OnePlanner'
        BY <1>1, <1>2, <2>2 DEF OnePlanner
    <2>10. Undisturbed'
        BY <1>1, <1>2, <1>3, <1>5, <2>2 DEF Undisturbed
    <2>11. UndisturbedIsRecovered'
        <3> SUFFICES ASSUME upsets = 0, NEW i \in 1..committed',
                            topic[i] \in Events \ (Posted \cup Strangers)
                     PROVE  Recovered(topic[i])
            BY <1>1, <1>3 DEF UndisturbedIsRecovered
        <3>1. CASE i \in 1..committed
            BY <3>1 DEF UndisturbedIsRecovered
        <3>2. CASE i = next[c]
            <4>1. topic[i] \in events \ Posted
                BY <2>3, <3>2, EventsAssumption DEF Known
            <4>2. \A d \in Consumers : ~Planning(d) /\ ~At(d, "waiting")
                BY <1>5, <2>2 DEF Undisturbed, Planning, At
            <4> QED
                BY <4>1, <4>2 DEF Undisturbed
        <3> QED
            BY <2>7, <3>1, <3>2
    <2> QED
        BY <1>3, <2>4, <2>5, <2>6, <2>8, <2>9, <2>10, <2>11
<1> QED
    BY <1>4, <1>5

-----------------------------------------------------------------------------
(* All together                                                            *)

LEMMA DieSafe ==
    ASSUME IngestInv, NEW c \in Consumers, Die(c) \/ CallFails(c) \/ Refused(c)
    PROVE  IngestInv'
<1> USE DEF IngestInv
<1>1. CASE Die(c)
    <2>1. Leave(c) /\ upsets' = upsets + 1 /\ upsets \in Nat
        BY <1>1 DEF Die, Upset, TypeOK
    <2>2. upsets' \in Nat /\ upsets' >= upsets /\ upsets' > 0
        BY <2>1
    <2> QED
        BY <2>1, <2>2, LeaveSafe
<1>2. CASE CallFails(c)
    <2>1. call[c] \in 1..Len(runs) /\ runs[call[c]].step = "dead"
        BY <1>2 DEF CallFails, Held
    <2>2. upsets # 0
        BY <2>1 DEF Undisturbed
    <2>3. Leave(c) /\ upsets' = upsets
        BY <1>2 DEF CallFails
    <2>4. upsets' \in Nat /\ upsets' >= upsets /\ upsets' > 0
        BY <2>2, <2>3 DEF TypeOK
    <2> QED
        BY <2>3, <2>4, LeaveSafe
<1>3. CASE Refused(c)
    <2>1. At(c, "record") /\ Leave(c) /\ upsets' = upsets /\ upsets \in Nat
        BY <1>3 DEF Refused, TypeOK
    <2> QED
        BY <2>1, LeaveSafe
<1> QED
    BY <1>1, <1>2, <1>3

LEMMA MoveSafe ==
    ASSUME IngestInv, NEW c \in Consumers, Join(c) \/ Rebalance(c)
    PROVE  IngestInv'
<1>1. upsets \in Nat
    BY DEF IngestInv, TypeOK
<1>2. CASE Join(c)
    BY <1>1, <1>2, AssignSafe DEF Join
<1>3. CASE Rebalance(c)
    BY <1>1, <1>3, AssignSafe DEF Rebalance, Upset
<1> QED
    BY <1>2, <1>3

LEMMA StutterSafe ==
    ASSUME IngestInv, UNCHANGED vars
    PROVE  IngestInv'
<1>1. UNCHANGED <<topic, committed, owner, events, announcing, pc, next, call, runs,
                  sessions, planned, requested, completed, upsets>>
    BY DEF vars, group, worker, api, out
<1>2. TypeOK'
    BY <1>1 DEF IngestInv, TypeOK
<1>3. Held' /\ Placed' /\ OnePlanner'
    BY <1>1 DEF IngestInv, Held, Placed, OnePlanner, Holding, Planning, At, Message, Known
<1>4. PassedIsKnown' /\ RunsInOrder' /\ AnnouncedIsStored' /\ PlannedOnce'
    BY <1>1 DEF IngestInv, PassedIsKnown, RunsInOrder, AnnouncedIsStored, PlannedOnce, Known
<1>5. Undisturbed' /\ UndisturbedIsRecovered'
    BY <1>1 DEF IngestInv, Undisturbed, UndisturbedIsRecovered, Recovered, Planning, At, Message
<1> QED
    BY <1>2, <1>3, <1>4, <1>5 DEF IngestInv

LEMMA InvStep == IngestInv /\ [Next]_vars => IngestInv'
<1> SUFFICES ASSUME IngestInv, [Next]_vars
             PROVE  IngestInv'
    OBVIOUS
<1>1. CASE Report
    BY <1>1, ReportSafe
<1>2. ASSUME NEW c \in Consumers, Handle(c) \/ Die(c) \/ Join(c) \/ Rebalance(c)
      PROVE  IngestInv'
    BY <1>2, PollSafe, RecordSafe, RequestSafe, InvokeSafe, AnsweredSafe, CommitSafe,
       RestartSafe, DieSafe, MoveSafe
    DEF Handle
<1>3. CASE APIStep
    BY <1>3, APISafe
<1>4. CASE UNCHANGED vars
    BY <1>4, StutterSafe
<1> QED
    BY <1>1, <1>2, <1>3, <1>4 DEF Next, APIStep

LEMMA InvAlways == Spec => []IngestInv
<1>1. Init => IngestInv
    BY InvInit
<1>2. IngestInv /\ [Next]_vars => IngestInv'
    BY InvStep
<1> QED
    BY <1>1, <1>2, PTL DEF Spec

\* Topic, group, tables and processes are well formed, whatever fails.
THEOREM IngestTyped == Spec => []TypeOK
<1>1. IngestInv => TypeOK
    BY DEF IngestInv
<1> QED
    BY <1>1, InvAlways, PTL

\* The offset passes no event that record_event has not stored or refused.
THEOREM PassesKnown == Spec => []PassedIsKnown
<1>1. IngestInv => PassedIsKnown
    BY DEF IngestInv
<1> QED
    BY <1>1, InvAlways, PTL

\* However often an event is delivered, to however many consumers, one of them
\* asks for its recovery, once.
THEOREM PlansOnce == Spec => []PlannedOnce
<1>1. IngestInv => PlannedOnce
    BY DEF IngestInv
<1> QED
    BY <1>1, InvAlways, PTL

\* What recovery.completed names is stored, what recovery.requested names recorded.
THEOREM AnnouncesStored == Spec => []AnnouncedIsStored
<1>1. IngestInv => AnnouncedIsStored
    BY DEF IngestInv
<1> QED
    BY <1>1, InvAlways, PTL

\* Without a failure, handle commits an offset only after the session is stored.
THEOREM RecoversUndisturbed == Spec => []UndisturbedIsRecovered
<1>1. IngestInv => UndisturbedIsRecovered
    BY DEF IngestInv
<1> QED
    BY <1>1, InvAlways, PTL

\* Only the assigned consumer's commit counts, and it stands one message behind
\* what it holds.
LEMMA OffsetStep ==
    ASSUME IngestInv, [Next]_vars
    PROVE  committed' >= committed
<1> USE DEF IngestInv
<1>1. committed \in Nat
    BY DEF TypeOK
<1>2. CASE Report
    BY <1>1, <1>2, ReportIsReported DEF Reported, group
<1>3. ASSUME NEW c \in Consumers, Handle(c) \/ Die(c) \/ Join(c) \/ Rebalance(c)
      PROVE  committed' >= committed
    <2>1. CASE Commit(c)
        <3>1. owner = c => next[c] = committed + 1
            BY <2>1 DEF Commit, Placed, At
        <3> QED
            BY <1>1, <2>1, <3>1 DEF Commit
    <2>2. CASE ~Commit(c)
        <3>1. committed' = committed
            BY <1>3, <2>2
            DEF Handle, Poll, Record, Request, Invoke, Answered, CallFails, Refused, Restart,
                Die, Leave, Join, Rebalance, Assign, group
        <3> QED
            BY <1>1, <3>1
    <2> QED
        BY <2>1, <2>2
<1>4. CASE APIStep
    BY <1>1, <1>4, APIStepIsWork DEF Worked, group
<1>5. CASE UNCHANGED vars
    BY <1>1, <1>5 DEF vars, group
<1> QED
    BY <1>2, <1>3, <1>4, <1>5 DEF Next, APIStep

\* The group's offset never goes back, however the partition changes hands.
THEOREM OffsetNeverBack == Spec => OffsetForward
<1>1. IngestInv /\ [Next]_vars => [committed' >= committed]_vars
    BY OffsetStep
<1> QED
    BY <1>1, InvAlways, PTL DEF Spec, OffsetForward
=============================================================================
