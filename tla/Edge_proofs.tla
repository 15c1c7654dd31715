----------------------------- MODULE Edge_proofs -----------------------------
(***************************************************************************)
(* Proofs about the edge of the API, for any number of messages, threads,  *)
(* screens, callers and recoveries, any timeouts in the configured order,  *)
(* any board and any reply of the language model.                          *)
(***************************************************************************)
EXTENDS Edge, FiniteOrders

(***************************************************************************)
(* The breaker, and what serving reports makes of it.                      *)
(***************************************************************************)
Breakers == [failures : Nat, openFor : 0..Cooldown \cup {Unset}]
Reports  == [message : Messages, ok : BOOLEAN]

LEMMA OnDeliveryTyped ==
    ASSUME NEW b \in Breakers, NEW report
    PROVE  OnDelivery(b, report) \in Breakers
BY TimesAssumption DEF OnDelivery, RecordSuccess, RecordFailure, Closed, Breakers

\* The recursion of AfterReports has a solution on every prefix.
LEMMA CountsUp ==
    ASSUME NEW b \in Breakers, NEW waiting, NEW n \in Nat
    PROVE  \E f \in [0..n -> Breakers] :
              f = [i \in 0..n |-> IF i = 0 THEN b ELSE OnDelivery(f[i - 1], waiting[i])]
<1> DEFINE Step(f, i) == IF i = 0 THEN b ELSE OnDelivery(f[i - 1], waiting[i])
           Solves(f, k) == f \in [0..k -> Breakers] /\ f = [i \in 0..k |-> Step(f, i)]
           Missing == {k \in Nat : ~\E f : Solves(f, k)}
<1>1. SUFFICES ASSUME Missing # {} PROVE FALSE
    OBVIOUS
<1>2. PICK k \in Missing : \A j \in Missing : k <= j
    BY <1>1, LeastNatural
<1>3. CASE k = 0
  <2> DEFINE f == [i \in 0..0 |-> b]
  <2>1. f \in [0..0 -> Breakers]
    OBVIOUS
  <2>2. f = [i \in 0..0 |-> Step(f, i)]
    OBVIOUS
  <2> QED
    BY <1>3, <2>1, <2>2
<1>4. CASE k # 0
  <2>1. k \in Nat /\ k - 1 \in Nat
    BY <1>4
  <2>0. k - 1 \notin Missing
    <3>1. ~(k <= k - 1)
      BY <2>1
    <3> HIDE DEF Missing
    <3> QED
      BY <1>2, <3>1
  <2>2. PICK f : Solves(f, k - 1)
    BY <2>0, <2>1
  <2> DEFINE g == [i \in 0..k |-> IF i < k THEN f[i] ELSE OnDelivery(f[k - 1], waiting[k])]
  <2>3. \A i \in 0..(k - 1) : f[i] \in Breakers /\ f[i] = Step(f, i)
    BY <2>2
  <2>4. OnDelivery(f[k - 1], waiting[k]) \in Breakers
    BY <2>1, <2>3, OnDeliveryTyped
  <2> HIDE DEF Step
  <2>5. g \in [0..k -> Breakers]
    BY <2>1, <2>3, <2>4
  <2>6. ASSUME NEW i \in 0..k PROVE g[i] = Step(g, i)
    <3>1. CASE i = 0
      BY <1>4, <2>1, <2>3, <3>1 DEF Step
    <3>2. CASE i # 0 /\ i < k
      <4>1. i - 1 \in 0..k /\ i - 1 < k /\ i \in 0..(k - 1)
        BY <2>1, <3>2
      <4>2. g[i - 1] = f[i - 1] /\ g[i] = f[i]
        BY <3>2, <4>1
      <4> QED
        BY <2>3, <3>2, <4>1, <4>2 DEF Step
    <3>3. CASE i # 0 /\ i = k
      <4>1. k - 1 \in 0..k /\ k - 1 < k
        BY <2>1, <3>3
      <4>2. g[k - 1] = f[k - 1]
        BY <4>1
      <4> QED
        BY <2>1, <3>3, <4>2 DEF Step
    <3> QED
      BY <2>1, <3>1, <3>2, <3>3
  <2>7. g = [i \in 0..k |-> Step(g, i)]
    BY <2>6
  <2> QED
    BY <2>5, <2>7
<1> QED
    BY <1>3, <1>4

\* Whatever is reported, the breaker stays a breaker.
LEMMA AfterReportsTyped ==
    ASSUME NEW b \in Breakers, NEW waiting, Len(waiting) \in Nat
    PROVE  AfterReports(b, waiting) \in Breakers
<1> DEFINE n == Len(waiting)
           Solves(f) == f = [i \in 0..n |-> IF i = 0 THEN b ELSE OnDelivery(f[i - 1], waiting[i])]
           after == CHOOSE f : Solves(f)
<1>1. PICK f \in [0..n -> Breakers] : Solves(f)
    BY CountsUp
<1>2. Solves(after)
    BY <1>1
<1>3. AfterReports(b, waiting) = after[n]
    BY DEF AfterReports
<1> HIDE DEF after
<1> DEFINE Wrong == {i \in 0..n : after[i] \notin Breakers}
<1>4. ASSUME Wrong # {} PROVE FALSE
  <2>1. Wrong \subseteq Nat
    OBVIOUS
  <2>2. PICK i \in Wrong : \A j \in Wrong : i <= j
    BY <1>4, <2>1, LeastNatural
  <2>3. i \in 0..n /\ after[i] = IF i = 0 THEN b ELSE OnDelivery(after[i - 1], waiting[i])
    BY <1>2
  <2>4. CASE i = 0
    BY <2>2, <2>3, <2>4
  <2>5. CASE i # 0
    <3>1. i - 1 \in 0..n /\ i - 1 < i
      BY <2>3, <2>5
    <3>2. i - 1 \notin Wrong
      BY <2>2, <3>1
    <3> QED
      BY <2>2, <2>3, <2>5, <3>1, <3>2, OnDeliveryTyped
  <2> QED
    BY <2>4, <2>5
<1> QED
    BY <1>3, <1>4

(***************************************************************************)
(* The fabric.  A message is reported exactly while its report is parked;  *)
(* one that was not produced yet is with nobody.  A message that is alone  *)
(* in the client stays so until another is produced, and then the two are  *)
(* crowded; while it waits alone its poll outlasts its delivery timeout.   *)
(***************************************************************************)
Letter == [at : {"unsent", "queued", "reported", "settled", "refused"}, left : 0..DeliveryTimeout]
Begun  == {m \in Messages : task[m] # "none"}

FabricTyped ==
    /\ up \in BOOLEAN /\ reachable \in BOOLEAN \cup {Unset}
    /\ letter \in [Messages -> Letter]
    /\ task \in [Messages -> {"none", "scheduled", "producing", "draining", "polling", "ended"}]
    /\ patience \in [Messages -> 0..PollTimeout]
    /\ reports \in Seq(Reports)
    /\ breaker \in Breakers
    /\ crowded \subseteq Messages
    /\ IsFiniteSet(Begun)

ReportsParked ==
    \A m \in Messages :
        /\ letter[m].at = "reported" <=> \E i \in DOMAIN reports : reports[i].message = m
        /\ task[m] \in {"none", "scheduled", "producing"} => letter[m].at = "unsent"

Alone(m) == \A o \in Messages \ {m} : letter[o].at \notin {"queued", "reported"}

LoneWaits ==
    \A m \in Messages \ crowded :
        /\ task[m] \in {"draining", "polling"} =>
              Alone(m) /\ letter[m].at \in {"queued", "reported", "settled"}
        /\ task[m] = "polling" /\ letter[m].at = "queued" => letter[m].left < patience[m]
        /\ task[m] = "ended" => letter[m].at \in {"settled", "refused"}

FabricInv == FabricTyped /\ ReportsParked /\ LoneWaits

\* A message that is scheduled changes nothing else.
Scheduled(m) ==
    Schedule(m) /\ UNCHANGED <<up, letter, patience, reports, breaker, reachable, crowded>>

LEMMA ScheduledKeeps ==
    ASSUME FabricInv, NEW m \in Messages, Scheduled(m)
    PROVE  FabricInv'
<1> USE DEF FabricInv, Scheduled, Schedule
<1>1. FabricTyped'
  <2>1. Begun' = Begun \cup {m}
    BY DEF FabricTyped, Begun
  <2> QED
    BY <2>1, FS_AddElement DEF FabricTyped
<1>2. ReportsParked'
    BY DEF FabricTyped, ReportsParked
<1>3. LoneWaits'
    BY DEF FabricTyped, LoneWaits, Alone
<1> QED
    BY <1>1, <1>2, <1>3

LEMMA ReportKeeps ==
    ASSUME FabricInv, NEW m \in Messages, NEW ok \in BOOLEAN, letter[m].at = "queued", Report(m, ok)
    PROVE  FabricInv'
<1> USE DEF FabricInv, Report
<1>0. task[m] \notin {"none", "scheduled", "producing"}
    BY DEF ReportsParked
<1>1. FabricTyped'
  <2>1. letter' \in [Messages -> Letter]
    BY TimesAssumption DEF FabricTyped, Letter
  <2>2. reports' \in Seq(Reports)
    BY DEF FabricTyped, Reports
  <2> QED
    BY <2>1, <2>2 DEF FabricTyped, Begun
<1>2. \A o \in Messages : letter'[o] = IF o = m THEN [at |-> "reported", left |-> 0] ELSE letter[o]
    BY DEF FabricTyped
<1>3. ReportsParked'
  <2>1. reports \in Seq(Reports) /\ reports' = Append(reports, [message |-> m, ok |-> ok])
    BY DEF FabricTyped
  <2>2. /\ Len(reports) \in Nat /\ DOMAIN reports = 1..Len(reports)
        /\ DOMAIN reports' = 1..(Len(reports) + 1)
        /\ \A i \in DOMAIN reports : reports'[i] = reports[i]
        /\ reports'[Len(reports) + 1] = [message |-> m, ok |-> ok]
    BY <2>1 DEF Reports
  <2>3. ASSUME NEW o \in Messages
        PROVE  (\E i \in DOMAIN reports' : reports'[i].message = o)
                  <=> o = m \/ \E i \in DOMAIN reports : reports[i].message = o
    BY <2>2
  <2> QED
    BY <1>0, <1>2, <2>3 DEF ReportsParked
<1>4. LoneWaits'
    BY <1>2 DEF FabricTyped, LoneWaits, Alone
<1> QED
    BY <1>1, <1>3, <1>4

LEMMA ChangeKeeps ==
    ASSUME FabricInv, Change \/ ProbeOnce \/ ProbeStarves
    PROVE  FabricInv'
<1> USE DEF FabricInv, Change, ProbeOnce, ProbeStarves
<1>1. UNCHANGED <<letter, task, patience, reports, breaker, crowded>>
    OBVIOUS
<1>2. up' \in BOOLEAN /\ reachable' \in BOOLEAN \cup {Unset}
    BY DEF FabricTyped
<1>3. FabricTyped'
    BY <1>1, <1>2 DEF FabricTyped, Begun
<1>4. ReportsParked' /\ LoneWaits'
    BY <1>1 DEF ReportsParked, LoneWaits, Alone
<1> QED
    BY <1>3, <1>4

LEMMA LookedTyped == ASSUME NEW b \in Breakers PROVE Looked(b) \in Breakers
BY TimesAssumption DEF Breakers, Looked, Closed

LEMMA HealthKeeps ==
    ASSUME FabricInv, Health
    PROVE  FabricInv'
BY LookedTyped DEF FabricInv, FabricTyped, Begun, ReportsParked, LoneWaits, Alone, Health

\* A task goes from one place to another of those begun.
LEMMA BegunStays ==
    ASSUME FabricTyped, NEW m \in Messages, task[m] # "none", NEW place, place # "none",
           task' = [task EXCEPT ![m] = place]
    PROVE  Begun' = Begun
BY DEF FabricTyped, Begun

LEMMA RefusedIsLetter ==
    ASSUME NEW l \in Letter
    PROVE  [l EXCEPT !.at = "refused"] \in Letter
BY DEF Letter

LEMMA AttemptKeeps ==
    ASSUME FabricInv, NEW m \in Messages, Attempt(m)
    PROVE  FabricInv'
<1> USE DEF FabricInv, Attempt
<1>1. breaker' \in Breakers
    BY LookedTyped DEF FabricTyped
<1>2. CASE IsOpen(breaker)
  <2>1. \A o \in Messages : /\ letter'[o] = IF o = m THEN [letter[m] EXCEPT !.at = "refused"] ELSE letter[o]
                            /\ task'[o] = IF o = m THEN "ended" ELSE task[o]
    BY <1>2 DEF FabricTyped
  <2>2. FabricTyped'
    <3>1. [letter[m] EXCEPT !.at = "refused"] \in Letter
      BY RefusedIsLetter DEF FabricTyped
    <3>2. letter' = [letter EXCEPT ![m] = [letter[m] EXCEPT !.at = "refused"]]
      BY <1>2 DEF FabricTyped
    <3>3. letter' \in [Messages -> Letter]
      BY <3>1, <3>2 DEF FabricTyped
    <3>4. Begun' = Begun
      BY <1>2, BegunStays
    <3> QED
      BY <1>1, <1>2, <3>3, <3>4 DEF FabricTyped
  <2>3. letter'[m].at = "refused" /\ letter[m].at = "unsent"
    BY <2>1 DEF FabricTyped, Letter, ReportsParked
  <2>4. ReportsParked'
    BY <2>1, <2>3 DEF ReportsParked
  <2>5. LoneWaits'
    BY <2>1, <2>3 DEF LoneWaits, Alone
  <2> QED
    BY <2>2, <2>4, <2>5
<1>3. CASE ~IsOpen(breaker)
  <2>1. \A o \in Messages : task'[o] = IF o = m THEN "producing" ELSE task[o]
    BY <1>3 DEF FabricTyped
  <2>2. FabricTyped'
    <3>1. Begun' = Begun
      BY <1>3, BegunStays
    <3> QED
      BY <1>1, <1>3, <3>1 DEF FabricTyped
  <2>3. ReportsParked'
    BY <1>3, <2>1 DEF ReportsParked
  <2>4. LoneWaits'
    BY <1>3, <2>1 DEF LoneWaits, Alone
  <2> QED
    BY <2>2, <2>3, <2>4
<1> QED
    BY <1>2, <1>3

\* Serving settles what is reported, and nothing else.
LEMMA SettledIs ==
    ASSUME FabricTyped, ReportsParked
    PROVE  /\ Settled(reports) \in [Messages -> Letter]
           /\ \A o \in Messages :
                 Settled(reports)[o] =
                    IF letter[o].at = "reported" THEN [at |-> "settled", left |-> 0] ELSE letter[o]
BY TimesAssumption DEF FabricTyped, ReportsParked, Settled, Letter

LEMMA ServeTyped ==
    ASSUME breaker \in Breakers, NEW waiting, Len(waiting) \in Nat, Serve(waiting)
    PROVE  breaker' \in Breakers /\ reports' = <<>>
BY AfterReportsTyped DEF Serve

LEMMA ProduceKeeps ==
    ASSUME FabricInv, NEW m \in Messages, Produce(m)
    PROVE  FabricInv'
<1> USE DEF FabricInv, Produce
<1> DEFINE sent == [at |-> "queued", left |-> DeliveryTimeout]
<1>1. breaker' \in Breakers /\ reports' = <<>>
  <2>1. Len(reports) \in Nat
    BY DEF FabricTyped
  <2> QED
    BY <2>1, ServeTyped DEF FabricTyped
<1>2. /\ letter' \in [Messages -> Letter]
      /\ \A o \in Messages :
            letter'[o] = IF o = m THEN sent
                         ELSE IF letter[o].at = "reported" THEN [at |-> "settled", left |-> 0]
                         ELSE letter[o]
  <2>1. sent \in Letter
    BY TimesAssumption DEF Letter
  <2> QED
    BY <2>1, SettledIs
<1>3. \A o \in Messages : task'[o] = IF o = m THEN "draining" ELSE task[o]
    BY DEF FabricTyped
<1>4. crowded' \subseteq Messages
    BY DEF FabricTyped
<1>5. FabricTyped'
  <2>1. Begun' = Begun
    BY BegunStays
  <2>2. reports' \in Seq(Reports)
    BY <1>1
  <2> QED
    BY <1>1, <1>2, <1>4, <2>1, <2>2 DEF FabricTyped
<1>6. ReportsParked'
  <2>1. DOMAIN reports' = {}
    BY <1>1
  <2> QED
    BY <1>2, <1>3, <2>1 DEF ReportsParked
<1>7. ASSUME NEW o \in Messages \ crowded'
      PROVE  /\ o \notin crowded
             /\ o = m => \A q \in Messages \ {m} : q \notin Held
             /\ o # m => task[o] \notin {"producing", "draining", "polling"}
    BY DEF FabricTyped
<1>8. LoneWaits'
  <2> SUFFICES ASSUME NEW o \in Messages \ crowded'
               PROVE  /\ task'[o] \in {"draining", "polling"} =>
                            Alone(o)' /\ letter'[o].at \in {"queued", "reported", "settled"}
                      /\ task'[o] = "polling" /\ letter'[o].at = "queued" => letter'[o].left < patience'[o]
                      /\ task'[o] = "ended" => letter'[o].at \in {"settled", "refused"}
    BY DEF LoneWaits
  <2>1. CASE o = m
    BY <1>2, <1>3, <1>7, <2>1 DEF Alone, Held
  <2>2. CASE o # m
    BY <1>2, <1>3, <1>7, <2>2 DEF LoneWaits
  <2> QED
    BY <2>1, <2>2
<1> QED
    BY <1>5, <1>6, <1>8

LEMMA ProduceFailsKeeps ==
    ASSUME FabricInv, NEW m \in Messages, ProduceFails(m)
    PROVE  FabricInv'
<1> USE DEF FabricInv, ProduceFails
<1>1. breaker' \in Breakers
    BY TimesAssumption DEF FabricTyped, Breakers, RecordFailure
<1>2. \A o \in Messages : /\ letter'[o] = IF o = m THEN [letter[m] EXCEPT !.at = "refused"] ELSE letter[o]
                          /\ task'[o] = IF o = m THEN "ended" ELSE task[o]
    BY DEF FabricTyped
<1>3. FabricTyped'
  <2>1. letter' \in [Messages -> Letter]
    BY DEF FabricTyped, Letter
  <2>2. Begun' = Begun
    BY BegunStays
  <2> QED
    BY <1>1, <2>1, <2>2 DEF FabricTyped
<1>4. letter'[m].at = "refused" /\ letter[m].at = "unsent"
    BY <1>2 DEF FabricTyped, Letter, ReportsParked
<1>5. ReportsParked'
    BY <1>2, <1>4 DEF ReportsParked
<1>6. LoneWaits'
    BY <1>2, <1>4 DEF LoneWaits, Alone
<1> QED
    BY <1>3, <1>5, <1>6

LEMMA StartPollKeeps ==
    ASSUME FabricInv, NEW m \in Messages, StartPoll(m)
    PROVE  FabricInv'
<1> USE DEF FabricInv, StartPoll
<1>1. \A o \in Messages : /\ task'[o] = IF o = m THEN "polling" ELSE task[o]
                          /\ patience'[o] = IF o = m THEN PollTimeout ELSE patience[o]
    BY DEF FabricTyped
<1>2. FabricTyped'
  <2>1. Begun' = Begun
    BY BegunStays
  <2>2. patience' \in [Messages -> 0..PollTimeout]
    BY TimesAssumption DEF FabricTyped
  <2> QED
    BY <2>1, <2>2 DEF FabricTyped
<1>3. ReportsParked'
    BY <1>1 DEF ReportsParked
<1>4. letter[m].left < PollTimeout
    BY TimesAssumption DEF FabricTyped, Letter
<1>5. LoneWaits'
    BY <1>1, <1>4 DEF LoneWaits, Alone
<1> QED
    BY <1>2, <1>3, <1>5

LEMMA PollServesKeeps ==
    ASSUME FabricInv, NEW m \in Messages, PollServes(m)
    PROVE  FabricInv'
<1> USE DEF FabricInv, PollServes
<1>1. breaker' \in Breakers /\ reports' = <<>>
  <2>1. Len(reports) \in Nat
    BY DEF FabricTyped
  <2> QED
    BY <2>1, ServeTyped DEF FabricTyped
<1>2. /\ letter' \in [Messages -> Letter]
      /\ \A o \in Messages :
            letter'[o] = IF letter[o].at = "reported" THEN [at |-> "settled", left |-> 0] ELSE letter[o]
    BY SettledIs
<1>3. \A o \in Messages : /\ task'[o] = IF o = m THEN "ended" ELSE task[o]
                          /\ patience'[o] = IF o = m THEN 0 ELSE patience[o]
    BY DEF FabricTyped
<1>4. FabricTyped'
  <2>1. Begun' = Begun
    BY BegunStays
  <2>2. reports' \in Seq(Reports)
    BY <1>1
  <2>3. patience' \in [Messages -> 0..PollTimeout]
    BY TimesAssumption DEF FabricTyped
  <2> QED
    BY <1>1, <1>2, <2>1, <2>2, <2>3 DEF FabricTyped
<1>5. ReportsParked'
  <2>1. DOMAIN reports' = {}
    BY <1>1
  <2> QED
    BY <1>2, <1>3, <2>1 DEF ReportsParked
<1>6. m \notin crowded => letter'[m].at = "settled"
  <2>1. reports \in Seq(Reports) /\ reports # <<>>
    BY DEF FabricTyped
  <2> DEFINE parked == reports[1].message
  <2>2. 1 \in DOMAIN reports /\ parked \in Messages
    <3>1. 1 \in DOMAIN reports
      BY <2>1
    <3>2. reports[1] \in Reports
      BY <2>1, <3>1
    <3> QED
      BY <3>1, <3>2 DEF Reports
  <2>3. letter[parked].at = "reported"
    BY <2>2 DEF ReportsParked
  <2> QED
    BY <1>2, <2>2, <2>3 DEF LoneWaits, Alone
<1>7. LoneWaits'
    BY <1>2, <1>3, <1>6 DEF LoneWaits, Alone
<1> QED
    BY <1>4, <1>5, <1>7

LEMMA PollEndsKeeps ==
    ASSUME FabricInv, NEW m \in Messages, PollEnds(m)
    PROVE  FabricInv'
<1> USE DEF FabricInv, PollEnds
<1>1. \A o \in Messages : task'[o] = IF o = m THEN "ended" ELSE task[o]
    BY DEF FabricTyped
<1>2. FabricTyped'
  <2>1. Begun' = Begun
    BY BegunStays
  <2> QED
    BY <2>1 DEF FabricTyped
<1>3. ReportsParked'
    BY <1>1 DEF ReportsParked
<1>4. m \notin crowded => letter[m].at = "settled"
  <2>1. letter[m].at # "reported"
    BY DEF ReportsParked
  <2>2. ~(letter[m].left < patience[m])
    BY TimesAssumption DEF FabricTyped, Letter
  <2> QED
    BY <2>1, <2>2 DEF LoneWaits
<1>5. LoneWaits'
    BY <1>1, <1>4 DEF LoneWaits, Alone
<1> QED
    BY <1>2, <1>3, <1>5

LEMMA FabricTickKeeps ==
    ASSUME FabricInv, FabricTick
    PROVE  FabricInv'
<1> USE DEF FabricInv, FabricTick
<1>1. \A n \in Nat : Less(n) \in Nat /\ Less(n) <= n /\ (n > 0 => Less(n) = n - 1)
    BY DEF Less
<1>2. \A o \in Messages : letter'[o].at = letter[o].at /\ letter'[o].left = Less(letter[o].left)
    BY DEF FabricTyped, Letter
<1>3. FabricTyped'
  <2>1. letter' \in [Messages -> Letter]
    <3>1. \A n \in 0..DeliveryTimeout : Less(n) \in 0..DeliveryTimeout
      BY <1>1, TimesAssumption
    <3>2. \A o \in Messages : [letter[o] EXCEPT !.left = Less(@)] \in Letter
      BY <3>1 DEF FabricTyped, Letter
    <3> QED
      BY <3>2
  <2>2. patience' \in [Messages -> 0..PollTimeout]
    BY <1>1, TimesAssumption DEF FabricTyped
  <2>3. Less(breaker.openFor) \in 0..Cooldown \cup {Unset}
    BY TimesAssumption DEF FabricTyped, Breakers, Less
  <2>4. breaker' \in Breakers
    BY <2>3 DEF FabricTyped, Breakers
  <2> QED
    BY <2>1, <2>2, <2>4 DEF FabricTyped, Begun
<1>4. ReportsParked'
    BY <1>2 DEF ReportsParked
<1>5. ASSUME NEW m \in Messages, task[m] = "polling", letter[m].at = "queued",
             letter[m].left < patience[m]
      PROVE  letter'[m].left < patience'[m]
  <2>1. letter[m].left > 0 /\ patience[m] > 0
    BY <1>5 DEF NothingDue, Polling
  <2>2. letter[m].left \in Nat /\ patience[m] \in Nat
    BY TimesAssumption DEF FabricTyped, Letter
  <2>3. letter'[m].left = letter[m].left - 1 /\ patience'[m] = patience[m] - 1
    BY <1>1, <1>2, <2>1, <2>2
  <2> QED
    BY <1>5, <2>2, <2>3
<1>6. LoneWaits'
    BY <1>2, <1>5, ZenonT(30) DEF LoneWaits, Alone
<1> QED
    BY <1>3, <1>4, <1>6

LEMMA FlushKeeps ==
    ASSUME FabricInv, Flush
    PROVE  FabricInv'
<1> USE DEF FabricInv, Flush
<1>1. PICK answered \in SUBSET {m \in Messages : letter[m].at = "queued"} :
         LET late == SetToSeq({[message |-> m, ok |-> up] : m \in answered})
         IN  letter' = Settled(reports \o late) /\ Serve(reports \o late)
    OBVIOUS
<1> DEFINE answers == {[message |-> m, ok |-> up] : m \in answered}
           late == SetToSeq(answers)
<1>2. late \in Seq(answers)
  <2>1. IsFiniteSet(answered)
    <3>1. answered \in SUBSET Begun
      BY DEF FabricTyped, Begun, ReportsParked
    <3> QED
      BY <3>1, FS_Subset DEF FabricTyped
  <2>2. IsFiniteSet(answers)
    <3> DEFINE f == [m \in answered |-> [message |-> m, ok |-> up]]
    <3>1. f \in Surjection(answered, answers)
      BY DEF Surjection
    <3> QED
      BY <2>1, <3>1, FS_Surjection
  <2> HIDE DEF answers
  <2>3. Cardinality(answers) \in Nat /\ ExistsBijection(1..Cardinality(answers), answers)
    BY <2>2, FS_CardinalityType
  <2> DEFINE IsListing(f) == IsInjective(f)
  <2>4. \E f \in [1..Cardinality(answers) -> answers] : IsInjective(f)
    BY <2>3 DEF ExistsBijection, Bijection, Injection, IsInjective
  <2>5. late \in [1..Cardinality(answers) -> answers]
    BY <2>4 DEF SetToSeq
  <2> QED
    BY <2>3, <2>5
<1> HIDE DEF late
<1>3. answers \subseteq Reports
    BY DEF FabricTyped, Reports
<1>4. late \in Seq(Reports) /\ reports \in Seq(Reports)
    BY <1>2, <1>3 DEF FabricTyped
<1> HIDE DEF answers
<1> DEFINE waiting == reports \o late
<1>5. /\ waiting \in Seq(Reports) /\ Len(waiting) \in Nat
      /\ \A i \in DOMAIN reports : i \in DOMAIN waiting /\ waiting[i] = reports[i]
    BY <1>4
<1>6. letter' = Settled(waiting) /\ Serve(waiting)
    BY <1>1 DEF late, answers
<1> HIDE DEF waiting
<1>7. breaker' \in Breakers /\ reports' = <<>>
    BY <1>5, <1>6, ServeTyped DEF FabricTyped
<1>8. \A o \in Messages :
         \/ letter'[o] = [at |-> "settled", left |-> 0] /\ letter[o].at \in {"queued", "reported"}
         \/ letter'[o] = letter[o] /\ letter[o].at # "reported"
  <2> SUFFICES ASSUME NEW o \in Messages
               PROVE  \/ /\ letter'[o] = [at |-> "settled", left |-> 0]
                         /\ letter[o].at \in {"queued", "reported"}
                      \/ letter'[o] = letter[o] /\ letter[o].at # "reported"
    OBVIOUS
  <2>1. letter'[o] = IF \E i \in DOMAIN waiting : waiting[i].message = o
                     THEN [at |-> "settled", left |-> 0] ELSE letter[o]
    BY <1>6 DEF Settled
  <2>2. letter[o].at = "reported" => \E i \in DOMAIN waiting : waiting[i].message = o
    BY <1>5 DEF ReportsParked
  <2>3. ASSUME NEW i \in DOMAIN waiting, waiting[i].message = o
        PROVE  letter[o].at \in {"queued", "reported"}
    <3>1. CASE i \in DOMAIN reports
      BY <1>5, <2>3, <3>1 DEF ReportsParked
    <3>2. CASE i \notin DOMAIN reports
      <4>1. waiting[i] \in answers
        <5>1. /\ DOMAIN reports = 1..Len(reports) /\ Len(reports) \in Nat
              /\ DOMAIN waiting = 1..(Len(reports) + Len(late))
          BY <1>4 DEF waiting
        <5>2. i - Len(reports) \in DOMAIN late /\ waiting[i] = late[i - Len(reports)]
          BY <1>4, <3>2, <5>1 DEF waiting
        <5> QED
          BY <1>2, <5>2
      <4> QED
        BY <2>3, <4>1 DEF answers
    <3> QED
      BY <3>1, <3>2
  <2> QED
    BY <2>1, <2>2, <2>3
<1>9. FabricTyped'
  <2>1. letter' \in [Messages -> Letter]
    <3>1. DOMAIN letter' = Messages /\ letter' = [o \in Messages |-> letter'[o]]
      BY <1>6 DEF Settled
    <3>2. [at |-> "settled", left |-> 0] \in Letter
      BY TimesAssumption DEF Letter
    <3>3. \A o \in Messages : letter'[o] \in Letter
      BY <1>8, <3>2 DEF FabricTyped
    <3> QED
      BY <3>1, <3>3
  <2>2. reports' \in Seq(Reports)
    BY <1>7
  <2> QED
    BY <1>7, <2>1, <2>2 DEF FabricTyped, Begun
<1>10. ReportsParked'
  <2>1. DOMAIN reports' = {}
    BY <1>7
  <2>2. \A m \in Messages : task[m] \in {"none", "ended"}
    BY DEF TasksEnded
  <2>3. \A m \in Messages : letter'[m].at # "reported" /\ (task[m] = "none" => letter'[m].at = "unsent")
    BY <1>8, <2>2 DEF ReportsParked
  <2> QED
    BY <2>1, <2>2, <2>3 DEF ReportsParked
<1>11. LoneWaits'
    BY <1>8 DEF LoneWaits, TasksEnded, Alone
<1> QED
    BY <1>9, <1>10, <1>11

(***************************************************************************)
(* The stream: queues within their size, and offers only of recoveries.    *)
(***************************************************************************)
Stages == {"EVENT_RECEIVED", "IMPACT_COMPUTED", "AWAITING_APPROVAL", "APPROVED", "EXECUTING",
           "VERIFIED", "FAILED"}

Frames == {f \in [stage : Stages, run : Runs \cup {Nothing}] :
              f.stage = "AWAITING_APPROVAL" => f.run \in Runs}

Misses == Screens \X Runs \X {"lost", "overtaken", "unanswered"}

QueuesTyped ==
    /\ Subscribed \subseteq Screens /\ missed \subseteq Misses
    /\ \A s \in Subscribed : queue[s] \in Seq(Frames) /\ Len(queue[s]) <= QueueSize

StreamTyped ==
    /\ QueuesTyped
    /\ asked \in [Screens -> SUBSET Runs] /\ shows \in [Screens -> Runs \cup {Nothing}]
    /\ run \in [Runs -> {"none", "asked", "computing", "computed", "stored", "bare", "offered",
                         "answered", "failed"}]
    /\ execution \in {"none", "approved", "executing", "ended"}

LEMMA FrameTyped ==
    ASSUME NEW stage \in Stages, NEW r \in Runs \cup {Nothing}, stage = "AWAITING_APPROVAL" => r \in Runs
    PROVE  Frame(stage, r) \in Frames
<1>1. [stage |-> stage, run |-> r] \in [stage : Stages, run : Runs \cup {Nothing}]
    OBVIOUS
<1>2. [stage |-> stage, run |-> r].stage = stage /\ [stage |-> stage, run |-> r].run = r
    OBVIOUS
<1> QED
    BY <1>1, <1>2 DEF Frames, Frame

\* Offers are of recoveries, so what becomes of one at a screen is a miss.
LEMMA OffersTyped ==
    ASSUME NEW frames \in Seq(Frames), NEW i \in Offers(frames)
    PROVE  frames[i].run \in Runs
BY DEF Offers, Frames

LEMMA LostTyped ==
    ASSUME NEW frame \in Frames, NEW screens \in SUBSET Screens
    PROVE  Lost(frame, screens) \subseteq Misses
<1> SUFFICES ASSUME NEW s \in screens, frame.stage = "AWAITING_APPROVAL"
             PROVE  <<s, frame.run, "lost">> \in Misses
    BY DEF Lost
<1>1. s \in Screens /\ frame.run \in Runs
    BY DEF Frames
<1> QED
    BY <1>1 DEF Misses

LEMMA AnnounceTyped ==
    ASSUME QueuesTyped, NEW frame \in Frames, Announce(frame)
    PROVE  QueuesTyped'
<1> DEFINE losers == {s \in Screens : s \notin Subscribed \/ Len(queue[s]) >= QueueSize}
<1>0. Lost(frame, losers) \subseteq Misses
  <2>1. losers \in SUBSET Screens
    OBVIOUS
  <2> HIDE DEF losers
  <2> QED
    BY <2>1, LostTyped
<1>1. Subscribed' = Subscribed /\ missed' \subseteq Misses
    BY <1>0 DEF QueuesTyped, Announce, Subscribed
<1>2. ASSUME NEW s \in Subscribed
      PROVE  queue'[s] \in Seq(Frames) /\ Len(queue'[s]) <= QueueSize
  <2>1. queue[s] \in Seq(Frames) /\ Len(queue[s]) \in Nat
    BY DEF QueuesTyped
  <2>2. /\ Append(queue[s], frame) \in Seq(Frames)
        /\ Len(Append(queue[s], frame)) = Len(queue[s]) + 1
    BY <2>1
  <2> QED
    BY <2>1, <2>2, StreamAssumption DEF QueuesTyped, Announce
<1> QED
    BY <1>1, <1>2 DEF QueuesTyped

LEMMA SubscribeTyped ==
    ASSUME StreamTyped, NEW s \in Screens, Subscribe(s)
    PROVE  StreamTyped'
<1> USE DEF StreamTyped, Subscribe
<1>1. Subscribed' = Subscribed \cup {s}
    BY DEF Subscribed
<1>2. \A t \in Subscribed' : queue'[t] = IF t = s THEN <<>> ELSE queue[t]
    BY <1>1
<1>3. <<>> \in Seq(Frames) /\ Len(<<>>) <= QueueSize
    BY StreamAssumption
<1>4. QueuesTyped'
    BY <1>1, <1>2, <1>3 DEF QueuesTyped
<1> QED
    BY <1>4

LEMMA UnsubscribeTyped ==
    ASSUME StreamTyped, NEW s \in Screens, Unsubscribe(s)
    PROVE  StreamTyped'
<1> USE DEF StreamTyped, Unsubscribe
<1>1. Subscribed' = Subscribed \ {s}
    BY DEF Subscribed
<1>2. \A t \in Subscribed' : queue'[t] = queue[t]
    BY <1>1
<1>3. missed' \subseteq Misses
  <2>1. ASSUME NEW i \in Offers(queue[s]) PROVE <<s, queue[s][i].run, "lost">> \in Misses
    <3>1. queue[s] \in Seq(Frames)
      BY DEF QueuesTyped
    <3> QED
      BY <3>1, OffersTyped DEF Misses
  <2> QED
    BY <2>1 DEF QueuesTyped
<1>4. QueuesTyped'
    BY <1>1, <1>2, <1>3 DEF QueuesTyped
<1> QED
    BY <1>4

LEMMA ReceiveTyped ==
    ASSUME StreamTyped, NEW s \in Screens, Receive(s)
    PROVE  StreamTyped'
<1> USE DEF StreamTyped
<1>1. PICK k \in DOMAIN queue[s] :
         LET offers == {i \in Offers(queue[s]) : i <= k}
             older  == {i \in offers : \E j \in offers : i < j}
         IN  /\ queue' = [queue EXCEPT ![s] = SubSeq(@, k + 1, Len(@))]
             /\ asked' = [asked EXCEPT ![s] = @ \cup {queue[s][i].run : i \in offers \ older}]
             /\ missed' = missed \cup {<<s, queue[s][i].run, "overtaken">> : i \in older}
    BY DEF Receive
<1> DEFINE offers == {i \in Offers(queue[s]) : i <= k}
           older  == {i \in offers : \E j \in offers : i < j}
           rest   == SubSeq(queue[s], k + 1, Len(queue[s]))
<1>2. queue[s] \in Seq(Frames) /\ Len(queue[s]) \in Nat /\ k \in 1..Len(queue[s]) /\ s \in Subscribed
    BY DEF QueuesTyped, Receive
<1>3. rest \in Seq(Frames) /\ Len(rest) <= Len(queue[s]) /\ Len(rest) \in Nat
  <2>1. ASSUME NEW i \in (k + 1)..Len(queue[s]) PROVE queue[s][i] \in Frames
    BY <1>2
  <2> QED
    BY <1>2, <2>1
<1>4. \A i \in offers : queue[s][i].run \in Runs
    BY <1>2, OffersTyped
<1>5. older \subseteq offers
    OBVIOUS
<1>6. /\ queue' = [queue EXCEPT ![s] = rest]
      /\ asked' = [asked EXCEPT ![s] = @ \cup {queue[s][i].run : i \in offers \ older}]
      /\ missed' = missed \cup {<<s, queue[s][i].run, "overtaken">> : i \in older}
    BY <1>1
<1>7. UNCHANGED <<shows, run, execution>>
    BY DEF Receive
<1> HIDE DEF offers, older, rest
<1>8. Subscribed' = Subscribed
    BY <1>6 DEF Subscribed
<1>9. \A t \in Subscribed : queue'[t] = IF t = s THEN rest ELSE queue[t]
    BY <1>6 DEF Subscribed
<1>10. missed' \subseteq Misses
  <2>1. ASSUME NEW i \in older PROVE <<s, queue[s][i].run, "overtaken">> \in Misses
    BY <1>4, <1>5 DEF Misses
  <2> QED
    BY <1>6, <2>1 DEF QueuesTyped
<1>11. QueuesTyped'
    BY <1>2, <1>3, <1>8, <1>9, <1>10, StreamAssumption DEF QueuesTyped
<1>12. asked' \in [Screens -> SUBSET Runs]
    BY <1>4, <1>6
<1> QED
    BY <1>7, <1>11, <1>12

LEMMA ShowSessionTyped ==
    ASSUME StreamTyped, NEW s \in Screens, ShowSession(s)
    PROVE  StreamTyped'
<1> USE DEF StreamTyped
<1>1. PICK r \in asked[s] :
         /\ asked' = [asked EXCEPT ![s] = @ \ {r}]
         /\ \/ /\ r \in HasSession
               /\ shows' = [shows EXCEPT ![s] = r]
               /\ UNCHANGED missed
            \/ /\ shows' = [shows EXCEPT ![s] = Nothing]
               /\ missed' = missed \cup {<<s, q, "unanswered">> : q \in {r} \cap HasSession}
    BY DEF ShowSession
<1>2. UNCHANGED <<queue, run, execution>>
    BY DEF ShowSession
<1>3. r \in Runs
    OBVIOUS
<1>4. missed' \subseteq Misses
  <2>1. <<s, r, "unanswered">> \in Misses
    BY <1>3 DEF Misses
  <2> QED
    BY <1>1, <2>1 DEF QueuesTyped
<1>5. QueuesTyped'
    BY <1>2, <1>4 DEF QueuesTyped, Subscribed
<1>6. asked' \in [Screens -> SUBSET Runs] /\ shows' \in [Screens -> Runs \cup {Nothing}]
    BY <1>1, <1>3
<1> QED
    BY <1>2, <1>5, <1>6

\* What a recovery or an execution does: it may announce a frame.
LEMMA RunsTyped ==
    ASSUME StreamTyped,
           \/ \E runs \in SUBSET Runs : StartRun(runs)
           \/ \E r \in Runs : Compute(r) \/ Computed(r) \/ Persist(r) \/ FailRun(r) \/ FinishRun(r)
           \/ Decide \/ Execute \/ Executed
    PROVE  StreamTyped'
<1> USE DEF StreamTyped
<1>1. ASSUME NEW stage \in {"EVENT_RECEIVED", "IMPACT_COMPUTED", "APPROVED", "EXECUTING", "VERIFIED",
                           "FAILED"}, NEW r \in Runs \cup {Nothing}
      PROVE  Frame(stage, r) \in Frames
  <2>1. stage \in Stages
    BY DEF Stages
  <2>2. stage # "AWAITING_APPROVAL"
    OBVIOUS
  <2> QED
    BY <2>1, <2>2, FrameTyped
<1>2. ASSUME NEW r \in Runs PROVE Frame("AWAITING_APPROVAL", r) \in Frames
  <2>1. "AWAITING_APPROVAL" \in Stages /\ r \in Runs \cup {Nothing}
    BY DEF Stages
  <2> QED
    BY <2>1, FrameTyped
<1>3. ASSUME NEW runs \in SUBSET Runs, StartRun(runs) PROVE StreamTyped'
    BY <1>1, <1>3, AnnounceTyped DEF StartRun
<1>4. ASSUME NEW r \in Runs, Compute(r) \/ Persist(r) \/ FailRun(r) PROVE StreamTyped'
    BY <1>4 DEF Compute, Persist, FailRun, QueuesTyped, Subscribed
<1>5. ASSUME NEW r \in Runs, Computed(r) PROVE StreamTyped'
    BY <1>1, <1>5, AnnounceTyped DEF Computed
<1>6. ASSUME NEW r \in Runs, FinishRun(r) PROVE StreamTyped'
  <2>1. CASE Announce(Frame("AWAITING_APPROVAL", r))
    BY <1>2, <1>6, <2>1, AnnounceTyped DEF FinishRun
  <2>2. CASE UNCHANGED <<queue, missed>>
    BY <1>6, <2>2 DEF FinishRun, QueuesTyped, Subscribed
  <2> QED
    BY <1>6, <2>1, <2>2 DEF FinishRun
<1>7. ASSUME Decide PROVE StreamTyped'
    BY <1>1, <1>7, AnnounceTyped DEF Decide
<1>8. ASSUME Execute PROVE StreamTyped'
    BY <1>1, <1>8, AnnounceTyped DEF Execute
<1>9. ASSUME Executed PROVE StreamTyped'
    BY <1>1, <1>9, AnnounceTyped DEF Executed
<1> QED
    BY <1>3, <1>4, <1>5, <1>6, <1>7, <1>8, <1>9

(***************************************************************************)
(* The pool.                                                               *)
(***************************************************************************)
Occupied == {m \in Messages : task[m] \in {"producing", "polling"}}
PoolFits == Busy + Cardinality(Computing) <= Threads

LEMMA PoolFinite ==
    ASSUME FabricTyped
    PROVE  IsFiniteSet(Occupied) /\ IsFiniteSet(Computing) /\ Busy = Cardinality(Occupied)
<1>1. Occupied \subseteq Begun
    BY DEF Occupied, Begun
<1>2. IsFiniteSet(Runs)
    BY StreamAssumption, FS_Interval DEF Runs
<1>3. Computing \subseteq Runs
    BY DEF Computing
<1> QED
    BY <1>1, <1>2, <1>3, FS_Subset DEF FabricTyped, Busy, Occupied

\* A step that takes no thread leaves the pool within its size.
LEMMA PoolKeeps ==
    ASSUME FabricTyped, PoolFits, Occupied' \subseteq Occupied, Computing' \subseteq Computing
    PROVE  PoolFits'
<1>1. Busy' = Cardinality(Occupied')
    BY DEF Busy, Occupied
<1>2. /\ Cardinality(Occupied') <= Cardinality(Occupied) /\ IsFiniteSet(Occupied')
      /\ Cardinality(Computing') <= Cardinality(Computing) /\ IsFiniteSet(Computing')
    BY PoolFinite, FS_Subset
<1>3. /\ Cardinality(Occupied) \in Nat /\ Cardinality(Occupied') \in Nat
      /\ Cardinality(Computing) \in Nat /\ Cardinality(Computing') \in Nat
    BY <1>2, PoolFinite, FS_CardinalityType
<1> QED
    BY <1>1, <1>2, <1>3, PoolFinite, TimesAssumption DEF PoolFits

\* One that takes a free thread, too.
LEMMA PoolTakes ==
    ASSUME FabricTyped, FreeThread, NEW m, NEW r,
           \/ Occupied' \subseteq Occupied \cup {m} /\ Computing' \subseteq Computing
           \/ Occupied' \subseteq Occupied /\ Computing' \subseteq Computing \cup {r}
    PROVE  PoolFits'
<1>1. Busy' = Cardinality(Occupied')
    BY DEF Busy, Occupied
<1>2. /\ Cardinality(Occupied) \in Nat /\ Cardinality(Computing) \in Nat
      /\ Busy = Cardinality(Occupied)
    BY PoolFinite, FS_CardinalityType
<1>3. Cardinality(Occupied) + Cardinality(Computing) < Threads
    BY <1>2 DEF FreeThread
<1>4. Threads \in Nat
    BY TimesAssumption
<1>5. ASSUME NEW S, NEW T, IsFiniteSet(S), NEW x, T \subseteq S \cup {x}
      PROVE  Cardinality(T) \in Nat /\ Cardinality(T) <= Cardinality(S) + 1
  <2>1. /\ IsFiniteSet(S \cup {x}) /\ Cardinality(S \cup {x}) <= Cardinality(S) + 1
        /\ Cardinality(S) \in Nat
    BY <1>5, FS_AddElement, FS_CardinalityType
  <2>2. IsFiniteSet(T) /\ Cardinality(T) <= Cardinality(S \cup {x})
    BY <1>5, <2>1, FS_Subset
  <2> QED
    BY <2>1, <2>2, FS_CardinalityType
<1>6. ASSUME NEW S, NEW T, IsFiniteSet(S), T \subseteq S
      PROVE  Cardinality(T) \in Nat /\ Cardinality(T) <= Cardinality(S)
    BY <1>6, FS_Subset, FS_CardinalityType
<1>7. IsFiniteSet(Occupied) /\ IsFiniteSet(Computing)
    BY PoolFinite
<1>8. CASE Occupied' \subseteq Occupied \cup {m} /\ Computing' \subseteq Computing
  <2>1. Cardinality(Occupied') \in Nat /\ Cardinality(Occupied') <= Cardinality(Occupied) + 1
    BY <1>5, <1>7, <1>8
  <2>2. Cardinality(Computing') \in Nat /\ Cardinality(Computing') <= Cardinality(Computing)
    BY <1>6, <1>7, <1>8
  <2> QED
    BY <1>1, <1>2, <1>3, <1>4, <2>1, <2>2 DEF PoolFits
<1>9. CASE Occupied' \subseteq Occupied /\ Computing' \subseteq Computing \cup {r}
  <2>1. Cardinality(Computing') \in Nat /\ Cardinality(Computing') <= Cardinality(Computing) + 1
    BY <1>5, <1>7, <1>9
  <2>2. Cardinality(Occupied') \in Nat /\ Cardinality(Occupied') <= Cardinality(Occupied)
    BY <1>6, <1>7, <1>9
  <2> QED
    BY <1>1, <1>2, <1>3, <1>4, <2>1, <2>2 DEF PoolFits
<1> QED
    BY <1>8, <1>9

(***************************************************************************)
(* The rate limit: what was let through within the window is remembered,   *)
(* each call by an entry of its own.                                       *)
(***************************************************************************)
Admissions == [caller : Callers, age : Nat]

RateTyped ==
    /\ recent \in [Callers -> Seq(Nat)]
    /\ \A c \in Callers : Len(recent[c]) <= Limit
    /\ admitted \in Seq(Admissions)

Recently(c) == {i \in DOMAIN admitted : admitted[i].caller = c /\ admitted[i].age <= Window}

Remembered ==
    \A c \in Callers : \E f \in Injection(Recently(c), DOMAIN recent[c]) :
        \A i \in Recently(c) : recent[c][f[i]] = admitted[i].age

LEMMA InjectionIs ==
    ASSUME NEW S, NEW T, NEW f
    PROVE  f \in Injection(S, T) <=> f \in [S -> T] /\ \A i, j \in S : f[i] = f[j] => i = j
BY DEF Injection, IsInjective

\* Forgetting drops from the front what is older than the window.
LEMMA PrunedIs ==
    ASSUME NEW ages \in Seq(Nat)
    PROVE  \E k \in 1..Len(ages) + 1 :
              /\ \A i \in 1..(k - 1) : ages[i] > Window
              /\ Pruned(ages) = SubSeq(ages, k, Len(ages))
<1> DEFINE First(k) == /\ \A i \in 1..(k - 1) : ages[i] > Window
                       /\ k <= Len(ages) => ages[k] <= Window
           Young == {k \in 1..Len(ages) + 1 : k <= Len(ages) => ages[k] <= Window}
<1>1. Len(ages) \in Nat /\ \A i \in 1..Len(ages) : ages[i] \in Nat
    OBVIOUS
<1>2. Len(ages) + 1 \in Young /\ Young \subseteq Nat
    BY <1>1
<1>3. PICK k \in Young : \A j \in Young : k <= j
    BY <1>2, LeastNatural
<1>4. ASSUME NEW i \in 1..(k - 1) PROVE ages[i] > Window
  <2>1. k \in 1..Len(ages) + 1
    BY <1>3
  <2>2. i \in 1..Len(ages) /\ i < k /\ i \in 1..Len(ages) + 1
    BY <1>1, <2>1
  <2>3. i \notin Young
    <3> HIDE DEF Young
    <3> QED
      BY <1>1, <1>3, <2>1, <2>2
  <2> QED
    BY <1>1, <2>2, <2>3, EdgeAssumption
<1>5. k \in 1..Len(ages) + 1 /\ First(k)
    BY <1>3, <1>4
<1> HIDE DEF First
<1> DEFINE first == CHOOSE j \in 1..Len(ages) + 1 : First(j)
<1>6. first \in 1..Len(ages) + 1 /\ First(first)
    BY <1>5
<1>7. Pruned(ages) = SubSeq(ages, first, Len(ages))
    BY DEF Pruned, NoOlderThan, First
<1> HIDE DEF first
<1> QED
    BY <1>6, <1>7 DEF First

LEMMA PrunedTyped ==
    ASSUME NEW ages \in Seq(Nat)
    PROVE  \E k \in Nat :
              /\ Pruned(ages) \in Seq(Nat)
              /\ Len(ages) = Len(Pruned(ages)) + k
              /\ \A i \in 1..k : ages[i] > Window
              /\ \A i \in 1..Len(Pruned(ages)) : Pruned(ages)[i] = ages[i + k]
<1>1. PICK k \in 1..Len(ages) + 1 :
              /\ \A i \in 1..(k - 1) : ages[i] > Window
              /\ Pruned(ages) = SubSeq(ages, k, Len(ages))
    BY PrunedIs
<1>2. Len(ages) \in Nat /\ k - 1 \in Nat /\ k \in Nat
    BY <1>1
<1>3. /\ SubSeq(ages, k, Len(ages)) \in Seq(Nat)
      /\ Len(SubSeq(ages, k, Len(ages))) = Len(ages) - (k - 1)
      /\ \A i \in 1..(Len(ages) - (k - 1)) : SubSeq(ages, k, Len(ages))[i] = ages[i + (k - 1)]
    BY <1>1, <1>2
<1> WITNESS k - 1 \in Nat
<1> QED
    BY <1>1, <1>2, <1>3

\* What is remembered before forgetting is remembered after it.
LEMMA ForgetsTheOld ==
    ASSUME RateTyped, NEW c \in Callers, NEW S, NEW f \in Injection(S, DOMAIN recent[c]),
           \A i \in S : recent[c][f[i]] <= Window
    PROVE  \E g \in Injection(S, DOMAIN Pruned(recent[c])) :
              \A i \in S : Pruned(recent[c])[g[i]] = recent[c][f[i]]
<1> DEFINE ages == recent[c]
<1>1. ages \in Seq(Nat)
    BY DEF RateTyped
<1> HIDE DEF ages
<1>2. PICK k \in Nat :
              /\ Pruned(ages) \in Seq(Nat)
              /\ Len(ages) = Len(Pruned(ages)) + k
              /\ \A i \in 1..k : ages[i] > Window
              /\ \A i \in 1..Len(Pruned(ages)) : Pruned(ages)[i] = ages[i + k]
    BY <1>1, PrunedTyped
<1>3. /\ DOMAIN ages = 1..Len(ages) /\ DOMAIN Pruned(ages) = 1..Len(Pruned(ages))
      /\ Len(ages) \in Nat /\ Len(Pruned(ages)) \in Nat
      /\ \A i \in 1..Len(ages) : ages[i] \in Nat
    BY <1>1, <1>2
<1>4. f \in [S -> DOMAIN ages] /\ \A i, j \in S : f[i] = f[j] => i = j
    BY InjectionIs DEF ages
<1> DEFINE g == [i \in S |-> f[i] - k]
<1>5. ASSUME NEW i \in S PROVE /\ f[i] \in Nat /\ g[i] \in 1..Len(Pruned(ages))
                              /\ f[i] = g[i] + k
  <2>1. f[i] \in 1..Len(ages) /\ f[i] \notin 1..k
    <3>1. f[i] \in 1..Len(ages)
      BY <1>3, <1>4
    <3>2. ages[f[i]] <= Window /\ ages[f[i]] \in Nat
      BY <1>3, <3>1 DEF ages
    <3> QED
      BY <1>2, <3>1, <3>2, EdgeAssumption
  <2> QED
    BY <1>2, <1>3, <2>1
<1>6. g \in [S -> DOMAIN Pruned(ages)]
    BY <1>3, <1>5
<1>7. \A i, j \in S : g[i] = g[j] => i = j
    BY <1>4, <1>5
<1>8. \A i \in S : Pruned(ages)[g[i]] = ages[f[i]]
    BY <1>2, <1>5
<1>9. g \in Injection(S, DOMAIN Pruned(ages))
    BY <1>6, <1>7, InjectionIs
<1> HIDE DEF g
<1> QED
    BY <1>8, <1>9 DEF ages

RateInv == RateTyped /\ Remembered

LEMMA ThrottleRemembers ==
    ASSUME RateInv, NEW c \in Callers, Throttle(c)
    PROVE  RateInv'
<1> USE DEF RateInv, Throttle
<1>1. recent[c] \in Seq(Nat) /\ Len(recent[c]) \in Nat /\ Len(recent[c]) <= Limit /\ Limit \in Nat
    BY EdgeAssumption DEF RateTyped
<1>2. Pruned(recent[c]) \in Seq(Nat) /\ Len(Pruned(recent[c])) <= Limit
  <2>1. PICK k \in Nat : /\ Pruned(recent[c]) \in Seq(Nat)
                         /\ Len(recent[c]) = Len(Pruned(recent[c])) + k
    BY <1>1, PrunedTyped
  <2>2. Len(Pruned(recent[c])) \in Nat
    BY <2>1
  <2> QED
    BY <1>1, <2>1, <2>2
<1>3. \A d \in Callers : recent'[d] = IF d = c THEN Pruned(recent[c]) ELSE recent[d]
    BY DEF RateTyped
<1>4. RateTyped'
    BY <1>2, <1>3 DEF RateTyped
<1>5. ASSUME NEW d \in Callers
      PROVE  \E f \in Injection(Recently(d), DOMAIN recent'[d]) :
                \A i \in Recently(d) : recent'[d][f[i]] = admitted[i].age
  <2>1. PICK f \in Injection(Recently(d), DOMAIN recent[d]) :
                \A i \in Recently(d) : recent[d][f[i]] = admitted[i].age
    BY DEF Remembered
  <2>2. CASE d # c
    BY <1>3, <2>1, <2>2
  <2>3. CASE d = c
    <3>1. \A i \in Recently(c) : recent[c][f[i]] <= Window
      BY <2>1, <2>3 DEF Recently
    <3>2. PICK g \in Injection(Recently(c), DOMAIN Pruned(recent[c])) :
                \A i \in Recently(c) : Pruned(recent[c])[g[i]] = recent[c][f[i]]
      BY <2>1, <2>3, <3>1, ForgetsTheOld
    <3> QED
      BY <1>3, <2>1, <2>3, <3>2
  <2> QED
    BY <2>2, <2>3
<1>6. \A d \in Callers : Recently(d)' = Recently(d)
    BY DEF Recently
<1>7. Remembered'
    BY <1>5, <1>6 DEF Remembered
<1> QED
    BY <1>4, <1>7

LEMMA InjectRemembers ==
    ASSUME RateInv, NEW m \in Messages, NEW c \in Callers, Inject(m, c)
    PROVE  RateInv'
<1> USE DEF RateInv, Inject
<1> DEFINE kept == Pruned(recent[c])
           last == Len(admitted) + 1
<1>1. recent[c] \in Seq(Nat) /\ kept \in Seq(Nat) /\ Len(kept) \in Nat /\ Limit \in Nat
    BY PrunedTyped, EdgeAssumption DEF RateTyped
<1>2. \A d \in Callers : recent'[d] = IF d = c THEN Append(kept, 0) ELSE recent[d]
    BY DEF RateTyped
<1>3. /\ Append(kept, 0) \in Seq(Nat) /\ Len(Append(kept, 0)) = Len(kept) + 1
      /\ DOMAIN Append(kept, 0) = 1..Len(kept) + 1 /\ Append(kept, 0)[Len(kept) + 1] = 0
      /\ \A j \in DOMAIN kept : Append(kept, 0)[j] = kept[j]
      /\ DOMAIN kept = 1..Len(kept)
    BY <1>1
<1>4. /\ Len(admitted) \in Nat /\ DOMAIN admitted = 1..Len(admitted)
      /\ admitted' \in Seq(Admissions) /\ DOMAIN admitted' = 1..last
      /\ admitted'[last] = [caller |-> c, age |-> 0]
      /\ \A i \in 1..Len(admitted) : admitted'[i] = admitted[i]
  <2>1. [caller |-> c, age |-> 0] \in Admissions
    BY DEF Admissions
  <2> QED
    BY <2>1 DEF RateTyped
<1>5. RateTyped'
  <2>1. recent' \in [Callers -> Seq(Nat)]
    BY <1>2, <1>3 DEF RateTyped
  <2>2. \A d \in Callers : Len(recent'[d]) <= Limit
    BY <1>1, <1>2, <1>3 DEF RateTyped
  <2> QED
    BY <1>4, <2>1, <2>2 DEF RateTyped
<1>6. \A d \in Callers : Recently(d)' = IF d = c THEN Recently(c) \cup {last} ELSE Recently(d)
  <2>1. 0 <= Window
    BY EdgeAssumption
  <2>2. /\ admitted'[last].caller = c /\ admitted'[last].age = 0
        /\ DOMAIN admitted' = DOMAIN admitted \cup {last} /\ last \notin DOMAIN admitted
    BY <1>4
  <2> QED
    BY <1>4, <2>1, <2>2 DEF Recently
<1> HIDE DEF kept
<1>7. ASSUME NEW d \in Callers
      PROVE  \E f \in Injection(Recently(d)', DOMAIN recent'[d]) :
                \A i \in Recently(d)' : recent'[d][f[i]] = admitted'[i].age
  <2>1. PICK f \in Injection(Recently(d), DOMAIN recent[d]) :
                \A i \in Recently(d) : recent[d][f[i]] = admitted[i].age
    BY DEF Remembered
  <2>2. CASE d # c
    <3>1. Recently(d)' = Recently(d) /\ recent'[d] = recent[d]
      BY <1>2, <1>6, <2>2
    <3>2. \A i \in Recently(d) : admitted'[i] = admitted[i]
      BY <1>4 DEF Recently
    <3>3. f \in Injection(Recently(d)', DOMAIN recent'[d])
      BY <3>1
    <3>4. \A i \in Recently(d)' : recent'[d][f[i]] = admitted'[i].age
      BY <2>1, <3>1, <3>2
    <3> QED
      BY <3>3, <3>4
  <2>3. CASE d = c
    <3>1. \A i \in Recently(c) : recent[c][f[i]] <= Window
      BY <2>1, <2>3 DEF Recently
    <3>2. PICK g \in Injection(Recently(c), DOMAIN kept) :
                \A i \in Recently(c) : kept[g[i]] = recent[c][f[i]]
      <4>1. RateTyped /\ f \in Injection(Recently(c), DOMAIN recent[c]) /\ kept = Pruned(recent[c])
        BY <2>1, <2>3 DEF kept
      <4> HIDE DEF kept, last, Inject
      <4>2. \E g \in Injection(Recently(c), DOMAIN Pruned(recent[c])) :
               \A i \in Recently(c) : Pruned(recent[c])[g[i]] = recent[c][f[i]]
        BY <3>1, <4>1, ForgetsTheOld
      <4> QED
        BY <4>1, <4>2
    <3> DEFINE S == Recently(c) \cup {last}
               h == [i \in S |-> IF i = last THEN Len(kept) + 1 ELSE g[i]]
    <3>3. last \notin Recently(c) /\ \A i \in Recently(c) : i \in 1..Len(admitted) /\ i # last
      BY <1>4 DEF Recently
    <3>4. g \in [Recently(c) -> 1..Len(kept)] /\ \A i, j \in Recently(c) : g[i] = g[j] => i = j
      BY <1>3, <3>2, InjectionIs
    <3> HIDE DEF last
    <3>5. h \in [S -> DOMAIN Append(kept, 0)]
      <4>1. \A i \in Recently(c) : h[i] = g[i] /\ g[i] \in 1..Len(kept)
        BY <3>3, <3>4
      <4>2. h[last] = Len(kept) + 1
        OBVIOUS
      <4>3. \A i \in S : h[i] \in 1..Len(kept) + 1
        BY <1>1, <4>1, <4>2
      <4> QED
        BY <1>3, <4>3
    <3>6. \A i, j \in S : h[i] = h[j] => i = j
      BY <1>1, <3>3, <3>4
    <3>7. ASSUME NEW i \in S PROVE Append(kept, 0)[h[i]] = admitted'[i].age
      <4>1. CASE i = last
        BY <1>3, <1>4, <4>1 DEF last
      <4>2. CASE i # last
        <5>1. h[i] = g[i] /\ g[i] \in DOMAIN kept /\ i \in Recently(c)
          BY <1>3, <3>4, <4>2
        <5>2. admitted'[i] = admitted[i]
          BY <1>4, <3>3, <5>1
        <5>3. Append(kept, 0)[h[i]] = kept[g[i]]
          BY <1>3, <5>1
        <5>4. kept[g[i]] = recent[c][f[i]] /\ recent[c][f[i]] = admitted[i].age
          BY <2>1, <2>3, <3>2, <5>1
        <5> QED
          BY <5>2, <5>3, <5>4
      <4> QED
        BY <4>1, <4>2
    <3>8. Recently(d)' = S /\ recent'[d] = Append(kept, 0)
      BY <1>2, <1>6, <2>3 DEF last, kept
    <3> HIDE DEF h, S
    <3>9. h \in Injection(S, DOMAIN Append(kept, 0))
      BY <3>5, <3>6, InjectionIs
    <3> QED
      BY <3>7, <3>8, <3>9
  <2> QED
    BY <2>2, <2>3
<1> QED
    BY <1>5, <1>7 DEF Remembered

\* Time passes for what was let through and for what is remembered alike.
LEMMA TickRemembers ==
    ASSUME RateInv, Tick
    PROVE  RateInv'
<1> USE DEF RateInv, Tick
<1>1. \A age \in Nat : Older(age) \in Nat /\ (Older(age) <= Window => age <= Window)
    BY EdgeAssumption DEF Older
<1>2. /\ Len(admitted) \in Nat /\ DOMAIN admitted = 1..Len(admitted)
      /\ \A i \in DOMAIN admitted : admitted[i] \in Admissions
    BY DEF RateTyped
<1>3. ASSUME NEW i \in DOMAIN admitted
      PROVE  /\ admitted'[i] \in Admissions /\ admitted'[i].caller = admitted[i].caller
             /\ admitted'[i].age = Older(admitted[i].age)
    BY <1>1, <1>2 DEF Admissions
<1>4. ASSUME NEW c \in Callers
      PROVE  /\ recent'[c] \in Seq(Nat) /\ Len(recent'[c]) = Len(recent[c])
             /\ DOMAIN recent'[c] = DOMAIN recent[c]
             /\ \A j \in DOMAIN recent[c] : recent'[c][j] = Older(recent[c][j])
  <2>1. recent[c] \in Seq(Nat)
    BY DEF RateTyped
  <2>2. Len(recent[c]) \in Nat /\ DOMAIN recent[c] = 1..Len(recent[c])
    BY <2>1
  <2>3. \A j \in 1..Len(recent[c]) : Older(recent[c][j]) \in Nat
    BY <1>1, <2>1, SMTT(20)
  <2>4. recent'[c] = [j \in 1..Len(recent[c]) |-> Older(recent[c][j])]
    BY <2>2
  <2>5. /\ [j \in 1..Len(recent[c]) |-> Older(recent[c][j])] \in Seq(Nat)
        /\ Len([j \in 1..Len(recent[c]) |-> Older(recent[c][j])]) = Len(recent[c])
    BY <2>2, <2>3
  <2>6. DOMAIN recent'[c] = DOMAIN recent[c]
    BY <2>2, <2>4
  <2>7. \A j \in DOMAIN recent[c] : recent'[c][j] = Older(recent[c][j])
    BY <2>2, <2>4
  <2> QED
    BY <2>4, <2>5, <2>6, <2>7
<1>5. RateTyped'
  <2>1. admitted' \in Seq(Admissions)
    <3> DEFINE aged(i) == [admitted[i] EXCEPT !.age = Older(@)]
    <3>1. admitted' = [i \in 1..Len(admitted) |-> aged(i)]
      BY <1>2
    <3>2. \A i \in 1..Len(admitted) : aged(i) \in Admissions
      BY <1>2, <1>3
    <3> HIDE DEF aged
    <3>3. [i \in 1..Len(admitted) |-> aged(i)] \in Seq(Admissions)
      BY <1>2, <3>2
    <3> QED
      BY <3>1, <3>3
  <2>2. recent' \in [Callers -> Seq(Nat)]
    BY <1>4
  <2> QED
    BY <1>4, <2>1, <2>2 DEF RateTyped
<1>6. DOMAIN admitted' = DOMAIN admitted
    OBVIOUS
<1>7. ASSUME NEW c \in Callers
      PROVE  \E f \in Injection(Recently(c)', DOMAIN recent'[c]) :
                \A i \in Recently(c)' : recent'[c][f[i]] = admitted'[i].age
  <2>1. PICK f \in Injection(Recently(c), DOMAIN recent[c]) :
                \A i \in Recently(c) : recent[c][f[i]] = admitted[i].age
    BY DEF Remembered
  <2>2. \A i \in Recently(c)' : i \in DOMAIN admitted /\ i \in Recently(c)
    <3>1. \A i \in DOMAIN admitted : admitted[i].age \in Nat
      BY <1>2 DEF Admissions
    <3> QED
      BY <1>1, <1>3, <1>6, <3>1 DEF Recently
  <2> DEFINE g == [i \in Recently(c)' |-> f[i]]
  <2>3. f \in [Recently(c) -> DOMAIN recent[c]] /\ \A i, j \in Recently(c) : f[i] = f[j] => i = j
    BY <2>1, InjectionIs
  <2>4. g \in Injection(Recently(c)', DOMAIN recent'[c])
    <3>1. g \in [Recently(c)' -> DOMAIN recent'[c]]
      BY <1>4, <2>2, <2>3
    <3>2. \A i, j \in Recently(c)' : g[i] = g[j] => i = j
      BY <2>2, <2>3
    <3> QED
      BY <3>1, <3>2, InjectionIs
  <2>5. ASSUME NEW i \in Recently(c)' PROVE recent'[c][g[i]] = admitted'[i].age
    <3>1. i \in Recently(c) /\ i \in DOMAIN admitted /\ g[i] = f[i]
      BY <2>2
    <3>2. f[i] \in DOMAIN recent[c]
      BY <2>3, <3>1
    <3> QED
      BY <1>3, <1>4, <2>1, <3>1, <3>2
  <2> HIDE DEF g
  <2> QED
    BY <2>4, <2>5
<1> QED
    BY <1>5, <1>7 DEF Remembered

\* What is remembered is never more than the limit, so neither is what was let through.
LEMMA RememberedRespects ==
    ASSUME RateInv
    PROVE  RateRespected
<1>1. ASSUME NEW c \in Callers PROVE Cardinality(Recently(c)) <= Limit
  <2>1. PICK f : f \in Injection(Recently(c), DOMAIN recent[c])
    BY DEF RateInv, Remembered
  <2>2. Len(recent[c]) \in Nat /\ DOMAIN recent[c] = 1..Len(recent[c]) /\ Len(recent[c]) <= Limit
    BY DEF RateInv, RateTyped
  <2>3. IsFiniteSet(DOMAIN recent[c]) /\ Cardinality(DOMAIN recent[c]) = Len(recent[c])
    BY <2>2, FS_Interval
  <2>4. IsFiniteSet(Recently(c)) /\ Cardinality(Recently(c)) <= Len(recent[c])
    BY <2>1, <2>3, FS_Injection
  <2> QED
    BY <2>2, <2>4, EdgeAssumption, FS_CardinalityType
<1> QED
    BY <1>1 DEF RateRespected, Recently

(***************************************************************************)
(* Typed disruptions.                                                      *)
(***************************************************************************)
Boards == UNION {l.boards : l \in Loads}

Disruptions ==
    [type : DOMAIN KindFor, entity : UNION {b.places \cup b.cast : b \in Boards}, day : Nat]

Calls ==
    [phase : {"none", "asking", "answered"}, caller : Callers \cup {None},
     board : Boards \cup {None}, event : Disruptions \cup {None}]

CallsTyped ==
    /\ load \in Loads /\ open \in BOOLEAN /\ board \in load.boards
    /\ call \in [Messages -> Calls]
    /\ \A m \in Messages : call[m].phase = "asking" => call[m].board \in Boards

\* What an event says is on a board.
OnBoard(event, b) ==
    /\ event.entity \in IF event.type = "location.blocked" THEN b.places ELSE b.cast
    /\ \E row \in b.rows : row.date = event.day /\ row.shoots

CallsInv == CallsTyped /\ InjectedOnBoard

LEMMA LoadTyped ==
    ASSUME load \in Loads
    PROVE  load.boards \subseteq Boards /\ load.runs \subseteq Runs
BY LoadsAssumption DEF Boards

\* Whatever the model replied, what is made of it is on the board, or nothing.
LEMMA ResolvedOnBoard ==
    ASSUME NEW b \in Boards, NEW reply, Resolve(reply, b) # None
    PROVE  Resolve(reply, b) \in Disruptions /\ OnBoard(Resolve(reply, b), b)
<1> DEFINE day == CHOOSE d \in ResolveDay(reply, b) : TRUE
<1>1. /\ reply.type \in DOMAIN KindFor /\ Kind(b, reply.entity) = KindFor[reply.type]
      /\ ResolveDay(reply, b) # {}
      /\ Resolve(reply, b) = [type |-> reply.type, entity |-> reply.entity, day |-> day]
    BY DEF Resolve
<1>2. DOMAIN KindFor = {"location.blocked", "actor.unavailable"}
    BY DEF KindFor
<1>3. reply.entity \in IF reply.type = "location.blocked" THEN b.places ELSE b.cast
    BY <1>1, <1>2 DEF Kind, KindFor
<1>4. Dates(b) \subseteq Nat
  <2>1. \A row \in b.rows : row.date \in Nat
    BY LoadsAssumption DEF Boards
  <2> QED
    BY <2>1 DEF Dates
<1>5. ResolveDay(reply, b) \subseteq Dates(b)
  <2> DEFINE appears == {row.date : row \in {row \in b.rows :
                 row.date \in Dates(b) /\ (row.place = reply.entity \/ reply.entity \in row.players)}}
  <2>1. appears \subseteq Dates(b)
    OBVIOUS
  <2>2. appears # {} => Min(appears) \in appears
    <3> SUFFICES ASSUME appears # {} PROVE Min(appears) \in appears
      OBVIOUS
    <3>1. \E n \in appears : \A m \in appears : n <= m
      BY <1>4, <2>1, LeastNatural
    <3> HIDE DEF appears
    <3> QED
      BY <3>1 DEF Min
  <2>3. ResolveDay(reply, b) = IF reply.day \in Dates(b) THEN {reply.day}
                              ELSE IF appears = {} THEN {} ELSE {Min(appears)}
    BY DEF ResolveDay
  <2> HIDE DEF appears
  <2> QED
    BY <2>1, <2>2, <2>3
<1>6. day \in Dates(b)
    BY <1>1, <1>5
<1> HIDE DEF day
<1>7. \E row \in b.rows : row.date = day /\ row.shoots
    BY <1>6 DEF Dates
<1>8. reply.entity \in UNION {c.places \cup c.cast : c \in Boards}
    BY <1>3
<1>9. Resolve(reply, b) \in Disruptions
    BY <1>1, <1>4, <1>6, <1>8 DEF Disruptions
<1>10. OnBoard(Resolve(reply, b), b)
    BY <1>1, <1>3, <1>7 DEF OnBoard
<1> QED
    BY <1>9, <1>10

LEMMA InjectOnBoard ==
    ASSUME CallsInv, NEW m \in Messages, NEW c \in Callers, Inject(m, c)
    PROVE  CallsInv'
<1> USE DEF CallsInv, Inject
<1> DEFINE new == [phase |-> "asking", caller |-> c, board |-> board, event |-> None]
<1>1. board \in Boards
    BY LoadTyped DEF CallsTyped
<1>2. new \in Calls /\ new.event = None /\ new.board = board
    BY <1>1 DEF Calls
<1>3. \A o \in Messages : call'[o] = IF o = m THEN new ELSE call[o]
    BY DEF CallsTyped
<1>4. call' \in [Messages -> Calls]
    BY <1>2 DEF CallsTyped
<1> HIDE DEF new
<1>5. CallsTyped'
    BY <1>1, <1>2, <1>3, <1>4 DEF CallsTyped
<1>6. InjectedOnBoard'
    BY <1>2, <1>3 DEF InjectedOnBoard
<1> QED
    BY <1>5, <1>6

LEMMA RepliedOnBoard ==
    ASSUME CallsInv, NEW m \in Messages, Replied(m)
    PROVE  CallsInv'
<1> USE DEF CallsInv
<1>1. PICK reply \in load.replies :
         call' = [call EXCEPT ![m].phase = "answered", ![m].event = Resolve(reply, call[m].board)]
    BY DEF Replied
<1> DEFINE event == Resolve(reply, call[m].board)
           new == [call[m] EXCEPT !.phase = "answered", !.event = event]
<1>2. call[m].board \in Boards /\ call[m] \in Calls
    BY DEF Replied, CallsTyped
<1>3. event \in Disruptions \cup {None} /\ (event # None => OnBoard(event, call[m].board))
    BY <1>2, ResolvedOnBoard
<1> HIDE DEF event
<1>4. new \in Calls /\ new.event = event /\ new.board = call[m].board /\ new.phase = "answered"
    BY <1>2, <1>3 DEF Calls
<1>5. call' = [call EXCEPT ![m] = new]
    BY <1>1, <1>2 DEF event, CallsTyped, Calls
<1> HIDE DEF new
<1>6. \A o \in Messages : call'[o] = IF o = m THEN new ELSE call[o]
    BY <1>5 DEF CallsTyped
<1>7. CallsTyped'
  <2>1. call' \in [Messages -> Calls]
    BY <1>4, <1>5 DEF CallsTyped
  <2> QED
    BY <1>4, <1>6, <2>1 DEF CallsTyped, Replied
<1>8. InjectedOnBoard'
  <2> SUFFICES ASSUME NEW o \in Messages, call'[o].event # None
               PROVE  OnBoard(call'[o].event, call'[o].board)
    BY DEF InjectedOnBoard, OnBoard
  <2>1. CASE o = m
    BY <1>3, <1>4, <1>6, <2>1
  <2>2. CASE o # m
    BY <1>6, <2>2 DEF InjectedOnBoard, OnBoard
  <2> QED
    BY <2>1, <2>2
<1> QED
    BY <1>7, <1>8

LEMMA RewriteOnBoard ==
    ASSUME CallsInv, Rewrite
    PROVE  CallsInv'
BY DEF CallsInv, CallsTyped, InjectedOnBoard, Rewrite

(***************************************************************************)
(* The whole.                                                              *)
(***************************************************************************)
EdgeInv == FabricInv /\ StreamTyped /\ PoolFits /\ RateInv /\ CallsInv

LEMMA FabricStutters ==
    ASSUME FabricInv, UNCHANGED fabricVars
    PROVE  FabricInv' /\ Occupied' = Occupied
BY DEF FabricInv, fabricVars, FabricTyped, Begun, ReportsParked, LoneWaits, Alone, Occupied

LEMMA StreamStutters ==
    ASSUME StreamTyped, UNCHANGED streamVars
    PROVE  StreamTyped' /\ Computing' = Computing
BY DEF streamVars, StreamTyped, QueuesTyped, Subscribed, Computing

LEMMA RateStutters ==
    ASSUME RateInv, UNCHANGED <<recent, admitted>>
    PROVE  RateInv'
<1>1. \A c \in Callers : Recently(c)' = Recently(c)
    BY DEF Recently
<1>2. Remembered'
    BY <1>1 DEF RateInv, Remembered
<1> QED
    BY <1>2 DEF RateInv, RateTyped

LEMMA CallsStutter ==
    ASSUME CallsInv, UNCHANGED <<load, board, call>>, open' \in BOOLEAN
    PROVE  CallsInv'
BY DEF CallsInv, CallsTyped, InjectedOnBoard

LEMMA EdgeStutters ==
    ASSUME RateInv, CallsInv, UNCHANGED edgeVars
    PROVE  RateInv' /\ CallsInv'
<1>1. UNCHANGED <<recent, admitted>> /\ UNCHANGED <<load, board, call>> /\ open' \in BOOLEAN
    BY DEF edgeVars, CallsInv, CallsTyped
<1> QED
    BY <1>1, RateStutters, CallsStutter

\* The only places in which a task has a thread.
LEMMA ThreadTaken ==
    ASSUME FabricTyped, NEW m \in Messages, NEW place, task' = [task EXCEPT ![m] = place]
    PROVE  Occupied' \subseteq Occupied \cup {m}
BY DEF FabricTyped, Occupied

LEMMA ThreadReleased ==
    ASSUME FabricTyped, NEW m \in Messages, NEW place, place \notin {"producing", "polling"},
           task' = [task EXCEPT ![m] = place]
    PROVE  Occupied' \subseteq Occupied
BY DEF FabricTyped, Occupied

LEMMA EdgeStarts ==
    ASSUME Init
    PROVE  EdgeInv
<1> USE DEF Init
<1>1. FabricInv
  <2> USE DEF FabricInit
  <2>1. [at |-> "unsent", left |-> 0] \in Letter
    BY TimesAssumption DEF Letter
  <2>2. Begun = {}
    BY DEF Begun
  <2>3. Closed \in Breakers
    BY DEF Closed, Breakers
  <2>4. 0 \in 0..PollTimeout
    BY TimesAssumption
  <2>5. FabricTyped
    BY <2>1, <2>2, <2>3, <2>4, FS_EmptySet DEF FabricTyped
  <2>6. ReportsParked /\ LoneWaits
    BY DEF ReportsParked, LoneWaits
  <2> QED
    BY <2>5, <2>6 DEF FabricInv
<1>2. StreamTyped
    BY DEF StreamInit, StreamTyped, QueuesTyped, Subscribed
<1>3. PoolFits
  <2>1. Occupied = {} /\ Computing = {}
    BY DEF FabricInit, StreamInit, Occupied, Computing
  <2>2. Busy = 0 /\ Cardinality(Computing) = 0
    BY <2>1, FS_EmptySet DEF Busy, Occupied
  <2> QED
    BY <2>2, TimesAssumption DEF PoolFits
<1>4. RateInv
  <2>1. RateTyped
    BY EdgeAssumption DEF RateTyped
  <2>2. ASSUME NEW c \in Callers
        PROVE  \E f \in Injection(Recently(c), DOMAIN recent[c]) :
                  \A i \in Recently(c) : recent[c][f[i]] = admitted[i].age
    <3>1. Recently(c) = {}
      BY DEF Recently
    <3> DEFINE f == [i \in {} |-> 0]
    <3>2. f \in Injection({}, DOMAIN recent[c])
      BY InjectionIs
    <3> QED
      BY <3>1, <3>2
  <2> QED
    BY <2>1, <2>2 DEF RateInv, Remembered
<1>5. CallsInv
  <2>1. NoCall \in Calls /\ NoCall.event = None /\ NoCall.phase = "none"
    BY DEF NoCall, Calls
  <2> QED
    BY <2>1 DEF CallsInv, CallsTyped, InjectedOnBoard
<1> QED
    BY <1>1, <1>2, <1>3, <1>4, <1>5 DEF EdgeInv

LEMMA FabricProgressKeeps ==
    ASSUME EdgeInv, FabricProgress
    PROVE  EdgeInv'
<1> USE DEF EdgeInv, FabricProgress
<1>1. PICK m \in Messages :
          \/ Produce(m) \/ ProduceFails(m) \/ PollServes(m) \/ PollEnds(m)
          \/ letter[m].left = 0 /\ GiveUp(m)
    OBVIOUS
<1>2. FabricInv' /\ Occupied' \subseteq Occupied
  <2>1. CASE Produce(m)
    <3>1. task' = [task EXCEPT ![m] = "draining"]
      BY <2>1 DEF Produce
    <3>2. Occupied' \subseteq Occupied
      BY <3>1, ThreadReleased DEF FabricInv
    <3> QED
      BY <2>1, <3>2, ProduceKeeps
  <2>2. CASE ProduceFails(m)
    <3>1. task' = [task EXCEPT ![m] = "ended"]
      BY <2>2 DEF ProduceFails
    <3>2. Occupied' \subseteq Occupied
      BY <3>1, ThreadReleased DEF FabricInv
    <3> QED
      BY <2>2, <3>2, ProduceFailsKeeps
  <2>3. CASE PollServes(m)
    <3>1. task' = [task EXCEPT ![m] = "ended"]
      BY <2>3 DEF PollServes
    <3>2. Occupied' \subseteq Occupied
      BY <3>1, ThreadReleased DEF FabricInv
    <3> QED
      BY <2>3, <3>2, PollServesKeeps
  <2>4. CASE PollEnds(m)
    <3>1. task' = [task EXCEPT ![m] = "ended"]
      BY <2>4 DEF PollEnds
    <3>2. Occupied' \subseteq Occupied
      BY <3>1, ThreadReleased DEF FabricInv
    <3> QED
      BY <2>4, <3>2, PollEndsKeeps
  <2>5. CASE GiveUp(m)
    BY <2>5, ReportKeeps DEF GiveUp, Report, Occupied
  <2> QED
    BY <1>1, <2>1, <2>2, <2>3, <2>4, <2>5
<1>3. StreamTyped' /\ Computing' = Computing
    BY StreamStutters
<1>4. PoolFits'
    BY <1>2, <1>3, PoolKeeps DEF FabricInv
<1> QED
    BY <1>2, <1>3, <1>4, EdgeStutters

LEMMA StreamProgressKeeps ==
    ASSUME EdgeInv, StreamProgress
    PROVE  EdgeInv'
<1> USE DEF EdgeInv, StreamProgress
<1>1. StreamTyped' /\ Computing' \subseteq Computing
  <2>1. ASSUME NEW r \in Runs, Computed(r) \/ Persist(r) \/ FailRun(r) \/ FinishRun(r)
        PROVE  StreamTyped' /\ Computing' \subseteq Computing
    <3>1. StreamTyped'
      BY <2>1, RunsTyped
    <3>2. Computing' \subseteq Computing
      BY <2>1 DEF Computed, Persist, FailRun, FinishRun, Computing, StreamTyped
    <3> QED
      BY <3>1, <3>2
  <2>2. ASSUME NEW s \in Screens, Receive(s) \/ ShowSession(s)
        PROVE  StreamTyped' /\ Computing' \subseteq Computing
    <3>1. StreamTyped'
      BY <2>2, ReceiveTyped, ShowSessionTyped
    <3>2. Computing' \subseteq Computing
      BY <2>2 DEF Receive, ShowSession, Computing
    <3> QED
      BY <3>1, <3>2
  <2> QED
    BY <2>1, <2>2
<1>2. FabricInv' /\ Occupied' = Occupied
    BY FabricStutters
<1>3. PoolFits'
    BY <1>1, <1>2, PoolKeeps DEF FabricInv
<1> QED
    BY <1>1, <1>2, <1>3, EdgeStutters

LEMMA RepliedKeeps ==
    ASSUME EdgeInv, NEW m \in Messages, Replied(m)
    PROVE  EdgeInv'
<1> USE DEF EdgeInv, Replied
<1>1. FabricInv' /\ Occupied' \subseteq Occupied
  <2>1. CASE UNCHANGED task
    BY <2>1, FabricStutters DEF fabricVars
  <2>2. CASE Schedule(m)
    <3>1. Scheduled(m) /\ task' = [task EXCEPT ![m] = "scheduled"]
      BY <2>2 DEF Scheduled, Schedule
    <3>2. Occupied' \subseteq Occupied
      BY <3>1, ThreadReleased DEF FabricInv
    <3> QED
      BY <3>1, <3>2, ScheduledKeeps
  <2> QED
    BY <2>1, <2>2
<1>2. StreamTyped' /\ Computing' = Computing
    BY StreamStutters
<1>3. PoolFits'
    BY <1>1, <1>2, PoolKeeps DEF FabricInv
<1>4. CallsInv'
    BY RepliedOnBoard
<1>5. RateInv'
    BY RateStutters
<1> QED
    BY <1>1, <1>2, <1>3, <1>4, <1>5

LEMMA TakeThreadKeeps ==
    ASSUME EdgeInv, TakeThread
    PROVE  EdgeInv'
<1> USE DEF EdgeInv, TakeThread
<1>1. ASSUME NEW m \in Messages, InThread(m)
      PROVE  EdgeInv'
  <2>1. FabricInv'
    BY <1>1, AttemptKeeps, StartPollKeeps DEF InThread
  <2>2. Occupied' \subseteq Occupied \cup {m}
    BY <1>1, ThreadTaken DEF InThread, Attempt, StartPoll, FabricInv
  <2>3. StreamTyped' /\ Computing' = Computing
    BY <1>1, StreamStutters DEF InThread
  <2>4. PoolFits'
    BY <1>1, <2>2, <2>3, PoolTakes DEF InThread, FabricInv
  <2> QED
    BY <1>1, <2>1, <2>3, <2>4, EdgeStutters DEF InThread
<1>2. ASSUME NEW r \in Runs, RunInThread(r)
      PROVE  EdgeInv'
  <2>1. FabricInv' /\ Occupied' = Occupied
    BY <1>2, FabricStutters DEF RunInThread
  <2>2. StreamTyped'
    BY <1>2, RunsTyped DEF RunInThread
  <2>3. Computing' \subseteq Computing \cup {r}
    BY <1>2 DEF RunInThread, Compute, Computing, StreamTyped
  <2>4. PoolFits'
    BY <1>2, <2>1, <2>3, PoolTakes DEF RunInThread, FabricInv
  <2> QED
    BY <1>2, <2>1, <2>2, <2>4, EdgeStutters DEF RunInThread
<1> QED
    BY <1>1, <1>2

LEMMA WorldKeeps ==
    ASSUME EdgeInv, Probe \/ FabricWorld
    PROVE  EdgeInv'
<1> USE DEF EdgeInv
<1>1. FabricInv' /\ Occupied' = Occupied
  <2>1. CASE ProbeOnce \/ ProbeStarves
    BY <2>1, ChangeKeeps DEF ProbeOnce, ProbeStarves, Occupied
  <2>2. CASE Change
    BY <2>2, ChangeKeeps DEF Change, Occupied
  <2>3. CASE Health
    BY <2>3, HealthKeeps DEF Health, Occupied
  <2>4. ASSUME NEW m \in Messages, Acknowledge(m) \/ GiveUp(m) PROVE FabricInv' /\ Occupied' = Occupied
    BY <2>4, ReportKeeps DEF Acknowledge, GiveUp, Report, Occupied
  <2> QED
    BY <2>1, <2>2, <2>3, <2>4 DEF Probe, FabricWorld
<1>2. UNCHANGED <<streamVars, edgeVars>>
    BY DEF Probe, FabricWorld
<1>3. StreamTyped' /\ Computing' = Computing
    BY <1>2, StreamStutters
<1>4. PoolFits'
    BY <1>1, <1>3, PoolKeeps DEF FabricInv
<1> QED
    BY <1>1, <1>2, <1>3, <1>4, EdgeStutters

LEMMA StreamWorldKeeps ==
    ASSUME EdgeInv, StreamWorld
    PROVE  EdgeInv'
<1> USE DEF EdgeInv, StreamWorld
<1>0. load.runs \in SUBSET Runs
    BY LoadTyped DEF CallsInv, CallsTyped
<1>1. StreamTyped' /\ Computing' \subseteq Computing
  <2>1. ASSUME NEW s \in Screens, Subscribe(s) \/ Unsubscribe(s)
        PROVE  StreamTyped' /\ Computing' \subseteq Computing
    BY <2>1, SubscribeTyped, UnsubscribeTyped DEF Subscribe, Unsubscribe, Computing
  <2>2. CASE StartRun(load.runs) \/ Decide \/ Execute \/ Executed
    <3>1. StreamTyped'
      BY <1>0, <2>2, RunsTyped
    <3>2. Computing' \subseteq Computing
      BY <2>2 DEF StartRun, Decide, Execute, Executed, Computing, StreamTyped
    <3> QED
      BY <3>1, <3>2
  <2> QED
    BY <2>1, <2>2
<1>2. FabricInv' /\ Occupied' = Occupied
    BY FabricStutters
<1>3. PoolFits'
    BY <1>1, <1>2, PoolKeeps DEF FabricInv
<1> QED
    BY <1>1, <1>2, <1>3, EdgeStutters

LEMMA ClientsKeep ==
    ASSUME EdgeInv, Clients
    PROVE  EdgeInv'
<1> USE DEF EdgeInv
<1>1. UNCHANGED streamVars
    BY DEF Clients, Rewrite, Ingest, Inject, Throttle
<1>2. StreamTyped' /\ Computing' = Computing
    BY <1>1, StreamStutters
<1>3. FabricInv' /\ Occupied' \subseteq Occupied
  <2>1. CASE UNCHANGED fabricVars
    BY <2>1, FabricStutters
  <2>2. ASSUME NEW m \in Messages, Ingest(m) PROVE FabricInv' /\ Occupied' \subseteq Occupied
    <3>1. Scheduled(m) /\ task' = [task EXCEPT ![m] = "scheduled"]
      BY <2>2 DEF Ingest, Scheduled, Schedule
    <3>2. Occupied' \subseteq Occupied
      BY <3>1, ThreadReleased DEF FabricInv
    <3> QED
      BY <3>1, <3>2, ScheduledKeeps
  <2> QED
    BY <2>1, <2>2 DEF Clients, Rewrite, Inject, Throttle
<1>4. PoolFits'
    BY <1>2, <1>3, PoolKeeps DEF FabricInv
<1>5. RateInv' /\ CallsInv'
  <2>1. CASE Rewrite
    BY <2>1, RewriteOnBoard, RateStutters DEF Rewrite
  <2>2. ASSUME NEW m \in Messages, Ingest(m) PROVE RateInv' /\ CallsInv'
    BY <2>2, EdgeStutters DEF Ingest
  <2>3. ASSUME NEW m \in Messages, NEW c \in Callers, Inject(m, c) PROVE RateInv' /\ CallsInv'
    BY <2>3, InjectRemembers, InjectOnBoard
  <2>4. ASSUME NEW c \in Callers, Throttle(c) PROVE RateInv' /\ CallsInv'
    <3>1. UNCHANGED <<load, board, call>> /\ open' \in BOOLEAN
      BY <2>4 DEF Throttle, CallsInv, CallsTyped
    <3> QED
      BY <2>4, <3>1, ThrottleRemembers, CallsStutter
  <2> QED
    BY <2>1, <2>2, <2>3, <2>4 DEF Clients
<1> QED
    BY <1>2, <1>3, <1>4, <1>5

LEMMA TickKeeps ==
    ASSUME EdgeInv, Tick
    PROVE  EdgeInv'
<1> USE DEF EdgeInv
<1>1. FabricInv' /\ Occupied' = Occupied
    BY FabricTickKeeps DEF Tick, FabricTick, Occupied
<1>2. StreamTyped' /\ Computing' = Computing
    BY StreamStutters DEF Tick
<1>3. PoolFits'
    BY <1>1, <1>2, PoolKeeps DEF FabricInv
<1>4. CallsInv'
    BY DEF Tick, CallsInv, CallsTyped, InjectedOnBoard
<1> QED
    BY <1>1, <1>2, <1>3, <1>4, TickRemembers

LEMMA CloseKeeps ==
    ASSUME EdgeInv, Close
    PROVE  EdgeInv'
<1> USE DEF EdgeInv
<1>1. FabricInv' /\ Occupied' = Occupied
    BY FlushKeeps DEF Close, Flush, Occupied
<1>2. StreamTyped' /\ Computing' = Computing
    BY StreamStutters DEF Close
<1>3. PoolFits'
    BY <1>1, <1>2, PoolKeeps DEF FabricInv
<1>4. RateInv' /\ CallsInv'
  <2>1. UNCHANGED <<recent, admitted>> /\ UNCHANGED <<load, board, call>> /\ open' \in BOOLEAN
    BY DEF Close
  <2> QED
    BY <2>1, RateStutters, CallsStutter
<1> QED
    BY <1>1, <1>2, <1>3, <1>4

\* No step of the process, its clients or the broker breaks the invariant.
THEOREM EdgeInvariant == Spec => []EdgeInv
<1>1. Init => EdgeInv
    BY EdgeStarts
<1>2. EdgeInv /\ [Next]_vars => EdgeInv'
  <2> SUFFICES ASSUME EdgeInv, [Next]_vars PROVE EdgeInv'
    OBVIOUS
  <2>1. CASE UNCHANGED vars
    <3>1. UNCHANGED fabricVars /\ UNCHANGED streamVars /\ UNCHANGED edgeVars
      BY <2>1 DEF vars
    <3>2. FabricInv' /\ Occupied' = Occupied /\ StreamTyped' /\ Computing' = Computing
      BY <3>1, FabricStutters, StreamStutters DEF EdgeInv
    <3>3. PoolFits'
      BY <3>2, PoolKeeps DEF EdgeInv, FabricInv
    <3> QED
      BY <3>1, <3>2, <3>3, EdgeStutters DEF EdgeInv
  <2>2. CASE Next
    <3>1. CASE Progress
      BY <3>1, FabricProgressKeeps, StreamProgressKeeps, RepliedKeeps DEF Progress
    <3>2. CASE TakeThread
      BY <3>2, TakeThreadKeeps
    <3>3. CASE Probe \/ FabricWorld
      BY <3>3, WorldKeeps
    <3>4. CASE Tick
      BY <3>4, TickKeeps
    <3>5. CASE StreamWorld
      BY <3>5, StreamWorldKeeps
    <3>6. CASE Clients
      BY <3>6, ClientsKeep
    <3>7. CASE Close
      BY <3>7, CloseKeeps
    <3> QED
      BY <2>2, <3>1, <3>2, <3>3, <3>4, <3>5, <3>6, <3>7 DEF Next
  <2> QED
    BY <2>1, <2>2
<1> QED
    BY <1>1, <1>2, PTL DEF Spec

\* In every state of every run the types hold: the letters counted as reported
\* are those with a report nobody has served, no queue is longer than it may be,
\* no more threads are in use than the pool has, and no caller is remembered
\* with more calls than the limit.
THEOREM EdgeTypeCorrect == Spec => []TypeOK
<1>1. ASSUME EdgeInv PROVE TypeOK
  <2> USE <1>1 DEF EdgeInv
  <2>1. {report.message : report \in Range(reports)} = {m \in Messages : letter[m].at = "reported"}
    <3>1. \A i \in DOMAIN reports : reports[i].message \in Messages
      <4>1. reports \in Seq(Reports)
        BY DEF FabricInv, FabricTyped
      <4>2. \A i \in DOMAIN reports : reports[i] \in Reports
        BY <4>1
      <4> QED
        BY <4>2 DEF Reports
    <3>2. \A m : (\E i \in DOMAIN reports : reports[i].message = m)
                    <=> m \in Messages /\ letter[m].at = "reported"
      BY <3>1 DEF FabricInv, ReportsParked
    <3> QED
      BY <3>2 DEF Range
  <2>2. /\ up \in BOOLEAN /\ reachable \in BOOLEAN \cup {Unset}
        /\ letter \in [Messages -> [at : {"unsent", "queued", "reported", "settled", "refused"},
                                    left : 0..DeliveryTimeout]]
        /\ task \in [Messages -> {"none", "scheduled", "producing", "draining", "polling", "ended"}]
        /\ patience \in [Messages -> 0..PollTimeout]
        /\ breaker.failures \in Nat /\ breaker.openFor \in 0..Cooldown \cup {Unset}
        /\ crowded \subseteq Messages
    BY DEF FabricInv, FabricTyped, Letter, Breakers
  <2>3. /\ Subscribed \subseteq Screens
        /\ missed \subseteq Screens \X Runs \X {"lost", "overtaken", "unanswered"}
        /\ \A s \in Subscribed : Len(queue[s]) <= QueueSize
        /\ asked \in [Screens -> SUBSET Runs] /\ shows \in [Screens -> Runs \cup {Nothing}]
        /\ run \in [Runs -> {"none", "asked", "computing", "computed", "stored", "bare", "offered",
                             "answered", "failed"}]
        /\ execution \in {"none", "approved", "executing", "ended"}
    BY DEF StreamTyped, QueuesTyped, Misses
  <2>4. /\ load \in Loads /\ open \in BOOLEAN /\ board \in load.boards
        /\ \A c \in Callers : Len(recent[c]) <= Limit
        /\ \A m \in Messages : call[m].phase \in {"none", "asking", "answered"}
    BY DEF CallsInv, CallsTyped, Calls, RateInv, RateTyped
  <2> QED
    BY <2>1, <2>2, <2>3, <2>4 DEF TypeOK, PoolFits
<1> QED
    BY <1>1, EdgeInvariant, PTL

\* However late a report comes and whoever polls it, the report of a message that
\* had the client to itself has reached the breaker when its task is over
\* (_schedule waits longer than the client; _on_delivery counts).
THEOREM LoneReports == Spec => []LoneReportCounted
<1>1. EdgeInv => LoneReportCounted
    BY DEF EdgeInv, FabricInv, LoneWaits, LoneReportCounted
<1> QED
    BY <1>1, EdgeInvariant, PTL

\* Whatever the callers, the limit and the window: in no window more calls of one
\* caller are let through than the limit says (_rate_limit), because each of them
\* has an entry of its own that is not forgotten before the window is over.
THEOREM RateLimited == Spec => []RateRespected
<1>1. EdgeInv => RateRespected
    BY RememberedRespects DEF EdgeInv
<1> QED
    BY <1>1, EdgeInvariant, PTL

\* Whatever the language model replies, an accepted disruption names a place or a
\* member of the cast of the board its call read, and a day on which that board
\* shoots (resolve, _resolve_day), though the board may be replaced meanwhile.
THEOREM OnTheBoard == Spec => []InjectedOnBoard
<1>1. EdgeInv => InjectedOnBoard
    BY DEF EdgeInv, CallsInv
<1> QED
    BY <1>1, EdgeInvariant, PTL
=============================================================================
