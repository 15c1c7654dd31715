------------------------------- MODULE Planning -------------------------------
(***************************************************************************)
(* One recovery from report to verified execution: recover with its repair *)
(* round, the Pareto frontier, and the plan a producer picks, applied to   *)
(* the real head move by move and then verified.                           *)
(*                                                                         *)
(* Planning works on the projected state, execution on the real one: the   *)
(* absence an event reports is never committed.                            *)
(***************************************************************************)
EXTENDS Scoring

CONSTANTS
    Bases,        \* head states a recovery may start from
    Events,       \* disruptions
    Hints,        \* hint lists a caller or the agent may pass
    BufferUnits   \* repair.turnaround_buffer_minutes

\* A head is a state the domain types accept: a day wraps after its call, and a
\* scene is on one row.
ASSUME BasesAssumption ==
    \A b \in Bases :
        /\ b.rows \in Seq(Row)
        /\ \A i \in DOMAIN b.rows : b.rows[i].call < b.rows[i].wrap
        /\ b.place \in [Scenes -> Places]
        /\ \A i, j \in DOMAIN b.rows :
              i # j => b.rows[i].scenes \cap b.rows[j].scenes = {}
        /\ DOMAIN b = {"rows", "place", "needs", "away"}

\* Disruption refuses any other kind.
ASSUME EventsAssumption == \A e \in Events : e.kind \in EventKinds

ASSUME HintsAssumption == \A h \in Hints : h \in Seq(STRING)

ASSUME BufferAssumption == BufferUnits \in Nat

VARIABLES
    base,       \* the head: [rows, place, needs, away]
    event,      \* the disruption
    hints,      \* strategy_hints
    stage,      \* how far the recovery or the execution has come
    todo,       \* plans of this round still to evaluate
    evaluated,  \* RecoveryResult.evaluated: [plan, faults, score]
    frontier,   \* indices of the plans marked pareto_optimal
    chosen,     \* index of the plan being executed (0 = none)
    board,      \* the board apply is working on
    report      \* codes of the verification checks that failed

vars == <<base, event, hints, stage, todo, evaluated, frontier, chosen, board, report>>
plans == <<todo, evaluated, frontier>>

Init ==
    /\ base \in Bases
    /\ event \in Events
    /\ hints \in Hints
    /\ stage = "reported"
    /\ todo = <<>>
    /\ evaluated = <<>>
    /\ frontier = {}
    /\ chosen = 0
    /\ board = Opened(base)
    /\ report = {}

Projected == ProjectDisruption(base, event)

Valid(e) == e.faults = {}

(***************************************************************************)
(* Repair.  A plan that fails C001 starts its late day later and sheds     *)
(* what no longer fits; one that fails C003 takes the scenes of the absent *)
(* off their days.  Nothing else is repaired.                              *)
(***************************************************************************)
FaultsOf(e, code) == {f \in e.faults : f.code = code}

FirstTurnaround(e) ==
    CHOOSE f \in FaultsOf(e, "C001") :
        \A g \in FaultsOf(e, "C001") : f.subject[1] <= g.subject[1]

RepairTurnaround(state, early, late) ==
    LET days == ByDate(state.rows)
        call == days[early].wrap + RestUnits + BufferUnits
    IN  IF call >= days[late].wrap THEN <<>>
        ELSE <<ShiftCallTime(late, call)>> \o CompressDay(state, late, call)

BlockedDates(state, p) ==
    {r.date : r \in {q \in ToSet(state.rows) :
        p \in DOMAIN state.away /\ \E w \in state.away[p] : Touches(w, q)}}

\* Mutant: one of the cast being free is enough.
FreeReserveDaysForSome(state, s) ==
    {r.date : r \in {q \in ToSet(state.rows) :
        /\ q.kind = "RESERVE" /\ q.date \in ReserveDays
        /\ \E p \in Cast[s] : q.date \notin BlockedDates(state, p)}}

\* Any reserve day will do, the past included, if nobody of the scene is away.
FreeReserveDays(state, s) ==
    {r.date : r \in {q \in ToSet(state.rows) :
        /\ q.kind = "RESERVE" /\ q.date \in ReserveDays
        /\ \A p \in Cast[s] : q.date \notin BlockedDates(state, p)}}

RepairAvailability(state, faults) ==
    LET movable == {s \in {f.subject[2] : f \in faults} : FreeReserveDays(state, s) # {}}
        order   == Ascending(movable)
    IN  [i \in DOMAIN order |-> MoveSceneToDay(order[i], Min(FreeReserveDays(state, order[i])))]

RepairMoves(state, e) ==
    LET after == Applied(state, e.plan.moves)
    IN  IF FaultsOf(e, "C001") # {}
        THEN RepairTurnaround(after, FirstTurnaround(e).subject[1], FirstTurnaround(e).subject[2])
        ELSE RepairAvailability(after, FaultsOf(e, "C003"))

BuildRepair(state, e) ==
    Plan(e.plan.label, TRUE, e.plan.moves \o RepairMoves(state, e))

(***************************************************************************)
(* The recovery.                                                           *)
(***************************************************************************)
Generate ==
    /\ stage = "reported"
    /\ stage' = "round one"
    /\ todo' = GenerateCandidates(Projected, ImpactOf(base, event), hints)
    /\ UNCHANGED <<base, event, hints, evaluated, frontier, chosen, board, report>>

\* evaluate_plan; a plan that cannot be applied would end the request.
EvaluatePlan ==
    /\ stage \in {"round one", "round two"}
    /\ todo # <<>>
    /\ LET result == Applied(Projected, Head(todo).moves)
       IN  IF Applies(Projected, Head(todo).moves)
           THEN /\ evaluated' = Append(evaluated, [plan   |-> Head(todo),
                                                   faults |-> Validate(result),
                                                   score  |-> Score(Projected, result)])
                /\ stage' = stage
           ELSE /\ stage' = "raised"
                /\ evaluated' = evaluated
    /\ todo' = Tail(todo)
    /\ UNCHANGED <<base, event, hints, frontier, chosen, board, report>>

\* Round two: what failed and can be repaired, in the order it failed.
Repair ==
    /\ stage = "round one"
    /\ todo = <<>>
    /\ stage' = "round two"
    /\ LET failed == Ascending({i \in DOMAIN evaluated :
                        ~Valid(evaluated[i]) /\ RepairMoves(Projected, evaluated[i]) # <<>>})
       IN  todo' = [k \in DOMAIN failed |-> BuildRepair(Projected, evaluated[failed[k]])]
    /\ UNCHANGED <<base, event, hints, evaluated, frontier, chosen, board, report>>

\* Mutant: equal scores beat each other.
DominatesTies(left, right) == \A k \in 1 .. 3 : left[k] <= right[k]

\* One score is nowhere worse than another and somewhere better.
Dominates(left, right) ==
    /\ \A k \in 1 .. 3 : left[k] <= right[k]
    /\ left # right

MarkPareto ==
    /\ stage = "round two"
    /\ todo = <<>>
    /\ stage' = "offered"
    /\ LET contenders == {i \in DOMAIN evaluated : Valid(evaluated[i])}
       IN  frontier' = {i \in contenders :
               ~\E j \in contenders : Dominates(evaluated[j].score, evaluated[i].score)}
    /\ UNCHANGED <<base, event, hints, todo, evaluated, chosen, board, report>>

(***************************************************************************)
(* The execution of any plan offered as valid, on the head it was built on.*)
(***************************************************************************)
Execute(i) ==
    /\ stage = "offered"
    /\ Valid(evaluated[i])
    /\ stage' = "applying"
    /\ chosen' = i
    /\ todo' = evaluated[i].plan.moves
    /\ UNCHANGED <<base, event, hints, evaluated, frontier, board, report>>

MakeMove ==
    /\ stage = "applying"
    /\ todo # <<>>
    /\ Names(board, Head(todo))
    /\ board' = Moved(board, Head(todo))
    /\ todo' = Tail(todo)
    /\ UNCHANGED <<base, event, hints, stage, evaluated, frontier, chosen, report>>

\* Gate 2, then the insert.
Commit ==
    /\ stage = "applying"
    /\ todo = <<>>
    /\ stage' = IF Lawful(Closed(base, board)) THEN "committed" ELSE "refused"
    /\ UNCHANGED <<base, event, hints, plans, chosen, board, report>>

\* V4: what each move says is what the committed state shows.
Landed(state, m) ==
    CASE m.kind = "MoveSceneToDay" ->
            m.scene \in Scheduled(state.rows) /\ OnDate(state.rows, m.scene) = m.target
      [] m.kind = "RelocateScene" -> state.place[m.scene] = m.target
      [] m.kind = "ShiftCallTime" ->
            m.date \in DOMAIN ByDate(state.rows) /\ ByDate(state.rows)[m.date].call = m.call
      [] m.kind = "SwapDays" -> m.a \in DOMAIN ByDate(state.rows)

MovesLanded(moves, state) == \A i \in DOMAIN moves : Landed(state, moves[i])

\* V2: the same scenes are scheduled, each once.
SceneSetIntact(before, after) ==
    /\ Scheduled(after.rows) = Scheduled(before.rows)
    /\ \A s \in Scheduled(after.rows) :
          Cardinality({i \in DOMAIN after.rows : s \in after.rows[i].scenes}) = 1

\* The checks that read the schedule; V3 and V6 belong to Transition.
FailedChecks(before, after, moves) ==
      (IF Lawful(after) THEN {} ELSE {"V1"})
    \cup (IF SceneSetIntact(before, after) THEN {} ELSE {"V2"})
    \cup (IF MovesLanded(moves, after) THEN {} ELSE {"V4"})
    \cup (IF PrerequisiteOrder(after) = {} THEN {} ELSE {"V5"})

Verify ==
    /\ stage = "committed"
    /\ stage' = "verified"
    /\ report' = FailedChecks(base, Closed(base, board), evaluated[chosen].plan.moves)
    /\ UNCHANGED <<base, event, hints, plans, chosen, board>>

Next ==
    \/ Generate
    \/ EvaluatePlan
    \/ Repair
    \/ MarkPareto
    \/ \E i \in DOMAIN evaluated : Execute(i)
    \/ MakeMove
    \/ Commit
    \/ Verify

Spec == Init /\ [][Next]_vars

(***************************************************************************)
(* Properties.                                                             *)
(***************************************************************************)
OneRowPerDate(rows) ==
    \A i, j \in DOMAIN rows : rows[i].date = rows[j].date => i = j

\* Between any two moves of a plan, every scene of the board it started from
\* is on exactly one day, and there is no other (apply, verify V2).
ScenesKept ==
    OneRowPerDate(base.rows) =>
        /\ UNION {board.days[d].scenes : d \in DOMAIN board.days} = Scheduled(base.rows)
        /\ \A d, e \in DOMAIN board.days :
              d # e => board.days[d].scenes \cap board.days[e].scenes = {}

MovedTwice(moves) ==
    \E i, j \in DOMAIN moves :
        /\ i < j
        /\ moves[i].kind = "MoveSceneToDay" /\ moves[j].kind = "MoveSceneToDay"
        /\ moves[i].scene = moves[j].scene

\* A plan judged on the projected state is judged the same on the real one:
\* no plan the generator or the repair builds makes apply raise, evaluated or
\* executed, gate 2 never refuses a plan offered as valid, and its verification
\* fails at most V4, for a scene the plan moves twice, and V2, on a board with
\* two rows on a date (evaluate_plan against execute and verify).
ExecutionAgrees ==
    /\ stage \notin {"raised", "refused"}
    /\ stage = "applying" /\ todo # <<>> => Names(board, Head(todo))
    /\ report \subseteq {"V2", "V4"}
    /\ "V2" \in report => ~OneRowPerDate(base.rows)
    /\ "V4" \in report => MovedTwice(evaluated[chosen].plan.moves)

\* No plan offered for the absence of somebody the production knows leaves them
\* called on a day the absence touches (project_disruption and C003 together).
AbsenceHonoured ==
    /\ event.kind = "actor.unavailable"
    /\ event.subject \in DOMAIN base.away
    /\ event.from < event.to
    => \A i \in DOMAIN evaluated :
          Valid(evaluated[i]) =>
              \A row \in ToSet(Applied(base, evaluated[i].plan.moves).rows) :
                  Touches(Absence(event), row) =>
                      \A s \in row.scenes : event.subject \notin Cast[s]

\* A repair cures what it was built for: the turnaround it was aimed at holds
\* and the day keeps hours to work in; or no scene it moved still misses one
\* of its cast, the ones who did not cause the repair included (build_repair).
Heals(failed, repaired) ==
    LET moves == repaired.plan.moves
        first == Len(failed.plan.moves) + 1
    IN  IF FaultsOf(failed, "C001") # {}
        THEN /\ FirstTurnaround(failed) \notin repaired.faults
             /\ \A row \in ToSet(Applied(Projected, moves).rows) : row.call < row.wrap
        ELSE \A i \in first .. Len(moves) :
                \A f \in FaultsOf(repaired, "C003") : f.subject[2] # moves[i].scene

RepairsHeal ==
    \A i, j \in DOMAIN evaluated :
        /\ evaluated[i].plan.label = evaluated[j].plan.label
        /\ ~evaluated[i].plan.repair /\ evaluated[j].plan.repair
        => Heals(evaluated[i], evaluated[j])

\* The producer is shown choices only: no marked plan is invalid or beaten by a
\* valid one, and every valid plan left out is beaten by one that is shown, so
\* that nothing is lost to a tie (mark_pareto).
FrontierCovers ==
    stage = "offered" =>
        /\ \A i \in frontier : Valid(evaluated[i])
        /\ \A i, j \in frontier : ~Dominates(evaluated[i].score, evaluated[j].score)
        /\ \A i \in DOMAIN evaluated :
              Valid(evaluated[i]) /\ i \notin frontier =>
                  \E j \in frontier : Dominates(evaluated[j].score, evaluated[i].score)

\* What verify.py says of V4: every move of an approved plan is visible in the
\* state it produced.
MovesVisible == "V4" \notin report

\* What verify.py says of V2, for boards with two units on a date as well: no
\* scene is dropped by executing a plan that was offered as valid.
NoSceneDropped == "V2" \notin report
===============================================================================
