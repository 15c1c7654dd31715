--------------------------- MODULE Planning_proofs ---------------------------
(***************************************************************************)
(* Proofs about recovery, for any board, disruption, hints and parameters  *)
(* of the rules: no move loses or doubles a scene, no plan offered for an  *)
(* absence calls the absent, what a plan was judged to do is what its      *)
(* execution does, a repair cures what it was built for, and the frontier  *)
(* leaves out only what is beaten by something on it.                      *)
(*                                                                         *)
(* A plan is followed board by board: a fold over its moves has a value    *)
(* after each of them (BoardsExist), and what every move keeps holds at    *)
(* the end (Upward of FiniteOrders).                                       *)
(***************************************************************************)
EXTENDS Planning, FiniteOrders

(***************************************************************************)
(* Moves keep the scenes of a board, each on one day.                      *)
(***************************************************************************)
OnceEach(days) ==
    \A d, e \in DOMAIN days : d # e => days[d].scenes \cap days[e].scenes = {}

AllScenes(days) == UNION {days[d].scenes : d \in DOMAIN days}

\* A board whose days are rows on dates and hold the scenes of S, once each.
Holds(days, S) ==
    /\ DOMAIN days \subseteq Dates
    /\ \A d \in DOMAIN days : "scenes" \in DOMAIN days[d]
    /\ OnceEach(days)
    /\ AllScenes(days) = S

LEMMA MovedSceneHolds ==
    ASSUME NEW days, NEW S, NEW s, NEW target \in DOMAIN days,
           Holds(days, S), \E d \in DOMAIN days : s \in days[d].scenes
    PROVE  Holds(MovedScene(days, s, target), S)
<1> DEFINE src  == DayOf(days, s)
           left == [days EXCEPT ![src].scenes = @ \ {s}]
           new  == MovedScene(days, s, target)
<1>1. src \in DOMAIN days /\ s \in days[src].scenes
  <2>1. PICK d \in DOMAIN days : s \in days[d].scenes
    OBVIOUS
  <2>2. \A e \in DOMAIN days : s \in days[e].scenes => e = d
    BY <2>1 DEF Holds, OnceEach
  <2> DEFINE First(k) == /\ s \in days[k].scenes
                         /\ \A e \in DOMAIN days : s \in days[e].scenes => k <= e
  <2>3. First(d)
    <3>1. d \in Int
      BY DatesAssumption DEF Holds
    <3>2. d <= d
      BY <3>1
    <3> QED
      BY <2>1, <2>2, <3>2
  <2>4. src = CHOOSE k \in DOMAIN days : First(k)
    BY DEF DayOf
  <2> HIDE DEF First, src
  <2>5. src \in DOMAIN days /\ First(src)
    BY <2>1, <2>3, <2>4
  <2> QED
    BY <2>5 DEF First
<1>2. DOMAIN left = DOMAIN days /\ DOMAIN new = DOMAIN days
    BY DEF MovedScene
<1>3. \A d \in DOMAIN days : DOMAIN left[d] = DOMAIN days[d]
    BY <1>1
<1>4. \A d \in DOMAIN days : left[d].scenes = IF d = src THEN days[d].scenes \ {s}
                                                         ELSE days[d].scenes
    BY <1>1 DEF Holds
<1>5. new = [left EXCEPT ![target].scenes = @ \cup {s}]
    BY DEF MovedScene
<1> HIDE DEF left, new
<1>6. \A d \in DOMAIN days : DOMAIN new[d] = DOMAIN days[d]
    BY <1>2, <1>3, <1>5
<1>7. \A d \in DOMAIN days : new[d].scenes = IF d = target THEN left[d].scenes \cup {s}
                                                           ELSE left[d].scenes
    BY <1>2, <1>3, <1>5 DEF Holds
<1>8. \A d \in DOMAIN days : s \in days[d].scenes => d = src
    BY <1>1 DEF Holds, OnceEach
<1> HIDE DEF src
<1>9. \A d \in DOMAIN days : new[d].scenes = (days[d].scenes \ {s}) \cup (IF d = target THEN {s} ELSE {})
    BY <1>4, <1>7, <1>8
<1>10. OnceEach(new)
    BY <1>2, <1>9 DEF Holds, OnceEach
<1>11. AllScenes(new) = AllScenes(days)
    BY <1>1, <1>2, <1>9 DEF AllScenes
<1> QED
    BY <1>2, <1>6, <1>10, <1>11 DEF Holds, new

LEMMA CarriedScenes ==
    ASSUME NEW from, NEW onto, "scenes" \in DOMAIN onto
    PROVE  "scenes" \in DOMAIN Carried(from, onto) /\ Carried(from, onto).scenes = from.scenes
BY DEF Carried

LEMMA SwappedDaysHolds ==
    ASSUME NEW days, NEW S, NEW a \in DOMAIN days, NEW b \in DOMAIN days, Holds(days, S)
    PROVE  Holds(SwappedDays(days, a, b), S)
<1> DEFINE new == SwappedDays(days, a, b)
           Other(d) == IF d = b THEN a ELSE IF d = a THEN b ELSE d
<1>1. DOMAIN new = DOMAIN days
    BY DEF SwappedDays
<1>2. \A d \in DOMAIN days : new[d] = IF d = b THEN Carried(days[a], days[b])
                                      ELSE IF d = a THEN Carried(days[b], days[a]) ELSE days[d]
    BY DEF SwappedDays
<1> HIDE DEF new
<1>3. \A d \in DOMAIN days : "scenes" \in DOMAIN new[d] /\ new[d].scenes = days[Other(d)].scenes
    BY <1>2, CarriedScenes DEF Holds
<1>4. \A d \in DOMAIN days : Other(d) \in DOMAIN days /\ Other(Other(d)) = d
    OBVIOUS
<1> HIDE DEF Other
<1>5. OnceEach(new)
    BY <1>1, <1>3, <1>4 DEF Holds, OnceEach
<1>6. AllScenes(new) = AllScenes(days)
    BY <1>1, <1>3, <1>4 DEF AllScenes
<1> QED
    BY <1>1, <1>3, <1>5, <1>6 DEF Holds, new

LEMMA ShiftedCallHolds ==
    ASSUME NEW days, NEW S, NEW d, NEW call, d \in DOMAIN days, Holds(days, S)
    PROVE  Holds(ShiftedCall(days, d, call), S)
<1> DEFINE new == ShiftedCall(days, d, call)
<1>1. DOMAIN new = DOMAIN days
    BY DEF ShiftedCall
<1>2. \A e \in DOMAIN days : "scenes" \in DOMAIN new[e] /\ new[e].scenes = days[e].scenes
    BY DEF ShiftedCall, Holds
<1> HIDE DEF new
<1> QED
    BY <1>1, <1>2 DEF Holds, OnceEach, AllScenes, new

\* Every move keeps the scenes of a board, each on one day.
LEMMA MovedHolds ==
    ASSUME NEW brd, NEW S, NEW m, "days" \in DOMAIN brd,
           Names(brd, m), Holds(brd.days, S)
    PROVE  "days" \in DOMAIN Moved(brd, m) /\ Holds(Moved(brd, m).days, S)
<1>1. CASE m.kind = "MoveSceneToDay"
    BY <1>1, MovedSceneHolds DEF Names, Moved
<1>2. CASE m.kind = "SwapDays"
    BY <1>2, SwappedDaysHolds DEF Names, Moved
<1>3. CASE m.kind = "ShiftCallTime"
    BY <1>3, ShiftedCallHolds DEF Names, Moved
<1>4. CASE m.kind = "RelocateScene"
    BY <1>4 DEF Names, Moved
<1> QED
    BY <1>1, <1>2, <1>3, <1>4 DEF Names

\* What apply starts from, when the schedule has one row per date.
LEMMA OpenedHolds ==
    ASSUME NEW b \in Bases, OneRowPerDate(b.rows)
    PROVE  Holds(ByDate(b.rows), Scheduled(b.rows))
<1> DEFINE rows == b.rows
           days == ByDate(rows)
<1>1. /\ rows \in Seq(Row) /\ DOMAIN rows \subseteq Int
      /\ \A i, j \in DOMAIN rows : i # j => rows[i].scenes \cap rows[j].scenes = {}
    BY BasesAssumption
<1>2. \A i \in DOMAIN rows : rows[i].date \in Dates /\ "scenes" \in DOMAIN rows[i]
  <2> SUFFICES ASSUME NEW i \in DOMAIN rows PROVE rows[i].date \in Dates /\ "scenes" \in DOMAIN rows[i]
    OBVIOUS
  <2>1. rows[i] \in Row
    BY <1>1
  <2> QED
    BY <2>1 DEF Row
<1>3. DOMAIN days = {rows[i].date : i \in DOMAIN rows}
    BY DEF ByDate
<1>4. \A i \in DOMAIN rows : days[rows[i].date] = rows[i]
  <2> TAKE i \in DOMAIN rows
  <2> DEFINE P(k) == /\ rows[k].date = rows[i].date
                     /\ \A j \in DOMAIN rows : rows[j].date = rows[i].date => j <= k
  <2>1. P(i)
    BY <1>1 DEF OneRowPerDate
  <2>2. \A k \in DOMAIN rows : P(k) => k = i
    BY DEF OneRowPerDate
  <2>3. (CHOOSE k \in DOMAIN rows : P(k)) = i
    BY <2>1, <2>2
  <2>4. days[rows[i].date] = rows[CHOOSE k \in DOMAIN rows : P(k)]
    BY DEF ByDate
  <2> QED
    BY <2>3, <2>4
<1> HIDE DEF days, rows
<1>5. OnceEach(days)
    BY <1>1, <1>3, <1>4 DEF OnceEach
<1>6. AllScenes(days) = Scheduled(rows)
    BY <1>3, <1>4 DEF AllScenes, Scheduled
<1> QED
    BY <1>2, <1>3, <1>4, <1>5, <1>6 DEF Holds, days, rows

BoardInv ==
    /\ base \in Bases
    /\ OneRowPerDate(base.rows) =>
          /\ "days" \in DOMAIN board
          /\ Holds(board.days, Scheduled(base.rows))

LEMMA BoardInvInit == Init => BoardInv
BY OpenedHolds DEF Init, BoardInv, Opened

LEMMA BoardInvStep == BoardInv /\ [Next]_vars => BoardInv'
<1> SUFFICES ASSUME BoardInv, [Next]_vars PROVE BoardInv'
    OBVIOUS
<1>1. CASE MakeMove
  <2>1. base' = base /\ board' = Moved(board, Head(todo)) /\ Names(board, Head(todo))
    BY <1>1 DEF MakeMove
  <2> QED
    BY <2>1, MovedHolds DEF BoardInv
<1>2. CASE UNCHANGED <<base, board>>
    BY <1>2 DEF BoardInv
<1>3. CASE \E i \in DOMAIN evaluated : Execute(i)
    BY <1>3, <1>2 DEF Execute
<1>4. CASE Generate \/ EvaluatePlan \/ Repair \/ MarkPareto \/ Commit \/ Verify \/ UNCHANGED vars
    BY <1>4, <1>2 DEF Generate, EvaluatePlan, Repair, MarkPareto, Commit, Verify, vars
<1> QED
    BY <1>1, <1>3, <1>4 DEF Next

\* Between any two moves of any plan, every scene of a board with one row per
\* date is on exactly one day (apply, the helpers of its four moves).
THEOREM ScenesKeptHolds == Spec => []ScenesKept
<1>1. BoardInv => ScenesKept
    BY DEF BoardInv, ScenesKept, Holds, OnceEach, AllScenes
<1> QED
    BY BoardInvInit, BoardInvStep, <1>1, PTL DEF Spec

(***************************************************************************)
(* What a plan is judged on is what it does to the real board, and more.   *)
(***************************************************************************)
LEMMA ProjectionKeepsBoard ==
    ASSUME NEW b \in Bases, NEW e
    PROVE  /\ DOMAIN ProjectDisruption(b, e) = DOMAIN b
           /\ ProjectDisruption(b, e).rows = b.rows
           /\ ProjectDisruption(b, e).place = b.place
BY BasesAssumption DEF ProjectDisruption

\* A plan gives the projected state and the real one the same days.
LEMMA SameDaysApplied ==
    ASSUME NEW b \in Bases, NEW e, NEW moves
    PROVE  /\ Applied(ProjectDisruption(b, e), moves).rows = Applied(b, moves).rows
           /\ Applied(ProjectDisruption(b, e), moves).away = ProjectDisruption(b, e).away
<1> DEFINE p    == ProjectDisruption(b, e)
           made == MovesMade(b, moves)
<1>1. DOMAIN p = DOMAIN b /\ Opened(p) = Opened(b)
    BY ProjectionKeepsBoard DEF Opened
<1>2. MovesMade(p, moves) = made
    BY <1>1 DEF MovesMade
<1> HIDE DEF p, made
<1>3. Closed(p, made).rows = InOrder(Rebooked(made)) /\ Closed(b, made).rows = InOrder(Rebooked(made))
    BY <1>1, BasesAssumption DEF Closed
<1>4. Closed(p, made).away = p.away
    BY <1>1, BasesAssumption DEF Closed
<1> QED
    BY <1>2, <1>3, <1>4 DEF Applied, p, made

\* C003 sees everybody who is away on a day they are called for.
LEMMA AbsentIsViolation ==
    ASSUME NEW state, NEW row \in ToSet(state.rows), NEW s \in row.scenes,
           NEW p \in Cast[s] \cap DOMAIN state.away, NEW w \in state.away[p], Touches(w, row)
    PROVE  Validate(state) # {}
<1>1. Violation("C003", <<p, s, row.date>>) \in CastAvailability(state)
    BY DEF CastAvailability
<1> QED
    BY <1>1 DEF Validate

\* The inductive invariant: what is recorded of a plan is what validate says of
\* the state it leads to from the projected one.
JudgedInv ==
    /\ base \in Bases
    /\ \E T : evaluated \in Seq(T)
    /\ \A i \in DOMAIN evaluated :
          evaluated[i].faults = Validate(Applied(Projected, evaluated[i].plan.moves))

LEMMA AppendAny ==
    ASSUME NEW T, NEW q \in Seq(T), NEW x
    PROVE  /\ \E U : Append(q, x) \in Seq(U)
           /\ DOMAIN Append(q, x) = DOMAIN q \cup {Len(q) + 1}
           /\ \A i \in DOMAIN q : Append(q, x)[i] = q[i]
           /\ Append(q, x)[Len(q) + 1] = x
<1>1. q \in Seq(T \cup {x}) /\ x \in T \cup {x}
    OBVIOUS
<1>2. Append(q, x) \in Seq(T \cup {x})
    BY <1>1
<1>3. DOMAIN q = 1 .. Len(q) /\ Len(q) \in Nat /\ DOMAIN Append(q, x) = 1 .. Len(q) + 1
    BY <1>1, <1>2
<1> QED
    BY <1>1, <1>2, <1>3

LEMMA JudgedInvInit == Init => JudgedInv
<1> SUFFICES ASSUME Init PROVE JudgedInv
    OBVIOUS
<1>1. base \in Bases /\ evaluated = <<>>
    BY DEF Init
<1>2. <<>> \in Seq({}) /\ DOMAIN <<>> = {}
    OBVIOUS
<1> QED
    BY <1>1, <1>2 DEF JudgedInv

LEMMA JudgedInvStep == JudgedInv /\ [Next]_vars => JudgedInv'
<1> SUFFICES ASSUME JudgedInv, [Next]_vars PROVE JudgedInv'
    OBVIOUS
<1>1. CASE UNCHANGED <<base, event, evaluated>>
    BY <1>1 DEF JudgedInv, Projected
<1>2. CASE EvaluatePlan
  <2> DEFINE moves == Head(todo).moves
             entry == [plan   |-> Head(todo),
                       faults |-> Validate(Applied(Projected, moves)),
                       score  |-> Score(Projected, Applied(Projected, moves))]
  <2>1. base' = base /\ event' = event /\ Projected' = Projected
    BY <1>2 DEF EvaluatePlan, Projected
  <2>2. evaluated' = evaluated \/ evaluated' = Append(evaluated, entry)
    BY <1>2 DEF EvaluatePlan
  <2>3. entry.faults = Validate(Applied(Projected, entry.plan.moves))
    OBVIOUS
  <2> HIDE DEF entry
  <2>4. CASE evaluated' = evaluated
    BY <1>1, <2>1, <2>4
  <2>5. CASE evaluated' = Append(evaluated, entry)
    <3>1. PICK T : evaluated \in Seq(T)
      BY DEF JudgedInv
    <3>2. \E U : evaluated' \in Seq(U)
      BY <2>5, <3>1, AppendAny
    <3>3. ASSUME NEW i \in DOMAIN evaluated'
          PROVE  evaluated'[i].faults = Validate(Applied(Projected, evaluated'[i].plan.moves))
      <4>1. \/ i \in DOMAIN evaluated /\ evaluated'[i] = evaluated[i]
            \/ evaluated'[i] = entry
        BY <2>5, <3>1, <3>3, AppendAny
      <4> QED
        BY <2>3, <4>1 DEF JudgedInv
    <3> QED
      BY <2>1, <3>2, <3>3 DEF JudgedInv
  <2> QED
    BY <2>2, <2>4, <2>5
<1>3. CASE \E i \in DOMAIN evaluated : Execute(i)
    BY <1>1, <1>3 DEF Execute
<1>4. CASE Generate \/ Repair \/ MarkPareto \/ MakeMove \/ Commit \/ Verify \/ UNCHANGED vars
    BY <1>1, <1>4 DEF Generate, Repair, MarkPareto, MakeMove, Commit, Verify, plans, vars
<1> QED
    BY <1>2, <1>3, <1>4 DEF Next

LEMMA JudgedMeansHonoured == JudgedInv => AbsenceHonoured
<1> SUFFICES ASSUME JudgedInv,
                    event.kind = "actor.unavailable",
                    event.subject \in DOMAIN base.away,
                    event.from < event.to,
                    NEW i \in DOMAIN evaluated,
                    Valid(evaluated[i]),
                    NEW row \in ToSet(Applied(base, evaluated[i].plan.moves).rows),
                    Touches(Absence(event), row),
                    NEW s \in row.scenes,
                    event.subject \in Cast[s]
             PROVE  FALSE
    BY DEF AbsenceHonoured
<1> DEFINE moves  == evaluated[i].plan.moves
           result == Applied(Projected, moves)
<1>1. base \in Bases /\ Validate(result) = {}
    BY DEF JudgedInv, Valid
<1>2. row \in ToSet(result.rows) /\ result.away = Projected.away
    BY <1>1, SameDaysApplied DEF Projected
<1>3. /\ Absence(event) \in Projected.away[event.subject]
      /\ event.subject \in DOMAIN Projected.away
    BY <1>1, BasesAssumption DEF Projected, ProjectDisruption
<1> HIDE DEF result
<1> QED
    BY <1>1, <1>2, <1>3, AbsentIsViolation

\* No plan that was found valid leaves somebody the production knows called on
\* a day their reported absence touches (project_disruption with C003).
THEOREM AbsenceHonouredHolds == Spec => []AbsenceHonoured
BY JudgedInvInit, JudgedInvStep, JudgedMeansHonoured, PTL DEF Spec

(***************************************************************************)
(* A plan made move by move.                                               *)
(***************************************************************************)
IsSequence(q) == Len(q) \in Nat /\ DOMAIN q = 1 .. Len(q)

\* f[k] is the board after the first k moves of q.
Boards(f, start, q) ==
    /\ f[0] = start
    /\ \A k \in 1 .. Len(q) : f[k] = Made(f[k - 1], q[k])

LEMMA LargestIsMax ==
    ASSUME NEW S \in SUBSET Int, NEW k \in S, \A x \in S : x <= k
    PROVE  Max(S) = k
<1> DEFINE P(x) == \A y \in S : x >= y
<1>1. P(k)
    OBVIOUS
<1>2. \A x \in S : P(x) => x = k
    OBVIOUS
<1> HIDE DEF P
<1>3. (CHOOSE x \in S : P(x)) = k
    BY <1>1, <1>2
<1> QED
    BY <1>3 DEF Max, P

LEMMA BoardsExist ==
    ASSUME NEW start, NEW q, IsSequence(q)
    PROVE  \E f : Boards(f, start, q) /\ MovesFrom(start, q) = f[Len(q)]
<1> DEFINE n == Len(q)
           Next1(g, s) == IF s = {} THEN start ELSE Made(g[s \ {Max(s)}], q[Max(s)])
           Folds(g, k) == g = [s \in SUBSET (1 .. k) |-> Next1(g, s)]
           T == {k \in 0 .. n : \E g : Folds(g, k)}
<1>1. n \in Nat
    BY DEF IsSequence
<1>2. 0 \in T
  <2> DEFINE g == [s \in SUBSET (1 .. 0) |-> start]
  <2>1. \A s \in SUBSET (1 .. 0) : s = {}
    OBVIOUS
  <2>2. Folds(g, 0)
    BY <2>1
  <2> HIDE DEF g, Folds
  <2>3. 0 \in 0 .. n
    BY <1>1
  <2> QED
    BY <2>2, <2>3
<1>3. ASSUME NEW k \in 1 .. n, k - 1 \in T PROVE k \in T
  <2>1. PICK g : Folds(g, k - 1)
    BY <1>3
  <2> DEFINE h == [s \in SUBSET (1 .. k) |-> IF k \in s THEN Made(g[s \ {k}], q[k]) ELSE g[s]]
  <2>2. ASSUME NEW s \in SUBSET (1 .. k) PROVE h[s] = Next1(h, s)
    <3>1. CASE k \in s
      <4>1. Max(s) = k
        BY <3>1, <1>1, LargestIsMax
      <4>2. h[s \ {k}] = g[s \ {k}]
        OBVIOUS
      <4>3. h[s] = Made(g[s \ {k}], q[k])
        BY <3>1
      <4> HIDE DEF h
      <4> QED
        BY <3>1, <4>1, <4>2, <4>3
    <3>2. CASE k \notin s
      <4>1. s \in SUBSET (1 .. (k - 1))
        BY <3>2, <1>1
      <4>2. h[s] = g[s] /\ h[s \ {Max(s)}] = g[s \ {Max(s)}]
        BY <3>2
      <4>3. g[s] = Next1(g, s)
        BY <2>1, <4>1
      <4> HIDE DEF h, Next1
      <4> QED
        BY <4>2, <4>3 DEF Next1
    <3> QED
      BY <3>1, <3>2
  <2>3. h = [s \in SUBSET (1 .. k) |-> h[s]]
    OBVIOUS
  <2> HIDE DEF h, Next1
  <2>4. Folds(h, k)
    BY <2>2, <2>3
  <2> QED
    BY <1>1, <2>4
<1>4. n \in T
  <2> HIDE DEF T, n
  <2>1. \A k \in 1 .. n : k - 1 \in T => k \in T
    BY <1>3
  <2>2. \A k \in 0 .. n : k \in T
    BY <1>1, <1>2, <2>1, Upward
  <2> QED
    BY <1>1, <2>2
<1>5. PICK g0 : Folds(g0, n)
    BY <1>4
<1> DEFINE g == CHOOSE g : Folds(g, n)
           f == [k \in 0 .. n |-> g[1 .. k]]
<1> HIDE DEF Folds
<1>6. Folds(g, n)
    BY <1>5
<1>7. MovesFrom(start, q) = g[1 .. n]
    BY DEF MovesFrom, FoldLeft, MapThenFoldSet, IsSequence, Folds
<1> HIDE DEF g
<1>8. \A s \in SUBSET (1 .. n) : g[s] = Next1(g, s)
    BY <1>6 DEF Folds
<1>9. f[0] = start
  <2>1. g[{}] = start
    BY <1>8
  <2>2. 1 .. 0 = {} /\ 0 \in 0 .. n
    BY <1>1
  <2> QED
    BY <2>1, <2>2
<1>10. ASSUME NEW k \in 1 .. n PROVE f[k] = Made(f[k - 1], q[k])
  <2>1. 1 .. k \in SUBSET (1 .. n) /\ 1 .. k # {} /\ Max(1 .. k) = k
    <3>1. 1 .. k \in SUBSET Int /\ k \in 1 .. k /\ \A x \in 1 .. k : x <= k
      BY <1>1
    <3>2. Max(1 .. k) = k
      BY <3>1, LargestIsMax
    <3>3. 1 .. k \in SUBSET (1 .. n)
      BY <1>1
    <3> QED
      BY <3>1, <3>2, <3>3
  <2>2. (1 .. k) \ {k} = 1 .. (k - 1)
    BY <1>1
  <2>3. g[1 .. k] = Made(g[1 .. (k - 1)], q[k])
    BY <1>8, <2>1, <2>2
  <2>4. f[k] = g[1 .. k] /\ f[k - 1] = g[1 .. (k - 1)]
    BY <1>1
  <2> QED
    BY <2>3, <2>4
<1>11. f[n] = g[1 .. n]
    BY <1>1
<1> HIDE DEF f
<1>12. Boards(f, start, q)
    BY <1>9, <1>10 DEF Boards
<1> QED
    BY <1>7, <1>11, <1>12

Sequential(q) == \E T : q \in Seq(T)

LEMMA FunctionIsSeq ==
    ASSUME NEW S, NEW n \in Nat, NEW f \in [1 .. n -> S]
    PROVE  f \in Seq(S)
OBVIOUS

LEMMA AtMostItself ==
    ASSUME NEW S, S \subseteq Int, NEW d \in S
    PROVE  d <= d
<1>1. d \in Int
    OBVIOUS
<1> QED
    BY <1>1

LEMMA SequentialIs ==
    ASSUME NEW q, Sequential(q)
    PROVE  IsSequence(q)
BY DEF Sequential, IsSequence

LEMMA Joined ==
    ASSUME NEW q, NEW r, Sequential(q), Sequential(r)
    PROVE  /\ Sequential(q \o r) /\ Len(q \o r) = Len(q) + Len(r)
           /\ \A i \in 1 .. Len(q) : (q \o r)[i] = q[i]
           /\ \A i \in 1 .. Len(r) : (q \o r)[Len(q) + i] = r[i]
<1>1. PICK T, U : q \in Seq(T) /\ r \in Seq(U)
    BY DEF Sequential
<1>2. q \in Seq(T \cup U) /\ r \in Seq(T \cup U)
    BY <1>1
<1>3. q \o r \in Seq(T \cup U)
    BY <1>2
<1> QED
    BY <1>2, <1>3 DEF Sequential

LEMMA Beheaded ==
    ASSUME NEW q, Sequential(q), q # <<>>
    PROVE  /\ Sequential(Tail(q)) /\ Len(q) \in Nat \ {0} /\ Len(Tail(q)) = Len(q) - 1
           /\ Head(q) = q[1]
           /\ \A i \in 1 .. Len(q) - 1 : Tail(q)[i] = q[i + 1]
<1>1. PICK T : q \in Seq(T)
    BY DEF Sequential
<1>2. Tail(q) \in Seq(T)
    BY <1>1
<1> QED
    BY <1>1, <1>2 DEF Sequential

LEMMA BoardsAgree ==
    ASSUME NEW start, NEW q, IsSequence(q), NEW f, NEW g,
           Boards(f, start, q), Boards(g, start, q)
    PROVE  \A k \in 0 .. Len(q) : f[k] = g[k]
<1> DEFINE T == {k \in 0 .. Len(q) : f[k] = g[k]}
<1>1. Len(q) \in Nat
    BY DEF IsSequence
<1>2. 0 \in T
    BY <1>1 DEF Boards
<1>3. ASSUME NEW k \in 1 .. Len(q), k - 1 \in T PROVE k \in T
    BY <1>1, <1>3 DEF Boards
<1>4. \A k \in 0 .. Len(q) : k \in T
  <2> HIDE DEF T
  <2> QED
    BY <1>1, <1>2, <1>3, Upward
<1> QED
    BY <1>4

LEMMA LastBoard ==
    ASSUME NEW start, NEW q, IsSequence(q), NEW f, Boards(f, start, q)
    PROVE  MovesFrom(start, q) = f[Len(q)]
<1>1. PICK g : Boards(g, start, q) /\ MovesFrom(start, q) = g[Len(q)]
    BY BoardsExist
<1>2. Len(q) \in 0 .. Len(q)
    BY DEF IsSequence
<1> QED
    BY <1>1, <1>2, BoardsAgree

\* The loop of apply: the first move, then the others.
LEMMA OneMoveFirst ==
    ASSUME NEW start, NEW q, Sequential(q), q # <<>>
    PROVE  MovesFrom(start, q) = MovesFrom(Made(start, Head(q)), Tail(q))
<1>1. PICK f : Boards(f, start, q) /\ MovesFrom(start, q) = f[Len(q)]
    BY BoardsExist, SequentialIs
<1> DEFINE n == Len(q)
           g == [k \in 0 .. n - 1 |-> f[k + 1]]
<1>2. /\ IsSequence(Tail(q)) /\ n \in Nat \ {0} /\ Len(Tail(q)) = n - 1
      /\ Head(q) = q[1] /\ \A i \in 1 .. n - 1 : Tail(q)[i] = q[i + 1]
    BY Beheaded, SequentialIs
<1> HIDE DEF n
<1>3. g[0] = Made(start, Head(q))
    BY <1>1, <1>2 DEF Boards, n
<1>4. ASSUME NEW k \in 1 .. n - 1 PROVE g[k] = Made(g[k - 1], Tail(q)[k])
  <2>1. k \in 0 .. n - 1 /\ k - 1 \in 0 .. n - 1 /\ k + 1 \in 1 .. n /\ (k + 1) - 1 = k
        /\ (k - 1) + 1 = k
    BY <1>2
  <2>2. f[k + 1] = Made(f[k], q[k + 1])
    BY <1>1, <2>1 DEF Boards, n
  <2> QED
    BY <1>2, <2>1, <2>2
<1>5. g[n - 1] = f[n]
    BY <1>2
<1> HIDE DEF g
<1>6. Boards(g, Made(start, Head(q)), Tail(q))
    BY <1>2, <1>3, <1>4 DEF Boards
<1>7. MovesFrom(Made(start, Head(q)), Tail(q)) = g[Len(Tail(q))]
    BY <1>2, <1>6, LastBoard
<1>8. MovesFrom(start, q) = f[n]
    BY <1>1 DEF n
<1> QED
    BY <1>2, <1>5, <1>7, <1>8

\* The moves of a repair are made on what the moves before them led to.
LEMMA MovesThenMore ==
    ASSUME NEW start, NEW q, NEW r, Sequential(q), Sequential(r)
    PROVE  MovesFrom(start, q \o r) = MovesFrom(MovesFrom(start, q), r)
<1> DEFINE p == q \o r
           m == Len(q)
           n == Len(r)
<1>1. /\ IsSequence(q) /\ IsSequence(r) /\ IsSequence(p) /\ m \in Nat /\ n \in Nat /\ Len(p) = m + n
      /\ \A i \in 1 .. m : p[i] = q[i]
      /\ \A i \in 1 .. n : p[m + i] = r[i]
    BY Joined, SequentialIs DEF IsSequence
<1> HIDE DEF p, m, n
<1>2. PICK f : Boards(f, start, p) /\ MovesFrom(start, p) = f[m + n]
    BY <1>1, BoardsExist
<1>3. \A k \in 1 .. m : k \in 1 .. m + n
    BY <1>1
<1>4. Boards(f, start, q)
    BY <1>1, <1>2, <1>3 DEF Boards, m
<1>5. MovesFrom(start, q) = f[m]
    BY <1>1, <1>4, LastBoard DEF m
<1> DEFINE g == [k \in 0 .. n |-> f[m + k]]
<1>6. g[0] = f[m] /\ g[n] = f[m + n]
    BY <1>1
<1>7. ASSUME NEW k \in 1 .. n PROVE g[k] = Made(g[k - 1], r[k])
  <2>1. k - 1 \in 0 .. n /\ k \in 0 .. n /\ m + k \in 1 .. m + n /\ (m + k) - 1 = m + (k - 1)
    BY <1>1
  <2>2. f[m + k] = Made(f[m + (k - 1)], p[m + k])
    BY <1>1, <1>2, <2>1 DEF Boards
  <2> QED
    BY <1>1, <2>1, <2>2
<1> HIDE DEF g
<1>8. Boards(g, f[m], r)
    BY <1>6, <1>7 DEF Boards, n
<1> QED
    BY <1>1, <1>2, <1>5, <1>6, <1>8, LastBoard DEF n, p

LEMMA RaisedStays ==
    ASSUME NEW m
    PROVE  Made(Raised, m) = Raised
<1>1. DOMAIN Raised.days = {} /\ DOMAIN Raised.place = {}
    BY DEF Raised
<1>2. ~Names(Raised, m)
    BY <1>1 DEF Names
<1> QED
    BY <1>2 DEF Made

\* A plan that applies has each of its moves made.
LEMMA EachIsMade ==
    ASSUME NEW start, NEW q, IsSequence(q), NEW f, Boards(f, start, q),
           MovesFrom(start, q) # Raised
    PROVE  \A k \in 1 .. Len(q) : Names(f[k - 1], q[k]) /\ f[k] = Moved(f[k - 1], q[k])
<1> DEFINE n == Len(q)
<1>1. n \in Nat /\ f[n] # Raised
    BY LastBoard DEF IsSequence
<1> SUFFICES ASSUME NEW k \in 1 .. n, ~Names(f[k - 1], q[k]) PROVE FALSE
    BY DEF Boards, Made
<1> DEFINE T == {j \in 0 .. n : j >= k => f[j] = Raised}
<1>2. 0 \in T
    BY <1>1
<1>3. ASSUME NEW j \in 1 .. n, j - 1 \in T PROVE j \in T
  <2>1. CASE j < k
    BY <1>1, <2>1
  <2>2. CASE j = k
    BY <1>1, <2>2 DEF Boards, Made
  <2>3. CASE j > k
    BY <1>1, <1>3, <2>3, RaisedStays DEF Boards
  <2> QED
    BY <1>1, <2>1, <2>2, <2>3
<1>4. \A j \in 0 .. n : j \in T
  <2> HIDE DEF T, n
  <2> QED
    BY <1>1, <1>2, <1>3, Upward
<1>5. n \in T
    BY <1>1, <1>4
<1> QED
    BY <1>1, <1>5

(***************************************************************************)
(* What a board is made of.                                                *)
(***************************************************************************)
Typed(b) ==
    /\ DOMAIN b = {"days", "place"}
    /\ b.place \in [Scenes -> Places]
    /\ DOMAIN b.days \subseteq Dates /\ IsFiniteSet(DOMAIN b.days)
    /\ \A d \in DOMAIN b.days : b.days[d] \in Row /\ b.days[d].date = d
    /\ OnceEach(b.days)

\* What a move brings with it, as far as the board does not decide it.
Bringing(m) ==
    /\ m.kind = "ShiftCallTime" => m.call \in Int
    /\ m.kind = "RelocateScene" => m.target \in Places

LEMMA RowFields ==
    ASSUME NEW r \in Row
    PROVE  /\ r.date \in Dates /\ r.unit \in STRING /\ r.call \in Int /\ r.wrap \in Int
           /\ r.place \in Places /\ r.scenes \in SUBSET Scenes /\ r.kind \in DayKinds
           /\ DOMAIN r = {"date", "unit", "call", "wrap", "place", "scenes", "kind"}
           /\ \A S \in SUBSET Scenes : [r EXCEPT !.scenes = S] \in Row
           /\ \A c \in Int : [r EXCEPT !.call = c] \in Row
           /\ \A l \in Places : [r EXCEPT !.place = l] \in Row
BY DEF Row

LEMMA CarriedRow ==
    ASSUME NEW from \in Row, NEW onto \in Row
    PROVE  /\ Carried(from, onto) \in Row
           /\ Carried(from, onto).date = onto.date
           /\ Carried(from, onto).wrap - Carried(from, onto).call = from.wrap - from.call
<1> DEFINE call == Midnight(onto.date) + (from.call - Midnight(from.date))
<1>1. \A d \in Dates : Midnight(d) \in Int
    BY DatesAssumption DEF Midnight
<1>2. call \in Int /\ call + (from.wrap - from.call) \in Int
    BY <1>1, RowFields
<1>3. Carried(from, onto) = [onto EXCEPT !.call = call, !.wrap = call + (from.wrap - from.call),
                                         !.place = from.place, !.scenes = from.scenes]
    BY DEF Carried
<1> HIDE DEF call
<1>4. Carried(from, onto) \in Row
  <2>1. \A x, w \in Int, l \in Places, S \in SUBSET Scenes :
            [onto EXCEPT !.call = x, !.wrap = w, !.place = l, !.scenes = S] \in Row
    BY DEF Row
  <2>2. from.place \in Places /\ from.scenes \in SUBSET Scenes
    BY RowFields
  <2> DEFINE wrap == call + (from.wrap - from.call)
  <2>3. wrap \in Int
    BY <1>2
  <2>4. Carried(from, onto) = [onto EXCEPT !.call = call, !.wrap = wrap,
                                         !.place = from.place, !.scenes = from.scenes]
    BY <1>3
  <2> HIDE DEF wrap
  <2>5. call \in Int
    BY <1>2
  <2>6. [onto EXCEPT !.call = call, !.wrap = wrap, !.place = from.place,
                     !.scenes = from.scenes] \in Row
    BY <2>1, <2>2, <2>3, <2>5, Zenon
  <2> QED
    BY <2>4, <2>6
<1> QED
    BY <1>2, <1>3, <1>4, RowFields

LEMMA SceneOnBoard ==
    ASSUME NEW b, Typed(b), NEW d \in DOMAIN b.days, NEW s \in b.days[d].scenes
    PROVE  s \in Scenes
BY RowFields DEF Typed

LEMMA HoldsTyped ==
    ASSUME NEW b, Typed(b)
    PROVE  "days" \in DOMAIN b /\ Holds(b.days, AllScenes(b.days))
BY RowFields DEF Typed, Holds

LEMMA MovedTyped ==
    ASSUME NEW b, Typed(b), NEW m, Names(b, m), Bringing(m)
    PROVE  /\ Typed(Moved(b, m))
           /\ DOMAIN Moved(b, m).days = DOMAIN b.days
           /\ AllScenes(Moved(b, m).days) = AllScenes(b.days)
<1>1. Holds(Moved(b, m).days, AllScenes(b.days))
    BY HoldsTyped, MovedHolds
<1> DEFINE days == b.days
           c == Moved(b, m)
           Kept(new) == /\ DOMAIN new = DOMAIN days
                        /\ \A d \in DOMAIN days : new[d] \in Row /\ new[d].date = d
<1>2. \A d \in DOMAIN days : days[d] \in Row /\ days[d].date = d
    BY DEF Typed
<1>3. CASE m.kind = "MoveSceneToDay"
  <2> DEFINE src == DayOf(days, m.scene)
             left == [days EXCEPT ![src].scenes = @ \ {m.scene}]
  <2>1. PICK d \in DOMAIN days : m.scene \in days[d].scenes
    BY <1>3 DEF Names
  <2>2. m.scene \in Scenes /\ m.target \in DOMAIN days
    BY <1>3, <2>1, SceneOnBoard DEF Names
  <2>3. \A e \in DOMAIN days : days[e].scenes \in SUBSET Scenes
    BY <1>2, RowFields
  <2>4. Kept(left)
    <3>1. \A e \in DOMAIN days : days[e].scenes \ {m.scene} \in SUBSET Scenes
      BY <2>3
    <3>2. \A e \in DOMAIN days :
             LET r == [days[e] EXCEPT !.scenes = days[e].scenes \ {m.scene}]
             IN  r \in Row /\ r.date = e
      BY <1>2, <3>1, RowFields
    <3>3. DOMAIN left = DOMAIN days
      OBVIOUS
    <3>4. ASSUME NEW e \in DOMAIN days PROVE left[e] \in Row /\ left[e].date = e
      <4>1. left[e] = IF e = src THEN [days[e] EXCEPT !.scenes = days[e].scenes \ {m.scene}]
                                ELSE days[e]
        OBVIOUS
      <4> HIDE DEF left, src
      <4> QED
        BY <1>2, <3>2, <4>1
    <3> QED
      BY <3>3, <3>4
  <2>5. \A e \in DOMAIN left : left[e].scenes \cup {m.scene} \in SUBSET Scenes
    BY <2>2, <2>4, RowFields
  <2>6. c = [b EXCEPT !.days = [left EXCEPT ![m.target].scenes = @ \cup {m.scene}]]
    BY <1>3 DEF Moved, MovedScene
  <2> HIDE DEF left
  <2>7. Kept([left EXCEPT ![m.target].scenes = @ \cup {m.scene}])
    BY <2>2, <2>4, <2>5, RowFields
  <2> HIDE DEF c
  <2>8. c.place = b.place /\ DOMAIN c = DOMAIN b /\ Kept(c.days)
    BY <2>6, <2>7 DEF Typed
  <2> QED
    BY <1>1, <2>8 DEF Typed, Holds, c
<1>4. CASE m.kind = "SwapDays"
  <2>1. m.a \in DOMAIN days /\ m.b \in DOMAIN days
    BY <1>4 DEF Names
  <2>2. c = [b EXCEPT !.days = SwappedDays(days, m.a, m.b)]
    BY <1>4 DEF Moved
  <2>3. Carried(days[m.b], days[m.a]) \in Row /\ Carried(days[m.b], days[m.a]).date = m.a
        /\ Carried(days[m.a], days[m.b]) \in Row /\ Carried(days[m.a], days[m.b]).date = m.b
    BY <1>2, <2>1, CarriedRow
  <2>4. Kept(SwappedDays(days, m.a, m.b))
    BY <1>2, <2>1, <2>3 DEF SwappedDays
  <2> HIDE DEF c
  <2>5. c.place = b.place /\ DOMAIN c = DOMAIN b /\ Kept(c.days)
    BY <2>2, <2>4 DEF Typed
  <2> QED
    BY <1>1, <2>5 DEF Typed, Holds, c
<1>5. CASE m.kind = "ShiftCallTime"
  <2>1. m.date \in DOMAIN days /\ m.call \in Int
    BY <1>5 DEF Names, Bringing
  <2>2. c = [b EXCEPT !.days = ShiftedCall(days, m.date, m.call)]
    BY <1>5 DEF Moved
  <2>3. [days[m.date] EXCEPT !.call = m.call] \in Row
        /\ [days[m.date] EXCEPT !.call = m.call].date = m.date
    BY <1>2, <2>1, RowFields
  <2>4. Kept(ShiftedCall(days, m.date, m.call))
    BY <1>2, <2>1, <2>3 DEF ShiftedCall
  <2> HIDE DEF c
  <2>5. c.place = b.place /\ DOMAIN c = DOMAIN b /\ Kept(c.days)
    BY <2>2, <2>4 DEF Typed
  <2> QED
    BY <1>1, <2>5 DEF Typed, Holds, c
<1>6. CASE m.kind = "RelocateScene"
  <2>1. m.scene \in Scenes /\ m.target \in Places
    BY <1>6 DEF Names, Bringing, Typed
  <2>2. c = [b EXCEPT !.place = [b.place EXCEPT ![m.scene] = m.target]]
    BY <1>6 DEF Moved
  <2>3. [b.place EXCEPT ![m.scene] = m.target] \in [Scenes -> Places]
    BY <2>1 DEF Typed
  <2> HIDE DEF c
  <2>4. c.days = days /\ DOMAIN c = DOMAIN b /\ c.place \in [Scenes -> Places]
    BY <2>2, <2>3 DEF Typed
  <2> QED
    BY <2>4 DEF Typed, c
<1> QED
    BY <1>3, <1>4, <1>5, <1>6 DEF Names

(***************************************************************************)
(* Lists in order, and the rows a board is closed into.                    *)
(***************************************************************************)
LEMMA AscendingIs ==
    ASSUME NEW S, S \subseteq Int, IsFiniteSet(S)
    PROVE  /\ Ascending(S) \in Seq(S)
           /\ DOMAIN Ascending(S) = 1 .. Cardinality(S) /\ Cardinality(S) \in Nat
           /\ \A i, j \in DOMAIN Ascending(S) : i < j => Ascending(S)[i] < Ascending(S)[j]
           /\ \A x \in S : \E i \in DOMAIN Ascending(S) : Ascending(S)[i] = x
<1> DEFINE n == Cardinality(S)
           R == {p \in S \X S : p[1] < p[2]}
           q == Ascending(S)
<1>1. n \in Nat
    BY FS_CardinalityType
<1>2. StrictOn(R, S) /\ TotalOn(R, S)
    BY DEF StrictOn, TotalOn
<1>3. q = [i \in 1 .. n |-> CHOOSE x \in S : Cardinality({y \in S : y < x}) = i - 1]
    BY DEF Ascending, Sorted
<1>4. \A x \in S : Below(x, R, S) = {y \in S : y < x}
    BY DEF Below
<1>5. ASSUME NEW i \in 1 .. n
      PROVE  q[i] = CHOOSE x \in S : Cardinality(Below(x, R, S)) = i - 1
  <2> DEFINE P(x) == Cardinality(Below(x, R, S)) = i - 1
             Q(x) == Cardinality({y \in S : y < x}) = i - 1
  <2>1. \A x \in S : P(x) <=> Q(x)
    BY <1>4
  <2>2. q[i] = CHOOSE x \in S : Q(x)
    BY <1>3
  <2> HIDE DEF P, Q, q, R
  <2>3. (CHOOSE x \in S : P(x)) = (CHOOSE x \in S : Q(x))
    BY <2>1
  <2> QED
    BY <2>2, <2>3 DEF P
<1>6. DOMAIN q = 1 .. n
    BY <1>3
<1> HIDE DEF q, R, n
<1>7. /\ \A i \in 1 .. n : q[i] \in S
      /\ \A i, j \in 1 .. n : i < j => <<q[i], q[j]>> \in R
      /\ \A x \in S : \E i \in 1 .. n : q[i] = x
    BY <1>2, <1>5, FiniteListing DEF n
<1>8. \A i, j \in 1 .. n : i < j => q[i] < q[j]
    BY <1>7 DEF R
<1>9. q = [i \in 1 .. n |-> q[i]]
    BY <1>3 DEF q
<1>10. q \in Seq(S)
    BY <1>1, <1>6, <1>7, <1>9
<1> QED
    BY <1>1, <1>6, <1>7, <1>8, <1>10 DEF q, n

\* Rows in the order of their dates are the days they came from.
Lists(rows, days) ==
    /\ rows \in Seq(Row)
    /\ \A i \in DOMAIN rows : rows[i].date \in DOMAIN days /\ rows[i] = days[rows[i].date]
    /\ \A d \in DOMAIN days : \E i \in DOMAIN rows : rows[i].date = d
    /\ \A i, j \in DOMAIN rows : i < j => rows[i].date < rows[j].date

LEMMA InOrderLists ==
    ASSUME NEW days, DOMAIN days \subseteq Dates, IsFiniteSet(DOMAIN days),
           \A d \in DOMAIN days : days[d] \in Row /\ days[d].date = d
    PROVE  Lists(InOrder(days), days)
<1> DEFINE dates == Ascending(DOMAIN days)
           rows  == InOrder(days)
<1>1. DOMAIN days \subseteq Int
    BY DatesAssumption
<1>2. /\ dates \in Seq(DOMAIN days) /\ DOMAIN dates = 1 .. Cardinality(DOMAIN days)
      /\ Cardinality(DOMAIN days) \in Nat
      /\ \A i, j \in DOMAIN dates : i < j => dates[i] < dates[j]
      /\ \A d \in DOMAIN days : \E i \in DOMAIN dates : dates[i] = d
    BY <1>1, AscendingIs
<1>3. rows = [i \in DOMAIN dates |-> days[dates[i]]]
    BY DEF InOrder
<1> HIDE DEF dates, rows
<1>4. \A i \in DOMAIN dates : dates[i] \in DOMAIN days
    BY <1>2
<1>5. DOMAIN rows = DOMAIN dates
      /\ \A i \in DOMAIN rows : rows[i] = days[dates[i]] /\ rows[i].date = dates[i] /\ rows[i] \in Row
    BY <1>3, <1>4
<1>6. rows \in Seq(Row)
  <2>1. rows \in [1 .. Cardinality(DOMAIN days) -> Row]
    BY <1>2, <1>3, <1>5
  <2> QED
    BY <1>2, <2>1, FunctionIsSeq
<1> QED
    BY <1>2, <1>4, <1>5, <1>6 DEF Lists, rows

LEMMA RebookedIs ==
    ASSUME NEW b, Typed(b)
    PROVE  /\ DOMAIN Rebooked(b) = DOMAIN b.days
           /\ \A d \in DOMAIN b.days :
                 \E l \in Places : Rebooked(b)[d] = [b.days[d] EXCEPT !.place = l]
<1> SUFFICES ASSUME NEW d \in DOMAIN b.days
             PROVE  \E l \in Places : Rebooked(b)[d] = [b.days[d] EXCEPT !.place = l]
    BY DEF Rebooked
<1> DEFINE day == b.days[d]
           here(l) == {b.place[s] : s \in day.scenes} = {l}
<1>1. day \in Row
    BY DEF Typed
<1> HIDE DEF day
<1>1a. day = [day EXCEPT !.place = day.place]
    BY <1>1 DEF Row
<1>1b. day.place \in Places
    BY <1>1, RowFields
<1> USE DEF day
<1>2. Rebooked(b)[d] = IF \E l \in Places : here(l)
                       THEN [day EXCEPT !.place = CHOOSE l \in Places : here(l)]
                       ELSE day
    BY DEF Rebooked
<1> HIDE DEF here
<1>3. CASE \E l \in Places : here(l)
  <2> DEFINE l == CHOOSE k \in Places : here(k)
  <2>1. l \in Places
    BY <1>3
  <2> QED
    BY <1>2, <1>3, <2>1
<1>4. CASE ~\E l \in Places : here(l)
    BY <1>1a, <1>1b, <1>2, <1>4
<1> QED
    BY <1>3, <1>4

\* Booking a day changes nothing of it but the place.
LEMMA RebookedRow ==
    ASSUME NEW b, Typed(b), NEW d \in DOMAIN b.days
    PROVE  /\ Rebooked(b)[d] \in Row
           /\ Rebooked(b)[d].date = d
           /\ Rebooked(b)[d].unit = b.days[d].unit
           /\ Rebooked(b)[d].call = b.days[d].call
           /\ Rebooked(b)[d].wrap = b.days[d].wrap
           /\ Rebooked(b)[d].scenes = b.days[d].scenes
           /\ Rebooked(b)[d].kind = b.days[d].kind
<1>1. PICK l \in Places : Rebooked(b)[d] = [b.days[d] EXCEPT !.place = l]
    BY RebookedIs
<1>2. b.days[d] \in Row /\ b.days[d].date = d
    BY DEF Typed
<1> HIDE DEF Rebooked
<1> QED
    BY <1>1, <1>2, RowFields

Fields == {"rows", "place", "needs", "away"}

LEMMA ClosedIs ==
    ASSUME NEW state, DOMAIN state = Fields, NEW b, Typed(b)
    PROVE  /\ DOMAIN Closed(state, b) = Fields
           /\ Lists(Closed(state, b).rows, Rebooked(b))
           /\ Closed(state, b).place = b.place
           /\ Closed(state, b).needs = state.needs
           /\ Closed(state, b).away = state.away
<1>1. Lists(InOrder(Rebooked(b)), Rebooked(b))
    BY RebookedIs, RebookedRow, InOrderLists DEF Typed
<1> DEFINE rows == InOrder(Rebooked(b))
<1>2. Closed(state, b) = [state EXCEPT !.rows = rows, !.place = b.place]
    BY DEF Closed
<1> HIDE DEF rows
<1>3. /\ DOMAIN Closed(state, b) = Fields
      /\ Closed(state, b).rows = rows
      /\ Closed(state, b).place = b.place
      /\ Closed(state, b).needs = state.needs
      /\ Closed(state, b).away = state.away
    BY <1>2 DEF Fields
<1> QED
    BY <1>1, <1>3 DEF rows

\* What the rows of a closed board say of its days.
LEMMA ListsDays ==
    ASSUME NEW rows, NEW days, Lists(rows, days), OnceEach(days), DOMAIN days \subseteq Dates
    PROVE  /\ DOMAIN ByDate(rows) = DOMAIN days
           /\ \A d \in DOMAIN days : ByDate(rows)[d] = days[d]
           /\ Scheduled(rows) = AllScenes(days)
           /\ \A d \in DOMAIN days : \A s \in days[d].scenes : OnDate(rows, s) = d
           /\ \A s \in AllScenes(days) : Cardinality({i \in DOMAIN rows : s \in rows[i].scenes}) = 1
<1> USE DEF Lists
<1>0. DOMAIN days \subseteq Int /\ DOMAIN rows \subseteq Int
  <2>1. DOMAIN rows = 1 .. Len(rows) /\ Len(rows) \in Nat
    OBVIOUS
  <2>2. DOMAIN rows \subseteq Int
    BY <2>1
  <2> QED
    BY <2>2, DatesAssumption
<1>1. \A i, j \in DOMAIN rows : rows[i].date = rows[j].date => i = j
  <2> TAKE i, j \in DOMAIN rows
  <2>1. i \in Int /\ j \in Int /\ rows[i].date \in Int /\ rows[j].date \in Int
    BY <1>0
  <2>2. i < j => rows[i].date < rows[j].date
    OBVIOUS
  <2>3. j < i => rows[j].date < rows[i].date
    OBVIOUS
  <2> QED
    BY <2>1, <2>2, <2>3
<1>2. DOMAIN ByDate(rows) = DOMAIN days
  <2>1. DOMAIN ByDate(rows) = {rows[i].date : i \in DOMAIN rows}
    BY DEF ByDate
  <2>2. /\ \A i \in DOMAIN rows : rows[i].date \in DOMAIN days
        /\ \A d \in DOMAIN days : \E i \in DOMAIN rows : rows[i].date = d
    OBVIOUS
  <2> QED
    BY <2>1, <2>2, ZenonT(20)
<1>3. ASSUME NEW d \in DOMAIN days PROVE ByDate(rows)[d] = days[d]
  <2>1. PICK i \in DOMAIN rows : rows[i].date = d
    OBVIOUS
  <2> DEFINE P(k) == /\ rows[k].date = d
                     /\ \A j \in DOMAIN rows : rows[j].date = d => j <= k
  <2>2. P(i)
    <3>1. \A j \in DOMAIN rows : rows[j].date = d => j = i
      BY <1>1, <2>1
    <3>2. i <= i
      BY <1>0, AtMostItself
    <3> QED
      BY <2>1, <3>1, <3>2
  <2>3. \A k \in DOMAIN rows : P(k) => k = i
    BY <1>1, <2>1
  <2>4. ByDate(rows)[d] = rows[CHOOSE k \in DOMAIN rows : P(k)]
    BY <2>1 DEF ByDate
  <2> HIDE DEF P
  <2>5. (CHOOSE k \in DOMAIN rows : P(k)) = i
    BY <2>2, <2>3
  <2> QED
    BY <2>1, <2>4, <2>5
<1>4. Scheduled(rows) = AllScenes(days)
    BY DEF Scheduled, AllScenes
<1>5. ASSUME NEW d \in DOMAIN days, NEW s \in days[d].scenes
      PROVE  /\ OnDate(rows, s) = d
             /\ \E i \in DOMAIN rows : {j \in DOMAIN rows : s \in rows[j].scenes} = {i}
  <2>1. PICK i \in DOMAIN rows : rows[i].date = d
    OBVIOUS
  <2>2. rows[i] = days[d]
    BY <2>1
  <2>3. \A j \in DOMAIN rows : s \in rows[j].scenes => rows[j].date = d
    BY DEF OnceEach
  <2>4. {j \in DOMAIN rows : s \in rows[j].scenes} = {i}
    <3>1. \A j \in DOMAIN rows : s \in rows[j].scenes => j = i
      BY <1>1, <2>1, <2>3
    <3>2. i \in DOMAIN rows /\ s \in rows[i].scenes
      BY <2>2
    <3> QED
      BY <3>1, <3>2
  <2>5. DatesOf(rows, s) = {d}
    BY <2>1, <2>4 DEF DatesOf
  <2>6. d <= d
    BY <1>0, AtMostItself
  <2>7. OnDate(rows, s) = d
    BY <2>5, <2>6 DEF OnDate
  <2> QED
    BY <2>4, <2>7
<1>6. ASSUME NEW s \in AllScenes(days)
      PROVE  Cardinality({i \in DOMAIN rows : s \in rows[i].scenes}) = 1
  <2>1. PICK d \in DOMAIN days : s \in days[d].scenes
    BY DEF AllScenes
  <2>2. PICK i \in DOMAIN rows : {j \in DOMAIN rows : s \in rows[j].scenes} = {i}
    BY <1>5, <2>1
  <2> QED
    BY <2>2, FS_Singleton
<1> QED
    BY <1>2, <1>3, <1>4, <1>5, <1>6

(***************************************************************************)
(* What each move does to a board, and what it leaves.                     *)
(***************************************************************************)
SameHours(day, other) ==
    /\ day.call = other.call /\ day.wrap = other.wrap
    /\ day.unit = other.unit /\ day.kind = other.kind

LEMMA SceneIsMoved ==
    ASSUME NEW b, Typed(b), NEW m, Names(b, m), m.kind = "MoveSceneToDay"
    PROVE  /\ Moved(b, m).place = b.place
           /\ \A d \in DOMAIN b.days :
                 /\ SameHours(Moved(b, m).days[d], b.days[d])
                 /\ Moved(b, m).days[d].scenes =
                        (b.days[d].scenes \ {m.scene})
                            \cup (IF d = m.target THEN {m.scene} ELSE {})
<1> DEFINE days == b.days
           s    == m.scene
           src  == DayOf(days, s)
           left == [days EXCEPT ![src].scenes = @ \ {s}]
           new  == [left EXCEPT ![m.target].scenes = @ \cup {s}]
<1>1. m.target \in DOMAIN days /\ \E d \in DOMAIN days : s \in days[d].scenes
    BY DEF Names
<1>2. Moved(b, m) = [b EXCEPT !.days = new]
    BY DEF Moved, MovedScene
<1>3. Moved(b, m).place = b.place /\ Moved(b, m).days = new
    BY <1>2 DEF Typed
<1>4. \A d \in DOMAIN days : days[d] \in Row
    BY DEF Typed
<1>5. src \in DOMAIN days /\ \A d \in DOMAIN days : s \in days[d].scenes <=> d = src
  <2>1. PICK d \in DOMAIN days : s \in days[d].scenes
    BY <1>1
  <2>2. \A e \in DOMAIN days : s \in days[e].scenes => e = d
    BY <2>1 DEF Typed, OnceEach
  <2> DEFINE First(k) == /\ s \in days[k].scenes
                         /\ \A e \in DOMAIN days : s \in days[e].scenes => k <= e
  <2>3. First(d)
    <3>1. DOMAIN days \subseteq Int
      BY DatesAssumption DEF Typed
    <3>2. d <= d
      BY <3>1, AtMostItself
    <3> QED
      BY <2>1, <2>2, <3>2
  <2>4. src = CHOOSE k \in DOMAIN days : First(k)
    BY DEF DayOf
  <2>5. \A k \in DOMAIN days : First(k) => k = d
    BY <2>2
  <2> HIDE DEF First, src
  <2>6. src = d
    BY <2>1, <2>3, <2>4, <2>5
  <2> QED
    BY <2>1, <2>2, <2>6
<1> HIDE DEF src
<1>6. \A d \in DOMAIN days : left[d] = IF d = src THEN [days[d] EXCEPT !.scenes = @ \ {s}] ELSE days[d]
    BY <1>5
<1>7. \A d \in DOMAIN days :
          new[d] = IF d = m.target THEN [left[d] EXCEPT !.scenes = @ \cup {s}] ELSE left[d]
    BY <1>1
<1> HIDE DEF left, new
<1>8. ASSUME NEW d \in DOMAIN days
      PROVE  /\ SameHours(left[d], days[d]) /\ left[d].scenes = days[d].scenes \ {s}
             /\ DOMAIN left[d] = DOMAIN days[d]
  <2>1. CASE d = src
    <3>1. left[d] = [days[d] EXCEPT !.scenes = @ \ {s}]
      BY <1>6, <2>1
    <3> QED
      BY <1>4, <3>1, RowFields DEF SameHours
  <2>2. CASE d # src
    BY <1>5, <1>6, <2>2 DEF SameHours
  <2> QED
    BY <2>1, <2>2
<1>9. ASSUME NEW d \in DOMAIN days
      PROVE  /\ SameHours(new[d], days[d])
             /\ new[d].scenes = (days[d].scenes \ {s}) \cup (IF d = m.target THEN {s} ELSE {})
  <2>1. CASE d = m.target
    <3>1. new[d] = [left[d] EXCEPT !.scenes = @ \cup {s}]
      BY <1>7, <2>1
    <3>2. "scenes" \in DOMAIN left[d]
      BY <1>4, <1>8, RowFields
    <3>3. SameHours(new[d], left[d]) /\ new[d].scenes = left[d].scenes \cup {s}
      BY <3>1, <3>2 DEF SameHours
    <3> QED
      BY <1>8, <2>1, <3>3 DEF SameHours
  <2>2. CASE d # m.target
    BY <1>7, <1>8, <2>2 DEF SameHours
  <2> QED
    BY <2>1, <2>2
<1> QED
    BY <1>3, <1>9

LEMMA CallIsShifted ==
    ASSUME NEW b, Typed(b), NEW m, Names(b, m), m.kind = "ShiftCallTime"
    PROVE  /\ Moved(b, m).place = b.place
           /\ \A d \in DOMAIN b.days :
                 /\ Moved(b, m).days[d].scenes = b.days[d].scenes
                 /\ Moved(b, m).days[d].wrap = b.days[d].wrap
                 /\ Moved(b, m).days[d].call = IF d = m.date THEN m.call ELSE b.days[d].call
                 /\ Moved(b, m).days[d].unit = b.days[d].unit
                 /\ Moved(b, m).days[d].kind = b.days[d].kind
<1>1. m.date \in DOMAIN b.days
    BY DEF Names
<1> DEFINE new == ShiftedCall(b.days, m.date, m.call)
<1>2. Moved(b, m) = [b EXCEPT !.days = new]
    BY DEF Moved
<1>3. new = [b.days EXCEPT ![m.date].call = m.call]
    BY DEF ShiftedCall
<1> HIDE DEF new
<1>4. Moved(b, m).place = b.place /\ Moved(b, m).days = new
    BY <1>2 DEF Typed
<1>5. \A d \in DOMAIN b.days : b.days[d] \in Row
    BY DEF Typed
<1>6. \A d \in DOMAIN b.days :
          new[d] = IF d = m.date THEN [b.days[d] EXCEPT !.call = m.call] ELSE b.days[d]
    BY <1>1, <1>3
<1>7. ASSUME NEW d \in DOMAIN b.days
      PROVE  /\ new[d].scenes = b.days[d].scenes /\ new[d].wrap = b.days[d].wrap
             /\ new[d].call = IF d = m.date THEN m.call ELSE b.days[d].call
             /\ new[d].unit = b.days[d].unit /\ new[d].kind = b.days[d].kind
  <2>1. DOMAIN b.days[d] = {"date", "unit", "call", "wrap", "place", "scenes", "kind"}
    BY <1>5, RowFields
  <2>2. CASE d = m.date
    <3>1. new[d] = [b.days[d] EXCEPT !.call = m.call]
      BY <1>6, <2>2
    <3> QED
      BY <2>1, <2>2, <3>1
  <2>3. CASE d # m.date
    BY <1>6, <2>3
  <2> QED
    BY <2>2, <2>3
<1> QED
    BY <1>4, <1>7

LEMMA SceneIsRelocated ==
    ASSUME NEW b, Typed(b), NEW m, Names(b, m), m.kind = "RelocateScene"
    PROVE  /\ Moved(b, m).days = b.days
           /\ m.scene \in Scenes
           /\ \A s \in Scenes : Moved(b, m).place[s] = IF s = m.scene THEN m.target ELSE b.place[s]
<1>1. m.scene \in Scenes /\ b.place \in [Scenes -> Places] /\ "place" \in DOMAIN b
    BY DEF Names, Typed
<1>2. Moved(b, m) = [b EXCEPT !.place[m.scene] = m.target]
    BY DEF Moved
<1> QED
    BY <1>1, <1>2

LEMMA DaysAreSwapped ==
    ASSUME NEW b, Typed(b), NEW m, Names(b, m), m.kind = "SwapDays"
    PROVE  /\ Moved(b, m).place = b.place
           /\ m.a \in DOMAIN b.days /\ m.b \in DOMAIN b.days
           /\ \A d \in DOMAIN b.days :
                 Moved(b, m).days[d] = IF d = m.b THEN Carried(b.days[m.a], b.days[m.b])
                                       ELSE IF d = m.a THEN Carried(b.days[m.b], b.days[m.a])
                                       ELSE b.days[d]
<1>1. m.a \in DOMAIN b.days /\ m.b \in DOMAIN b.days
    BY DEF Names
<1> DEFINE new == SwappedDays(b.days, m.a, m.b)
<1>2. Moved(b, m) = [b EXCEPT !.days = new]
    BY DEF Moved
<1>3. \A d \in DOMAIN b.days :
          new[d] = IF d = m.b THEN Carried(b.days[m.a], b.days[m.b])
                   ELSE IF d = m.a THEN Carried(b.days[m.b], b.days[m.a]) ELSE b.days[d]
    BY <1>1 DEF SwappedDays
<1> HIDE DEF new
<1>4. Moved(b, m).place = b.place /\ Moved(b, m).days = new
    BY <1>2 DEF Typed
<1> QED
    BY <1>1, <1>3, <1>4

(***************************************************************************)
(* What a move says is what the board shows, until a move that may undo it.*)
(***************************************************************************)
Shows(b, m) ==
    /\ m.kind \in {"MoveSceneToDay", "SwapDays", "ShiftCallTime", "RelocateScene"}
    /\ m.kind = "MoveSceneToDay" => m.target \in DOMAIN b.days /\ m.scene \in b.days[m.target].scenes
    /\ m.kind = "SwapDays"       => m.a \in DOMAIN b.days
    /\ m.kind = "ShiftCallTime"  => m.date \in DOMAIN b.days /\ b.days[m.date].call = m.call
    /\ m.kind = "RelocateScene"  => b.place[m.scene] = m.target

\* A later move n leaves what m says alone.
Leaves(n, m) ==
    /\ n.kind # "SwapDays"
    /\ n.kind = "MoveSceneToDay" /\ m.kind = "MoveSceneToDay" => n.scene # m.scene
    /\ ~(n.kind = "ShiftCallTime" /\ m.kind = "ShiftCallTime")
    /\ n.kind = "RelocateScene" /\ m.kind = "RelocateScene" => n.target = m.target

LEMMA MadeIsShown ==
    ASSUME NEW b, Typed(b), NEW m, Names(b, m), Bringing(m)
    PROVE  Shows(Moved(b, m), m)
<1>1. DOMAIN Moved(b, m).days = DOMAIN b.days
    BY MovedTyped
<1>2. CASE m.kind = "MoveSceneToDay"
  <2>1. m.target \in DOMAIN b.days
    BY <1>2 DEF Names
  <2>2. m.scene \in Moved(b, m).days[m.target].scenes
    BY <1>2, <2>1, SceneIsMoved
  <2> QED
    BY <1>1, <1>2, <2>1, <2>2 DEF Shows
<1>3. CASE m.kind = "SwapDays"
    BY <1>1, <1>3, DaysAreSwapped DEF Shows
<1>4. CASE m.kind = "ShiftCallTime"
  <2>1. m.date \in DOMAIN b.days
    BY <1>4 DEF Names
  <2> QED
    BY <1>1, <1>4, <2>1, CallIsShifted DEF Shows
<1>5. CASE m.kind = "RelocateScene"
    BY <1>1, <1>5, SceneIsRelocated DEF Shows
<1> QED
    BY <1>2, <1>3, <1>4, <1>5 DEF Names

LEMMA ShownStays ==
    ASSUME NEW b, Typed(b), NEW m, Shows(b, m), m.kind = "RelocateScene" => m.scene \in Scenes,
           NEW n, Names(b, n), Bringing(n), Leaves(n, m)
    PROVE  Shows(Moved(b, n), m)
<1>1. DOMAIN Moved(b, n).days = DOMAIN b.days
    BY MovedTyped
<1>2. CASE n.kind = "MoveSceneToDay"
  <2>1. /\ Moved(b, n).place = b.place
        /\ \A d \in DOMAIN b.days :
              /\ Moved(b, n).days[d].call = b.days[d].call
              /\ Moved(b, n).days[d].scenes =
                    (b.days[d].scenes \ {n.scene}) \cup (IF d = n.target THEN {n.scene} ELSE {})
    BY <1>2, SceneIsMoved DEF SameHours
  <2> QED
    BY <1>1, <1>2, <2>1 DEF Shows, Leaves
<1>3. CASE n.kind = "ShiftCallTime"
  <2>1. /\ Moved(b, n).place = b.place
        /\ \A d \in DOMAIN b.days : Moved(b, n).days[d].scenes = b.days[d].scenes
    BY <1>3, CallIsShifted
  <2> QED
    BY <1>1, <1>3, <2>1 DEF Shows, Leaves
<1>4. CASE n.kind = "RelocateScene"
  <2>1. /\ Moved(b, n).days = b.days
        /\ \A s \in Scenes : Moved(b, n).place[s] = IF s = n.scene THEN n.target ELSE b.place[s]
    BY <1>4, SceneIsRelocated
  <2> QED
    BY <1>4, <2>1 DEF Shows, Leaves
<1> QED
    BY <1>2, <1>3, <1>4 DEF Names, Leaves

LEMMA ShownHasLanded ==
    ASSUME NEW state, DOMAIN state = Fields, NEW b, Typed(b), NEW m, Shows(b, m)
    PROVE  Landed(Closed(state, b), m)
<1> DEFINE rows == Closed(state, b).rows
           days == Rebooked(b)
<1>1. Lists(rows, days) /\ Closed(state, b).place = b.place
    BY ClosedIs
<1>2. DOMAIN days = DOMAIN b.days /\ DOMAIN days \subseteq Dates
    BY RebookedIs DEF Typed
<1>3. \A d \in DOMAIN b.days : days[d].call = b.days[d].call /\ days[d].scenes = b.days[d].scenes
    BY RebookedRow
<1>4. OnceEach(days)
    BY <1>2, <1>3 DEF OnceEach, Typed
<1> HIDE DEF rows, days
<1>5. /\ DOMAIN ByDate(rows) = DOMAIN days
      /\ \A d \in DOMAIN days : ByDate(rows)[d] = days[d]
      /\ Scheduled(rows) = AllScenes(days)
      /\ \A d \in DOMAIN days : \A s \in days[d].scenes : OnDate(rows, s) = d
    BY <1>1, <1>2, <1>4, ListsDays
<1>6. CASE m.kind = "MoveSceneToDay"
  <2>1. m.target \in DOMAIN days /\ m.scene \in days[m.target].scenes
    BY <1>2, <1>3, <1>6 DEF Shows
  <2>2. m.scene \in Scheduled(rows) /\ OnDate(rows, m.scene) = m.target
    BY <1>5, <2>1 DEF AllScenes
  <2> QED
    BY <1>6, <2>2 DEF Landed, rows
<1>7. CASE m.kind = "SwapDays"
    BY <1>2, <1>5, <1>7 DEF Shows, Landed, rows
<1>8. CASE m.kind = "ShiftCallTime"
  <2>1. m.date \in DOMAIN ByDate(rows) /\ ByDate(rows)[m.date].call = m.call
    BY <1>2, <1>3, <1>5, <1>8 DEF Shows
  <2> QED
    BY <1>8, <2>1 DEF Landed, rows
<1>9. CASE m.kind = "RelocateScene"
    BY <1>1, <1>9 DEF Shows, Landed
<1> QED
    BY <1>6, <1>7, <1>8, <1>9 DEF Shows

\* The boards of a plan that applies.
LEMMA PlanBoards ==
    ASSUME NEW start, Typed(start), NEW q, IsSequence(q), NEW f, Boards(f, start, q),
           MovesFrom(start, q) # Raised, \A k \in 1 .. Len(q) : Bringing(q[k])
    PROVE  \A k \in 0 .. Len(q) :
              /\ Typed(f[k])
              /\ DOMAIN f[k].days = DOMAIN start.days
              /\ AllScenes(f[k].days) = AllScenes(start.days)
<1> DEFINE n == Len(q)
           Good(b) == /\ Typed(b) /\ DOMAIN b.days = DOMAIN start.days
                      /\ AllScenes(b.days) = AllScenes(start.days)
           T == {k \in 0 .. n : Good(f[k])}
<1>1. n \in Nat /\ f[0] = start
    BY DEF IsSequence, Boards
<1>2. \A k \in 1 .. n : Names(f[k - 1], q[k]) /\ f[k] = Moved(f[k - 1], q[k])
    BY EachIsMade
<1>3. 0 \in T
    BY <1>1
<1>4. ASSUME NEW k \in 1 .. n, k - 1 \in T PROVE k \in T
  <2>1. Good(f[k - 1])
    BY <1>4
  <2>2. Good(Moved(f[k - 1], q[k]))
    BY <1>2, <2>1, MovedTyped
  <2> HIDE DEF Good
  <2> QED
    BY <1>1, <1>2, <2>2
<1>5. \A k \in 0 .. n : k \in T
  <2> HIDE DEF T, n
  <2> QED
    BY <1>1, <1>3, <1>4, Upward
<1> QED
    BY <1>5

\* What a plan says it does is there at the end, if no later move undoes it.
LEMMA PlanIsShown ==
    ASSUME NEW start, Typed(start), NEW q, IsSequence(q), MovesFrom(start, q) # Raised,
           \A k \in 1 .. Len(q) : Bringing(q[k]),
           \A i, j \in 1 .. Len(q) : i < j => Leaves(q[j], q[i])
    PROVE  \A i \in 1 .. Len(q) : Shows(MovesFrom(start, q), q[i])
<1> DEFINE n == Len(q)
<1>1. PICK f : Boards(f, start, q) /\ MovesFrom(start, q) = f[n]
    BY BoardsExist
<1>2. n \in Nat
    BY DEF IsSequence
<1>3. \A k \in 1 .. n : Names(f[k - 1], q[k]) /\ f[k] = Moved(f[k - 1], q[k])
    BY <1>1, EachIsMade
<1>4. \A k \in 0 .. n : Typed(f[k])
    BY <1>1, PlanBoards
<1> SUFFICES ASSUME NEW i \in 1 .. n PROVE Shows(f[n], q[i])
    BY <1>1
<1> DEFINE T == {k \in 0 .. n : k >= i => Shows(f[k], q[i])}
<1>5. i - 1 \in 0 .. n
    BY <1>2
<1>6. q[i].kind = "RelocateScene" => q[i].scene \in Scenes
    BY <1>3, <1>4, <1>5, SceneIsRelocated
<1>7. 0 \in T
    BY <1>2
<1>8. ASSUME NEW k \in 1 .. n, k - 1 \in T PROVE k \in T
  <2>1. Typed(f[k - 1])
    BY <1>2, <1>4
  <2>2. CASE k < i
    BY <1>2, <2>2
  <2>3. CASE k = i
    <3>1. Shows(f[k], q[i])
      BY <1>3, <2>1, <2>3, MadeIsShown
    <3> QED
      BY <1>2, <3>1
  <2>4. CASE k > i
    <3>1. Shows(f[k - 1], q[i]) /\ Leaves(q[k], q[i])
      BY <1>2, <1>8, <2>4
    <3>2. Shows(f[k], q[i])
      BY <1>3, <1>6, <2>1, <3>1, ShownStays
    <3> QED
      BY <1>2, <3>2
  <2> QED
    BY <1>2, <2>2, <2>3, <2>4
<1>9. \A k \in 0 .. n : k \in T
  <2> HIDE DEF T, n
  <2> QED
    BY <1>2, <1>7, <1>8, Upward
<1>10. n \in T
    BY <1>2, <1>9
<1> QED
    BY <1>2, <1>10

(***************************************************************************)
(* The other two loops: a day that sheds scenes, and the plans that are    *)
(* kept.  Each is what its step makes of the loop so far.                  *)
(***************************************************************************)
Lightened(state, capacity, target, start, q) ==
    FoldLeft(LAMBDA day, s : Shed(state, capacity, target, day, s), start, q)

\* f[k] is the day after the first k of its scenes, in q, were looked at.
Shedding(f, state, capacity, target, start, q) ==
    /\ f[0] = start
    /\ \A k \in 1 .. Len(q) : f[k] = Shed(state, capacity, target, f[k - 1], q[k])

LEMMA SheddingExists ==
    ASSUME NEW state, NEW capacity, NEW target, NEW start, NEW q, IsSequence(q)
    PROVE  \E f : /\ Shedding(f, state, capacity, target, start, q)
                  /\ Lightened(state, capacity, target, start, q) = f[Len(q)]
<1> DEFINE n == Len(q)
           Next1(g, s) == IF s = {} THEN start
                          ELSE Shed(state, capacity, target, g[s \ {Max(s)}], q[Max(s)])
           Folds(g, k) == g = [s \in SUBSET (1 .. k) |-> Next1(g, s)]
           T == {k \in 0 .. n : \E g : Folds(g, k)}
<1>1. n \in Nat
    BY DEF IsSequence
<1>2. 0 \in T
  <2> DEFINE g == [s \in SUBSET (1 .. 0) |-> start]
  <2>1. \A s \in SUBSET (1 .. 0) : s = {}
    OBVIOUS
  <2>2. Folds(g, 0)
    BY <2>1
  <2> HIDE DEF g, Folds
  <2>3. 0 \in 0 .. n
    BY <1>1
  <2> QED
    BY <2>2, <2>3
<1>3. ASSUME NEW k \in 1 .. n, k - 1 \in T PROVE k \in T
  <2>1. PICK g : Folds(g, k - 1)
    BY <1>3
  <2> DEFINE h == [s \in SUBSET (1 .. k) |->
                      IF k \in s THEN Shed(state, capacity, target, g[s \ {k}], q[k]) ELSE g[s]]
  <2>2. ASSUME NEW s \in SUBSET (1 .. k) PROVE h[s] = Next1(h, s)
    <3>1. CASE k \in s
      <4>1. Max(s) = k
        BY <3>1, <1>1, LargestIsMax
      <4>2. h[s \ {k}] = g[s \ {k}]
        OBVIOUS
      <4>3. h[s] = Shed(state, capacity, target, g[s \ {k}], q[k])
        BY <3>1
      <4> HIDE DEF h
      <4> QED
        BY <3>1, <4>1, <4>2, <4>3
    <3>2. CASE k \notin s
      <4>1. s \in SUBSET (1 .. (k - 1))
        BY <3>2, <1>1
      <4>2. h[s] = g[s] /\ h[s \ {Max(s)}] = g[s \ {Max(s)}]
        BY <3>2
      <4>3. g[s] = Next1(g, s)
        BY <2>1, <4>1
      <4> HIDE DEF h, Next1
      <4> QED
        BY <4>2, <4>3 DEF Next1
    <3> QED
      BY <3>1, <3>2
  <2>3. h = [s \in SUBSET (1 .. k) |-> h[s]]
    OBVIOUS
  <2> HIDE DEF h, Next1
  <2>4. Folds(h, k)
    BY <2>2, <2>3
  <2> QED
    BY <1>1, <2>4
<1>4. n \in T
  <2> HIDE DEF T, n
  <2>1. \A k \in 1 .. n : k - 1 \in T => k \in T
    BY <1>3
  <2>2. \A k \in 0 .. n : k \in T
    BY <1>1, <1>2, <2>1, Upward
  <2> QED
    BY <1>1, <2>2
<1>5. PICK g0 : Folds(g0, n)
    BY <1>4
<1> DEFINE g == CHOOSE g : Folds(g, n)
           f == [k \in 0 .. n |-> g[1 .. k]]
<1> HIDE DEF Folds
<1>6. Folds(g, n)
    BY <1>5
<1>7. Lightened(state, capacity, target, start, q) = g[1 .. n]
    BY DEF Lightened, FoldLeft, MapThenFoldSet, IsSequence, Folds
<1> HIDE DEF g
<1>8. \A s \in SUBSET (1 .. n) : g[s] = Next1(g, s)
    BY <1>6 DEF Folds
<1>9. f[0] = start
  <2>1. g[{}] = start
    BY <1>8
  <2>2. 1 .. 0 = {} /\ 0 \in 0 .. n
    BY <1>1
  <2> QED
    BY <2>1, <2>2
<1>10. ASSUME NEW k \in 1 .. n PROVE f[k] = Shed(state, capacity, target, f[k - 1], q[k])
  <2>1. 1 .. k \in SUBSET (1 .. n) /\ 1 .. k # {} /\ Max(1 .. k) = k
    <3>1. 1 .. k \in SUBSET Int /\ k \in 1 .. k /\ \A x \in 1 .. k : x <= k
      BY <1>1
    <3>2. Max(1 .. k) = k
      BY <3>1, LargestIsMax
    <3>3. 1 .. k \in SUBSET (1 .. n)
      BY <1>1
    <3> QED
      BY <3>1, <3>2, <3>3
  <2>2. (1 .. k) \ {k} = 1 .. (k - 1)
    BY <1>1
  <2>3. g[1 .. k] = Shed(state, capacity, target, g[1 .. (k - 1)], q[k])
    BY <1>8, <2>1, <2>2
  <2>4. f[k] = g[1 .. k] /\ f[k - 1] = g[1 .. (k - 1)]
    BY <1>1
  <2> QED
    BY <2>3, <2>4
<1>11. f[n] = g[1 .. n]
    BY <1>1
<1> HIDE DEF f
<1>12. Shedding(f, state, capacity, target, start, q)
    BY <1>9, <1>10 DEF Shedding
<1> QED
    BY <1>7, <1>11, <1>12

Kept(state, start, q) ==
    FoldLeft(LAMBDA kept, moves : Keep(state, kept, moves), start, q)

\* f[k] is what is kept of the first k proposals in q.
Keeping(f, state, start, q) ==
    /\ f[0] = start
    /\ \A k \in 1 .. Len(q) : f[k] = Keep(state, f[k - 1], q[k])

LEMMA KeepingExists ==
    ASSUME NEW state, NEW start, NEW q, IsSequence(q)
    PROVE  \E f : /\ Keeping(f, state, start, q)
                  /\ Kept(state, start, q) = f[Len(q)]
<1> DEFINE n == Len(q)
           Next1(g, s) == IF s = {} THEN start
                          ELSE Keep(state, g[s \ {Max(s)}], q[Max(s)])
           Folds(g, k) == g = [s \in SUBSET (1 .. k) |-> Next1(g, s)]
           T == {k \in 0 .. n : \E g : Folds(g, k)}
<1>1. n \in Nat
    BY DEF IsSequence
<1>2. 0 \in T
  <2> DEFINE g == [s \in SUBSET (1 .. 0) |-> start]
  <2>1. \A s \in SUBSET (1 .. 0) : s = {}
    OBVIOUS
  <2>2. Folds(g, 0)
    BY <2>1
  <2> HIDE DEF g, Folds
  <2>3. 0 \in 0 .. n
    BY <1>1
  <2> QED
    BY <2>2, <2>3
<1>3. ASSUME NEW k \in 1 .. n, k - 1 \in T PROVE k \in T
  <2>1. PICK g : Folds(g, k - 1)
    BY <1>3
  <2> DEFINE h == [s \in SUBSET (1 .. k) |->
                      IF k \in s THEN Keep(state, g[s \ {k}], q[k]) ELSE g[s]]
  <2>2. ASSUME NEW s \in SUBSET (1 .. k) PROVE h[s] = Next1(h, s)
    <3>1. CASE k \in s
      <4>1. Max(s) = k
        BY <3>1, <1>1, LargestIsMax
      <4>2. h[s \ {k}] = g[s \ {k}]
        OBVIOUS
      <4>3. h[s] = Keep(state, g[s \ {k}], q[k])
        BY <3>1
      <4> HIDE DEF h
      <4> QED
        BY <3>1, <4>1, <4>2, <4>3
    <3>2. CASE k \notin s
      <4>1. s \in SUBSET (1 .. (k - 1))
        BY <3>2, <1>1
      <4>2. h[s] = g[s] /\ h[s \ {Max(s)}] = g[s \ {Max(s)}]
        BY <3>2
      <4>3. g[s] = Next1(g, s)
        BY <2>1, <4>1
      <4> HIDE DEF h, Next1
      <4> QED
        BY <4>2, <4>3 DEF Next1
    <3> QED
      BY <3>1, <3>2
  <2>3. h = [s \in SUBSET (1 .. k) |-> h[s]]
    OBVIOUS
  <2> HIDE DEF h, Next1
  <2>4. Folds(h, k)
    BY <2>2, <2>3
  <2> QED
    BY <1>1, <2>4
<1>4. n \in T
  <2> HIDE DEF T, n
  <2>1. \A k \in 1 .. n : k - 1 \in T => k \in T
    BY <1>3
  <2>2. \A k \in 0 .. n : k \in T
    BY <1>1, <1>2, <2>1, Upward
  <2> QED
    BY <1>1, <2>2
<1>5. PICK g0 : Folds(g0, n)
    BY <1>4
<1> DEFINE g == CHOOSE g : Folds(g, n)
           f == [k \in 0 .. n |-> g[1 .. k]]
<1> HIDE DEF Folds
<1>6. Folds(g, n)
    BY <1>5
<1>7. Kept(state, start, q) = g[1 .. n]
    BY DEF Kept, FoldLeft, MapThenFoldSet, IsSequence, Folds
<1> HIDE DEF g
<1>8. \A s \in SUBSET (1 .. n) : g[s] = Next1(g, s)
    BY <1>6 DEF Folds
<1>9. f[0] = start
  <2>1. g[{}] = start
    BY <1>8
  <2>2. 1 .. 0 = {} /\ 0 \in 0 .. n
    BY <1>1
  <2> QED
    BY <2>1, <2>2
<1>10. ASSUME NEW k \in 1 .. n PROVE f[k] = Keep(state, f[k - 1], q[k])
  <2>1. 1 .. k \in SUBSET (1 .. n) /\ 1 .. k # {} /\ Max(1 .. k) = k
    <3>1. 1 .. k \in SUBSET Int /\ k \in 1 .. k /\ \A x \in 1 .. k : x <= k
      BY <1>1
    <3>2. Max(1 .. k) = k
      BY <3>1, LargestIsMax
    <3>3. 1 .. k \in SUBSET (1 .. n)
      BY <1>1
    <3> QED
      BY <3>1, <3>2, <3>3
  <2>2. (1 .. k) \ {k} = 1 .. (k - 1)
    BY <1>1
  <2>3. g[1 .. k] = Keep(state, g[1 .. (k - 1)], q[k])
    BY <1>8, <2>1, <2>2
  <2>4. f[k] = g[1 .. k] /\ f[k - 1] = g[1 .. (k - 1)]
    BY <1>1
  <2> QED
    BY <2>3, <2>4
<1>11. f[n] = g[1 .. n]
    BY <1>1
<1> HIDE DEF f
<1>12. Keeping(f, state, start, q)
    BY <1>9, <1>10 DEF Keeping
<1> QED
    BY <1>7, <1>11, <1>12

\* Lists of elements of X, one after the other, are a list of elements of X.
LEMMA FlattenedIs ==
    ASSUME NEW X, NEW lists, Sequential(lists), \A i \in 1 .. Len(lists) : lists[i] \in Seq(X)
    PROVE  FlattenSeq(lists) \in Seq(X)
<1> DEFINE n == Len(lists)
           Next1(g, i) == IF i = 1 THEN lists[i] ELSE g[i - 1] \o lists[i]
           Flat(g, k)  == g = [i \in 1 .. k |-> Next1(g, i)]
           T == {k \in 0 .. n : \E g : Flat(g, k)}
<1>1. n \in Nat /\ DOMAIN lists = 1 .. n
    BY SequentialIs DEF IsSequence
<1>2. 0 \in T
  <2> DEFINE g == [i \in 1 .. 0 |-> lists[i]]
  <2>1. 1 .. 0 = {}
    OBVIOUS
  <2>2. Flat(g, 0)
    BY <2>1
  <2> HIDE DEF g, Flat
  <2>3. 0 \in 0 .. n
    BY <1>1
  <2> QED
    BY <2>2, <2>3
<1>3. ASSUME NEW k \in 1 .. n, k - 1 \in T PROVE k \in T
  <2>1. PICK g : Flat(g, k - 1)
    BY <1>3
  <2> DEFINE h == [i \in 1 .. k |-> IF i = k THEN Next1(g, k) ELSE g[i]]
  <2>2. ASSUME NEW i \in 1 .. k PROVE h[i] = Next1(h, i)
    <3>1. CASE i = k
      <4>1. i # 1 => i - 1 \in 1 .. k /\ i - 1 # k
        BY <1>1, <3>1
      <4>2. i # 1 => h[i - 1] = g[i - 1]
        BY <4>1
      <4>3. h[i] = Next1(g, i)
        BY <3>1
      <4> HIDE DEF h
      <4> QED
        BY <4>2, <4>3
    <3>2. CASE i # k
      <4>1. i \in 1 .. (k - 1) /\ (i # 1 => i - 1 \in 1 .. k /\ i - 1 # k)
        BY <1>1, <3>2
      <4>2. h[i] = g[i] /\ (i # 1 => h[i - 1] = g[i - 1])
        BY <3>2, <4>1
      <4>3. g[i] = Next1(g, i)
        BY <2>1, <4>1
      <4> HIDE DEF h
      <4> QED
        BY <4>2, <4>3
    <3> QED
      BY <3>1, <3>2
  <2>3. h = [i \in 1 .. k |-> h[i]]
    OBVIOUS
  <2> HIDE DEF h, Next1
  <2>4. Flat(h, k)
    BY <2>2, <2>3
  <2> QED
    BY <1>1, <2>4
<1>4. n \in T
  <2> HIDE DEF T, n
  <2>1. \A k \in 1 .. n : k - 1 \in T => k \in T
    BY <1>3
  <2>2. \A k \in 0 .. n : k \in T
    BY <1>1, <1>2, <2>1, Upward
  <2> QED
    BY <1>1, <2>2
<1>5. PICK g0 : Flat(g0, n)
    BY <1>4
<1> DEFINE g == CHOOSE g : Flat(g, n)
<1>6. Flat(g, n)
  <2> HIDE DEF Flat
  <2> QED
    BY <1>5
<1>7. n # 0 => FlattenSeq(lists) = g[n]
    BY DEF FlattenSeq
<1> HIDE DEF g
<1>8. \A i \in 1 .. n : g[i] = Next1(g, i)
    BY <1>6
<1> DEFINE U == {k \in 0 .. n : k # 0 => g[k] \in Seq(X)}
<1>9. 0 \in U
    BY <1>1
<1>10. ASSUME NEW k \in 1 .. n, k - 1 \in U PROVE k \in U
  <2>1. lists[k] \in Seq(X) /\ g[k] = Next1(g, k)
    BY <1>8
  <2>2. CASE k = 1
    BY <1>1, <2>1, <2>2
  <2>3. CASE k # 1
    <3>1. g[k - 1] \in Seq(X)
      BY <1>1, <1>10, <2>3
    <3>2. g[k - 1] \o lists[k] \in Seq(X)
      BY <2>1, <3>1
    <3>3. g[k] = g[k - 1] \o lists[k]
      BY <2>1, <2>3
    <3>4. k \in 0 .. n
      BY <1>1
    <3> HIDE DEF n, Next1
    <3> QED
      BY <3>2, <3>3, <3>4
  <2> QED
    BY <2>2, <2>3
<1>11. \A k \in 0 .. n : k \in U
  <2> HIDE DEF U, n
  <2> QED
    BY <1>1, <1>9, <1>10, Upward
<1>12. CASE n = 0
  <2>1. lists \in Seq(X)
    BY <1>1, <1>12 DEF Sequential
  <2> QED
    BY <1>12, <2>1 DEF FlattenSeq
<1>13. CASE n # 0
    BY <1>1, <1>7, <1>11, <1>13
<1> QED
    BY <1>12, <1>13

(***************************************************************************)
(* The moves a plan is built from.                                         *)
(***************************************************************************)
\* Scenes of S sent to the day t.
Sends(q, S, t) ==
    Sequential(q) /\ \A i \in 1 .. Len(q) : \E s \in S : q[i] = MoveSceneToDay(s, t)

LEMMA SendsNone ==
    ASSUME NEW S, NEW t
    PROVE  Sends(<<>>, S, t)
<1>1. <<>> \in Seq({}) /\ Len(<<>>) = 0
    OBVIOUS
<1> QED
    BY <1>1 DEF Sends, Sequential

LEMMA SendsOneMore ==
    ASSUME NEW S, NEW t, NEW q, Sends(q, S, t), NEW s \in S
    PROVE  Sends(Append(q, MoveSceneToDay(s, t)), S, t)
<1> DEFINE m == MoveSceneToDay(s, t)
<1>1. PICK T : q \in Seq(T)
    BY DEF Sends, Sequential
<1> HIDE DEF m
<1>2. /\ \E U : Append(q, m) \in Seq(U)
      /\ DOMAIN Append(q, m) = DOMAIN q \cup {Len(q) + 1}
      /\ \A i \in DOMAIN q : Append(q, m)[i] = q[i]
      /\ Append(q, m)[Len(q) + 1] = m
    BY <1>1, AppendAny
<1>3. Sequential(Append(q, m)) /\ IsSequence(Append(q, m)) /\ IsSequence(q)
    BY <1>1, <1>2, SequentialIs DEF Sequential
<1>4. \A i \in 1 .. Len(Append(q, m)) : i \in 1 .. Len(q) \/ i = Len(q) + 1
    BY <1>2, <1>3 DEF IsSequence
<1>5. \A i \in 1 .. Len(Append(q, m)) : \E u \in S : Append(q, m)[i] = MoveSceneToDay(u, t)
    BY <1>2, <1>3, <1>4 DEF Sends, IsSequence, m
<1> QED
    BY <1>3, <1>5 DEF Sends, m

LEMMA FirstRowExists ==
    ASSUME NEW rows, Sequential(rows), NEW d, \E i \in DOMAIN rows : rows[i].date = d
    PROVE  (CHOOSE i \in DOMAIN rows :
                /\ rows[i].date = d
                /\ \A j \in DOMAIN rows : rows[j].date = d => i <= j) \in DOMAIN rows
<1> DEFINE T == {i \in DOMAIN rows : rows[i].date = d}
<1>1. IsSequence(rows)
    BY SequentialIs
<1>2. T \subseteq Nat /\ T # {}
    BY <1>1 DEF IsSequence
<1>3. PICK i \in T : \A j \in T : i <= j
  <2> HIDE DEF T
  <2> QED
    BY <1>2, LeastNatural
<1> QED
    BY <1>3

LEMMA ShedSends ==
    ASSUME NEW state, NEW capacity, NEW target, NEW start, NEW S, NEW q, IsSequence(q),
           \A k \in 1 .. Len(q) : q[k] \in S, Sends(start.moves, S, target)
    PROVE  Sends(Lightened(state, capacity, target, start, q).moves, S, target)
<1> DEFINE n == Len(q)
<1>1. PICK f : /\ Shedding(f, state, capacity, target, start, q)
               /\ Lightened(state, capacity, target, start, q) = f[n]
    BY SheddingExists
<1> DEFINE T == {k \in 0 .. n : Sends(f[k].moves, S, target)}
<1>2. n \in Nat
    BY DEF IsSequence
<1>3. 0 \in T
  <2>1. f[0] = start /\ 0 \in 0 .. n
    BY <1>1, <1>2 DEF Shedding
  <2> QED
    BY <2>1
<1>4. ASSUME NEW k \in 1 .. n, k - 1 \in T PROVE k \in T
  <2>1. f[k] = Shed(state, capacity, target, f[k - 1], q[k])
    BY <1>1 DEF Shedding
  <2>2. f[k].moves = f[k - 1].moves \/ f[k].moves = Append(f[k - 1].moves, MoveSceneToDay(q[k], target))
    BY <2>1 DEF Shed
  <2>3. Sends(f[k - 1].moves, S, target)
    BY <1>4
  <2>4. Sends(f[k].moves, S, target)
    BY <2>2, <2>3, SendsOneMore
  <2>5. k \in 0 .. n
    BY <1>2
  <2> QED
    BY <2>4, <2>5
<1>5. n \in T
  <2> HIDE DEF T, n
  <2>1. \A k \in 0 .. n : k \in T
    BY <1>2, <1>3, <1>4, Upward
  <2> QED
    BY <1>2, <2>1
<1> QED
    BY <1>1, <1>5

\* A day sheds only scenes of its own, all onto the next reserve day.
LEMMA CompressSends ==
    ASSUME NEW state, state.rows \in Seq(Row), NEW d,
           \E i \in DOMAIN state.rows : state.rows[i].date = d, NEW call
    PROVE  \/ CompressDay(state, d, call) = <<>>
           \/ /\ ReserveDaysAfter(state, d) # {}
              /\ Sends(CompressDay(state, d, call), Scheduled(state.rows),
                       Min(ReserveDaysAfter(state, d)))
<1> DEFINE i        == CHOOSE k \in DOMAIN state.rows :
                          /\ state.rows[k].date = d
                          /\ \A j \in DOMAIN state.rows : state.rows[j].date = d => k <= j
           row      == state.rows[i]
           capacity == Max({0, Min({row.wrap - call, LongestDay})})
           targets  == ReserveDaysAfter(state, d)
           Shorter(s, t) == \/ Minutes[s] < Minutes[t]
                            \/ Minutes[s] = Minutes[t] /\ s < t
           S        == row.scenes
           q        == Sorted(S, Shorter)
           start    == [scenes |-> S, moves |-> <<>>]
           R        == {p \in S \X S : Shorter(p[1], p[2])}
           n        == Cardinality(S)
           all      == Scheduled(state.rows)
<1>1. i \in DOMAIN state.rows
    BY FirstRowExists DEF Sequential
<1>2. row \in Row
  <2> HIDE DEF i
  <2> QED
    BY <1>1
<1>3. S \subseteq Scenes /\ IsFiniteSet(S) /\ S \subseteq all
  <2>1. S \subseteq Scenes
    BY <1>2, RowFields
  <2>2. S \subseteq all
    BY <1>1 DEF Scheduled
  <2> QED
    BY <2>1, <2>2, IdsAssumption, FS_Subset
<1>4. CompressDay(state, d, call) =
          IF Load(S) <= capacity \/ targets = {} THEN <<>>
          ELSE Lightened(state, capacity, Min(targets), start, q).moves
    BY DEF CompressDay, Lightened
<1>5. StrictOn(R, S) /\ TotalOn(R, S)
  <2> HIDE DEF S
  <2>1. \A s \in S : s \in Int /\ Minutes[s] \in Int
    BY <1>3, IdsAssumption, MinutesAssumption
  <2> QED
    BY <2>1 DEF StrictOn, TotalOn
<1>6. n \in Nat
    BY <1>3, FS_CardinalityType
<1>7. q = [k \in 1 .. n |-> CHOOSE x \in S : Cardinality({y \in S : Shorter(y, x)}) = k - 1]
    BY DEF Sorted
<1> HIDE DEF i, capacity, targets, start, Shorter
<1>8. \A x \in S : Below(x, R, S) = {y \in S : Shorter(y, x)}
    BY DEF Below
<1>9. ASSUME NEW k \in 1 .. n
      PROVE  q[k] = CHOOSE x \in S : Cardinality(Below(x, R, S)) = k - 1
  <2> DEFINE P(x) == Cardinality(Below(x, R, S)) = k - 1
             Q(x) == Cardinality({y \in S : Shorter(y, x)}) = k - 1
  <2>1. \A x \in S : P(x) <=> Q(x)
    BY <1>8
  <2>2. q[k] = CHOOSE x \in S : Q(x)
    BY <1>7
  <2> HIDE DEF P, Q, q, R
  <2>3. (CHOOSE x \in S : P(x)) = (CHOOSE x \in S : Q(x))
    BY <2>1
  <2> QED
    BY <2>2, <2>3 DEF P
<1>10. DOMAIN q = 1 .. n /\ q = [k \in 1 .. n |-> q[k]]
    BY <1>7
<1> HIDE DEF q, R, S, n
<1>11. \A k \in 1 .. n : q[k] \in S
    BY <1>3, <1>5, <1>9, FiniteListing DEF n
<1>13. IsSequence(q) /\ Len(q) = n
  <2>1. q \in Seq(S)
    BY <1>6, <1>10, <1>11
  <2> QED
    BY <1>6, <1>10, <2>1 DEF IsSequence
<1>14. Sends(start.moves, all, Min(targets))
    BY SendsNone DEF start
<1> HIDE DEF all
<1>15. \A k \in 1 .. Len(q) : q[k] \in all
    BY <1>3, <1>11, <1>13
<1>16. Sends(Lightened(state, capacity, Min(targets), start, q).moves, all, Min(targets))
    BY <1>13, <1>14, <1>15, ShedSends
<1> QED
    BY <1>4, <1>16 DEF targets, all

\* What a family offers: scenes moved to days, two days swapped, or scenes
\* moved to one place.
Proposed(q) ==
    /\ Sequential(q)
    /\ \/ \A i \in 1 .. Len(q) : q[i].kind = "MoveSceneToDay"
       \/ Len(q) = 1 /\ q[1].kind = "SwapDays"
       \/ \E l \in Places : \A i \in 1 .. Len(q) : q[i].kind = "RelocateScene" /\ q[i].target = l

\* A list of such lists.
Offers(lists) == Sequential(lists) /\ \A i \in 1 .. Len(lists) : Proposed(lists[i])

LEMMA NothingOffered == Offers(<<>>)
<1>1. <<>> \in Seq({}) /\ Len(<<>>) = 0
    OBVIOUS
<1> QED
    BY <1>1 DEF Offers, Sequential

LEMMA OneOffered ==
    ASSUME NEW q, Proposed(q)
    PROVE  Offers(<<q>>)
<1>1. <<q>> \in Seq({q}) /\ Len(<<q>>) = 1 /\ \A i \in 1 .. 1 : <<q>>[i] = q
    OBVIOUS
<1>2. Sequential(<<q>>)
    BY <1>1, Zenon DEF Sequential
<1> HIDE DEF Proposed
<1> QED
    BY <1>1, <1>2 DEF Offers

\* A function on 1 .. n is a sequence.
LEMMA CountedIs ==
    ASSUME NEW n \in Nat, NEW q, DOMAIN q = 1 .. n, q = [i \in 1 .. n |-> q[i]]
    PROVE  Sequential(q) /\ Len(q) = n
<1> DEFINE T == {q[i] : i \in 1 .. n}
<1>1. q \in [1 .. n -> T]
    OBVIOUS
<1>2. q \in Seq(T)
    BY <1>1
<1> HIDE DEF T
<1> QED
    BY <1>2 DEF Sequential

LEMMA DeferOffers ==
    ASSUME NEW state, NEW impact
    PROVE  Offers(FamilyDefer(state, impact))
<1> DEFINE direct    == impact.direct \cap Scheduled(state.rows)
           targets   == ReserveDaysAfter(state, Min(impact.days))
           placement == FollowDownstream(state, PlaceDeferred(state, direct, targets),
                                         impact.downstream, targets)
           moving    == {s \in Scenes \cap DOMAIN placement.at :
                            placement.at[s] # OnDate(state.rows, s)}
           Before(s, t) == \/ placement.at[s] < placement.at[t]
                           \/ placement.at[s] = placement.at[t] /\ s < t
           order     == Sorted(moving, Before)
           q         == [i \in DOMAIN order |-> MoveSceneToDay(order[i], placement.at[order[i]])]
           n         == Cardinality(moving)
<1>1. FamilyDefer(state, impact) = IF direct = {} \/ ~placement.ok THEN <<>> ELSE <<q>>
    BY DEF FamilyDefer
<1>2. DOMAIN order = 1 .. n
    BY DEF Sorted
<1>3. n \in Nat
  <2>1. moving \subseteq Scenes
    OBVIOUS
  <2> HIDE DEF moving
  <2> QED
    BY <2>1, IdsAssumption, FS_Subset, FS_CardinalityType
<1> HIDE DEF direct, placement, order, n
<1>4. DOMAIN q = 1 .. n /\ q = [i \in 1 .. n |-> q[i]]
    BY <1>2
<1>5. \A i \in 1 .. n : q[i].kind = "MoveSceneToDay"
    BY <1>2 DEF MoveSceneToDay
<1> HIDE DEF q
<1>6. Proposed(q)
    BY <1>3, <1>4, <1>5, CountedIs DEF Proposed
<1> QED
    BY <1>1, <1>6, NothingOffered, OneOffered

LEMMA SwapOffers ==
    ASSUME NEW state, NEW impact
    PROVE  Offers(FamilySwap(state, impact))
<1>1. ASSUME NEW a, NEW b PROVE Proposed(<<SwapDays(a, b)>>)
  <2> DEFINE m == SwapDays(a, b)
  <2>1. m.kind = "SwapDays"
    BY DEF SwapDays
  <2> HIDE DEF m
  <2>2. <<m>> \in Seq({m}) /\ Len(<<m>>) = 1 /\ <<m>>[1] = m
    OBVIOUS
  <2>3. Proposed(<<m>>)
    BY <2>1, <2>2 DEF Proposed, Sequential
  <2> QED
    BY <2>3 DEF m
<1>2. FamilySwap(state, impact) = <<>>
      \/ \E a, b : FamilySwap(state, impact) = << <<SwapDays(a, b)>> >>
    BY DEF FamilySwap
<1> QED
    BY <1>1, <1>2, NothingOffered, OneOffered

LEMMA RelocateOffers ==
    ASSUME NEW state, NEW impact, IsFiniteSet(impact.direct)
    PROVE  Offers(FamilyRelocate(state, impact))
<1> DEFINE scenes == Ascending(impact.direct)
           able   == {l \in Places : l \notin impact.places /\ SupportsAll(l, impact.direct)}
           hosts  == Ascending(able)
           lists  == [h \in DOMAIN hosts |->
                        [i \in DOMAIN scenes |-> RelocateScene(scenes[i], hosts[h])]]
           n      == Cardinality(impact.direct)
           k      == Cardinality(able)
<1>1. FamilyRelocate(state, impact) = IF impact.direct = {} THEN <<>> ELSE lists
    BY DEF FamilyRelocate
<1>2. DOMAIN scenes = 1 .. n /\ n \in Nat
  <2>1. n \in Nat
    BY FS_CardinalityType
  <2> QED
    BY <2>1 DEF Ascending, Sorted
<1>3. hosts \in Seq(able) /\ DOMAIN hosts = 1 .. k /\ k \in Nat
  <2>1. able \subseteq Int /\ IsFiniteSet(able)
    <3>1. able \subseteq Places
      OBVIOUS
    <3> HIDE DEF able
    <3> QED
      BY <3>1, IdsAssumption, FS_Subset
  <2> HIDE DEF able
  <2> QED
    BY <2>1, AscendingIs
<1>4. able \subseteq Places
    OBVIOUS
<1> HIDE DEF scenes, hosts, able, n, k
<1>5. ASSUME NEW h \in 1 .. k PROVE Proposed(lists[h])
  <2> DEFINE q == [i \in DOMAIN scenes |-> RelocateScene(scenes[i], hosts[h])]
  <2>1. lists[h] = q
    BY <1>3
  <2>2. hosts[h] \in Places
    BY <1>3, <1>4
  <2>3. DOMAIN q = 1 .. n /\ q = [i \in 1 .. n |-> q[i]]
    BY <1>2
  <2>4. \A i \in 1 .. n : q[i].kind = "RelocateScene" /\ q[i].target = hosts[h]
    BY <1>2 DEF RelocateScene
  <2> HIDE DEF q
  <2>5. Proposed(q)
    BY <1>2, <2>2, <2>3, <2>4, CountedIs DEF Proposed
  <2> QED
    BY <2>1, <2>5
<1>6. DOMAIN lists = 1 .. k /\ lists = [h \in 1 .. k |-> lists[h]]
    BY <1>3
<1> HIDE DEF lists
<1>7. Offers(lists)
    BY <1>3, <1>5, <1>6, CountedIs DEF Offers
<1> QED
    BY <1>1, <1>7, NothingOffered

LEMMA CompressOffers ==
    ASSUME NEW state, state.rows \in Seq(Row)
    PROVE  Offers(FamilyCompress(state))
<1> DEFINE lists == FamilyCompress(state)
           n     == Len(state.rows)
<1>1. n \in Nat /\ DOMAIN state.rows = 1 .. n
    OBVIOUS
<1>2. lists = [i \in 1 .. n |-> CompressDay(state, state.rows[i].date, state.rows[i].call)]
    BY <1>1 DEF FamilyCompress
<1> HIDE DEF lists, n
<1>3. ASSUME NEW i \in 1 .. n PROVE Proposed(lists[i])
  <2> DEFINE d == state.rows[i].date
             call == state.rows[i].call
             q == CompressDay(state, d, call)
  <2>1. lists[i] = q
    BY <1>2
  <2>2. \/ q = <<>>
        \/ Sends(q, Scheduled(state.rows), Min(ReserveDaysAfter(state, d)))
    BY <1>1, CompressSends
  <2> DEFINE S == Scheduled(state.rows)
             t == Min(ReserveDaysAfter(state, d))
  <2> HIDE DEF q, S, t
  <2>3. Sends(q, S, t)
    BY <2>2, SendsNone DEF S, t
  <2>4. Sequential(q)
    BY <2>3 DEF Sends
  <2>5. ASSUME NEW j \in 1 .. Len(q) PROVE q[j].kind = "MoveSceneToDay"
    <3>1. PICK s \in S : q[j] = MoveSceneToDay(s, t)
      BY <2>3 DEF Sends
    <3> QED
      BY <3>1 DEF MoveSceneToDay
  <2> QED
    BY <2>1, <2>4, <2>5 DEF Proposed
<1>4. DOMAIN lists = 1 .. n /\ lists = [i \in 1 .. n |-> lists[i]]
    BY <1>2
<1> QED
    BY <1>1, <1>3, <1>4, CountedIs DEF Offers, lists

FamilyNames == {"DEFER", "SWAP", "RELOCATE", "COMPRESS"}

LEMMA FamiliesFinite == IsFiniteSet(FamilyNames)
<1>1. IsFiniteSet({}) /\ FamilyNames = ((({} \cup {"DEFER"}) \cup {"SWAP"}) \cup {"RELOCATE"}) \cup {"COMPRESS"}
    BY FS_EmptySet DEF FamilyNames
<1>2. IsFiniteSet({} \cup {"DEFER"})
    BY <1>1, FS_AddElement
<1>3. IsFiniteSet(({} \cup {"DEFER"}) \cup {"SWAP"})
    BY <1>2, FS_AddElement
<1>4. IsFiniteSet((({} \cup {"DEFER"}) \cup {"SWAP"}) \cup {"RELOCATE"})
    BY <1>3, FS_AddElement
<1> QED
    BY <1>1, <1>4, FS_AddElement

LEMMA AllFamiliesAre ==
    /\ Sequential(AllFamilies) /\ Len(AllFamilies) = 4 /\ DOMAIN AllFamilies = 1 .. 4
    /\ \A i \in 1 .. 4 : AllFamilies[i] \in FamilyNames
<1>1. AllFamilies \in Seq(FamilyNames) /\ Len(AllFamilies) = 4 /\ DOMAIN AllFamilies = 1 .. 4
    BY DEF AllFamilies, FamilyNames
<1>2. AllFamilies[1] \in FamilyNames /\ AllFamilies[2] \in FamilyNames
      /\ AllFamilies[3] \in FamilyNames /\ AllFamilies[4] \in FamilyNames
    BY DEF AllFamilies, FamilyNames
<1>3. \A i \in 1 .. 4 : i = 1 \/ i = 2 \/ i = 3 \/ i = 4
    OBVIOUS
<1>4. \A i \in 1 .. 4 : AllFamilies[i] \in FamilyNames
    BY <1>2, <1>3, Zenon
<1> QED
    BY <1>1, <1>4, Zenon DEF Sequential

LEMMA ResolvedAreFamilies ==
    ASSUME NEW h \in Hints
    PROVE  /\ Sequential(ResolveFamilies(h))
           /\ \A i \in 1 .. Len(ResolveFamilies(h)) : ResolveFamilies(h)[i] \in FamilyNames
<1> DEFINE known    == ToSet(AllFamilies) \cap ToSet(h)
           First(f) == Min({i \in DOMAIN h : h[i] = f})
           R        == {p \in known \X known : First(p[1]) < First(p[2])}
           q        == Sorted(known, LAMBDA f, g : First(f) < First(g))
           n        == Cardinality(known)
<1>1. /\ Sequential(AllFamilies) /\ Len(AllFamilies) = 4 /\ DOMAIN AllFamilies = 1 .. 4
      /\ \A i \in 1 .. 4 : AllFamilies[i] \in FamilyNames
    BY AllFamiliesAre
<1>2. known \subseteq FamilyNames /\ known \subseteq ToSet(h)
  <2>1. ToSet(AllFamilies) \subseteq FamilyNames
    BY <1>1, Zenon DEF ToSet
  <2> QED
    BY <2>1
<1>3. IsFiniteSet(known) /\ n \in Nat
  <2> HIDE DEF known
  <2> QED
    BY <1>2, FamiliesFinite, FS_Subset, FS_CardinalityType
<1>4. ResolveFamilies(h) = IF known = {} THEN AllFamilies ELSE q
    BY DEF ResolveFamilies
<1>5. ASSUME NEW f \in known PROVE First(f) \in Int /\ First(f) \in DOMAIN h /\ h[First(f)] = f
  <2> DEFINE T == {i \in DOMAIN h : h[i] = f}
  <2>1. T # {}
    BY <1>2 DEF ToSet
  <2>2. T \subseteq Nat /\ T \subseteq Int
    BY HintsAssumption
  <2>3. PICK i \in T : \A j \in T : i <= j
    <3> HIDE DEF T
    <3> QED
      BY <2>1, <2>2, LeastNatural
  <2>4. Min(T) \in T
    BY <2>3 DEF Min
  <2> QED
    BY <2>2, <2>4
<1> HIDE DEF First
<1>6. StrictOn(R, known) /\ TotalOn(R, known)
  <2>1. StrictOn(R, known)
    BY <1>5 DEF StrictOn
  <2>2. ASSUME NEW f \in known, NEW g \in known, f # g PROVE <<f, g>> \in R \/ <<g, f>> \in R
    <3>1. First(f) # First(g) /\ First(f) \in Int /\ First(g) \in Int
      BY <1>5, <2>2
    <3> QED
      BY <3>1
  <2> QED
    BY <2>1, <2>2 DEF TotalOn
<1>7. q = [k \in 1 .. n |-> CHOOSE x \in known : Cardinality({y \in known : First(y) < First(x)}) = k - 1]
    BY DEF Sorted
<1>8. \A x \in known : Below(x, R, known) = {y \in known : First(y) < First(x)}
    BY DEF Below
<1>9. ASSUME NEW k \in 1 .. n
      PROVE  q[k] = CHOOSE x \in known : Cardinality(Below(x, R, known)) = k - 1
  <2> DEFINE P(x) == Cardinality(Below(x, R, known)) = k - 1
             Q(x) == Cardinality({y \in known : First(y) < First(x)}) = k - 1
  <2>1. \A x \in known : P(x) <=> Q(x)
    BY <1>8
  <2>2. q[k] = CHOOSE x \in known : Q(x)
    BY <1>7
  <2> HIDE DEF P, Q, q, R, known
  <2>3. (CHOOSE x \in known : P(x)) = (CHOOSE x \in known : Q(x))
    BY <2>1
  <2> QED
    BY <2>2, <2>3 DEF P
<1>10. DOMAIN q = 1 .. n /\ q = [k \in 1 .. n |-> q[k]]
    BY <1>7
<1> HIDE DEF q, R, known, n
<1>11. \A k \in 1 .. n : q[k] \in known
    BY <1>3, <1>6, <1>9, FiniteListing DEF n
<1>12. Sequential(q) /\ Len(q) = n
    BY <1>3, <1>10, CountedIs
<1>13. CASE known = {}
  <2>1. ResolveFamilies(h) = AllFamilies
    BY <1>4, <1>13
  <2> QED
    BY <1>1, <2>1, Zenon
<1>14. CASE known # {}
    BY <1>2, <1>4, <1>11, <1>12, <1>14
<1> QED
    BY <1>13, <1>14

LEMMA FamilyOffers ==
    ASSUME NEW state, state.rows \in Seq(Row), NEW impact, IsFiniteSet(impact.direct),
           NEW name \in FamilyNames
    PROVE  Offers(Family(name, state, impact))
<1>1. CASE name = "DEFER"
    BY <1>1, DeferOffers DEF Family
<1>2. CASE name = "SWAP"
    BY <1>2, SwapOffers DEF Family
<1>3. CASE name = "RELOCATE"
    BY <1>3, RelocateOffers DEF Family
<1>4. CASE name = "COMPRESS"
    BY <1>4, CompressOffers DEF Family
<1> QED
    BY <1>1, <1>2, <1>3, <1>4 DEF FamilyNames

\* The plans of round one: what they are made of, that they apply, and that
\* each is labelled by its place.
RoundOne(state, q) ==
    /\ Sequential(q)
    /\ \A i \in 1 .. Len(q) :
          /\ q[i].label = i /\ q[i].repair = FALSE
          /\ Proposed(q[i].moves) /\ Applies(state, q[i].moves)

LEMMA KeptAreRoundOne ==
    ASSUME NEW state, NEW q, Sequential(q), \A k \in 1 .. Len(q) : Proposed(q[k])
    PROVE  RoundOne(state, Finalise(state, q))
<1> DEFINE n     == Len(q)
           start == [seen |-> {state}, plans |-> <<>>]
<1>1. PICK f : Keeping(f, state, start, q) /\ Kept(state, start, q) = f[n]
    BY SequentialIs, KeepingExists
<1>2. Finalise(state, q) = Kept(state, start, q).plans
    BY DEF Finalise, Kept
<1>3. n \in Nat
    BY SequentialIs DEF IsSequence
<1> DEFINE T == {k \in 0 .. n : RoundOne(state, f[k].plans)}
<1>4. 0 \in T
  <2>1. f[0].plans = <<>> /\ 0 \in 0 .. n
    BY <1>1, <1>3 DEF Keeping
  <2>2. <<>> \in Seq({}) /\ Len(<<>>) = 0
    OBVIOUS
  <2>3. RoundOne(state, <<>>)
    BY <2>2 DEF RoundOne, Sequential
  <2> QED
    BY <2>1, <2>3
<1>5. ASSUME NEW k \in 1 .. n, k - 1 \in T PROVE k \in T
  <2> DEFINE old == f[k - 1].plans
             new == f[k].plans
             p   == Plan(Len(old) + 1, FALSE, q[k])
  <2>1. RoundOne(state, old) /\ k \in 0 .. n
    BY <1>3, <1>5
  <2>2. f[k] = Keep(state, f[k - 1], q[k])
    BY <1>1 DEF Keeping
  <2>3. new = old \/ (Applies(state, q[k]) /\ new = Append(old, p))
    <3> DEFINE more == [seen  |-> f[k - 1].seen \cup {Applied(state, q[k])},
                        plans |-> Append(old, p)]
    <3>1. more.plans = Append(old, p)
      OBVIOUS
    <3>2. Keep(state, f[k - 1], q[k]) = f[k - 1]
          \/ (Applies(state, q[k]) /\ Keep(state, f[k - 1], q[k]) = more)
      BY Zenon DEF Keep
    <3> HIDE DEF more, p
    <3> QED
      BY <2>2, <3>1, <3>2
  <2>4. /\ p.label = Len(old) + 1 /\ p.repair = FALSE /\ p.moves = q[k]
    BY DEF Plan
  <2> HIDE DEF old, new, p
  <2>5. CASE new = old
    BY <2>1, <2>5 DEF new
  <2>6. CASE Applies(state, q[k]) /\ new = Append(old, p)
    <3>1. PICK X : old \in Seq(X)
      BY <2>1 DEF RoundOne, Sequential
    <3>2. /\ \E U : new \in Seq(U)
          /\ DOMAIN new = DOMAIN old \cup {Len(old) + 1}
          /\ \A i \in DOMAIN old : new[i] = old[i]
          /\ new[Len(old) + 1] = p
      <4>1. /\ \E U : Append(old, p) \in Seq(U)
            /\ DOMAIN Append(old, p) = DOMAIN old \cup {Len(old) + 1}
            /\ \A i \in DOMAIN old : Append(old, p)[i] = old[i]
            /\ Append(old, p)[Len(old) + 1] = p
        BY <3>1, AppendAny
      <4> QED
        BY <2>6, <4>1, Zenon
    <3>3. Sequential(new) /\ IsSequence(new) /\ IsSequence(old)
      BY <3>1, <3>2, SequentialIs DEF Sequential
    <3>4. Proposed(p.moves) /\ Applies(state, p.moves)
      BY <2>4, <2>6
    <3>5. ASSUME NEW i \in 1 .. Len(new)
          PROVE  /\ new[i].label = i /\ new[i].repair = FALSE
                 /\ Proposed(new[i].moves) /\ Applies(state, new[i].moves)
      <4>1. i \in 1 .. Len(old) \/ i = Len(old) + 1
        BY <3>2, <3>3 DEF IsSequence
      <4>2. CASE i \in 1 .. Len(old)
        BY <2>1, <3>2, <3>3, <4>2 DEF RoundOne, IsSequence
      <4>3. CASE i = Len(old) + 1
        BY <2>4, <3>2, <3>4, <4>3
      <4> QED
        BY <4>1, <4>2, <4>3
    <3>6. RoundOne(state, new)
      BY <3>3, <3>5 DEF RoundOne
    <3> QED
      BY <2>1, <3>6 DEF new
  <2> QED
    BY <2>3, <2>5, <2>6
<1>6. n \in T
  <2> HIDE DEF T, n
  <2>1. \A k \in 0 .. n : k \in T
    BY <1>3, <1>4, <1>5, Upward
  <2> QED
    BY <1>3, <2>1
<1> QED
    BY <1>1, <1>2, <1>6

(***************************************************************************)
(* What a recovery starts from, and the plans of its first round.          *)
(***************************************************************************)
\* The row a date is left with is one of its rows.
LEMMA LastRowExists ==
    ASSUME NEW rows, Sequential(rows), NEW d \in DOMAIN ByDate(rows)
    PROVE  \E i \in DOMAIN rows : ByDate(rows)[d] = rows[i] /\ rows[i].date = d
<1> DEFINE n    == Len(rows)
           P(i) == /\ rows[i].date = d
                   /\ \A j \in DOMAIN rows : rows[j].date = d => j <= i
           T    == {k \in 0 .. n : n - k \in DOMAIN rows /\ rows[n - k].date = d}
<1>1. n \in Nat /\ DOMAIN rows = 1 .. n
    BY SequentialIs DEF IsSequence
<1>2. PICK i \in DOMAIN rows : rows[i].date = d
    BY DEF ByDate
<1>3. T \subseteq Nat /\ T # {}
  <2>1. n - i \in 0 .. n /\ n - (n - i) = i
    BY <1>1
  <2>2. n - i \in T
    BY <1>2, <2>1
  <2> QED
    BY <1>1, <2>2
<1>4. PICK k \in T : \A j \in T : k <= j
  <2> HIDE DEF T
  <2> QED
    BY <1>3, LeastNatural
<1>5. P(n - k)
  <2>1. ASSUME NEW j \in DOMAIN rows, rows[j].date = d PROVE j <= n - k
    <3>1. n - j \in T
      <4>1. n - j \in 0 .. n /\ n - (n - j) = j
        BY <1>1
      <4> QED
        BY <2>1, <4>1
    <3>2. k <= n - j
      BY <1>4, <3>1
    <3> QED
      BY <1>1, <3>2
  <2> QED
    BY <2>1
<1>6. ByDate(rows)[d] = rows[CHOOSE j \in DOMAIN rows : P(j)]
    BY <1>2 DEF ByDate
<1>7. (CHOOSE j \in DOMAIN rows : P(j)) \in DOMAIN rows /\ P(CHOOSE j \in DOMAIN rows : P(j))
  <2>1. n - k \in DOMAIN rows
    OBVIOUS
  <2> HIDE DEF P
  <2> QED
    BY <1>5, <2>1
<1> QED
    BY <1>6, <1>7

LEMMA OpenedTyped ==
    ASSUME NEW b \in Bases
    PROVE  /\ Typed(Opened(b))
           /\ \A d \in DOMAIN ByDate(b.rows) : ByDate(b.rows)[d].call < ByDate(b.rows)[d].wrap
<1> DEFINE rows == b.rows
           days == ByDate(rows)
<1>1. /\ rows \in Seq(Row)
      /\ \A i \in DOMAIN rows : rows[i].call < rows[i].wrap
      /\ b.place \in [Scenes -> Places]
      /\ \A i, j \in DOMAIN rows : i # j => rows[i].scenes \cap rows[j].scenes = {}
    BY BasesAssumption
<1>2. Sequential(rows) /\ \A i \in DOMAIN rows : rows[i] \in Row
    BY <1>1 DEF Sequential
<1>3. DOMAIN days = {rows[i].date : i \in DOMAIN rows}
    BY DEF ByDate
<1>4. DOMAIN days \subseteq Dates
    BY <1>2, <1>3, RowFields
<1>5. IsFiniteSet(DOMAIN days)
  <2> DEFINE n == Len(rows)
             g == [i \in 1 .. n |-> rows[i].date]
  <2>1. n \in Nat /\ DOMAIN rows = 1 .. n
    BY <1>2, SequentialIs DEF IsSequence
  <2>2. IsFiniteSet(1 .. n)
    BY <2>1, FS_Interval
  <2>3. DOMAIN days = {g[i] : i \in 1 .. n}
    BY <1>3, <2>1
  <2> HIDE DEF g, n, days
  <2>4. IsFiniteSet({g[i] : i \in 1 .. n})
    BY <2>2, ImageFinite
  <2> QED
    BY <2>3, <2>4
<1>6. \A d \in DOMAIN days : \E i \in DOMAIN rows : days[d] = rows[i] /\ rows[i].date = d
    BY <1>2, LastRowExists
<1> HIDE DEF days
<1>7. \A d \in DOMAIN days : days[d] \in Row /\ days[d].date = d /\ days[d].call < days[d].wrap
    BY <1>1, <1>2, <1>6
<1>8. OnceEach(days)
  <2> SUFFICES ASSUME NEW d \in DOMAIN days, NEW e \in DOMAIN days, d # e
               PROVE  days[d].scenes \cap days[e].scenes = {}
    BY DEF OnceEach
  <2>1. PICK i \in DOMAIN rows : days[d] = rows[i] /\ rows[i].date = d
    BY <1>6
  <2>2. PICK j \in DOMAIN rows : days[e] = rows[j] /\ rows[j].date = e
    BY <1>6
  <2> QED
    BY <1>1, <2>1, <2>2
<1>9. DOMAIN Opened(b) = {"days", "place"} /\ Opened(b).days = days /\ Opened(b).place = b.place
    BY DEF Opened, days
<1> QED
    BY <1>1, <1>4, <1>5, <1>7, <1>8, <1>9 DEF Typed, days

LEMMA ProjectedState ==
    ASSUME NEW b \in Bases, NEW e
    PROVE  /\ DOMAIN b = Fields /\ DOMAIN ProjectDisruption(b, e) = Fields
           /\ ProjectDisruption(b, e).rows = b.rows
           /\ ProjectDisruption(b, e).place = b.place
           /\ ProjectDisruption(b, e).needs = b.needs
           /\ Opened(ProjectDisruption(b, e)) = Opened(b)
<1>1. DOMAIN b = Fields
    BY BasesAssumption DEF Fields
<1>2. ProjectDisruption(b, e).needs = b.needs
    BY <1>1 DEF ProjectDisruption, Fields
<1> QED
    BY <1>1, <1>2, ProjectionKeepsBoard DEF Opened

LEMMA DirectFinite ==
    ASSUME NEW b \in Bases, NEW e \in Events
    PROVE  IsFiniteSet(Direct(b, e))
<1>1. \A d \in DOMAIN ByDate(b.rows) : ByDate(b.rows)[d].scenes \subseteq Scenes
  <2> SUFFICES ASSUME NEW d \in DOMAIN ByDate(b.rows) PROVE ByDate(b.rows)[d].scenes \subseteq Scenes
    OBVIOUS
  <2>1. ByDate(b.rows)[d] \in Row
    BY OpenedTyped DEF Typed, Opened
  <2> QED
    BY <2>1, RowFields
<1>2. /\ DOMAIN DayScenes(b.rows) = DOMAIN ByDate(b.rows)
      /\ \A d \in DOMAIN ByDate(b.rows) : DayScenes(b.rows)[d] \subseteq Scenes
    BY <1>1 DEF DayScenes
<1>3. ScenesInWindow(b.rows, e) \subseteq Scenes
    BY <1>2 DEF ScenesInWindow
<1>4. Direct(b, e) \subseteq Scenes
  <2>1. CASE e.kind = "location.blocked"
    BY <1>3, <2>1 DEF Direct, LocationBlocked
  <2>2. CASE e.kind = "actor.unavailable"
    BY <1>3, <2>2 DEF Direct, ActorUnavailable
  <2>3. CASE e.kind = "equipment.failed"
    BY <2>3 DEF Direct, EquipmentFailed
  <2>4. CASE e.kind = "crew.unavailable"
    <3>1. \A row \in ToSet(b.rows) : row.date \in DOMAIN ByDate(b.rows)
      BY DEF ByDate, ToSet
    <3>2. CrewUnavailable(b, e) \subseteq Scenes
      BY <1>2, <3>1 DEF CrewUnavailable
    <3> QED
      BY <2>4, <3>2 DEF Direct
  <2>5. CASE e.kind = "weather.changed"
    BY <1>3, <2>5 DEF Direct, WeatherChanged
  <2> QED
    BY <2>1, <2>2, <2>3, <2>4, <2>5, EventsAssumption DEF EventKinds
<1> QED
    BY <1>4, IdsAssumption, FS_Subset

LEMMA GeneratedAreRoundOne ==
    ASSUME NEW b \in Bases, NEW e \in Events, NEW h \in Hints
    PROVE  RoundOne(ProjectDisruption(b, e),
                    GenerateCandidates(ProjectDisruption(b, e), ImpactOf(b, e), h))
<1> DEFINE state    == ProjectDisruption(b, e)
           impact   == ImpactOf(b, e)
           families == ResolveFamilies(h)
           n        == Len(families)
           lists    == [i \in DOMAIN families |-> Family(families[i], state, impact)]
           X        == UNION {{lists[i][j] : j \in 1 .. Len(lists[i])} : i \in 1 .. n}
<1>1. state.rows \in Seq(Row)
    BY BasesAssumption, ProjectedState
<1>2. impact.direct = Direct(b, e)
    BY DEF ImpactOf
<1>3. IsFiniteSet(impact.direct)
    BY <1>2, DirectFinite
<1>4. Sequential(families) /\ n \in Nat /\ DOMAIN families = 1 .. n
      /\ \A i \in 1 .. n : families[i] \in FamilyNames
    BY ResolvedAreFamilies, SequentialIs DEF IsSequence
<1> HIDE DEF state, impact, families, n
<1>5. \A i \in 1 .. n : Offers(lists[i])
    BY <1>1, <1>3, <1>4, FamilyOffers
<1>6. Sequential(lists) /\ Len(lists) = n
  <2>1. DOMAIN lists = 1 .. n /\ lists = [i \in 1 .. n |-> lists[i]]
    BY <1>4
  <2> HIDE DEF lists
  <2> QED
    BY <1>4, <2>1, CountedIs
<1> HIDE DEF lists
<1>7. ASSUME NEW i \in 1 .. n PROVE lists[i] \in Seq(X)
  <2>1. PICK Y : lists[i] \in Seq(Y)
    BY <1>5 DEF Offers, Sequential
  <2>2. \A j \in 1 .. Len(lists[i]) : lists[i][j] \in X
    OBVIOUS
  <2> HIDE DEF X
  <2> QED
    BY <2>1, <2>2
<1>8. \A x \in X : Proposed(x)
    BY <1>5 DEF Offers
<1> HIDE DEF X
<1>9. FlattenSeq(lists) \in Seq(X)
    BY <1>6, <1>7, FlattenedIs
<1> DEFINE q == FlattenSeq(lists)
<1> HIDE DEF q
<1>10. Sequential(q) /\ \A k \in 1 .. Len(q) : Proposed(q[k])
    BY <1>8, <1>9 DEF q, Sequential
<1>11. RoundOne(state, Finalise(state, q))
    BY <1>10, KeptAreRoundOne
<1>12. GenerateCandidates(state, impact, h) = Finalise(state, q)
    BY DEF GenerateCandidates, q, lists, families
<1> QED
    BY <1>11, <1>12 DEF state, impact

(***************************************************************************)
(* A state seen through the board it was closed from.                      *)
(***************************************************************************)
Describes(rows, b) ==
    /\ rows \in Seq(Row)
    /\ DOMAIN ByDate(rows) = DOMAIN b.days
    /\ \A d \in DOMAIN b.days : SameHours(ByDate(rows)[d], b.days[d])
    /\ \A i \in DOMAIN rows :
          /\ rows[i].date \in DOMAIN b.days
          /\ SameHours(rows[i], b.days[rows[i].date])
          /\ rows[i].scenes = b.days[rows[i].date].scenes
    /\ \A d \in DOMAIN b.days : \E i \in DOMAIN rows : rows[i].date = d
    /\ \A i, j \in DOMAIN rows : i < j => rows[i].date < rows[j].date
    /\ Scheduled(rows) = AllScenes(b.days)
    /\ \A s \in AllScenes(b.days) : Cardinality({i \in DOMAIN rows : s \in rows[i].scenes}) = 1

LEMMA DescribedRow ==
    ASSUME NEW rows, NEW b, Describes(rows, b), NEW row \in ToSet(rows)
    PROVE  /\ row.date \in DOMAIN b.days
           /\ SameHours(row, b.days[row.date])
           /\ row.scenes = b.days[row.date].scenes
<1>1. PICK i \in DOMAIN rows : row = rows[i]
    BY DEF ToSet
<1> QED
    BY <1>1 DEF Describes

LEMMA ClosedDescribes ==
    ASSUME NEW state, DOMAIN state = Fields, NEW b, Typed(b)
    PROVE  Describes(Closed(state, b).rows, b)
<1> DEFINE rows == Closed(state, b).rows
           days == Rebooked(b)
<1>1. Lists(rows, days)
    BY ClosedIs
<1>2. DOMAIN days = DOMAIN b.days /\ DOMAIN days \subseteq Dates
    BY RebookedIs DEF Typed
<1>3. \A d \in DOMAIN b.days :
          /\ SameHours(days[d], b.days[d]) /\ days[d].scenes = b.days[d].scenes
          /\ days[d].date = d
    BY RebookedRow DEF SameHours
<1> HIDE DEF rows, days
<1>4. OnceEach(days)
    BY <1>2, <1>3 DEF OnceEach, Typed
<1>5. /\ DOMAIN ByDate(rows) = DOMAIN days
      /\ \A d \in DOMAIN days : ByDate(rows)[d] = days[d]
      /\ Scheduled(rows) = AllScenes(days)
      /\ \A s \in AllScenes(days) : Cardinality({i \in DOMAIN rows : s \in rows[i].scenes}) = 1
    BY <1>1, <1>2, <1>4, ListsDays
<1>6. AllScenes(days) = AllScenes(b.days)
    BY <1>2, <1>3 DEF AllScenes
<1>7. \A i \in DOMAIN rows :
          /\ rows[i].date \in DOMAIN b.days
          /\ SameHours(rows[i], b.days[rows[i].date])
          /\ rows[i].scenes = b.days[rows[i].date].scenes
    BY <1>1, <1>2, <1>3 DEF Lists
<1> QED
    BY <1>1, <1>2, <1>3, <1>5, <1>6, <1>7 DEF Describes, Lists, rows

LEMMA LeastIsMin ==
    ASSUME NEW S, S \subseteq Int, IsFiniteSet(S), S # {}
    PROVE  Min(S) \in S /\ \A x \in S : Min(S) <= x
<1> DEFINE q == Ascending(S)
           k == q[1]
<1>1. /\ q \in Seq(S) /\ DOMAIN q = 1 .. Cardinality(S) /\ Cardinality(S) \in Nat
      /\ \A i, j \in DOMAIN q : i < j => q[i] < q[j]
      /\ \A x \in S : \E i \in DOMAIN q : q[i] = x
    BY AscendingIs
<1> HIDE DEF q
<1>2. 1 \in DOMAIN q
  <2>1. PICK x \in S : TRUE
    OBVIOUS
  <2>2. PICK i \in DOMAIN q : q[i] = x
    BY <1>1
  <2> QED
    BY <1>1, <2>2
<1>3. k \in S
    BY <1>1, <1>2
<1>4. ASSUME NEW x \in S PROVE k <= x
  <2>1. PICK i \in DOMAIN q : q[i] = x
    BY <1>1
  <2>2. i = 1 \/ 1 < i
    BY <1>1
  <2>3. 1 < i => k < x
    BY <1>1, <1>2, <2>1
  <2>4. k \in Int /\ x \in Int
    BY <1>3
  <2>5. i = 1 => k = x
    BY <2>1
  <2> HIDE DEF k
  <2> QED
    BY <2>2, <2>3, <2>4, <2>5
<1>5. \E x \in S : \A y \in S : x <= y
    BY <1>3, <1>4
<1> QED
    BY <1>5 DEF Min

LEMMA FaultKinds ==
    ASSUME NEW state, NEW f \in Validate(state)
    PROVE  /\ f.code = "C001" => f \in CrewTurnaround(state)
           /\ f.code = "C003" => f \in CastAvailability(state)
<1> USE DEF Violation
<1>1. \A g \in MaxDailyHours(state) : g.code = "C002"
    BY DEF MaxDailyHours
<1>2. \A g \in LocationPermit(state) : g.code = "C004"
    BY DEF LocationPermit
<1>3. \A g \in LocationDoubleBook(state) : g.code = "C005"
  <2>1. \A g \in LocationDoubleBook(state) : \E use : g = Violation("C005", use)
    BY Zenon DEF LocationDoubleBook
  <2> QED
    BY <2>1
<1>4. \A g \in EquipmentWindow(state) : g.code = "C006"
    BY DEF EquipmentWindow
<1>5. \A g \in EquipmentDoubleBook(state) : g.code = "C007"
  <2>1. \A g \in EquipmentDoubleBook(state) : \E use : g = Violation("C007", use)
    BY Zenon DEF EquipmentDoubleBook
  <2> QED
    BY <2>1
<1>6. \A g \in PrerequisiteOrder(state) : g.code = "C008"
    BY DEF PrerequisiteOrder
<1>7. \A g \in IntExtMatch(state) : g.code = "C009"
    BY DEF IntExtMatch
<1>8. \A g \in TimeOfDayMatch(state) : g.code = "C010"
    BY DEF TimeOfDayMatch
<1>9. \A g \in CrewTurnaround(state) : g.code = "C001"
    BY DEF CrewTurnaround
<1>10. \A g \in CastAvailability(state) : g.code = "C003"
    BY DEF CastAvailability
<1> QED
    BY <1>1, <1>2, <1>3, <1>4, <1>5, <1>6, <1>7, <1>8, <1>9, <1>10 DEF Validate

(***************************************************************************)
(* Repairs.                                                                *)
(***************************************************************************)
\* A C003 names somebody of a scene who is away on its day.
LEMMA AbsenceFault ==
    ASSUME NEW state, NEW f \in CastAvailability(state)
    PROVE  \E row \in ToSet(state.rows) : \E s \in row.scenes : \E p \in Cast[s] \cap DOMAIN state.away :
              /\ f = Violation("C003", <<p, s, row.date>>)
              /\ \E w \in state.away[p] : Touches(w, row)
<1> DEFINE Missing(row, s) == {p \in Cast[s] \cap DOMAIN state.away :
                                   \E w \in state.away[p] : Touches(w, row)}
           Of(row, s) == {Violation("C003", <<p, s, row.date>>) : p \in Missing(row, s)}
           On(row)    == UNION {Of(row, s) : s \in row.scenes}
<1>1. CastAvailability(state) = UNION {On(row) : row \in ToSet(state.rows)}
    BY DEF CastAvailability
<1> HIDE DEF On
<1>2. PICK row \in ToSet(state.rows) : f \in On(row)
    BY <1>1
<1> HIDE DEF Of
<1>3. PICK s \in row.scenes : f \in Of(row, s)
    BY <1>2 DEF On
<1>4. PICK p \in Missing(row, s) : f = Violation("C003", <<p, s, row.date>>)
    BY <1>3 DEF Of
<1> QED
    BY <1>4

\* What a move of a repair names is on the board, and stays there.
Within(b, m) ==
    /\ m.kind \in {"MoveSceneToDay", "ShiftCallTime"}
    /\ m.kind = "MoveSceneToDay" => m.target \in DOMAIN b.days /\ m.scene \in AllScenes(b.days)
    /\ m.kind = "ShiftCallTime"  => m.date \in DOMAIN b.days /\ m.call \in Int

LEMMA WithinIsNamed ==
    ASSUME NEW b, NEW m, Within(b, m)
    PROVE  Names(b, m) /\ Bringing(m)
BY DEF Within, Names, Bringing, AllScenes

\* The moves that send scenes of the board to a day of it.
LEMMA SendsWithin ==
    ASSUME NEW b, NEW q, NEW t \in DOMAIN b.days, Sends(q, AllScenes(b.days), t)
    PROVE  \A i \in 1 .. Len(q) : q[i].kind = "MoveSceneToDay" /\ Within(b, q[i])
<1> SUFFICES ASSUME NEW i \in 1 .. Len(q)
             PROVE  q[i].kind = "MoveSceneToDay" /\ Within(b, q[i])
    OBVIOUS
<1>1. PICK s \in AllScenes(b.days) : q[i] = MoveSceneToDay(s, t)
    BY DEF Sends
<1> QED
    BY <1>1 DEF MoveSceneToDay, Within

\* The turnaround a repair is aimed at, and the call it gives the late day.
LateCall(b, early) == b.days[early].wrap + RestUnits + BufferUnits

Rests(b, f, early, late) ==
    /\ f = Violation("C001", <<early, late>>)
    /\ early \in DOMAIN b.days /\ late \in DOMAIN b.days /\ early # late

LEMMA FirstTurnaroundIs ==
    ASSUME NEW state, NEW b, Typed(b), Describes(state.rows, b),
           NEW x, x.faults = Validate(state), FaultsOf(x, "C001") # {}
    PROVE  /\ FirstTurnaround(x) \in FaultsOf(x, "C001")
           /\ \E early, late : Rests(b, FirstTurnaround(x), early, late)
<1> DEFINE rows == state.rows
           n    == Len(rows)
           fault(i) == Violation("C001", <<rows[i].date, rows[i + 1].date>>)
           T    == {i \in 1 .. n - 1 : fault(i) \in FaultsOf(x, "C001")}
<1>1. n \in Nat /\ DOMAIN rows = 1 .. n /\ DOMAIN b.days \subseteq Int
  <2>1. rows \in Seq(Row)
    BY DEF Describes
  <2>2. DOMAIN b.days \subseteq Int
    BY DatesAssumption DEF Typed
  <2> HIDE DEF rows
  <2>3. n \in Nat /\ DOMAIN rows = 1 .. n
    BY <2>1
  <2> QED
    BY <2>2, <2>3
<1>2. ASSUME NEW f \in FaultsOf(x, "C001") PROVE \E i \in T : f = fault(i)
  <2>1. f \in CrewTurnaround(state)
    BY FaultKinds DEF FaultsOf
  <2>2. PICK i \in 1 .. n - 1 : f = fault(i)
    BY <2>1 DEF CrewTurnaround
  <2> QED
    BY <2>2
<1>3. PICK i \in T : \A j \in T : i <= j
  <2>1. T \subseteq Nat
    <3> HIDE DEF fault, n
    <3> QED
      BY <1>1
  <2>2. T # {}
    BY <1>2
  <2> HIDE DEF T
  <2> QED
    BY <2>1, <2>2, LeastNatural
<1>4. ASSUME NEW j \in T
      PROVE  /\ j \in 1 .. n /\ j + 1 \in 1 .. n
             /\ rows[j].date \in DOMAIN b.days /\ rows[j + 1].date \in DOMAIN b.days
             /\ rows[j].date < rows[j + 1].date
             /\ fault(j).subject[1] = rows[j].date
  <2>1. j \in 1 .. n /\ j + 1 \in 1 .. n /\ j < j + 1
    BY <1>1
  <2> QED
    BY <1>1, <2>1 DEF Describes, Violation
<1>5. ASSUME NEW j \in T PROVE rows[i].date <= rows[j].date
  <2>1. i = j \/ i < j
    BY <1>1, <1>3
  <2>2. i < j => rows[i].date < rows[j].date
    BY <1>1, <1>4 DEF Describes
  <2>3. rows[i].date \in Int /\ rows[j].date \in Int
    BY <1>1, <1>4
  <2> QED
    BY <2>1, <2>2, <2>3
<1> DEFINE P(f) == \A g \in FaultsOf(x, "C001") : f.subject[1] <= g.subject[1]
<1>6. fault(i) \in FaultsOf(x, "C001") /\ P(fault(i))
  <2> HIDE DEF fault
  <2> QED
    BY <1>2, <1>4, <1>5
<1>7. FirstTurnaround(x) \in FaultsOf(x, "C001")
  <2>1. FirstTurnaround(x) = CHOOSE f \in FaultsOf(x, "C001") : P(f)
    BY DEF FirstTurnaround
  <2> HIDE DEF P, fault
  <2> QED
    BY <1>6, <2>1
<1>8. PICK k \in T : FirstTurnaround(x) = fault(k)
    BY <1>2, <1>7
<1>9. Rests(b, fault(k), rows[k].date, rows[k + 1].date)
  <2>1. /\ rows[k].date \in DOMAIN b.days /\ rows[k + 1].date \in DOMAIN b.days
        /\ rows[k].date < rows[k + 1].date
    BY <1>4
  <2>2. rows[k].date # rows[k + 1].date
    <3> HIDE DEF rows, n
    <3> QED
      BY <1>1, <2>1
  <2> QED
    BY <2>1, <2>2 DEF Rests
<1> QED
    BY <1>7, <1>8, <1>9

\* A repair of a turnaround: the late day is called later, then sheds.
LEMMA TurnaroundRepair ==
    ASSUME NEW state, NEW b, Typed(b), Describes(state.rows, b),
           NEW early \in DOMAIN b.days, NEW late \in DOMAIN b.days
    PROVE  \/ RepairTurnaround(state, early, late) = <<>>
           \/ /\ LateCall(b, early) < b.days[late].wrap
              /\ \E q : /\ RepairTurnaround(state, early, late)
                               = <<ShiftCallTime(late, LateCall(b, early))>> \o q
                        /\ Sequential(q)
                        /\ \A i \in 1 .. Len(q) : q[i].kind = "MoveSceneToDay" /\ Within(b, q[i])
<1> DEFINE call == LateCall(b, early)
           q    == CompressDay(state, late, call)
           targets == ReserveDaysAfter(state, late)
<1>1. ByDate(state.rows)[early].wrap = b.days[early].wrap
      /\ ByDate(state.rows)[late].wrap = b.days[late].wrap
    BY DEF Describes, SameHours
<1>2. RepairTurnaround(state, early, late) =
          IF call >= b.days[late].wrap THEN <<>> ELSE <<ShiftCallTime(late, call)>> \o q
    BY <1>1 DEF RepairTurnaround, LateCall
<1>3. call \in Int /\ b.days[late].wrap \in Int
  <2>1. b.days[early] \in Row /\ b.days[late] \in Row
    BY DEF Typed
  <2> QED
    BY <2>1, RowFields, HoursAssumption, BufferAssumption DEF LateCall
<1>4. \/ q = <<>>
      \/ targets # {} /\ Sends(q, AllScenes(b.days), Min(targets))
  <2>1. state.rows \in Seq(Row) /\ (\E i \in DOMAIN state.rows : state.rows[i].date = late)
        /\ Scheduled(state.rows) = AllScenes(b.days)
    BY DEF Describes
  <2> QED
    BY <2>1, CompressSends
<1>5. targets # {} => Min(targets) \in DOMAIN b.days
  <2>1. targets \subseteq DOMAIN b.days
    BY DEF ReserveDaysAfter, Describes, ToSet
  <2>2. targets \subseteq Int /\ IsFiniteSet(targets)
    BY <2>1, DatesAssumption, FS_Subset DEF Typed
  <2> QED
    BY <2>1, <2>2, LeastIsMin
<1> HIDE DEF q, targets, call
<1>6. Sequential(q) /\ \A i \in 1 .. Len(q) : q[i].kind = "MoveSceneToDay" /\ Within(b, q[i])
  <2>1. CASE q = <<>>
    BY <2>1, SendsNone DEF Sends
  <2>2. CASE targets # {} /\ Sends(q, AllScenes(b.days), Min(targets))
    BY <1>5, <2>2, SendsWithin DEF Sends
  <2> QED
    BY <1>4, <2>1, <2>2
<1>7. RepairTurnaround(state, early, late) # <<>> => call < b.days[late].wrap
    BY <1>2, <1>3
<1>8. RepairTurnaround(state, early, late) # <<>> =>
          RepairTurnaround(state, early, late) = <<ShiftCallTime(late, call)>> \o q
    BY <1>2
<1> QED
    BY <1>6, <1>7, <1>8, Zenon DEF call

\* A repair of absences: each scene once, to a day nobody of it is away on.
LEMMA AvailabilityRepair ==
    ASSUME NEW state, NEW b, Typed(b), Describes(state.rows, b),
           NEW faults, faults \subseteq CastAvailability(state)
    PROVE  /\ Sequential(RepairAvailability(state, faults))
           /\ \A i \in 1 .. Len(RepairAvailability(state, faults)) :
                 /\ RepairAvailability(state, faults)[i].kind = "MoveSceneToDay"
                 /\ Within(b, RepairAvailability(state, faults)[i])
                 /\ RepairAvailability(state, faults)[i].target
                       \in FreeReserveDays(state, RepairAvailability(state, faults)[i].scene)
           /\ \A i, j \in 1 .. Len(RepairAvailability(state, faults)) :
                 i # j => RepairAvailability(state, faults)[i].scene
                             # RepairAvailability(state, faults)[j].scene
<1> DEFINE movable == {s \in {f.subject[2] : f \in faults} : FreeReserveDays(state, s) # {}}
           order   == Ascending(movable)
           r       == RepairAvailability(state, faults)
           n       == Cardinality(movable)
           to(s)   == Min(FreeReserveDays(state, s))
<1>1. movable \subseteq AllScenes(b.days)
  <2> SUFFICES ASSUME NEW f \in faults PROVE f.subject[2] \in AllScenes(b.days)
    OBVIOUS
  <2>1. PICK row \in ToSet(state.rows) :
            \E s \in row.scenes : \E p : f = Violation("C003", <<p, s, row.date>>)
    <3>1. f \in CastAvailability(state)
      OBVIOUS
    <3>2. \E row \in ToSet(state.rows) : \E s \in row.scenes : \E p \in Cast[s] \cap DOMAIN state.away :
              /\ f = Violation("C003", <<p, s, row.date>>)
              /\ \E w \in state.away[p] : Touches(w, row)
      BY <3>1, AbsenceFault
    <3> HIDE DEF movable, order, r, n, to
    <3> QED
      BY <3>2, Zenon
  <2>1a. PICK s \in row.scenes : \E p : f = Violation("C003", <<p, s, row.date>>)
    BY <2>1
  <2>2. f.subject[2] = s
    BY <2>1a DEF Violation
  <2>3. s \in Scheduled(state.rows)
    BY DEF Scheduled, ToSet
  <2> QED
    BY <2>2, <2>3 DEF Describes
<1>2. movable \subseteq Int /\ IsFiniteSet(movable)
  <2>1. AllScenes(b.days) \subseteq Scenes
    BY SceneOnBoard DEF AllScenes
  <2> HIDE DEF movable
  <2> QED
    BY <1>1, <2>1, IdsAssumption, FS_Subset
<1>3. ASSUME NEW s \in movable PROVE to(s) \in FreeReserveDays(state, s) /\ to(s) \in DOMAIN b.days
  <2> DEFINE free == FreeReserveDays(state, s)
  <2>1. free \subseteq DOMAIN b.days
    BY DEF FreeReserveDays, Describes, ToSet
  <2>2. free \subseteq Int /\ IsFiniteSet(free)
    BY <2>1, DatesAssumption, FS_Subset DEF Typed
  <2>3. free # {}
    OBVIOUS
  <2> HIDE DEF free
  <2>4. Min(free) \in free
    BY <2>2, <2>3, LeastIsMin
  <2> QED
    BY <2>1, <2>4 DEF free
<1>4. r = [i \in DOMAIN order |-> MoveSceneToDay(order[i], to(order[i]))]
    BY DEF RepairAvailability
<1> HIDE DEF movable, n, to, r
<1>5. /\ order \in Seq(movable) /\ DOMAIN order = 1 .. n /\ n \in Nat
      /\ \A i, j \in DOMAIN order : i < j => order[i] < order[j]
    BY <1>2, AscendingIs DEF n
<1> HIDE DEF order
<1>6. \A i \in 1 .. n : order[i] \in movable
    BY <1>5
<1>7. Sequential(r) /\ Len(r) = n
  <2>1. DOMAIN r = 1 .. n /\ r = [i \in 1 .. n |-> r[i]]
    BY <1>4, <1>5
  <2> QED
    BY <1>5, <2>1, CountedIs
<1>8. \A i \in 1 .. n : /\ r[i].kind = "MoveSceneToDay"
                        /\ r[i].scene = order[i] /\ r[i].target = to(order[i])
    BY <1>4, <1>5 DEF MoveSceneToDay
<1>9. ASSUME NEW i \in 1 .. n
      PROVE  /\ r[i].kind = "MoveSceneToDay" /\ Within(b, r[i])
             /\ r[i].target \in FreeReserveDays(state, r[i].scene)
    BY <1>1, <1>3, <1>6, <1>8 DEF Within
<1>10. ASSUME NEW i \in 1 .. n, NEW j \in 1 .. n, i # j PROVE r[i].scene # r[j].scene
  <2>1. order[i] \in Int /\ order[j] \in Int
    BY <1>2, <1>6
  <2>2. i < j \/ j < i
    BY <1>5, <1>10
  <2>3. order[i] # order[j]
    BY <1>5, <2>1, <2>2
  <2> QED
    BY <1>8, <2>3
<1> QED
    BY <1>7, <1>9, <1>10 DEF r

(***************************************************************************)
(* The order of the moves in a plan.                                       *)
(***************************************************************************)
Again(n, m) ==
    n.kind = "MoveSceneToDay" /\ m.kind = "MoveSceneToDay" /\ n.scene = m.scene

\* No move undoes an earlier one, but for a scene that is moved again.
Orderly(q) ==
    /\ Sequential(q)
    /\ \A i \in 1 .. Len(q) : Bringing(q[i])
    /\ \A i, j \in 1 .. Len(q) : i < j => Leaves(q[j], q[i]) \/ Again(q[j], q[i])

\* What a repair adds to the plan that led to b.
Repairing(b, r) ==
    /\ Sequential(r)
    /\ \A i \in 1 .. Len(r) : Within(b, r[i]) /\ (r[i].kind = "ShiftCallTime" => i = 1)

LEMMA ProposedKinds ==
    ASSUME NEW q, Proposed(q)
    PROVE  /\ \A i \in 1 .. Len(q) :
                 /\ q[i].kind \in {"MoveSceneToDay", "SwapDays", "RelocateScene"}
                 /\ Bringing(q[i])
                 /\ q[i].kind = "SwapDays" => i = 1
           /\ \A i, j \in 1 .. Len(q) : i < j => Leaves(q[j], q[i]) \/ Again(q[j], q[i])
<1>1. CASE \A i \in 1 .. Len(q) : q[i].kind = "MoveSceneToDay"
    BY <1>1 DEF Bringing, Leaves, Again
<1>2. CASE Len(q) = 1 /\ q[1].kind = "SwapDays"
  <2>1. \A i \in 1 .. Len(q) : i = 1
    BY <1>2
  <2>2. \A i, j \in 1 .. Len(q) : ~(i < j)
    BY <1>2
  <2> QED
    BY <1>2, <2>1, <2>2 DEF Bringing
<1>3. CASE \E l \in Places : \A i \in 1 .. Len(q) : q[i].kind = "RelocateScene" /\ q[i].target = l
    BY <1>3 DEF Bringing, Leaves
<1> QED
    BY <1>1, <1>2, <1>3 DEF Proposed

LEMMA ProposedOrderly ==
    ASSUME NEW q, Proposed(q)
    PROVE  Orderly(q)
BY ProposedKinds DEF Proposed, Orderly

LEMMA RepairedOrderly ==
    ASSUME NEW q, Proposed(q), NEW b, NEW r, Repairing(b, r)
    PROVE  Orderly(q \o r)
<1> DEFINE p == q \o r
           m == Len(q)
           n == Len(r)
<1>1. /\ Sequential(p) /\ Len(p) = m + n /\ m \in Nat /\ n \in Nat
      /\ \A i \in 1 .. m : p[i] = q[i]
      /\ \A i \in 1 .. n : p[m + i] = r[i]
    BY Joined, SequentialIs DEF IsSequence, Proposed, Repairing
<1> HIDE DEF p, m, n
<1>2. \A i \in 1 .. m : /\ p[i].kind \in {"MoveSceneToDay", "SwapDays", "RelocateScene"}
                        /\ Bringing(p[i])
    BY <1>1, ProposedKinds DEF m
<1>3. \A i \in 1 .. n : /\ p[m + i].kind \in {"MoveSceneToDay", "ShiftCallTime"}
                        /\ Bringing(p[m + i])
                        /\ p[m + i].kind = "ShiftCallTime" => i = 1
    BY <1>1, WithinIsNamed DEF n, Repairing, Within
<1>4. ASSUME NEW k \in 1 .. m + n PROVE k \in 1 .. m \/ \E i \in 1 .. n : k = m + i
  <2>1. k \notin 1 .. m => k - m \in 1 .. n /\ k = m + (k - m)
    BY <1>1
  <2> QED
    BY <2>1
<1>5. ASSUME NEW k \in 1 .. m + n PROVE Bringing(p[k])
    BY <1>2, <1>3, <1>4
<1>6. ASSUME NEW i \in 1 .. m + n, NEW j \in 1 .. m + n, i < j
      PROVE  Leaves(p[j], p[i]) \/ Again(p[j], p[i])
  <2>1. CASE j \in 1 .. m
    <3>1. i \in 1 .. m
      BY <1>1, <1>6, <2>1
    <3>2. Leaves(q[j], q[i]) \/ Again(q[j], q[i])
      BY <1>6, <2>1, <3>1, ProposedKinds DEF m
    <3> QED
      BY <1>1, <2>1, <3>1, <3>2
  <2>2. CASE j \notin 1 .. m
    <3>1. PICK k \in 1 .. n : j = m + k
      BY <1>4, <2>2
    <3>2. p[j].kind \in {"MoveSceneToDay", "ShiftCallTime"}
      BY <1>3, <3>1
    <3>3. CASE i \in 1 .. m
      BY <1>2, <3>2, <3>3 DEF Leaves, Again
    <3>4. CASE i \notin 1 .. m
      <4>1. PICK l \in 1 .. n : i = m + l
        BY <1>4, <3>4
      <4>2. k # 1
        BY <1>1, <1>6, <3>1, <4>1
      <4>3. p[j].kind = "MoveSceneToDay"
        BY <1>3, <3>1, <4>2
      <4>4. p[i].kind \in {"MoveSceneToDay", "ShiftCallTime"}
        BY <1>3, <4>1
      <4> QED
        BY <4>3, <4>4 DEF Leaves, Again
    <3> QED
      BY <3>3, <3>4
  <2> QED
    BY <2>1, <2>2
<1> QED
    BY <1>1, <1>5, <1>6 DEF Orderly, p

\* What a repair adds can be made on the board it was built for.
LEMMA RepairingApplies ==
    ASSUME NEW b, Typed(b), b # Raised, NEW r, Repairing(b, r)
    PROVE  MovesFrom(b, r) # Raised
<1> DEFINE n == Len(r)
           Good(c) == /\ Typed(c) /\ DOMAIN c.days = DOMAIN b.days
                      /\ AllScenes(c.days) = AllScenes(b.days)
<1>1. IsSequence(r) /\ n \in Nat
    BY SequentialIs DEF Repairing, IsSequence
<1>2. PICK f : Boards(f, b, r) /\ MovesFrom(b, r) = f[n]
    BY <1>1, BoardsExist
<1> DEFINE T == {k \in 0 .. n : Good(f[k])}
<1>3. f[0] = b
    BY <1>2 DEF Boards
<1>4. 0 \in T
    BY <1>1, <1>3
<1>5. ASSUME NEW k \in 1 .. n, k - 1 \in T PROVE k \in T
  <2>1. Good(f[k - 1]) /\ Within(b, r[k])
    BY <1>5 DEF Repairing
  <2>2. Within(f[k - 1], r[k])
    BY <2>1 DEF Within
  <2>3. Names(f[k - 1], r[k]) /\ Bringing(r[k])
    BY <2>2, WithinIsNamed
  <2>4. f[k] = Moved(f[k - 1], r[k])
    BY <1>2, <2>3 DEF Boards, Made
  <2>5. Good(f[k])
    BY <2>1, <2>3, <2>4, MovedTyped
  <2> HIDE DEF Good
  <2> QED
    BY <1>1, <2>5
<1>6. n \in T
  <2> HIDE DEF T, n
  <2>1. \A k \in 0 .. n : k \in T
    BY <1>1, <1>4, <1>5, Upward
  <2> QED
    BY <1>1, <2>1
<1>7. CASE n = 0
    BY <1>2, <1>3, <1>7
<1>8. CASE n # 0
  <2>1. Within(b, r[1]) /\ DOMAIN f[n].days = DOMAIN b.days
    BY <1>1, <1>6, <1>8 DEF Repairing
  <2>2. DOMAIN b.days # {}
    BY <2>1 DEF Within
  <2>3. DOMAIN Raised.days = {}
    BY DEF Raised
  <2> QED
    BY <1>2, <2>1, <2>2, <2>3
<1> QED
    BY <1>7, <1>8

\* What a plan makes of the projected state and of the real one.
LEMMA AppliedBoard ==
    ASSUME NEW b \in Bases, NEW e, NEW q, Sequential(q), \A i \in 1 .. Len(q) : Bringing(q[i]),
           Applies(ProjectDisruption(b, e), q)
    PROVE  /\ MovesMade(ProjectDisruption(b, e), q) = MovesMade(b, q)
           /\ MovesMade(b, q) # Raised
           /\ Typed(MovesMade(b, q))
           /\ DOMAIN MovesMade(b, q).days = DOMAIN ByDate(b.rows)
           /\ AllScenes(MovesMade(b, q).days) = AllScenes(ByDate(b.rows))
           /\ Applied(ProjectDisruption(b, e), q) = Closed(ProjectDisruption(b, e), MovesMade(b, q))
           /\ Applied(b, q) = Closed(b, MovesMade(b, q))
           /\ Describes(Applied(ProjectDisruption(b, e), q).rows, MovesMade(b, q))
           /\ Describes(Applied(b, q).rows, MovesMade(b, q))
<1> DEFINE p     == ProjectDisruption(b, e)
           start == Opened(b)
           made  == MovesMade(b, q)
<1>1. DOMAIN p = Fields /\ DOMAIN b = Fields /\ Opened(p) = start
    BY ProjectedState
<1>2. MovesMade(p, q) = made /\ made = MovesFrom(start, q)
    BY <1>1 DEF MovesMade
<1>3. made # Raised
    BY <1>2 DEF Applies
<1>4. IsSequence(q) /\ Len(q) \in Nat
    BY SequentialIs DEF IsSequence
<1>5. Typed(start) /\ start.days = ByDate(b.rows)
    BY OpenedTyped DEF Opened
<1> HIDE DEF p, start, made
<1>6. PICK f : Boards(f, start, q) /\ MovesFrom(start, q) = f[Len(q)]
    BY <1>4, BoardsExist
<1>7. /\ Typed(made) /\ DOMAIN made.days = DOMAIN start.days
      /\ AllScenes(made.days) = AllScenes(start.days)
    BY <1>2, <1>3, <1>4, <1>5, <1>6, PlanBoards
<1>8. Applied(p, q) = Closed(p, made) /\ Applied(b, q) = Closed(b, made)
    BY <1>2 DEF Applied, made
<1>9. Describes(Closed(p, made).rows, made) /\ Describes(Closed(b, made).rows, made)
    BY <1>1, <1>7, ClosedDescribes
<1> QED
    BY <1>2, <1>3, <1>5, <1>7, <1>8, <1>9 DEF p, made

\* An evaluated plan of the first round.
Judged(state, x) ==
    /\ Proposed(x.plan.moves)
    /\ Applies(state, x.plan.moves)
    /\ x.faults = Validate(Applied(state, x.plan.moves))

LEMMA RepairMovesRepairing ==
    ASSUME NEW b \in Bases, NEW e, NEW x, Judged(ProjectDisruption(b, e), x)
    PROVE  Repairing(MovesMade(b, x.plan.moves), RepairMoves(ProjectDisruption(b, e), x))
<1> DEFINE p     == ProjectDisruption(b, e)
           made  == MovesMade(b, x.plan.moves)
           after == Applied(p, x.plan.moves)
           r     == RepairMoves(p, x)
<1>1. Sequential(x.plan.moves) /\ \A i \in 1 .. Len(x.plan.moves) : Bringing(x.plan.moves[i])
    BY ProposedOrderly DEF Orderly, Judged
<1>2. Typed(made) /\ Describes(after.rows, made)
    BY <1>1, AppliedBoard DEF Judged
<1>3. x.faults = Validate(after)
    BY DEF Judged
<1> HIDE DEF made, after
<1>4. CASE FaultsOf(x, "C001") # {}
  <2>1. PICK early, late : Rests(made, FirstTurnaround(x), early, late)
    BY <1>2, <1>3, <1>4, FirstTurnaroundIs
  <2>2. FirstTurnaround(x).subject[1] = early /\ FirstTurnaround(x).subject[2] = late
        /\ early \in DOMAIN made.days /\ late \in DOMAIN made.days
    BY <2>1 DEF Rests, Violation
  <2>3. r = RepairTurnaround(after, early, late)
    BY <1>4, <2>2 DEF RepairMoves, after
  <2>4. CASE r = <<>>
    <3>1. Sends(r, {}, 0)
      BY <2>4, SendsNone
    <3>2. Sequential(r) /\ \A i \in 1 .. Len(r) : FALSE
      BY <3>1 DEF Sends
    <3> QED
      BY <3>2 DEF Repairing, made
  <2>5. CASE r # <<>>
    <3> DEFINE m == ShiftCallTime(late, LateCall(made, early))
    <3>1. PICK q : /\ r = <<m>> \o q
                   /\ Sequential(q)
                   /\ \A i \in 1 .. Len(q) : q[i].kind = "MoveSceneToDay" /\ Within(made, q[i])
      BY <1>2, <2>2, <2>3, <2>5, TurnaroundRepair
    <3>2. m.kind = "ShiftCallTime" /\ Within(made, m)
      <4>1. made.days[early] \in Row
        BY <1>2, <2>2 DEF Typed
      <4>2. LateCall(made, early) \in Int
        BY <4>1, RowFields, HoursAssumption, BufferAssumption DEF LateCall
      <4> QED
        BY <2>2, <4>2 DEF Within, ShiftCallTime
    <3> HIDE DEF m
    <3>3. Sequential(<<m>>) /\ Len(<<m>>) = 1 /\ <<m>>[1] = m
      <4>1. <<m>> \in Seq({m}) /\ Len(<<m>>) = 1 /\ <<m>>[1] = m
        OBVIOUS
      <4> QED
        BY <4>1, Zenon DEF Sequential
    <3>4. /\ Sequential(r) /\ Len(r) = 1 + Len(q) /\ Len(q) \in Nat
          /\ r[1] = m
          /\ \A i \in 1 .. Len(q) : r[1 + i] = q[i]
      <4>1. Len(q) \in Nat
        BY <3>1, SequentialIs DEF IsSequence
      <4>2. /\ Sequential(r) /\ Len(r) = Len(<<m>>) + Len(q)
            /\ \A i \in 1 .. Len(<<m>>) : r[i] = <<m>>[i]
            /\ \A i \in 1 .. Len(q) : r[Len(<<m>>) + i] = q[i]
        BY <3>1, <3>3, Joined
      <4> QED
        BY <3>3, <4>1, <4>2
    <3>5. ASSUME NEW i \in 1 .. Len(r)
          PROVE  Within(made, r[i]) /\ (r[i].kind = "ShiftCallTime" => i = 1)
      <4>1. CASE i = 1
        BY <3>2, <3>4, <4>1
      <4>2. CASE i # 1
        <5>1. i - 1 \in 1 .. Len(q) /\ 1 + (i - 1) = i
          BY <3>4, <4>2
        <5> QED
          BY <3>1, <3>4, <5>1
      <4> QED
        BY <4>1, <4>2
    <3> HIDE DEF r
    <3>6. Repairing(made, r)
      BY <3>4, <3>5 DEF Repairing
    <3> QED
      BY <3>6 DEF r, made
  <2> QED
    BY <2>4, <2>5
<1>5. CASE FaultsOf(x, "C001") = {}
  <2>1. r = RepairAvailability(after, FaultsOf(x, "C003"))
    BY <1>5 DEF RepairMoves, after
  <2>2. FaultsOf(x, "C003") \subseteq CastAvailability(after)
    BY <1>3, FaultKinds DEF FaultsOf
  <2>3. Sequential(r) /\ \A i \in 1 .. Len(r) : r[i].kind = "MoveSceneToDay" /\ Within(made, r[i])
    BY <1>2, <2>1, <2>2, AvailabilityRepair
  <2> HIDE DEF r
  <2>4. Repairing(made, r)
    BY <2>3 DEF Repairing
  <2> QED
    BY <2>4 DEF made, r
<1> QED
    BY <1>4, <1>5

\* A repaired plan is orderly and applies.
LEMMA RepairedPlan ==
    ASSUME NEW b \in Bases, NEW e, NEW x, Judged(ProjectDisruption(b, e), x)
    PROVE  /\ Orderly(BuildRepair(ProjectDisruption(b, e), x).moves)
           /\ Applies(ProjectDisruption(b, e), BuildRepair(ProjectDisruption(b, e), x).moves)
<1> DEFINE p    == ProjectDisruption(b, e)
           q    == x.plan.moves
           r    == RepairMoves(p, x)
           made == MovesMade(b, q)
<1>1. BuildRepair(p, x).moves = q \o r
    BY DEF BuildRepair, Plan
<1>2. Proposed(q) /\ Sequential(q) /\ (\A i \in 1 .. Len(q) : Bringing(q[i])) /\ Applies(p, q)
    BY ProposedOrderly DEF Orderly, Judged
<1>3. Repairing(made, r)
    BY RepairMovesRepairing
<1>4. Typed(made) /\ made # Raised /\ MovesMade(p, q) = made
    BY <1>2, AppliedBoard
<1> HIDE DEF r, q, made
<1>5. Orderly(q \o r)
    BY <1>2, <1>3, RepairedOrderly
<1>6. MovesFrom(Opened(p), q \o r) = MovesFrom(MovesFrom(Opened(p), q), r)
    BY <1>2, <1>3, MovesThenMore DEF Repairing
<1>7. MovesFrom(Opened(p), q) = made
    BY <1>4 DEF MovesMade
<1>8. Applies(p, q \o r)
    BY <1>3, <1>4, <1>6, <1>7, RepairingApplies DEF Applies, MovesMade
<1> QED
    BY <1>1, <1>5, <1>8

(***************************************************************************)
(* What is true of the projected state is true of the real one.            *)
(***************************************************************************)
LEMMA SameRules ==
    ASSUME NEW x, NEW y, x.rows = y.rows, x.place = y.place, x.needs = y.needs
    PROVE  /\ CrewTurnaround(x) = CrewTurnaround(y)
           /\ MaxDailyHours(x) = MaxDailyHours(y)
           /\ LocationPermit(x) = LocationPermit(y)
           /\ LocationDoubleBook(x) = LocationDoubleBook(y)
           /\ EquipmentWindow(x) = EquipmentWindow(y)
           /\ EquipmentDoubleBook(x) = EquipmentDoubleBook(y)
           /\ PrerequisiteOrder(x) = PrerequisiteOrder(y)
           /\ IntExtMatch(x) = IntExtMatch(y)
           /\ TimeOfDayMatch(x) = TimeOfDayMatch(y)
<1>1. CrewTurnaround(x) = CrewTurnaround(y)
    BY DEF CrewTurnaround
<1>2. MaxDailyHours(x) = MaxDailyHours(y)
    BY DEF MaxDailyHours
<1>3. LocationPermit(x) = LocationPermit(y)
    BY DEF LocationPermit
<1>4. LocationDoubleBook(x) = LocationDoubleBook(y)
    BY DEF LocationDoubleBook
<1>5. EquipmentWindow(x) = EquipmentWindow(y)
    BY DEF EquipmentWindow
<1>6. EquipmentDoubleBook(x) = EquipmentDoubleBook(y)
    BY DEF EquipmentDoubleBook
<1>7. PrerequisiteOrder(x) = PrerequisiteOrder(y)
    BY DEF PrerequisiteOrder
<1>8. IntExtMatch(x) = IntExtMatch(y)
    BY DEF IntExtMatch
<1>9. TimeOfDayMatch(x) = TimeOfDayMatch(y)
    BY DEF TimeOfDayMatch
<1> QED
    BY <1>1, <1>2, <1>3, <1>4, <1>5, <1>6, <1>7, <1>8, <1>9

LEMMA FewerAbsences ==
    ASSUME NEW x, NEW y, x.rows = y.rows, DOMAIN x.away = DOMAIN y.away,
           \A p \in DOMAIN x.away : x.away[p] \subseteq y.away[p]
    PROVE  CastAvailability(x) \subseteq CastAvailability(y)
<1> SUFFICES ASSUME NEW f \in CastAvailability(x) PROVE f \in CastAvailability(y)
    OBVIOUS
<1>1. PICK row \in ToSet(x.rows) :
          \E s \in row.scenes : \E p \in Cast[s] \cap DOMAIN x.away :
              /\ f = Violation("C003", <<p, s, row.date>>)
              /\ \E w \in x.away[p] : Touches(w, row)
    BY AbsenceFault
<1>2. PICK s \in row.scenes : \E p \in Cast[s] \cap DOMAIN x.away :
              /\ f = Violation("C003", <<p, s, row.date>>)
              /\ \E w \in x.away[p] : Touches(w, row)
    BY <1>1
<1>3. PICK p \in Cast[s] \cap DOMAIN x.away :
              /\ f = Violation("C003", <<p, s, row.date>>)
              /\ \E w \in x.away[p] : Touches(w, row)
    BY <1>2
<1>4. row \in ToSet(y.rows) /\ p \in Cast[s] \cap DOMAIN y.away /\ \E w \in y.away[p] : Touches(w, row)
    BY <1>3
<1> QED
    BY <1>3, <1>4 DEF CastAvailability

LEMMA ProjectionAdds ==
    ASSUME NEW b \in Bases, NEW e
    PROVE  /\ DOMAIN ProjectDisruption(b, e).away = DOMAIN b.away
           /\ \A p \in DOMAIN b.away : b.away[p] \subseteq ProjectDisruption(b, e).away[p]
<1>1. DOMAIN b = Fields
    BY ProjectedState
<1>2. CASE ProjectDisruption(b, e) = b
    BY <1>2
<1>3. CASE ProjectDisruption(b, e) # b
  <2>1. /\ ProjectDisruption(b, e) = [b EXCEPT !.away[e.subject] = @ \cup {Absence(e)}]
        /\ e.subject \in DOMAIN b.away
    BY <1>3 DEF ProjectDisruption
  <2> QED
    BY <1>1, <2>1 DEF Fields
<1> QED
    BY <1>2, <1>3

\* A plan found valid on the projected state is lawful on the real one.
LEMMA JudgedOnReal ==
    ASSUME NEW b \in Bases, NEW e, NEW q, Orderly(q), Applies(ProjectDisruption(b, e), q),
           Validate(Applied(ProjectDisruption(b, e), q)) = {}
    PROVE  Lawful(Applied(b, q))
<1> DEFINE p    == ProjectDisruption(b, e)
           made == MovesMade(b, q)
           x    == Closed(b, made)
           y    == Closed(p, made)
<1>1. /\ Sequential(q) /\ \A i \in 1 .. Len(q) : Bringing(q[i])
      /\ Typed(made) /\ Applied(b, q) = x /\ Applied(p, q) = y
    BY AppliedBoard DEF Orderly
<1>2. DOMAIN b = Fields /\ DOMAIN p = Fields /\ p.needs = b.needs
    BY ProjectedState
<1>3. /\ x.place = made.place /\ y.place = made.place
      /\ x.needs = b.needs /\ y.needs = p.needs /\ x.away = b.away /\ y.away = p.away
    BY <1>1, <1>2, ClosedIs
<1>4. x.rows = InOrder(Rebooked(made)) /\ y.rows = InOrder(Rebooked(made))
    BY <1>2 DEF Closed, Fields
<1>5. DOMAIN p.away = DOMAIN b.away /\ \A k \in DOMAIN b.away : b.away[k] \subseteq p.away[k]
    BY ProjectionAdds
<1> HIDE DEF x, y, p, made
<1>6. CastAvailability(x) \subseteq CastAvailability(y)
    BY <1>3, <1>4, <1>5, FewerAbsences
<1>7. Validate(y) = {}
    BY <1>1 DEF p
<1>8. Validate(x) \subseteq Validate(y)
    BY <1>2, <1>3, <1>4, <1>6, SameRules DEF Validate
<1> QED
    BY <1>1, <1>7, <1>8 DEF Lawful, p

\* What verify finds of a plan that was found valid: V4 at most for a scene the
\* plan moves twice, V2 at most on a board with two rows on a date.
LEMMA VerifiedPlan ==
    ASSUME NEW b \in Bases, NEW e, NEW q, Orderly(q), Applies(ProjectDisruption(b, e), q)
    PROVE  /\ MovesLanded(q, Applied(b, q)) \/ MovedTwice(q)
           /\ OneRowPerDate(b.rows) => SceneSetIntact(b, Applied(b, q))
<1> DEFINE made  == MovesMade(b, q)
           after == Applied(b, q)
<1>1. /\ Sequential(q) /\ \A i \in 1 .. Len(q) : Bringing(q[i])
      /\ Typed(made) /\ made # Raised /\ after = Closed(b, made)
      /\ Describes(after.rows, made)
      /\ AllScenes(made.days) = AllScenes(ByDate(b.rows))
    BY AppliedBoard DEF Orderly
<1>2. DOMAIN b = Fields
    BY ProjectedState
<1>3. IsSequence(q)
    BY <1>1, SequentialIs
<1>4. ASSUME ~MovedTwice(q) PROVE MovesLanded(q, after)
  <2>1. DOMAIN q = 1 .. Len(q)
    BY <1>3 DEF IsSequence
  <2>2. \A i, j \in 1 .. Len(q) : i < j => Leaves(q[j], q[i])
    BY <1>4, <2>1 DEF Orderly, Again, MovedTwice
  <2>3. Typed(Opened(b)) /\ made = MovesFrom(Opened(b), q)
    BY OpenedTyped DEF MovesMade
  <2> HIDE DEF made, after
  <2>4. \A i \in 1 .. Len(q) : Shows(made, q[i])
    BY <1>1, <1>3, <2>2, <2>3, PlanIsShown
  <2>5. \A i \in 1 .. Len(q) : Landed(after, q[i])
    BY <1>1, <1>2, <2>4, ShownHasLanded
  <2> QED
    BY <2>1, <2>5 DEF MovesLanded
<1>5. ASSUME OneRowPerDate(b.rows) PROVE SceneSetIntact(b, after)
  <2>1. AllScenes(ByDate(b.rows)) = Scheduled(b.rows)
    BY <1>5, OpenedHolds DEF Holds
  <2> HIDE DEF made, after
  <2> QED
    BY <1>1, <2>1 DEF Describes, SceneSetIntact
<1> QED
    BY <1>4, <1>5

(***************************************************************************)
(* The inductive invariant of a recovery.                                  *)
(***************************************************************************)
\* A plan as the generator hands it to round one, and a result of that round.
Candidate(state, p) == p.repair = FALSE /\ Proposed(p.moves) /\ Applies(state, p.moves)
FirstTry(state, done, i) ==
    /\ i \in DOMAIN done
    /\ done[i].plan.repair = FALSE /\ done[i].plan.label = i
    /\ Judged(state, done[i])

\* The repair of the plan with index j.
RepairOf(state, done, p, j) ==
    /\ FirstTry(state, done, j)
    /\ RepairMoves(state, done[j]) # <<>>
    /\ p = BuildRepair(state, done[j])

\* What is on record of each plan, and where the plan came from.
Recorded ==
    /\ Sequential(evaluated)
    /\ \A i \in DOMAIN evaluated :
          /\ LET result == Applied(Projected, evaluated[i].plan.moves)
             IN  /\ evaluated[i].faults = Validate(result)
                 /\ evaluated[i].score = Score(Projected, result)
          /\ \/ FirstTry(Projected, evaluated, i)
             \/ \E j \in DOMAIN evaluated : RepairOf(Projected, evaluated, evaluated[i].plan, j)

\* What is still to be evaluated in each round.
Rounds ==
    /\ stage = "reported" => evaluated = <<>>
    /\ stage = "round one" =>
          /\ Sequential(todo)
          /\ \A k \in 1 .. Len(todo) :
                Candidate(Projected, todo[k]) /\ todo[k].label = Len(evaluated) + k
          /\ \A i \in DOMAIN evaluated : FirstTry(Projected, evaluated, i)
    /\ stage = "round two" =>
          /\ Sequential(todo)
          /\ \A k \in 1 .. Len(todo) :
                \E j \in DOMAIN evaluated : RepairOf(Projected, evaluated, todo[k], j)

\* What has been made of the chosen plan, and what verify found of it.
Execution ==
    LET moves == evaluated[chosen].plan.moves
    IN  /\ stage \in {"reported", "round one", "round two", "offered"} => board = Opened(base)
        /\ stage \in {"applying", "committed", "verified"} =>
              chosen \in DOMAIN evaluated /\ Valid(evaluated[chosen])
        /\ stage = "applying" =>
              Sequential(todo) /\ MovesFrom(board, todo) = MovesMade(base, moves)
        /\ stage \in {"committed", "verified"} => board = MovesMade(base, moves)
        /\ stage # "verified" => report = {}
        /\ stage = "verified" => report = FailedChecks(base, Closed(base, board), moves)

Stages == {"reported", "round one", "round two", "offered", "applying", "committed", "verified"}

PlanInv ==
    /\ base \in Bases /\ event \in Events /\ hints \in Hints
    /\ stage \in Stages
    /\ Recorded
    /\ Rounds
    /\ Execution

LEMMA EmptyIs == Sequential(<<>>) /\ \A start : MovesFrom(start, <<>>) = start
<1>1. Sequential(<<>>)
  <2>1. <<>> \in Seq({})
    OBVIOUS
  <2> QED
    BY <2>1 DEF Sequential
<1>2. ASSUME NEW start
      PROVE  MovesFrom(start, <<>>) = start
  <2>1. IsSequence(<<>>)
    BY DEF IsSequence
  <2>2. PICK f : Boards(f, start, <<>>) /\ MovesFrom(start, <<>>) = f[Len(<<>>)]
    BY <2>1, BoardsExist
  <2> QED
    BY <2>2 DEF Boards
<1> QED
  BY <1>1, <1>2

LEMMA PlanInvInit == Init => PlanInv
<1> SUFFICES ASSUME Init
             PROVE  PlanInv
  OBVIOUS
<1>1. Recorded
  BY EmptyIs DEF Init, Recorded
<1>2. Rounds
  BY DEF Init, Rounds
<1>3. Execution
  BY DEF Init, Execution
<1> QED
  BY <1>1, <1>2, <1>3 DEF Init, PlanInv, Stages

\* What is on record stays on record.
LEMMA StaysOnRecord ==
    ASSUME base' = base, event' = event,
           \A i \in DOMAIN evaluated : i \in DOMAIN evaluated' /\ evaluated'[i] = evaluated[i]
    PROVE  /\ Projected' = Projected
           /\ \A i : FirstTry(Projected, evaluated, i) => FirstTry(Projected', evaluated', i)
           /\ \A p, j : RepairOf(Projected, evaluated, p, j) => RepairOf(Projected', evaluated', p, j)
<1>1. Projected' = Projected
  BY DEF Projected
<1>2. ASSUME NEW i, FirstTry(Projected, evaluated, i)
      PROVE  FirstTry(Projected', evaluated', i)
  <2>1. i \in DOMAIN evaluated' /\ evaluated'[i] = evaluated[i]
    BY <1>2 DEF FirstTry
  <2> QED
    BY <1>1, <1>2, <2>1 DEF FirstTry
<1>3. ASSUME NEW p, NEW j, RepairOf(Projected, evaluated, p, j)
      PROVE  RepairOf(Projected', evaluated', p, j)
  <2>1. FirstTry(Projected', evaluated', j)
    BY <1>2, <1>3 DEF RepairOf
  <2>2. evaluated'[j] = evaluated[j]
    BY <1>3 DEF RepairOf, FirstTry
  <2> QED
    BY <1>1, <1>3, <2>1, <2>2 DEF RepairOf
<1> QED
  BY <1>1, <1>2, <1>3

\* As long as no plan is evaluated, the record is as it was.
LEMMA RecordUnchanged ==
    ASSUME base' = base, event' = event, evaluated' = evaluated, Recorded
    PROVE  Recorded'
<1>1. /\ Projected' = Projected
      /\ \A i : FirstTry(Projected, evaluated, i) => FirstTry(Projected', evaluated', i)
      /\ \A p, j : RepairOf(Projected, evaluated, p, j) => RepairOf(Projected', evaluated', p, j)
  BY StaysOnRecord
<1>2. ASSUME NEW i \in DOMAIN evaluated
      PROVE  \/ FirstTry(Projected', evaluated', i)
             \/ \E j \in DOMAIN evaluated' :
                    RepairOf(Projected', evaluated', evaluated'[i].plan, j)
  <2>1. CASE FirstTry(Projected, evaluated, i)
    BY <1>1, <2>1
  <2>2. CASE \E j \in DOMAIN evaluated : RepairOf(Projected, evaluated, evaluated[i].plan, j)
    <3>1. PICK j \in DOMAIN evaluated : RepairOf(Projected, evaluated, evaluated[i].plan, j)
      BY <2>2
    <3>2. PICK p : p = evaluated[i].plan
      OBVIOUS
    <3>3. RepairOf(Projected, evaluated, p, j)
      BY <3>1, <3>2
    <3>4. RepairOf(Projected', evaluated', p, j)
      BY <1>1, <3>3
    <3>5. p = evaluated'[i].plan
      BY <3>2
    <3>6. RepairOf(Projected', evaluated', evaluated'[i].plan, j)
      BY <3>4, <3>5 DEF RepairOf
    <3> QED
      BY <3>1, <3>6
  <2> QED
    BY <2>1, <2>2 DEF Recorded
<1> QED
  BY <1>1, <1>2 DEF Recorded

\* Every plan that was evaluated, repaired or not, is orderly and applies.
LEMMA RecordedApplies ==
    ASSUME PlanInv, NEW i \in DOMAIN evaluated
    PROVE  /\ Orderly(evaluated[i].plan.moves)
           /\ Applies(Projected, evaluated[i].plan.moves)
<1>1. CASE FirstTry(Projected, evaluated, i)
  BY <1>1, ProposedOrderly DEF FirstTry, Judged
<1>2. CASE \E j \in DOMAIN evaluated : RepairOf(Projected, evaluated, evaluated[i].plan, j)
  <2>1. PICK j \in DOMAIN evaluated : RepairOf(Projected, evaluated, evaluated[i].plan, j)
    BY <1>2
  <2>2. Judged(Projected, evaluated[j])
    BY <2>1 DEF RepairOf, FirstTry
  <2>3. base \in Bases
    BY DEF PlanInv
  <2> QED
    BY <2>1, <2>2, <2>3, RepairedPlan DEF RepairOf, Projected
<1> QED
  BY <1>1, <1>2 DEF PlanInv, Recorded

LEMMA GenerateKeeps == PlanInv /\ Generate => PlanInv'
<1> SUFFICES ASSUME PlanInv, Generate
             PROVE  PlanInv'
  OBVIOUS
<1>1. base \in Bases /\ event \in Events /\ hints \in Hints /\ evaluated = <<>>
  BY DEF PlanInv, Rounds, Generate
<1>2. RoundOne(Projected, GenerateCandidates(Projected, ImpactOf(base, event), hints))
  BY <1>1, GeneratedAreRoundOne DEF Projected
<1>3. Projected' = Projected
  BY DEF Generate, Projected
<1>4. Recorded'
  BY RecordUnchanged DEF PlanInv, Generate
<1>5. Rounds'
  <2>1. todo' = GenerateCandidates(Projected, ImpactOf(base, event), hints) /\ stage' = "round one"
    BY DEF Generate
  <2>2. evaluated' = <<>>
    BY <1>1 DEF Generate
  <2>3. RoundOne(Projected, todo')
    BY <1>2, <2>1
  <2>4. \A k \in 1 .. Len(todo') : Candidate(Projected', todo'[k]) /\ todo'[k].label = Len(evaluated') + k
    BY <1>3, <2>2, <2>3 DEF RoundOne, Candidate
  <2>5. Sequential(todo')
    BY <2>3 DEF RoundOne
  <2>6. \A i \in DOMAIN evaluated' : FirstTry(Projected', evaluated', i)
    BY <2>2
  <2> QED
    BY <2>1, <2>4, <2>5, <2>6 DEF Rounds
<1>6. Execution'
  BY DEF PlanInv, Execution, Generate
<1> QED
  BY <1>4, <1>5, <1>6 DEF PlanInv, Generate, Stages

LEMMA EvaluatePlanKeeps == PlanInv /\ EvaluatePlan => PlanInv'
<1> SUFFICES ASSUME PlanInv, EvaluatePlan
             PROVE  PlanInv'
  OBVIOUS
<1> DEFINE p == Head(todo)
           result == Applied(Projected, p.moves)
           x == [plan |-> p, faults |-> Validate(result), score |-> Score(Projected, result)]
<1>1. base \in Bases /\ stage \in {"round one", "round two"} /\ todo # <<>>
  BY DEF PlanInv, EvaluatePlan
<1>2. Sequential(todo) /\ Sequential(evaluated)
  BY <1>1 DEF PlanInv, Rounds, Recorded
<1>3. /\ Sequential(Tail(todo)) /\ Len(todo) \in Nat \ {0} /\ Len(Tail(todo)) = Len(todo) - 1
      /\ p = todo[1]
      /\ \A i \in 1 .. Len(todo) - 1 : Tail(todo)[i] = todo[i + 1]
  BY <1>1, <1>2, Beheaded
<1> HIDE DEF p
<1>0. 1 \in 1 .. Len(todo)
  BY <1>3
<1>4. stage = "round one" => Candidate(Projected, p) /\ p.label = Len(evaluated) + 1
  <2> SUFFICES ASSUME stage = "round one"
               PROVE  Candidate(Projected, p) /\ p.label = Len(evaluated) + 1
    OBVIOUS
  <2>1. \A k \in 1 .. Len(todo) :
           Candidate(Projected, todo[k]) /\ todo[k].label = Len(evaluated) + k
    BY DEF PlanInv, Rounds
  <2> QED
    BY <1>0, <1>3, <2>1
<1>5. stage = "round two" => \E j \in DOMAIN evaluated : RepairOf(Projected, evaluated, p, j)
  <2> SUFFICES ASSUME stage = "round two"
               PROVE  \E j \in DOMAIN evaluated : RepairOf(Projected, evaluated, p, j)
    OBVIOUS
  <2>1. \A k \in 1 .. Len(todo) :
           \E j \in DOMAIN evaluated : RepairOf(Projected, evaluated, todo[k], j)
    BY DEF PlanInv, Rounds
  <2> QED
    BY <1>0, <1>3, <2>1
<1>6. Applies(Projected, p.moves)
  <2>1. CASE stage = "round one"
    BY <1>4, <2>1 DEF Candidate
  <2>2. CASE stage = "round two"
    <3>1. PICK j \in DOMAIN evaluated : RepairOf(Projected, evaluated, p, j)
      BY <1>5, <2>2
    <3> QED
      BY <1>1, <3>1, RepairedPlan DEF RepairOf, FirstTry, Projected
  <2> QED
    BY <1>1, <2>1, <2>2
<1>7. /\ evaluated' = Append(evaluated, x) /\ stage' = stage /\ todo' = Tail(todo)
      /\ UNCHANGED <<base, event, hints, frontier, chosen, board, report>>
  BY <1>6 DEF EvaluatePlan, p
<1>8. PICK T : evaluated \in Seq(T)
  BY <1>2 DEF Sequential
<1> HIDE DEF x
<1>8a. \E U : Append(evaluated, x) \in Seq(U)
  BY <1>8, AppendAny
<1>9. /\ Sequential(evaluated')
      /\ DOMAIN evaluated' = DOMAIN evaluated \cup {Len(evaluated) + 1}
      /\ \A i \in DOMAIN evaluated : evaluated'[i] = evaluated[i]
      /\ evaluated'[Len(evaluated) + 1] = x
  <2>1. Sequential(evaluated')
    BY <1>7, <1>8a DEF Sequential
  <2> QED
    BY <1>7, <1>8, <2>1, AppendAny
<1>10. Len(evaluated') = Len(evaluated) + 1
  BY <1>7, <1>8
<1>11. /\ Projected' = Projected
       /\ \A i : FirstTry(Projected, evaluated, i) => FirstTry(Projected', evaluated', i)
       /\ \A q, j : RepairOf(Projected, evaluated, q, j) => RepairOf(Projected', evaluated', q, j)
  BY <1>7, <1>9, StaysOnRecord
<1>12. x.plan = p /\ x.faults = Validate(Applied(Projected, p.moves))
       /\ x.score = Score(Projected, Applied(Projected, p.moves))
  BY DEF x
<1>13. stage = "round one" => FirstTry(Projected', evaluated', Len(evaluated) + 1)
  BY <1>4, <1>9, <1>11, <1>12 DEF FirstTry, Judged, Candidate
<1>14. Recorded'
  <2>1. ASSUME NEW i \in DOMAIN evaluated'
        PROVE  /\ evaluated'[i].faults = Validate(Applied(Projected, evaluated'[i].plan.moves))
               /\ evaluated'[i].score = Score(Projected, Applied(Projected, evaluated'[i].plan.moves))
    <3>1. CASE i \in DOMAIN evaluated
      BY <1>9, <3>1 DEF PlanInv, Recorded
    <3>2. CASE i = Len(evaluated) + 1
      BY <1>9, <1>12, <3>2
    <3> QED
      BY <1>9, <3>1, <3>2
  <2>2. ASSUME NEW i \in DOMAIN evaluated'
        PROVE  \/ FirstTry(Projected', evaluated', i)
               \/ \E j \in DOMAIN evaluated' :
                      RepairOf(Projected', evaluated', evaluated'[i].plan, j)
    <3>1. CASE i \in DOMAIN evaluated /\ FirstTry(Projected, evaluated, i)
      BY <1>11, <3>1
    <3>2. CASE /\ i \in DOMAIN evaluated
               /\ \E j \in DOMAIN evaluated :
                     RepairOf(Projected, evaluated, evaluated[i].plan, j)
      <4>1. PICK j \in DOMAIN evaluated : RepairOf(Projected, evaluated, evaluated[i].plan, j)
        BY <3>2
      <4>2. PICK q : q = evaluated[i].plan
        OBVIOUS
      <4>3. RepairOf(Projected', evaluated', q, j)
        BY <1>11, <4>1, <4>2
      <4>4. q = evaluated'[i].plan
        BY <1>9, <3>2, <4>2
      <4>5. RepairOf(Projected', evaluated', evaluated'[i].plan, j)
        BY <4>3, <4>4 DEF RepairOf
      <4> QED
        BY <1>9, <4>1, <4>5
    <3>3. CASE i = Len(evaluated) + 1 /\ stage = "round one"
      BY <1>13, <3>3
    <3>4. CASE i = Len(evaluated) + 1 /\ stage = "round two"
      <4>1. PICK j \in DOMAIN evaluated : RepairOf(Projected, evaluated, p, j)
        BY <1>5, <3>4
      <4>2. PICK q : q = p
        OBVIOUS
      <4>3. RepairOf(Projected', evaluated', q, j)
        BY <1>11, <4>1, <4>2
      <4>4. q = evaluated'[i].plan
        BY <1>9, <1>12, <3>4, <4>2
      <4>5. RepairOf(Projected', evaluated', evaluated'[i].plan, j)
        BY <4>3, <4>4 DEF RepairOf
      <4> QED
        BY <1>9, <4>1, <4>5
    <3>5. i \in DOMAIN evaluated =>
             \/ FirstTry(Projected, evaluated, i)
             \/ \E j \in DOMAIN evaluated : RepairOf(Projected, evaluated, evaluated[i].plan, j)
      BY DEF PlanInv, Recorded
    <3> QED
      BY <1>1, <1>9, <3>1, <3>2, <3>3, <3>4, <3>5
  <2> QED
    BY <1>9, <1>11, <2>1, <2>2 DEF Recorded
<1>15. Rounds'
  <2>1. CASE stage = "round one"
    <3>1. ASSUME NEW k \in 1 .. Len(todo')
          PROVE  Candidate(Projected', todo'[k]) /\ todo'[k].label = Len(evaluated') + k
      <4>1. k + 1 \in 1 .. Len(todo) /\ todo'[k] = todo[k + 1]
        BY <1>3, <1>7
      <4>2. Candidate(Projected, todo[k + 1]) /\ todo[k + 1].label = Len(evaluated) + (k + 1)
        BY <2>1, <4>1 DEF PlanInv, Rounds
      <4>3. Len(evaluated) \in Nat
        BY <1>8
      <4> QED
        BY <1>10, <1>11, <4>1, <4>2, <4>3 DEF Candidate
    <3>2. \A i \in DOMAIN evaluated' : FirstTry(Projected', evaluated', i)
      <4>1. \A i \in DOMAIN evaluated : FirstTry(Projected', evaluated', i)
        BY <1>11, <2>1 DEF PlanInv, Rounds
      <4> QED
        BY <1>9, <1>13, <2>1, <4>1
    <3> QED
      BY <1>3, <1>7, <2>1, <3>1, <3>2 DEF Rounds
  <2>2. CASE stage = "round two"
    <3>1. ASSUME NEW k \in 1 .. Len(todo')
          PROVE  \E j \in DOMAIN evaluated' : RepairOf(Projected', evaluated', todo'[k], j)
      <4>1. k + 1 \in 1 .. Len(todo) /\ todo'[k] = todo[k + 1]
        BY <1>3, <1>7
      <4>2. PICK j \in DOMAIN evaluated : RepairOf(Projected, evaluated, todo[k + 1], j)
        BY <2>2, <4>1 DEF PlanInv, Rounds
      <4>3. PICK q : q = todo[k + 1]
        OBVIOUS
      <4>4. RepairOf(Projected', evaluated', q, j)
        BY <1>11, <4>2, <4>3
      <4>5. RepairOf(Projected', evaluated', todo'[k], j)
        BY <4>1, <4>3, <4>4 DEF RepairOf
      <4> QED
        BY <1>9, <4>5
    <3> QED
      BY <1>3, <1>7, <2>2, <3>1 DEF Rounds
  <2> QED
    BY <1>1, <2>1, <2>2
<1>16. Execution'
  BY <1>1, <1>7 DEF PlanInv, Execution
<1> QED
  BY <1>1, <1>7, <1>14, <1>15, <1>16 DEF PlanInv, Stages

LEMMA RepairKeeps == PlanInv /\ Repair => PlanInv'
<1> SUFFICES ASSUME PlanInv, Repair
             PROVE  PlanInv'
  OBVIOUS
<1> DEFINE cured  == {i \in DOMAIN evaluated :
                        ~Valid(evaluated[i]) /\ RepairMoves(Projected, evaluated[i]) # <<>>}
           failed == Ascending(cured)
           next   == [k \in DOMAIN failed |-> BuildRepair(Projected, evaluated[failed[k]])]
<1>1. /\ stage = "round one" /\ stage' = "round two" /\ todo' = next
      /\ UNCHANGED <<base, event, hints, evaluated, frontier, chosen, board, report>>
  BY DEF Repair
<1>2. PICK T : evaluated \in Seq(T)
  BY DEF PlanInv, Recorded, Sequential
<1>3. DOMAIN evaluated = 1 .. Len(evaluated) /\ Len(evaluated) \in Nat
  BY <1>2
<1>4. cured \subseteq Int /\ IsFiniteSet(cured)
  <2>1. IsFiniteSet(DOMAIN evaluated)
    BY <1>3, FS_Interval
  <2> QED
    BY <1>3, <2>1, FS_Subset
<1> HIDE DEF cured
<1>5. /\ failed \in Seq(cured)
      /\ DOMAIN failed = 1 .. Cardinality(cured) /\ Cardinality(cured) \in Nat
  BY <1>4, AscendingIs
<1>6. ASSUME NEW k \in DOMAIN failed
      PROVE  \E j \in DOMAIN evaluated :
                RepairOf(Projected, evaluated, BuildRepair(Projected, evaluated[failed[k]]), j)
  <2>1. PICK j : j = failed[k]
    OBVIOUS
  <2>2. j \in cured
    BY <1>5, <2>1
  <2>3. j \in DOMAIN evaluated /\ RepairMoves(Projected, evaluated[j]) # <<>>
    BY <2>2 DEF cured
  <2>4. FirstTry(Projected, evaluated, j)
    BY <1>1, <2>3 DEF PlanInv, Rounds
  <2> QED
    BY <2>1, <2>3, <2>4 DEF RepairOf
<1> HIDE DEF failed
<1>7. Sequential(next) /\ Len(next) = Cardinality(cured)
  <2>1. DOMAIN next = 1 .. Cardinality(cured)
    BY <1>5
  <2>2. next = [k \in 1 .. Cardinality(cured) |-> next[k]]
    BY <1>5
  <2> HIDE DEF next
  <2> QED
    BY <1>5, <2>1, <2>2, CountedIs
<1>8. Projected' = Projected
  BY <1>1 DEF Projected
<1>9. Recorded'
  BY <1>1, RecordUnchanged DEF PlanInv
<1>10. Rounds'
  <2>1. ASSUME NEW k \in 1 .. Len(todo')
        PROVE  \E j \in DOMAIN evaluated' : RepairOf(Projected', evaluated', todo'[k], j)
    <3>1. k \in DOMAIN failed
      BY <1>1, <1>5, <1>7
    <3>2. todo'[k] = BuildRepair(Projected, evaluated[failed[k]])
      BY <1>1, <3>1
    <3> QED
      BY <1>1, <1>6, <1>8, <3>1, <3>2
  <2>2. Sequential(todo')
    BY <1>1, <1>7
  <2> QED
    BY <1>1, <2>1, <2>2 DEF Rounds
<1>11. Execution'
  BY <1>1 DEF PlanInv, Execution
<1> QED
  BY <1>1, <1>9, <1>10, <1>11 DEF PlanInv, Stages

LEMMA MarkParetoKeeps == PlanInv /\ MarkPareto => PlanInv'
<1> SUFFICES ASSUME PlanInv, MarkPareto
             PROVE  PlanInv'
  OBVIOUS
<1>1. Recorded'
  BY RecordUnchanged DEF PlanInv, MarkPareto
<1>2. Rounds'
  BY DEF MarkPareto, Rounds
<1>3. Execution'
  BY DEF PlanInv, Execution, MarkPareto
<1> QED
  BY <1>1, <1>2, <1>3 DEF PlanInv, MarkPareto, Stages

LEMMA ExecuteKeeps == ASSUME PlanInv, NEW i \in DOMAIN evaluated, Execute(i) PROVE PlanInv'
<1>1. Recorded'
  BY RecordUnchanged DEF PlanInv, Execute
<1>2. Rounds'
  BY DEF Execute, Rounds
<1>3. Execution'
  <2>1. /\ stage = "offered" /\ stage' = "applying" /\ chosen' = i /\ Valid(evaluated[i])
        /\ todo' = evaluated[i].plan.moves
        /\ UNCHANGED <<base, event, hints, evaluated, frontier, board, report>>
    BY DEF Execute
  <2>2. board = Opened(base) /\ report = {}
    BY <2>1 DEF PlanInv, Execution
  <2>3. Sequential(evaluated[i].plan.moves)
    BY RecordedApplies DEF Orderly
  <2>4. MovesFrom(board', todo') = MovesMade(base', evaluated'[chosen'].plan.moves)
    BY <2>1, <2>2 DEF MovesMade
  <2>5. Valid(evaluated'[chosen'])
    BY <2>1
  <2> QED
    BY <2>1, <2>2, <2>3, <2>4, <2>5 DEF Execution
<1> QED
  BY <1>1, <1>2, <1>3 DEF PlanInv, Execute, Stages

LEMMA MakeMoveKeeps == PlanInv /\ MakeMove => PlanInv'
<1> SUFFICES ASSUME PlanInv, MakeMove
             PROVE  PlanInv'
  OBVIOUS
<1>1. /\ stage = "applying" /\ todo # <<>> /\ Names(board, Head(todo))
      /\ board' = Moved(board, Head(todo)) /\ todo' = Tail(todo)
      /\ UNCHANGED <<base, event, hints, stage, evaluated, frontier, chosen, report>>
  BY DEF MakeMove
<1>2. Recorded'
  BY <1>1, RecordUnchanged DEF PlanInv
<1>3. Rounds'
  BY <1>1 DEF Rounds
<1>4. Execution'
  <2>1. /\ Sequential(todo)
        /\ MovesFrom(board, todo) = MovesMade(base, evaluated[chosen].plan.moves)
        /\ chosen \in DOMAIN evaluated /\ Valid(evaluated[chosen])
        /\ report = {}
    BY <1>1 DEF PlanInv, Execution
  <2>2. Sequential(Tail(todo))
    BY <1>1, <2>1, Beheaded
  <2>3. Moved(board, Head(todo)) = Made(board, Head(todo))
    BY <1>1 DEF Made
  <2>4. MovesFrom(board, todo) = MovesFrom(board', todo')
    BY <1>1, <2>1, <2>3, OneMoveFirst
  <2>5. MovesFrom(board', todo') = MovesMade(base', evaluated'[chosen'].plan.moves)
    BY <1>1, <2>1, <2>4
  <2> QED
    BY <1>1, <2>1, <2>2, <2>5 DEF Execution
<1> QED
  BY <1>1, <1>2, <1>3, <1>4 DEF PlanInv

\* Gate 2 accepts what the recovery found valid.
LEMMA CommitKeeps == PlanInv /\ Commit => PlanInv'
<1> SUFFICES ASSUME PlanInv, Commit
             PROVE  PlanInv'
  OBVIOUS
<1> DEFINE moves == evaluated[chosen].plan.moves
<1>1. /\ stage = "applying" /\ todo = <<>>
      /\ stage' = IF Lawful(Closed(base, board)) THEN "committed" ELSE "refused"
      /\ UNCHANGED <<base, event, hints, plans, chosen, board, report>>
  BY DEF Commit
<1>2. Recorded'
  BY <1>1, RecordUnchanged DEF PlanInv, plans
<1>3. /\ MovesFrom(board, todo) = MovesMade(base, moves)
      /\ chosen \in DOMAIN evaluated /\ Valid(evaluated[chosen])
      /\ report = {}
  BY <1>1 DEF PlanInv, Execution
<1>4. board = MovesMade(base, moves)
  BY <1>1, <1>3, EmptyIs
<1>5. Lawful(Applied(base, moves))
  <2>1. Orderly(moves) /\ Applies(Projected, moves)
    BY <1>3, RecordedApplies
  <2>2. Validate(Applied(Projected, moves)) = {}
    BY <1>3 DEF PlanInv, Recorded, Valid
  <2>3. base \in Bases
    BY DEF PlanInv
  <2> HIDE DEF moves
  <2> QED
    BY <2>1, <2>2, <2>3, JudgedOnReal DEF Projected
<1>6. stage' = "committed"
  BY <1>1, <1>4, <1>5 DEF Applied
<1>7. Rounds'
  BY <1>6 DEF Rounds
<1>8. Execution'
  BY <1>1, <1>3, <1>4, <1>6 DEF Execution, plans
<1> QED
  BY <1>1, <1>2, <1>6, <1>7, <1>8 DEF PlanInv, Stages

LEMMA VerifyKeeps == PlanInv /\ Verify => PlanInv'
<1> SUFFICES ASSUME PlanInv, Verify
             PROVE  PlanInv'
  OBVIOUS
<1>1. Recorded'
  BY RecordUnchanged DEF PlanInv, Verify, plans
<1>2. Rounds'
  BY DEF Verify, Rounds
<1>3. Execution'
  BY DEF PlanInv, Execution, Verify, plans
<1> QED
  BY <1>1, <1>2, <1>3 DEF PlanInv, Verify, Stages

LEMMA PlanInvStep == PlanInv /\ [Next]_vars => PlanInv'
<1> SUFFICES ASSUME PlanInv, [Next]_vars
             PROVE  PlanInv'
  OBVIOUS
<1>1. CASE UNCHANGED vars
  <2>1. /\ UNCHANGED <<base, event, hints, stage, todo, evaluated>>
        /\ UNCHANGED <<frontier, chosen, board, report>>
    BY <1>1 DEF vars
  <2>2. Recorded'
    BY <2>1, RecordUnchanged DEF PlanInv
  <2>3. Projected' = Projected
    BY <2>1 DEF Projected
  <2>4. Rounds'
    BY <2>1, <2>3 DEF PlanInv, Rounds
  <2>5. Execution'
    BY <2>1 DEF PlanInv, Execution
  <2> QED
    BY <2>1, <2>2, <2>4, <2>5 DEF PlanInv
<1>2. CASE \E i \in DOMAIN evaluated : Execute(i)
  BY <1>2, ExecuteKeeps
<1> QED
  BY <1>1, <1>2, GenerateKeeps, EvaluatePlanKeeps, RepairKeeps, MarkParetoKeeps,
     MakeMoveKeeps, CommitKeeps, VerifyKeeps DEF Next

LEMMA PlanInvAgrees == PlanInv => ExecutionAgrees
<1> SUFFICES ASSUME PlanInv
             PROVE  ExecutionAgrees
  OBVIOUS
<1>1. stage \notin {"raised", "refused"}
  BY DEF PlanInv, Stages
<1>2. ASSUME stage = "applying", todo # <<>>
      PROVE  Names(board, Head(todo))
  <2> DEFINE moves == evaluated[chosen].plan.moves
  <2>1. /\ Sequential(todo) /\ MovesFrom(board, todo) = MovesMade(base, moves)
        /\ chosen \in DOMAIN evaluated
    BY <1>2 DEF PlanInv, Execution
  <2>2. Orderly(moves) /\ Applies(Projected, moves) /\ base \in Bases
    BY <2>1, RecordedApplies DEF PlanInv
  <2> HIDE DEF moves
  <2>3. MovesMade(base, moves) # Raised
    BY <2>2, AppliedBoard DEF Projected, Orderly
  <2>4. IsSequence(todo) /\ Len(todo) \in Nat \ {0} /\ Head(todo) = todo[1]
    BY <1>2, <2>1, SequentialIs, Beheaded
  <2>5. PICK f : Boards(f, board, todo)
    BY <2>4, BoardsExist
  <2>6. 1 \in 1 .. Len(todo) /\ f[1 - 1] = board
    BY <2>4, <2>5 DEF Boards
  <2>7. Names(f[1 - 1], todo[1])
    BY <2>1, <2>3, <2>4, <2>5, <2>6, EachIsMade
  <2> QED
    BY <2>4, <2>6, <2>7
<1>3. CASE stage # "verified"
  BY <1>1, <1>2, <1>3 DEF PlanInv, Execution, ExecutionAgrees
<1>4. CASE stage = "verified"
  <2> DEFINE moves == evaluated[chosen].plan.moves
             after == Applied(base, moves)
  <2>1. /\ chosen \in DOMAIN evaluated /\ Valid(evaluated[chosen])
        /\ board = MovesMade(base, moves)
        /\ report = FailedChecks(base, Closed(base, board), moves)
    BY <1>4 DEF PlanInv, Execution
  <2>2. report = FailedChecks(base, after, moves)
    BY <2>1 DEF Applied
  <2>3. Orderly(moves) /\ Applies(Projected, moves)
    BY <2>1, RecordedApplies
  <2>4. Validate(Applied(Projected, moves)) = {}
    BY <2>1 DEF PlanInv, Recorded, Valid
  <2>5. base \in Bases
    BY DEF PlanInv
  <2> HIDE DEF moves
  <2>6. Lawful(after)
    BY <2>3, <2>4, <2>5, JudgedOnReal DEF Projected
  <2>7. /\ MovesLanded(moves, after) \/ MovedTwice(moves)
        /\ OneRowPerDate(base.rows) => SceneSetIntact(base, after)
    BY <2>3, <2>5, VerifiedPlan DEF Projected
  <2> HIDE DEF after
  <2>8. PrerequisiteOrder(after) = {}
    BY <2>6 DEF Lawful, Validate
  <2>9. /\ report \subseteq {"V2", "V4"}
        /\ "V2" \in report => ~OneRowPerDate(base.rows)
        /\ "V4" \in report => MovedTwice(moves)
    BY <2>2, <2>6, <2>7, <2>8 DEF FailedChecks
  <2> QED
    BY <1>1, <1>2, <2>9 DEF ExecutionAgrees, moves
<1> QED
  BY <1>3, <1>4

\* Every result on record is what the rules and the measures say of a plan of
\* the generator or of a repair of one, each of which can be applied, and the
\* board is what the chosen plan has made of the head so far (recover, execute).
THEOREM RecoveryInvariant == Spec => []PlanInv
<1>1. Init => PlanInv
  BY PlanInvInit
<1>2. PlanInv /\ [Next]_vars => PlanInv'
  BY PlanInvStep
<1> QED
  BY <1>1, <1>2, PTL DEF Spec

\* What the recovery promises of a plan is what its execution does: apply never
\* raises, in neither of them, gate 2 never refuses a plan that was found valid, and verify fails
\* at most V4, for a scene the plan moves twice, and V2, on a board with two
\* rows on a date (evaluate_plan against execute and verify).
THEOREM ExecutionAgreesHolds == Spec => []ExecutionAgrees
<1>1. Spec => []PlanInv
  BY RecoveryInvariant
<1>2. PlanInv => ExecutionAgrees
  BY PlanInvAgrees
<1> QED
  BY <1>1, <1>2, PTL

(***************************************************************************)
(* A repair cures what it was built for.                                   *)
(***************************************************************************)
\* Moving scenes leaves the hours of every day.
LEMMA HoursStay ==
    ASSUME NEW start, Typed(start), NEW q, IsSequence(q), MovesFrom(start, q) # Raised,
           \A k \in 1 .. Len(q) : q[k].kind = "MoveSceneToDay"
    PROVE  /\ Typed(MovesFrom(start, q))
           /\ DOMAIN MovesFrom(start, q).days = DOMAIN start.days
           /\ \A d \in DOMAIN start.days : SameHours(MovesFrom(start, q).days[d], start.days[d])
<1> DEFINE n == Len(q)
<1>1. PICK f : Boards(f, start, q) /\ MovesFrom(start, q) = f[n]
  BY BoardsExist
<1>2. n \in Nat /\ f[0] = start
  BY <1>1 DEF IsSequence, Boards
<1>3. \A k \in 1 .. n : Bringing(q[k])
  BY DEF Bringing
<1>4. \A k \in 1 .. n : Names(f[k - 1], q[k]) /\ f[k] = Moved(f[k - 1], q[k])
  BY <1>1, EachIsMade
<1>5. \A k \in 0 .. n : Typed(f[k]) /\ DOMAIN f[k].days = DOMAIN start.days
  BY <1>1, <1>3, PlanBoards
<1> DEFINE Same(b) == \A d \in DOMAIN start.days : SameHours(b.days[d], start.days[d])
           T       == {k \in 0 .. n : Same(f[k])}
<1>6. 0 \in T
  BY <1>2 DEF SameHours
<1>7. ASSUME NEW k \in 1 .. n, k - 1 \in T
      PROVE  k \in T
  <2>1. k - 1 \in 0 .. n /\ k \in 0 .. n
    BY <1>2
  <2>2. Typed(f[k - 1]) /\ DOMAIN f[k - 1].days = DOMAIN start.days
    BY <1>5, <2>1
  <2>3. \A d \in DOMAIN start.days : SameHours(f[k].days[d], f[k - 1].days[d])
    BY <1>4, <2>2, SceneIsMoved
  <2>4. Same(f[k - 1])
    BY <1>7
  <2>5. Same(f[k])
    BY <2>3, <2>4 DEF SameHours
  <2> HIDE DEF Same
  <2> QED
    BY <2>1, <2>5
<1>8. \A k \in 0 .. n : k \in T
  <2> HIDE DEF T, n
  <2> QED
    BY <1>2, <1>6, <1>7, Upward
<1>9. n \in 0 .. n
  BY <1>2
<1> QED
  BY <1>1, <1>5, <1>8, <1>9

\* No plan of a family leaves a day without hours to work in.
LEMMA HoursRemain ==
    ASSUME NEW start, Typed(start), NEW q, Proposed(q), MovesFrom(start, q) # Raised,
           \A d \in DOMAIN start.days : start.days[d].call < start.days[d].wrap
    PROVE  \A d \in DOMAIN start.days :
              MovesFrom(start, q).days[d].call < MovesFrom(start, q).days[d].wrap
<1> DEFINE n == Len(q)
<1>0. IsSequence(q)
  BY SequentialIs DEF Proposed
<1>1. PICK f : Boards(f, start, q) /\ MovesFrom(start, q) = f[n]
  BY <1>0, BoardsExist
<1>2. n \in Nat /\ f[0] = start
  BY <1>0, <1>1 DEF IsSequence, Boards
<1>3. \A k \in 1 .. n : /\ Bringing(q[k])
                        /\ q[k].kind \in {"MoveSceneToDay", "SwapDays", "RelocateScene"}
  BY ProposedKinds
<1>4. \A k \in 1 .. n : Names(f[k - 1], q[k]) /\ f[k] = Moved(f[k - 1], q[k])
  BY <1>0, <1>1, EachIsMade
<1>5. \A k \in 0 .. n : Typed(f[k]) /\ DOMAIN f[k].days = DOMAIN start.days
  BY <1>0, <1>1, <1>3, PlanBoards
<1> DEFINE Open(b) == \A d \in DOMAIN start.days : b.days[d].call < b.days[d].wrap
           T       == {k \in 0 .. n : Open(f[k])}
<1>6. 0 \in T
  BY <1>2
<1>7. ASSUME NEW k \in 1 .. n, k - 1 \in T
      PROVE  k \in T
  <2>1. k - 1 \in 0 .. n /\ k \in 0 .. n
    BY <1>2
  <2> DEFINE b == f[k - 1]
             m == q[k]
  <2>2. Typed(b) /\ DOMAIN b.days = DOMAIN start.days
    BY <1>5, <2>1
  <2>3. Names(b, m) /\ f[k] = Moved(b, m)
    BY <1>4
  <2>4. Open(b)
    BY <1>7
  <2>5. \A d \in DOMAIN b.days : b.days[d] \in Row
    BY <2>2 DEF Typed
  <2> HIDE DEF b
  <2>6. CASE m.kind = "MoveSceneToDay"
    <3>1. \A d \in DOMAIN b.days : SameHours(Moved(b, m).days[d], b.days[d])
      BY <2>2, <2>3, <2>6, SceneIsMoved
    <3>2. Open(Moved(b, m))
      BY <2>2, <2>4, <3>1 DEF SameHours
    <3> QED
      BY <2>1, <2>3, <3>2
  <2>7. CASE m.kind = "RelocateScene"
    <3>1. Moved(b, m).days = b.days
      BY <2>2, <2>3, <2>7, SceneIsRelocated
    <3>2. Open(Moved(b, m))
      BY <2>4, <3>1
    <3> QED
      BY <2>1, <2>3, <3>2
  <2>8. CASE m.kind = "SwapDays"
    <3>1. /\ m.a \in DOMAIN b.days /\ m.b \in DOMAIN b.days
          /\ \A d \in DOMAIN b.days :
                Moved(b, m).days[d] = IF d = m.b THEN Carried(b.days[m.a], b.days[m.b])
                                      ELSE IF d = m.a THEN Carried(b.days[m.b], b.days[m.a])
                                      ELSE b.days[d]
      BY <2>2, <2>3, <2>8, DaysAreSwapped
    <3>2. ASSUME NEW from \in DOMAIN b.days, NEW onto \in DOMAIN b.days
          PROVE  Carried(b.days[from], b.days[onto]).call < Carried(b.days[from], b.days[onto]).wrap
      <4>1. /\ b.days[from] \in Row /\ b.days[onto] \in Row
            /\ b.days[from].call < b.days[from].wrap
        BY <2>2, <2>4, <2>5
      <4>2. /\ Carried(b.days[from], b.days[onto]) \in Row
            /\ Carried(b.days[from], b.days[onto]).wrap - Carried(b.days[from], b.days[onto]).call
                  = b.days[from].wrap - b.days[from].call
        BY <4>1, CarriedRow
      <4> QED
        BY <4>1, <4>2, RowFields
    <3>3. Open(Moved(b, m))
      BY <2>2, <2>4, <3>1, <3>2
    <3> QED
      BY <2>1, <2>3, <3>3
  <2> QED
    BY <1>3, <2>6, <2>7, <2>8
<1>8. \A k \in 0 .. n : k \in T
  <2> HIDE DEF T, n
  <2> QED
    BY <1>2, <1>6, <1>7, Upward
<1>9. n \in 0 .. n
  BY <1>2
<1> QED
  BY <1>1, <1>8, <1>9

\* The board a plan led to, and the one its repair leads to.
Failed(b, x) == MovesMade(b, x.plan.moves)
Cured(b, e, x) == MovesFrom(Failed(b, x), RepairMoves(ProjectDisruption(b, e), x))

LEMMA RepairedBoard ==
    ASSUME NEW b \in Bases, NEW e, NEW x, Judged(ProjectDisruption(b, e), x),
           NEW p, p = ProjectDisruption(b, e), NEW r, r = RepairMoves(p, x)
    PROVE  /\ Sequential(x.plan.moves) /\ Sequential(r)
           /\ BuildRepair(p, x).moves = x.plan.moves \o r
           /\ Typed(Failed(b, x)) /\ Typed(Cured(b, e, x))
           /\ Cured(b, e, x) # Raised
           /\ Describes(Applied(p, x.plan.moves).rows, Failed(b, x))
           /\ Describes(Applied(p, x.plan.moves \o r).rows, Cured(b, e, x))
           /\ Applied(p, x.plan.moves).away = p.away
           /\ Applied(p, x.plan.moves \o r).away = p.away
<1> DEFINE q == x.plan.moves
<1>1. Proposed(q) /\ Sequential(q) /\ (\A i \in 1 .. Len(q) : Bringing(q[i])) /\ Applies(p, q)
  BY ProposedOrderly DEF Orderly, Judged
<1>2. Repairing(Failed(b, x), r) /\ Sequential(r)
  BY RepairMovesRepairing DEF Failed, Repairing
<1>3. BuildRepair(p, x).moves = q \o r
  BY DEF BuildRepair, Plan
<1>4. Orderly(q \o r) /\ Applies(p, q \o r)
  <2>1. Orderly(BuildRepair(p, x).moves) /\ Applies(p, BuildRepair(p, x).moves)
    BY RepairedPlan
  <2> HIDE DEF q
  <2> QED
    BY <1>3, <2>1
<1>5. /\ Typed(Failed(b, x)) /\ Describes(Applied(p, q).rows, Failed(b, x))
  BY <1>1, AppliedBoard DEF Failed
<1>6. MovesMade(b, q \o r) = Cured(b, e, x)
  <2>1. MovesFrom(Opened(b), q \o r) = MovesFrom(MovesFrom(Opened(b), q), r)
    BY <1>1, <1>2, MovesThenMore
  <2> QED
    BY <2>1 DEF MovesMade, Cured, Failed
<1> HIDE DEF q
<1>7. /\ MovesMade(b, q \o r) # Raised /\ Typed(MovesMade(b, q \o r))
      /\ Describes(Applied(p, q \o r).rows, MovesMade(b, q \o r))
  BY <1>4, AppliedBoard DEF Orderly
<1>8. Applied(p, q).away = p.away /\ Applied(p, q \o r).away = p.away
  BY SameDaysApplied
<1> QED
  BY <1>1, <1>2, <1>3, <1>5, <1>6, <1>7, <1>8 DEF q

\* The late day of a turnaround is called after the rest, and nothing after it
\* in the repair moves a call.
LEMMA TurnaroundHealed ==
    ASSUME NEW b \in Bases, NEW e, NEW x, Judged(ProjectDisruption(b, e), x),
           FaultsOf(x, "C001") # {}, NEW p, p = ProjectDisruption(b, e),
           RepairMoves(p, x) # <<>>, NEW after, after = Applied(p, BuildRepair(p, x).moves)
    PROVE  /\ FirstTurnaround(x) \notin Validate(after)
           /\ \A row \in ToSet(after.rows) : row.call < row.wrap
<1> DEFINE made  == Failed(b, x)
           done  == Cured(b, e, x)
           state == Applied(p, x.plan.moves)
           r     == RepairMoves(p, x)
<1>1. /\ Typed(made) /\ Typed(done) /\ done # Raised
      /\ Describes(state.rows, made) /\ Describes(after.rows, done)
  BY RepairedBoard
<1>2. x.faults = Validate(state)
  BY DEF Judged
<1>3. PICK early, late : Rests(made, FirstTurnaround(x), early, late)
  BY <1>1, <1>2, FirstTurnaroundIs
<1>4. /\ FirstTurnaround(x).subject[1] = early /\ FirstTurnaround(x).subject[2] = late
      /\ FirstTurnaround(x) = Violation("C001", <<early, late>>)
      /\ early \in DOMAIN made.days /\ late \in DOMAIN made.days /\ early # late
  BY <1>3 DEF Rests, Violation
<1>5. r = RepairTurnaround(state, early, late)
  BY <1>4 DEF RepairMoves
<1> DEFINE call == LateCall(made, early)
           m    == ShiftCallTime(late, call)
<1>6. /\ call < made.days[late].wrap
      /\ \E q : /\ r = <<m>> \o q
                /\ Sequential(q)
                /\ \A i \in 1 .. Len(q) : q[i].kind = "MoveSceneToDay" /\ Within(made, q[i])
  <2> HIDE DEF made, state
  <2> QED
    BY <1>1, <1>4, <1>5, TurnaroundRepair
<1>7. PICK q : /\ r = <<m>> \o q
               /\ Sequential(q)
               /\ \A i \in 1 .. Len(q) : q[i].kind = "MoveSceneToDay" /\ Within(made, q[i])
  BY <1>6
<1>8. call \in Int /\ made.days[early] \in Row
  <2>1. made.days[early] \in Row
    BY <1>1, <1>4 DEF Typed
  <2> QED
    BY <2>1, RowFields, HoursAssumption, BufferAssumption DEF LateCall
<1> DEFINE shifted == Moved(made, m)
<1>9. Names(made, m) /\ m.kind = "ShiftCallTime" /\ m.date = late /\ m.call = call /\ Bringing(m)
  BY <1>4, <1>8 DEF Names, ShiftCallTime, Bringing
<1>10. done = MovesFrom(shifted, q)
  <2>1. Sequential(<<m>>) /\ <<m>> # <<>> /\ Head(<<m>>) = m /\ Tail(<<m>>) = <<>>
    <3> HIDE DEF m
    <3>1. <<m>> \in Seq({m}) /\ <<m>> # <<>> /\ Head(<<m>>) = m /\ Tail(<<m>>) = <<>>
      OBVIOUS
    <3> QED
      BY <3>1, Zenon DEF Sequential
  <2>2. MovesFrom(made, <<m>> \o q) = MovesFrom(MovesFrom(made, <<m>>), q)
    <3> HIDE DEF m, made
    <3> QED
      BY <1>7, <2>1, MovesThenMore
  <2>3. MovesFrom(made, <<m>>) = MovesFrom(Made(made, Head(<<m>>)), Tail(<<m>>))
    <3> HIDE DEF m, made
    <3> QED
      BY <2>1, OneMoveFirst
  <2>4. MovesFrom(made, <<m>>) = shifted
    <3> HIDE DEF m, made
    <3>1. Made(made, m) = shifted
      BY <1>9 DEF Made
    <3> QED
      BY <2>1, <2>3, <3>1, EmptyIs
  <2>5. done = MovesFrom(made, r)
    BY DEF Cured
  <2> HIDE DEF m, made, done, r, shifted
  <2> QED
    BY <1>7, <2>2, <2>4, <2>5
<1> HIDE DEF made, done, r, m, call
<1>11. /\ Typed(shifted) /\ DOMAIN shifted.days = DOMAIN made.days
       /\ \A d \in DOMAIN made.days :
             /\ shifted.days[d].wrap = made.days[d].wrap
             /\ shifted.days[d].call = IF d = late THEN call ELSE made.days[d].call
  BY <1>1, <1>9, MovedTyped, CallIsShifted
<1> HIDE DEF shifted
<1>12. /\ DOMAIN done.days = DOMAIN made.days
       /\ \A d \in DOMAIN made.days :
             /\ done.days[d].wrap = made.days[d].wrap
             /\ done.days[d].call = IF d = late THEN call ELSE made.days[d].call
  <2>1. IsSequence(q)
    BY <1>7, SequentialIs
  <2>2. /\ DOMAIN done.days = DOMAIN shifted.days
        /\ \A d \in DOMAIN shifted.days : SameHours(done.days[d], shifted.days[d])
    BY <1>1, <1>7, <1>10, <1>11, <2>1, HoursStay
  <2> QED
    BY <1>11, <2>2 DEF SameHours
<1>13. \A d \in DOMAIN made.days : made.days[d].call < made.days[d].wrap
  <2>1. Typed(Opened(b)) /\ \A d \in DOMAIN Opened(b).days : Opened(b).days[d].call < Opened(b).days[d].wrap
    BY OpenedTyped DEF Opened
  <2>2. Proposed(x.plan.moves) /\ Applies(p, x.plan.moves)
    BY DEF Judged
  <2>3. Sequential(x.plan.moves) /\ \A i \in 1 .. Len(x.plan.moves) : Bringing(x.plan.moves[i])
    BY <2>2, ProposedOrderly DEF Orderly
  <2>4. MovesMade(b, x.plan.moves) # Raised
        /\ DOMAIN MovesMade(b, x.plan.moves).days = DOMAIN ByDate(b.rows)
    BY <2>2, <2>3, AppliedBoard
  <2>5. \A d \in DOMAIN Opened(b).days :
           MovesFrom(Opened(b), x.plan.moves).days[d].call
              < MovesFrom(Opened(b), x.plan.moves).days[d].wrap
    BY <2>1, <2>2, <2>4, HoursRemain DEF MovesMade
  <2> QED
    BY <2>4, <2>5 DEF made, Failed, MovesMade, Opened
<1>14. ASSUME NEW row \in ToSet(after.rows)
       PROVE  row.call < row.wrap
  <2> DEFINE d == row.date
  <2>1. d \in DOMAIN done.days /\ SameHours(row, done.days[d])
    BY <1>1, DescribedRow
  <2> HIDE DEF d
  <2>2. row.call = done.days[d].call /\ row.wrap = done.days[d].wrap
    BY <2>1 DEF SameHours
  <2>3. d \in DOMAIN made.days /\ row.wrap = made.days[d].wrap
        /\ row.call = IF d = late THEN call ELSE made.days[d].call
    BY <1>12, <2>1, <2>2
  <2>4. CASE d = late
    BY <1>6, <2>3, <2>4
  <2>5. CASE d # late
    BY <1>13, <2>3, <2>5
  <2> QED
    BY <2>4, <2>5
<1>15. ASSUME FirstTurnaround(x) \in Validate(after)
       PROVE  FALSE
  <2> DEFINE rows == after.rows
  <2>1. FirstTurnaround(x) \in CrewTurnaround(after)
    BY <1>4, <1>15, FaultKinds DEF Violation
  <2>2. PICK i \in 1 .. Len(rows) - 1 :
           /\ FirstTurnaround(x) = Violation("C001", <<rows[i].date, rows[i + 1].date>>)
           /\ rows[i + 1].call - rows[i].wrap < RestUnits
    BY <2>1 DEF CrewTurnaround
  <2>3. rows[i].date = early /\ rows[i + 1].date = late
    BY <1>4, <2>2 DEF Violation
  <2>4. i \in DOMAIN rows /\ i + 1 \in DOMAIN rows
    <3>1. rows \in Seq(Row)
      BY <1>1 DEF Describes
    <3>2. DOMAIN rows = 1 .. Len(rows) /\ Len(rows) \in Nat
      BY <3>1
    <3> HIDE DEF rows
    <3> QED
      BY <3>2
  <2>5. rows[i].wrap = done.days[early].wrap /\ rows[i + 1].call = done.days[late].call
    BY <1>1, <2>3, <2>4 DEF Describes, SameHours
  <2>6. rows[i].wrap = made.days[early].wrap /\ rows[i + 1].call = call
    BY <1>4, <1>12, <2>5
  <2>7. made.days[early].wrap \in Int
    BY <1>8, RowFields
  <2> QED
    BY <1>8, <2>2, <2>6, <2>7, HoursAssumption, BufferAssumption DEF call, LateCall
<1> QED
  BY <1>14, <1>15

\* Each scene a repair moved is on a day nobody of it is away on.
LEMMA AvailabilityHealed ==
    ASSUME NEW b \in Bases, NEW e, NEW x, Judged(ProjectDisruption(b, e), x),
           FaultsOf(x, "C001") = {}, NEW p, p = ProjectDisruption(b, e),
           NEW q, q = BuildRepair(p, x).moves,
           NEW i \in Len(x.plan.moves) + 1 .. Len(q),
           NEW f \in Validate(Applied(p, q)), f.code = "C003"
    PROVE  f.subject[2] # q[i].scene
<1> DEFINE made   == Failed(b, x)
           done   == Cured(b, e, x)
           before == Applied(p, x.plan.moves)
           after  == Applied(p, q)
           r      == RepairMoves(p, x)
           n      == Len(x.plan.moves)
<1>1. /\ Sequential(x.plan.moves) /\ Sequential(r) /\ q = x.plan.moves \o r
      /\ Typed(made) /\ Typed(done) /\ done # Raised
      /\ Describes(before.rows, made) /\ Describes(after.rows, done)
      /\ before.away = p.away /\ after.away = p.away
  <2>1. q = x.plan.moves \o r
    BY DEF BuildRepair, Plan
  <2>2. after = Applied(p, x.plan.moves \o r)
    BY <2>1
  <2> HIDE DEF after
  <2> QED
    BY <2>1, <2>2, RepairedBoard
<1>2. r = RepairAvailability(before, FaultsOf(x, "C003"))
  BY DEF RepairMoves
<1>3. FaultsOf(x, "C003") \subseteq CastAvailability(before)
  BY FaultKinds DEF FaultsOf, Judged
<1>3a. done = MovesFrom(made, r)
  BY DEF Cured
<1> HIDE DEF r, made, done, before, after
<1>4. /\ \A k \in 1 .. Len(r) :
            /\ r[k].kind = "MoveSceneToDay"
            /\ r[k].target \in FreeReserveDays(before, r[k].scene)
      /\ \A k, l \in 1 .. Len(r) : k # l => r[k].scene # r[l].scene
  BY <1>1, <1>2, <1>3, AvailabilityRepair
<1>5. i - n \in 1 .. Len(r) /\ q[i] = r[i - n] /\ n \in Nat
  <2>1. /\ Len(q) = n + Len(r) /\ n \in Nat /\ Len(r) \in Nat
        /\ \A k \in 1 .. Len(r) : q[n + k] = r[k]
    BY <1>1, Joined, SequentialIs DEF IsSequence
  <2>2. i \in n + 1 .. Len(q)
    OBVIOUS
  <2> HIDE DEF n
  <2>3. i - n \in 1 .. Len(r) /\ n + (i - n) = i
    BY <2>1, <2>2
  <2> QED
    BY <2>1, <2>3
<1> DEFINE m == r[i - n]
           s == m.scene
           t == m.target
<1>6. IsSequence(r) /\ Len(r) \in Nat
  BY <1>1, SequentialIs DEF IsSequence
<1>7. t \in DOMAIN done.days /\ s \in done.days[t].scenes
  <2>1. \A k, l \in 1 .. Len(r) : k < l => Leaves(r[l], r[k])
    BY <1>4, <1>6 DEF Leaves
  <2>2. \A k \in 1 .. Len(r) : Bringing(r[k])
    BY <1>4 DEF Bringing
  <2>3. \A k \in 1 .. Len(r) : Shows(done, r[k])
    BY <1>1, <1>3a, <1>6, <2>1, <2>2, PlanIsShown
  <2> QED
    BY <1>4, <1>5, <2>3 DEF Shows
<1>8. /\ DOMAIN done.days = DOMAIN made.days
      /\ \A d \in DOMAIN made.days : SameHours(done.days[d], made.days[d])
  BY <1>1, <1>3a, <1>4, <1>6, HoursStay
<1>9. t \in FreeReserveDays(before, s)
  BY <1>4, <1>5
<1> HIDE DEF m, s, t
<1>10. PICK free \in ToSet(before.rows) :
          free.date = t /\ \A a \in Cast[s] : t \notin BlockedDates(before, a)
  BY <1>9 DEF FreeReserveDays
<1> SUFFICES ASSUME f.subject[2] = s
             PROVE  FALSE
  BY <1>5 DEF s, m
<1>11. f \in CastAvailability(after)
  BY FaultKinds DEF after
<1>12. PICK row \in ToSet(after.rows) : \E c \in row.scenes : \E a \in Cast[c] \cap DOMAIN after.away :
          /\ f = Violation("C003", <<a, c, row.date>>)
          /\ \E w \in after.away[a] : Touches(w, row)
  <2> HIDE DEF n
  <2> QED
    BY <1>11, AbsenceFault
<1>13. PICK c \in row.scenes : \E a \in Cast[c] \cap DOMAIN after.away :
          /\ f = Violation("C003", <<a, c, row.date>>)
          /\ \E w \in after.away[a] : Touches(w, row)
  BY <1>12
<1>14. PICK a \in Cast[c] \cap DOMAIN after.away :
          /\ f = Violation("C003", <<a, c, row.date>>)
          /\ \E w \in after.away[a] : Touches(w, row)
  BY <1>13
<1>15. PICK w \in after.away[a] : Touches(w, row)
  BY <1>14
<1>16. c = s
  BY <1>14 DEF Violation
<1>17. row.date \in DOMAIN done.days /\ SameHours(row, done.days[row.date])
       /\ s \in done.days[row.date].scenes
  BY <1>1, <1>13, <1>16, DescribedRow
<1>18. row.date = t
  BY <1>1, <1>7, <1>17 DEF Typed, OnceEach
<1>19. SameHours(free, made.days[t])
  BY <1>1, <1>10, DescribedRow
<1>20. row.call = free.call /\ row.wrap = free.wrap
  BY <1>7, <1>8, <1>17, <1>18, <1>19 DEF SameHours
<1>21. Touches(w, free)
  BY <1>15, <1>20 DEF Touches
<1>22. t \in BlockedDates(before, a)
  BY <1>1, <1>10, <1>14, <1>15, <1>21 DEF BlockedDates
<1> QED
  BY <1>10, <1>14, <1>16, <1>22

LEMMA PlanInvHeals == PlanInv => RepairsHeal
<1> SUFFICES ASSUME PlanInv, NEW i \in DOMAIN evaluated, NEW j \in DOMAIN evaluated,
                    evaluated[i].plan.label = evaluated[j].plan.label,
                    ~evaluated[i].plan.repair, evaluated[j].plan.repair
             PROVE  Heals(evaluated[i], evaluated[j])
  BY DEF RepairsHeal
<1> DEFINE p == Projected
           x == evaluated[i]
           y == evaluated[j]
<1>1. base \in Bases /\ p = ProjectDisruption(base, event)
  BY DEF PlanInv, Projected
<1>2. FirstTry(p, evaluated, i)
  <2>1. ASSUME NEW k, RepairOf(p, evaluated, x.plan, k)
        PROVE  FALSE
    <3>1. x.plan = BuildRepair(p, evaluated[k])
      BY <2>1 DEF RepairOf
    <3> QED
      BY <3>1 DEF BuildRepair, Plan
  <2> QED
    BY <2>1 DEF PlanInv, Recorded
<1>3. PICK k \in DOMAIN evaluated : RepairOf(p, evaluated, y.plan, k)
  <2>1. ~FirstTry(p, evaluated, j)
    BY DEF FirstTry
  <2> QED
    BY <2>1 DEF PlanInv, Recorded
<1>4. y.plan = BuildRepair(p, evaluated[k]) /\ RepairMoves(p, evaluated[k]) # <<>>
      /\ FirstTry(p, evaluated, k)
  BY <1>3 DEF RepairOf
<1>5. k = i
  <2>1. y.plan.label = evaluated[k].plan.label
    BY <1>4 DEF BuildRepair, Plan
  <2> QED
    BY <1>2, <1>4, <2>1 DEF FirstTry
<1>6. Judged(p, x) /\ y.plan = BuildRepair(p, x) /\ RepairMoves(p, x) # <<>>
  BY <1>4, <1>5 DEF FirstTry
<1> DEFINE q     == y.plan.moves
           after == Applied(p, q)
<1>7. q = BuildRepair(p, x).moves
  BY <1>6
<1>8. y.faults = Validate(after)
  BY DEF PlanInv, Recorded
<1> HIDE DEF p, x, y, q, after
<1>9. CASE FaultsOf(x, "C001") # {}
  <2>1. after = Applied(p, BuildRepair(p, x).moves)
    BY <1>7 DEF after
  <2>2. /\ FirstTurnaround(x) \notin Validate(after)
        /\ \A row \in ToSet(after.rows) : row.call < row.wrap
    BY <1>1, <1>6, <1>9, <2>1, TurnaroundHealed
  <2>3. /\ FirstTurnaround(x) \notin y.faults
        /\ \A row \in ToSet(Applied(Projected, y.plan.moves).rows) : row.call < row.wrap
    BY <1>8, <2>2 DEF after, p, q
  <2> QED
    BY <1>9, <2>3 DEF Heals, x, y
<1>10. CASE FaultsOf(x, "C001") = {}
  <2>1. ASSUME NEW n \in Len(x.plan.moves) + 1 .. Len(q), NEW f \in FaultsOf(y, "C003")
        PROVE  f.subject[2] # q[n].scene
    <3>1. f \in Validate(after) /\ f.code = "C003"
      BY <1>8 DEF FaultsOf
    <3>2. f \in Validate(Applied(p, q))
      BY <3>1 DEF after
    <3> QED
      BY <1>1, <1>6, <1>7, <1>10, <3>1, <3>2, AvailabilityHealed
  <2> QED
    BY <1>10, <2>1 DEF Heals, x, y, q
<1> QED
  BY <1>9, <1>10

\* A repair cures what it was built for: the turnaround it was aimed at holds
\* and every day keeps hours to work in, or no scene it moved still misses one
\* of its cast (build_repair).
THEOREM RepairsHealHolds == Spec => []RepairsHeal
<1>1. Spec => []PlanInv
  BY RecoveryInvariant
<1>2. PlanInv => RepairsHeal
  BY PlanInvHeals
<1> QED
  BY <1>1, <1>2, PTL

(***************************************************************************)
(* Scores are numbers, and beating is a strict order on them.              *)
(***************************************************************************)
\* A sum over a finite set is a number, and a positive one if what is summed
\* is positive and there is any of it.
LEMMA SumIs ==
    ASSUME NEW f, IsFiniteSet(DOMAIN f), \A x \in DOMAIN f : f[x] \in Int
    PROVE  /\ SumFunction(f) \in Int
           /\ (\A x \in DOMAIN f : f[x] > 0) =>
                 SumFunction(f) >= 0 /\ (DOMAIN f # {} => SumFunction(f) > 0)
<1> DEFINE S == DOMAIN f
           n == Cardinality(S)
           First(s)    == CHOOSE x \in s : TRUE
           Next1(g, s) == IF s = {} THEN 0 ELSE f[First(s)] + g[s \ {First(s)}]
           Folds(g)    == g = [s \in SUBSET S |-> Next1(g, s)]
           Small(k)    == {s \in SUBSET S : Cardinality(s) <= k}
           Part(g, k)  == g = [s \in Small(k) |-> Next1(g, s)]
           T           == {k \in 0 .. n : \E g : Part(g, k)}
<1>1. n \in Nat
  BY FS_CardinalityType
<1>2. ASSUME NEW s \in SUBSET S
      PROVE  IsFiniteSet(s) /\ Cardinality(s) \in 0 .. n
  BY <1>1, FS_Subset, FS_CardinalityType
<1>3. ASSUME NEW k \in Nat, NEW s \in Small(k), s # {}
      PROVE  /\ First(s) \in s /\ s \ {First(s)} \in SUBSET S
             /\ k # 0 /\ s \ {First(s)} \in Small(k - 1)
  <2>1. First(s) \in s
    BY <1>3
  <2> HIDE DEF First
  <2>2. Cardinality(s \ {First(s)}) = Cardinality(s) - 1
    BY <1>2, <2>1, FS_RemoveElement
  <2>3. Cardinality(s \ {First(s)}) \in Nat /\ Cardinality(s) <= k
    BY <1>2
  <2>4. k # 0 /\ Cardinality(s \ {First(s)}) <= k - 1
    BY <1>2, <2>2, <2>3
  <2> QED
    BY <2>1, <2>4
<1> HIDE DEF First
<1>4. 0 \in T
  <2> DEFINE g == [s \in Small(0) |-> 0]
  <2>1. \A s \in Small(0) : s = {}
    BY <1>3
  <2>2. Part(g, 0)
    <3> HIDE DEF Small
    <3> QED
      BY <2>1
  <2> HIDE DEF Part, g
  <2> QED
    BY <1>1, <2>2
<1>5. ASSUME NEW k \in 1 .. n, k - 1 \in T
      PROVE  k \in T
  <2>1. PICK g : Part(g, k - 1)
    BY <1>5
  <2> DEFINE h == [s \in Small(k) |-> Next1(g, s)]
  <2>2. ASSUME NEW s \in Small(k)
        PROVE  h[s] = Next1(h, s)
    <3>1. CASE s = {}
      BY <3>1
    <3>2. CASE s # {}
      <4> DEFINE rest == s \ {First(s)}
      <4>1. rest \in Small(k - 1)
        BY <1>1, <1>3, <3>2
      <4>2. rest \in Small(k)
        BY <1>1, <1>2, <4>1
      <4>3. g[rest] = Next1(g, rest)
        <5> HIDE DEF Next1, Small, rest
        <5> QED
          BY <2>1, <4>1
      <4>4. h[rest] = g[rest]
        <5> HIDE DEF Next1, Small, rest
        <5> QED
          BY <4>2, <4>3
      <4>5. h[s] = f[First(s)] + g[rest]
        <5> HIDE DEF Small
        <5> QED
          BY <3>2
      <4> HIDE DEF h
      <4> QED
        BY <3>2, <4>4, <4>5
    <3> QED
      BY <3>1, <3>2
  <2>3. h = [s \in Small(k) |-> h[s]]
    <3> HIDE DEF Next1, Small
    <3> QED
      OBVIOUS
  <2> HIDE DEF h, Next1, Small
  <2>4. Part(h, k)
    BY <2>2, <2>3
  <2> HIDE DEF Part
  <2>5. k \in 0 .. n
    BY <1>1
  <2> QED
    BY <2>4, <2>5
<1>6. n \in T
  <2> HIDE DEF T, n
  <2>1. \A k \in 1 .. n : k - 1 \in T => k \in T
    BY <1>5
  <2>2. \A k \in 0 .. n : k \in T
    BY <1>1, <1>4, <2>1, Upward
  <2> QED
    BY <1>1, <2>2
<1>7. PICK g0 : Folds(g0)
  <2>1. PICK g : Part(g, n)
    BY <1>6
  <2>2. Small(n) = SUBSET S
    <3> HIDE DEF S, n
    <3> QED
      BY <1>1, <1>2
  <2> HIDE DEF Next1, Small
  <2> QED
    BY <2>1, <2>2
<1> DEFINE g == CHOOSE g : Folds(g)
<1>8. SumFunction(f) = g[S]
  BY DEF SumFunction, SumFunctionOnSet, FoldFunctionOnSet, MapThenFoldSet, First
<1>9. Folds(g)
  <2> HIDE DEF Folds
  <2> QED
    BY <1>7
<1> HIDE DEF g
<1>10. \A s \in SUBSET S : g[s] = Next1(g, s)
  <2> HIDE DEF Next1
  <2> QED
    BY <1>9
<1> HIDE DEF Folds, T, Part
<1> DEFINE Good(s) == /\ g[s] \in Int
                      /\ (\A x \in S : f[x] > 0) => g[s] >= 0 /\ (s # {} => g[s] > 0)
           U == {k \in 0 .. n : \A s \in Small(k) : Good(s)}
<1>11. Good({})
  BY <1>10
<1>12. 0 \in U
  <2>1. ASSUME NEW s \in Small(0)
        PROVE  Good(s)
    <3>1. s = {}
      BY <1>3
    <3> QED
      BY <1>11, <3>1
  <2>2. 0 \in 0 .. n
    BY <1>1
  <2> HIDE DEF Good, Small
  <2> QED
    BY <2>1, <2>2
<1>13. ASSUME NEW k \in 1 .. n, k - 1 \in U
       PROVE  k \in U
  <2>1. ASSUME NEW s \in Small(k), s # {}
        PROVE  Good(s)
    <3>1. First(s) \in S /\ s \ {First(s)} \in Small(k - 1)
      BY <1>1, <1>3, <2>1
    <3>2. Good(s \ {First(s)})
      <4> HIDE DEF Good, Small
      <4> QED
        BY <1>13, <3>1
    <3>3. g[s] = f[First(s)] + g[s \ {First(s)}]
      BY <1>10, <2>1
    <3>4. f[First(s)] \in Int
      BY <3>1
    <3> HIDE DEF Small
    <3> QED
      BY <3>1, <3>2, <3>3, <3>4
  <2> HIDE DEF Good, Small
  <2>2. k \in 0 .. n
    BY <1>1
  <2> QED
    BY <1>11, <2>1, <2>2
<1>14. n \in U
  <2> HIDE DEF U, n
  <2>1. \A k \in 1 .. n : k - 1 \in U => k \in U
    BY <1>13
  <2>2. \A k \in 0 .. n : k \in U
    BY <1>1, <1>12, <2>1, Upward
  <2> QED
    BY <1>1, <2>2
<1>15. Good(S)
  <2>1. S \in Small(n)
    BY <1>1
  <2> HIDE DEF Good, Small
  <2> QED
    BY <1>14, <2>1
<1> QED
  BY <1>8, <1>15

LEMMA RowsFinite ==
    ASSUME NEW rows \in Seq(Row)
    PROVE  IsFiniteSet(DOMAIN rows) /\ IsFiniteSet(ToSet(rows)) /\ ToSet(rows) \subseteq Row
<1>1. DOMAIN rows = 1 .. Len(rows) /\ Len(rows) \in Nat
  OBVIOUS
<1>2. IsFiniteSet(DOMAIN rows)
  BY <1>1, FS_Interval
<1>3. ToSet(rows) = {rows[i] : i \in DOMAIN rows}
  BY DEF ToSet
<1>4. IsFiniteSet({rows[i] : i \in DOMAIN rows})
  BY <1>2, ImageFinite
<1> QED
  BY <1>2, <1>3, <1>4

\* The day a scene counts for is one of its days.
LEMMA OnDateIs ==
    ASSUME NEW rows \in Seq(Row), NEW s \in Scheduled(rows)
    PROVE  OnDate(rows, s) \in Int /\ s \in Scenes
<1> DEFINE days == DatesOf(rows, s)
<1>1. PICK i \in DOMAIN rows : s \in rows[i].scenes
  BY DEF Scheduled
<1>2. rows[i].scenes \subseteq Scenes
  BY RowFields
<1>3. days \subseteq Int /\ days # {}
  BY <1>1, RowFields, DatesAssumption DEF DatesOf
<1>4. IsFiniteSet(days)
  <2> DEFINE at == {j \in DOMAIN rows : s \in rows[j].scenes}
             f  == [j \in at |-> rows[j].date]
  <2>1. IsFiniteSet(at)
    BY RowsFinite, FS_Subset
  <2>2. days = {f[j] : j \in at}
    BY DEF DatesOf
  <2> HIDE DEF f, at, days
  <2> QED
    BY <2>1, <2>2, ImageFinite
<1> HIDE DEF days
<1> DEFINE R == {p \in days \X days : p[1] > p[2]}
<1>4a. \A x, y : <<x, y>> \in R <=> x \in days /\ y \in days /\ x > y
  OBVIOUS
<1> HIDE DEF R
<1>5. StrictOn(R, days)
  BY <1>3, <1>4a DEF StrictOn
<1>6. PICK m \in days : \A d \in days : <<d, m>> \notin R
  BY <1>3, <1>4, <1>5, FiniteMinimal
<1>7. ASSUME NEW d \in days
      PROVE  d <= m
  <2>1. d \in Int /\ m \in Int
    BY <1>3
  <2>2. <<d, m>> \notin R
    BY <1>6
  <2>3. ~(d > m)
    BY <1>4a, <2>2, Zenon
  <2> QED
    BY <2>1, <2>3
<1>8. OnDate(rows, s) \in days
  BY <1>7 DEF OnDate, days
<1> QED
  BY <1>1, <1>2, <1>3, <1>8

\* What a score counts of a state is finite and has a price.
LEMMA PlacesCounted ==
    ASSUME NEW st, st.rows \in Seq(Row)
    PROVE  /\ IsFiniteSet(ShootingDates(st))
           /\ IsFiniteSet(LocationDays(st))
           /\ \A l \in LocationDays(st) : PlaceRate[l[2]] \in Int
<1> DEFINE busy == {r \in ToSet(st.rows) : r.scenes # {}}
           date == [r \in busy |-> r.date]
           used == [r \in busy |-> <<r.date, r.place>>]
<1>1. IsFiniteSet(busy) /\ busy \subseteq Row
  BY RowsFinite, FS_Subset
<1>2. ShootingDates(st) = {date[r] : r \in busy} /\ LocationDays(st) = {used[r] : r \in busy}
  BY DEF ShootingDates, LocationDays
<1>3. \A r \in busy : used[r] = <<r.date, r.place>> /\ r.place \in Places
  BY <1>1, RowFields
<1> HIDE DEF busy, date, used
<1>4. IsFiniteSet({date[r] : r \in busy}) /\ IsFiniteSet({used[r] : r \in busy})
  BY <1>1, ImageFinite
<1>5. ASSUME NEW l \in LocationDays(st)
      PROVE  PlaceRate[l[2]] \in Int
  <2>1. PICK r \in busy : l = used[r]
    BY <1>2
  <2>2. l = <<r.date, r.place>> /\ r.place \in Places
    BY <1>3, <2>1
  <2>3. l[2] \in Places
    BY <2>2
  <2> QED
    BY <2>3, RatesAssumption
<1> QED
  BY <1>2, <1>4, <1>5

LEMMA CastCounted ==
    ASSUME NEW st, st.rows \in Seq(Row)
    PROVE  IsFiniteSet(CastDays(st)) /\ \A h \in CastDays(st) : PersonRate[h[1]] \in Int
<1> DEFINE rows   == ToSet(st.rows)
           of(r)  == UNION {Cast[s] \X {r.date} : s \in r.scenes}
           days   == [r \in rows |-> of(r)]
<1>1. IsFiniteSet(rows) /\ \A r \in rows : r.scenes \subseteq Scenes
  BY RowsFinite, RowFields
<1>2. ASSUME NEW r \in rows
      PROVE  IsFiniteSet(of(r)) /\ \A h \in of(r) : PersonRate[h[1]] \in Int
  <2> DEFINE called == [s \in r.scenes |-> Cast[s] \X {r.date}]
  <2>1. IsFiniteSet(r.scenes) /\ \A s \in r.scenes : s \in Scenes
    BY <1>1, IdsAssumption, FS_Subset
  <2>2. ASSUME NEW s \in r.scenes
        PROVE  IsFiniteSet(Cast[s] \X {r.date}) /\ \A h \in Cast[s] \X {r.date} : PersonRate[h[1]] \in Int
    <3>1. IsFiniteSet(Cast[s]) /\ \A a \in Cast[s] : PersonRate[a] \in Int
      BY <2>1, RatesAssumption
    <3>2. IsFiniteSet({r.date})
      BY FS_Singleton
    <3> QED
      BY <3>1, <3>2, FS_Product
  <2>3. of(r) = UNION {called[s] : s \in r.scenes}
    OBVIOUS
  <2>4. \A s \in r.scenes : called[s] = Cast[s] \X {r.date}
    OBVIOUS
  <2> HIDE DEF called
  <2>5. IsFiniteSet({called[s] : s \in r.scenes})
    BY <2>1, ImageFinite
  <2>6. \A T \in {called[s] : s \in r.scenes} : IsFiniteSet(T)
    BY <2>2, <2>4
  <2>7. IsFiniteSet(UNION {called[s] : s \in r.scenes})
    BY <2>5, <2>6, FS_UNION
  <2>8. ASSUME NEW h \in of(r)
        PROVE  PersonRate[h[1]] \in Int
    <3>1. PICK s \in r.scenes : h \in Cast[s] \X {r.date}
      OBVIOUS
    <3> QED
      BY <2>2, <3>1
  <2> HIDE DEF of
  <2> QED
    BY <2>3, <2>7, <2>8
<1>3. CastDays(st) = UNION {days[r] : r \in rows}
  BY DEF CastDays
<1>4. \A r \in rows : days[r] = of(r)
  OBVIOUS
<1> HIDE DEF of, days, rows
<1>5. IsFiniteSet({days[r] : r \in rows})
  BY <1>1, ImageFinite
<1>6. \A T \in {days[r] : r \in rows} : IsFiniteSet(T)
  BY <1>2, <1>4
<1>7. IsFiniteSet(CastDays(st))
  BY <1>3, <1>5, <1>6, FS_UNION
<1>8. ASSUME NEW h \in CastDays(st)
      PROVE  PersonRate[h[1]] \in Int
  <2>1. PICK r \in rows : h \in days[r]
    BY <1>3
  <2> QED
    BY <1>2, <1>4, <2>1
<1> QED
  BY <1>7, <1>8

LEMMA GearCounted ==
    ASSUME NEW st, st.rows \in Seq(Row)
    PROVE  IsFiniteSet(EquipmentDays(st)) /\ \A g \in EquipmentDays(st) : GearRate[g[1]] \in Int
<1> DEFINE rows == ToSet(st.rows)
           days == [r \in rows |-> GearOf(r) \X {r.date}]
<1>1. IsFiniteSet(rows) /\ \A r \in rows : r.scenes \subseteq Scenes
  BY RowsFinite, RowFields
<1>2. ASSUME NEW r \in rows
      PROVE  IsFiniteSet(GearOf(r)) /\ \A g \in GearOf(r) : GearRate[g] \in Int
  <2> DEFINE used == [s \in r.scenes |-> Gear[s]]
  <2>1. IsFiniteSet(r.scenes) /\ \A s \in r.scenes : s \in Scenes
    BY <1>1, IdsAssumption, FS_Subset
  <2>2. \A s \in r.scenes : IsFiniteSet(Gear[s]) /\ \A g \in Gear[s] : GearRate[g] \in Int
    BY <2>1, RatesAssumption
  <2>3. GearOf(r) = UNION {used[s] : s \in r.scenes}
    BY DEF GearOf
  <2>4. \A s \in r.scenes : used[s] = Gear[s]
    OBVIOUS
  <2> HIDE DEF used
  <2>5. IsFiniteSet({used[s] : s \in r.scenes})
    BY <2>1, ImageFinite
  <2>6. \A T \in {used[s] : s \in r.scenes} : IsFiniteSet(T)
    BY <2>2, <2>4
  <2>7. IsFiniteSet(UNION {used[s] : s \in r.scenes})
    BY <2>5, <2>6, FS_UNION
  <2> QED
    BY <2>2, <2>3, <2>4, <2>7
<1>3. EquipmentDays(st) = UNION {days[r] : r \in rows}
  BY DEF EquipmentDays
<1>4. \A r \in rows : days[r] = GearOf(r) \X {r.date}
  OBVIOUS
<1> HIDE DEF days, rows
<1>5. IsFiniteSet({days[r] : r \in rows})
  BY <1>1, ImageFinite
<1>6. ASSUME NEW T \in {days[r] : r \in rows}
      PROVE  IsFiniteSet(T)
  <2>1. PICK r \in rows : T = GearOf(r) \X {r.date}
    BY <1>4
  <2>2. IsFiniteSet({r.date})
    BY FS_Singleton
  <2> QED
    BY <1>2, <2>1, <2>2, FS_Product
<1>7. IsFiniteSet(EquipmentDays(st))
  BY <1>3, <1>5, <1>6, FS_UNION
<1>8. ASSUME NEW g \in EquipmentDays(st)
      PROVE  GearRate[g[1]] \in Int
  <2>1. PICK r \in rows : g \in GearOf(r) \X {r.date}
    BY <1>3, <1>4
  <2> QED
    BY <1>2, <2>1
<1> QED
  BY <1>7, <1>8

LEMMA LengthsCounted ==
    ASSUME NEW st, st.rows \in Seq(Row)
    PROVE  IsFiniteSet(DOMAIN Lengths(st)) /\ \A d \in DOMAIN Lengths(st) : Lengths(st)[d] \in Int
<1> DEFINE rows == st.rows
           date == [i \in DOMAIN rows |-> rows[i].date]
<1>1. DOMAIN Lengths(st) = DOMAIN ByDate(rows)
      /\ \A d \in DOMAIN ByDate(rows) : Lengths(st)[d] = ByDate(rows)[d].wrap - ByDate(rows)[d].call
  BY DEF Lengths
<1>2. DOMAIN ByDate(rows) = {date[i] : i \in DOMAIN rows}
  BY DEF ByDate
<1>3. IsFiniteSet({date[i] : i \in DOMAIN rows})
  <2> HIDE DEF date
  <2> QED
    BY RowsFinite, ImageFinite
<1>4. ASSUME NEW d \in DOMAIN ByDate(rows)
      PROVE  ByDate(rows)[d] \in Row
  <2>1. Sequential(rows)
    BY DEF Sequential
  <2> HIDE DEF rows
  <2>2. PICK i \in DOMAIN rows : ByDate(rows)[d] = rows[i]
    BY <2>1, LastRowExists
  <2> QED
    BY <2>2 DEF rows
<1>5. \A d \in DOMAIN ByDate(rows) : ByDate(rows)[d].wrap - ByDate(rows)[d].call \in Int
  BY <1>4, RowFields
<1>6. IsFiniteSet(DOMAIN Lengths(st))
  BY <1>1, <1>2, <1>3
<1> QED
  BY <1>1, <1>5, <1>6

LEMMA MovedFinite ==
    ASSUME NEW u, u.rows \in Seq(Row), NEW v, v.rows \in Seq(Row)
    PROVE  /\ IsFiniteSet(MovedScenes(u, v)) /\ MovedScenes(u, v) \subseteq Scenes
           /\ \A s \in MovedScenes(u, v) : OnDate(u.rows, s) \in Int /\ OnDate(v.rows, s) \in Int
           /\ IsFiniteSet(RelocatedPlates(u, v)) /\ RelocatedPlates(u, v) \subseteq Scenes
           /\ IsFiniteSet(HeldCastDays(u, v)) /\ HeldCastDays(u, v) \subseteq CastDays(u)
<1>1. \A s \in MovedScenes(u, v) : /\ s \in Scenes
                                   /\ OnDate(u.rows, s) \in Int /\ OnDate(v.rows, s) \in Int
  BY OnDateIs DEF MovedScenes
<1>2. IsFiniteSet(MovedScenes(u, v))
  BY <1>1, IdsAssumption, FS_Subset
<1>3. RelocatedPlates(u, v) \subseteq Scenes
  BY RatesAssumption DEF RelocatedPlates
<1>4. IsFiniteSet(RelocatedPlates(u, v))
  BY <1>3, IdsAssumption, FS_Subset
<1>5. HeldCastDays(u, v) \subseteq CastDays(u)
  BY DEF HeldCastDays
<1>6. IsFiniteSet(HeldCastDays(u, v))
  BY <1>5, CastCounted, FS_Subset
<1> QED
  BY <1>1, <1>2, <1>3, <1>4, <1>5, <1>6

LEMMA RatioIs ==
    ASSUME NEW num \in Int, NEW den \in Int, den > 0
    PROVE  Ratio(num, den) \in Int
  BY DEF Ratio

LEMMA DelayIs ==
    ASSUME NEW u, u.rows \in Seq(Row), NEW v, v.rows \in Seq(Row)
    PROVE  Delay(u, v) \in Int
<1> DEFINE Slip(s)  == OnDate(v.rows, s) - OnDate(u.rows, s)
           late     == {s \in MovedScenes(u, v) : Slip(s) > 0}
           plates   == RelocatedPlates(u, v)
           Later(s) == Slip(s) * Minutes[s] * (IF s \in Plates THEN Tariff.plateSlip ELSE 10)
           Stale(s) == Minutes[s] * Tariff.plateRelocationSlip
           lateMin  == [s \in late |-> Minutes[s]]
           plateMin == [s \in plates |-> Minutes[s]]
           lateSum  == [s \in late |-> Later(s)]
           plateSum == [s \in plates |-> Stale(s)]
           weight   == SumFunction(lateMin) + SumFunction(plateMin)
           slipped  == SumFunction(lateSum) + SumFunction(plateSum)
<1>1. Delay(u, v) = IF late \cup plates # {} THEN Ratio(1000 * slipped, weight)
                    ELSE IF CallTimes(u) # CallTimes(v) \/ Lengths(u) # Lengths(v)
                         THEN 1000 * Tariff.shiftEquivalent ELSE 0
  BY DEF Delay
<1>2. IsFiniteSet(late) /\ IsFiniteSet(plates) /\ late \subseteq Scenes /\ plates \subseteq Scenes
  BY MovedFinite, FS_Subset
<1>3. \A s \in late : Slip(s) \in Int
  BY MovedFinite
<1>4. \A s \in Scenes : Minutes[s] \in Nat \ {0}
  BY MinutesAssumption
<1>5. Tariff.plateSlip \in Int /\ Tariff.plateRelocationSlip \in Int /\ Tariff.shiftEquivalent \in Int
  BY RatesAssumption
<1>6. ASSUME NEW s \in late
      PROVE  Later(s) \in Int
  <2>1. Slip(s) \in Int /\ Minutes[s] \in Int /\ (IF s \in Plates THEN Tariff.plateSlip ELSE 10) \in Int
    BY <1>2, <1>3, <1>4, <1>5
  <2>2. Slip(s) * Minutes[s] \in Int
    <3> HIDE DEF Slip, late
    <3> QED
      BY <2>1
  <2> HIDE DEF Slip, late
  <2> QED
    BY <2>1, <2>2
<1>7. \A s \in plates : Stale(s) \in Int
  BY <1>2, <1>4, <1>5
<1> HIDE DEF late, plates, Later, Stale, Slip
<1>8. /\ DOMAIN lateMin = late /\ DOMAIN plateMin = plates
      /\ DOMAIN lateSum = late /\ DOMAIN plateSum = plates
      /\ \A s \in late : lateMin[s] = Minutes[s] /\ lateSum[s] = Later(s)
      /\ \A s \in plates : plateMin[s] = Minutes[s] /\ plateSum[s] = Stale(s)
  OBVIOUS
<1> HIDE DEF lateMin, plateMin, lateSum, plateSum
<1>9. SumFunction(lateSum) \in Int
  BY <1>2, <1>6, <1>8, SumIs
<1>10. SumFunction(plateSum) \in Int
  BY <1>2, <1>7, <1>8, SumIs
<1>11. /\ SumFunction(lateMin) \in Int /\ SumFunction(lateMin) >= 0
       /\ late # {} => SumFunction(lateMin) > 0
  <2>1. \A s \in DOMAIN lateMin : lateMin[s] \in Int /\ lateMin[s] > 0
    BY <1>2, <1>4, <1>8
  <2> QED
    BY <1>2, <1>8, <2>1, SumIs
<1>12. /\ SumFunction(plateMin) \in Int /\ SumFunction(plateMin) >= 0
       /\ plates # {} => SumFunction(plateMin) > 0
  <2>1. \A s \in DOMAIN plateMin : plateMin[s] \in Int /\ plateMin[s] > 0
    BY <1>2, <1>4, <1>8
  <2> QED
    BY <1>2, <1>8, <2>1, SumIs
<1>13. late \cup plates # {} => Ratio(1000 * slipped, weight) \in Int
  <2>1. 1000 * slipped \in Int /\ weight \in Int /\ (late \cup plates # {} => weight > 0)
    BY <1>9, <1>10, <1>11, <1>12
  <2> HIDE DEF slipped, weight
  <2> QED
    BY <2>1, RatioIs
<1> QED
  BY <1>1, <1>5, <1>13

LEMMA CostIs ==
    ASSUME NEW u, u.rows \in Seq(Row), NEW v, v.rows \in Seq(Row)
    PROVE  Cost(u, v) \in Int
<1> DEFINE grown  == {d \in DOMAIN Lengths(u) \cap DOMAIN Lengths(v) : Lengths(v)[d] > Lengths(u)[d]}
           booked == LocationDays(v) \ LocationDays(u)
           held   == HeldCastDays(u, v)
           rented == EquipmentDays(v) \ EquipmentDays(u)
           opened == (ShootingDates(v) \ ShootingDates(u)) \cap ReserveDays
           plates == RelocatedPlates(u, v)
           f1 == [b \in booked |-> 100 * PlaceRate[b[2]]]
           f2 == [h \in held |-> Tariff.holding * PersonRate[h[1]]]
           f3 == [e \in rented |-> 100 * GearRate[e[1]]]
           f4 == [d \in grown |-> Tariff.overtime * (Lengths(v)[d] - Lengths(u)[d])]
<1>1. Cost(u, v) = SumFunction(f1) + SumFunction(f2) + SumFunction(f3) + SumFunction(f4)
                   + Tariff.reserveFee * Cardinality(opened)
                   + Tariff.platePenalty * Cardinality(plates)
  BY DEF Cost
<1>2. /\ Tariff.holding \in Int /\ Tariff.overtime \in Int
      /\ Tariff.reserveFee \in Int /\ Tariff.platePenalty \in Int
  BY RatesAssumption
<1>3. IsFiniteSet(booked) /\ \A b \in booked : PlaceRate[b[2]] \in Int
  BY PlacesCounted, FS_Subset
<1>4. IsFiniteSet(held) /\ \A h \in held : PersonRate[h[1]] \in Int
  BY MovedFinite, CastCounted
<1>5. IsFiniteSet(rented) /\ \A e \in rented : GearRate[e[1]] \in Int
  BY GearCounted, FS_Subset
<1>6. IsFiniteSet(grown) /\ \A d \in grown : Lengths(v)[d] - Lengths(u)[d] \in Int
  BY LengthsCounted, FS_Subset
<1>7. Cardinality(opened) \in Int /\ Cardinality(plates) \in Int
  <2>1. IsFiniteSet(opened) /\ IsFiniteSet(plates)
    BY PlacesCounted, MovedFinite, FS_Subset
  <2> HIDE DEF opened, plates
  <2> QED
    BY <2>1, FS_CardinalityType
<1> HIDE DEF booked, held, rented, grown, opened, plates
<1>8. SumFunction(f1) \in Int
  <2>1. DOMAIN f1 = booked /\ \A b \in booked : f1[b] \in Int
    BY <1>3
  <2> HIDE DEF f1
  <2> QED
    BY <1>3, <2>1, SumIs
<1>9. SumFunction(f2) \in Int
  <2>1. DOMAIN f2 = held /\ \A h \in held : f2[h] \in Int
    BY <1>2, <1>4
  <2> HIDE DEF f2
  <2> QED
    BY <1>4, <2>1, SumIs
<1>10. SumFunction(f3) \in Int
  <2>1. DOMAIN f3 = rented /\ \A e \in rented : f3[e] \in Int
    BY <1>5
  <2> HIDE DEF f3
  <2> QED
    BY <1>5, <2>1, SumIs
<1>11. SumFunction(f4) \in Int
  <2>1. DOMAIN f4 = grown /\ \A d \in grown : f4[d] \in Int
    BY <1>2, <1>6
  <2> HIDE DEF f4
  <2> QED
    BY <1>6, <2>1, SumIs
<1> HIDE DEF f1, f2, f3, f4
<1>12. Tariff.reserveFee * Cardinality(opened) \in Int /\ Tariff.platePenalty * Cardinality(plates) \in Int
  BY <1>2, <1>7
<1> QED
  BY <1>1, <1>8, <1>9, <1>10, <1>11, <1>12

\* A factor of a risk: so many of at most so many.
Factor(weight, S, ceiling) == (weight * 12 * Min({Cardinality(S), ceiling})) \div ceiling

LEMMA FactorIs ==
    ASSUME NEW weight \in Int, NEW S, IsFiniteSet(S), NEW ceiling \in Nat \ {0}
    PROVE  Factor(weight, S, ceiling) \in Int
<1>1. Cardinality(S) \in Nat
  BY FS_CardinalityType
<1> DEFINE pair == {Cardinality(S), ceiling}
<1>2. IsFiniteSet(pair)
  <2>1. pair = {Cardinality(S)} \cup {ceiling}
    OBVIOUS
  <2>2. IsFiniteSet({Cardinality(S)})
    BY FS_Singleton
  <2> HIDE DEF pair
  <2> QED
    BY <2>1, <2>2, FS_AddElement
<1>3. pair \subseteq Int /\ pair # {}
  BY <1>1
<1> HIDE DEF pair
<1>4. Min(pair) \in pair
  BY <1>2, <1>3, LeastIsMin
<1>5. Min(pair) \in Int
  BY <1>3, <1>4
<1> DEFINE m == Min(pair)
<1> HIDE DEF m
<1>6. m \in Int
  BY <1>5 DEF m
<1>7. weight * 12 * m \in Int
  BY <1>6
<1> DEFINE k == weight * 12 * m
<1> HIDE DEF k
<1>8. k \div ceiling \in Int
  BY <1>7 DEF k
<1> QED
  BY <1>8 DEF k, m, pair, Factor

LEMMA RiskIs ==
    ASSUME NEW u, u.rows \in Seq(Row), NEW v, v.rows \in Seq(Row)
    PROVE  Risk(u, v) \in Int
<1> DEFINE moved  == MovedScenes(u, v)
           nights == {s \in moved : Light[s] \in {"NIGHT", "DUSK"}}
           out    == moved \cap Outdoors
           opened == ShootingDates(v) \ ShootingDates(u)
           held   == HeldCastDays(u, v)
           plates == RelocatedPlates(u, v)
<1>1. /\ IsFiniteSet(nights) /\ IsFiniteSet(out) /\ IsFiniteSet(opened)
      /\ IsFiniteSet(held) /\ IsFiniteSet(plates)
  BY PlacesCounted, MovedFinite, FS_Subset
<1>2. Risk(u, v) = Factor(10, nights, 3) + Factor(20, out, 3) + Factor(15, opened, 2)
                   + Factor(10, held, 4) + Factor(45, plates, 2)
  BY DEF Risk, Factor
<1> HIDE DEF nights, out, opened, held, plates
<1>3. Factor(10, nights, 3) \in Int
  BY <1>1, FactorIs
<1>4. Factor(20, out, 3) \in Int
  BY <1>1, FactorIs
<1>5. Factor(15, opened, 2) \in Int
  BY <1>1, FactorIs
<1>6. Factor(10, held, 4) \in Int
  BY <1>1, FactorIs
<1>7. Factor(45, plates, 2) \in Int
  BY <1>1, FactorIs
<1> QED
  BY <1>2, <1>3, <1>4, <1>5, <1>6, <1>7

LEMMA ScoreIs ==
    ASSUME NEW u, u.rows \in Seq(Row), NEW v, v.rows \in Seq(Row)
    PROVE  Score(u, v) \in Int \X Int \X Int
  BY DelayIs, CostIs, RiskIs DEF Score

LEMMA DominatesStrict ==
    ASSUME NEW x \in Int \X Int \X Int, NEW y \in Int \X Int \X Int, NEW z \in Int \X Int \X Int
    PROVE  /\ ~Dominates(x, x)
           /\ Dominates(x, y) /\ Dominates(y, z) => Dominates(x, z)
<1>1. ~Dominates(x, x)
  BY DEF Dominates
<1>2. ASSUME Dominates(x, y), Dominates(y, z)
      PROVE  Dominates(x, z)
  <2>1. /\ x[1] \in Int /\ x[2] \in Int /\ x[3] \in Int
        /\ y[1] \in Int /\ y[2] \in Int /\ y[3] \in Int
        /\ z[1] \in Int /\ z[2] \in Int /\ z[3] \in Int
    OBVIOUS
  <2>2. /\ x[1] <= y[1] /\ x[2] <= y[2] /\ x[3] <= y[3]
        /\ y[1] <= z[1] /\ y[2] <= z[2] /\ y[3] <= z[3]
    <3>1. 1 \in 1 .. 3 /\ 2 \in 1 .. 3 /\ 3 \in 1 .. 3
      OBVIOUS
    <3> QED
      BY <1>2, <3>1, Zenon DEF Dominates
  <2>3. \A k \in 1 .. 3 : x[k] <= z[k]
    <3>1. x[1] <= z[1] /\ x[2] <= z[2] /\ x[3] <= z[3]
      BY <2>1, <2>2
    <3>2. \A k \in 1 .. 3 : k = 1 \/ k = 2 \/ k = 3
      OBVIOUS
    <3> QED
      BY <3>1, <3>2
  <2>4. ASSUME x = z
        PROVE  FALSE
    <3>1. x[1] = y[1] /\ x[2] = y[2] /\ x[3] = y[3]
      BY <2>1, <2>2, <2>4
    <3>2. x = <<x[1], x[2], x[3]>> /\ y = <<y[1], y[2], y[3]>>
      OBVIOUS
    <3>3. x = y
      BY <3>1, <3>2, Zenon
    <3> QED
      BY <1>2, <3>3 DEF Dominates
  <2> QED
    BY <2>3, <2>4 DEF Dominates
<1> QED
  BY <1>1, <1>2

LEMMA RecordedScore ==
    ASSUME PlanInv, NEW i \in DOMAIN evaluated
    PROVE  evaluated[i].score \in Int \X Int \X Int
<1> DEFINE q == evaluated[i].plan.moves
           result == Applied(Projected, q)
<1>1. base \in Bases /\ evaluated[i].score = Score(Projected, result)
  BY DEF PlanInv, Recorded
<1>2. Orderly(q) /\ Applies(Projected, q)
  BY RecordedApplies
<1>3. Projected.rows \in Seq(Row)
  BY <1>1, ProjectedState, BasesAssumption DEF Projected
<1>4. result.rows \in Seq(Row)
  <2> HIDE DEF q
  <2>1. Describes(Applied(ProjectDisruption(base, event), q).rows, MovesMade(base, q))
    BY <1>1, <1>2, AppliedBoard DEF Orderly, Projected
  <2> QED
    BY <2>1 DEF Describes, Projected
<1> HIDE DEF result
<1> QED
  BY <1>1, <1>3, <1>4, ScoreIs

\* What is shown is what no valid plan beats.
FrontierInv ==
    /\ PlanInv
    /\ stage = "offered" =>
          frontier = {i \in DOMAIN evaluated :
                        /\ Valid(evaluated[i])
                        /\ ~\E j \in DOMAIN evaluated :
                               /\ Valid(evaluated[j])
                               /\ Dominates(evaluated[j].score, evaluated[i].score)}

LEMMA FrontierInvInit == Init => FrontierInv
  BY PlanInvInit DEF Init, FrontierInv

LEMMA FrontierInvStep == FrontierInv /\ [Next]_vars => FrontierInv'
<1> SUFFICES ASSUME FrontierInv, [Next]_vars
             PROVE  FrontierInv'
  OBVIOUS
<1>1. PlanInv'
  BY PlanInvStep DEF FrontierInv
<1>2. CASE MarkPareto
  <2>1. evaluated' = evaluated
        /\ frontier' = {i \in {k \in DOMAIN evaluated : Valid(evaluated[k])} :
               ~\E j \in {k \in DOMAIN evaluated : Valid(evaluated[k])} :
                    Dominates(evaluated[j].score, evaluated[i].score)}
    BY <1>2 DEF MarkPareto
  <2> QED
    BY <1>1, <2>1 DEF FrontierInv, Valid
<1>3. CASE UNCHANGED vars
  BY <1>1, <1>3 DEF FrontierInv, vars, Valid
<1>4. CASE Generate \/ EvaluatePlan \/ Repair \/ (\E i \in DOMAIN evaluated : Execute(i))
           \/ MakeMove \/ Commit \/ Verify
  <2>1. stage' # "offered"
    BY <1>4 DEF Generate, EvaluatePlan, Repair, Execute, MakeMove, Commit, Verify
  <2> QED
    BY <1>1, <2>1 DEF FrontierInv
<1> QED
  BY <1>2, <1>3, <1>4 DEF Next

LEMMA FrontierInvCovers == FrontierInv => FrontierCovers
<1> SUFFICES ASSUME FrontierInv, stage = "offered"
             PROVE  /\ \A i \in frontier : Valid(evaluated[i])
                    /\ \A i, j \in frontier : ~Dominates(evaluated[i].score, evaluated[j].score)
                    /\ \A i \in DOMAIN evaluated :
                          Valid(evaluated[i]) /\ i \notin frontier =>
                              \E j \in frontier : Dominates(evaluated[j].score, evaluated[i].score)
  BY DEF FrontierCovers
<1> DEFINE S == {i \in DOMAIN evaluated : Valid(evaluated[i])}
           beats(j, i) == Dominates(evaluated[j].score, evaluated[i].score)
           R == {p \in S \X S : beats(p[1], p[2])}
<1>1. frontier = {i \in S : ~\E j \in S : beats(j, i)}
  BY DEF FrontierInv
<1>2. \A x, y : <<x, y>> \in R <=> x \in S /\ y \in S /\ beats(x, y)
  <2> HIDE DEF S, beats
  <2> QED
    OBVIOUS
<1>3. IsFiniteSet(S)
  <2>1. PICK T : evaluated \in Seq(T)
    BY DEF FrontierInv, PlanInv, Recorded, Sequential
  <2>2. DOMAIN evaluated = 1 .. Len(evaluated) /\ Len(evaluated) \in Nat
    BY <2>1
  <2>3. IsFiniteSet(DOMAIN evaluated)
    BY <2>2, FS_Interval
  <2> QED
    BY <2>3, FS_Subset
<1>4. \A i \in S : evaluated[i].score \in Int \X Int \X Int
  BY RecordedScore DEF FrontierInv
<1>5. /\ \A x \in S : ~beats(x, x)
      /\ \A x, y, z \in S : beats(x, y) /\ beats(y, z) => beats(x, z)
  BY <1>4, DominatesStrict
<1> HIDE DEF S, R, beats
<1>6. StrictOn(R, S)
  BY <1>2, <1>5 DEF StrictOn
<1>7. ASSUME NEW i \in S, i \notin frontier
      PROVE  \E j \in frontier : beats(j, i)
  <2>1. \A x : Below(x, R, S) = {j \in S : <<j, x>> \in R}
    BY DEF Below
  <2>2. Below(i, R, S) # {}
    BY <1>1, <1>2, <1>7, <2>1
  <2>3. PICK j \in Below(i, R, S) : Below(j, R, S) = {}
    BY <1>3, <1>6, <2>2, FiniteCovered
  <2>4. j \in S /\ beats(j, i) /\ ~\E k \in S : beats(k, j)
    BY <1>2, <2>1, <2>3
  <2> QED
    BY <1>1, <2>4
<1>8. \A i, j \in frontier : ~beats(i, j)
  BY <1>1
<1>9. \A i \in frontier : Valid(evaluated[i])
  BY <1>1 DEF S
<1> QED
  BY <1>7, <1>8, <1>9 DEF S, beats

\* The producer is shown choices only, and nothing is lost to a tie: no plan on
\* the frontier is invalid or beaten, and every valid plan left out is beaten
\* by one that is on it (mark_pareto).
THEOREM FrontierCoversHolds == Spec => []FrontierCovers
<1>1. Init => FrontierInv
  BY FrontierInvInit
<1>2. FrontierInv /\ [Next]_vars => FrontierInv'
  BY FrontierInvStep
<1>3. FrontierInv => FrontierCovers
  BY FrontierInvCovers
<1> QED
  BY <1>1, <1>2, <1>3, PTL DEF Spec
===============================================================================
