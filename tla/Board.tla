-------------------------------- MODULE Board --------------------------------
(***************************************************************************)
(* The schedule of a production and the four moves a plan is made of:      *)
(* ProductionState.apply and its helpers.                                  *)
(*                                                                         *)
(* A state is what a plan can change and what the rules read of it:        *)
(*   rows   the shooting days, sorted by date                              *)
(*   place  where each scene is shot                                       *)
(*   needs  the prerequisites of each scene                                *)
(*   away   the windows in which each person cannot work                   *)
(* Times count units from a common origin; a date d begins at d * DayUnits.*)
(* A day's scenes are a set: no rule and no check reads the running order. *)
(***************************************************************************)
EXTENDS Integers, FiniteSets, SequencesExt

CONSTANTS
    DayUnits,  \* units of time in a day
    Scenes,    \* scene ids, numbers in the order the code sorts ids
    Places,    \* location ids, numbers in the order of state.locations
    Dates      \* calendar dates

ASSUME DatesAssumption == Dates \subseteq Int /\ DayUnits \in Int

ASSUME IdsAssumption ==
    /\ Scenes \subseteq Int /\ IsFiniteSet(Scenes)
    /\ Places \subseteq Int /\ IsFiniteSet(Places)

DayKinds == {"SHOOT", "TRAVEL", "COMPANY_MOVE", "HOLD", "RESERVE"}

Row == [date: Dates, unit: STRING, call: Int, wrap: Int, place: Places,
        scenes: SUBSET Scenes, kind: DayKinds]

Midnight(d) == d * DayUnits
DateAt(t) == t \div DayUnits

\* The dictionary apply works on: the last row of a date is the one it keeps.
ByDate(rows) ==
    [d \in {rows[i].date : i \in DOMAIN rows} |->
        rows[CHOOSE i \in DOMAIN rows :
                /\ rows[i].date = d
                /\ \A j \in DOMAIN rows : rows[j].date = d => j <= i]]

\* The elements of a finite set, each after those that come before it.
Sorted(S, Before(_, _)) ==
    [i \in 1 .. Cardinality(S) |->
        CHOOSE x \in S : Cardinality({y \in S : Before(y, x)}) = i - 1]

Ascending(S) == Sorted(S, LAMBDA x, y : x < y)

\* The days of a schedule as the sequence it stores.
InOrder(days) ==
    LET dates == Ascending(DOMAIN days)
    IN  [i \in DOMAIN dates |-> days[dates[i]]]

MoveSceneToDay(s, d) == [kind |-> "MoveSceneToDay", scene |-> s, target |-> d]
SwapDays(a, b)       == [kind |-> "SwapDays", a |-> a, b |-> b]
ShiftCallTime(d, t)  == [kind |-> "ShiftCallTime", date |-> d, call |-> t]
RelocateScene(s, l)  == [kind |-> "RelocateScene", scene |-> s, target |-> l]

\* A board is what apply has in its hands between two moves.
Opened(state) == [days |-> ByDate(state.rows), place |-> state.place]

\* Whether every day and scene a move names is there; apply raises otherwise.
Names(board, m) ==
    \/ /\ m.kind = "MoveSceneToDay"
       /\ m.target \in DOMAIN board.days
       /\ \E d \in DOMAIN board.days : m.scene \in board.days[d].scenes
    \/ m.kind = "SwapDays" /\ {m.a, m.b} \subseteq DOMAIN board.days
    \/ m.kind = "ShiftCallTime" /\ m.date \in DOMAIN board.days
    \/ m.kind = "RelocateScene" /\ m.scene \in DOMAIN board.place

\* The first day that has a scene on it.
DayOf(days, s) ==
    CHOOSE d \in DOMAIN days :
        /\ s \in days[d].scenes
        /\ \A e \in DOMAIN days : s \in days[e].scenes => d <= e

\* Mutant: the scene stays on the day it came from.
MovedSceneCopied(days, s, target) == [days EXCEPT ![target].scenes = @ \cup {s}]

MovedScene(days, s, target) ==
    LET left == [days EXCEPT ![DayOf(days, s)].scenes = @ \ {s}]
    IN  [left EXCEPT ![target].scenes = @ \cup {s}]

\* A day takes over another day's times, place and scenes on its own date.
Carried(from, onto) ==
    LET call == Midnight(onto.date) + (from.call - Midnight(from.date))
    IN  [onto EXCEPT !.call = call,
                     !.wrap = call + (from.wrap - from.call),
                     !.place = from.place,
                     !.scenes = from.scenes]

SwappedDays(days, a, b) ==
    [days EXCEPT ![a] = Carried(days[b], days[a]),
                 ![b] = Carried(days[a], days[b])]

\* The call moves, the wrap stays; nothing compares the two.
ShiftedCall(days, d, call) == [days EXCEPT ![d].call = call]

Moved(board, m) ==
    CASE m.kind = "MoveSceneToDay" ->
            [board EXCEPT !.days = MovedScene(@, m.scene, m.target)]
      [] m.kind = "SwapDays" ->
            [board EXCEPT !.days = SwappedDays(@, m.a, m.b)]
      [] m.kind = "ShiftCallTime" ->
            [board EXCEPT !.days = ShiftedCall(@, m.date, m.call)]
      [] m.kind = "RelocateScene" ->
            [board EXCEPT !.place[m.scene] = m.target]

\* A day whose scenes agree on a place is booked there.
Rebooked(board) ==
    LET PlacesOf(day) == {board.place[s] : s \in day.scenes}
    IN  [d \in DOMAIN board.days |->
            LET day == board.days[d]
            IN  IF \E l \in Places : PlacesOf(day) = {l}
                THEN [day EXCEPT !.place = CHOOSE l \in Places : PlacesOf(day) = {l}]
                ELSE day]

\* The state a board is frozen into once the last move is made.
Closed(state, board) ==
    [state EXCEPT !.rows = InOrder(Rebooked(board)), !.place = board.place]

\* What a move that apply refuses leaves behind; it stays refused.
Raised == [days |-> <<>>, place |-> <<>>]

Made(board, m) == IF Names(board, m) THEN Moved(board, m) ELSE Raised

MovesFrom(start, moves) == FoldLeft(Made, start, moves)

MovesMade(state, moves) == MovesFrom(Opened(state), moves)

Applies(state, moves) == MovesMade(state, moves) # Raised
Applied(state, moves) == Closed(state, MovesMade(state, moves))
==============================================================================
