------------------------------ MODULE Candidates ------------------------------
(***************************************************************************)
(* Where plans come from: generate_candidates and the four families.       *)
(* A family offers a sequence of move lists; the generator keeps the first *)
(* MaxRawCandidates that lead to different schedules.                      *)
(***************************************************************************)
EXTENDS Impact

CONSTANTS
    Minutes,          \* estimated length of each scene
    SetupUnits,       \* capacity.setup_minutes_per_scene
    ReserveDays,      \* production.reserve_days
    SwapReach,        \* SWAP_SEARCH_WINDOW_DAYS
    MaxRawCandidates

\* A scene takes some time (Scene refuses anything else).
ASSUME MinutesAssumption == Minutes \in [Scenes -> Nat \ {0}] /\ SetupUnits \in Int

AllFamilies == <<"DEFER", "SWAP", "RELOCATE", "COMPRESS">>

\* Hints choose families, each where it is named first; without a known one,
\* all are tried.
ResolveFamilies(hints) ==
    LET known    == ToSet(AllFamilies) \cap ToSet(hints)
        First(n) == Min({i \in DOMAIN hints : hints[i] = n})
    IN  IF known = {} THEN AllFamilies
        ELSE Sorted(known, LAMBDA m, n : First(m) < First(n))

\* Days a plan may put work on, after a date: RESERVE on the board and listed.
ReserveDaysAfter(state, d) ==
    {row.date : row \in {r \in ToSet(state.rows) :
        r.kind = "RESERVE" /\ r.date \in ReserveDays /\ r.date > d}}

(***************************************************************************)
(* DEFER: the direct scenes go to reserve days, downstream scenes follow   *)
(* only if they are overtaken.  A placement is the dates given so far, or  *)
(* not ok once a scene found no day.                                       *)
(***************************************************************************)
PutAfter(placement, s, targets, floor) ==
    LET open == {t \in targets : \A d \in floor : t > d}
    IN  IF open = {} THEN [placement EXCEPT !.ok = FALSE]
        ELSE [placement EXCEPT !.at = (s :> Min(open)) @@ @]

\* Direct scenes in the order of their ids, each after those it needs and
\* that were placed before it.
PlaceDeferred(state, direct, targets) ==
    FoldLeft(LAMBDA placement, s :
                PutAfter(placement, s, targets,
                    {placement.at[p] : p \in state.needs[s] \cap DOMAIN placement.at}),
             [ok |-> TRUE, at |-> <<>>], Ascending(direct))

\* Some order in which no scene comes before one it needs.
DependencyOrder(state, S) ==
    CHOOSE q \in SetToSeqs(S) :
        \A i, j \in DOMAIN q : i < j => q[j] \notin state.needs[q[i]]

FollowDownstream(state, placement, downstream, targets) ==
    LET scheduled == Scheduled(state.rows)
        DateIn(at, p) == IF p \in DOMAIN at THEN at[p] ELSE OnDate(state.rows, p)
        Follow(pl, s) ==
            LET floor == {DateIn(pl.at, p) : p \in state.needs[s] \cap scheduled}
            IN  IF floor = {} \/ OnDate(state.rows, s) > Max(floor) THEN pl
                ELSE PutAfter(pl, s, targets, floor)
    IN  FoldLeft(Follow, placement, DependencyOrder(state, downstream \cap scheduled))

FamilyDefer(state, impact) ==
    LET direct    == impact.direct \cap Scheduled(state.rows)
        targets   == ReserveDaysAfter(state, Min(impact.days))
        placement == FollowDownstream(state, PlaceDeferred(state, direct, targets),
                                      impact.downstream, targets)
        moving    == {s \in Scenes \cap DOMAIN placement.at :
                        placement.at[s] # OnDate(state.rows, s)}
        Before(s, t) == \/ placement.at[s] < placement.at[t]
                        \/ placement.at[s] = placement.at[t] /\ s < t
        order     == Sorted(moving, Before)
    IN  IF direct = {} \/ ~placement.ok THEN <<>>
        ELSE << [i \in DOMAIN order |-> MoveSceneToDay(order[i], placement.at[order[i]])] >>

(***************************************************************************)
(* SWAP: with the nearest later day that shoots, within SwapReach.         *)
(***************************************************************************)
FamilySwap(state, impact) ==
    LET blocked  == Min(impact.days)
        partners == {row.date : row \in {r \in ToSet(state.rows) :
                        /\ blocked < r.date /\ r.date <= blocked + SwapReach
                        /\ r.date \notin ReserveDays
                        /\ r.kind = "SHOOT"
                        /\ r.scenes # {}}}
    IN  IF impact.days = {} \/ partners = {} THEN <<>>
        ELSE << <<SwapDays(blocked, Min(partners))>> >>

(***************************************************************************)
(* RELOCATE: all direct scenes to one other place that can host each.      *)
(***************************************************************************)
SupportsAll(l, S) == \A s \in S : Setting(s) \in Settings[l] /\ Light[s] \in Lights[l]

FamilyRelocate(state, impact) ==
    LET scenes == Ascending(impact.direct)
        hosts  == Ascending({l \in Places : l \notin impact.places /\ SupportsAll(l, impact.direct)})
    IN  IF impact.direct = {} THEN <<>>
        ELSE [h \in DOMAIN hosts |-> [i \in DOMAIN scenes |-> RelocateScene(scenes[i], hosts[h])]]

(***************************************************************************)
(* COMPRESS: a day sheds its shortest scenes onto the next reserve day     *)
(* until the rest fits between the call and the wrap.                      *)
(***************************************************************************)
Load(S) == SumFunction([s \in S |-> Minutes[s] + SetupUnits])

\* A day that holds too much sheds a scene that none on it needs.
Shed(state, capacity, target, day, s) ==
    IF Load(day.scenes) <= capacity \/ \E t \in day.scenes : s \in state.needs[t]
    THEN day
    ELSE [scenes |-> day.scenes \ {s},
          moves  |-> Append(day.moves, MoveSceneToDay(s, target))]

CompressDay(state, d, call) ==
    LET row      == state.rows[CHOOSE i \in DOMAIN state.rows :
                        /\ state.rows[i].date = d
                        /\ \A j \in DOMAIN state.rows : state.rows[j].date = d => i <= j]
        capacity == Max({0, Min({row.wrap - call, LongestDay})})
        targets  == ReserveDaysAfter(state, d)
        Shorter(s, t) == \/ Minutes[s] < Minutes[t]
                         \/ Minutes[s] = Minutes[t] /\ s < t
    IN  IF Load(row.scenes) <= capacity \/ targets = {} THEN <<>>
        ELSE FoldLeft(LAMBDA day, s : Shed(state, capacity, Min(targets), day, s),
                      [scenes |-> row.scenes, moves |-> <<>>],
                      Sorted(row.scenes, Shorter)).moves

FamilyCompress(state) ==
    [i \in DOMAIN state.rows |-> CompressDay(state, state.rows[i].date, state.rows[i].call)]

Family(name, state, impact) ==
    CASE name = "DEFER"    -> FamilyDefer(state, impact)
      [] name = "SWAP"     -> FamilySwap(state, impact)
      [] name = "RELOCATE" -> FamilyRelocate(state, impact)
      [] name = "COMPRESS" -> FamilyCompress(state)

\* A plan is known by its label and whether it repairs the plan of that label.
Plan(label, repair, moves) == [label |-> label, repair |-> repair, moves |-> moves]

\* Drop what is empty, cannot be applied, changes nothing or repeats; label the
\* rest.
Keep(state, kept, moves) ==
    IF \/ Len(kept.plans) >= MaxRawCandidates
       \/ moves = <<>>
       \/ ~Applies(state, moves)
       \/ Applied(state, moves) \in kept.seen
    THEN kept
    ELSE [seen  |-> kept.seen \cup {Applied(state, moves)},
          plans |-> Append(kept.plans, Plan(Len(kept.plans) + 1, FALSE, moves))]

Finalise(state, proposals) ==
    FoldLeft(LAMBDA kept, moves : Keep(state, kept, moves),
             [seen |-> {state}, plans |-> <<>>], proposals).plans

GenerateCandidates(state, impact, hints) ==
    LET families == ResolveFamilies(hints)
    IN  Finalise(state,
                 FlattenSeq([i \in DOMAIN families |-> Family(families[i], state, impact)]))
===============================================================================
