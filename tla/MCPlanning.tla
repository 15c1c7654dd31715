------------------------------ MODULE MCPlanning ------------------------------
(***************************************************************************)
(* Three scenes on three shooting days with two reserve days behind them,  *)
(* in quarter hours.                                                       *)
(***************************************************************************)
EXTENDS Planning

MCScenes == 1 .. 3
MCPlaces == 1 .. 3
MCDates == 1 .. 5
MCReserveDays == {4, 5}
MCHints == {<<>>, <<"SWAP", "DEFER">>}

MCCast == <<{1}, {1, 2}, {2}>>
MCGear == <<{}, {}, {1}>>
MCLight == <<"DAY", "DAY", "NIGHT">>
MCMinutes == <<16, 20, 12>>
MCSettings == <<{"INT"}, {"EXT"}, {"INT", "EXT"}>>
MCLights == <<{"DAY"}, {"NIGHT"}, {"DAY", "NIGHT"}>>
MCPermits == <<{}, {[from |-> Midnight(1), to |-> Midnight(5)]}, {}>>
MCRentals == <<{[from |-> Midnight(1), to |-> Midnight(6)]}>>
MCPlaceRate == <<900, 400, 1200>>
MCPersonRate == <<500, 300>>
MCGearRate == <<250>>
MCTariff == [plateSlip |-> 20, plateRelocationSlip |-> 25, shiftEquivalent |-> 1,
             holding |-> 50, overtime |-> 5250, reserveFee |-> 0, platePenalty |-> 500000]

Day(d, unit, call, wrap, place, scenes, kind) ==
    [date |-> d, unit |-> unit, call |-> Midnight(d) + call, wrap |-> Midnight(d) + wrap,
     place |-> place, scenes |-> scenes, kind |-> kind]

Early(d, S) == Day(d, "MAIN", 32, 80, 1, S, "SHOOT")
Late(d, S)  == Day(d, "MAIN", 48, 88, 1, S, "SHOOT")
Night(d, S) == Day(d, "MAIN", 56, 104, 2, S, "SHOOT")
Reserve(d)  == Day(d, "MAIN", 48, 88, 1, {}, "RESERVE")

\* Scene 3 on the one night, scenes 1 and 2 anywhere.
Placements == {<<S, T, U>> \in (SUBSET MCScenes) \X (SUBSET MCScenes) \X (SUBSET MCScenes) :
                  /\ S \cup T \cup U = MCScenes
                  /\ S \cap T = {} /\ S \cap U = {} /\ T \cap U = {}}

Boards ==
    {<<Early(1, p[1]), Early(2, p[2]), Night(3, p[3]), Reserve(4), Reserve(5)>> :
        p \in {q \in Placements : 3 \in q[3]}}
    \cup
    {<<Early(1, p[1]), Night(2, p[2]), Late(3, p[3]), Reserve(4), Reserve(5)>> :
        p \in {q \in Placements : 3 \in q[2]}}

Needs == {<<{}, {}, {}>>, <<{}, {1}, {2}>>, <<{}, {}, {1}>>}

\* A second unit shoots at place 2 while the main unit shoots at place 1.
TwoUnits ==
    <<Early(1, {1}), Day(1, "SECOND", 32, 80, 2, {3}, "SHOOT"),
      Early(2, {2}), Reserve(4), Reserve(5)>>

Between(d, e) == [from |-> Midnight(d), to |-> Midnight(e)]
Aways == {<<{}, {}>>, <<{}, {Between(4, 5)}>>}

MCBases ==
    {b \in [rows : Boards, place : {<<1, 1, 2>>}, needs : Needs, away : Aways] :
        Lawful(b)}

MCTwoUnitBases ==
    {[rows |-> TwoUnits, place |-> <<1, 1, 2>>, needs |-> <<{}, {}, {}>>, away |-> <<{}, {}>>]}

Event(kind, subject, from, to) ==
    [kind |-> kind, subject |-> subject, from |-> from, to |-> to]

MCEvents ==
    {Event("actor.unavailable", 1, Midnight(1), Midnight(2)),
     Event("actor.unavailable", 1, Midnight(1) + 24, Midnight(2) + 24),
     Event("actor.unavailable", 2, Midnight(1), Midnight(5)),
     Event("actor.unavailable", 2, Midnight(3), Midnight(3)),
     Event("location.blocked", 1, Midnight(1), Midnight(2)),
     Event("equipment.failed", 1, Midnight(3), Midnight(4)),
     Event("crew.unavailable", "MAIN", Midnight(2), Midnight(4)),
     Event("weather.changed", 0, Midnight(3), Midnight(4))}
===============================================================================
