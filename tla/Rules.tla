-------------------------------- MODULE Rules --------------------------------
(***************************************************************************)
(* The ten rules a schedule must keep: validate of the constraint engine,  *)
(* with every switch of config/policies.yaml on, as it is shipped.  Each   *)
(* rule yields the set of its violations; all of them are HARD, so a state *)
(* is lawful when there is none.                                           *)
(***************************************************************************)
EXTENDS Board

CONSTANTS
    Cast,         \* cast_ids of each scene
    Equipment,    \* equipment ids
    Gear,         \* equipment_ids of each scene
    Outdoors,     \* the scenes that are EXT, the others are INT
    Light,        \* time_of_day of each scene
    Permits,      \* permit windows of each place, {} = no restriction
    Rentals,      \* rental windows of each piece of equipment, {} = none
    Settings,     \* supports_int_ext of each place
    Lights,       \* supports_time_of_day of each place
    RestUnits,    \* crew_turnaround.minimum_hours
    LongestDay    \* shooting.maximum_daily_hours

ASSUME HoursAssumption == RestUnits \in Int /\ LongestDay \in Int

Setting(s) == IF s \in Outdoors THEN "EXT" ELSE "INT"

Violation(code, subject) == [code |-> code, subject |-> subject]

\* A half-open window touches a day; a day lies inside one of the windows.
Touches(w, row) == row.call < w.to /\ w.from < row.wrap
Fits(row, windows) ==
    windows = {} \/ \E w \in windows : w.from <= row.call /\ row.wrap <= w.to

GearOf(row) == UNION {Gear[s] : s \in row.scenes}

\* C001: rest between a day and the next, when one unit works both.
CrewTurnaround(state) ==
    {Violation("C001", <<state.rows[i].date, state.rows[i + 1].date>>) :
        i \in {j \in 1 .. Len(state.rows) - 1 :
                /\ state.rows[j].unit = state.rows[j + 1].unit
                /\ state.rows[j + 1].call - state.rows[j].wrap < RestUnits}}

\* C002: the length of a shooting day; other days are not measured.
MaxDailyHours(state) ==
    {Violation("C002", <<row.date>>) :
        row \in {r \in ToSet(state.rows) :
                    r.kind = "SHOOT" /\ r.wrap - r.call > LongestDay}}

\* C003: nobody the production knows is called into a window in which they are
\* away.
CastAvailability(state) ==
    LET Missing(row, s) == {p \in Cast[s] \cap DOMAIN state.away :
                                \E w \in state.away[p] : Touches(w, row)}
    IN  UNION {UNION {{Violation("C003", <<p, s, row.date>>) : p \in Missing(row, s)} :
                        s \in row.scenes} : row \in ToSet(state.rows)}

\* C004: a day lies inside a permit of the place it is booked at.
LocationPermit(state) ==
    {Violation("C004", <<row.date, row.place>>) :
        row \in {r \in ToSet(state.rows) : ~Fits(r, Permits[r.place])}}

\* C005: one unit per place and date.
LocationDoubleBook(state) ==
    LET rows == state.rows
        Using(u) == {i \in DOMAIN rows : rows[i].place = u[1] /\ rows[i].date = u[2]}
    IN  {Violation("C005", use) :
            use \in {u \in Places \X Dates : Cardinality(Using(u)) > 1}}

\* C006: equipment is used while it is rented.
EquipmentWindow(state) ==
    UNION {{Violation("C006", <<e, row.date>>) :
                e \in {g \in GearOf(row) : ~Fits(row, Rentals[g])}} :
            row \in ToSet(state.rows)}

\* C007: one unit per piece of equipment and date.
EquipmentDoubleBook(state) ==
    LET rows == state.rows
        Using(u) == {i \in DOMAIN rows : u[1] \in GearOf(rows[i]) /\ rows[i].date = u[2]}
    IN  {Violation("C007", use) :
            use \in {u \in Equipment \X Dates : Cardinality(Using(u)) > 1}}

\* The dates on which a scene stands; the last row with it counts.
DatesOf(rows, s) == {rows[i].date : i \in {j \in DOMAIN rows : s \in rows[j].scenes}}
Scheduled(rows) == UNION {rows[i].scenes : i \in DOMAIN rows}
OnDate(rows, s) == CHOOSE d \in DatesOf(rows, s) : \A e \in DatesOf(rows, s) : e <= d

\* C008: a prerequisite is shot on a strictly earlier date.
PrerequisiteOrder(state) ==
    LET rows == state.rows
        Early(s) == {p \in state.needs[s] \cap Scheduled(rows) :
                        OnDate(rows, s) <= OnDate(rows, p)}
    IN  UNION {{Violation("C008", <<s, p>>) : p \in Early(s)} : s \in Scheduled(rows)}

\* C009, C010: the place of a scene, scheduled or not, can host it.
IntExtMatch(state) ==
    {Violation("C009", <<s, state.place[s]>>) :
        s \in {t \in Scenes : /\ Settings[state.place[t]] # {}
                              /\ Setting(t) \notin Settings[state.place[t]]}}

TimeOfDayMatch(state) ==
    {Violation("C010", <<s, state.place[s]>>) :
        s \in {t \in Scenes : /\ Lights[state.place[t]] # {}
                              /\ Light[t] \notin Lights[state.place[t]]}}

\* Every rule, in the order of the registry.
Validate(state) ==
    UNION {CrewTurnaround(state), MaxDailyHours(state), CastAvailability(state),
           LocationPermit(state), LocationDoubleBook(state), EquipmentWindow(state),
           EquipmentDoubleBook(state), PrerequisiteOrder(state),
           IntExtMatch(state), TimeOfDayMatch(state)}

Lawful(state) == Validate(state) = {}
==============================================================================
