------------------------------ MODULE Workbook ------------------------------
(***************************************************************************)
(* parse_workbook: from an uploaded file to the first state of a           *)
(* production, or to the list of what is wrong with the file.              *)
(*                                                                         *)
(* The parser runs in phases and stops after the first that found an       *)
(* error.  Each phase is an action here.  The state it builds can be       *)
(* exported as a workbook and uploaded again, which runs the phases a      *)
(* second time.                                                            *)
(*                                                                         *)
(* A cell is what a person can have put there, not its characters: see     *)
(* Coerce.  Dates are days, clock times are half hours of a day, and a     *)
(* moment of local time (its wall clock) is the two together.              *)
(***************************************************************************)
EXTENDS WorkbookSpec

CONSTANTS
    Uploads,      \* the files people upload
    MaxBytes,     \* MAX_UPLOAD_BYTES
    MaxEntries,   \* MAX_ENTRY_COUNT
    MaxRatio,     \* MAX_ZIP_RATIO
    MaxUnpacked,  \* MAX_UNCOMPRESSED_BYTES
    UnitNames,    \* every unit, in the order of their names
    Quoted        \* each text that begins like a formula -> the same behind an apostrophe

VARIABLES
    upload,    \* the file
    phase,     \* the next phase of the parse, or "done"
    sheets,    \* what the reader found: sheet -> [headers, rows, merged, hidden, formulas]
    tables,    \* the rows that could be read: sheet -> row -> column -> value
    errors,    \* what stops the import: [code, sheet, row, column, names]
    warnings,  \* what the reviewer is told
    state,     \* the production, or NoState
    first      \* what the first parse made, once it is uploaded again

vars == <<upload, phase, sheets, tables, errors, warnings, state, first>>

NoState == <<>>

\* Where an issue is about no one sheet, or no one column.
Whole == ""

Issue(code, sheet, row, column) ==
    [code |-> code, sheet |-> sheet, row |-> row, column |-> column, names |-> None]

\* A phase ends: the next one runs only if nothing was wrong so far.
Report(found, next) ==
    /\ errors' = errors \cup found
    /\ phase' = IF errors' = {} THEN next ELSE "done"

Init ==
    /\ upload \in Uploads
    /\ phase = "read"
    /\ sheets = <<>>
    /\ tables = <<>>
    /\ errors = {}
    /\ warnings = {}
    /\ state = NoState
    /\ first = None

-----------------------------------------------------------------------------
(* The door and the reader                                                 *)

\* detect_kind: what the first bytes say; the name only decides between the
\* two kinds of archive.
DetectKind(u) ==
    CASE u.magic \in {"empty", "ole2"}                            -> "refused"
      [] u.magic = "zip" /\ u.name = ".zip"                       -> "CSV_ZIP"
      [] u.magic = "zip" /\ u.name = ".xlsx"                      -> "XLSX"
      [] u.magic = "zip" /\ u.name \notin {".zip", ".xlsx"}       ->
            IF ~u.opens THEN "refused" ELSE IF u.xl THEN "XLSX" ELSE "CSV_ZIP"
      [] u.magic # "zip" /\ (u.name = ".csv" \/ u.magic = "text") -> "CSV"
      [] OTHER                                                    -> "refused"

\* safe_zip_entries: the sizes are the archive's own, nothing is unpacked.
SafeEntries(entries) ==
    /\ Len(entries) <= MaxEntries
    /\ \A i \in DOMAIN entries :
           /\ ~entries[i].unsafe
           /\ entries[i].stored > 0 => entries[i].unpacked <= MaxRatio * entries[i].stored
    /\ FoldSeq(LAMBDA e, total : total + e.unpacked, 0, entries) <= MaxUnpacked

Readable(u) ==
    /\ u.bytes <= MaxBytes
    /\ u.opens
    /\ \/ DetectKind(u) = "XLSX"
       \/ DetectKind(u) = "CSV_ZIP" /\ SafeEntries(u.entries)

Cell(row, c) == IF c \in DOMAIN row THEN row[c] ELSE BlankCell

\* A merged range holds its value in its first cell; the rows below read it
\* from there.
Expanded(sheet, i, c) ==
    LET over == {m \in sheet.merged : m.top < i /\ i <= m.bottom /\ c \in m.columns}
        own  == Cell(sheet.rows[i], c)
    IN  IF own # BlankCell \/ over = {} THEN own
        ELSE LET m == CHOOSE m \in over : TRUE IN Cell(sheet.rows[m.top], m.left)

\* Every row holds every column of its sheet.  A CSV file has no merged,
\* hidden or calculated cells.
ReadSheet(kind, original) ==
    LET sheet == IF kind = "XLSX" THEN original
                 ELSE [original EXCEPT !.merged = {}, !.hidden = FALSE, !.formulas = {}]
    IN  [sheet EXCEPT !.rows =
            [i \in DOMAIN sheet.rows |-> [c \in sheet.headers |-> Expanded(sheet, i, c)]]]

Read ==
    /\ phase = "read"
    /\ IF Readable(upload)
       THEN /\ sheets' = [s \in DOMAIN upload.book |->
                            ReadSheet(DetectKind(upload), upload.book[s])]
            /\ Report({}, "sheets")
       ELSE /\ Report({Issue("E016", Whole, 0, Whole)}, "done")
            /\ UNCHANGED sheets
    /\ UNCHANGED <<upload, tables, warnings, state, first>>

IsBlank(row)   == \A c \in DOMAIN row : row[c] = BlankCell
IsExample(row) == \E c \in DOMAIN row : row[c].form = "example"

\* The rows that are somebody's data.
DataRows(s) ==
    {i \in DOMAIN sheets[s].rows : ~IsBlank(sheets[s].rows[i]) /\ ~IsExample(sheets[s].rows[i])}

-----------------------------------------------------------------------------
(* Phase 1, structure                                                      *)

MissingSheets ==
    {Issue("E001", s, 0, Whole) :
        s \in {s \in SheetNames : WorkbookSheets[s].required /\ s \notin DOMAIN sheets}}

MissingColumns ==
    UNION {{Issue("E002", s, 1, c) :
               c \in {c \in DOMAIN WorkbookSheets[s].columns :
                        WorkbookSheets[s].columns[c].required /\ c \notin sheets[s].headers}} :
           s \in DOMAIN sheets}

\* Example rows count here; a sheet of exactly one row answers E012 instead.
OverlongSheets ==
    {Issue("E017", s, 0, Whole) :
        s \in {s \in DOMAIN sheets :
                 /\ ~WorkbookSheets[s].exactlyOne
                 /\ Cardinality({i \in DOMAIN sheets[s].rows : ~IsBlank(sheets[s].rows[i])})
                        > WorkbookSheets[s].maxRows}}

CheckSheets ==
    /\ phase = "sheets"
    /\ Report(IF DOMAIN sheets = {} THEN {Issue("E012", Whole, 0, Whole)}
              ELSE MissingSheets \cup MissingColumns \cup OverlongSheets, "production")
    /\ UNCHANGED <<upload, sheets, tables, warnings, state, first>>

\* _coerce_row: a cell that cannot be read, or that is needed and empty.
FaultyCells(s, i, dayFirst) ==
    LET columns == WorkbookSheets[s].columns
        got(c)  == Coerce(Cell(sheets[s].rows[i], c), columns[c], dayFirst)
    IN  {Issue(IF ~got(c).ok /\ columns[c].kind = "ENUM" THEN "E004" ELSE "E003", s, i, c) :
            c \in {c \in DOMAIN columns :
                     ~got(c).ok \/ (columns[c].required /\ IsEmpty(columns[c].kind, got(c).value))}}

AmbiguousCells(s, i, dayFirst) ==
    {Issue("W011", s, i, c) :
        c \in {c \in DOMAIN WorkbookSheets[s].columns :
                 Coerce(Cell(sheets[s].rows[i], c), WorkbookSheets[s].columns[c], dayFirst).ambiguous}}

\* Mutant: rows with a date that was guessed are left out.
ReadCertainRows(s, dayFirst) ==
    [i \in {i \in DataRows(s) : /\ FaultyCells(s, i, dayFirst) = {}
                                /\ s = "production" \/ AmbiguousCells(s, i, dayFirst) = {}} |->
        [c \in DOMAIN WorkbookSheets[s].columns |->
            Coerce(Cell(sheets[s].rows[i], c), WorkbookSheets[s].columns[c], dayFirst).value]]

\* The rows of a sheet without those that have a faulty cell.
ReadRows(s, dayFirst) ==
    [i \in {i \in DataRows(s) : FaultyCells(s, i, dayFirst) = {}} |->
        [c \in DOMAIN WorkbookSheets[s].columns |->
            Coerce(Cell(sheets[s].rows[i], c), WorkbookSheets[s].columns[c], dayFirst).value]]

\* The time zone first: it decides how every other date is read.
DayFirst(i) ==
    LET zone == Cell(sheets["production"].rows[i], "timezone")
    IN  zone = BlankCell \/ ~zone.value.monthFirst

ReadProduction ==
    /\ phase = "production"
    /\ IF Cardinality(DataRows("production")) # 1
       THEN /\ Report({Issue("E012", "production", 0, Whole)}, "done")
            /\ UNCHANGED <<tables, warnings>>
       ELSE LET i == CHOOSE i \in DataRows("production") : TRUE
            IN  IF Cell(sheets["production"].rows[i], "timezone").form \notin {"blank", "value"}
                THEN /\ Report({Issue("E003", "production", i, "timezone")}, "done")
                     /\ UNCHANGED <<tables, warnings>>
                ELSE /\ Report(FaultyCells("production", i, DayFirst(i)), "rows")
                     /\ warnings' = warnings \cup AmbiguousCells("production", i, DayFirst(i))
                     /\ tables' = [production |-> ReadRows("production", DayFirst(i))]
    /\ UNCHANGED <<upload, sheets, state, first>>

Production == LET i == CHOOSE i \in DOMAIN tables["production"] : TRUE IN tables["production"][i]
Zone       == Production.timezone

\* Mutant: a row that cannot be read is skipped with a warning.
ReadTablesLeniently ==
    /\ phase = "rows"
    /\ LET dayFirst == ~Zone.monthFirst
           there    == (SheetNames \ {"production"}) \cap DOMAIN sheets
       IN  /\ warnings' = warnings \cup
                  UNION {UNION {FaultyCells(s, i, dayFirst) : i \in DataRows(s)} : s \in there}
           /\ tables' = [s \in SheetNames |->
                  CASE s = "production" -> tables["production"]
                    [] s \in there      -> ReadRows(s, dayFirst)
                    [] OTHER            -> <<>>]
    /\ phase' = "budget"
    /\ UNCHANGED <<upload, sheets, errors, state, first>>

ReadTables ==
    /\ phase = "rows"
    /\ LET dayFirst == ~Zone.monthFirst
           others   == SheetNames \ {"production"}
           there    == others \cap DOMAIN sheets
       IN  /\ Report(UNION {UNION {FaultyCells(s, i, dayFirst) : i \in DataRows(s)} : s \in there},
                     "budget")
           /\ warnings' = warnings \cup
                  UNION {UNION {AmbiguousCells(s, i, dayFirst) : i \in DataRows(s)} : s \in there}
           /\ tables' = [s \in SheetNames |->
                  CASE s = "production" -> tables["production"]
                    [] s \in there      -> ReadRows(s, dayFirst)
                    [] OTHER            -> <<>>]
    /\ UNCHANGED <<upload, sheets, state, first>>

\* The clock is looked at once, here.
WithinBudget ==
    /\ phase = "budget"
    /\ phase' = "identity"
    /\ UNCHANGED <<upload, sheets, tables, errors, warnings, state, first>>

OverBudget ==
    /\ phase = "budget"
    /\ Report({Issue("E016", Whole, 0, Whole)}, "done")
    /\ UNCHANGED <<upload, sheets, tables, warnings, state, first>>
-----------------------------------------------------------------------------
(* Phases 2 and 3, identity and reference                                  *)

\* E005: a row whose key an earlier row of the sheet has.
RepeatedKeys ==
    UNION {LET key == WorkbookSheets[s].key
               t   == tables[s]
           IN  {Issue("E005", s, i, key) :
                   i \in {i \in DOMAIN t : \E j \in DOMAIN t : j < i /\ t[j][key] = t[i][key]}} :
           s \in {s \in SheetNames : WorkbookSheets[s].key # None}}

CheckIdentity ==
    /\ phase = "identity"
    /\ Report(RepeatedKeys, "reference")
    /\ UNCHANGED <<upload, sheets, tables, warnings, state, first>>

Ids(s) == {tables[s][i][WorkbookSheets[s].key] : i \in DOMAIN tables[s]}

\* The role of a person, None for somebody unknown.
RoleOf(id) ==
    IF id \notin Ids("people") THEN None
    ELSE tables["people"][CHOOSE i \in DOMAIN tables["people"] :
                             tables["people"][i].person_id = id].role

\* The references one row makes: <<column, id, sheet it must be in>>.
SceneRefs(v) ==
    {<<"location_id", v.location_id, "locations">>}
        \cup {<<"cast_ids", id, "people">> : id \in ToSet(v.cast_ids)}
        \cup {<<"crew_ids", id, "people">> : id \in ToSet(v.crew_ids)}
        \cup {<<"equipment_ids", id, "equipment">> : id \in ToSet(v.equipment_ids)}
        \cup {<<"prerequisite_scene_ids", id, "scenes">> : id \in ToSet(v.prerequisite_scene_ids)}

DayRefs(v) ==
    {<<"location_id", v.location_id, "locations">>}
        \cup {<<"scene_ids", id, "scenes">> : id \in ToSet(v.scene_ids)}

SubjectSheet == [PERSON |-> "people", EQUIPMENT |-> "equipment", LOCATION |-> "locations"]

\* A window of the wrong kind for its subject is E014, and its subject is not
\* looked up.
MisfitWindow(v) == v.window_kind # WindowKindOf[v.subject_type]

WindowRefs(v) ==
    IF MisfitWindow(v) THEN {}
    ELSE {<<"subject_id", v.subject_id, SubjectSheet[v.subject_type]>>}

RefsOf(s, v) ==
    CASE s = "scenes"       -> SceneRefs(v)
      [] s = "schedule"     -> DayRefs(v)
      [] s = "availability" -> WindowRefs(v)

\* E006
DanglingRefs ==
    UNION {UNION {{[Issue("E006", s, i, ref[1]) EXCEPT !.names = <<ref[2], ref[3]>>] :
                      ref \in {ref \in RefsOf(s, tables[s][i]) : ref[2] \notin Ids(ref[3])}} :
                  i \in DOMAIN tables[s]} :
           s \in {"scenes", "schedule", "availability"}}

\* E008: cast who are crew, crew who are cast.
WrongRoles ==
    UNION {{Issue("E008", "scenes", i, "cast_ids") :
               id \in {id \in ToSet(tables["scenes"][i].cast_ids) : RoleOf(id) = "CREW"}} \cup
           {Issue("E008", "scenes", i, "crew_ids") :
               id \in {id \in ToSet(tables["scenes"][i].crew_ids) : RoleOf(id) = "CAST"}} :
           i \in DOMAIN tables["scenes"]}

\* E014
MisfitWindows ==
    {Issue("E014", "availability", i, "window_kind") :
        i \in {i \in DOMAIN tables["availability"] : MisfitWindow(tables["availability"][i])}}

CheckReferences ==
    /\ phase = "reference"
    /\ Report(DanglingRefs \cup WrongRoles \cup MisfitWindows, "production_row")
    /\ UNCHANGED <<upload, sheets, tables, warnings, state, first>>

-----------------------------------------------------------------------------
(* Phase 4, semantic                                                       *)

CheckProduction ==
    /\ phase = "production_row"
    /\ Report(IF Production.shoot_end < Production.shoot_start
              THEN {Issue("E003", "production", 2, Whole)} ELSE {}, "semantic")
    /\ UNCHANGED <<upload, sheets, tables, warnings, state, first>>

Prerequisites(id) ==
    UNION {ToSet(tables["scenes"][i].prerequisite_scene_ids) :
           i \in {i \in DOMAIN tables["scenes"] : tables["scenes"][i].scene_id = id}}

\* E007: some scenes each need another of them first.
PrerequisiteLoops ==
    IF \E loop \in (SUBSET Ids("scenes")) \ {{}} :
           \A id \in loop : Prerequisites(id) \cap loop # {}
    THEN {Issue("E007", "scenes", 0, "prerequisite_scene_ids")} ELSE {}

ShootDates == Production.shoot_start .. Production.shoot_end

\* E010
DaysOutside ==
    {Issue("E010", "schedule", i, "date") :
        i \in {i \in DOMAIN tables["schedule"] : tables["schedule"][i].date \notin ShootDates}}

Slot(i)  == <<tables["schedule"][i].date, tables["schedule"][i].unit>>
RowsOf(id) == {i \in DOMAIN tables["schedule"] : id \in ToSet(tables["schedule"][i].scene_ids)}
FirstRowOf(id) == CHOOSE i \in RowsOf(id) : \A j \in RowsOf(id) : i <= j

\* Mutant: another unit on the same day is not looked at.
ScenesTwiceByDate ==
    {Issue("E009", "schedule", i, "scene_ids") :
        i \in {i \in DOMAIN tables["schedule"] :
                 \E id \in ToSet(tables["schedule"][i].scene_ids) : Slot(FirstRowOf(id))[1] # Slot(i)[1]}}

\* E009: a scene on another day or unit than where it was first.
ScenesTwice ==
    {Issue("E009", "schedule", i, "scene_ids") :
        i \in {i \in DOMAIN tables["schedule"] :
                 \E id \in ToSet(tables["schedule"][i].scene_ids) : Slot(FirstRowOf(id)) # Slot(i)}}

\* Local time.  A zone is a fixed offset from UTC, with at most one hour
\* skipped and one repeated; moments are half hours.
DayLength == 48
Hour      == 2

Skipped(zone, t)  == zone.forward # None /\ zone.forward <= t /\ t < zone.forward + Hour
Repeated(zone, t) == zone.back # None /\ zone.back - Hour <= t /\ t < zone.back

\* The instant of a wall clock, the first one if it happens twice.
Instant(zone, t) ==
    t - zone.offset
      - (IF zone.forward # None /\ t >= zone.forward + Hour THEN Hour ELSE 0)
      + (IF zone.back # None /\ t >= zone.back THEN Hour ELSE 0)

Moment(zone, t) == [wall |-> t, at |-> Instant(zone, t)]

\* Overnight by the sheet's word, or because wrap would precede call.
Overnight(v) == v.wrap_next_day = TRUE \/ (v.wrap_next_day # FALSE /\ v.wrap_time <= v.call_time)

WrapBeforeCall(v) == v.wrap_next_day = FALSE /\ v.wrap_time <= v.call_time
CallAt(v) == v.date * DayLength + v.call_time
WrapAt(v) == (IF Overnight(v) THEN v.date + 1 ELSE v.date) * DayLength + v.wrap_time

\* E011, which ends the row, and E015.
ImpossibleTimes ==
    UNION {LET v == tables["schedule"][i]
           IN  IF WrapBeforeCall(v) THEN {Issue("E011", "schedule", i, "wrap_time")}
               ELSE {Issue("E015", "schedule", i, c) :
                       c \in {c \in {"call_time", "wrap_time"} :
                                Skipped(Zone, IF c = "call_time" THEN CallAt(v) ELSE WrapAt(v))}} :
           i \in DOMAIN tables["schedule"]}

\* W008 and W009
AssumedTimes ==
    UNION {LET v == tables["schedule"][i]
           IN  IF WrapBeforeCall(v) THEN {}
               ELSE {Issue("W008", "schedule", i, "wrap_time") :
                        c \in {c \in {v} : v.wrap_next_day = None /\ v.wrap_time <= v.call_time}}
                    \cup {Issue("W009", "schedule", i, c) :
                        c \in {c \in {"call_time", "wrap_time"} :
                                 Repeated(Zone, IF c = "call_time" THEN CallAt(v) ELSE WrapAt(v))}} :
           i \in DOMAIN tables["schedule"]}

\* E018
ReversedWindows ==
    {Issue("E018", "availability", i, "to_date") :
        i \in {i \in DOMAIN tables["availability"] :
                 tables["availability"][i].to_date < tables["availability"][i].from_date}}

CheckSemantics ==
    /\ phase = "semantic"
    /\ Report(PrerequisiteLoops \cup DaysOutside \cup ScenesTwice \cup ImpossibleTimes
                  \cup ReversedWindows, "build")
    /\ warnings' = warnings \cup AssumedTimes
    /\ UNCHANGED <<upload, sheets, tables, state, first>>
-----------------------------------------------------------------------------
(* What people upload                                                      *)

\* A cell that is filled in holds a value, a typed one of its column's kind, and
\* one like 05/03 two dates.
CellFits(kind, cell) ==
    /\ cell.form \in {"value", "text"} /\ kind \notin Lists => cell.value # None
    /\ cell.form = "value" =>
          /\ kind = "DATE" => cell.value \in Int
          /\ kind = "TIME" => cell.value \in 0 .. DayLength - 1
          /\ kind = "TIMEZONE" =>
                /\ cell.value.offset \in Int
                /\ {cell.value.forward, cell.value.back} \subseteq Int \cup {None}
    /\ cell.form = "slashed" => {cell.value.dayFirst, cell.value.monthFirst} \subseteq Int

\* Every unit somebody writes down has its place among UnitNames.
NamesUnit(cell) ==
    cell.form \in {"value", "text"} => cell.value \in ToSet(UnitNames)

SheetFits(s, sheet) ==
    /\ Len(sheet.rows) \in Nat /\ DOMAIN sheet.rows = 1 .. Len(sheet.rows)
    /\ \A i \in DOMAIN sheet.rows :
          /\ \A c \in DOMAIN WorkbookSheets[s].columns :
                CellFits(WorkbookSheets[s].columns[c].kind, Cell(sheet.rows[i], c))
          /\ s = "schedule" => NamesUnit(Cell(sheet.rows[i], "unit"))

UploadFits(u) ==
    /\ DOMAIN u.book \subseteq SheetNames
    /\ \A s \in DOMAIN u.book : SheetFits(s, ReadSheet(DetectKind(u), u.book[s]))

ASSUME UploadsAssumption == \A u \in Uploads : UploadFits(u)

ASSUME UnitsAssumption ==
    /\ Len(UnitNames) \in Nat /\ DOMAIN UnitNames = 1 .. Len(UnitNames)
    /\ "MAIN" \in ToSet(UnitNames)
-----------------------------------------------------------------------------
(* The state                                                               *)

Midnight(d) == Moment(Zone, d * DayLength)

\* Whole days, the last one included.
WholeDays(from, to) == [start |-> Midnight(from), end |-> Midnight(to + 1)]

AvailabilityOf(id, kind) ==
    {v \in {tables["availability"][i] : i \in DOMAIN tables["availability"]} :
        v.subject_id = id /\ v.window_kind = kind}

\* Mutant: the last day of a closure is open.
ClosedDaysBut(id) == UNION {v.from_date .. (v.to_date - 1) : v \in AvailabilityOf(id, "CLOSED")}

WindowsOf(id, kind) == {WholeDays(v.from_date, v.to_date) : v \in AvailabilityOf(id, kind)}
ClosedDays(id)      == UNION {v.from_date .. v.to_date : v \in AvailabilityOf(id, "CLOSED")}

\* The daily permit on day d; half a permit is none.
PermitOn(d, opens, closes) ==
    IF opens = None \/ closes = None THEN WholeDays(d, d)
    ELSE [start |-> Moment(Zone, d * DayLength + opens),
          end   |-> Moment(Zone, (IF closes <= opens THEN d + 1 ELSE d) * DayLength + closes)]

\* One window per day of the shoot that is not closed; none at all is no limit.
PermitWindows(v) ==
    LET opens == v.permit_start_time
        closes == v.permit_end_time
    IN  IF opens = None /\ closes = None /\ ClosedDays(v.location_id) = {} THEN {}
        ELSE {PermitOn(d, opens, closes) : d \in ShootDates \ ClosedDays(v.location_id)}

Records(s) == {tables[s][i] : i \in DOMAIN tables[s]}

People ==
    {[id |-> v.person_id, name |-> v.name, role |-> v.role, daily_rate |-> v.daily_rate,
      unavailable_windows |-> WindowsOf(v.person_id, "UNAVAILABLE")] : v \in Records("people")}

Locations ==
    {[id |-> v.location_id, name |-> v.name, day_rate |-> v.day_rate,
      permit_windows |-> PermitWindows(v), supports_int_ext |-> v.supports_int_ext,
      supports_time_of_day |-> v.supports_time_of_day] : v \in Records("locations")}

Equipment ==
    {[id |-> v.equipment_id, name |-> v.name, daily_rate |-> v.daily_rate,
      available_windows |-> WindowsOf(v.equipment_id, "AVAILABLE")] : v \in Records("equipment")}

ShootingDay(v) ==
    [date |-> v.date, call_time |-> Moment(Zone, CallAt(v)), wrap_time |-> Moment(Zone, WrapAt(v)),
     location_id |-> v.location_id, scene_ids |-> v.scene_ids, unit |-> v.unit,
     day_kind |-> IF v.day_kind # None THEN v.day_kind
                  ELSE IF v.scene_ids = <<>> THEN "RESERVE" ELSE "SHOOT"]

\* The days by date, then by the name of their unit, then as in the file.
UnitRank(unit) == CHOOSE k \in DOMAIN UnitNames : UnitNames[k] = unit

Precedes(i, j) ==
    LET a == tables["schedule"][i]
        b == tables["schedule"][j]
    IN  \/ a.date < b.date
        \/ a.date = b.date /\ UnitRank(a.unit) < UnitRank(b.unit)
        \/ a.date = b.date /\ a.unit = b.unit /\ i < j

Days ==
    LET rows == DOMAIN tables["schedule"]
    IN  [k \in 1 .. Cardinality(rows) |->
            ShootingDay(tables["schedule"][
                CHOOSE i \in rows : Cardinality({j \in rows : Precedes(j, i)}) = k - 1])]

\* A scene is its row.
NewState ==
    [production |-> [id |-> Production.production_id, title |-> Production.title,
                     currency |-> Production.currency,
                     shoot_start |-> Production.shoot_start, shoot_end |-> Production.shoot_end,
                     reserve_days |-> Production.reserve_days],
     scenes |-> Records("scenes"), people |-> People, locations |-> Locations,
     equipment |-> Equipment, days |-> Days]

\* What the domain's own types refuse.
BrokenRecords(new) ==
    IF \/ \E v \in new.scenes : v.estimated_minutes <= 0
       \/ \E v \in new.people \cup new.equipment : v.daily_rate < 0
       \/ \E v \in new.locations : v.day_rate < 0
       \/ \E k \in DOMAIN new.days : new.days[k].wrap_time.wall <= new.days[k].call_time.wall
    THEN {Issue("E003", Whole, 0, Whole)} ELSE {}

\* Mutant: the state is kept although it was refused.
BuildStateAnyway ==
    /\ phase = "build"
    /\ Report(BrokenRecords(NewState), "warnings")
    /\ state' = NewState
    /\ UNCHANGED <<upload, sheets, tables, warnings, first>>

BuildState ==
    /\ phase = "build"
    /\ Report(BrokenRecords(NewState), "warnings")
    /\ state' = IF BrokenRecords(NewState) = {} THEN NewState ELSE NoState
    /\ UNCHANGED <<upload, sheets, tables, warnings, first>>

-----------------------------------------------------------------------------
(* Phase 5, warnings                                                       *)

Scheduled == UNION {ToSet(state.days[k].scene_ids) : k \in DOMAIN state.days}

Named(code, sheet, ids) == {[Issue(code, sheet, 0, Whole) EXCEPT !.names = <<id>>] : id \in ids}

\* W001, W002 and W003: scenes never shot, people and equipment never used.
UnusedRecords ==
    Named("W001", "scenes", {v.scene_id : v \in state.scenes} \ Scheduled)
      \cup Named("W002", "people", {p.id : p \in state.people} \
                 UNION {ToSet(v.cast_ids) \cup ToSet(v.crew_ids) : v \in state.scenes})
      \cup Named("W003", "equipment", {e.id : e \in state.equipment} \
                 UNION {ToSet(v.equipment_ids) : v \in state.scenes})

\* W014, W004 and W005: days whose kind and scenes do not go together.
OddDays ==
    UNION {LET day == state.days[k]
           IN  {Issue(code, "schedule", k, Whole) : code \in
                  {code \in {"W014", "W004", "W005"} :
                     CASE code = "W014" -> day.scene_ids # <<>> /\ day.day_kind # "SHOOT"
                       [] code = "W004" -> day.scene_ids = <<>>
                       [] code = "W005" -> /\ day.scene_ids # <<>>
                                           /\ day.date \in ToSet(state.production.reserve_days)}} :
           k \in DOMAIN state.days}

\* W006, W012, W013 and W010: what the reader did with the sheets.
OddSheets ==
    UNION {{Issue(code, s, 0, Whole) : code \in
              {code \in {"W006", "W012", "W013"} :
                 CASE code = "W006" -> sheets[s].headers \ DOMAIN WorkbookSheets[s].columns # {}
                   [] code = "W012" -> sheets[s].merged # {}
                   [] code = "W013" -> sheets[s].hidden}}
           \cup {Issue("W010", s, 0, c) : c \in sheets[s].formulas \cap sheets[s].headers} :
           s \in DOMAIN sheets}

\* W007
OtherVersion ==
    IF Production.template_version # TemplateVersion
    THEN {Issue("W007", "production", 2, "template_version")} ELSE {}

Warn ==
    /\ phase = "warnings"
    /\ warnings' = warnings \cup UnusedRecords \cup OddDays \cup OddSheets \cup OtherVersion
    /\ Report({}, "done")
    /\ UNCHANGED <<upload, sheets, tables, state, first>>

-----------------------------------------------------------------------------
(* export_state, and the file uploaded again                               *)

DateOf(moment)  == moment.wall \div DayLength
ClockOf(moment) == moment.wall % DayLength

\* _infer_timezone: a stored moment keeps its offset and not its zone; the
\* first day's offset stands for the production.  Other half hours than
\* India's have no name here and become UTC.
FixedZone(offset) == [offset |-> offset, forward |-> None, back |-> None, monthFirst |-> FALSE]
India == 11

\* An empty value is no zone.
ASSUME ZoneAssumption ==
    None \notin [offset : Int, forward : {None}, back : {None}, monthFirst : BOOLEAN]

InferredZone(of) ==
    LET call   == of.days[1].call_time
        offset == call.wall - call.at
    IN  IF of.days # <<>> /\ (offset % Hour = 0 \/ offset = India) THEN FixedZone(offset)
        ELSE FixedZone(0)

ClockPairs(location) == {<<ClockOf(w.start), ClockOf(w.end)>> : w \in location.permit_windows}

\* _daily_permit
DailyPermit(location) ==
    IF location.permit_windows = {} THEN <<None, None>>
    ELSE CHOOSE pair \in ClockPairs(location) : TRUE

\* Mutant: the first day after the window is written as its last.
AvailabilityRowOpen(type, id, kind, w) ==
    [subject_type |-> type, subject_id |-> id, window_kind |-> kind, from_date |-> DateOf(w.start),
     to_date |-> DateOf(w.end)]

AvailabilityRow(type, id, kind, w) ==
    [subject_type |-> type, subject_id |-> id, window_kind |-> kind, from_date |-> DateOf(w.start),
     to_date |-> DateOf([w.end EXCEPT !.wall = @ - DayLength])]

ExportedRows(of, s) ==
    CASE s = "production" ->
            LET p == of.production
            IN  <<[production_id |-> p.id, title |-> p.title, currency |-> p.currency,
                   timezone |-> InferredZone(of), shoot_start |-> p.shoot_start,
                   shoot_end |-> p.shoot_end, reserve_days |-> p.reserve_days,
                   template_version |-> TemplateVersion]>>
      [] s = "scenes" -> SetToSeq(of.scenes)
      [] s = "people" ->
            SetToSeq({[person_id |-> p.id, name |-> p.name, role |-> p.role,
                       daily_rate |-> p.daily_rate] : p \in of.people})
      [] s = "locations" ->
            SetToSeq({[location_id |-> l.id, name |-> l.name, day_rate |-> l.day_rate,
                       permit_start_time |-> DailyPermit(l)[1], permit_end_time |-> DailyPermit(l)[2],
                       supports_int_ext |-> l.supports_int_ext,
                       supports_time_of_day |-> l.supports_time_of_day] : l \in of.locations})
      [] s = "equipment" ->
            SetToSeq({[equipment_id |-> e.id, name |-> e.name,
                       daily_rate |-> e.daily_rate] : e \in of.equipment})
      [] s = "availability" ->
            SetToSeq((UNION {{AvailabilityRow("PERSON", p.id, "UNAVAILABLE", w) :
                                w \in p.unavailable_windows} : p \in of.people})
                \cup (UNION {{AvailabilityRow("EQUIPMENT", e.id, "AVAILABLE", w) :
                                w \in e.available_windows} : e \in of.equipment}))
      [] s = "schedule" ->
            [k \in DOMAIN of.days |->
                LET day == of.days[k]
                IN  [date |-> day.date, call_time |-> ClockOf(day.call_time),
                     wrap_time |-> ClockOf(day.wrap_time),
                     wrap_next_day |-> DateOf(day.wrap_time) > DateOf(day.call_time),
                     location_id |-> day.location_id, scene_ids |-> day.scene_ids,
                     unit |-> day.unit, day_kind |-> day.day_kind]]

\* A text that a spreadsheet would run as a formula is written behind an
\* apostrophe, which no reader takes off again.
guard_formula(text) == IF text \in DOMAIN Quoted THEN Quoted[text] ELSE text

\* An apostrophe makes a text of any text, and no formula.
ASSUME QuotedAssumption ==
    /\ None \notin DOMAIN Quoted
    /\ \A text \in DOMAIN Quoted : Quoted[text] # None
    /\ \A unit \in ToSet(UnitNames) : guard_formula(unit) \in ToSet(UnitNames)

\* _cell_value: a list is one text, guarded at its first id.  What the other
\* kinds write begins with a digit or a letter.
CellValue(kind, value) ==
    CASE kind = "STRING"                  -> guard_formula(value)
      [] kind = "ID_LIST" /\ value # <<>> -> [value EXCEPT ![1] = guard_formula(@)]
      [] OTHER                            -> value

\* Every cell is typed; an empty value leaves its cell empty.
ExportedSheet(of, s) ==
    LET columns == WorkbookSheets[s].columns
        rows    == ExportedRows(of, s)
    IN  [headers |-> DOMAIN columns, merged |-> {}, hidden |-> FALSE, formulas |-> {},
         rows |-> [i \in DOMAIN rows |-> [c \in DOMAIN columns |->
                     IF IsEmpty(columns[c].kind, rows[i][c]) THEN BlankCell
                     ELSE TypedCell(CellValue(columns[c].kind, rows[i][c]))]]]

ExportState(of) ==
    [bytes |-> 0, magic |-> "zip", name |-> ".xlsx", opens |-> TRUE, xl |-> TRUE,
     entries |-> <<>>, book |-> [s \in SheetNames |-> ExportedSheet(of, s)]]

\* A permit of several daily patterns cannot be written down: 422.
Exportable == \A l \in state.locations : Cardinality(ClockPairs(l)) <= 1

\* The production is exported and the file comes back as an upload.
UploadExport ==
    /\ phase = "done"
    /\ first = None
    /\ state # NoState
    /\ Exportable
    /\ upload' = ExportState(state)
    /\ first' = [state |-> state, zone |-> Zone,
                 closed |-> {v \in Records("availability") : v.window_kind = "CLOSED"}]
    /\ phase' = "read"
    /\ sheets' = <<>>
    /\ tables' = <<>>
    /\ errors' = {}
    /\ warnings' = {}
    /\ state' = NoState

Next ==
    \/ Read \/ CheckSheets \/ ReadProduction \/ ReadTables \/ WithinBudget \/ OverBudget
    \/ CheckIdentity \/ CheckReferences \/ CheckProduction \/ CheckSemantics
    \/ BuildState \/ Warn \/ UploadExport

Spec == Init /\ [][Next]_vars
-----------------------------------------------------------------------------
(* What a parse promises                                                   *)

Phases == {"read", "sheets", "production", "rows", "budget", "identity", "reference",
           "production_row", "semantic", "build", "warnings", "done"}

\* A state exists from the moment it is built, only with no error, and a parse
\* that ends has one or the other: a half-built state never leaves the parser
\* (ParseResult).
TypeOK ==
    /\ phase \in Phases
    /\ DOMAIN sheets \subseteq SheetNames
    /\ DOMAIN tables \subseteq SheetNames
    /\ \A e \in errors \cup warnings : e.sheet \in SheetNames \cup {Whole}
    /\ errors # {} => phase = "done" /\ state = NoState
    /\ phase \in {"warnings", "done"} /\ errors = {} => state # NoState

Unique(records, Key(_)) == \A a, b \in records : Key(a) = Key(b) => a = b

SceneIds    == {v.scene_id : v \in state.scenes}
PersonIds   == {p.id : p \in state.people}
LocationIds == {l.id : l \in state.locations}
CastIds     == {p.id : p \in {p \in state.people : p.role = "CAST"}}

OneRecordPerId ==
    /\ Unique(state.scenes, LAMBDA v : v.scene_id)
    /\ Unique(state.people, LAMBDA p : p.id)
    /\ Unique(state.locations, LAMBDA l : l.id)
    /\ Unique(state.equipment, LAMBDA e : e.id)

RefsResolve ==
    /\ \A v \in state.scenes :
           /\ v.location_id \in LocationIds
           /\ ToSet(v.cast_ids) \subseteq CastIds
           /\ ToSet(v.crew_ids) \subseteq PersonIds \ CastIds
           /\ ToSet(v.equipment_ids) \subseteq {e.id : e \in state.equipment}
           /\ ToSet(v.prerequisite_scene_ids) \subseteq SceneIds
    /\ \A k \in DOMAIN state.days :
           /\ state.days[k].location_id \in LocationIds
           /\ ToSet(state.days[k].scene_ids) \subseteq SceneIds

\* The scenes can be shot in some order.
SomeOrder ==
    \E order \in [SceneIds -> 1 .. Cardinality(SceneIds)] :
        \A v \in state.scenes : \A id \in ToSet(v.prerequisite_scene_ids) :
            order[id] < order[v.scene_id]

\* Days lie in the shoot and end after they start, in real time too; a scene is
\* on one of them, and what a unit does on a date counts as one.
DaysPossible ==
    /\ \A k \in DOMAIN state.days :
           /\ state.days[k].date \in state.production.shoot_start .. state.production.shoot_end
           /\ state.days[k].call_time.at < state.days[k].wrap_time.at
    /\ \A j, k \in DOMAIN state.days :
           ToSet(state.days[j].scene_ids) \cap ToSet(state.days[k].scene_ids) # {} =>
               state.days[j].date = state.days[k].date /\ state.days[j].unit = state.days[k].unit

\* A state that comes out of a workbook is one the rest of the system can plan
\* with, whatever was in the file: unique ids, references that resolve to the
\* right kind of record, no loop of prerequisites, days that can be worked
\* (parser._Parser.run, the phases before _build_state).
ParsedIsLegal == state # NoState => OneRecordPerId /\ RefsResolve /\ SomeOrder /\ DaysPossible

\* The rows a person filled in.
FilledIn(s) ==
    {i \in DOMAIN sheets[s].rows : ~IsBlank(sheets[s].rows[i]) /\ ~IsExample(sheets[s].rows[i])}

\* Every filled-in row of the file is in the state: none is dropped on the way
\* because a cell of it, or a row it refers to, was refused (_read_rows,
\* _build_state).
NothingLost ==
    state # NoState =>
        /\ Cardinality(state.scenes)    = Cardinality(FilledIn("scenes"))
        /\ Cardinality(state.people)    = Cardinality(FilledIn("people"))
        /\ Cardinality(state.locations) = Cardinality(FilledIn("locations"))
        /\ Cardinality(state.equipment) = Cardinality(FilledIn("equipment"))
        /\ Len(state.days)              = Cardinality(FilledIn("schedule"))
        /\ "availability" \in DOMAIN sheets =>
               DOMAIN tables["availability"] = FilledIn("availability")

\* One mistake is reported once: an unknown id is in no row of its sheet, and
\* not merely in a row that was refused for another reason (run: "stopping at
\* the first that fails").
NoCascade ==
    \A e \in errors : e.code = "E006" =>
        LET s == e.names[2]
        IN  \A i \in FilledIn(s) :
                Cell(sheets[s].rows[i], WorkbookSheets[s].key).value # e.names[1]

Moments(of) ==
    (UNION {{of.days[k].call_time, of.days[k].wrap_time} : k \in DOMAIN of.days})
      \cup (UNION {{w.start, w.end} : w \in
             UNION ({p.unavailable_windows : p \in of.people}
               \cup {e.available_windows : e \in of.equipment}
               \cup {l.permit_windows : l \in of.locations})})

\* All moments of a state have one offset from UTC, and one with a name.
OneOffset(of) ==
    \E offset \in {m.wall - m.at : m \in Moments(of)} :
        /\ \A m \in Moments(of) : m.wall - m.at = offset
        /\ offset % Hour = 0 \/ offset = India
        /\ of.days # <<>>

\* No text of a state is written behind an apostrophe.
WrittenAsIs(of, s) ==
    \A i \in DOMAIN ExportedRows(of, s) : \A c \in DOMAIN WorkbookSheets[s].columns :
        CellValue(WorkbookSheets[s].columns[c].kind, ExportedRows(of, s)[i][c])
            = ExportedRows(of, s)[i][c]

NoFormulas(of) == \A s \in SheetNames : WrittenAsIs(of, s)

\* A production that is exported and uploaded again is the same production,
\* when no location is closed, no clock changes while it shoots and no text of
\* it begins like a formula (template.export_state, "the exact inverse").
ReimportsTheSame ==
    first # None /\ phase = "done" /\ first.closed = {} /\ OneOffset(first.state)
            /\ NoFormulas(first.state) =>
        errors = {Issue("E016", Whole, 0, Whole)} \/ state = first.state

\* A location is not to be used on a day it is closed, while some other day of
\* the shoot is open and its permit ends before midnight (_permit_windows).
ClosuresKept ==
    state # NoState =>
        \A v \in {v \in Records("availability") : v.window_kind = "CLOSED"} :
        \A row \in {row \in Records("locations") : row.location_id = v.subject_id} :
            \/ ShootDates \subseteq ClosedDays(v.subject_id)
            \/ row.permit_end_time # None /\ row.permit_start_time # None
                 /\ row.permit_end_time <= row.permit_start_time
            \/ \A l \in {l \in state.locations : l.id = v.subject_id} :
                   /\ l.permit_windows # {}
                   /\ \A w \in l.permit_windows : \A d \in v.from_date .. v.to_date :
                          w.end.wall <= d * DayLength \/ w.start.wall >= (d + 1) * DayLength
=============================================================================
