---------------------------- MODULE WorkbookSpec ----------------------------
(***************************************************************************)
(* The workbook declared as data: its sheets, their columns, and how one   *)
(* cell is read as the kind its column declares.                           *)
(*                                                                         *)
(* Optional columns of free text (descriptions, notes, addresses) are      *)
(* copied without a rule and left out.                                     *)
(***************************************************************************)
EXTENDS Integers, SequencesExt

CONSTANTS
    None,      \* an empty value
    RowLimit   \* max_rows of every sheet that may hold several

ASSUME RowLimitAssumption == RowLimit \in Nat

TemplateVersion == "1"

\* An empty value is no number, no id and no version, and names no column.
ASSUME NoneAssumption ==
    /\ None \notin Int
    /\ None \notin {"scene_id", "person_id", "location_id", "equipment_id", "CAST", "CREW",
                    "PERSON", "EQUIPMENT", "LOCATION", TemplateVersion}

Column(kind, required, default, permitted) ==
    [kind |-> kind, required |-> required, default |-> default, permitted |-> permitted]

Required(kind)               == Column(kind, TRUE, None, {})
Optional(kind, default)      == Column(kind, FALSE, default, {})
RequiredOf(values)           == Column("ENUM", TRUE, None, values)
OptionalOf(values)           == Column("ENUM", FALSE, None, values)

Sheet(required, key, exactlyOne, columns) ==
    [required |-> required, key |-> key, exactlyOne |-> exactlyOne,
     maxRows |-> RowLimit, columns |-> columns]

ProductionSheet == Sheet(TRUE, None, TRUE,
    [production_id    |-> Required("STRING"),
     title            |-> Required("STRING"),
     currency         |-> RequiredOf({"USD", "EUR", "GBP", "INR"}),
     timezone         |-> Required("TIMEZONE"),
     shoot_start      |-> Required("DATE"),
     shoot_end        |-> Required("DATE"),
     reserve_days     |-> Optional("DATE_LIST", None),
     template_version |-> Required("STRING")])

ScenesSheet == Sheet(TRUE, "scene_id", FALSE,
    [scene_id          |-> Required("STRING"),
     number            |-> Required("STRING"),
     slug              |-> Required("STRING"),
     int_ext           |-> RequiredOf({"INT", "EXT"}),
     time_of_day       |-> RequiredOf({"DAY", "NIGHT", "DAWN", "DUSK"}),
     estimated_minutes |-> Required("INT"),
     location_id       |-> Required("STRING"),
     cast_ids          |-> Optional("ID_LIST", None),
     crew_ids          |-> Optional("ID_LIST", None),
     equipment_ids     |-> Optional("ID_LIST", None),
     vfx_plate         |-> Optional("BOOL", FALSE),
     prerequisite_scene_ids |-> Optional("ID_LIST", None)])

PeopleSheet == Sheet(TRUE, "person_id", FALSE,
    [person_id  |-> Required("STRING"),
     name       |-> Required("STRING"),
     role       |-> RequiredOf({"CAST", "CREW"}),
     daily_rate |-> Optional("DECIMAL", 0)])

LocationsSheet == Sheet(TRUE, "location_id", FALSE,
    [location_id          |-> Required("STRING"),
     name                 |-> Required("STRING"),
     day_rate             |-> Optional("DECIMAL", 0),
     permit_start_time    |-> Optional("TIME", None),
     permit_end_time      |-> Optional("TIME", None),
     supports_int_ext     |-> Required("ID_LIST"),
     supports_time_of_day |-> Required("ID_LIST")])

EquipmentSheet == Sheet(TRUE, "equipment_id", FALSE,
    [equipment_id |-> Required("STRING"),
     name         |-> Required("STRING"),
     daily_rate   |-> Optional("DECIMAL", 0)])

AvailabilitySheet == Sheet(FALSE, None, FALSE,
    [subject_type |-> RequiredOf({"PERSON", "EQUIPMENT", "LOCATION"}),
     subject_id   |-> Required("STRING"),
     window_kind  |-> RequiredOf({"UNAVAILABLE", "AVAILABLE", "CLOSED"}),
     from_date    |-> Required("DATE"),
     to_date      |-> Required("DATE")])

ScheduleSheet == Sheet(TRUE, None, FALSE,
    [date          |-> Required("DATE"),
     call_time     |-> Required("TIME"),
     wrap_time     |-> Required("TIME"),
     wrap_next_day |-> Optional("BOOL", None),
     location_id   |-> Required("STRING"),
     scene_ids     |-> Optional("ID_LIST", None),
     unit          |-> Optional("STRING", "MAIN"),
     day_kind      |-> OptionalOf({"SHOOT", "TRAVEL", "COMPANY_MOVE", "HOLD", "RESERVE"})])

WorkbookSheets ==
    [production   |-> ProductionSheet,
     scenes       |-> ScenesSheet,
     people       |-> PeopleSheet,
     locations    |-> LocationsSheet,
     equipment    |-> EquipmentSheet,
     availability |-> AvailabilitySheet,
     schedule     |-> ScheduleSheet]

SheetNames == DOMAIN WorkbookSheets

\* AVAILABILITY_COMBINATIONS
WindowKindOf == [PERSON |-> "UNAVAILABLE", EQUIPMENT |-> "AVAILABLE", LOCATION |-> "CLOSED"]

-----------------------------------------------------------------------------
(* What a person puts into a cell:                                         *)
(*   "blank"    nothing, or spaces                                         *)
(*   "value"    something its column's kind can be read from, as its value *)
(*              (of a list: the ids, or the ISO dates, in its text)        *)
(*   "slashed"  a date like 05/03, as the two dates it can be              *)
(*   "text"     words that are no number, date, time, zone or yes-or-no    *)
(*   "example"  one of the template's own example rows                     *)

BlankCell    == [form |-> "blank", value |-> None]
TypedCell(v) == [form |-> "value", value |-> v]

Lists == {"ID_LIST", "DATE_LIST"}

Cannot == [ok |-> FALSE, value |-> None, ambiguous |-> FALSE]
Can(v) == [ok |-> TRUE, value |-> v, ambiguous |-> FALSE]

\* to_date: a date whose halves are both at most 12 is read the way the zone
\* prefers, and said to be.
Slashed(v, dayFirst) == IF dayFirst THEN v.dayFirst ELSE v.monthFirst

\* coerce_cell
Coerce(cell, column, dayFirst) ==
    CASE cell.form = "blank" ->
            Can(IF column.kind \in Lists THEN <<>> ELSE column.default)
      [] cell.form = "value" ->
            IF column.kind = "ENUM" /\ cell.value \notin column.permitted THEN Cannot
            ELSE Can(cell.value)
      [] cell.form = "slashed" /\ column.kind = "DATE" ->
            [Can(Slashed(cell.value, dayFirst)) EXCEPT !.ambiguous = TRUE]
      [] cell.form = "slashed" /\ column.kind = "DATE_LIST" ->
            [Can(<<Slashed(cell.value, dayFirst)>>) EXCEPT !.ambiguous = TRUE]
      [] cell.form = "text" /\ column.kind = "STRING"  -> Can(cell.value)
      [] cell.form = "text" /\ column.kind = "ID_LIST" -> Can(<<cell.value>>)
      [] OTHER -> Cannot

IsEmpty(kind, value) == IF kind \in Lists THEN value = <<>> ELSE value = None
=============================================================================
