----------------------------- MODULE MCWorkbook -----------------------------
(***************************************************************************)
(* A small production in a workbook, and the workbooks that differ from it *)
(* in at most two places: the slips a person makes, and the legal          *)
(* variations a person may want.                                           *)
(***************************************************************************)
EXTENDS Workbook

Typed(record) == [c \in DOMAIN record |-> TypedCell(record[c])]

RawSheet(s, records) ==
    [headers |-> DOMAIN WorkbookSheets[s].columns, merged |-> {}, hidden |-> FALSE,
     formulas |-> {}, rows |-> [i \in DOMAIN records |-> Typed(records[i])]]

Steady   == FixedZone(India)
American == [FixedZone(-10) EXCEPT !.monthFirst = TRUE]
Odd      == FixedZone(9)
\* The clocks go forward, or back, at 02:00 on the second day.
Spring   == [FixedZone(0) EXCEPT !.forward = 2 * DayLength + 4]
Autumn   == [FixedZone(2) EXCEPT !.back = 2 * DayLength + 4]

SceneRow(id, location, cast, crew, tools, before) ==
    [scene_id |-> id, number |-> id, slug |-> id, int_ext |-> "INT", time_of_day |-> "DAY",
     estimated_minutes |-> 90, location_id |-> location, cast_ids |-> cast, crew_ids |-> crew,
     equipment_ids |-> tools, vfx_plate |-> FALSE, prerequisite_scene_ids |-> before]

LocationRow(id, opens, closes) ==
    [location_id |-> id, name |-> id, day_rate |-> 100, permit_start_time |-> opens,
     permit_end_time |-> closes, supports_int_ext |-> <<"INT">>, supports_time_of_day |-> <<"DAY">>]

Window(type, id, kind, from, to) ==
    [subject_type |-> type, subject_id |-> id, window_kind |-> kind, from_date |-> from, to_date |-> to]

DayRow(date, location, scenes, unit) ==
    [date |-> date, call_time |-> 14, wrap_time |-> 38, location_id |-> location,
     scene_ids |-> scenes, unit |-> unit]

Plain ==
    [production |-> RawSheet("production",
        <<[production_id |-> "film", title |-> "Film", currency |-> "USD", timezone |-> Steady,
           shoot_start |-> 1, shoot_end |-> 3, reserve_days |-> <<3>>, template_version |-> "1"]>>),
     scenes |-> RawSheet("scenes",
        <<SceneRow("s1", "l1", <<"p1">>, <<"p2">>, <<"e1">>, <<>>),
          SceneRow("s2", "l2", <<"p1">>, <<>>, <<>>, <<"s1">>)>>),
     people |-> RawSheet("people",
        <<[person_id |-> "p1", name |-> "Ann", role |-> "CAST", daily_rate |-> 50],
          [person_id |-> "p2", name |-> "Bob", role |-> "CREW"]>>),
     locations |-> RawSheet("locations",
        <<LocationRow("l1", 12, 40), [LocationRow("l2", 0, 0) EXCEPT !.name = "Barn"]>>),
     equipment |-> RawSheet("equipment",
        <<[equipment_id |-> "e1", name |-> "Crane", daily_rate |-> 10]>>),
     availability |-> RawSheet("availability",
        <<Window("PERSON", "p1", "UNAVAILABLE", 3, 3), Window("EQUIPMENT", "e1", "AVAILABLE", 1, 3)>>),
     schedule |-> RawSheet("schedule",
        <<DayRow(1, "l1", <<"s1">>, "MAIN"), DayRow(2, "l2", <<"s2">>, "MAIN"),
          DayRow(3, "l1", <<>>, "MAIN")>>)]

\* A slip: what is done, to which sheet, row and column, and the cell or rows.
Put(s, i, c, cell)  == [do |-> "put", sheet |-> s, row |-> i, column |-> c, with |-> cell]
Value(s, i, c, v)   == Put(s, i, c, TypedCell(v))
Blank(s, i, c)      == Put(s, i, c, BlankCell)
Text(s, i, c, text) == Put(s, i, c, [form |-> "text", value |-> text])
Add(s, record)      == [do |-> "add", sheet |-> s, row |-> 0, column |-> "", with |-> Typed(record)]
NoSheet(s)          == [do |-> "no_sheet", sheet |-> s, row |-> 0, column |-> "", with |-> None]
NoColumn(s, c)      == [do |-> "no_column", sheet |-> s, row |-> 0, column |-> c, with |-> None]
Column2(s, c)       == [do |-> "column", sheet |-> s, row |-> 0, column |-> c, with |-> None]
Merge(s, c, i, j)   == [do |-> "merge", sheet |-> s, row |-> i, column |-> c, with |-> j]
Hide(s)             == [do |-> "hide", sheet |-> s, row |-> 0, column |-> "", with |-> None]
Formula(s, c)       == [do |-> "formula", sheet |-> s, row |-> 0, column |-> c, with |-> None]

Without(f, x) == [y \in DOMAIN f \ {x} |-> f[y]]

After(book, slip) ==
    LET s == slip.sheet
    IN  IF s \notin DOMAIN book \/ slip.row > Len(book[s].rows) THEN book
        ELSE CASE slip.do = "put" ->
                    [book EXCEPT ![s].rows[slip.row] = (slip.column :> slip.with) @@ @]
               [] slip.do = "add"       -> [book EXCEPT ![s].rows = Append(@, slip.with)]
               [] slip.do = "no_sheet"  -> Without(book, s)
               [] slip.do = "no_column" -> [book EXCEPT ![s].headers = @ \ {slip.column}]
               [] slip.do = "column"    -> [book EXCEPT ![s].headers = @ \cup {slip.column}]
               [] slip.do = "merge"     ->
                    [book EXCEPT ![s].merged = @ \cup {[top |-> slip.row, bottom |-> slip.with,
                                                        left |-> slip.column, columns |-> {slip.column}]},
                                 ![s].rows[slip.with] = (slip.column :> BlankCell) @@ @]
               [] slip.do = "hide"      -> [book EXCEPT ![s].hidden = TRUE]
               [] slip.do = "formula"   -> [book EXCEPT ![s].formulas = @ \cup {slip.column}]

Slips == <<
    \* the production
    Value("production", 1, "timezone", American), Value("production", 1, "timezone", Odd),
    Value("production", 1, "timezone", Spring), Value("production", 1, "timezone", Autumn),
    Text("production", 1, "timezone", "IST"), Blank("production", 1, "timezone"),
    Value("production", 1, "shoot_end", 0), Value("production", 1, "shoot_end", 2),
    Value("production", 1, "currency", "GOLD"), Value("production", 1, "template_version", "0"),
    Put("production", 1, "shoot_end", [form |-> "slashed", value |-> [dayFirst |-> 3, monthFirst |-> 2]]),
    Put("production", 1, "reserve_days", [form |-> "slashed", value |-> [dayFirst |-> 3, monthFirst |-> 9]]),
    Value("production", 1, "reserve_days", <<2, 3>>),
    Add("production", [production_id |-> "other"]), Blank("production", 1, "title"),
    \* scenes and people
    Value("scenes", 2, "scene_id", "s1"), Value("scenes", 1, "prerequisite_scene_ids", <<"s2">>),
    Value("scenes", 2, "prerequisite_scene_ids", <<"s2">>), Value("scenes", 2, "cast_ids", <<"p2">>),
    Value("scenes", 2, "crew_ids", <<"p1", "p2">>), Text("scenes", 2, "location_id", "l9"),
    Text("scenes", 1, "estimated_minutes", "long"), Value("scenes", 1, "estimated_minutes", 0),
    Value("scenes", 1, "time_of_day", "NOON"), Blank("scenes", 1, "vfx_plate"),
    Put("scenes", 2, "slug", [form |-> "example", value |-> "EXAMPLE"]),
    Add("scenes", SceneRow("s3", "l2", <<"p1">>, <<>>, <<"e1">>, <<"s2">>)),
    Value("people", 2, "role", "CAST"), Text("people", 1, "role", "extra"),
    Value("people", 1, "daily_rate", -1), Value("people", 2, "person_id", "p1"),
    Add("people", [person_id |-> "p3", name |-> "Cy", role |-> "CREW"]),
    Merge("scenes", "location_id", 1, 2), Hide("scenes"), Formula("scenes", "slug"),
    \* locations and equipment
    Blank("locations", 1, "permit_end_time"), Value("locations", 1, "permit_end_time", 4),
    Blank("locations", 2, "permit_start_time"), Value("locations", 2, "location_id", "l1"),
    Text("locations", 2, "day_rate", "dear"), Blank("locations", 1, "supports_int_ext"),
    Value("equipment", 1, "equipment_id", "e2"),
    \* availability
    Add("availability", Window("LOCATION", "l1", "CLOSED", 2, 2)),
    Add("availability", Window("LOCATION", "l2", "CLOSED", 2, 3)),
    Add("availability", Window("LOCATION", "l1", "CLOSED", 1, 3)),
    Add("availability", Window("PERSON", "p2", "UNAVAILABLE", 1, 2)),
    Add("availability", Window("PERSON", "e1", "UNAVAILABLE", 1, 1)),
    Value("availability", 1, "window_kind", "CLOSED"), Value("availability", 1, "to_date", 2),
    Put("availability", 1, "from_date", [form |-> "slashed", value |-> [dayFirst |-> 3, monthFirst |-> 1]]),
    NoSheet("availability"),
    \* the schedule
    Value("schedule", 2, "date", 9), Value("schedule", 2, "scene_ids", <<"s1", "s2">>),
    Value("schedule", 2, "date", 1), Value("schedule", 1, "unit", "SECOND"),
    Value("schedule", 1, "call_time", 40), Value("schedule", 1, "wrap_next_day", FALSE),
    Value("schedule", 1, "wrap_next_day", TRUE), Value("schedule", 2, "call_time", 5),
    Value("schedule", 2, "call_time", 3), Value("schedule", 2, "wrap_time", 6),
    Value("schedule", 1, "wrap_time", 3), Value("schedule", 3, "day_kind", "HOLD"),
    Value("schedule", 2, "day_kind", "TRAVEL"), Blank("schedule", 1, "call_time"),
    Text("schedule", 2, "wrap_time", "late"), Value("schedule", 3, "scene_ids", <<"s2">>),
    Add("schedule", DayRow(1, "l1", <<"s1">>, "MAIN")),
    Add("schedule", DayRow(1, "l2", <<"s1">>, "SECOND")),
    Add("schedule", [unit |-> "SECOND"]),
    \* the shape of the file
    NoSheet("people"), NoColumn("scenes", "location_id"), NoColumn("schedule", "unit"),
    Column2("people", "phone"), Add("equipment", [equipment_id |-> "e3", name |-> "Dolly"]) >>

File(book) ==
    [bytes |-> 1, magic |-> "zip", name |-> ".xlsx", opens |-> TRUE, xl |-> TRUE,
     entries |-> <<>>, book |-> book]

Entry(unsafe, stored, unpacked) == [unsafe |-> unsafe, stored |-> stored, unpacked |-> unpacked]

\* The same production by other doors.
Doors ==
    LET plain  == File(Plain)
        csv    == [plain EXCEPT !.name = ".zip", !.xl = FALSE]
        merged == [csv EXCEPT !.book = After(Plain, Merge("scenes", "location_id", 1, 2))]
    IN  {plain, csv, merged, File(<<>>)}
          \cup {[plain EXCEPT !.name = "", !.xl = xl, !.opens = opens] : xl, opens \in BOOLEAN}
          \cup {[plain EXCEPT !.magic = magic, !.name = name] :
                    magic \in {"empty", "ole2", "text", "other"}, name \in {".csv", ".xlsx"}}
          \cup {[plain EXCEPT !.bytes = 2 * MaxBytes]}
          \cup {[csv EXCEPT !.entries = entries] : entries \in
                  {<<Entry(FALSE, 1, 1)>>, <<Entry(TRUE, 1, 1)>>, <<Entry(FALSE, 1, 3)>>,
                   <<Entry(FALSE, 0, 3)>>, <<Entry(FALSE, 2, 3), Entry(FALSE, 2, 3)>>,
                   <<Entry(FALSE, 1, 1), Entry(FALSE, 1, 1), Entry(FALSE, 1, 1)>>}}

\* Texts that begin like a formula, and how the export writes them.
MCQuoted == ("+Ann" :> "'+Ann") @@ ("-p1" :> "'-p1") @@ ("-p2" :> "'-p2") @@ ("@2nd" :> "'@2nd")

\* Two such ids in one list of a scene's cast.
Listed ==
    [Plain EXCEPT !.availability.rows = <<>>,
        !.people.rows = <<Typed([person_id |-> "-p1", name |-> "Ann", role |-> "CAST", daily_rate |-> 50]),
                          Typed([person_id |-> "-p2", name |-> "Bob", role |-> "CAST", daily_rate |-> 50])>>,
        !.scenes.rows = <<Typed(SceneRow("s1", "l1", <<"-p1", "-p2">>, <<>>, <<>>, <<>>))>>,
        !.schedule.rows = <<Typed(DayRow(1, "l1", <<"s1">>, "MAIN"))>>]

\* A name, a unit, and an id that is referred to by itself or after another.
Marked ==
    {After(Plain, Value("people", 1, "name", "+Ann")), After(Plain, Value("schedule", 2, "unit", "@2nd")),
     After(After(Plain, Value("people", 2, "person_id", "-p2")), Value("scenes", 1, "crew_ids", <<"-p2">>)),
     Listed}

MCUploads ==
    Doors \cup {File(After(After(Plain, Slips[p]), Slips[q])) : p, q \in DOMAIN Slips}
          \cup {File(book) : book \in Marked}

MCUnits == <<"'@2nd", "@2nd", "MAIN", "SECOND">>
=============================================================================
