--------------------------- MODULE Workbook_proofs ---------------------------
(***************************************************************************)
(* Proofs about the import of a workbook, for any files whatever, any      *)
(* units and any limits of size.                                           *)
(***************************************************************************)
EXTENDS Workbook, FiniteOrders

(***************************************************************************)
(* The workbook's declaration, as far as the proofs need it.               *)
(***************************************************************************)
LEMMA SheetsAre ==
    /\ SheetNames = {"production", "scenes", "people", "locations", "equipment", "availability",
                     "schedule"}
    /\ WorkbookSheets["production"] = ProductionSheet
    /\ WorkbookSheets["scenes"] = ScenesSheet
    /\ WorkbookSheets["people"] = PeopleSheet
    /\ WorkbookSheets["locations"] = LocationsSheet
    /\ WorkbookSheets["equipment"] = EquipmentSheet
    /\ WorkbookSheets["availability"] = AvailabilitySheet
    /\ WorkbookSheets["schedule"] = ScheduleSheet
BY DEF SheetNames, WorkbookSheets

LEMMA KeysAre ==
    /\ WorkbookSheets["scenes"].key = "scene_id" /\ WorkbookSheets["people"].key = "person_id"
    /\ WorkbookSheets["locations"].key = "location_id"
    /\ WorkbookSheets["equipment"].key = "equipment_id"
BY SheetsAre DEF ScenesSheet, PeopleSheet, LocationsSheet, EquipmentSheet, Sheet

LEMMA NeededSheets ==
    \A s \in SheetNames \ {"availability"} : WorkbookSheets[s].required = TRUE
BY SheetsAre DEF ProductionSheet, ScenesSheet, PeopleSheet, LocationsSheet, EquipmentSheet,
                 ScheduleSheet, Sheet

\* The columns that are keys, and those with values that are reckoned with.
LEMMA KeyColumns ==
    /\ WorkbookSheets["scenes"].columns["scene_id"] = Required("STRING")
    /\ WorkbookSheets["people"].columns["person_id"] = Required("STRING")
    /\ WorkbookSheets["locations"].columns["location_id"] = Required("STRING")
    /\ WorkbookSheets["equipment"].columns["equipment_id"] = Required("STRING")
    /\ "scene_id" \in DOMAIN WorkbookSheets["scenes"].columns
    /\ "person_id" \in DOMAIN WorkbookSheets["people"].columns
    /\ "location_id" \in DOMAIN WorkbookSheets["locations"].columns
    /\ "equipment_id" \in DOMAIN WorkbookSheets["equipment"].columns
BY SheetsAre DEF ScenesSheet, PeopleSheet, LocationsSheet, EquipmentSheet, Sheet

LEMMA ProductionColumns ==
    LET columns == WorkbookSheets["production"].columns
    IN  /\ {"timezone", "shoot_start", "shoot_end"} \subseteq DOMAIN columns
        /\ columns["timezone"] = Required("TIMEZONE")
        /\ columns["shoot_start"] = Required("DATE") /\ columns["shoot_end"] = Required("DATE")
BY SheetsAre DEF ProductionSheet, Sheet

LEMMA PeopleColumns ==
    LET columns == WorkbookSheets["people"].columns
    IN  "role" \in DOMAIN columns /\ columns["role"] = RequiredOf({"CAST", "CREW"})
BY SheetsAre DEF PeopleSheet, Sheet

LEMMA LocationsColumns ==
    LET columns == WorkbookSheets["locations"].columns
    IN  /\ {"permit_start_time", "permit_end_time"} \subseteq DOMAIN columns
        /\ columns["permit_start_time"] = Optional("TIME", None)
        /\ columns["permit_end_time"] = Optional("TIME", None)
BY SheetsAre DEF LocationsSheet, Sheet

LEMMA AvailabilityColumns ==
    LET columns == WorkbookSheets["availability"].columns
    IN  /\ {"subject_type", "from_date", "to_date"} \subseteq DOMAIN columns
        /\ columns["subject_type"] = RequiredOf({"PERSON", "EQUIPMENT", "LOCATION"})
        /\ columns["from_date"] = Required("DATE") /\ columns["to_date"] = Required("DATE")
BY SheetsAre DEF AvailabilitySheet, Sheet

LEMMA ScheduleColumns ==
    LET columns == WorkbookSheets["schedule"].columns
    IN  /\ {"date", "call_time", "wrap_time", "unit"} \subseteq DOMAIN columns
        /\ columns["date"] = Required("DATE")
        /\ columns["call_time"] = Required("TIME") /\ columns["wrap_time"] = Required("TIME")
        /\ columns["unit"] = Optional("STRING", "MAIN")
BY SheetsAre DEF ScheduleSheet, Sheet

(***************************************************************************)
(* Reading a cell.                                                         *)
(***************************************************************************)
Accepted(cell, column, dayFirst) ==
    LET got == Coerce(cell, column, dayFirst)
    IN  got.ok /\ (column.required => ~IsEmpty(column.kind, got.value))

\* What is blank, or written as a value, is the only text a date can come from.
LEMMA DateRead ==
    ASSUME NEW cell, NEW dayFirst, CellFits("DATE", cell), Accepted(cell, Required("DATE"), dayFirst)
    PROVE  Coerce(cell, Required("DATE"), dayFirst).value \in Int
BY NoneAssumption
   DEF Accepted, Coerce, CellFits, Required, Column, Can, Cannot, Lists, IsEmpty, Slashed

LEMMA TimeRead ==
    ASSUME NEW cell, NEW dayFirst, CellFits("TIME", cell), Accepted(cell, Required("TIME"), dayFirst)
    PROVE  Coerce(cell, Required("TIME"), dayFirst).value \in 0 .. DayLength - 1
BY NoneAssumption
   DEF Accepted, Coerce, CellFits, Required, Column, Can, Cannot, Lists, IsEmpty

LEMMA OptionalTimeRead ==
    ASSUME NEW cell, NEW dayFirst, CellFits("TIME", cell), Accepted(cell, Optional("TIME", None), dayFirst)
    PROVE  Coerce(cell, Optional("TIME", None), dayFirst).value \in 0 .. DayLength - 1 \cup {None}
BY DEF Accepted, Coerce, CellFits, Optional, Column, Can, Cannot, Lists

LEMMA ZoneRead ==
    ASSUME NEW cell, NEW dayFirst, CellFits("TIMEZONE", cell),
           Accepted(cell, Required("TIMEZONE"), dayFirst)
    PROVE  LET zone == Coerce(cell, Required("TIMEZONE"), dayFirst).value
           IN  zone.offset \in Int /\ {zone.forward, zone.back} \subseteq Int \cup {None}
BY DEF Accepted, Coerce, CellFits, Required, Column, Can, Cannot, Lists, IsEmpty

LEMMA NameRead ==
    ASSUME NEW cell, NEW dayFirst, Accepted(cell, Required("STRING"), dayFirst)
    PROVE  Coerce(cell, Required("STRING"), dayFirst).value = cell.value
BY DEF Accepted, Coerce, Required, Column, Can, Cannot, Lists, IsEmpty

LEMMA ChoiceRead ==
    ASSUME NEW cell, NEW dayFirst, NEW choices, Accepted(cell, RequiredOf(choices), dayFirst)
    PROVE  Coerce(cell, RequiredOf(choices), dayFirst).value \in choices
BY DEF Accepted, Coerce, RequiredOf, Column, Can, Cannot, Lists, IsEmpty

LEMMA UnitRead ==
    ASSUME NEW cell, NEW dayFirst, NamesUnit(cell), Accepted(cell, Optional("STRING", "MAIN"), dayFirst)
    PROVE  Coerce(cell, Optional("STRING", "MAIN"), dayFirst).value \in ToSet(UnitNames)
BY UnitsAssumption DEF NamesUnit, Accepted, Coerce, Optional, Column, Can, Cannot, Lists

(***************************************************************************)
(* The inductive invariant.                                                *)
(***************************************************************************)
\* One of these phases is next, or the parse went through all of them.
Reached(phases) == phase \in phases \/ state # NoState

AfterSemantics  == {"build", "warnings"}
AfterReferences == {"production_row", "semantic"} \cup AfterSemantics
AfterIdentity   == {"reference"} \cup AfterReferences
AfterRows       == {"budget", "identity"} \cup AfterIdentity
AfterProduction == {"rows"} \cup AfterRows
AfterSheets     == {"production"} \cup AfterProduction

\* No row of the sheet was refused.
CleanTable(s) ==
    \E dayFirst \in BOOLEAN :
        /\ tables[s] = ReadRows(s, dayFirst)
        /\ \A i \in DataRows(s) : FaultyCells(s, i, dayFirst) = {}

SheetsFit == \A s \in DOMAIN sheets : s \in SheetNames /\ SheetFits(s, sheets[s])

SheetErrors == MissingSheets \cup MissingColumns \cup OverlongSheets

SheetsThere == Reached(AfterSheets) => SheetErrors = {}

ProductionClean ==
    /\ "production" \in DOMAIN tables
    /\ Cardinality(DataRows("production")) = 1
    /\ CleanTable("production")

ProductionRead == Reached(AfterProduction) => ProductionClean

TablesClean ==
    /\ DOMAIN tables = SheetNames
    /\ \A s \in SheetNames : IF s \in DOMAIN sheets THEN CleanTable(s) ELSE tables[s] = <<>>

RowsRead == Reached(AfterRows) => TablesClean

IdentityHolds == Reached(AfterIdentity) => RepeatedKeys = {}

ReferenceErrors == DanglingRefs \cup WrongRoles \cup MisfitWindows

ReferencesHold == Reached(AfterReferences) => ReferenceErrors = {}

SemanticErrors ==
    PrerequisiteLoops \cup DaysOutside \cup ScenesTwice \cup ImpossibleTimes \cup ReversedWindows

SemanticsHold == Reached(AfterSemantics) => SemanticErrors = {}

BuiltFromTables ==
    state # NoState =>
        /\ phase \in {"warnings", "done"}
        /\ errors = {}
        /\ state = NewState
        /\ BrokenRecords(NewState) = {}

WorkbookInv ==
    /\ TypeOK
    /\ UploadFits(upload)
    /\ SheetsFit
    /\ SheetsThere
    /\ ProductionRead
    /\ RowsRead
    /\ IdentityHolds
    /\ ReferencesHold
    /\ SemanticsHold
    /\ BuiltFromTables
    /\ NoCascade

(***************************************************************************)
(* The tables.                                                             *)
(***************************************************************************)
LEMMA CellRead ==
    ASSUME NEW s, NEW i, NEW dayFirst, FaultyCells(s, i, dayFirst) = {},
           NEW c \in DOMAIN WorkbookSheets[s].columns
    PROVE  Accepted(Cell(sheets[s].rows[i], c), WorkbookSheets[s].columns[c], dayFirst)
<1> DEFINE columns == WorkbookSheets[s].columns
           got(d) == Coerce(Cell(sheets[s].rows[i], d), columns[d], dayFirst)
           bad == {d \in DOMAIN columns :
                     ~got(d).ok \/ (columns[d].required /\ IsEmpty(columns[d].kind, got(d).value))}
           issue(d) == Issue(IF ~got(d).ok /\ columns[d].kind = "ENUM" THEN "E004" ELSE "E003", s, i, d)
<1>1. {issue(d) : d \in bad} = {}
    BY DEF FaultyCells
<1> HIDE DEF issue
<1>2. c \notin bad
    BY <1>1
<1> HIDE DEF got
<1>3. got(c).ok /\ (columns[c].required => ~IsEmpty(columns[c].kind, got(c).value))
    BY <1>2
<1> QED
    BY <1>3 DEF Accepted, got

LEMMA CleanRows ==
    ASSUME NEW s, CleanTable(s)
    PROVE  /\ DOMAIN tables[s] = DataRows(s)
           /\ \E dayFirst \in BOOLEAN :
                 \A i \in DataRows(s), c \in DOMAIN WorkbookSheets[s].columns :
                     LET cell   == Cell(sheets[s].rows[i], c)
                         column == WorkbookSheets[s].columns[c]
                     IN  /\ Accepted(cell, column, dayFirst)
                         /\ tables[s][i][c] = Coerce(cell, column, dayFirst).value
           /\ \A i \in DataRows(s) : DOMAIN tables[s][i] = DOMAIN WorkbookSheets[s].columns
<1>1. PICK dayFirst \in BOOLEAN :
          /\ tables[s] = ReadRows(s, dayFirst)
          /\ \A i \in DataRows(s) : FaultyCells(s, i, dayFirst) = {}
    BY DEF CleanTable
<1>2. {i \in DataRows(s) : FaultyCells(s, i, dayFirst) = {}} = DataRows(s)
    BY <1>1
<1> DEFINE value(i, c) ==
        Coerce(Cell(sheets[s].rows[i], c), WorkbookSheets[s].columns[c], dayFirst).value
<1>3. tables[s] = [i \in DataRows(s) |-> [c \in DOMAIN WorkbookSheets[s].columns |-> value(i, c)]]
    BY <1>1, <1>2 DEF ReadRows
<1>4. \A i \in DataRows(s), c \in DOMAIN WorkbookSheets[s].columns :
          Accepted(Cell(sheets[s].rows[i], c), WorkbookSheets[s].columns[c], dayFirst)
    BY <1>1, CellRead
<1> HIDE DEF value
<1>5. /\ DOMAIN tables[s] = DataRows(s)
      /\ \A i \in DataRows(s) : DOMAIN tables[s][i] = DOMAIN WorkbookSheets[s].columns
      /\ \A i \in DataRows(s), c \in DOMAIN WorkbookSheets[s].columns : tables[s][i][c] = value(i, c)
    BY <1>3
<1> QED
    BY <1>4, <1>5 DEF value

\* The rows of a table are numbered rows of its sheet.
LEMMA RowsFinite ==
    ASSUME NEW s \in DOMAIN sheets, SheetFits(s, sheets[s])
    PROVE  DataRows(s) \subseteq Nat /\ IsFiniteSet(DataRows(s))
<1>1. DataRows(s) \subseteq 1 .. Len(sheets[s].rows) /\ Len(sheets[s].rows) \in Nat
    BY DEF DataRows, SheetFits
<1>2. IsFiniteSet(1 .. Len(sheets[s].rows))
    BY <1>1, FS_Interval
<1> QED
    BY <1>1, <1>2, FS_Subset

\* What each kind of row holds.
ProductionFits(v) ==
    /\ v.shoot_start \in Int /\ v.shoot_end \in Int
    /\ v.timezone.offset \in Int
    /\ {v.timezone.forward, v.timezone.back} \subseteq Int \cup {None}

PersonFits(v) == v.role \in {"CAST", "CREW"}

LocationFits(v) ==
    /\ v.permit_start_time \in 0 .. DayLength - 1 \cup {None}
    /\ v.permit_end_time \in 0 .. DayLength - 1 \cup {None}

WindowFits(v) ==
    /\ v.subject_type \in {"PERSON", "EQUIPMENT", "LOCATION"}
    /\ v.from_date \in Int /\ v.to_date \in Int

DayFits(v) ==
    /\ v.date \in Int
    /\ v.call_time \in 0 .. DayLength - 1 /\ v.wrap_time \in 0 .. DayLength - 1
    /\ v.unit \in ToSet(UnitNames)

LEMMA CellsFit ==
    ASSUME NEW s \in DOMAIN sheets, SheetFits(s, sheets[s]), NEW i \in DataRows(s)
    PROVE  /\ \A c \in DOMAIN WorkbookSheets[s].columns :
                 CellFits(WorkbookSheets[s].columns[c].kind, Cell(sheets[s].rows[i], c))
           /\ s = "schedule" => NamesUnit(Cell(sheets[s].rows[i], "unit"))
BY DEF SheetFits, DataRows

LEMMA ProductionRowFits ==
    ASSUME "production" \in DOMAIN sheets, SheetFits("production", sheets["production"]),
           CleanTable("production"), NEW i \in DOMAIN tables["production"]
    PROVE  ProductionFits(tables["production"][i])
<1> DEFINE s == "production"
           columns == WorkbookSheets[s].columns
           cell(c) == Cell(sheets[s].rows[i], c)
<1>1. i \in DataRows(s)
    BY CleanRows
<1>2. PICK dayFirst \in BOOLEAN : \A c \in DOMAIN columns :
          /\ Accepted(cell(c), columns[c], dayFirst)
          /\ tables[s][i][c] = Coerce(cell(c), columns[c], dayFirst).value
    BY <1>1, CleanRows
<1>3. \A c \in DOMAIN columns : CellFits(columns[c].kind, cell(c))
    BY <1>1, CellsFit
<1> HIDE DEF columns, cell, s
<1>4. /\ {"timezone", "shoot_start", "shoot_end"} \subseteq DOMAIN columns
      /\ columns["timezone"] = Required("TIMEZONE")
      /\ columns["shoot_start"] = Required("DATE") /\ columns["shoot_end"] = Required("DATE")
    BY ProductionColumns DEF columns, s
<1>5. Required("DATE").kind = "DATE" /\ Required("TIMEZONE").kind = "TIMEZONE"
    BY DEF Required, Column
<1>6. /\ tables[s][i]["shoot_start"] \in Int /\ tables[s][i]["shoot_end"] \in Int
    BY <1>2, <1>3, <1>4, <1>5, DateRead
<1>7. LET zone == tables[s][i]["timezone"]
      IN  zone.offset \in Int /\ {zone.forward, zone.back} \subseteq Int \cup {None}
    BY <1>2, <1>3, <1>4, <1>5, ZoneRead
<1> QED
    BY <1>6, <1>7 DEF ProductionFits, s

LEMMA PersonRowFits ==
    ASSUME CleanTable("people"), NEW i \in DOMAIN tables["people"]
    PROVE  PersonFits(tables["people"][i])
<1> DEFINE s == "people"
           columns == WorkbookSheets[s].columns
           cell(c) == Cell(sheets[s].rows[i], c)
<1>1. i \in DataRows(s)
    BY CleanRows
<1>2. PICK dayFirst \in BOOLEAN : \A c \in DOMAIN columns :
          /\ Accepted(cell(c), columns[c], dayFirst)
          /\ tables[s][i][c] = Coerce(cell(c), columns[c], dayFirst).value
    BY <1>1, CleanRows
<1> HIDE DEF columns, cell, s
<1>3. "role" \in DOMAIN columns /\ columns["role"] = RequiredOf({"CAST", "CREW"})
    BY PeopleColumns DEF columns, s
<1>4. tables[s][i]["role"] \in {"CAST", "CREW"}
    BY <1>2, <1>3, ChoiceRead
<1> QED
    BY <1>4 DEF PersonFits, s

LEMMA LocationRowFits ==
    ASSUME "locations" \in DOMAIN sheets, SheetFits("locations", sheets["locations"]),
           CleanTable("locations"), NEW i \in DOMAIN tables["locations"]
    PROVE  LocationFits(tables["locations"][i])
<1> DEFINE s == "locations"
           columns == WorkbookSheets[s].columns
           cell(c) == Cell(sheets[s].rows[i], c)
<1>1. i \in DataRows(s)
    BY CleanRows
<1>2. PICK dayFirst \in BOOLEAN : \A c \in DOMAIN columns :
          /\ Accepted(cell(c), columns[c], dayFirst)
          /\ tables[s][i][c] = Coerce(cell(c), columns[c], dayFirst).value
    BY <1>1, CleanRows
<1>3. \A c \in DOMAIN columns : CellFits(columns[c].kind, cell(c))
    BY <1>1, CellsFit
<1> HIDE DEF columns, cell, s
<1>4. /\ {"permit_start_time", "permit_end_time"} \subseteq DOMAIN columns
      /\ columns["permit_start_time"] = Optional("TIME", None)
      /\ columns["permit_end_time"] = Optional("TIME", None)
    BY LocationsColumns DEF columns, s
<1>5. Optional("TIME", None).kind = "TIME"
    BY DEF Optional, Column
<1>6. /\ tables[s][i]["permit_start_time"] \in 0 .. DayLength - 1 \cup {None}
      /\ tables[s][i]["permit_end_time"] \in 0 .. DayLength - 1 \cup {None}
    BY <1>2, <1>3, <1>4, <1>5, OptionalTimeRead
<1> QED
    BY <1>6 DEF LocationFits, s

LEMMA WindowRowFits ==
    ASSUME "availability" \in DOMAIN sheets, SheetFits("availability", sheets["availability"]),
           CleanTable("availability"), NEW i \in DOMAIN tables["availability"]
    PROVE  WindowFits(tables["availability"][i])
<1> DEFINE s == "availability"
           columns == WorkbookSheets[s].columns
           cell(c) == Cell(sheets[s].rows[i], c)
<1>1. i \in DataRows(s)
    BY CleanRows
<1>2. PICK dayFirst \in BOOLEAN : \A c \in DOMAIN columns :
          /\ Accepted(cell(c), columns[c], dayFirst)
          /\ tables[s][i][c] = Coerce(cell(c), columns[c], dayFirst).value
    BY <1>1, CleanRows
<1>3. \A c \in DOMAIN columns : CellFits(columns[c].kind, cell(c))
    BY <1>1, CellsFit
<1> HIDE DEF columns, cell, s
<1>4. /\ {"subject_type", "from_date", "to_date"} \subseteq DOMAIN columns
      /\ columns["subject_type"] = RequiredOf({"PERSON", "EQUIPMENT", "LOCATION"})
      /\ columns["from_date"] = Required("DATE") /\ columns["to_date"] = Required("DATE")
    BY AvailabilityColumns DEF columns, s
<1>5. Required("DATE").kind = "DATE"
    BY DEF Required, Column
<1>6. /\ tables[s][i]["from_date"] \in Int /\ tables[s][i]["to_date"] \in Int
    BY <1>2, <1>3, <1>4, <1>5, DateRead
<1>7. tables[s][i]["subject_type"] \in {"PERSON", "EQUIPMENT", "LOCATION"}
    BY <1>2, <1>4, ChoiceRead
<1> QED
    BY <1>6, <1>7 DEF WindowFits, s

LEMMA DayRowFits ==
    ASSUME "schedule" \in DOMAIN sheets, SheetFits("schedule", sheets["schedule"]),
           CleanTable("schedule"), NEW i \in DOMAIN tables["schedule"]
    PROVE  DayFits(tables["schedule"][i])
<1> DEFINE s == "schedule"
           columns == WorkbookSheets[s].columns
           cell(c) == Cell(sheets[s].rows[i], c)
<1>1. i \in DataRows(s)
    BY CleanRows
<1>2. PICK dayFirst \in BOOLEAN : \A c \in DOMAIN columns :
          /\ Accepted(cell(c), columns[c], dayFirst)
          /\ tables[s][i][c] = Coerce(cell(c), columns[c], dayFirst).value
    BY <1>1, CleanRows
<1>3. (\A c \in DOMAIN columns : CellFits(columns[c].kind, cell(c))) /\ NamesUnit(cell("unit"))
    BY <1>1, CellsFit
<1> HIDE DEF columns, cell, s
<1>4. /\ {"date", "call_time", "wrap_time", "unit"} \subseteq DOMAIN columns
      /\ columns["date"] = Required("DATE")
      /\ columns["call_time"] = Required("TIME") /\ columns["wrap_time"] = Required("TIME")
      /\ columns["unit"] = Optional("STRING", "MAIN")
    BY ScheduleColumns DEF columns, s
<1>5. Required("DATE").kind = "DATE" /\ Required("TIME").kind = "TIME"
    BY DEF Required, Column
<1>6. tables[s][i]["date"] \in Int
    BY <1>2, <1>3, <1>4, <1>5, DateRead
<1>7. /\ tables[s][i]["call_time"] \in 0 .. DayLength - 1
      /\ tables[s][i]["wrap_time"] \in 0 .. DayLength - 1
    BY <1>2, <1>3, <1>4, <1>5, TimeRead
<1>8. tables[s][i]["unit"] \in ToSet(UnitNames)
    BY <1>2, <1>3, <1>4, UnitRead
<1> QED
    BY <1>6, <1>7, <1>8 DEF DayFits, s

\* All tables once they are read: a sheet that must be there is, and no row of
\* any was refused.
LEMMA TablesThere ==
    ASSUME SheetsFit, SheetsThere, RowsRead, Reached(AfterRows)
    PROVE  /\ DOMAIN tables = SheetNames
           /\ \A s \in SheetNames \ {"availability"} :
                 s \in DOMAIN sheets /\ SheetFits(s, sheets[s]) /\ CleanTable(s)
           /\ "availability" \in DOMAIN sheets =>
                 SheetFits("availability", sheets["availability"]) /\ CleanTable("availability")
           /\ "availability" \notin DOMAIN sheets => tables["availability"] = <<>>
           /\ \A s \in SheetNames : IsFiniteSet(DOMAIN tables[s]) /\ DOMAIN tables[s] \subseteq Nat
<1>1. Reached(AfterSheets)
    BY DEF Reached, AfterSheets, AfterProduction, AfterRows
<1>2. \A s \in SheetNames : WorkbookSheets[s].required => s \in DOMAIN sheets
    BY <1>1 DEF SheetsThere, SheetErrors, MissingSheets
<1>3. \A s \in SheetNames \ {"availability"} : s \in DOMAIN sheets
    BY <1>2, NeededSheets
<1>4. /\ DOMAIN tables = SheetNames
      /\ \A s \in SheetNames : IF s \in DOMAIN sheets THEN CleanTable(s) ELSE tables[s] = <<>>
    BY DEF RowsRead, TablesClean
<1>5. \A s \in SheetNames \cap DOMAIN sheets :
          /\ SheetFits(s, sheets[s]) /\ CleanTable(s)
          /\ IsFiniteSet(DOMAIN tables[s]) /\ DOMAIN tables[s] \subseteq Nat
    BY <1>4, CleanRows, RowsFinite DEF SheetsFit
<1>6. "availability" \in SheetNames
    BY SheetsAre
<1>7. DOMAIN <<>> = {}
    OBVIOUS
<1>8. \A s \in SheetNames \ DOMAIN sheets :
          IsFiniteSet(DOMAIN tables[s]) /\ DOMAIN tables[s] \subseteq Nat
    BY <1>4, <1>7, FS_EmptySet
<1> QED
    BY <1>3, <1>4, <1>5, <1>6, <1>8

LEMMA RowsFit ==
    ASSUME SheetsFit, SheetsThere, RowsRead, Reached(AfterRows)
    PROVE  /\ \A i \in DOMAIN tables["production"] : ProductionFits(tables["production"][i])
           /\ \A i \in DOMAIN tables["people"] : PersonFits(tables["people"][i])
           /\ \A i \in DOMAIN tables["locations"] : LocationFits(tables["locations"][i])
           /\ \A i \in DOMAIN tables["availability"] : WindowFits(tables["availability"][i])
           /\ \A i \in DOMAIN tables["schedule"] : DayFits(tables["schedule"][i])
<1>1. {"production", "people", "locations", "schedule"} \subseteq SheetNames \ {"availability"}
    BY SheetsAre
<1>2. \A i \in DOMAIN tables["production"] : ProductionFits(tables["production"][i])
    BY <1>1, TablesThere, ProductionRowFits
<1>3. \A i \in DOMAIN tables["people"] : PersonFits(tables["people"][i])
    BY <1>1, TablesThere, PersonRowFits
<1>4. \A i \in DOMAIN tables["locations"] : LocationFits(tables["locations"][i])
    BY <1>1, TablesThere, LocationRowFits
<1>5. \A i \in DOMAIN tables["schedule"] : DayFits(tables["schedule"][i])
    BY <1>1, TablesThere, DayRowFits
<1>6. ASSUME NEW i \in DOMAIN tables["availability"] PROVE WindowFits(tables["availability"][i])
  <2>1. DOMAIN <<>> = {}
    OBVIOUS
  <2>2. "availability" \in DOMAIN sheets
    BY <1>6, <2>1, TablesThere
  <2> QED
    BY <1>6, <2>2, TablesThere, WindowRowFits
<1> QED
    BY <1>2, <1>3, <1>4, <1>5, <1>6

\* The production is one row, and its zone and dates can be reckoned with.
LEMMA ProductionIs ==
    ASSUME SheetsFit, SheetsThere, RowsRead, Reached(AfterRows), ProductionRead
    PROVE  ProductionFits(Production)
<1>1. Reached(AfterProduction)
    BY DEF Reached, AfterProduction
<1>2. DOMAIN tables["production"] = DataRows("production") /\ Cardinality(DataRows("production")) = 1
    BY <1>1, CleanRows DEF ProductionRead, ProductionClean
<1>3. DOMAIN tables["production"] # {}
    BY <1>2, FS_EmptySet
<1>4. (CHOOSE i \in DOMAIN tables["production"] : TRUE) \in DOMAIN tables["production"]
    BY <1>3
<1> QED
    BY <1>4, RowsFit DEF Production

\* A key is in one row.
LEMMA KeysDiffer ==
    ASSUME NEW s \in SheetNames, WorkbookSheets[s].key # None, RepeatedKeys = {},
           DOMAIN tables[s] \subseteq Nat,
           NEW i \in DOMAIN tables[s], NEW j \in DOMAIN tables[s],
           tables[s][i][WorkbookSheets[s].key] = tables[s][j][WorkbookSheets[s].key]
    PROVE  i = j
<1> DEFINE key == WorkbookSheets[s].key
           repeated == {n \in DOMAIN tables[s] :
                          \E m \in DOMAIN tables[s] : m < n /\ tables[s][m][key] = tables[s][n][key]}
<1>1. {Issue("E005", s, n, key) : n \in repeated} = {}
    BY DEF RepeatedKeys
<1> HIDE DEF key
<1>2. ~(i < j) /\ ~(j < i)
    BY <1>1 DEF key
<1>3. i \in Nat /\ j \in Nat
    OBVIOUS
<1> QED
    BY <1>2, <1>3

(***************************************************************************)
(* What the state holds.                                                   *)
(***************************************************************************)
LEMMA NewStateIs ==
    /\ NewState # NoState
    /\ NewState.scenes = Records("scenes") /\ NewState.people = People
    /\ NewState.locations = Locations /\ NewState.equipment = Equipment /\ NewState.days = Days
    /\ NewState.production.shoot_start = Production.shoot_start
    /\ NewState.production.shoot_end = Production.shoot_end
<1>1. DOMAIN <<>> = {} /\ DOMAIN NewState # {}
    BY DEF NewState
<1> QED
    BY <1>1 DEF NewState, NoState

\* A record for every key.
LEMMA RecordsCounted ==
    ASSUME NEW s \in {"scenes", "people", "locations", "equipment"}, RepeatedKeys = {},
           IsFiniteSet(DOMAIN tables[s]), DOMAIN tables[s] \subseteq Nat,
           NEW f, \A i \in DOMAIN tables[s], j \in DOMAIN tables[s] :
                     f[i] = f[j] =>
                        tables[s][i][WorkbookSheets[s].key] = tables[s][j][WorkbookSheets[s].key]
    PROVE  Cardinality({f[i] : i \in DOMAIN tables[s]}) = Cardinality(DOMAIN tables[s])
<1>1. s \in SheetNames /\ WorkbookSheets[s].key # None
    BY SheetsAre, KeysAre, NoneAssumption
<1>2. \A i, j \in DOMAIN tables[s] : f[i] = f[j] => i = j
    BY <1>1, KeysDiffer
<1> QED
    BY <1>2, ImageCounts

LEMMA DaysCounted ==
    ASSUME IsFiniteSet(DOMAIN tables["schedule"])
    PROVE  Len(Days) = Cardinality(DOMAIN tables["schedule"])
<1>1. Cardinality(DOMAIN tables["schedule"]) \in Nat
    BY FS_CardinalityType
<1> DEFINE n == Cardinality(DOMAIN tables["schedule"])
           day(k) == ShootingDay(tables["schedule"][
                CHOOSE i \in DOMAIN tables["schedule"] :
                    Cardinality({j \in DOMAIN tables["schedule"] : Precedes(j, i)}) = k - 1])
<1>2. Days = [k \in 1 .. n |-> day(k)]
    BY DEF Days
<1> HIDE DEF n, day
<1>3. n \in Nat
    BY <1>1 DEF n
<1>4. Len([k \in 1 .. n |-> day(k)]) = n
    BY <1>3
<1> QED
    BY <1>2, <1>4 DEF n

LEMMA CountsAgree ==
    ASSUME SheetsFit, SheetsThere, RowsRead, IdentityHolds, BuiltFromTables
    PROVE  NothingLost
<1> SUFFICES ASSUME state # NoState PROVE NothingLost
    BY DEF NothingLost
<1>1. Reached(AfterRows) /\ RepeatedKeys = {} /\ state = NewState
    BY DEF Reached, IdentityHolds, BuiltFromTables
<1> USE <1>1
<1>2. \A s : FilledIn(s) = DataRows(s)
    BY DEF FilledIn, DataRows
<1>3. {"scenes", "people", "locations", "equipment", "schedule"} \subseteq SheetNames \ {"availability"}
    BY SheetsAre
<1>4. \A s \in {"scenes", "people", "locations", "equipment", "schedule"} :
          /\ DOMAIN tables[s] = FilledIn(s)
          /\ IsFiniteSet(DOMAIN tables[s]) /\ DOMAIN tables[s] \subseteq Nat
    BY <1>2, <1>3, TablesThere, CleanRows
<1>5. "availability" \in DOMAIN sheets => DOMAIN tables["availability"] = FilledIn("availability")
    BY <1>2, TablesThere, CleanRows
<1>6. Cardinality(Records("scenes")) = Cardinality(DOMAIN tables["scenes"])
  <2> DEFINE f == tables["scenes"]
  <2>1. Records("scenes") = {f[i] : i \in DOMAIN tables["scenes"]}
    BY DEF Records
  <2> QED
    BY <1>4, <2>1, RecordsCounted
<1>7. Cardinality(People) = Cardinality(DOMAIN tables["people"])
  <2> DEFINE t == tables["people"]
             f == [i \in DOMAIN t |->
                     [id |-> t[i].person_id, name |-> t[i].name, role |-> t[i].role,
                      daily_rate |-> t[i].daily_rate,
                      unavailable_windows |-> WindowsOf(t[i].person_id, "UNAVAILABLE")]]
  <2>1. People = {f[i] : i \in DOMAIN t}
    BY DEF People, Records
  <2>2. \A i \in DOMAIN t : f[i].id = t[i]["person_id"]
    OBVIOUS
  <2> HIDE DEF f
  <2>3. \A i \in DOMAIN t, j \in DOMAIN t : f[i] = f[j] => t[i]["person_id"] = t[j]["person_id"]
    BY <2>2
  <2>4. \A i \in DOMAIN t, j \in DOMAIN t :
            f[i] = f[j] => t[i][WorkbookSheets["people"].key] = t[j][WorkbookSheets["people"].key]
    BY <2>3, KeysAre
  <2>5. Cardinality({f[i] : i \in DOMAIN t}) = Cardinality(DOMAIN t)
    BY <1>4, <2>4, RecordsCounted
  <2> QED
    BY <2>1, <2>5
<1>8. Cardinality(Locations) = Cardinality(DOMAIN tables["locations"])
  <2> DEFINE t == tables["locations"]
             f == [i \in DOMAIN t |->
                     [id |-> t[i].location_id, name |-> t[i].name, day_rate |-> t[i].day_rate,
                      permit_windows |-> PermitWindows(t[i]),
                      supports_int_ext |-> t[i].supports_int_ext,
                      supports_time_of_day |-> t[i].supports_time_of_day]]
  <2>1. Locations = {f[i] : i \in DOMAIN t}
    BY DEF Locations, Records
  <2>2. \A i \in DOMAIN t : f[i].id = t[i]["location_id"]
    OBVIOUS
  <2> HIDE DEF f
  <2>3. \A i \in DOMAIN t, j \in DOMAIN t : f[i] = f[j] => t[i]["location_id"] = t[j]["location_id"]
    BY <2>2
  <2>4. \A i \in DOMAIN t, j \in DOMAIN t :
            f[i] = f[j] => t[i][WorkbookSheets["locations"].key] = t[j][WorkbookSheets["locations"].key]
    BY <2>3, KeysAre
  <2>5. Cardinality({f[i] : i \in DOMAIN t}) = Cardinality(DOMAIN t)
    BY <1>4, <2>4, RecordsCounted
  <2> QED
    BY <2>1, <2>5
<1>9. Cardinality(Equipment) = Cardinality(DOMAIN tables["equipment"])
  <2> DEFINE t == tables["equipment"]
             f == [i \in DOMAIN t |->
                     [id |-> t[i].equipment_id, name |-> t[i].name, daily_rate |-> t[i].daily_rate,
                      available_windows |-> WindowsOf(t[i].equipment_id, "AVAILABLE")]]
  <2>1. Equipment = {f[i] : i \in DOMAIN t}
    BY DEF Equipment, Records
  <2>2. \A i \in DOMAIN t : f[i].id = t[i]["equipment_id"]
    OBVIOUS
  <2> HIDE DEF f
  <2>3. \A i \in DOMAIN t, j \in DOMAIN t : f[i] = f[j] => t[i]["equipment_id"] = t[j]["equipment_id"]
    BY <2>2
  <2>4. \A i \in DOMAIN t, j \in DOMAIN t :
            f[i] = f[j] => t[i][WorkbookSheets["equipment"].key] = t[j][WorkbookSheets["equipment"].key]
    BY <2>3, KeysAre
  <2>5. Cardinality({f[i] : i \in DOMAIN t}) = Cardinality(DOMAIN t)
    BY <1>4, <2>4, RecordsCounted
  <2> QED
    BY <2>1, <2>5
<1>10. Len(Days) = Cardinality(DOMAIN tables["schedule"])
    BY <1>4, DaysCounted
<1> QED
    BY <1>4, <1>5, <1>6, <1>7, <1>8, <1>9, <1>10, NewStateIs DEF NothingLost

(***************************************************************************)
(* Steps that read no row and build no state.                              *)
(***************************************************************************)
LEMMA SameSheets ==
    ASSUME sheets' = sheets
    PROVE  /\ SheetsFit' = SheetsFit
           /\ SheetErrors' = SheetErrors
           /\ \A s : DataRows(s)' = DataRows(s)
           /\ \A s, i, d : FaultyCells(s, i, d)' = FaultyCells(s, i, d)
           /\ \A s, d : ReadRows(s, d)' = ReadRows(s, d)
<1>1. SheetsFit' = SheetsFit
    BY DEF SheetsFit
<1>2. SheetErrors' = SheetErrors
  <2>1. MissingSheets' = MissingSheets
    BY DEF MissingSheets
  <2>2. MissingColumns' = MissingColumns
    BY DEF MissingColumns
  <2>3. OverlongSheets' = OverlongSheets
    BY DEF OverlongSheets
  <2> QED
    BY <2>1, <2>2, <2>3 DEF SheetErrors
<1>3. \A s : DataRows(s)' = DataRows(s)
    BY DEF DataRows
<1>4. \A s, i, d : FaultyCells(s, i, d)' = FaultyCells(s, i, d)
    BY DEF FaultyCells
<1>5. \A s, d : ReadRows(s, d)' = ReadRows(s, d)
    BY <1>3, <1>4 DEF ReadRows
<1> QED
    BY <1>1, <1>2, <1>3, <1>4, <1>5

LEMMA SameTables ==
    ASSUME sheets' = sheets, tables' = tables
    PROVE  /\ \A s : CleanTable(s)' = CleanTable(s)
           /\ RepeatedKeys' = RepeatedKeys
           /\ TablesClean' = TablesClean
           /\ ReferenceErrors' = ReferenceErrors
           /\ SemanticErrors' = SemanticErrors
           /\ NewState' = NewState
<1>1. \A s : CleanTable(s)' = CleanTable(s)
    BY SameSheets DEF CleanTable
<1>2. RepeatedKeys' = RepeatedKeys
    BY DEF RepeatedKeys
<1>3. DanglingRefs' = DanglingRefs
    BY DEF DanglingRefs, Ids
<1>4. WrongRoles' = WrongRoles
    BY DEF WrongRoles, RoleOf, Ids
<1>5. MisfitWindows' = MisfitWindows
    BY DEF MisfitWindows
<1>6. PrerequisiteLoops' = PrerequisiteLoops
    BY DEF PrerequisiteLoops, Prerequisites, Ids
<1>7. DaysOutside' = DaysOutside
    BY DEF DaysOutside, ShootDates, Production
<1>8. ScenesTwice' = ScenesTwice
    BY DEF ScenesTwice, Slot, FirstRowOf, RowsOf
<1>9. ImpossibleTimes' = ImpossibleTimes
    BY DEF ImpossibleTimes, Zone, Production
<1>10. ReversedWindows' = ReversedWindows
    BY DEF ReversedWindows
<1>11. NewState' = NewState
    BY DEF NewState, People, Locations, Equipment, Days, Records, Production, Precedes, WindowsOf,
           WholeDays, Midnight, Zone, AvailabilityOf, PermitWindows, ClosedDays, ShootDates, PermitOn,
           ShootingDay
<1>12. TablesClean' = TablesClean
    BY <1>1 DEF TablesClean
<1>13. SemanticErrors' = SemanticErrors
    BY <1>6, <1>7, <1>8, <1>9, <1>10 DEF SemanticErrors
<1>14. ReferenceErrors' = ReferenceErrors
    BY <1>3, <1>4, <1>5 DEF ReferenceErrors
<1> QED
    BY <1>1, <1>2, <1>11, <1>12, <1>13, <1>14

\* What was found right before phase p.
Held(p) ==
    /\ p \in Phases \ {"warnings", "done"}
    /\ p \in AfterSheets => SheetErrors = {}
    /\ p \in AfterProduction => ProductionClean
    /\ p \in AfterRows => TablesClean
    /\ p \in AfterIdentity => RepeatedKeys = {}
    /\ p \in AfterReferences => ReferenceErrors = {}
    /\ p \in AfterSemantics => SemanticErrors = {}

\* The id an error names is in no row.
Absent(e) ==
    \A i \in FilledIn(e.names[2]) :
        Cell(sheets[e.names[2]].rows[i], WorkbookSheets[e.names[2]].key).value # e.names[1]

\* Issues that say where they are and do not name an id.
Plain(issues) == \A e \in issues : e.sheet \in SheetNames \cup {Whole} /\ e.code # "E006"

LEMMA StillParsing ==
    ASSUME WorkbookInv, phase \notin {"warnings", "done"}
    PROVE  state = NoState /\ errors = {} /\ Held(phase)
<1>1. state = NoState /\ errors = {} /\ phase \in Phases
    BY DEF WorkbookInv, TypeOK, BuiltFromTables
<1> QED
    BY <1>1 DEF WorkbookInv, SheetsThere, ProductionRead, RowsRead, IdentityHolds, ReferencesHold,
                SemanticsHold, Held, Reached

\* A phase that looks at what was read, and goes on only if it found nothing.
LEMMA CheckKeeps ==
    ASSUME WorkbookInv, phase \notin {"warnings", "done"},
           UNCHANGED <<upload, sheets, tables, state>>,
           NEW found, NEW next, Report(found, next),
           \A e \in found \cup warnings' : e.sheet \in SheetNames \cup {Whole},
           \A e \in found : e.code = "E006" => Absent(e),
           found = {} => Held(next)
    PROVE  WorkbookInv'
<1>1. state = NoState /\ errors = {} /\ Held(phase)
    BY StillParsing
<1>2. errors' = found /\ phase' = IF found = {} THEN next ELSE "done"
    BY <1>1 DEF Report
<1>3. state' = NoState
    BY <1>1
<1>4. next \in Phases \ {"warnings", "done"} \/ found # {}
    BY DEF Held
<1>5. TypeOK'
    BY <1>2, <1>3, <1>4 DEF WorkbookInv, TypeOK, Phases
<1>6. UploadFits(upload)' /\ SheetsFit'
  <2>1. UploadFits(upload)' = UploadFits(upload)
    BY DEF UploadFits
  <2> QED
    BY <2>1, SameSheets DEF WorkbookInv
<1>7. \A P : "done" \notin P => (Reached(P)' <=> found = {} /\ next \in P)
    BY <1>2, <1>3 DEF Reached
<1>8. /\ "done" \notin AfterSheets /\ "done" \notin AfterProduction /\ "done" \notin AfterRows
      /\ "done" \notin AfterIdentity /\ "done" \notin AfterReferences /\ "done" \notin AfterSemantics
    BY DEF AfterSheets, AfterProduction, AfterRows, AfterIdentity, AfterReferences, AfterSemantics
<1>9. ProductionClean' = ProductionClean
  <2>1. DataRows("production")' = DataRows("production") /\ CleanTable("production")' = CleanTable("production")
    BY SameSheets, SameTables
  <2>2. tables' = tables
    OBVIOUS
  <2> QED
    BY <2>1, <2>2 DEF ProductionClean
<1>10. /\ SheetsThere' /\ ProductionRead' /\ RowsRead' /\ IdentityHolds'
       /\ ReferencesHold' /\ SemanticsHold'
    BY <1>7, <1>8, <1>9, SameSheets, SameTables
       DEF SheetsThere, ProductionRead, RowsRead, IdentityHolds, ReferencesHold, SemanticsHold, Held
<1>11. BuiltFromTables'
    BY <1>3 DEF BuiltFromTables
<1>12. NoCascade'
    BY <1>2 DEF NoCascade, Absent, FilledIn
<1> QED
    BY <1>5, <1>6, <1>10, <1>11, <1>12 DEF WorkbookInv

LEMMA PlainSheets ==
    ASSUME DOMAIN sheets \subseteq SheetNames
    PROVE  Plain(MissingSheets) /\ Plain(MissingColumns) /\ Plain(OverlongSheets)
<1>1. Plain(MissingSheets)
    BY DEF Plain, MissingSheets, Issue
<1>2. Plain(MissingColumns)
    BY DEF Plain, MissingColumns, Issue
<1>3. Plain(OverlongSheets)
  <2>1. ASSUME NEW e \in OverlongSheets PROVE \E s \in DOMAIN sheets : e = Issue("E017", s, 0, Whole)
    BY DEF OverlongSheets
  <2> QED
    BY <2>1 DEF Plain, Issue
<1> QED
    BY <1>1, <1>2, <1>3

LEMMA PlainCells ==
    ASSUME NEW s \in SheetNames, NEW i, NEW dayFirst
    PROVE  Plain(FaultyCells(s, i, dayFirst)) /\ Plain(AmbiguousCells(s, i, dayFirst))
<1>1. Plain(FaultyCells(s, i, dayFirst))
    BY DEF Plain, FaultyCells, Issue
<1>2. Plain(AmbiguousCells(s, i, dayFirst))
    BY DEF Plain, AmbiguousCells, Issue
<1> QED
    BY <1>1, <1>2

LEMMA DanglingIs ==
    ASSUME NEW e \in DanglingRefs
    PROVE  \E s \in {"scenes", "schedule", "availability"} : \E i \in DOMAIN tables[s] :
               \E ref \in RefsOf(s, tables[s][i]) :
                   /\ ref[2] \notin Ids(ref[3])
                   /\ e.sheet = s /\ e.names = <<ref[2], ref[3]>>
<1> DEFINE Is(s, i, ref) ==
        /\ ref[2] \notin Ids(ref[3])
        /\ e = [Issue("E006", s, i, ref[1]) EXCEPT !.names = <<ref[2], ref[3]>>]
<1>1. PICK s \in {"scenes", "schedule", "availability"} :
          \E i \in DOMAIN tables[s] : \E ref \in RefsOf(s, tables[s][i]) : Is(s, i, ref)
    BY DEF DanglingRefs
<1>2. PICK i \in DOMAIN tables[s] : \E ref \in RefsOf(s, tables[s][i]) : Is(s, i, ref)
    BY <1>1
<1>3. PICK ref \in RefsOf(s, tables[s][i]) : Is(s, i, ref)
    BY <1>2
<1>4. e.sheet = s /\ e.names = <<ref[2], ref[3]>>
    BY <1>3 DEF Issue
<1> QED
    BY <1>1, <1>2, <1>3, <1>4

LEMMA PlainTables ==
    /\ Plain(RepeatedKeys) /\ Plain(WrongRoles) /\ Plain(MisfitWindows)
    /\ Plain(SemanticErrors) /\ Plain(AssumedTimes) /\ Plain(BrokenRecords(NewState))
    /\ \A e \in DanglingRefs : e.sheet \in SheetNames
<1>1. {"scenes", "schedule", "availability", "production"} \subseteq SheetNames
    BY SheetsAre
<1>2. Plain(RepeatedKeys)
    BY DEF Plain, RepeatedKeys, Issue
<1>3. Plain(WrongRoles)
    BY <1>1 DEF Plain, WrongRoles, Issue
<1>4. Plain(MisfitWindows)
    BY <1>1 DEF Plain, MisfitWindows, Issue
<1>5. Plain(PrerequisiteLoops)
    BY <1>1 DEF Plain, PrerequisiteLoops, Issue
<1>6. Plain(DaysOutside) /\ Plain(ScenesTwice)
    BY <1>1 DEF Plain, DaysOutside, ScenesTwice, Issue
<1>7. Plain(ImpossibleTimes)
    BY <1>1 DEF Plain, ImpossibleTimes, Issue
<1>8. Plain(ReversedWindows)
    BY <1>1 DEF Plain, ReversedWindows, Issue
<1>9. Plain(AssumedTimes)
    BY <1>1 DEF Plain, AssumedTimes, Issue
<1>10. Plain(BrokenRecords(NewState))
    BY DEF Plain, BrokenRecords, Issue
<1>11. Plain(SemanticErrors)
    BY <1>5, <1>6, <1>7, <1>8 DEF SemanticErrors, Plain
<1>12. \A e \in DanglingRefs : e.sheet \in SheetNames
    BY <1>1, DanglingIs
<1> QED
    BY <1>2, <1>3, <1>4, <1>9, <1>10, <1>11, <1>12

\* What the reader warns of.
LEMMA PlainWarnings ==
    ASSUME DOMAIN sheets \subseteq SheetNames
    PROVE  Plain(UnusedRecords) /\ Plain(OddDays) /\ Plain(OddSheets) /\ Plain(OtherVersion)
<1>1. {"scenes", "people", "equipment", "schedule", "production"} \subseteq SheetNames
    BY SheetsAre
<1>2. Plain(UnusedRecords)
    BY <1>1 DEF Plain, UnusedRecords, Named, Issue
<1>3. Plain(OddDays)
  <2>1. ASSUME NEW e \in OddDays
        PROVE  \E k \in DOMAIN state.days, code \in {"W014", "W004", "W005"} :
                   e = Issue(code, "schedule", k, Whole)
    BY DEF OddDays
  <2> QED
    BY <1>1, <2>1 DEF Plain, Issue
<1>4. Plain(OddSheets)
  <2>1. ASSUME NEW e \in OddSheets
        PROVE  \E s \in DOMAIN sheets : \E code \in {"W006", "W012", "W013", "W010"} : \E c :
                   e = Issue(code, s, 0, c)
    BY ZenonT(30) DEF OddSheets
  <2> QED
    BY <2>1 DEF Plain, Issue
<1>5. Plain(OtherVersion)
    BY <1>1 DEF Plain, OtherVersion, Issue
<1> QED
    BY <1>2, <1>3, <1>4, <1>5

(***************************************************************************)
(* An unknown id is in no row.                                             *)
(***************************************************************************)
KeyedSheets == {"scenes", "people", "locations", "equipment"}

LEMMA KeyRead ==
    ASSUME NEW s \in KeyedSheets, CleanTable(s), NEW i \in DataRows(s)
    PROVE  tables[s][i][WorkbookSheets[s].key] = Cell(sheets[s].rows[i], WorkbookSheets[s].key).value
<1> DEFINE key == WorkbookSheets[s].key
<1>1. key \in DOMAIN WorkbookSheets[s].columns /\ WorkbookSheets[s].columns[key] = Required("STRING")
    BY KeysAre, KeyColumns DEF KeyedSheets
<1> HIDE DEF key
<1>2. PICK dayFirst \in BOOLEAN :
          /\ Accepted(Cell(sheets[s].rows[i], key), Required("STRING"), dayFirst)
          /\ tables[s][i][key] = Coerce(Cell(sheets[s].rows[i], key), Required("STRING"), dayFirst).value
    BY <1>1, CleanRows
<1> QED
    BY <1>2, NameRead DEF key

LEMMA RefsKnown ==
    ASSUME SheetsFit, SheetsThere, RowsRead, Reached(AfterRows),
           NEW s \in {"scenes", "schedule", "availability"}, NEW i \in DOMAIN tables[s],
           NEW ref \in RefsOf(s, tables[s][i])
    PROVE  ref[3] \in KeyedSheets
<1>1. CASE s = "scenes"
  <2>1. ref \in SceneRefs(tables[s][i])
    BY <1>1 DEF RefsOf
  <2> QED
    BY <2>1 DEF SceneRefs, KeyedSheets
<1>2. CASE s = "schedule"
  <2>1. ref \in DayRefs(tables[s][i])
    BY <1>2 DEF RefsOf
  <2> QED
    BY <2>1 DEF DayRefs, KeyedSheets
<1>3. CASE s = "availability"
  <2>1. ref \in WindowRefs(tables[s][i])
    BY <1>3 DEF RefsOf
  <2>2. tables[s][i].subject_type \in {"PERSON", "EQUIPMENT", "LOCATION"}
    BY <1>3, RowsFit DEF WindowFits
  <2>3. SubjectSheet[tables[s][i].subject_type] \in KeyedSheets
    BY <2>2 DEF SubjectSheet, KeyedSheets
  <2> QED
    BY <2>1, <2>3 DEF WindowRefs
<1> QED
    BY <1>1, <1>2, <1>3

LEMMA DanglingAbsent ==
    ASSUME SheetsFit, SheetsThere, RowsRead, Reached(AfterRows), NEW e \in DanglingRefs
    PROVE  Absent(e)
<1>1. PICK s \in {"scenes", "schedule", "availability"} : \E i \in DOMAIN tables[s] :
          \E ref \in RefsOf(s, tables[s][i]) : ref[2] \notin Ids(ref[3]) /\ e.names = <<ref[2], ref[3]>>
    BY DanglingIs
<1>2. PICK i \in DOMAIN tables[s] :
          \E ref \in RefsOf(s, tables[s][i]) : ref[2] \notin Ids(ref[3]) /\ e.names = <<ref[2], ref[3]>>
    BY <1>1
<1>3. PICK ref \in RefsOf(s, tables[s][i]) :
          ref[2] \notin Ids(ref[3]) /\ e.names = <<ref[2], ref[3]>>
    BY <1>2
<1> DEFINE to == ref[3]
<1>4. to \in KeyedSheets /\ e.names[2] = to /\ e.names[1] = ref[2] /\ ref[2] \notin Ids(to)
    BY <1>3, RefsKnown
<1> HIDE DEF to
<1>5. to \in SheetNames \ {"availability"}
    BY <1>4, SheetsAre DEF KeyedSheets
<1>6. CleanTable(to) /\ DOMAIN tables[to] = DataRows(to) /\ FilledIn(to) = DataRows(to)
    BY <1>5, TablesThere, CleanRows DEF FilledIn, DataRows
<1>7. ASSUME NEW j \in DataRows(to)
      PROVE  Cell(sheets[to].rows[j], WorkbookSheets[to].key).value # ref[2]
  <2>1. tables[to][j][WorkbookSheets[to].key] \in Ids(to)
    BY <1>6 DEF Ids
  <2> QED
    BY <1>4, <1>6, <2>1, KeyRead
<1> QED
    BY <1>4, <1>6, <1>7 DEF Absent

(***************************************************************************)
(* Every step keeps the invariant.                                         *)
(***************************************************************************)
LEMMA WarningsPlain ==
    ASSUME WorkbookInv
    PROVE  \A e \in warnings : e.sheet \in SheetNames \cup {Whole}
BY DEF WorkbookInv, TypeOK

LEMMA CheckSheetsKeeps ==
    ASSUME WorkbookInv, CheckSheets
    PROVE  WorkbookInv'
<1> DEFINE found == IF DOMAIN sheets = {} THEN {Issue("E012", Whole, 0, Whole)}
                    ELSE MissingSheets \cup MissingColumns \cup OverlongSheets
<1>1. /\ phase = "sheets" /\ Report(found, "production") /\ warnings' = warnings
      /\ UNCHANGED <<upload, sheets, tables, state>>
    BY DEF CheckSheets
<1>2. Plain(found)
  <2>1. Plain({Issue("E012", Whole, 0, Whole)})
    BY DEF Plain, Issue
  <2> QED
    BY <2>1, PlainSheets DEF WorkbookInv, TypeOK, Plain
<1>3. found = {} => Held("production")
    BY DEF SheetErrors, Held, Phases, AfterSheets, AfterProduction, AfterRows, AfterIdentity,
           AfterReferences, AfterSemantics
<1> HIDE DEF found
<1> QED
    BY <1>1, <1>2, <1>3, WarningsPlain, CheckKeeps DEF Plain

LEMMA WithinBudgetKeeps ==
    ASSUME WorkbookInv, WithinBudget
    PROVE  WorkbookInv'
<1>1. /\ phase = "budget" /\ phase' = "identity" /\ warnings' = warnings /\ errors' = errors
      /\ UNCHANGED <<upload, sheets, tables, state>>
    BY DEF WithinBudget
<1>2. errors = {} /\ Held(phase)
    BY <1>1, StillParsing
<1>3. Report({}, "identity")
    BY <1>1, <1>2 DEF Report
<1>4. Held("identity")
    BY <1>1, <1>2 DEF Held, Phases, AfterSheets, AfterProduction, AfterRows, AfterIdentity,
                      AfterReferences, AfterSemantics
<1>5. \A e \in {} \cup warnings' : e.sheet \in SheetNames \cup {Whole}
    BY <1>1, WarningsPlain
<1> QED
    BY <1>1, <1>3, <1>4, <1>5, CheckKeeps

LEMMA OverBudgetKeeps ==
    ASSUME WorkbookInv, OverBudget
    PROVE  WorkbookInv'
<1> DEFINE found == {Issue("E016", Whole, 0, Whole)}
<1>1. /\ phase = "budget" /\ Report(found, "done") /\ warnings' = warnings
      /\ UNCHANGED <<upload, sheets, tables, state>>
    BY DEF OverBudget
<1>2. Plain(found) /\ found # {}
    BY DEF Plain, Issue
<1> HIDE DEF found
<1> QED
    BY <1>1, <1>2, WarningsPlain, CheckKeeps DEF Plain

LEMMA CheckIdentityKeeps ==
    ASSUME WorkbookInv, CheckIdentity
    PROVE  WorkbookInv'
<1>1. /\ phase = "identity" /\ Report(RepeatedKeys, "reference") /\ warnings' = warnings
      /\ UNCHANGED <<upload, sheets, tables, state>>
    BY DEF CheckIdentity
<1>2. Held(phase)
    BY <1>1, StillParsing
<1>3. RepeatedKeys = {} => Held("reference")
    BY <1>1, <1>2 DEF Held, Phases, AfterSheets, AfterProduction, AfterRows, AfterIdentity,
                      AfterReferences, AfterSemantics
<1> QED
    BY <1>1, <1>3, WarningsPlain, PlainTables, CheckKeeps DEF Plain

LEMMA CheckReferencesKeeps ==
    ASSUME WorkbookInv, CheckReferences
    PROVE  WorkbookInv'
<1>1. /\ phase = "reference" /\ Report(ReferenceErrors, "production_row") /\ warnings' = warnings
      /\ UNCHANGED <<upload, sheets, tables, state>>
    BY DEF CheckReferences, ReferenceErrors
<1>2. Held(phase) /\ Reached(AfterRows)
    BY <1>1, StillParsing DEF Reached, AfterRows, AfterIdentity
<1>3. ReferenceErrors = {} => Held("production_row")
    BY <1>1, <1>2 DEF Held, Phases, AfterSheets, AfterProduction, AfterRows, AfterIdentity,
                      AfterReferences, AfterSemantics
<1>4. \A e \in ReferenceErrors : e.sheet \in SheetNames \cup {Whole}
    BY PlainTables DEF ReferenceErrors, Plain
<1>5. \A e \in ReferenceErrors : e.code = "E006" => Absent(e)
    BY <1>2, PlainTables, DanglingAbsent DEF ReferenceErrors, Plain, WorkbookInv
<1> QED
    BY <1>1, <1>3, <1>4, <1>5, WarningsPlain, CheckKeeps

LEMMA CheckProductionKeeps ==
    ASSUME WorkbookInv, CheckProduction
    PROVE  WorkbookInv'
<1> DEFINE found == IF Production.shoot_end < Production.shoot_start
                    THEN {Issue("E003", "production", 2, Whole)} ELSE {}
<1>1. /\ phase = "production_row" /\ Report(found, "semantic") /\ warnings' = warnings
      /\ UNCHANGED <<upload, sheets, tables, state>>
    BY DEF CheckProduction
<1>2. Held(phase)
    BY <1>1, StillParsing
<1>3. found = {} => Held("semantic")
    BY <1>1, <1>2 DEF Held, Phases, AfterSheets, AfterProduction, AfterRows, AfterIdentity,
                      AfterReferences, AfterSemantics
<1>4. Plain(found)
    BY SheetsAre DEF Plain, Issue
<1> HIDE DEF found
<1> QED
    BY <1>1, <1>3, <1>4, WarningsPlain, CheckKeeps DEF Plain

LEMMA CheckSemanticsKeeps ==
    ASSUME WorkbookInv, CheckSemantics
    PROVE  WorkbookInv'
<1>1. /\ phase = "semantic" /\ Report(SemanticErrors, "build")
      /\ warnings' = warnings \cup AssumedTimes
      /\ UNCHANGED <<upload, sheets, tables, state>>
    BY DEF CheckSemantics, SemanticErrors
<1>2. Held(phase)
    BY <1>1, StillParsing
<1>3. SemanticErrors = {} => Held("build")
    BY <1>1, <1>2 DEF Held, Phases, AfterSheets, AfterProduction, AfterRows, AfterIdentity,
                      AfterReferences, AfterSemantics
<1>4. \A e \in warnings' : e.sheet \in SheetNames \cup {Whole}
    BY <1>1, WarningsPlain, PlainTables DEF Plain
<1> QED
    BY <1>1, <1>3, <1>4, PlainTables, CheckKeeps DEF Plain

\* All phases found everything right.
LEMMA StateKeeps ==
    ASSUME WorkbookInv, UNCHANGED <<upload, sheets, tables>>,
           state' = NewState, BrokenRecords(NewState) = {}, phase' \in {"warnings", "done"},
           errors' = {}, \A e \in warnings' : e.sheet \in SheetNames \cup {Whole},
           SheetErrors = {}, ProductionClean, TablesClean, RepeatedKeys = {}, ReferenceErrors = {},
           SemanticErrors = {}
    PROVE  WorkbookInv'
<1>1. state' # NoState
    BY NewStateIs
<1>2. TypeOK'
    BY <1>1 DEF WorkbookInv, TypeOK, Phases
<1>3. UploadFits(upload)' /\ SheetsFit'
  <2>1. UploadFits(upload)' = UploadFits(upload)
    BY DEF UploadFits
  <2> QED
    BY <2>1, SameSheets DEF WorkbookInv
<1>4. ProductionClean' = ProductionClean
  <2>1. DataRows("production")' = DataRows("production") /\ CleanTable("production")' = CleanTable("production")
    BY SameSheets, SameTables
  <2>2. tables' = tables
    OBVIOUS
  <2> QED
    BY <2>1, <2>2 DEF ProductionClean
<1>5. /\ SheetsThere' /\ ProductionRead' /\ RowsRead' /\ IdentityHolds'
      /\ ReferencesHold' /\ SemanticsHold'
    BY <1>4, SameSheets, SameTables
       DEF SheetsThere, ProductionRead, RowsRead, IdentityHolds, ReferencesHold, SemanticsHold
<1>6. BuiltFromTables'
  <2>1. NewState' = NewState
    BY SameTables
  <2>2. BrokenRecords(NewState)' = BrokenRecords(NewState)
    BY <2>1 DEF BrokenRecords
  <2> QED
    BY <2>1, <2>2 DEF BuiltFromTables
<1>7. NoCascade'
    BY DEF NoCascade
<1> QED
    BY <1>2, <1>3, <1>5, <1>6, <1>7 DEF WorkbookInv

LEMMA BuildStateKeeps ==
    ASSUME WorkbookInv, BuildState
    PROVE  WorkbookInv'
<1> DEFINE broken == BrokenRecords(NewState)
<1>1. /\ phase = "build" /\ Report(broken, "warnings") /\ warnings' = warnings
      /\ state' = IF broken = {} THEN NewState ELSE NoState
      /\ UNCHANGED <<upload, sheets, tables>>
    BY DEF BuildState
<1>2. Held(phase) /\ state = NoState /\ errors = {}
    BY <1>1, StillParsing
<1>3. Plain(broken)
    BY PlainTables
<1>4. /\ SheetErrors = {} /\ ProductionClean /\ TablesClean /\ RepeatedKeys = {}
      /\ ReferenceErrors = {} /\ SemanticErrors = {}
    BY <1>1, <1>2 DEF Held, AfterSheets, AfterProduction, AfterRows, AfterIdentity,
                      AfterReferences, AfterSemantics
<1>5. errors' = broken /\ phase' = IF broken = {} THEN "warnings" ELSE "done"
    BY <1>1, <1>2 DEF Report
<1> HIDE DEF broken
<1>6. CASE broken = {}
  <2>1. BrokenRecords(NewState) = {}
    BY <1>6 DEF broken
  <2> QED
    BY <1>1, <1>4, <1>5, <1>6, <2>1, WarningsPlain, StateKeeps
<1>7. CASE broken # {}
  <2>1. UNCHANGED <<upload, sheets, tables, state>>
    BY <1>1, <1>2, <1>7
  <2> QED
    BY <1>1, <1>3, <1>7, <2>1, WarningsPlain, CheckKeeps DEF Plain
<1> QED
    BY <1>6, <1>7

LEMMA AllHeld ==
    ASSUME WorkbookInv, state # NoState
    PROVE  /\ SheetErrors = {} /\ ProductionClean /\ TablesClean /\ RepeatedKeys = {}
           /\ ReferenceErrors = {} /\ SemanticErrors = {}
           /\ state = NewState /\ BrokenRecords(NewState) = {} /\ errors = {}
BY DEF WorkbookInv, Reached, SheetsThere, ProductionRead, RowsRead, IdentityHolds, ReferencesHold,
       SemanticsHold, BuiltFromTables

LEMMA WarnKeeps ==
    ASSUME WorkbookInv, Warn
    PROVE  WorkbookInv'
<1>1. /\ phase = "warnings" /\ Report({}, "done")
      /\ warnings' = warnings \cup UnusedRecords \cup OddDays \cup OddSheets \cup OtherVersion
      /\ UNCHANGED <<upload, sheets, tables, state>>
    BY DEF Warn
<1>2. errors = {} /\ state # NoState /\ DOMAIN sheets \subseteq SheetNames
    BY <1>1 DEF WorkbookInv, TypeOK
<1>3. errors' = {} /\ phase' = "done"
    BY <1>1, <1>2 DEF Report
<1>4. \A e \in warnings' : e.sheet \in SheetNames \cup {Whole}
    BY <1>1, <1>2, WarningsPlain, PlainWarnings DEF Plain
<1>5. state' = NewState
    BY <1>1, <1>2, AllHeld
<1> QED
    BY <1>1, <1>2, <1>3, <1>4, <1>5, AllHeld, StateKeeps

LEMMA ReadKeeps ==
    ASSUME WorkbookInv, Read
    PROVE  WorkbookInv'
<1>1. phase = "read" /\ UNCHANGED <<upload, tables, warnings, state>>
    BY DEF Read
<1>2. state = NoState /\ errors = {}
    BY <1>1, StillParsing
<1>3. CASE ~Readable(upload)
  <2> DEFINE found == {Issue("E016", Whole, 0, Whole)}
  <2>1. Report(found, "done") /\ sheets' = sheets
    BY <1>3 DEF Read
  <2>2. Plain(found) /\ found # {}
    BY DEF Plain, Issue
  <2> HIDE DEF found
  <2> QED
    BY <1>1, <2>1, <2>2, WarningsPlain, CheckKeeps DEF Plain
<1>4. CASE Readable(upload)
  <2>1. /\ sheets' = [s \in DOMAIN upload.book |-> ReadSheet(DetectKind(upload), upload.book[s])]
        /\ Report({}, "sheets")
    BY <1>4 DEF Read
  <2>2. errors' = {} /\ phase' = "sheets" /\ state' = NoState
    BY <1>1, <1>2, <2>1 DEF Report
  <2>3. UploadFits(upload)
    BY DEF WorkbookInv
  <2>4. SheetsFit'
    BY <2>1, <2>3 DEF SheetsFit, UploadFits
  <2>5. UploadFits(upload)'
  <3>1. UploadFits(upload)' = UploadFits(upload)
    BY <1>1 DEF UploadFits
  <3> QED
    BY <2>3, <3>1
  <2>6. DOMAIN sheets' \subseteq SheetNames
    BY <2>1, <2>3 DEF UploadFits
  <2>7. TypeOK'
    BY <1>1, <2>2, <2>6 DEF WorkbookInv, TypeOK, Phases
  <2>8. /\ SheetsThere' /\ ProductionRead' /\ RowsRead' /\ IdentityHolds'
        /\ ReferencesHold' /\ SemanticsHold'
    BY <2>2 DEF SheetsThere, ProductionRead, RowsRead, IdentityHolds, ReferencesHold, SemanticsHold,
                Reached, AfterSheets, AfterProduction, AfterRows, AfterIdentity, AfterReferences,
                AfterSemantics
  <2>9. BuiltFromTables' /\ NoCascade'
    BY <2>2 DEF BuiltFromTables, NoCascade
  <2> QED
    BY <2>4, <2>5, <2>7, <2>8, <2>9 DEF WorkbookInv
<1> QED
    BY <1>3, <1>4

LEMMA ReadProductionKeeps ==
    ASSUME WorkbookInv, ReadProduction
    PROVE  WorkbookInv'
<1> DEFINE row == CHOOSE i \in DataRows("production") : TRUE
           refused == Cell(sheets["production"].rows[row], "timezone").form \notin {"blank", "value"}
<1>1. phase = "production" /\ UNCHANGED <<upload, sheets, state>>
    BY DEF ReadProduction
<1>2. state = NoState /\ errors = {} /\ Held(phase)
    BY <1>1, StillParsing
<1>3. "production" \in SheetNames
    BY SheetsAre
<1>4. CASE Cardinality(DataRows("production")) # 1
  <2> DEFINE found == {Issue("E012", "production", 0, Whole)}
  <2>1. Report(found, "done") /\ UNCHANGED <<tables, warnings>>
    BY <1>4 DEF ReadProduction
  <2>2. Plain(found) /\ found # {}
    BY <1>3 DEF Plain, Issue
  <2> HIDE DEF found
  <2> QED
    BY <1>1, <2>1, <2>2, WarningsPlain, CheckKeeps DEF Plain
<1>5. CASE Cardinality(DataRows("production")) = 1 /\ refused
  <2> DEFINE found == {Issue("E003", "production", row, "timezone")}
  <2>1. Report(found, "done") /\ UNCHANGED <<tables, warnings>>
    BY <1>5 DEF ReadProduction
  <2>2. Plain(found) /\ found # {}
    BY <1>3 DEF Plain, Issue
  <2> HIDE DEF found
  <2> QED
    BY <1>1, <2>1, <2>2, WarningsPlain, CheckKeeps DEF Plain
<1>6. CASE Cardinality(DataRows("production")) = 1 /\ ~refused
  <2>0. PICK r : r = row
    OBVIOUS
  <2>1. PICK dayFirst \in BOOLEAN : dayFirst = DayFirst(r)
    BY DEF DayFirst
  <2> DEFINE found == FaultyCells("production", r, dayFirst)
             guessed == AmbiguousCells("production", r, dayFirst)
  <2>2. /\ Report(found, "rows")
        /\ warnings' = warnings \cup guessed
        /\ tables' = [production |-> ReadRows("production", dayFirst)]
    BY <1>6, <2>0, <2>1 DEF ReadProduction
  <2>3. /\ errors' = found /\ phase' = (IF found = {} THEN "rows" ELSE "done")
        /\ state' = NoState
    BY <1>1, <1>2, <2>2 DEF Report
  <2>4. Plain(found) /\ Plain(guessed)
    BY <1>3, PlainCells
  <2>5. DOMAIN tables' = {"production"} /\ tables'["production"] = ReadRows("production", dayFirst)
    BY <2>2
  <2>6. SheetErrors' = {}
    BY <1>1, <1>2, SameSheets DEF Held, AfterSheets
  <2>7. ASSUME found = {} PROVE ProductionClean'
    <3>1. "production" \in DOMAIN sheets
      BY <1>1, <1>3, <2>6, SameSheets, NeededSheets DEF SheetErrors, MissingSheets
    <3>2. IsFiniteSet(DataRows("production"))
      BY <3>1, RowsFinite DEF WorkbookInv, SheetsFit
    <3>3. DataRows("production") = {r}
      <4>1. PICK x : DataRows("production") = {x}
        BY <1>6, <3>2, FS_Singleton
      <4> QED
        BY <2>0, <4>1
    <3>4. /\ DataRows("production")' = DataRows("production")
          /\ ReadRows("production", dayFirst)' = ReadRows("production", dayFirst)
          /\ FaultyCells("production", r, dayFirst)' = FaultyCells("production", r, dayFirst)
      BY <1>1, SameSheets
    <3>5. CleanTable("production")'
      BY <2>5, <2>7, <3>3, <3>4 DEF CleanTable
    <3> QED
      BY <1>6, <2>5, <3>4, <3>5 DEF ProductionClean
  <2> HIDE DEF found, guessed
  <2>8. TypeOK'
    BY <1>1, <1>3, <2>2, <2>3, <2>4, <2>5 DEF WorkbookInv, TypeOK, Phases, Plain
  <2>9. UploadFits(upload)' /\ SheetsFit'
    <3>1. UploadFits(upload)' = UploadFits(upload)
      BY <1>1 DEF UploadFits
    <3> QED
      BY <1>1, <3>1, SameSheets DEF WorkbookInv
  <2>10. /\ SheetsThere' /\ ProductionRead' /\ RowsRead' /\ IdentityHolds'
         /\ ReferencesHold' /\ SemanticsHold'
    BY <2>3, <2>6, <2>7
       DEF SheetsThere, ProductionRead, RowsRead, IdentityHolds, ReferencesHold, SemanticsHold,
           Reached, AfterSheets, AfterProduction, AfterRows, AfterIdentity, AfterReferences,
           AfterSemantics
  <2>11. BuiltFromTables' /\ NoCascade'
    BY <2>3, <2>4 DEF BuiltFromTables, NoCascade, Plain
  <2> QED
    BY <2>6, <2>8, <2>9, <2>10, <2>11 DEF WorkbookInv
<1> QED
    BY <1>4, <1>5, <1>6

LEMMA ReadTablesKeeps ==
    ASSUME WorkbookInv, ReadTables
    PROVE  WorkbookInv'
<1> DEFINE there == (SheetNames \ {"production"}) \cap DOMAIN sheets
<1>1. phase = "rows" /\ UNCHANGED <<upload, sheets, state>>
    BY DEF ReadTables
<1>2. /\ state = NoState /\ errors = {} /\ SheetErrors = {} /\ ProductionClean
      /\ DOMAIN sheets \subseteq SheetNames /\ SheetsFit
    BY <1>1, StillParsing DEF Held, AfterSheets, AfterProduction, WorkbookInv, TypeOK
<1>3. "production" \in SheetNames
    BY SheetsAre
<1>4. PICK dayFirst \in BOOLEAN : dayFirst = ~Zone.monthFirst
    OBVIOUS
<1> DEFINE found   == UNION {UNION {FaultyCells(s, i, dayFirst) : i \in DataRows(s)} : s \in there}
           guessed == UNION {UNION {AmbiguousCells(s, i, dayFirst) : i \in DataRows(s)} : s \in there}
<1>5. /\ Report(found, "budget")
      /\ warnings' = warnings \cup guessed
      /\ tables' = [s \in SheetNames |-> CASE s = "production" -> tables["production"]
                                          [] s \in there      -> ReadRows(s, dayFirst)
                                          [] OTHER            -> <<>>]
    BY <1>4 DEF ReadTables
<1>6. /\ errors' = found /\ phase' = (IF found = {} THEN "budget" ELSE "done")
      /\ state' = NoState
    BY <1>1, <1>2, <1>5 DEF Report
<1>7. Plain(found) /\ Plain(guessed)
  <2>1. \A s \in there : \A i \in DataRows(s) :
            Plain(FaultyCells(s, i, dayFirst)) /\ Plain(AmbiguousCells(s, i, dayFirst))
    BY PlainCells
  <2> QED
    BY <2>1 DEF Plain
<1>8. /\ DOMAIN tables' = SheetNames /\ tables'["production"] = tables["production"]
      /\ \A s \in SheetNames \ {"production"} :
            tables'[s] = IF s \in DOMAIN sheets THEN ReadRows(s, dayFirst) ELSE <<>>
    BY <1>3, <1>5
<1>9. SheetErrors' = {}
    BY <1>1, <1>2, SameSheets
<1>10. ProductionClean'
  <2>1. PICK d \in BOOLEAN : /\ tables["production"] = ReadRows("production", d)
                              /\ \A i \in DataRows("production") : FaultyCells("production", i, d) = {}
    BY <1>2 DEF ProductionClean, CleanTable
  <2>2. /\ DataRows("production")' = DataRows("production")
        /\ ReadRows("production", d)' = ReadRows("production", d)
        /\ \A i : FaultyCells("production", i, d)' = FaultyCells("production", i, d)
    BY <1>1, SameSheets
  <2>3. CleanTable("production")'
    BY <1>8, <2>1, <2>2 DEF CleanTable
  <2> QED
    BY <1>2, <1>3, <1>8, <2>2, <2>3 DEF ProductionClean
<1>11. ASSUME found = {} PROVE TablesClean'
  <2>1. ASSUME NEW s \in SheetNames, s \in DOMAIN sheets, s # "production" PROVE CleanTable(s)'
    <3>1. \A i \in DataRows(s) : FaultyCells(s, i, dayFirst) = {}
      BY <1>11, <2>1
    <3>2. /\ DataRows(s)' = DataRows(s)
          /\ ReadRows(s, dayFirst)' = ReadRows(s, dayFirst)
          /\ \A i : FaultyCells(s, i, dayFirst)' = FaultyCells(s, i, dayFirst)
      BY <1>1, SameSheets
    <3> QED
      BY <1>8, <2>1, <3>1, <3>2 DEF CleanTable
  <2>2. "production" \in DOMAIN sheets
    BY <1>2, <1>3, NeededSheets DEF SheetErrors, MissingSheets
  <2> QED
    BY <1>1, <1>8, <1>10, <2>1, <2>2 DEF TablesClean, ProductionClean
<1> HIDE DEF found, guessed
<1>12. TypeOK'
    BY <1>1, <1>2, <1>5, <1>6, <1>7, <1>8 DEF WorkbookInv, TypeOK, Phases, Plain
<1>13. UploadFits(upload)' /\ SheetsFit'
  <2>1. UploadFits(upload)' = UploadFits(upload)
    BY <1>1 DEF UploadFits
  <2> QED
    BY <1>1, <2>1, SameSheets DEF WorkbookInv
<1>14. /\ SheetsThere' /\ ProductionRead' /\ RowsRead' /\ IdentityHolds'
       /\ ReferencesHold' /\ SemanticsHold'
    BY <1>6, <1>9, <1>10, <1>11
       DEF SheetsThere, ProductionRead, RowsRead, IdentityHolds, ReferencesHold, SemanticsHold,
           Reached, AfterSheets, AfterProduction, AfterRows, AfterIdentity, AfterReferences,
           AfterSemantics
<1>15. BuiltFromTables' /\ NoCascade'
    BY <1>6, <1>7 DEF BuiltFromTables, NoCascade, Plain
<1> QED
    BY <1>12, <1>13, <1>14, <1>15 DEF WorkbookInv

(***************************************************************************)
(* The days: one for every row of the schedule, in their order.            *)
(***************************************************************************)
ScheduleRows == DOMAIN tables["schedule"]

Earlier == {pair \in ScheduleRows \X ScheduleRows : Precedes(pair[1], pair[2])}

LEMMA UnitRanked ==
    ASSUME NEW unit \in ToSet(UnitNames)
    PROVE  UnitRank(unit) \in Nat /\ UnitNames[UnitRank(unit)] = unit
<1>1. \E k \in DOMAIN UnitNames : UnitNames[k] = unit
    BY DEF ToSet
<1>2. UnitRank(unit) \in DOMAIN UnitNames /\ UnitNames[UnitRank(unit)] = unit
    BY <1>1 DEF UnitRank
<1> QED
    BY <1>2, UnitsAssumption

LEMMA RowsOrdered ==
    ASSUME ScheduleRows \subseteq Nat, \A i \in ScheduleRows : DayFits(tables["schedule"][i])
    PROVE  /\ StrictOn(Earlier, ScheduleRows)
           /\ TotalOn(Earlier, ScheduleRows)
<1> DEFINE row(i) == tables["schedule"][i]
           unit(i) == row(i).unit
           rank(i) == UnitRank(unit(i))
           date(i) == row(i).date
<1>1. \A i \in ScheduleRows : /\ date(i) \in Int /\ rank(i) \in Nat /\ i \in Nat
                              /\ unit(i) = UnitNames[rank(i)]
    BY UnitRanked DEF DayFits
<1>2. \A i, j \in ScheduleRows :
          <<i, j>> \in Earlier <=> \/ date(i) < date(j)
                                   \/ date(i) = date(j) /\ rank(i) < rank(j)
                                   \/ date(i) = date(j) /\ unit(i) = unit(j) /\ i < j
    BY DEF Earlier, Precedes
<1> HIDE DEF row, unit, rank, date
<1>3. \A i, j \in ScheduleRows : unit(i) = unit(j) <=> rank(i) = rank(j)
    BY <1>1 DEF rank
<1>4. \A i \in ScheduleRows : <<i, i>> \notin Earlier
    BY <1>1, <1>2
<1>5. ASSUME NEW i \in ScheduleRows, NEW j \in ScheduleRows, NEW k \in ScheduleRows,
             <<i, j>> \in Earlier, <<j, k>> \in Earlier
      PROVE  <<i, k>> \in Earlier
    BY <1>1, <1>2, <1>3, <1>5
<1>6. ASSUME NEW i \in ScheduleRows, NEW j \in ScheduleRows
      PROVE  i = j \/ <<i, j>> \in Earlier \/ <<j, i>> \in Earlier
    BY <1>1, <1>2, <1>3
<1> QED
    BY <1>4, <1>5, <1>6 DEF StrictOn, TotalOn

\* The row a day was made of.
LEMMA DaysAre ==
    ASSUME ScheduleRows \subseteq Nat, IsFiniteSet(ScheduleRows),
           \A i \in ScheduleRows : DayFits(tables["schedule"][i])
    PROVE  /\ Cardinality(ScheduleRows) \in Nat /\ DOMAIN Days = 1 .. Cardinality(ScheduleRows)
           /\ \A k \in DOMAIN Days : \E i \in ScheduleRows : Days[k] = ShootingDay(tables["schedule"][i])
<1>1. Cardinality(ScheduleRows) \in Nat /\ DOMAIN Days = 1 .. Cardinality(ScheduleRows)
    BY FS_CardinalityType DEF Days, ScheduleRows
<1>2. ASSUME NEW k \in 1 .. Cardinality(ScheduleRows)
      PROVE  \E i \in ScheduleRows : Days[k] = ShootingDay(tables["schedule"][i])
  <2> DEFINE at(i) == Cardinality({j \in ScheduleRows : Precedes(j, i)}) = k - 1
  <2>1. \E i \in ScheduleRows : Cardinality(Below(i, Earlier, ScheduleRows)) = k - 1
    BY RowsOrdered, FiniteRanks
  <2>2. \A i \in ScheduleRows :
            Below(i, Earlier, ScheduleRows) = {j \in ScheduleRows : Precedes(j, i)}
    BY DEF Below, Earlier
  <2>3. \E i \in ScheduleRows : at(i)
    BY <2>1, <2>2
  <2>4. Days[k] = ShootingDay(tables["schedule"][CHOOSE i \in ScheduleRows : at(i)])
    BY DEF Days, ScheduleRows
  <2> HIDE DEF at
  <2>5. (CHOOSE i \in ScheduleRows : at(i)) \in ScheduleRows
    BY <2>3
  <2> QED
    BY <2>4, <2>5
<1> QED
    BY <1>1, <1>2

LEMMA InstantIs ==
    ASSUME NEW zone, zone.offset \in Int, {zone.forward, zone.back} \subseteq Int \cup {None},
           NEW t \in Int
    PROVE  Instant(zone, t) \in Int
<1>1. \A x \in Int \cup {None} : x # None => x \in Int
    OBVIOUS
<1> QED
    BY <1>1 DEF Instant, Hour

\* The wall clocks of a day, half hours.
LEMMA DayClocks ==
    ASSUME NEW v, DayFits(v)
    PROVE  CallAt(v) \in Int /\ WrapAt(v) \in Int
BY DEF DayFits, CallAt, WrapAt, DayLength

(***************************************************************************)
(* What is exported can be uploaded.                                       *)
(***************************************************************************)
ValueFits(kind, value) ==
    value # None =>
        /\ kind = "DATE" => value \in Int
        /\ kind = "TIME" => value \in 0 .. DayLength - 1
        /\ kind = "TIMEZONE" =>
              value.offset \in Int /\ {value.forward, value.back} \subseteq Int \cup {None}

KindIn(s, c) == WorkbookSheets[s].columns[c].kind

LEMMA DateKinds ==
    /\ \A s \in {"scenes", "people", "equipment"} : \A c \in DOMAIN WorkbookSheets[s].columns :
          KindIn(s, c) \notin {"DATE", "TIME", "TIMEZONE"}
    /\ \A c \in DOMAIN WorkbookSheets["production"].columns :
          /\ KindIn("production", c) = "DATE" => c \in {"shoot_start", "shoot_end"}
          /\ KindIn("production", c) = "TIMEZONE" => c = "timezone"
          /\ KindIn("production", c) # "TIME"
    /\ \A c \in DOMAIN WorkbookSheets["locations"].columns :
          /\ KindIn("locations", c) = "TIME" => c \in {"permit_start_time", "permit_end_time"}
          /\ KindIn("locations", c) \notin {"DATE", "TIMEZONE"}
    /\ \A c \in DOMAIN WorkbookSheets["availability"].columns :
          /\ KindIn("availability", c) = "DATE" => c \in {"from_date", "to_date"}
          /\ KindIn("availability", c) \notin {"TIME", "TIMEZONE"}
    /\ \A c \in DOMAIN WorkbookSheets["schedule"].columns :
          /\ KindIn("schedule", c) = "DATE" => c = "date"
          /\ KindIn("schedule", c) = "TIME" => c \in {"call_time", "wrap_time"}
          /\ KindIn("schedule", c) # "TIMEZONE"
<1>1. \A c \in DOMAIN ScenesSheet.columns :
          ScenesSheet.columns[c].kind \notin {"DATE", "TIME", "TIMEZONE"}
    BY DEF ScenesSheet, Sheet, Required, Optional, RequiredOf, Column
<1>2. \A c \in DOMAIN PeopleSheet.columns :
          PeopleSheet.columns[c].kind \notin {"DATE", "TIME", "TIMEZONE"}
    BY DEF PeopleSheet, Sheet, Required, Optional, RequiredOf, Column
<1>3. \A c \in DOMAIN EquipmentSheet.columns :
          EquipmentSheet.columns[c].kind \notin {"DATE", "TIME", "TIMEZONE"}
    BY DEF EquipmentSheet, Sheet, Required, Optional, Column
<1>4. \A c \in DOMAIN ProductionSheet.columns :
          /\ ProductionSheet.columns[c].kind = "DATE" => c \in {"shoot_start", "shoot_end"}
          /\ ProductionSheet.columns[c].kind = "TIMEZONE" => c = "timezone"
          /\ ProductionSheet.columns[c].kind # "TIME"
    BY DEF ProductionSheet, Sheet, Required, Optional, RequiredOf, Column
<1>5. \A c \in DOMAIN LocationsSheet.columns :
          /\ LocationsSheet.columns[c].kind = "TIME" => c \in {"permit_start_time", "permit_end_time"}
          /\ LocationsSheet.columns[c].kind \notin {"DATE", "TIMEZONE"}
    BY DEF LocationsSheet, Sheet, Required, Optional, Column
<1>6. \A c \in DOMAIN AvailabilitySheet.columns :
          /\ AvailabilitySheet.columns[c].kind = "DATE" => c \in {"from_date", "to_date"}
          /\ AvailabilitySheet.columns[c].kind \notin {"TIME", "TIMEZONE"}
    BY DEF AvailabilitySheet, Sheet, Required, RequiredOf, Column
<1>7. \A c \in DOMAIN ScheduleSheet.columns :
          /\ ScheduleSheet.columns[c].kind = "DATE" => c = "date"
          /\ ScheduleSheet.columns[c].kind = "TIME" => c \in {"call_time", "wrap_time"}
          /\ ScheduleSheet.columns[c].kind # "TIMEZONE"
    BY DEF ScheduleSheet, Sheet, Required, Optional, OptionalOf, Column
<1> QED
    BY <1>1, <1>2, <1>3, <1>4, <1>5, <1>6, <1>7, SheetsAre DEF KindIn

LEMMA ListingOfSet ==
    ASSUME NEW S, IsFiniteSet(S)
    PROVE  Cardinality(S) \in Nat /\ SetToSeq(S) \in [1 .. Cardinality(S) -> S]
<1> DEFINE n == Cardinality(S)
<1>1. n \in Nat /\ ExistsBijection(1 .. n, S)
    BY FS_CardinalityType
<1> HIDE DEF n
<1>2. \E f \in [1 .. n -> S] : IsInjective(f)
    BY <1>1 DEF ExistsBijection, Bijection, Injection, IsInjective
<1>3. SetToSeq(S) = CHOOSE f \in [1 .. n -> S] : IsInjective(f)
    BY DEF SetToSeq, n
<1>4. SetToSeq(S) \in [1 .. n -> S]
    BY <1>2, <1>3
<1> QED
    BY <1>1, <1>4 DEF n

\* What is written for a value fits where the value did.
LEMMA GuardedFits ==
    ASSUME NEW kind, NEW value, ValueFits(kind, value), ~IsEmpty(kind, value)
    PROVE  CellFits(kind, TypedCell(CellValue(kind, value)))
<1> DEFINE written == CellValue(kind, value)
<1>1. kind \notin {"STRING", "ID_LIST"} => written = value
    BY DEF CellValue
<1>2. kind = "STRING" => written = guard_formula(value)
    BY DEF CellValue
<1>3. kind \notin Lists => value # None
    BY DEF IsEmpty
<1>4. kind \notin Lists => written # None
    BY <1>1, <1>2, <1>3, QuotedAssumption DEF guard_formula, Lists
<1>5. /\ kind = "DATE" => written \in Int
      /\ kind = "TIME" => written \in 0 .. DayLength - 1
      /\ kind = "TIMEZONE" => /\ written.offset \in Int
                             /\ {written.forward, written.back} \subseteq Int \cup {None}
    BY <1>1, <1>3 DEF ValueFits, Lists
<1> HIDE DEF written
<1> QED
    BY <1>4, <1>5 DEF CellFits, TypedCell, written

\* A sheet of rows whose values fit is one a person could have typed.
LEMMA TypedSheetFits ==
    ASSUME NEW of, NEW s \in SheetNames, NEW n \in Nat, DOMAIN ExportedRows(of, s) = 1 .. n,
           \A i \in 1 .. n : \A c \in DOMAIN WorkbookSheets[s].columns :
               ValueFits(WorkbookSheets[s].columns[c].kind, ExportedRows(of, s)[i][c]),
           s = "schedule" => \A i \in 1 .. n : ExportedRows(of, s)[i]["unit"] \in ToSet(UnitNames)
    PROVE  SheetFits(s, ReadSheet("XLSX", ExportedSheet(of, s)))
<1> DEFINE columns == WorkbookSheets[s].columns
           rows    == ExportedRows(of, s)
           cell(i, c) == IF IsEmpty(columns[c].kind, rows[i][c]) THEN BlankCell
                         ELSE TypedCell(CellValue(columns[c].kind, rows[i][c]))
           sheet   == ExportedSheet(of, s)
           read    == ReadSheet("XLSX", sheet)
<1>1. /\ sheet.headers = DOMAIN columns /\ sheet.merged = {}
      /\ sheet.rows = [i \in 1 .. n |-> [c \in DOMAIN columns |-> cell(i, c)]]
    BY DEF ExportedSheet
<1> HIDE DEF sheet, cell, rows
<1>2. read = [sheet EXCEPT !.rows =
                [i \in DOMAIN sheet.rows |-> [c \in sheet.headers |-> Expanded(sheet, i, c)]]]
    BY DEF ReadSheet
<1>3. "rows" \in DOMAIN sheet
    BY DEF sheet, ExportedSheet
<1>4. read.rows = [i \in 1 .. n |-> [c \in DOMAIN columns |-> Expanded(sheet, i, c)]]
    BY <1>1, <1>2, <1>3
<1>5. ASSUME NEW i \in 1 .. n, NEW c \in DOMAIN columns
      PROVE  Expanded(sheet, i, c) = cell(i, c)
  <2>1. {m \in sheet.merged : m.top < i /\ i <= m.bottom /\ c \in m.columns} = {}
    BY <1>1
  <2>2. Cell(sheet.rows[i], c) = cell(i, c)
    BY <1>1 DEF Cell
  <2> QED
    BY <2>1, <2>2 DEF Expanded
<1> HIDE DEF read
<1>6. /\ DOMAIN read.rows = 1 .. n /\ Len(read.rows) = n
      /\ \A i \in 1 .. n, c \in DOMAIN columns : Cell(read.rows[i], c) = cell(i, c)
  <2>1. DOMAIN read.rows = 1 .. n /\ Len(read.rows) = n
    BY <1>4
  <2>2. \A i \in 1 .. n, c \in DOMAIN columns : Cell(read.rows[i], c) = cell(i, c)
    BY <1>4, <1>5 DEF Cell
  <2> QED
    BY <2>1, <2>2
<1>7. ASSUME NEW i \in 1 .. n, NEW c \in DOMAIN columns
      PROVE  CellFits(columns[c].kind, cell(i, c))
  <2>1. ValueFits(columns[c].kind, rows[i][c])
    BY DEF rows
  <2>2. CASE IsEmpty(columns[c].kind, rows[i][c])
    BY <2>2 DEF cell, CellFits, BlankCell
  <2>3. CASE ~IsEmpty(columns[c].kind, rows[i][c])
    <3>1. cell(i, c) = TypedCell(CellValue(columns[c].kind, rows[i][c]))
      BY <2>3 DEF cell
    <3> QED
      BY <2>1, <2>3, <3>1, GuardedFits
  <2> QED
    BY <2>2, <2>3
<1>8. ASSUME s = "schedule", NEW i \in 1 .. n PROVE NamesUnit(Cell(read.rows[i], "unit"))
  <2>1. "unit" \in DOMAIN columns /\ rows[i]["unit"] \in ToSet(UnitNames)
    BY <1>8, ScheduleColumns DEF rows
  <2>2. Cell(read.rows[i], "unit") = cell(i, "unit")
    BY <1>6, <2>1
  <2>3. columns["unit"].kind = "STRING"
    BY <1>8, ScheduleColumns DEF Optional, Column
  <2>4. CellValue("STRING", rows[i]["unit"]) \in ToSet(UnitNames)
    BY <2>1, QuotedAssumption DEF CellValue
  <2> QED
    BY <2>2, <2>3, <2>4 DEF cell, NamesUnit, BlankCell, TypedCell
<1>9. /\ Len(read.rows) \in Nat /\ DOMAIN read.rows = 1 .. Len(read.rows)
      /\ \A i \in DOMAIN read.rows :
            /\ \A c \in DOMAIN columns : CellFits(columns[c].kind, Cell(read.rows[i], c))
            /\ s = "schedule" => NamesUnit(Cell(read.rows[i], "unit"))
    BY <1>6, <1>7, <1>8
<1> QED
    BY <1>9 DEF SheetFits, read, sheet

LEMMA StateRows ==
    ASSUME WorkbookInv, state # NoState
    PROVE  /\ \A i \in DOMAIN tables["people"] : PersonFits(tables["people"][i])
           /\ \A i \in DOMAIN tables["locations"] : LocationFits(tables["locations"][i])
           /\ \A i \in DOMAIN tables["availability"] : WindowFits(tables["availability"][i])
           /\ \A i \in ScheduleRows : DayFits(tables["schedule"][i])
           /\ ProductionFits(Production)
           /\ \A s \in SheetNames : IsFiniteSet(DOMAIN tables[s]) /\ DOMAIN tables[s] \subseteq Nat
           /\ IsFiniteSet(ScheduleRows) /\ ScheduleRows \subseteq Nat
<1>1. /\ Reached(AfterRows) /\ SheetsFit /\ SheetsThere /\ RowsRead /\ ProductionRead
    BY DEF WorkbookInv, Reached
<1>2. "schedule" \in SheetNames
    BY SheetsAre
<1> QED
    BY <1>1, <1>2, TablesThere, RowsFit, ProductionIs DEF ScheduleRows

LEMMA WallIs ==
    ASSUME NEW t \in Int
    PROVE  /\ Moment(Zone, t).wall = t
           /\ ClockOf(Moment(Zone, t)) \in 0 .. DayLength - 1
           /\ DateOf(Moment(Zone, t)) \in Int
<1>1. Moment(Zone, t).wall = t
    BY DEF Moment
<1>2. t % 48 \in 0 .. 47 /\ t \div 48 \in Int
    OBVIOUS
<1> QED
    BY <1>1, <1>2 DEF ClockOf, DateOf, DayLength

\* The moments of a day.
LEMMA DayTyped ==
    ASSUME WorkbookInv, state # NoState, NEW k \in DOMAIN state.days
    PROVE  \E v : /\ DayFits(v) /\ state.days[k] = ShootingDay(v)
                  /\ state.days[k].date \in Int /\ state.days[k].unit \in ToSet(UnitNames)
                  /\ state.days[k].call_time = Moment(Zone, CallAt(v)) /\ CallAt(v) \in Int
                  /\ state.days[k].wrap_time = Moment(Zone, WrapAt(v)) /\ WrapAt(v) \in Int
<1>1. state.days = Days
    BY AllHeld, NewStateIs
<1>2. PICK i \in ScheduleRows : state.days[k] = ShootingDay(tables["schedule"][i])
    BY <1>1, StateRows, DaysAre
<1> DEFINE v == tables["schedule"][i]
<1>3. DayFits(v)
    BY StateRows
<1>4. /\ ShootingDay(v).date = v.date /\ ShootingDay(v).unit = v.unit
      /\ ShootingDay(v).call_time = Moment(Zone, CallAt(v))
      /\ ShootingDay(v).wrap_time = Moment(Zone, WrapAt(v))
    BY DEF ShootingDay
<1>5. CallAt(v) \in Int /\ WrapAt(v) \in Int
    BY <1>3, DayClocks
<1> QED
    BY <1>2, <1>3, <1>4, <1>5 DEF DayFits

LEMMA ProductionExported ==
    ASSUME WorkbookInv, state # NoState
    PROVE  SheetFits("production", ReadSheet("XLSX", ExportedSheet(state, "production")))
<1>1. PICK row :
          /\ ExportedRows(state, "production") = <<row>>
          /\ row["timezone"] = InferredZone(state)
          /\ row["shoot_start"] = state.production.shoot_start
          /\ row["shoot_end"] = state.production.shoot_end
    BY DEF ExportedRows
<1>2. /\ state.production.shoot_start \in Int /\ state.production.shoot_end \in Int
    BY AllHeld, NewStateIs, StateRows DEF ProductionFits
<1>3. /\ InferredZone(state).offset \in Int
      /\ InferredZone(state).forward = None /\ InferredZone(state).back = None
  <2>1. ASSUME NEW offset \in Int
        PROVE  /\ FixedZone(offset).offset \in Int
               /\ FixedZone(offset).forward = None /\ FixedZone(offset).back = None
    BY DEF FixedZone
  <2>2. CASE state.days = <<>>
    BY <2>1, <2>2 DEF InferredZone
  <2>3. CASE state.days # <<>>
    <3>1. 1 \in DOMAIN state.days
      <4>1. state.days = Days /\ DOMAIN Days = 1 .. Cardinality(ScheduleRows)
               /\ Cardinality(ScheduleRows) \in Nat
        BY AllHeld, NewStateIs, StateRows, DaysAre
      <4>2. CASE Cardinality(ScheduleRows) = 0
        <5>1. Days = [k \in 1 .. 0 |-> Days[k]]
          BY <4>1, <4>2 DEF Days
        <5>2. Days = <<>>
          BY <5>1
        <5> QED
          BY <2>3, <4>1, <5>2
      <4>3. CASE Cardinality(ScheduleRows) # 0
        BY <4>1, <4>3
      <4> QED
        BY <4>2, <4>3
    <3>2. PICK v : /\ state.days[1].call_time = Moment(Zone, CallAt(v)) /\ CallAt(v) \in Int
      BY <3>1, DayTyped
    <3>3. Instant(Zone, CallAt(v)) \in Int
      BY <3>2, StateRows, InstantIs DEF ProductionFits, Zone
    <3>4. state.days[1].call_time.wall - state.days[1].call_time.at \in Int
      BY <3>2, <3>3 DEF Moment
    <3> QED
      BY <2>1, <3>4 DEF InferredZone
  <2> QED
    BY <2>2, <2>3
<1>4. ASSUME NEW c \in DOMAIN WorkbookSheets["production"].columns
      PROVE  ValueFits(WorkbookSheets["production"].columns[c].kind, row[c])
  <2>1. /\ KindIn("production", c) = "DATE" => row[c] \in Int
        /\ KindIn("production", c) = "TIMEZONE" => row[c] = InferredZone(state)
        /\ KindIn("production", c) # "TIME"
    BY <1>1, <1>2, DateKinds
  <2> QED
    BY <1>3, <2>1 DEF ValueFits, KindIn
<1>5. DOMAIN ExportedRows(state, "production") = 1 .. 1
    BY <1>1
<1>6. \A i \in 1 .. 1 : \A c \in DOMAIN WorkbookSheets["production"].columns :
          ValueFits(WorkbookSheets["production"].columns[c].kind,
                    ExportedRows(state, "production")[i][c])
    BY <1>1, <1>4
<1> QED
    BY <1>5, <1>6, SheetsAre, TypedSheetFits

LEMMA RecordsFinite ==
    ASSUME WorkbookInv, state # NoState
    PROVE  /\ \A s \in SheetNames : IsFiniteSet(Records(s))
           /\ IsFiniteSet(state.scenes) /\ IsFiniteSet(state.people)
           /\ IsFiniteSet(state.locations) /\ IsFiniteSet(state.equipment)
<1>1. ASSUME NEW s \in SheetNames PROVE IsFiniteSet(Records(s))
  <2> DEFINE f == tables[s]
  <2>1. IsFiniteSet(DOMAIN f)
    BY StateRows
  <2>2. IsFiniteSet({f[i] : i \in DOMAIN f})
    BY <2>1, ImageFinite
  <2> QED
    BY <2>2 DEF Records
<1>2. {"scenes", "people", "locations", "equipment"} \subseteq SheetNames
    BY SheetsAre
<1>3. IsFiniteSet(People)
  <2> DEFINE R == Records("people")
             f == [v \in R |->
                     [id |-> v.person_id, name |-> v.name, role |-> v.role,
                      daily_rate |-> v.daily_rate,
                      unavailable_windows |-> WindowsOf(v.person_id, "UNAVAILABLE")]]
  <2>1. People = {f[v] : v \in R}
    BY DEF People
  <2> HIDE DEF f
  <2> QED
    BY <1>1, <1>2, <2>1, ImageFinite
<1>4. IsFiniteSet(Locations)
  <2> DEFINE R == Records("locations")
             f == [v \in R |->
                     [id |-> v.location_id, name |-> v.name, day_rate |-> v.day_rate,
                      permit_windows |-> PermitWindows(v), supports_int_ext |-> v.supports_int_ext,
                      supports_time_of_day |-> v.supports_time_of_day]]
  <2>1. Locations = {f[v] : v \in R}
    BY DEF Locations
  <2> HIDE DEF f
  <2> QED
    BY <1>1, <1>2, <2>1, ImageFinite
<1>5. IsFiniteSet(Equipment)
  <2> DEFINE R == Records("equipment")
             f == [v \in R |->
                     [id |-> v.equipment_id, name |-> v.name, daily_rate |-> v.daily_rate,
                      available_windows |-> WindowsOf(v.equipment_id, "AVAILABLE")]]
  <2>1. Equipment = {f[v] : v \in R}
    BY DEF Equipment
  <2> HIDE DEF f
  <2> QED
    BY <1>1, <1>2, <2>1, ImageFinite
<1> QED
    BY <1>1, <1>2, <1>3, <1>4, <1>5, AllHeld, NewStateIs

LEMMA UndatedExported ==
    ASSUME WorkbookInv, state # NoState, NEW s \in {"scenes", "people", "equipment"}
    PROVE  SheetFits(s, ReadSheet("XLSX", ExportedSheet(state, s)))
<1>1. PICK S : IsFiniteSet(S) /\ ExportedRows(state, s) = SetToSeq(S)
  <2>1. CASE s = "scenes"
    <3>1. ExportedRows(state, "scenes") = SetToSeq(state.scenes)
      BY DEF ExportedRows
    <3> QED
      BY <2>1, <3>1, RecordsFinite
  <2>2. CASE s = "people"
    <3> DEFINE f == [p \in state.people |-> [person_id |-> p.id, name |-> p.name, role |-> p.role,
                                             daily_rate |-> p.daily_rate]]
    <3>1. ExportedRows(state, "people") = SetToSeq({f[p] : p \in state.people})
      <4>1. {[person_id |-> p.id, name |-> p.name, role |-> p.role, daily_rate |-> p.daily_rate] :
                p \in state.people} = {f[p] : p \in state.people}
        OBVIOUS
      <4> QED
        BY <4>1 DEF ExportedRows
    <3> HIDE DEF f
    <3>2. IsFiniteSet({f[p] : p \in state.people})
      BY RecordsFinite, ImageFinite
    <3> QED
      BY <2>2, <3>1, <3>2
  <2>3. CASE s = "equipment"
    <3> DEFINE f == [e \in state.equipment |-> [equipment_id |-> e.id, name |-> e.name,
                                                daily_rate |-> e.daily_rate]]
    <3>1. ExportedRows(state, "equipment") = SetToSeq({f[e] : e \in state.equipment})
      <4>1. {[equipment_id |-> e.id, name |-> e.name, daily_rate |-> e.daily_rate] :
                e \in state.equipment} = {f[e] : e \in state.equipment}
        OBVIOUS
      <4> QED
        BY <4>1 DEF ExportedRows
    <3> HIDE DEF f
    <3>2. IsFiniteSet({f[e] : e \in state.equipment})
      BY RecordsFinite, ImageFinite
    <3> QED
      BY <2>3, <3>1, <3>2
  <2> QED
    BY <2>1, <2>2, <2>3
<1>2. Cardinality(S) \in Nat /\ DOMAIN ExportedRows(state, s) = 1 .. Cardinality(S)
    BY <1>1, ListingOfSet
<1>3. \A c \in DOMAIN WorkbookSheets[s].columns : \A value :
          ValueFits(WorkbookSheets[s].columns[c].kind, value)
    BY DateKinds DEF KindIn, ValueFits
<1> QED
    BY <1>2, <1>3, SheetsAre, TypedSheetFits

LEMMA ScheduleExported ==
    ASSUME WorkbookInv, state # NoState
    PROVE  SheetFits("schedule", ReadSheet("XLSX", ExportedSheet(state, "schedule")))
<1> DEFINE rows == ExportedRows(state, "schedule")
           n    == Cardinality(ScheduleRows)
<1>1. state.days = Days /\ DOMAIN Days = 1 .. n /\ n \in Nat
    BY AllHeld, NewStateIs, StateRows, DaysAre
<1>2. DOMAIN rows = 1 .. n
    BY <1>1 DEF ExportedRows
<1>3. ASSUME NEW k \in 1 .. n
      PROVE  /\ rows[k]["date"] = state.days[k].date
             /\ rows[k]["call_time"] = ClockOf(state.days[k].call_time)
             /\ rows[k]["wrap_time"] = ClockOf(state.days[k].wrap_time)
             /\ rows[k]["unit"] = state.days[k].unit
    BY <1>1 DEF ExportedRows
<1> HIDE DEF rows
<1>4. ASSUME NEW k \in 1 .. n
      PROVE  /\ rows[k]["date"] \in Int /\ rows[k]["unit"] \in ToSet(UnitNames)
             /\ rows[k]["call_time"] \in 0 .. DayLength - 1
             /\ rows[k]["wrap_time"] \in 0 .. DayLength - 1
  <2>1. PICK v : /\ state.days[k].date \in Int /\ state.days[k].unit \in ToSet(UnitNames)
                 /\ state.days[k].call_time = Moment(Zone, CallAt(v)) /\ CallAt(v) \in Int
                 /\ state.days[k].wrap_time = Moment(Zone, WrapAt(v)) /\ WrapAt(v) \in Int
    BY <1>1, DayTyped
  <2> QED
    BY <1>3, <2>1, WallIs
<1>5. ASSUME NEW k \in 1 .. n, NEW c \in DOMAIN WorkbookSheets["schedule"].columns
      PROVE  ValueFits(WorkbookSheets["schedule"].columns[c].kind, rows[k][c])
  <2>1. /\ KindIn("schedule", c) = "DATE" => rows[k][c] \in Int
        /\ KindIn("schedule", c) = "TIME" => rows[k][c] \in 0 .. DayLength - 1
        /\ KindIn("schedule", c) # "TIMEZONE"
    BY <1>4, DateKinds
  <2> QED
    BY <2>1 DEF ValueFits, KindIn
<1>6. "schedule" \in SheetNames
    BY SheetsAre
<1> QED
    BY <1>1, <1>2, <1>4, <1>5, <1>6, TypedSheetFits DEF rows

LEMMA ShootTyped ==
    ASSUME WorkbookInv, state # NoState
    PROVE  ShootDates \subseteq Int
BY StateRows DEF ProductionFits, ShootDates

LEMMA PermitTyped ==
    ASSUME NEW v, LocationFits(v), ShootDates \subseteq Int, NEW w \in PermitWindows(v)
    PROVE  \E from, to \in Int : w = [start |-> Moment(Zone, from), end |-> Moment(Zone, to)]
<1> DEFINE opens  == v.permit_start_time
           closes == v.permit_end_time
<1>1. PICK d \in ShootDates : w = PermitOn(d, opens, closes)
    BY DEF PermitWindows
<1>2. d \in Int
    BY <1>1
<1>3. CASE opens = None \/ closes = None
  <2>1. w = [start |-> Moment(Zone, d * DayLength), end |-> Moment(Zone, (d + 1) * DayLength)]
    BY <1>1, <1>3 DEF PermitOn, WholeDays, Midnight
  <2>2. d * DayLength \in Int /\ (d + 1) * DayLength \in Int
    BY <1>2 DEF DayLength
  <2> QED
    BY <2>1, <2>2
<1>4. CASE ~(opens = None \/ closes = None)
  <2> DEFINE from == d * DayLength + opens
             to   == (IF closes <= opens THEN d + 1 ELSE d) * DayLength + closes
  <2>1. w = [start |-> Moment(Zone, from), end |-> Moment(Zone, to)]
    BY <1>1, <1>4 DEF PermitOn
  <2>2. opens \in Int /\ closes \in Int
    BY <1>4 DEF LocationFits
  <2>3. from \in Int /\ to \in Int
    BY <1>2, <2>2 DEF DayLength
  <2> QED
    BY <2>1, <2>3
<1> QED
    BY <1>3, <1>4

LEMMA LocationsExported ==
    ASSUME WorkbookInv, state # NoState
    PROVE  SheetFits("locations", ReadSheet("XLSX", ExportedSheet(state, "locations")))
<1> DEFINE f == [l \in state.locations |->
                   [location_id |-> l.id, name |-> l.name, day_rate |-> l.day_rate,
                    permit_start_time |-> DailyPermit(l)[1], permit_end_time |-> DailyPermit(l)[2],
                    supports_int_ext |-> l.supports_int_ext,
                    supports_time_of_day |-> l.supports_time_of_day]]
           S == {f[l] : l \in state.locations}
           Clocks == 0 .. DayLength - 1 \cup {None}
<1>1. ASSUME NEW l \in state.locations
      PROVE  DailyPermit(l)[1] \in Clocks /\ DailyPermit(l)[2] \in Clocks
  <2>1. CASE l.permit_windows = {}
    BY <2>1 DEF DailyPermit
  <2>2. CASE l.permit_windows # {}
    <3>1. ClockPairs(l) # {} /\ DailyPermit(l) \in ClockPairs(l)
      <4>1. ClockPairs(l) # {}
        BY <2>2 DEF ClockPairs
      <4> QED
        BY <2>2, <4>1 DEF DailyPermit
    <3>2. PICK w \in l.permit_windows : DailyPermit(l) = <<ClockOf(w.start), ClockOf(w.end)>>
      BY <3>1 DEF ClockPairs
    <3>3. PICK v \in Records("locations") : l.permit_windows = PermitWindows(v)
      BY AllHeld, NewStateIs DEF Locations
    <3>4. LocationFits(v)
      BY <3>3, StateRows DEF Records
    <3>5. PICK from \in Int, to \in Int : w = [start |-> Moment(Zone, from), end |-> Moment(Zone, to)]
      BY <3>2, <3>3, <3>4, ShootTyped, PermitTyped
    <3>6. ClockOf(w.start) \in 0 .. DayLength - 1 /\ ClockOf(w.end) \in 0 .. DayLength - 1
      BY <3>5, WallIs
    <3> QED
      BY <3>2, <3>6
  <2> QED
    BY <2>1, <2>2
<1>2. ExportedRows(state, "locations") = SetToSeq(S)
  <2>1. {[location_id |-> l.id, name |-> l.name, day_rate |-> l.day_rate,
          permit_start_time |-> DailyPermit(l)[1], permit_end_time |-> DailyPermit(l)[2],
          supports_int_ext |-> l.supports_int_ext,
          supports_time_of_day |-> l.supports_time_of_day] : l \in state.locations} = S
    OBVIOUS
  <2> QED
    BY <2>1 DEF ExportedRows
<1>3. ASSUME NEW row \in S
      PROVE  row["permit_start_time"] \in Clocks /\ row["permit_end_time"] \in Clocks
  <2>1. PICK l \in state.locations : row = f[l]
    OBVIOUS
  <2>2. row["permit_start_time"] = DailyPermit(l)[1] /\ row["permit_end_time"] = DailyPermit(l)[2]
    BY <2>1
  <2> QED
    BY <1>1, <2>2
<1> HIDE DEF f
<1>4. IsFiniteSet(S)
    BY RecordsFinite, ImageFinite
<1> HIDE DEF S
<1> DEFINE n == Cardinality(S)
           rows == ExportedRows(state, "locations")
<1>5. n \in Nat /\ DOMAIN rows = 1 .. n /\ \A i \in 1 .. n : rows[i] \in S
    BY <1>2, <1>4, ListingOfSet
<1> HIDE DEF rows
<1>6. ASSUME NEW i \in 1 .. n, NEW c \in DOMAIN WorkbookSheets["locations"].columns
      PROVE  ValueFits(WorkbookSheets["locations"].columns[c].kind, rows[i][c])
  <2>1. /\ KindIn("locations", c) = "TIME" => rows[i][c] \in Clocks
        /\ KindIn("locations", c) \notin {"DATE", "TIMEZONE"}
    BY <1>3, <1>5, DateKinds
  <2> QED
    BY <2>1 DEF ValueFits, KindIn
<1>7. "locations" \in SheetNames
    BY SheetsAre
<1> QED
    BY <1>5, <1>6, <1>7, TypedSheetFits DEF rows

LEMMA WindowsTyped ==
    ASSUME WorkbookInv, state # NoState, NEW id, NEW kind
    PROVE  /\ IsFiniteSet(WindowsOf(id, kind))
           /\ \A w \in WindowsOf(id, kind) : \A type :
                 /\ AvailabilityRow(type, id, kind, w)["from_date"] \in Int
                 /\ AvailabilityRow(type, id, kind, w)["to_date"] \in Int
<1>1. "availability" \in SheetNames
    BY SheetsAre
<1>2. AvailabilityOf(id, kind) \subseteq Records("availability")
    BY DEF AvailabilityOf, Records
<1>3. IsFiniteSet(AvailabilityOf(id, kind))
    BY <1>1, <1>2, RecordsFinite, FS_Subset
<1> DEFINE f == [v \in AvailabilityOf(id, kind) |-> WholeDays(v.from_date, v.to_date)]
<1>4. WindowsOf(id, kind) = {f[v] : v \in AvailabilityOf(id, kind)}
    BY DEF WindowsOf
<1>5. ASSUME NEW w \in WindowsOf(id, kind)
      PROVE  \E from, to \in Int : w = WholeDays(from, to)
  <2>1. PICK v \in Records("availability") : w = WholeDays(v.from_date, v.to_date)
    BY <1>2 DEF WindowsOf
  <2>2. WindowFits(v)
    BY <2>1, StateRows DEF Records
  <2> QED
    BY <2>1, <2>2 DEF WindowFits
<1> HIDE DEF f
<1>6. IsFiniteSet(WindowsOf(id, kind))
    BY <1>3, <1>4, ImageFinite
<1>7. ASSUME NEW w \in WindowsOf(id, kind), NEW type
      PROVE  /\ AvailabilityRow(type, id, kind, w)["from_date"] \in Int
             /\ AvailabilityRow(type, id, kind, w)["to_date"] \in Int
  <2>1. PICK from \in Int, to \in Int : w = WholeDays(from, to)
    BY <1>5
  <2>2. w.start = Moment(Zone, from * DayLength) /\ w.end = Moment(Zone, (to + 1) * DayLength)
    BY <2>1 DEF WholeDays, Midnight
  <2>3. w.start.wall = from * 48 /\ [w.end EXCEPT !.wall = @ - DayLength].wall = (to + 1) * 48 - 48
    BY <2>2 DEF Moment, DayLength
  <2>4. (from * 48) \div 48 \in Int /\ ((to + 1) * 48 - 48) \div 48 \in Int
    OBVIOUS
  <2>5. /\ AvailabilityRow(type, id, kind, w)["from_date"] = DateOf(w.start)
        /\ AvailabilityRow(type, id, kind, w)["to_date"] = DateOf([w.end EXCEPT !.wall = @ - DayLength])
    BY DEF AvailabilityRow
  <2> QED
    BY <2>3, <2>4, <2>5 DEF DateOf, DayLength
<1> QED
    BY <1>6, <1>7

LEMMA AvailabilityExported ==
    ASSUME WorkbookInv, state # NoState
    PROVE  SheetFits("availability", ReadSheet("XLSX", ExportedSheet(state, "availability")))
<1> DEFINE out(p)  == {AvailabilityRow("PERSON", p.id, "UNAVAILABLE", w) : w \in p.unavailable_windows}
           free(e) == {AvailabilityRow("EQUIPMENT", e.id, "AVAILABLE", w) : w \in e.available_windows}
           outs  == {out(p) : p \in state.people}
           frees == {free(e) : e \in state.equipment}
           S     == (UNION outs) \cup (UNION frees)
           Dated(row) == row["from_date"] \in Int /\ row["to_date"] \in Int
<1>1. ASSUME NEW p \in state.people PROVE IsFiniteSet(out(p)) /\ \A row \in out(p) : Dated(row)
  <2>1. p.unavailable_windows = WindowsOf(p.id, "UNAVAILABLE")
    BY AllHeld, NewStateIs DEF People
  <2> DEFINE f == [w \in p.unavailable_windows |-> AvailabilityRow("PERSON", p.id, "UNAVAILABLE", w)]
  <2>2. out(p) = {f[w] : w \in p.unavailable_windows}
    OBVIOUS
  <2>3. \A row \in out(p) : Dated(row)
    BY <2>1, WindowsTyped
  <2> HIDE DEF f, out
  <2> QED
    BY <2>1, <2>2, <2>3, WindowsTyped, ImageFinite
<1>2. ASSUME NEW e \in state.equipment PROVE IsFiniteSet(free(e)) /\ \A row \in free(e) : Dated(row)
  <2>1. e.available_windows = WindowsOf(e.id, "AVAILABLE")
    BY AllHeld, NewStateIs DEF Equipment
  <2> DEFINE f == [w \in e.available_windows |-> AvailabilityRow("EQUIPMENT", e.id, "AVAILABLE", w)]
  <2>2. free(e) = {f[w] : w \in e.available_windows}
    OBVIOUS
  <2>3. \A row \in free(e) : Dated(row)
    BY <2>1, WindowsTyped
  <2> HIDE DEF f, free
  <2> QED
    BY <2>1, <2>2, <2>3, WindowsTyped, ImageFinite
<1>3. ExportedRows(state, "availability") = SetToSeq(S)
    BY DEF ExportedRows
<1> HIDE DEF out, free, Dated
<1>4. IsFiniteSet(outs)
  <2> DEFINE f == [p \in state.people |-> out(p)]
  <2>1. outs = {f[p] : p \in state.people}
    OBVIOUS
  <2> HIDE DEF f, outs
  <2> QED
    BY <2>1, RecordsFinite, ImageFinite
<1>5. IsFiniteSet(frees)
  <2> DEFINE f == [e \in state.equipment |-> free(e)]
  <2>1. frees = {f[e] : e \in state.equipment}
    OBVIOUS
  <2> HIDE DEF f, frees
  <2> QED
    BY <2>1, RecordsFinite, ImageFinite
<1>6. IsFiniteSet(UNION outs) /\ IsFiniteSet(UNION frees)
    BY <1>1, <1>2, <1>4, <1>5, FS_UNION
<1>7. IsFiniteSet(S)
    BY <1>6, FS_Union
<1>8. \A row \in S : Dated(row)
    BY <1>1, <1>2
<1> HIDE DEF S
<1> DEFINE n == Cardinality(S)
           rows == ExportedRows(state, "availability")
<1>9. n \in Nat /\ DOMAIN rows = 1 .. n /\ \A i \in 1 .. n : rows[i] \in S
    BY <1>3, <1>7, ListingOfSet
<1> HIDE DEF rows
<1>10. ASSUME NEW i \in 1 .. n, NEW c \in DOMAIN WorkbookSheets["availability"].columns
       PROVE  ValueFits(WorkbookSheets["availability"].columns[c].kind, rows[i][c])
  <2>1. /\ KindIn("availability", c) = "DATE" => rows[i][c] \in Int
        /\ KindIn("availability", c) \notin {"TIME", "TIMEZONE"}
    BY <1>8, <1>9, DateKinds DEF Dated
  <2> QED
    BY <2>1 DEF ValueFits, KindIn
<1>11. "availability" \in SheetNames
    BY SheetsAre
<1> QED
    BY <1>9, <1>10, <1>11, TypedSheetFits DEF rows

LEMMA UploadExportKeeps ==
    ASSUME WorkbookInv, UploadExport
    PROVE  WorkbookInv'
<1>1. /\ state # NoState /\ phase' = "read" /\ sheets' = <<>> /\ tables' = <<>>
      /\ errors' = {} /\ warnings' = {} /\ state' = NoState
      /\ upload' = [bytes |-> 0, magic |-> "zip", name |-> ".xlsx", opens |-> TRUE, xl |-> TRUE,
                    entries |-> <<>>, book |-> [s \in SheetNames |-> ExportedSheet(state, s)]]
    BY DEF UploadExport, ExportState
<1>2. upload'.book = [s \in SheetNames |-> ExportedSheet(state, s)] /\ DetectKind(upload)' = "XLSX"
    BY <1>1 DEF DetectKind
<1>3. ASSUME NEW s \in SheetNames PROVE SheetFits(s, ReadSheet("XLSX", ExportedSheet(state, s)))
    BY <1>1, SheetsAre, ProductionExported, UndatedExported, LocationsExported, AvailabilityExported,
       ScheduleExported
<1> DEFINE new == upload'
<1>4. new.book = [s \in SheetNames |-> ExportedSheet(state, s)] /\ DetectKind(new) = "XLSX"
    BY <1>2 DEF DetectKind
<1> HIDE DEF new
<1>5. UploadFits(new)
    BY <1>3, <1>4 DEF UploadFits
<1>6. UploadFits(upload)'
    BY <1>5 DEF new, UploadFits, DetectKind
<1>7. DOMAIN <<>> = {}
    OBVIOUS
<1>8. TypeOK' /\ SheetsFit'
    BY <1>1, <1>7 DEF TypeOK, Phases, SheetsFit
<1>9. /\ SheetsThere' /\ ProductionRead' /\ RowsRead' /\ IdentityHolds'
      /\ ReferencesHold' /\ SemanticsHold'
    BY <1>1 DEF SheetsThere, ProductionRead, RowsRead, IdentityHolds, ReferencesHold, SemanticsHold,
                Reached, AfterSheets, AfterProduction, AfterRows, AfterIdentity, AfterReferences,
                AfterSemantics
<1>10. BuiltFromTables' /\ NoCascade'
    BY <1>1 DEF BuiltFromTables, NoCascade
<1> QED
    BY <1>6, <1>8, <1>9, <1>10 DEF WorkbookInv

LEMMA InitKeeps == Init => WorkbookInv
<1> SUFFICES ASSUME Init PROVE WorkbookInv
    OBVIOUS
<1> USE DEF Init
<1>1. DOMAIN <<>> = {}
    OBVIOUS
<1>2. TypeOK /\ SheetsFit
    BY <1>1 DEF TypeOK, Phases, SheetsFit
<1>3. UploadFits(upload)
    BY UploadsAssumption
<1>4. /\ SheetsThere /\ ProductionRead /\ RowsRead /\ IdentityHolds /\ ReferencesHold /\ SemanticsHold
    BY DEF SheetsThere, ProductionRead, RowsRead, IdentityHolds, ReferencesHold, SemanticsHold,
           Reached, AfterSheets, AfterProduction, AfterRows, AfterIdentity, AfterReferences,
           AfterSemantics
<1>5. BuiltFromTables /\ NoCascade
    BY DEF BuiltFromTables, NoCascade
<1> QED
    BY <1>2, <1>3, <1>4, <1>5 DEF WorkbookInv

LEMMA StepKeeps ==
    ASSUME WorkbookInv, [Next]_vars
    PROVE  WorkbookInv'
<1>1. CASE UNCHANGED vars
  <2>1. UNCHANGED <<upload, phase, sheets, tables, errors, warnings, state>>
    BY <1>1 DEF vars
  <2>2. CASE phase \in {"warnings", "done"}
    <3>1. CASE state # NoState
      <4>1. phase \in {"warnings", "done"} /\ \A e \in warnings' : e.sheet \in SheetNames \cup {Whole}
        BY <2>1, <2>2, WarningsPlain
      <4> QED
        BY <2>1, <3>1, <4>1, AllHeld, StateKeeps
    <3>2. CASE state = NoState
      <4>1. /\ TypeOK' /\ BuiltFromTables'
        BY <2>1, <3>2 DEF WorkbookInv, TypeOK, BuiltFromTables
      <4>2. UploadFits(upload)' /\ SheetsFit'
        <5>1. UploadFits(upload)' = UploadFits(upload)
          BY <2>1 DEF UploadFits
        <5> QED
          BY <2>1, <5>1, SameSheets DEF WorkbookInv
      <4>3. errors # {} /\ phase = "done"
        BY <2>2, <3>2 DEF WorkbookInv, TypeOK
      <4>4. /\ SheetsThere' /\ ProductionRead' /\ RowsRead' /\ IdentityHolds'
            /\ ReferencesHold' /\ SemanticsHold'
        BY <2>1, <3>2, <4>3
           DEF SheetsThere, ProductionRead, RowsRead, IdentityHolds, ReferencesHold, SemanticsHold,
               Reached, AfterSheets, AfterProduction, AfterRows, AfterIdentity, AfterReferences,
               AfterSemantics
      <4>5. NoCascade'
        BY <2>1 DEF WorkbookInv, NoCascade, FilledIn
      <4> QED
        BY <4>1, <4>2, <4>4, <4>5 DEF WorkbookInv
    <3> QED
      BY <3>1, <3>2
  <2>3. CASE phase \notin {"warnings", "done"}
    <3>1. errors = {} /\ state = NoState /\ Held(phase)
      BY <2>3, StillParsing
    <3>2. Report({}, phase)
      BY <2>1, <3>1 DEF Report
    <3>3. \A e \in {} \cup warnings' : e.sheet \in SheetNames \cup {Whole}
      BY <2>1, WarningsPlain
    <3> QED
      BY <2>1, <2>3, <3>1, <3>2, <3>3, CheckKeeps
  <2> QED
    BY <2>2, <2>3
<1>2. CASE Next
    BY <1>2, ReadKeeps, CheckSheetsKeeps, ReadProductionKeeps, ReadTablesKeeps, WithinBudgetKeeps,
       OverBudgetKeeps, CheckIdentityKeeps, CheckReferencesKeeps, CheckProductionKeeps,
       CheckSemanticsKeeps, BuildStateKeeps, WarnKeeps, UploadExportKeeps DEF Next
<1> QED
    BY <1>1, <1>2

\* Whatever the file, at every point of its import the phases that are over found
\* nothing wrong, the rows they read are the rows of the file, and a state is the
\* one built from them (parser._Parser.run).
THEOREM WorkbookInvariant == Spec => []WorkbookInv
<1>1. Init => WorkbookInv
    BY InitKeeps
<1>2. WorkbookInv /\ [Next]_vars => WorkbookInv'
    BY StepKeeps
<1> QED
    BY <1>1, <1>2, PTL DEF Spec

\* A parse that ends has either a state or what is wrong with the file
\* (ParseResult).
THEOREM WorkbookTypeCorrect == Spec => []TypeOK
<1>1. WorkbookInv => TypeOK
    BY DEF WorkbookInv
<1> QED
    BY <1>1, WorkbookInvariant, PTL

\* For any file: an id that is reported unknown is in no row of its sheet
\* (_Parser.run stops at the first phase that fails).
THEOREM UnknownIsAbsent == Spec => []NoCascade
<1>1. WorkbookInv => NoCascade
    BY DEF WorkbookInv
<1> QED
    BY <1>1, WorkbookInvariant, PTL

\* For any file: the state has a record for every row somebody filled in
\* (_read_rows, _build_state).
THEOREM EveryRowCounts == Spec => []NothingLost
<1>1. WorkbookInv => NothingLost
    BY CountsAgree DEF WorkbookInv
<1> QED
    BY <1>1, WorkbookInvariant, PTL

(***************************************************************************)
(* Closed locations.                                                       *)
(***************************************************************************)
\* Two rows with one key are one row.
LEMMA OneRow ==
    ASSUME WorkbookInv, state # NoState, NEW s \in KeyedSheets,
           NEW v \in Records(s), NEW w \in Records(s),
           v[WorkbookSheets[s].key] = w[WorkbookSheets[s].key]
    PROVE  v = w
<1>1. s \in SheetNames /\ WorkbookSheets[s].key # None
    BY SheetsAre, KeysAre, NoneAssumption DEF KeyedSheets
<1>2. PICK i \in DOMAIN tables[s] : v = tables[s][i]
    BY DEF Records
<1>3. PICK j \in DOMAIN tables[s] : w = tables[s][j]
    BY DEF Records
<1>4. DOMAIN tables[s] \subseteq Nat /\ RepeatedKeys = {}
    BY <1>1, StateRows, AllHeld
<1> QED
    BY <1>1, <1>2, <1>3, <1>4, KeysDiffer

\* No permit of a day that ends on that day reaches into another.
LEMMA PermitStaysInDay ==
    ASSUME NEW d \in Int, NEW x \in Int, x # d,
           NEW opens \in 0 .. DayLength - 1 \cup {None}, NEW closes \in 0 .. DayLength - 1 \cup {None},
           opens # None /\ closes # None => closes > opens
    PROVE  LET w == PermitOn(d, opens, closes)
           IN  w.end.wall <= x * DayLength \/ w.start.wall >= (x + 1) * DayLength
<1> DEFINE w == PermitOn(d, opens, closes)
<1>1. \E a, b \in 0 .. 48 : w.start.wall = d * 48 + a /\ w.end.wall = d * 48 + b
  <2>1. CASE opens = None \/ closes = None
    <3>1. w.start.wall = d * 48 /\ w.end.wall = (d + 1) * 48
      BY <2>1 DEF PermitOn, WholeDays, Midnight, Moment, DayLength
    <3>2. d * 48 = d * 48 + 0 /\ (d + 1) * 48 = d * 48 + 48 /\ 0 \in 0 .. 48 /\ 48 \in 0 .. 48
      OBVIOUS
    <3> QED
      BY <3>1, <3>2
  <2>2. CASE ~(opens = None \/ closes = None)
    <3>1. opens \in 0 .. 47 /\ closes \in 0 .. 47 /\ ~(closes <= opens)
      BY <2>2 DEF DayLength
    <3>2. w.start.wall = d * 48 + opens /\ w.end.wall = d * 48 + closes
      BY <2>2, <3>1 DEF PermitOn, Moment, DayLength
    <3>3. opens \in 0 .. 48 /\ closes \in 0 .. 48
      BY <3>1
    <3> HIDE DEF w
    <3> QED
      BY <3>2, <3>3
  <2> QED
    BY <2>1, <2>2
<1>2. PICK a \in 0 .. 48, b \in 0 .. 48 : w.start.wall = d * 48 + a /\ w.end.wall = d * 48 + b
    BY <1>1
<1>3. d < x \/ x < d
    OBVIOUS
<1>4. CASE d < x
    BY <1>2, <1>4 DEF DayLength
<1>5. CASE x < d
    BY <1>2, <1>5 DEF DayLength
<1> QED
    BY <1>3, <1>4, <1>5

LEMMA ClosedIsClosed ==
    ASSUME WorkbookInv
    PROVE  ClosuresKept
<1> SUFFICES ASSUME state # NoState,
                    NEW v \in {v \in Records("availability") : v.window_kind = "CLOSED"},
                    NEW row \in {row \in Records("locations") : row.location_id = v.subject_id},
                    ~(ShootDates \subseteq ClosedDays(v.subject_id)),
                    ~(row.permit_end_time # None /\ row.permit_start_time # None
                        /\ row.permit_end_time <= row.permit_start_time),
                    NEW l \in {l \in state.locations : l.id = v.subject_id}
             PROVE  /\ l.permit_windows # {}
                    /\ \A w \in l.permit_windows : \A d \in v.from_date .. v.to_date :
                          w.end.wall <= d * DayLength \/ w.start.wall >= (d + 1) * DayLength
    BY DEF ClosuresKept
<1> DEFINE opens  == row.permit_start_time
           closes == row.permit_end_time
           closed == ClosedDays(v.subject_id)
<1>1. PICK own \in Records("locations") :
          l.id = own.location_id /\ l.permit_windows = PermitWindows(own)
    BY AllHeld, NewStateIs DEF Locations
<1>2. own = row
    BY <1>1, OneRow, KeysAre DEF KeyedSheets
<1>3. LocationFits(row)
    BY StateRows DEF Records
<1>4. PICK i \in DOMAIN tables["availability"] : v = tables["availability"][i]
    BY DEF Records
<1>5. v.from_date \in Int /\ v.to_date \in Int
    BY <1>4, StateRows DEF WindowFits
<1>6. v.from_date <= v.to_date
  <2>1. ReversedWindows = {}
    BY AllHeld DEF SemanticErrors
  <2>2. ~(v.to_date < v.from_date)
    BY <1>4, <2>1 DEF ReversedWindows
  <2> QED
    BY <1>5, <2>2
<1>7. v.from_date .. v.to_date \subseteq closed
    BY <1>4 DEF ClosedDays, AvailabilityOf
<1>8. closed # {}
    BY <1>5, <1>6, <1>7
<1>9. l.permit_windows = {PermitOn(d, opens, closes) : d \in ShootDates \ closed}
    BY <1>1, <1>2, <1>8 DEF PermitWindows
<1>10. l.permit_windows # {}
    BY <1>9
<1>11. ASSUME NEW w \in l.permit_windows, NEW x \in v.from_date .. v.to_date
       PROVE  w.end.wall <= x * DayLength \/ w.start.wall >= (x + 1) * DayLength
  <2>1. PICK d \in ShootDates \ closed : w = PermitOn(d, opens, closes)
    BY <1>9
  <2>2. d \in Int /\ x \in Int /\ x # d
    BY <1>5, <1>7, <2>1, ShootTyped
  <2>3. /\ opens \in 0 .. DayLength - 1 \cup {None} /\ closes \in 0 .. DayLength - 1 \cup {None}
        /\ opens # None /\ closes # None => closes > opens
    BY <1>3 DEF LocationFits, DayLength
  <2> QED
    BY <2>1, <2>2, <2>3, PermitStaysInDay
<1> QED
    BY <1>10, <1>11

\* For any file: no permit reaches into a day its location is closed, except
\* those ClosuresKept names (_permit_windows).
THEOREM ClosedDaysStayClosed == Spec => []ClosuresKept
<1>1. WorkbookInv => ClosuresKept
    BY ClosedIsClosed
<1> QED
    BY <1>1, WorkbookInvariant, PTL

(***************************************************************************)
(* What comes out can be planned with.                                     *)
(***************************************************************************)
\* Every record has a row, and a key is one row's.
LEMMA RecordsAre ==
    ASSUME WorkbookInv, state # NoState
    PROVE  /\ state.scenes = Records("scenes")
           /\ \A p \in state.people : \E v \in Records("people") :
                 p.id = v.person_id /\ p.role = v.role /\ \A q \in state.people : q.id = v.person_id => q = p
           /\ \A l \in state.locations : \E v \in Records("locations") :
                 l.id = v.location_id /\ \A m \in state.locations : m.id = v.location_id => m = l
           /\ \A e \in state.equipment : \E v \in Records("equipment") :
                 e.id = v.equipment_id /\ \A g \in state.equipment : g.id = v.equipment_id => g = e
<1> DEFINE person(v) == [id |-> v.person_id, name |-> v.name, role |-> v.role,
                         daily_rate |-> v.daily_rate,
                         unavailable_windows |-> WindowsOf(v.person_id, "UNAVAILABLE")]
           place(v) == [id |-> v.location_id, name |-> v.name, day_rate |-> v.day_rate,
                        permit_windows |-> PermitWindows(v), supports_int_ext |-> v.supports_int_ext,
                        supports_time_of_day |-> v.supports_time_of_day]
           thing(v) == [id |-> v.equipment_id, name |-> v.name, daily_rate |-> v.daily_rate,
                        available_windows |-> WindowsOf(v.equipment_id, "AVAILABLE")]
<1>1. /\ state.scenes = Records("scenes")
      /\ \A p \in state.people : \E v \in Records("people") : p = person(v)
      /\ \A l \in state.locations : \E v \in Records("locations") : l = place(v)
      /\ \A e \in state.equipment : \E v \in Records("equipment") : e = thing(v)
    BY AllHeld, NewStateIs DEF People, Locations, Equipment
<1>2. \A v : /\ person(v).id = v.person_id /\ person(v).role = v.role
             /\ place(v).id = v.location_id /\ thing(v).id = v.equipment_id
    OBVIOUS
<1> HIDE DEF person, place, thing
<1>3. /\ \A v, w \in Records("people") : v.person_id = w.person_id => v = w
      /\ \A v, w \in Records("locations") : v.location_id = w.location_id => v = w
      /\ \A v, w \in Records("equipment") : v.equipment_id = w.equipment_id => v = w
    BY OneRow, KeysAre DEF KeyedSheets
<1>4. ASSUME NEW p \in state.people
      PROVE  \E v \in Records("people") :
                 p.id = v.person_id /\ p.role = v.role /\ \A q \in state.people : q.id = v.person_id => q = p
  <2>1. PICK v \in Records("people") : p = person(v)
    BY <1>1
  <2>2. p.id = v.person_id /\ p.role = v.role
    BY <1>2, <2>1
  <2>3. ASSUME NEW q \in state.people, q.id = v.person_id PROVE q = p
    <3>1. PICK w \in Records("people") : q = person(w)
      BY <1>1
    <3>2. w = v
      BY <1>2, <1>3, <2>3, <3>1
    <3> QED
      BY <2>1, <3>1, <3>2
  <2> QED
    BY <2>2, <2>3
<1>5. ASSUME NEW l \in state.locations
      PROVE  \E v \in Records("locations") :
                 l.id = v.location_id /\ \A m \in state.locations : m.id = v.location_id => m = l
  <2>1. PICK v \in Records("locations") : l = place(v)
    BY <1>1
  <2>2. l.id = v.location_id
    BY <1>2, <2>1
  <2>3. ASSUME NEW m \in state.locations, m.id = v.location_id PROVE m = l
    <3>1. PICK w \in Records("locations") : m = place(w)
      BY <1>1
    <3>2. w = v
      BY <1>2, <1>3, <2>3, <3>1
    <3> QED
      BY <2>1, <3>1, <3>2
  <2> QED
    BY <2>2, <2>3
<1>6. ASSUME NEW e \in state.equipment
      PROVE  \E v \in Records("equipment") :
                 e.id = v.equipment_id /\ \A g \in state.equipment : g.id = v.equipment_id => g = e
  <2>1. PICK v \in Records("equipment") : e = thing(v)
    BY <1>1
  <2>2. e.id = v.equipment_id
    BY <1>2, <2>1
  <2>3. ASSUME NEW g \in state.equipment, g.id = v.equipment_id PROVE g = e
    <3>1. PICK w \in Records("equipment") : g = thing(w)
      BY <1>1
    <3>2. w = v
      BY <1>2, <1>3, <2>3, <3>1
    <3> QED
      BY <2>1, <3>1, <3>2
  <2> QED
    BY <2>2, <2>3
<1> QED
    BY <1>1, <1>4, <1>5, <1>6

LEMMA OneRecordEach ==
    ASSUME WorkbookInv, state # NoState
    PROVE  OneRecordPerId
<1>1. \A v, w \in state.scenes : v.scene_id = w.scene_id => v = w
    BY RecordsAre, OneRow, KeysAre DEF KeyedSheets
<1>2. \A p, q \in state.people : p.id = q.id => p = q
    BY RecordsAre
<1>3. \A l, m \in state.locations : l.id = m.id => l = m
    BY RecordsAre
<1>4. \A e, g \in state.equipment : e.id = g.id => e = g
    BY RecordsAre
<1> QED
    BY <1>1, <1>2, <1>3, <1>4 DEF OneRecordPerId, Unique

\* The ids of the state are the keys of the tables.
LEMMA IdsAre ==
    ASSUME WorkbookInv, state # NoState
    PROVE  /\ SceneIds = Ids("scenes") /\ PersonIds = Ids("people") /\ LocationIds = Ids("locations")
           /\ {e.id : e \in state.equipment} = Ids("equipment")
<1> DEFINE person(v) == [id |-> v.person_id, name |-> v.name, role |-> v.role,
                         daily_rate |-> v.daily_rate,
                         unavailable_windows |-> WindowsOf(v.person_id, "UNAVAILABLE")]
           place(v) == [id |-> v.location_id, name |-> v.name, day_rate |-> v.day_rate,
                        permit_windows |-> PermitWindows(v), supports_int_ext |-> v.supports_int_ext,
                        supports_time_of_day |-> v.supports_time_of_day]
           thing(v) == [id |-> v.equipment_id, name |-> v.name, daily_rate |-> v.daily_rate,
                        available_windows |-> WindowsOf(v.equipment_id, "AVAILABLE")]
<1>1. /\ state.scenes = Records("scenes")
      /\ \A p \in state.people : \E v \in Records("people") : p = person(v)
      /\ \A l \in state.locations : \E v \in Records("locations") : l = place(v)
      /\ \A e \in state.equipment : \E v \in Records("equipment") : e = thing(v)
      /\ \A v \in Records("people") : person(v) \in state.people
      /\ \A v \in Records("locations") : place(v) \in state.locations
      /\ \A v \in Records("equipment") : thing(v) \in state.equipment
    BY AllHeld, NewStateIs DEF People, Locations, Equipment
<1>2. \A v : person(v).id = v.person_id /\ place(v).id = v.location_id /\ thing(v).id = v.equipment_id
    OBVIOUS
<1> HIDE DEF person, place, thing
<1>3. /\ Ids("scenes") = {v.scene_id : v \in Records("scenes")}
      /\ Ids("people") = {v.person_id : v \in Records("people")}
      /\ Ids("locations") = {v.location_id : v \in Records("locations")}
      /\ Ids("equipment") = {v.equipment_id : v \in Records("equipment")}
    BY KeysAre DEF Ids, Records
<1>4. SceneIds = Ids("scenes")
    BY <1>1, <1>3 DEF SceneIds
<1>5. PersonIds = Ids("people")
  <2>1. ASSUME NEW p \in state.people PROVE p.id \in Ids("people")
    BY <1>1, <1>2, <1>3
  <2>2. ASSUME NEW v \in Records("people") PROVE \E p \in state.people : v.person_id = p.id
    BY <1>1, <1>2
  <2> QED
    BY <1>3, <2>1, <2>2 DEF PersonIds
<1>6. LocationIds = Ids("locations")
  <2>1. ASSUME NEW p \in state.locations PROVE p.id \in Ids("locations")
    BY <1>1, <1>2, <1>3
  <2>2. ASSUME NEW v \in Records("locations") PROVE \E p \in state.locations : v.location_id = p.id
    BY <1>1, <1>2
  <2> QED
    BY <1>3, <2>1, <2>2 DEF LocationIds
<1>7. {e.id : e \in state.equipment} = Ids("equipment")
  <2>1. ASSUME NEW e \in state.equipment PROVE e.id \in Ids("equipment")
    BY <1>1, <1>2, <1>3
  <2>2. ASSUME NEW v \in Records("equipment") PROVE \E e \in state.equipment : v.equipment_id = e.id
    BY <1>1, <1>2
  <2> QED
    BY <1>3, <2>1, <2>2
<1> QED
    BY <1>4, <1>5, <1>6, <1>7

\* No reference of a row is to an unknown id.
LEMMA RefsFound ==
    ASSUME WorkbookInv, state # NoState,
           NEW s \in {"scenes", "schedule", "availability"}, NEW i \in DOMAIN tables[s],
           NEW ref \in RefsOf(s, tables[s][i])
    PROVE  ref[2] \in Ids(ref[3])
<1> DEFINE issue(r) == [Issue("E006", s, i, r[1]) EXCEPT !.names = <<r[2], r[3]>>]
<1>1. DanglingRefs = {}
    BY AllHeld DEF ReferenceErrors
<1>2. {issue(r) : r \in {r \in RefsOf(s, tables[s][i]) : r[2] \notin Ids(r[3])}} = {}
    BY <1>1 DEF DanglingRefs
<1> HIDE DEF issue
<1> QED
    BY <1>2

\* Cast are cast and crew are crew.
LEMMA RolesRight ==
    ASSUME WorkbookInv, state # NoState, NEW i \in DOMAIN tables["scenes"]
    PROVE  /\ \A id \in ToSet(tables["scenes"][i].cast_ids) : RoleOf(id) # "CREW"
           /\ \A id \in ToSet(tables["scenes"][i].crew_ids) : RoleOf(id) # "CAST"
<1> DEFINE v == tables["scenes"][i]
<1>1. WrongRoles = {}
    BY AllHeld DEF ReferenceErrors
<1>2. /\ {Issue("E008", "scenes", i, "cast_ids") : id \in {id \in ToSet(v.cast_ids) : RoleOf(id) = "CREW"}} = {}
      /\ {Issue("E008", "scenes", i, "crew_ids") : id \in {id \in ToSet(v.crew_ids) : RoleOf(id) = "CAST"}} = {}
    BY <1>1 DEF WrongRoles
<1> HIDE DEF v
<1>3. \A id \in ToSet(v.cast_ids) : RoleOf(id) # "CREW"
    BY <1>2
<1>4. \A id \in ToSet(v.crew_ids) : RoleOf(id) # "CAST"
    BY <1>2
<1> QED
    BY <1>3, <1>4 DEF v

\* The role the parser looks up is the role the state's person has.
LEMMA RoleIs ==
    ASSUME WorkbookInv, state # NoState, NEW id \in Ids("people")
    PROVE  /\ RoleOf(id) \in {"CAST", "CREW"}
           /\ id \in CastIds <=> RoleOf(id) = "CAST"
<1> DEFINE rows == DOMAIN tables["people"]
<1>1. PICK j \in rows : tables["people"][j].person_id = id
    BY KeysAre DEF Ids
<1> DEFINE i == CHOOSE i \in rows : tables["people"][i].person_id = id
<1>2. i \in rows /\ tables["people"][i].person_id = id
    BY <1>1
<1>3. RoleOf(id) = tables["people"][i].role
    BY DEF RoleOf
<1> HIDE DEF i
<1>4. RoleOf(id) \in {"CAST", "CREW"}
    BY <1>2, <1>3, StateRows DEF PersonFits
<1>5. tables["people"][i] \in Records("people")
    BY <1>2 DEF Records
<1>6. \A v \in Records("people") : v.person_id = id => v = tables["people"][i]
    BY <1>2, <1>5, OneRow, KeysAre DEF KeyedSheets
<1>7. \A p \in state.people : p.id = id => p.role = RoleOf(id)
    BY <1>3, <1>6, RecordsAre
<1>8. PICK p \in state.people : p.id = id
    BY IdsAre DEF PersonIds
<1> QED
    BY <1>4, <1>7, <1>8 DEF CastIds

LEMMA SceneRefsRight ==
    ASSUME WorkbookInv, state # NoState, NEW v \in state.scenes
    PROVE  /\ v.location_id \in LocationIds
           /\ ToSet(v.cast_ids) \subseteq CastIds
           /\ ToSet(v.crew_ids) \subseteq PersonIds \ CastIds
           /\ ToSet(v.equipment_ids) \subseteq {e.id : e \in state.equipment}
           /\ ToSet(v.prerequisite_scene_ids) \subseteq SceneIds
<1>1. PICK i \in DOMAIN tables["scenes"] : v = tables["scenes"][i]
    BY RecordsAre DEF Records
<1>2. \A ref \in SceneRefs(v) : ref[2] \in Ids(ref[3])
  <2>1. RefsOf("scenes", v) = SceneRefs(v)
    BY DEF RefsOf
  <2> QED
    BY <1>1, <2>1, RefsFound
<1>3. <<"location_id", v.location_id, "locations">> \in SceneRefs(v)
    BY DEF SceneRefs
<1>4. \A id \in ToSet(v.cast_ids) : <<"cast_ids", id, "people">> \in SceneRefs(v)
    BY DEF SceneRefs
<1>5. \A id \in ToSet(v.crew_ids) : <<"crew_ids", id, "people">> \in SceneRefs(v)
    BY DEF SceneRefs
<1>6. \A id \in ToSet(v.equipment_ids) : <<"equipment_ids", id, "equipment">> \in SceneRefs(v)
    BY DEF SceneRefs
<1>7. \A id \in ToSet(v.prerequisite_scene_ids) :
          <<"prerequisite_scene_ids", id, "scenes">> \in SceneRefs(v)
    BY DEF SceneRefs
<1>8. /\ v.location_id \in Ids("locations")
      /\ \A id \in ToSet(v.equipment_ids) : id \in Ids("equipment")
      /\ \A id \in ToSet(v.prerequisite_scene_ids) : id \in Ids("scenes")
    BY <1>2, <1>3, <1>6, <1>7
<1>9. \A id \in ToSet(v.cast_ids) \cup ToSet(v.crew_ids) : id \in Ids("people")
    BY <1>2, <1>4, <1>5
<1>10. /\ \A id \in ToSet(v.cast_ids) : RoleOf(id) # "CREW"
       /\ \A id \in ToSet(v.crew_ids) : RoleOf(id) # "CAST"
    BY <1>1, RolesRight
<1>11. ASSUME NEW id \in ToSet(v.cast_ids) PROVE id \in CastIds
    BY <1>9, <1>10, RoleIs
<1>12. ASSUME NEW id \in ToSet(v.crew_ids) PROVE id \in PersonIds \ CastIds
    BY <1>9, <1>10, RoleIs, IdsAre
<1> QED
    BY <1>8, <1>11, <1>12, IdsAre

LEMMA RefsRight ==
    ASSUME WorkbookInv, state # NoState
    PROVE  RefsResolve
<1>1. ASSUME NEW k \in DOMAIN state.days
      PROVE  /\ state.days[k].location_id \in LocationIds
             /\ ToSet(state.days[k].scene_ids) \subseteq SceneIds
  <2>1. PICK i \in ScheduleRows : state.days[k] = ShootingDay(tables["schedule"][i])
    BY AllHeld, NewStateIs, StateRows, DaysAre
  <2> DEFINE v == tables["schedule"][i]
  <2>2. state.days[k].location_id = v.location_id /\ state.days[k].scene_ids = v.scene_ids
    BY <2>1 DEF ShootingDay
  <2>3. \A ref \in DayRefs(v) : ref[2] \in Ids(ref[3])
    <3>1. RefsOf("schedule", v) = DayRefs(v)
      BY DEF RefsOf
    <3> QED
      BY <3>1, RefsFound DEF ScheduleRows
  <2>4. <<"location_id", v.location_id, "locations">> \in DayRefs(v)
    BY DEF DayRefs
  <2>5. \A id \in ToSet(v.scene_ids) : <<"scene_ids", id, "scenes">> \in DayRefs(v)
    BY DEF DayRefs
  <2>6. v.location_id \in Ids("locations") /\ \A id \in ToSet(v.scene_ids) : id \in Ids("scenes")
    BY <2>3, <2>4, <2>5
  <2> QED
    BY <2>2, <2>6, IdsAre
<1> QED
    BY <1>1, SceneRefsRight DEF RefsResolve

\* With no loop among them, the scenes can be put in an order that shoots every
\* scene after those it needs.
LEMMA ScenesOrdered ==
    ASSUME WorkbookInv, state # NoState
    PROVE  SomeOrder
<1> DEFINE S == Ids("scenes")
           R == {pair \in S \X S : pair[1] \in Prerequisites(pair[2])}
<1>1. ~\E loop \in (SUBSET S) \ {{}} : \A id \in loop : Prerequisites(id) \cap loop # {}
    BY AllHeld DEF SemanticErrors, PrerequisiteLoops
<1>2. IsFiniteSet(S)
  <2> DEFINE f == [i \in DOMAIN tables["scenes"] |-> tables["scenes"][i]["scene_id"]]
  <2>1. S = {f[i] : i \in DOMAIN tables["scenes"]}
    BY KeysAre DEF Ids
  <2>2. IsFiniteSet(DOMAIN tables["scenes"])
    BY StateRows, SheetsAre
  <2> HIDE DEF f, S
  <2> QED
    BY <2>1, <2>2, ImageFinite
<1>3. ASSUME NEW T \in SUBSET S, T # {} PROVE \E x \in T : \A y \in T : <<y, x>> \notin R
  <2>1. PICK x \in T : Prerequisites(x) \cap T = {}
    BY <1>1, <1>3
  <2>2. \A y \in T : <<y, x>> \notin R
    BY <2>1
  <2> QED
    BY <2>2
<1> HIDE DEF R
<1>4. PICK order : Orders(order, S, R)
    BY <1>2, <1>3, FiniteSchedule
<1>5. ASSUME NEW v \in state.scenes, NEW id \in ToSet(v.prerequisite_scene_ids)
      PROVE  order[id] < order[v.scene_id]
  <2>1. PICK i \in DOMAIN tables["scenes"] : v = tables["scenes"][i]
    BY RecordsAre DEF Records
  <2>2. id \in Prerequisites(v.scene_id)
    BY <2>1 DEF Prerequisites
  <2>3. v.scene_id \in S
    BY <2>1, KeysAre DEF Ids
  <2>4. id \in S
    BY SceneRefsRight, IdsAre
  <2>5. <<id, v.scene_id>> \in R
    BY <2>2, <2>3, <2>4 DEF R
  <2> QED
    BY <1>4, <2>3, <2>4, <2>5 DEF Orders
<1>6. order \in [S -> 1 .. Cardinality(S)]
    BY <1>4 DEF Orders
<1> QED
    BY <1>5, <1>6, IdsAre DEF SomeOrder

\* A later wall clock that exists is a later instant.
LEMMA LaterIsLater ==
    ASSUME NEW zone, zone.offset \in Int, {zone.forward, zone.back} \subseteq Int \cup {None},
           NEW t \in Int, NEW u \in Int, t < u, ~Skipped(zone, t), ~Skipped(zone, u)
    PROVE  Instant(zone, t) < Instant(zone, u)
<1> DEFINE lost(x) == IF zone.forward # None /\ x >= zone.forward + Hour THEN Hour ELSE 0
           won(x)  == IF zone.back # None /\ x >= zone.back THEN Hour ELSE 0
<1>1. won(t) \in {0, 2} /\ won(u) \in {0, 2} /\ won(t) <= won(u)
  <2>1. CASE zone.back = None
    BY <2>1
  <2>2. CASE zone.back \in Int
    BY <2>2 DEF Hour
  <2> QED
    BY <2>1, <2>2
<1>2. lost(t) \in {0, 2} /\ lost(u) \in {0, 2} /\ t - lost(t) < u - lost(u)
  <2>1. CASE zone.forward = None
    BY <2>1
  <2>2. CASE zone.forward \in Int /\ zone.forward # None
    BY <2>2 DEF Hour, Skipped
  <2> QED
    BY <2>1, <2>2
<1>3. /\ Instant(zone, t) = t - zone.offset - lost(t) + won(t)
      /\ Instant(zone, u) = u - zone.offset - lost(u) + won(u)
    BY DEF Instant
<1> HIDE DEF lost, won
<1> QED
    BY <1>1, <1>2, <1>3

LEMMA DaysRight ==
    ASSUME WorkbookInv, state # NoState
    PROVE  DaysPossible
<1>1. ASSUME NEW k \in DOMAIN state.days
      PROVE  \E i \in ScheduleRows : state.days[k] = ShootingDay(tables["schedule"][i])
    BY AllHeld, NewStateIs, StateRows, DaysAre
<1>2. ASSUME NEW k \in DOMAIN state.days
      PROVE  /\ state.days[k].date \in state.production.shoot_start .. state.production.shoot_end
             /\ state.days[k].call_time.at < state.days[k].wrap_time.at
  <2>1. PICK i \in ScheduleRows : state.days[k] = ShootingDay(tables["schedule"][i])
    BY <1>1
  <2> DEFINE v == tables["schedule"][i]
  <2>2. /\ state.days[k].date = v.date
        /\ state.days[k].call_time = Moment(Zone, CallAt(v))
        /\ state.days[k].wrap_time = Moment(Zone, WrapAt(v))
    BY <2>1 DEF ShootingDay
  <2>3. v.date \in ShootDates
    <3>1. DaysOutside = {}
      BY AllHeld DEF SemanticErrors
    <3> QED
      BY <3>1 DEF DaysOutside, ScheduleRows
  <2>4. ~Skipped(Zone, CallAt(v)) /\ ~Skipped(Zone, WrapAt(v))
    <3> DEFINE missed == {c \in {"call_time", "wrap_time"} :
                            Skipped(Zone, IF c = "call_time" THEN CallAt(v) ELSE WrapAt(v))}
    <3>1. ImpossibleTimes = {}
      BY AllHeld DEF SemanticErrors
    <3>2. (IF WrapBeforeCall(v) THEN {Issue("E011", "schedule", i, "wrap_time")}
           ELSE {Issue("E015", "schedule", i, c) : c \in missed}) = {}
      BY <3>1 DEF ImpossibleTimes, ScheduleRows
    <3> HIDE DEF missed
    <3>3. missed = {}
      BY <3>2
    <3> QED
      BY <3>3 DEF missed
  <2>5. CallAt(v) \in Int /\ WrapAt(v) \in Int
    BY StateRows, DayClocks
  <2>6. CallAt(v) < WrapAt(v)
    <3>1. k \in DOMAIN NewState.days /\ NewState.days[k] = state.days[k]
      BY AllHeld
    <3>2. ~(NewState.days[k].wrap_time.wall <= NewState.days[k].call_time.wall)
      BY <3>1, AllHeld DEF BrokenRecords
    <3> QED
      BY <2>2, <2>5, <3>1, <3>2 DEF Moment
  <2>7. Instant(Zone, CallAt(v)) < Instant(Zone, WrapAt(v))
    <3>1. Zone.offset \in Int /\ {Zone.forward, Zone.back} \subseteq Int \cup {None}
      BY StateRows DEF ProductionFits, Zone
    <3> QED
      BY <2>4, <2>5, <2>6, <3>1, LaterIsLater
  <2>8. /\ state.production.shoot_start = Production.shoot_start
        /\ state.production.shoot_end = Production.shoot_end
    BY AllHeld, NewStateIs
  <2> QED
    BY <2>2, <2>3, <2>7, <2>8 DEF Moment, ShootDates
<1>3. ASSUME NEW i \in ScheduleRows, NEW id \in ToSet(tables["schedule"][i].scene_ids)
      PROVE  Slot(FirstRowOf(id)) = Slot(i)
  <2>1. ScenesTwice = {}
    BY AllHeld DEF SemanticErrors
  <2> QED
    BY <1>3, <2>1 DEF ScenesTwice, ScheduleRows
<1>4. ASSUME NEW j \in DOMAIN state.days, NEW k \in DOMAIN state.days,
             NEW id \in ToSet(state.days[j].scene_ids) \cap ToSet(state.days[k].scene_ids)
      PROVE  state.days[j].date = state.days[k].date /\ state.days[j].unit = state.days[k].unit
  <2>1. PICK a \in ScheduleRows : state.days[j] = ShootingDay(tables["schedule"][a])
    BY <1>1
  <2>2. PICK b \in ScheduleRows : state.days[k] = ShootingDay(tables["schedule"][b])
    BY <1>1
  <2>3. /\ state.days[j].scene_ids = tables["schedule"][a].scene_ids
        /\ state.days[j].date = tables["schedule"][a].date
        /\ state.days[j].unit = tables["schedule"][a].unit
    BY <2>1 DEF ShootingDay
  <2>4. /\ state.days[k].scene_ids = tables["schedule"][b].scene_ids
        /\ state.days[k].date = tables["schedule"][b].date
        /\ state.days[k].unit = tables["schedule"][b].unit
    BY <2>2 DEF ShootingDay
  <2>5. Slot(a) = Slot(b)
    BY <1>3, <2>3, <2>4
  <2> QED
    BY <2>3, <2>4, <2>5 DEF Slot
<1> QED
    BY <1>2, <1>4 DEF DaysPossible

\* For any file: what the parser lets out has unique ids, references that resolve,
\* scenes that can be shot in some order, and days that can be worked
\* (parser._Parser.run, the phases before _build_state).
THEOREM StatesAreLegal == Spec => []ParsedIsLegal
<1>1. WorkbookInv => ParsedIsLegal
    BY OneRecordEach, RefsRight, ScenesOrdered, DaysRight DEF ParsedIsLegal
<1> QED
    BY <1>1, WorkbookInvariant, PTL

(***************************************************************************)
(* An export, uploaded.                                                    *)
(***************************************************************************)
\* A value that is its own when it is written down and read again.
Written(column, value) ==
    /\ column.required => ~IsEmpty(column.kind, value)
    /\ IsEmpty(column.kind, value) /\ column.kind \notin Lists => value = column.default
    /\ column.kind = "ENUM" /\ ~IsEmpty(column.kind, value) => value \in column.permitted

WrittenRow(s, v) ==
    /\ v = [c \in DOMAIN WorkbookSheets[s].columns |-> v[c]]
    /\ \A c \in DOMAIN WorkbookSheets[s].columns : Written(WorkbookSheets[s].columns[c], v[c])

\* A sheet of the export is one the reader takes.
SheetWritten(of, s) ==
    LET rows == ExportedRows(of, s)
    IN  \E n \in Nat :
           /\ DOMAIN rows = 1 .. n /\ rows = [i \in 1 .. n |-> rows[i]]
           /\ \A i \in 1 .. n : WrittenRow(s, rows[i])
           /\ IF WorkbookSheets[s].exactlyOne THEN n = 1 ELSE n <= RowLimit

RowSet(of, s) == {ExportedRows(of, s)[i] : i \in DOMAIN ExportedRows(of, s)}
KeysIn(of, s) == {v[WorkbookSheets[s].key] : v \in RowSet(of, s)}

\* The checks of identity and reference, of the exported rows.
SoundKeys(of) ==
    \A s \in {"scenes", "people", "locations", "equipment"} :
        \A i, j \in DOMAIN ExportedRows(of, s) :
            ExportedRows(of, s)[i][WorkbookSheets[s].key]
                = ExportedRows(of, s)[j][WorkbookSheets[s].key] => i = j

SoundRefs(of) ==
    \A s \in {"scenes", "schedule", "availability"} : \A v \in RowSet(of, s) :
        \A ref \in RefsOf(s, v) : ref[2] \in KeysIn(of, ref[3])

SoundRoles(of) ==
    \A v \in of.scenes : \A p \in RowSet(of, "people") :
        /\ p.person_id \in ToSet(v.cast_ids) => p.role # "CREW"
        /\ p.person_id \in ToSet(v.crew_ids) => p.role # "CAST"

SoundWindows(of) ==
    \A v \in RowSet(of, "availability") :
        /\ ~MisfitWindow(v) /\ v.window_kind # "CLOSED"
        /\ {v.from_date, v.to_date} \subseteq Int /\ v.from_date <= v.to_date

\* The checks of meaning.
SoundShoot(of) ==
    LET p == of.production
    IN  /\ p.shoot_start \in Int /\ p.shoot_end \in Int /\ p.shoot_start <= p.shoot_end
        /\ p = [id |-> p.id, title |-> p.title, currency |-> p.currency,
                shoot_start |-> p.shoot_start, shoot_end |-> p.shoot_end,
                reserve_days |-> p.reserve_days]

NeededBy(of, id) ==
    UNION {ToSet(v.prerequisite_scene_ids) : v \in {v \in of.scenes : v.scene_id = id}}

SoundScenes(of) ==
    /\ of.scenes = RowSet(of, "scenes")
    /\ ~\E loop \in (SUBSET {v.scene_id : v \in of.scenes}) \ {{}} :
            \A id \in loop : NeededBy(of, id) \cap loop # {}

SoundDates(of) ==
    LET rows == ExportedRows(of, "schedule")
    IN  /\ \A k \in DOMAIN rows :
              /\ rows[k].date \in of.production.shoot_start .. of.production.shoot_end
              /\ ~WrapBeforeCall(rows[k])
        /\ \A j, k \in DOMAIN rows :
              /\ ToSet(rows[j].scene_ids) \cap ToSet(rows[k].scene_ids) # {} =>
                    rows[j].date = rows[k].date /\ rows[j].unit = rows[k].unit
              /\ j < k => \/ rows[j].date < rows[k].date
                          \/ /\ rows[j].date = rows[k].date
                             /\ UnitRank(rows[j].unit) < UnitRank(rows[k].unit)
                          \/ rows[j].date = rows[k].date /\ rows[j].unit = rows[k].unit

\* What the records were before they were written down.
AsWindow(z, v) ==
    [start |-> Moment(z, v.from_date * DayLength), end |-> Moment(z, (v.to_date + 1) * DayLength)]

AsWindows(of, id, kind) ==
    {AsWindow(InferredZone(of), v) :
        v \in {v \in RowSet(of, "availability") : v.subject_id = id /\ v.window_kind = kind}}

AsPermit(z, v, d) ==
    [start |-> Moment(z, d * DayLength + v.permit_start_time),
     end   |-> Moment(z, (IF v.permit_end_time <= v.permit_start_time THEN d + 1 ELSE d) * DayLength
                            + v.permit_end_time)]

AsPermits(of, v) ==
    IF v.permit_start_time = None THEN {}
    ELSE {AsPermit(InferredZone(of), v, d) :
             d \in of.production.shoot_start .. of.production.shoot_end}

AsDay(z, v) ==
    [date |-> v.date, call_time |-> Moment(z, CallAt(v)), wrap_time |-> Moment(z, WrapAt(v)),
     location_id |-> v.location_id, scene_ids |-> v.scene_ids, unit |-> v.unit,
     day_kind |-> IF v.day_kind # None THEN v.day_kind
                  ELSE IF v.scene_ids = <<>> THEN "RESERVE" ELSE "SHOOT"]

SoundPeople(of) ==
    of.people =
        {[id |-> v.person_id, name |-> v.name, role |-> v.role, daily_rate |-> v.daily_rate,
          unavailable_windows |-> AsWindows(of, v.person_id, "UNAVAILABLE")] :
            v \in RowSet(of, "people")}

SoundEquipment(of) ==
    of.equipment =
        {[id |-> v.equipment_id, name |-> v.name, daily_rate |-> v.daily_rate,
          available_windows |-> AsWindows(of, v.equipment_id, "AVAILABLE")] :
            v \in RowSet(of, "equipment")}

SoundLocations(of) ==
    /\ \A v \in RowSet(of, "locations") : v.permit_start_time = None <=> v.permit_end_time = None
    /\ of.locations =
          {[id |-> v.location_id, name |-> v.name, day_rate |-> v.day_rate,
            permit_windows |-> AsPermits(of, v), supports_int_ext |-> v.supports_int_ext,
            supports_time_of_day |-> v.supports_time_of_day] : v \in RowSet(of, "locations")}

SoundSchedule(of) ==
    LET rows == ExportedRows(of, "schedule")
    IN  of.days = [k \in DOMAIN rows |-> AsDay(InferredZone(of), rows[k])]

\* A state whose export goes through every phase, and comes to the same state.
Sound(of) ==
    /\ \A s \in SheetNames : SheetWritten(of, s)
    /\ SoundKeys(of) /\ SoundRefs(of) /\ SoundRoles(of) /\ SoundWindows(of)
    /\ SoundShoot(of) /\ SoundScenes(of) /\ SoundDates(of)
    /\ SoundPeople(of) /\ SoundEquipment(of) /\ SoundLocations(of) /\ SoundSchedule(of)
    /\ of = [production |-> of.production, scenes |-> of.scenes, people |-> of.people,
             locations |-> of.locations, equipment |-> of.equipment, days |-> of.days]
    /\ BrokenRecords(of) = {}

\* An export that can be the same again is being read.
Returning == first # None /\ first.closed = {} /\ OneOffset(first.state) /\ NoFormulas(first.state)

TooLarge == {Issue("E016", Whole, 0, Whole)}

SheetsReturn ==
    phase # "read" /\ errors = {} =>
        sheets = [s \in SheetNames |-> ReadSheet("XLSX", ExportedSheet(first.state, s))]

ProductionReturns ==
    Reached(AfterProduction) => tables["production"] = ExportedRows(first.state, "production")

TablesReturn ==
    Reached(AfterRows) => tables = [s \in SheetNames |-> ExportedRows(first.state, s)]

ReimportInv ==
    Returning =>
        /\ Sound(first.state)
        /\ upload = ExportState(first.state)
        /\ errors \subseteq TooLarge
        /\ SheetsReturn /\ ProductionReturns /\ TablesReturn
        /\ state # NoState => state = first.state

LEMMA ListingCovers ==
    ASSUME NEW S, IsFiniteSet(S)
    PROVE  /\ Cardinality(S) \in Nat
           /\ SetToSeq(S) \in [1 .. Cardinality(S) -> S]
           /\ \A i, j \in 1 .. Cardinality(S) : SetToSeq(S)[i] = SetToSeq(S)[j] => i = j
           /\ \A x \in S : \E i \in 1 .. Cardinality(S) : SetToSeq(S)[i] = x
<1> DEFINE n == Cardinality(S)
           q == SetToSeq(S)
<1>1. n \in Nat /\ ExistsBijection(1 .. n, S)
    BY FS_CardinalityType
<1> HIDE DEF n
<1>2. \E f \in [1 .. n -> S] : IsInjective(f)
    BY <1>1 DEF ExistsBijection, Bijection, Injection, IsInjective
<1>3. q = CHOOSE f \in [1 .. n -> S] : IsInjective(f)
    BY DEF SetToSeq, n
<1> HIDE DEF q
<1>4. q \in [1 .. n -> S] /\ IsInjective(q)
    BY <1>2, <1>3
<1>5. \A i, j \in 1 .. n : q[i] = q[j] => i = j
    BY <1>4 DEF IsInjective
<1>6. q \in Injection(1 .. n, S)
    BY <1>4 DEF Injection
<1>7. Cardinality(1 .. n) = n
    BY <1>1, FS_Interval, SMTT(20)
<1>8. q \in Surjection(1 .. n, S)
    BY <1>6, <1>7, FS_Injection DEF n
<1>9. \A x \in S : \E i \in 1 .. n : q[i] = x
    BY <1>8 DEF Surjection
<1> QED
    BY <1>1, <1>4, <1>5, <1>9 DEF n, q

\* How a value that needs no apostrophe is written into its cell.
CellOf(column, value) == IF IsEmpty(column.kind, value) THEN BlankCell ELSE TypedCell(value)

\* A value that is its own is read back, whatever way dates are read.
LEMMA WrittenRead ==
    ASSUME NEW column, NEW value, NEW dayFirst, Written(column, value)
    PROVE  /\ Accepted(CellOf(column, value), column, dayFirst)
           /\ Coerce(CellOf(column, value), column, dayFirst).value = value
           /\ CellOf(column, value).form \in {"blank", "value"}
<1>1. CASE IsEmpty(column.kind, value)
  <2>1. CellOf(column, value).form = "blank"
    BY <1>1 DEF CellOf, BlankCell
  <2>2. Coerce(CellOf(column, value), column, dayFirst)
            = Can(IF column.kind \in Lists THEN <<>> ELSE column.default)
    BY <2>1 DEF Coerce
  <2>3. (IF column.kind \in Lists THEN <<>> ELSE column.default) = value
    BY <1>1 DEF Written, IsEmpty
  <2>4. ~column.required
    BY <1>1 DEF Written
  <2> QED
    BY <2>1, <2>2, <2>3, <2>4 DEF Accepted, Can
<1>2. CASE ~IsEmpty(column.kind, value)
  <2>1. CellOf(column, value) = [form |-> "value", value |-> value]
    BY <1>2 DEF CellOf, TypedCell
  <2>2. Coerce(CellOf(column, value), column, dayFirst) = Can(value)
    BY <1>2, <2>1 DEF Coerce, Written
  <2> QED
    BY <1>2, <2>1, <2>2 DEF Accepted, Can
<1> QED
    BY <1>1, <1>2

\* The columns that no row leaves empty.
LEMMA FilledColumns ==
    /\ \A s \in SheetNames : \E c \in DOMAIN WorkbookSheets[s].columns :
          WorkbookSheets[s].columns[c].required = TRUE
    /\ WorkbookSheets["production"].exactlyOne = TRUE
    /\ \A s \in SheetNames \ {"production"} : WorkbookSheets[s].exactlyOne = FALSE
    /\ \A s \in SheetNames : WorkbookSheets[s].maxRows = RowLimit
<1>1. /\ ProductionSheet.columns["title"].required = TRUE /\ "title" \in DOMAIN ProductionSheet.columns
      /\ ProductionSheet.exactlyOne = TRUE /\ ProductionSheet.maxRows = RowLimit
    BY DEF ProductionSheet, Sheet, Required, Column
<1>2. /\ ScenesSheet.columns["slug"].required = TRUE /\ "slug" \in DOMAIN ScenesSheet.columns
      /\ ScenesSheet.exactlyOne = FALSE /\ ScenesSheet.maxRows = RowLimit
    BY DEF ScenesSheet, Sheet, Required, Column
<1>3. /\ PeopleSheet.columns["name"].required = TRUE /\ "name" \in DOMAIN PeopleSheet.columns
      /\ PeopleSheet.exactlyOne = FALSE /\ PeopleSheet.maxRows = RowLimit
    BY DEF PeopleSheet, Sheet, Required, Column
<1>4. /\ LocationsSheet.columns["name"].required = TRUE /\ "name" \in DOMAIN LocationsSheet.columns
      /\ LocationsSheet.exactlyOne = FALSE /\ LocationsSheet.maxRows = RowLimit
    BY DEF LocationsSheet, Sheet, Required, Column
<1>5. /\ EquipmentSheet.columns["name"].required = TRUE /\ "name" \in DOMAIN EquipmentSheet.columns
      /\ EquipmentSheet.exactlyOne = FALSE /\ EquipmentSheet.maxRows = RowLimit
    BY DEF EquipmentSheet, Sheet, Required, Column
<1>6. /\ AvailabilitySheet.columns["subject_id"].required = TRUE
      /\ "subject_id" \in DOMAIN AvailabilitySheet.columns
      /\ AvailabilitySheet.exactlyOne = FALSE /\ AvailabilitySheet.maxRows = RowLimit
    BY DEF AvailabilitySheet, Sheet, Required, Column
<1>7. /\ ScheduleSheet.columns["date"].required = TRUE /\ "date" \in DOMAIN ScheduleSheet.columns
      /\ ScheduleSheet.exactlyOne = FALSE /\ ScheduleSheet.maxRows = RowLimit
    BY DEF ScheduleSheet, Sheet, Required, Column
<1> QED
    BY <1>1, <1>2, <1>3, <1>4, <1>5, <1>6, <1>7, SheetsAre

\* The reader finds what the export wrote, cell for cell.
LEMMA ExportRead ==
    ASSUME NEW of, NEW s \in SheetNames, NEW n \in Nat, DOMAIN ExportedRows(of, s) = 1 .. n,
           WrittenAsIs(of, s)
    PROVE  LET read    == ReadSheet("XLSX", ExportedSheet(of, s))
               columns == WorkbookSheets[s].columns
           IN  /\ read.headers = DOMAIN columns
               /\ DOMAIN read.rows = 1 .. n /\ Len(read.rows) = n
               /\ \A i \in 1 .. n : DOMAIN read.rows[i] = DOMAIN columns
               /\ \A i \in 1 .. n, c \in DOMAIN columns :
                     /\ read.rows[i][c] = CellOf(columns[c], ExportedRows(of, s)[i][c])
                     /\ Cell(read.rows[i], c) = CellOf(columns[c], ExportedRows(of, s)[i][c])
<1> DEFINE columns == WorkbookSheets[s].columns
           rows    == ExportedRows(of, s)
           cell(i, c) == CellOf(columns[c], rows[i][c])
           sheet   == ExportedSheet(of, s)
           read    == ReadSheet("XLSX", sheet)
<1>1. /\ sheet.headers = DOMAIN columns /\ sheet.merged = {}
      /\ sheet.rows = [i \in 1 .. n |-> [c \in DOMAIN columns |-> cell(i, c)]]
    BY DEF ExportedSheet, CellOf, WrittenAsIs
<1>2. {"rows", "headers"} \subseteq DOMAIN sheet
    BY DEF ExportedSheet
<1> HIDE DEF sheet, cell, rows, columns
<1>3. read = [sheet EXCEPT !.rows =
                [i \in DOMAIN sheet.rows |-> [c \in sheet.headers |-> Expanded(sheet, i, c)]]]
    BY DEF ReadSheet
<1>4. /\ read.rows = [i \in 1 .. n |-> [c \in DOMAIN columns |-> Expanded(sheet, i, c)]]
      /\ read.headers = DOMAIN columns
    BY <1>1, <1>2, <1>3
<1>5. ASSUME NEW i \in 1 .. n, NEW c \in DOMAIN columns
      PROVE  Expanded(sheet, i, c) = cell(i, c)
  <2>1. {m \in sheet.merged : m.top < i /\ i <= m.bottom /\ c \in m.columns} = {}
    BY <1>1
  <2>2. Cell(sheet.rows[i], c) = cell(i, c)
    BY <1>1 DEF Cell
  <2> QED
    BY <2>1, <2>2 DEF Expanded
<1> HIDE DEF read
<1>6. DOMAIN read.rows = 1 .. n /\ Len(read.rows) = n
    BY <1>4
<1>7. \A i \in 1 .. n : DOMAIN read.rows[i] = DOMAIN columns
    BY <1>4
<1>8. \A i \in 1 .. n, c \in DOMAIN columns :
          read.rows[i][c] = cell(i, c) /\ Cell(read.rows[i], c) = cell(i, c)
    BY <1>4, <1>5 DEF Cell
<1> QED
    BY <1>4, <1>6, <1>7, <1>8 DEF read, sheet, cell, rows, columns

\* Every row of the export is data, none is faulty, and it is read as it was
\* written.
LEMMA RowsReadBack ==
    ASSUME NEW of, NEW s \in SheetNames, SheetWritten(of, s), WrittenAsIs(of, s),
           sheets[s] = ReadSheet("XLSX", ExportedSheet(of, s))
    PROVE  /\ DataRows(s) = DOMAIN ExportedRows(of, s)
           /\ \A i \in DataRows(s) : \A dayFirst : FaultyCells(s, i, dayFirst) = {}
           /\ \A dayFirst : ReadRows(s, dayFirst) = ExportedRows(of, s)
           /\ \A i \in DataRows(s), c \in DOMAIN WorkbookSheets[s].columns :
                 Cell(sheets[s].rows[i], c).form \in {"blank", "value"}
<1> DEFINE columns == WorkbookSheets[s].columns
           rows    == ExportedRows(of, s)
           cell(i, c) == CellOf(columns[c], rows[i][c])
<1>1. PICK n \in Nat : /\ DOMAIN rows = 1 .. n /\ rows = [i \in 1 .. n |-> rows[i]]
                       /\ \A i \in 1 .. n : WrittenRow(s, rows[i])
    BY DEF SheetWritten
<1>2. /\ DOMAIN sheets[s].rows = 1 .. n
      /\ \A i \in 1 .. n : DOMAIN sheets[s].rows[i] = DOMAIN columns
      /\ \A i \in 1 .. n, c \in DOMAIN columns :
            sheets[s].rows[i][c] = cell(i, c) /\ Cell(sheets[s].rows[i], c) = cell(i, c)
    BY <1>1, ExportRead
<1> HIDE DEF rows, cell
<1>3. ASSUME NEW i \in 1 .. n, NEW c \in DOMAIN columns, NEW dayFirst
      PROVE  /\ Accepted(cell(i, c), columns[c], dayFirst)
             /\ Coerce(cell(i, c), columns[c], dayFirst).value = rows[i][c]
             /\ cell(i, c).form \in {"blank", "value"}
    BY <1>1, WrittenRead DEF cell, WrittenRow
<1>4. ASSUME NEW i \in 1 .. n PROVE ~IsBlank(sheets[s].rows[i]) /\ ~IsExample(sheets[s].rows[i])
  <2>1. PICK c \in DOMAIN columns : columns[c].required = TRUE
    BY FilledColumns
  <2>2. ~IsEmpty(columns[c].kind, rows[i][c])
    BY <1>1, <2>1 DEF WrittenRow, Written
  <2>3. cell(i, c).form = "value"
    BY <2>2 DEF cell, CellOf, TypedCell
  <2>4. cell(i, c) # BlankCell
    BY <2>3 DEF BlankCell
  <2>5. /\ DOMAIN sheets[s].rows[i] = DOMAIN columns
        /\ \A d \in DOMAIN columns : sheets[s].rows[i][d] = cell(i, d)
    BY <1>2
  <2>6. \A d \in DOMAIN columns : cell(i, d).form \in {"blank", "value"}
    BY <1>3
  <2> HIDE DEF columns
  <2>7. ~IsBlank(sheets[s].rows[i])
    BY <2>1, <2>4, <2>5 DEF IsBlank
  <2>8. ~IsExample(sheets[s].rows[i])
    BY <2>5, <2>6 DEF IsExample
  <2> QED
    BY <2>7, <2>8
<1>5. DataRows(s) = 1 .. n
    BY <1>2, <1>4 DEF DataRows
<1>6. ASSUME NEW i \in 1 .. n, NEW dayFirst PROVE FaultyCells(s, i, dayFirst) = {}
  <2> DEFINE got(c) == Coerce(Cell(sheets[s].rows[i], c), columns[c], dayFirst)
             bad == {c \in DOMAIN columns :
                       ~got(c).ok \/ (columns[c].required /\ IsEmpty(columns[c].kind, got(c).value))}
             issue(c) == Issue(IF ~got(c).ok /\ columns[c].kind = "ENUM" THEN "E004" ELSE "E003", s, i, c)
  <2>1. FaultyCells(s, i, dayFirst) = {issue(c) : c \in bad}
    BY DEF FaultyCells
  <2>2. ASSUME NEW c \in DOMAIN columns
        PROVE  got(c).ok /\ (columns[c].required => ~IsEmpty(columns[c].kind, got(c).value))
    <3>1. Cell(sheets[s].rows[i], c) = cell(i, c)
      BY <1>2
    <3>2. Accepted(cell(i, c), columns[c], dayFirst)
      BY <1>3
    <3> QED
      BY <3>1, <3>2 DEF Accepted
  <2> HIDE DEF issue, got
  <2> QED
    BY <2>1, <2>2
<1>7. ASSUME NEW dayFirst PROVE ReadRows(s, dayFirst) = rows
  <2> DEFINE value(i, c) == Coerce(Cell(sheets[s].rows[i], c), columns[c], dayFirst).value
  <2>1. {i \in DataRows(s) : FaultyCells(s, i, dayFirst) = {}} = 1 .. n
    BY <1>5, <1>6
  <2>2. ReadRows(s, dayFirst) = [i \in 1 .. n |-> [c \in DOMAIN columns |-> value(i, c)]]
    BY <2>1 DEF ReadRows
  <2>3. ASSUME NEW i \in 1 .. n, NEW c \in DOMAIN columns PROVE value(i, c) = rows[i][c]
    <3>1. Cell(sheets[s].rows[i], c) = cell(i, c)
      BY <1>2
    <3>2. Coerce(cell(i, c), columns[c], dayFirst).value = rows[i][c]
      BY <1>3
    <3> QED
      BY <3>1, <3>2
  <2> HIDE DEF value
  <2>4. ASSUME NEW i \in 1 .. n PROVE [c \in DOMAIN columns |-> value(i, c)] = rows[i]
    <3>1. rows[i] = [c \in DOMAIN columns |-> rows[i][c]]
      BY <1>1 DEF WrittenRow
    <3>2. [c \in DOMAIN columns |-> value(i, c)] = [c \in DOMAIN columns |-> rows[i][c]]
      BY <2>3
    <3> QED
      BY <3>1, <3>2
  <2>5. ReadRows(s, dayFirst) = [i \in 1 .. n |-> rows[i]]
    BY <2>2, <2>4
  <2> QED
    BY <1>1, <2>5
<1>8. ASSUME NEW i \in 1 .. n, NEW c \in DOMAIN columns
      PROVE  Cell(sheets[s].rows[i], c).form \in {"blank", "value"}
    BY <1>2, <1>3
<1> HIDE DEF columns
<1>9. DOMAIN rows = 1 .. n
    BY <1>1
<1> QED
    BY <1>5, <1>6, <1>7, <1>8, <1>9 DEF rows, columns

\* The tables of an export that was read back.
Returned(of) == Sound(of) /\ tables = [s \in SheetNames |-> ExportedRows(of, s)]

LEMMA ReturnedRows ==
    ASSUME NEW of, Returned(of)
    PROVE  /\ \A s \in SheetNames : tables[s] = ExportedRows(of, s) /\ Records(s) = RowSet(of, s)
           /\ \A s \in {"scenes", "people", "locations", "equipment"} :
                 s \in SheetNames /\ Ids(s) = KeysIn(of, s)
           /\ \A s \in SheetNames :
                 IsFiniteSet(DOMAIN tables[s]) /\ DOMAIN tables[s] \subseteq Nat
<1>1. \A s \in SheetNames : tables[s] = ExportedRows(of, s)
    BY DEF Returned
<1>2. \A s \in SheetNames : Records(s) = RowSet(of, s)
    BY <1>1 DEF Records, RowSet
<1>3. ASSUME NEW s \in {"scenes", "people", "locations", "equipment"}
      PROVE  s \in SheetNames /\ Ids(s) = KeysIn(of, s)
  <2>1. s \in SheetNames
    BY SheetsAre
  <2>2. Ids(s) = {v[WorkbookSheets[s].key] : v \in Records(s)}
    BY DEF Ids, Records
  <2> QED
    BY <1>2, <2>1, <2>2 DEF KeysIn
<1>4. ASSUME NEW s \in SheetNames
      PROVE  IsFiniteSet(DOMAIN tables[s]) /\ DOMAIN tables[s] \subseteq Nat
  <2>1. PICK n \in Nat : DOMAIN tables[s] = 1 .. n
    BY <1>1 DEF Returned, Sound, SheetWritten
  <2>2. IsFiniteSet(1 .. n) /\ 1 .. n \subseteq Nat
    BY FS_Interval
  <2> QED
    BY <2>1, <2>2
<1> QED
    BY <1>1, <1>2, <1>3, <1>4

LEMMA ReturnedProduction ==
    ASSUME NEW of, Returned(of)
    PROVE  /\ Production = ExportedRows(of, "production")[1]
           /\ Zone = InferredZone(of) /\ Zone.forward = None /\ Zone.back = None
           /\ Production.shoot_start = of.production.shoot_start
           /\ Production.shoot_end = of.production.shoot_end
           /\ ShootDates = of.production.shoot_start .. of.production.shoot_end
<1>1. tables["production"] = ExportedRows(of, "production")
    BY ReturnedRows, SheetsAre
<1>2. PICK row : /\ ExportedRows(of, "production") = <<row>>
                 /\ row["timezone"] = InferredZone(of)
                 /\ row["shoot_start"] = of.production.shoot_start
                 /\ row["shoot_end"] = of.production.shoot_end
    BY DEF ExportedRows
<1>3. DOMAIN tables["production"] = {1} /\ tables["production"][1] = row
    BY <1>1, <1>2
<1>4. Production = row
    BY <1>3 DEF Production
<1>5. InferredZone(of).forward = None /\ InferredZone(of).back = None
    BY DEF InferredZone, FixedZone
<1> QED
    BY <1>2, <1>4, <1>5 DEF Zone, ShootDates

LEMMA NoKeyTwice ==
    ASSUME NEW of, Returned(of)
    PROVE  RepeatedKeys = {}
<1> DEFINE key(s) == WorkbookSheets[s].key
           repeated(s) == {i \in DOMAIN tables[s] :
                             \E j \in DOMAIN tables[s] :
                                j < i /\ tables[s][j][key(s)] = tables[s][i][key(s)]}
           keyed == {s \in SheetNames : key(s) # None}
<1>1. RepeatedKeys = UNION {{Issue("E005", s, i, key(s)) : i \in repeated(s)} : s \in keyed}
    BY DEF RepeatedKeys
<1>2. ASSUME NEW s \in keyed PROVE repeated(s) = {}
  <2>1. s \in SheetNames /\ key(s) # None
    OBVIOUS
  <2>2. s \in {"scenes", "people", "locations", "equipment"}
    BY <2>1, SheetsAre DEF ProductionSheet, AvailabilitySheet, ScheduleSheet, Sheet
  <2>3. tables[s] = ExportedRows(of, s) /\ DOMAIN tables[s] \subseteq Nat
    BY <2>1, ReturnedRows
  <2>4. \A i, j \in DOMAIN tables[s] : tables[s][i][key(s)] = tables[s][j][key(s)] => i = j
    BY <2>2, <2>3 DEF Returned, Sound, SoundKeys
  <2>5. \A i \in Nat : ~(i < i)
    OBVIOUS
  <2> QED
    BY <2>3, <2>4, <2>5
<1> HIDE DEF repeated, key, keyed
<1> QED
    BY <1>1, <1>2

LEMMA NoRefDangles ==
    ASSUME NEW of, Returned(of)
    PROVE  DanglingRefs = {}
<1> DEFINE bad(s, i) == {ref \in RefsOf(s, tables[s][i]) : ref[2] \notin Ids(ref[3])}
           issue(s, i, ref) == [Issue("E006", s, i, ref[1]) EXCEPT !.names = <<ref[2], ref[3]>>]
<1>1. DanglingRefs = UNION {UNION {{issue(s, i, ref) : ref \in bad(s, i)} : i \in DOMAIN tables[s]} :
                             s \in {"scenes", "schedule", "availability"}}
    BY DEF DanglingRefs
<1>2. ASSUME NEW s \in {"scenes", "schedule", "availability"}, NEW i \in DOMAIN tables[s],
             NEW ref \in RefsOf(s, tables[s][i])
      PROVE  ref[2] \in Ids(ref[3])
  <2>1. s \in SheetNames
    BY SheetsAre
  <2>2. tables[s][i] \in RowSet(of, s)
    BY <2>1, ReturnedRows DEF Records
  <2>3. ref[2] \in KeysIn(of, ref[3])
    BY <2>2 DEF Returned, Sound, SoundRefs
  <2>4. ref[3] \in {"scenes", "people", "locations", "equipment"}
    <3>1. CASE s = "scenes"
      <4>1. ref \in SceneRefs(tables[s][i])
        BY <3>1 DEF RefsOf
      <4> QED
        BY <4>1 DEF SceneRefs
    <3>2. CASE s = "schedule"
      <4>1. ref \in DayRefs(tables[s][i])
        BY <3>2 DEF RefsOf
      <4> QED
        BY <4>1 DEF DayRefs
    <3>3. CASE s = "availability"
      <4>1. ref \in WindowRefs(tables[s][i])
        BY <3>3 DEF RefsOf
      <4>2. ref[3] = SubjectSheet[tables[s][i].subject_type]
        BY <4>1 DEF WindowRefs
      <4>3. ~MisfitWindow(tables[s][i])
        BY <3>3, <2>2 DEF Returned, Sound, SoundWindows
      <4>4. WrittenRow("availability", tables[s][i])
        BY <2>1, <2>2, <3>3 DEF Returned, Sound, SheetWritten, RowSet
      <4>5. Written(RequiredOf({"PERSON", "EQUIPMENT", "LOCATION"}), tables[s][i]["subject_type"])
        BY <4>4, AvailabilityColumns DEF WrittenRow
      <4>6. tables[s][i].subject_type \in {"PERSON", "EQUIPMENT", "LOCATION"}
        BY <4>5 DEF Written, RequiredOf, Column, IsEmpty, Lists
      <4> QED
        BY <4>2, <4>6 DEF SubjectSheet
    <3> QED
      BY <3>1, <3>2, <3>3
  <2> QED
    BY <2>3, <2>4, ReturnedRows
<1>3. ASSUME NEW s \in {"scenes", "schedule", "availability"}, NEW i \in DOMAIN tables[s]
      PROVE  bad(s, i) = {}
    BY <1>2
<1> HIDE DEF issue, bad
<1> QED
    BY <1>1, <1>3

LEMMA NoRoleWrong ==
    ASSUME NEW of, Returned(of)
    PROVE  WrongRoles = {}
<1> DEFINE v(i) == tables["scenes"][i]
           cast(i) == {id \in ToSet(v(i).cast_ids) : RoleOf(id) = "CREW"}
           crew(i) == {id \in ToSet(v(i).crew_ids) : RoleOf(id) = "CAST"}
<1>1. WrongRoles = UNION {{Issue("E008", "scenes", i, "cast_ids") : id \in cast(i)} \cup
                          {Issue("E008", "scenes", i, "crew_ids") : id \in crew(i)} :
                          i \in DOMAIN tables["scenes"]}
    BY DEF WrongRoles
<1>2. {"scenes", "people"} \subseteq SheetNames
    BY SheetsAre
<1>3. ASSUME NEW id PROVE RoleOf(id) = None \/ \E p \in RowSet(of, "people") :
                                                  p.person_id = id /\ RoleOf(id) = p.role
  <2> DEFINE rows == DOMAIN tables["people"]
             j == CHOOSE j \in rows : tables["people"][j].person_id = id
  <2>1. CASE id \in Ids("people")
    <3>1. \E k \in rows : tables["people"][k].person_id = id
      BY <2>1, KeysAre DEF Ids
    <3>2. j \in rows /\ tables["people"][j].person_id = id
      BY <3>1
    <3>3. RoleOf(id) = tables["people"][j].role
      BY <2>1 DEF RoleOf
    <3> HIDE DEF j
    <3>4. tables["people"][j] \in RowSet(of, "people")
      BY <1>2, <3>2, ReturnedRows DEF Records
    <3> QED
      BY <3>2, <3>3, <3>4
  <2>2. CASE id \notin Ids("people")
    BY <2>2 DEF RoleOf
  <2> QED
    BY <2>1, <2>2
<1>4. None \notin {"CAST", "CREW"}
    BY NoneAssumption
<1>5. ASSUME NEW i \in DOMAIN tables["scenes"] PROVE cast(i) = {} /\ crew(i) = {}
  <2>1. v(i) \in of.scenes
    BY <1>2, ReturnedRows DEF Returned, Sound, SoundScenes, Records
  <2>2. \A p \in RowSet(of, "people") :
            /\ p.person_id \in ToSet(v(i).cast_ids) => p.role # "CREW"
            /\ p.person_id \in ToSet(v(i).crew_ids) => p.role # "CAST"
    BY <2>1 DEF Returned, Sound, SoundRoles
  <2> HIDE DEF v
  <2> QED
    BY <1>3, <1>4, <2>2
<1> HIDE DEF cast, crew
<1> QED
    BY <1>1, <1>5

LEMMA NoWindowMisfit ==
    ASSUME NEW of, Returned(of)
    PROVE  MisfitWindows = {} /\ ReversedWindows = {}
<1>1. ASSUME NEW i \in DOMAIN tables["availability"]
      PROVE  /\ ~MisfitWindow(tables["availability"][i])
             /\ ~(tables["availability"][i].to_date < tables["availability"][i].from_date)
  <2>1. "availability" \in SheetNames
    BY SheetsAre
  <2>2. tables["availability"][i] \in RowSet(of, "availability")
    BY <2>1, ReturnedRows DEF Records
  <2> DEFINE v == tables["availability"][i]
  <2>3. ~MisfitWindow(v) /\ v.from_date <= v.to_date /\ v.from_date \in Int /\ v.to_date \in Int
    BY <2>2 DEF Returned, Sound, SoundWindows
  <2> HIDE DEF v
  <2>4. ~(v.to_date < v.from_date)
    BY <2>3
  <2> QED
    BY <2>3, <2>4 DEF v
<1> QED
    BY <1>1 DEF MisfitWindows, ReversedWindows

LEMMA NoLoopReturns ==
    ASSUME NEW of, Returned(of)
    PROVE  PrerequisiteLoops = {}
<1>1. "scenes" \in SheetNames
    BY SheetsAre
<1>2. of.scenes = Records("scenes")
    BY <1>1, ReturnedRows DEF Returned, Sound, SoundScenes
<1>3. Ids("scenes") = {v.scene_id : v \in of.scenes}
    BY <1>2, KeysAre DEF Ids, Records
<1>4. ASSUME NEW id PROVE Prerequisites(id) = NeededBy(of, id)
  <2> DEFINE t == tables["scenes"]
             with == {i \in DOMAIN t : t[i].scene_id = id}
             those == {v \in of.scenes : v.scene_id = id}
  <2>1. those = {t[i] : i \in with}
    BY <1>2 DEF Records
  <2>2. Prerequisites(id) = UNION {ToSet(t[i].prerequisite_scene_ids) : i \in with}
    BY DEF Prerequisites
  <2>3. NeededBy(of, id) = UNION {ToSet(v.prerequisite_scene_ids) : v \in those}
    BY DEF NeededBy
  <2> HIDE DEF with, those, t
  <2> QED
    BY <2>1, <2>2, <2>3
<1>5. ~\E loop \in (SUBSET {v.scene_id : v \in of.scenes}) \ {{}} :
          \A id \in loop : NeededBy(of, id) \cap loop # {}
    BY DEF Returned, Sound, SoundScenes
<1>6. ~\E loop \in (SUBSET Ids("scenes")) \ {{}} : \A id \in loop : Prerequisites(id) \cap loop # {}
    BY <1>3, <1>4, <1>5
<1> QED
    BY <1>6 DEF PrerequisiteLoops

LEMMA NoDayWrong ==
    ASSUME NEW of, Returned(of)
    PROVE  DaysOutside = {} /\ ScenesTwice = {} /\ ImpossibleTimes = {}
<1> DEFINE rows == ExportedRows(of, "schedule")
<1>1. tables["schedule"] = rows /\ DOMAIN rows \subseteq Nat
    BY ReturnedRows, SheetsAre
<1>2. /\ \A k \in DOMAIN rows :
            /\ rows[k].date \in of.production.shoot_start .. of.production.shoot_end
            /\ ~WrapBeforeCall(rows[k])
      /\ \A j, k \in DOMAIN rows :
            ToSet(rows[j].scene_ids) \cap ToSet(rows[k].scene_ids) # {} =>
                rows[j].date = rows[k].date /\ rows[j].unit = rows[k].unit
    BY DEF Returned, Sound, SoundDates
<1> HIDE DEF rows
<1>3. DaysOutside = {}
    BY <1>1, <1>2, ReturnedProduction DEF DaysOutside
<1>4. ASSUME NEW i \in DOMAIN rows, NEW id \in ToSet(rows[i].scene_ids)
      PROVE  Slot(FirstRowOf(id)) = Slot(i)
  <2>1. i \in RowsOf(id) /\ RowsOf(id) \subseteq DOMAIN rows
    BY <1>1 DEF RowsOf
  <2>2. \E j \in RowsOf(id) : \A k \in RowsOf(id) : j <= k
    BY <1>1, <2>1, LeastNatural
  <2>3. FirstRowOf(id) \in RowsOf(id)
    BY <2>2 DEF FirstRowOf
  <2>4. PICK j \in DOMAIN rows : j = FirstRowOf(id) /\ id \in ToSet(rows[j].scene_ids)
    BY <1>1, <2>3 DEF RowsOf
  <2>5. rows[j].date = rows[i].date /\ rows[j].unit = rows[i].unit
    BY <1>2, <2>4
  <2>6. Slot(j) = Slot(i)
    BY <1>1, <2>5 DEF Slot
  <2> QED
    BY <2>4, <2>6
<1>5. ScenesTwice = {}
    BY <1>1, <1>4 DEF ScenesTwice
<1>6. ImpossibleTimes = {}
  <2> DEFINE missed(i) == {c \in {"call_time", "wrap_time"} :
                 Skipped(Zone, IF c = "call_time" THEN CallAt(rows[i]) ELSE WrapAt(rows[i]))}
             found(i) == IF WrapBeforeCall(rows[i]) THEN {Issue("E011", "schedule", i, "wrap_time")}
                         ELSE {Issue("E015", "schedule", i, c) : c \in missed(i)}
  <2>1. ImpossibleTimes = UNION {found(i) : i \in DOMAIN rows}
    BY <1>1 DEF ImpossibleTimes
  <2>2. ASSUME NEW i \in DOMAIN rows PROVE found(i) = {}
    <3>1. missed(i) = {}
      BY ReturnedProduction DEF Skipped
    <3> HIDE DEF missed
    <3> QED
      BY <1>2, <3>1
  <2> HIDE DEF found
  <2> QED
    BY <2>1, <2>2
<1> QED
    BY <1>3, <1>5, <1>6

LEMMA WindowsReturn ==
    ASSUME NEW of, Returned(of)
    PROVE  /\ \A id, kind : WindowsOf(id, kind) = AsWindows(of, id, kind)
           /\ \A id : ClosedDays(id) = {}
<1>1. Records("availability") = RowSet(of, "availability")
    BY ReturnedRows, SheetsAre
<1>2. Zone = InferredZone(of)
    BY ReturnedProduction
<1>3. \A id, kind : AvailabilityOf(id, kind)
          = {v \in RowSet(of, "availability") : v.subject_id = id /\ v.window_kind = kind}
    BY <1>1 DEF AvailabilityOf, Records
<1>4. \A v : WholeDays(v.from_date, v.to_date) = AsWindow(InferredZone(of), v)
    BY <1>2 DEF WholeDays, Midnight, AsWindow
<1>5. ASSUME NEW id, NEW kind PROVE WindowsOf(id, kind) = AsWindows(of, id, kind)
    BY <1>3, <1>4 DEF WindowsOf, AsWindows
<1>6. ASSUME NEW id PROVE ClosedDays(id) = {}
  <2>1. AvailabilityOf(id, "CLOSED") = {}
    BY <1>3 DEF Returned, Sound, SoundWindows
  <2> QED
    BY <2>1 DEF ClosedDays
<1> QED
    BY <1>5, <1>6

LEMMA PermitsReturn ==
    ASSUME NEW of, Returned(of), NEW v \in RowSet(of, "locations")
    PROVE  PermitWindows(v) = AsPermits(of, v)
<1>1. ClosedDays(v.location_id) = {} /\ Zone = InferredZone(of)
      /\ ShootDates = of.production.shoot_start .. of.production.shoot_end
    BY WindowsReturn, ReturnedProduction
<1>2. v.permit_start_time = None <=> v.permit_end_time = None
    BY DEF Returned, Sound, SoundLocations
<1>3. CASE v.permit_start_time = None
    BY <1>1, <1>2, <1>3 DEF PermitWindows, AsPermits
<1>4. CASE v.permit_start_time # None
  <2>1. \A d : PermitOn(d, v.permit_start_time, v.permit_end_time) = AsPermit(InferredZone(of), v, d)
    BY <1>1, <1>2, <1>4 DEF PermitOn, AsPermit
  <2>2. PermitWindows(v) = {PermitOn(d, v.permit_start_time, v.permit_end_time) :
                               d \in of.production.shoot_start .. of.production.shoot_end}
    BY <1>1, <1>4 DEF PermitWindows
  <2> QED
    BY <1>4, <2>1, <2>2 DEF AsPermits
<1> QED
    BY <1>3, <1>4

LEMMA DaysReturn ==
    ASSUME NEW of, Returned(of), \A i \in ScheduleRows : DayFits(tables["schedule"][i])
    PROVE  Days = of.days
<1> DEFINE rows == ExportedRows(of, "schedule")
<1>1. tables["schedule"] = rows
    BY ReturnedRows, SheetsAre
<1>2. PICK n \in Nat : DOMAIN rows = 1 .. n
    BY SheetsAre DEF Returned, Sound, SheetWritten
<1>3. /\ of.days = [k \in 1 .. n |-> AsDay(InferredZone(of), rows[k])]
      /\ \A j, k \in 1 .. n :
            j < k => \/ rows[j].date < rows[k].date
                     \/ rows[j].date = rows[k].date /\ UnitRank(rows[j].unit) < UnitRank(rows[k].unit)
                     \/ rows[j].date = rows[k].date /\ rows[j].unit = rows[k].unit
    BY <1>2 DEF Returned, Sound, SoundSchedule, SoundDates
<1> HIDE DEF rows
<1>4. ScheduleRows = 1 .. n /\ ScheduleRows \subseteq Nat
    BY <1>1, <1>2 DEF ScheduleRows
<1>5. StrictOn(Earlier, ScheduleRows)
    BY <1>4, RowsOrdered
<1>6. ASSUME NEW j \in 1 .. n, NEW k \in 1 .. n PROVE Precedes(j, k) <=> j < k
  <2>1. ASSUME NEW a \in 1 .. n, NEW b \in 1 .. n, a < b PROVE <<a, b>> \in Earlier
    BY <1>1, <1>3, <1>4, <2>1 DEF Earlier, Precedes
  <2>2. ~(<<j, k>> \in Earlier /\ <<k, j>> \in Earlier) /\ <<j, j>> \notin Earlier
    BY <1>4, <1>5 DEF StrictOn
  <2>3. <<j, k>> \in Earlier <=> j < k
    <3>1. CASE j < k
      BY <2>1, <3>1
    <3>2. CASE k < j
      BY <2>1, <2>2, <3>2
    <3>3. CASE j = k
      BY <2>2, <3>3
    <3> QED
      BY <3>1, <3>2, <3>3
  <2> QED
    BY <1>4, <2>3 DEF Earlier
<1>7. ASSUME NEW i \in 1 .. n PROVE Cardinality({j \in 1 .. n : Precedes(j, i)}) = i - 1
  <2>1. {j \in 1 .. n : Precedes(j, i)} = 1 .. i - 1
    BY <1>6
  <2>2. Cardinality(1 .. i - 1) = i - 1
    BY FS_Interval, SMTT(20)
  <2> QED
    BY <2>1, <2>2
<1>8. Cardinality(1 .. n) = n
    BY FS_Interval, SMTT(20)
<1> DEFINE pick(k) == CHOOSE i \in 1 .. n : Cardinality({j \in 1 .. n : Precedes(j, i)}) = k - 1
<1>9. ASSUME NEW k \in 1 .. n PROVE pick(k) = k
  <2>1. Cardinality({j \in 1 .. n : Precedes(j, k)}) = k - 1
    BY <1>7
  <2>2. pick(k) \in 1 .. n /\ Cardinality({j \in 1 .. n : Precedes(j, pick(k))}) = k - 1
    BY <2>1
  <2> HIDE DEF pick
  <2>3. pick(k) - 1 = k - 1
    BY <1>7, <2>2
  <2> QED
    BY <2>2, <2>3
<1>10. Days = [k \in 1 .. n |-> ShootingDay(rows[pick(k)])]
    BY <1>1, <1>4, <1>8 DEF Days, ScheduleRows
<1> HIDE DEF pick
<1>11. \A v : ShootingDay(v) = AsDay(InferredZone(of), v)
    BY ReturnedProduction DEF ShootingDay, AsDay
<1> QED
    BY <1>3, <1>9, <1>10, <1>11

\* The state that is built of the rows of an export is the state they are of.
LEMMA StateReturns ==
    ASSUME NEW of, Returned(of), \A i \in ScheduleRows : DayFits(tables["schedule"][i])
    PROVE  NewState = of
<1>1. /\ Records("scenes") = RowSet(of, "scenes") /\ Records("people") = RowSet(of, "people")
      /\ Records("locations") = RowSet(of, "locations")
      /\ Records("equipment") = RowSet(of, "equipment")
    BY ReturnedRows, SheetsAre
<1>2. Records("scenes") = of.scenes
    BY <1>1 DEF Returned, Sound, SoundScenes
<1>3. People = of.people
    BY <1>1, WindowsReturn DEF People, Returned, Sound, SoundPeople
<1>4. Equipment = of.equipment
    BY <1>1, WindowsReturn DEF Equipment, Returned, Sound, SoundEquipment
<1>5. Locations = of.locations
    BY <1>1, PermitsReturn DEF Locations, Returned, Sound, SoundLocations
<1>6. Days = of.days
    BY DaysReturn
<1> DEFINE made == [id |-> Production.production_id, title |-> Production.title,
                    currency |-> Production.currency,
                    shoot_start |-> Production.shoot_start, shoot_end |-> Production.shoot_end,
                    reserve_days |-> Production.reserve_days]
<1>7. made = of.production
  <2> DEFINE p == of.production
  <2>1. p = [id |-> p.id, title |-> p.title, currency |-> p.currency, shoot_start |-> p.shoot_start,
             shoot_end |-> p.shoot_end, reserve_days |-> p.reserve_days]
    BY DEF Returned, Sound, SoundShoot
  <2> HIDE DEF p
  <2>2. PICK row : ExportedRows(of, "production") = <<row>>
                   /\ row = [production_id |-> p.id, title |-> p.title, currency |-> p.currency,
                             timezone |-> InferredZone(of), shoot_start |-> p.shoot_start,
                             shoot_end |-> p.shoot_end, reserve_days |-> p.reserve_days,
                             template_version |-> TemplateVersion]
    BY DEF ExportedRows, p
  <2>3. Production = row
    BY <2>2, ReturnedProduction
  <2>4. made = p
    BY <2>1, <2>2, <2>3
  <2> QED
    BY <2>4 DEF p
<1> HIDE DEF made
<1>8. of = [production |-> of.production, scenes |-> of.scenes, people |-> of.people,
            locations |-> of.locations, equipment |-> of.equipment, days |-> of.days]
    BY DEF Returned, Sound
<1> QED
    BY <1>2, <1>3, <1>4, <1>5, <1>6, <1>7, <1>8 DEF NewState, made

\* A phase that looks at the rows of an export, and at most finds the file too
\* large.
LEMMA CheckReturns ==
    ASSUME WorkbookInv, ReimportInv, phase \notin {"read", "warnings", "done"},
           UNCHANGED <<upload, sheets, tables, state, first>>,
           NEW found, NEW next, Report(found, next),
           Returning => found \subseteq TooLarge,
           next \in AfterProduction => phase \in AfterProduction,
           next \in AfterRows => phase \in AfterRows
    PROVE  ReimportInv'
<1> SUFFICES ASSUME Returning' PROVE ReimportInv'
    BY DEF ReimportInv
<1>1. Returning
    BY DEF Returning
<1>2. state = NoState /\ errors = {}
    BY StillParsing
<1>3. errors' = found /\ phase' \in {next, "done"}
    BY <1>2 DEF Report
<1>4. /\ Sound(first.state) /\ upload = ExportState(first.state)
      /\ SheetsReturn /\ ProductionReturns /\ TablesReturn
    BY <1>1 DEF ReimportInv
<1>5. SheetsReturn'
    BY <1>2, <1>4 DEF SheetsReturn
<1>6. "done" \notin AfterProduction /\ "done" \notin AfterRows
    BY DEF AfterProduction, AfterRows, AfterIdentity, AfterReferences, AfterSemantics
<1>7. ProductionReturns'
    BY <1>2, <1>3, <1>4, <1>6 DEF ProductionReturns, Reached
<1>8. TablesReturn'
    BY <1>2, <1>3, <1>4, <1>6 DEF TablesReturn, Reached
<1>9. errors' \subseteq TooLarge
    BY <1>1, <1>3
<1>10. Sound(first.state)' /\ upload' = ExportState(first.state)' /\ state' = NoState
    BY <1>2, <1>4
<1>11. TooLarge' = TooLarge
    BY DEF TooLarge
<1> QED
    BY <1>5, <1>7, <1>8, <1>9, <1>10, <1>11 DEF ReimportInv

LEMMA ReadReturns ==
    ASSUME WorkbookInv, ReimportInv, Read
    PROVE  ReimportInv'
<1> SUFFICES ASSUME Returning' PROVE ReimportInv'
    BY DEF ReimportInv
<1> DEFINE of == first.state
<1>1. phase = "read" /\ UNCHANGED <<upload, tables, state, first>>
    BY DEF Read
<1>2. Returning
    BY <1>1 DEF Returning
<1>3. state = NoState /\ errors = {}
    BY <1>1, StillParsing
<1>4. Sound(of) /\ upload = ExportState(of)
    BY <1>2 DEF ReimportInv
<1>5. SheetsReturn' /\ errors' \subseteq TooLarge /\ phase' \in {"sheets", "done"}
  <2>1. CASE Readable(upload)
    <3>1. /\ sheets' = [s \in DOMAIN upload.book |-> ReadSheet(DetectKind(upload), upload.book[s])]
          /\ Report({}, "sheets")
      BY <2>1 DEF Read
    <3>2. /\ DetectKind(upload) = "XLSX"
          /\ upload.book = [s \in SheetNames |-> ExportedSheet(of, s)]
      BY <1>4 DEF ExportState, DetectKind
    <3> HIDE DEF of
    <3>3. sheets' = [s \in SheetNames |-> ReadSheet("XLSX", ExportedSheet(of, s))]
      BY <3>1, <3>2
    <3>4. errors' = {} /\ phase' = "sheets"
      BY <1>3, <3>1 DEF Report
    <3> QED
      BY <1>1, <3>3, <3>4 DEF SheetsReturn, of
  <2>2. CASE ~Readable(upload)
    <3>1. Report(TooLarge, "done")
      BY <2>2 DEF Read, TooLarge
    <3>2. errors' = TooLarge /\ phase' = "done" /\ TooLarge # {}
      BY <1>3, <3>1 DEF Report, TooLarge
    <3> QED
      BY <3>2 DEF SheetsReturn
  <2> QED
    BY <2>1, <2>2
<1>6. ProductionReturns' /\ TablesReturn'
    BY <1>1, <1>3, <1>5 DEF ProductionReturns, TablesReturn, Reached, AfterProduction, AfterRows,
                            AfterIdentity, AfterReferences, AfterSemantics
<1>7. Sound(first.state)' /\ upload' = ExportState(first.state)' /\ state' = NoState
    BY <1>1, <1>3, <1>4
<1>8. TooLarge' = TooLarge
    BY DEF TooLarge
<1> QED
    BY <1>5, <1>6, <1>7, <1>8 DEF ReimportInv

\* Every sheet and column is there, and no sheet is longer than it was.
LEMMA NoSheetError ==
    ASSUME NEW of, \A s \in SheetNames : SheetWritten(of, s), NoFormulas(of),
           sheets = [s \in SheetNames |-> ReadSheet("XLSX", ExportedSheet(of, s))]
    PROVE  SheetErrors = {} /\ DOMAIN sheets = SheetNames /\ SheetNames # {}
<1>1. DOMAIN sheets = SheetNames /\ SheetNames # {}
    BY SheetsAre
<1>2. ASSUME NEW s \in SheetNames
      PROVE  \E n \in Nat : /\ sheets[s].headers = DOMAIN WorkbookSheets[s].columns
                            /\ DOMAIN sheets[s].rows = 1 .. n
                            /\ s # "production" => n <= RowLimit
  <2>1. PICK n \in Nat : /\ DOMAIN ExportedRows(of, s) = 1 .. n
                         /\ IF WorkbookSheets[s].exactlyOne THEN n = 1 ELSE n <= RowLimit
    BY DEF SheetWritten
  <2>2. s # "production" => n <= RowLimit
    BY <2>1, FilledColumns
  <2>3. /\ sheets[s].headers = DOMAIN WorkbookSheets[s].columns
        /\ DOMAIN sheets[s].rows = 1 .. n
    BY <2>1, ExportRead DEF NoFormulas
  <2> QED
    BY <2>2, <2>3
<1>3. MissingSheets = {}
    BY <1>1 DEF MissingSheets
<1>4. MissingColumns = {}
  <2> DEFINE lost(s) == {c \in DOMAIN WorkbookSheets[s].columns :
                           WorkbookSheets[s].columns[c].required /\ c \notin sheets[s].headers}
  <2>1. MissingColumns = UNION {{Issue("E002", s, 1, c) : c \in lost(s)} : s \in SheetNames}
    BY <1>1 DEF MissingColumns
  <2>2. \A s \in SheetNames : lost(s) = {}
    BY <1>2
  <2> HIDE DEF lost
  <2> QED
    BY <2>1, <2>2
<1>5. ASSUME NEW s \in SheetNames, s # "production"
      PROVE  ~(Cardinality({i \in DOMAIN sheets[s].rows : ~IsBlank(sheets[s].rows[i])}) > RowLimit)
  <2>1. PICK n \in Nat : DOMAIN sheets[s].rows = 1 .. n /\ n <= RowLimit
    BY <1>2, <1>5
  <2> DEFINE filled == {i \in DOMAIN sheets[s].rows : ~IsBlank(sheets[s].rows[i])}
  <2>2. filled \in SUBSET (1 .. n)
    BY <2>1
  <2>3. IsFiniteSet(1 .. n) /\ Cardinality(1 .. n) = n
    BY FS_Interval, SMTT(20)
  <2> HIDE DEF filled
  <2>4. Cardinality(filled) <= n /\ Cardinality(filled) \in Nat
    BY <2>2, <2>3, FS_Subset, FS_CardinalityType
  <2>5. ~(Cardinality(filled) > RowLimit)
    BY <2>1, <2>4, RowLimitAssumption
  <2> QED
    BY <2>5 DEF filled
<1>6. OverlongSheets = {}
  <2>1. \A s \in SheetNames : WorkbookSheets[s].exactlyOne = (s = "production")
                              /\ WorkbookSheets[s].maxRows = RowLimit
    BY FilledColumns
  <2> DEFINE size(s) == Cardinality({i \in DOMAIN sheets[s].rows : ~IsBlank(sheets[s].rows[i])})
             long == {s \in DOMAIN sheets :
                        ~WorkbookSheets[s].exactlyOne /\ size(s) > WorkbookSheets[s].maxRows}
  <2>2. OverlongSheets = {Issue("E017", s, 0, Whole) : s \in long}
    BY DEF OverlongSheets
  <2>3. \A s \in DOMAIN sheets : s # "production" => ~(size(s) > RowLimit)
    BY <1>1, <1>5
  <2> HIDE DEF size
  <2>4. long = {}
    BY <1>1, <2>1, <2>3
  <2> QED
    BY <2>2, <2>4
<1> QED
    BY <1>1, <1>3, <1>4, <1>6 DEF SheetErrors

LEMMA CheckSheetsReturns ==
    ASSUME WorkbookInv, ReimportInv, CheckSheets
    PROVE  ReimportInv'
<1> DEFINE found == IF DOMAIN sheets = {} THEN {Issue("E012", Whole, 0, Whole)}
                    ELSE MissingSheets \cup MissingColumns \cup OverlongSheets
<1>1. phase = "sheets" /\ Report(found, "production")
      /\ UNCHANGED <<upload, sheets, tables, state, first>>
    BY DEF CheckSheets
<1>2. errors = {}
    BY <1>1, StillParsing
<1>3. Returning => found = {}
  <2> SUFFICES ASSUME Returning PROVE found = {}
    OBVIOUS
  <2>1. /\ Sound(first.state)
        /\ sheets = [s \in SheetNames |-> ReadSheet("XLSX", ExportedSheet(first.state, s))]
    BY <1>1, <1>2 DEF ReimportInv, SheetsReturn
  <2>2. \A s \in SheetNames : SheetWritten(first.state, s)
    BY <2>1 DEF Sound
  <2>3. SheetErrors = {} /\ DOMAIN sheets # {}
    BY <2>1, <2>2, NoSheetError DEF Returning
  <2> QED
    BY <2>3 DEF SheetErrors
<1> HIDE DEF found
<1>4. "production" \notin AfterProduction /\ "production" \notin AfterRows
    BY DEF AfterProduction, AfterRows, AfterIdentity, AfterReferences, AfterSemantics
<1> QED
    BY <1>1, <1>3, <1>4, CheckReturns

LEMMA ReadProductionReturns ==
    ASSUME WorkbookInv, ReimportInv, ReadProduction
    PROVE  ReimportInv'
<1> SUFFICES ASSUME Returning' PROVE ReimportInv'
    BY DEF ReimportInv
<1> DEFINE of == first.state
           s  == "production"
           i  == CHOOSE i \in DataRows(s) : TRUE
<1>1. phase = "production" /\ UNCHANGED <<upload, sheets, state, first>>
    BY DEF ReadProduction
<1>2. Returning
    BY <1>1 DEF Returning
<1>3. state = NoState /\ errors = {}
    BY <1>1, StillParsing
<1>4. Sound(of) /\ upload = ExportState(of) /\ SheetsReturn
    BY <1>2 DEF ReimportInv
<1>5. sheets = [t \in SheetNames |-> ReadSheet("XLSX", ExportedSheet(of, t))] /\ s \in SheetNames
    BY <1>1, <1>3, <1>4, SheetsAre DEF SheetsReturn
<1>6. /\ SheetWritten(of, s) /\ WrittenAsIs(of, s)
      /\ sheets[s] = ReadSheet("XLSX", ExportedSheet(of, s))
    BY <1>2, <1>4, <1>5 DEF Sound, Returning, NoFormulas
<1> HIDE DEF of
<1>7. /\ DataRows(s) = DOMAIN ExportedRows(of, s)
      /\ \A j \in DataRows(s) : \A dayFirst : FaultyCells(s, j, dayFirst) = {}
      /\ \A dayFirst : ReadRows(s, dayFirst) = ExportedRows(of, s)
      /\ \A j \in DataRows(s), c \in DOMAIN WorkbookSheets[s].columns :
            Cell(sheets[s].rows[j], c).form \in {"blank", "value"}
    BY <1>5, <1>6, RowsReadBack
<1>8. DataRows(s) = {1}
  <2>1. DOMAIN ExportedRows(of, s) = {1}
    BY DEF ExportedRows
  <2> QED
    BY <1>7, <2>1
<1>9. Cardinality(DataRows(s)) = 1 /\ i = 1
    BY <1>8, FS_Singleton
<1>10. /\ Cell(sheets[s].rows[1], "timezone").form \in {"blank", "value"}
       /\ FaultyCells(s, 1, DayFirst(1)) = {}
       /\ ReadRows(s, DayFirst(1)) = ExportedRows(of, s)
    BY <1>7, <1>8, ProductionColumns
<1> HIDE DEF i
<1>11. /\ Report(FaultyCells(s, i, DayFirst(i)), "rows")
       /\ tables' = [production |-> ReadRows(s, DayFirst(i))]
    BY <1>9, <1>10 DEF ReadProduction, i
<1>12. errors' = {} /\ phase' = "rows" /\ tables'["production"] = ExportedRows(of, s)
    BY <1>3, <1>9, <1>10, <1>11 DEF Report
<1>13. SheetsReturn' /\ ProductionReturns'
    BY <1>1, <1>5, <1>12 DEF SheetsReturn, ProductionReturns, of
<1>14. TablesReturn'
    BY <1>1, <1>3, <1>12 DEF TablesReturn, Reached, AfterRows, AfterIdentity, AfterReferences,
                             AfterSemantics
<1>15. Sound(first.state)' /\ upload' = ExportState(first.state)' /\ state' = NoState
    BY <1>1, <1>3, <1>4 DEF of
<1> QED
    BY <1>12, <1>13, <1>14, <1>15 DEF ReimportInv

LEMMA ReadTablesReturns ==
    ASSUME WorkbookInv, ReimportInv, ReadTables
    PROVE  ReimportInv'
<1> SUFFICES ASSUME Returning' PROVE ReimportInv'
    BY DEF ReimportInv
<1> DEFINE of == first.state
           there == (SheetNames \ {"production"}) \cap DOMAIN sheets
<1>1. phase = "rows" /\ UNCHANGED <<upload, sheets, state, first>>
    BY DEF ReadTables
<1>2. Returning
    BY <1>1 DEF Returning
<1>3. state = NoState /\ errors = {}
    BY <1>1, StillParsing
<1>4. Sound(of) /\ upload = ExportState(of) /\ SheetsReturn /\ ProductionReturns
    BY <1>2 DEF ReimportInv
<1>5. sheets = [t \in SheetNames |-> ReadSheet("XLSX", ExportedSheet(of, t))]
    BY <1>1, <1>3, <1>4 DEF SheetsReturn
<1>6. tables["production"] = ExportedRows(of, "production") /\ NoFormulas(of)
    BY <1>1, <1>2, <1>4 DEF ProductionReturns, Reached, AfterProduction, Returning
<1> HIDE DEF of
<1>7. ASSUME NEW s \in SheetNames
      PROVE  /\ \A j \in DataRows(s) : \A dayFirst : FaultyCells(s, j, dayFirst) = {}
             /\ \A dayFirst : ReadRows(s, dayFirst) = ExportedRows(of, s)
  <2>1. /\ SheetWritten(of, s) /\ WrittenAsIs(of, s)
        /\ sheets[s] = ReadSheet("XLSX", ExportedSheet(of, s))
    BY <1>4, <1>5, <1>6 DEF Sound, NoFormulas
  <2> QED
    BY <2>1, RowsReadBack
<1>8. there = SheetNames \ {"production"}
    BY <1>5
<1> DEFINE d == ~Zone.monthFirst
           found == UNION {UNION {FaultyCells(s, i, d) : i \in DataRows(s)} : s \in there}
<1>9. /\ Report(found, "budget")
      /\ tables' = [s \in SheetNames |-> CASE s = "production" -> tables["production"]
                                          [] s \in there      -> ReadRows(s, d)
                                          [] OTHER            -> <<>>]
    BY DEF ReadTables
<1> HIDE DEF there, d
<1>10. found = {}
    BY <1>7, <1>8
<1>11. ASSUME NEW s \in SheetNames
       PROVE  (CASE s = "production" -> tables["production"]
                 [] s \in there      -> ReadRows(s, d)
                 [] OTHER            -> <<>>) = ExportedRows(of, s)
  <2>1. CASE s = "production"
    BY <1>6, <1>8, <2>1
  <2>2. CASE s # "production"
    BY <1>7, <1>8, <2>2
  <2> QED
    BY <2>1, <2>2
<1>12. tables' = [s \in SheetNames |-> ExportedRows(of, s)]
    BY <1>9, <1>11
<1> HIDE DEF found
<1>13. errors' = {} /\ phase' = "budget"
    BY <1>3, <1>9, <1>10 DEF Report
<1>14. SheetsReturn'
    BY <1>1, <1>5 DEF SheetsReturn, of
<1>15. ProductionReturns' /\ TablesReturn'
    BY <1>1, <1>12, SheetsAre DEF ProductionReturns, TablesReturn, of
<1>16. Sound(first.state)' /\ upload' = ExportState(first.state)' /\ state' = NoState
    BY <1>1, <1>3, <1>4 DEF of
<1> QED
    BY <1>13, <1>14, <1>15, <1>16 DEF ReimportInv

\* What the checks of an export start from.
LEMMA TablesBack ==
    ASSUME WorkbookInv, ReimportInv, Returning, phase \in AfterRows
    PROVE  Returned(first.state)
BY DEF ReimportInv, TablesReturn, Reached, Returned

LEMMA ChecksReturn ==
    ASSUME WorkbookInv, ReimportInv,
           \/ WithinBudget \/ OverBudget \/ CheckIdentity \/ CheckReferences \/ CheckProduction
           \/ CheckSemantics
    PROVE  ReimportInv'
<1> DEFINE of == first.state
<1>1. /\ {"budget", "identity", "reference", "production_row", "semantic", "build"} \subseteq AfterRows
      /\ "done" \notin AfterRows /\ "done" \notin AfterProduction
      /\ AfterRows \subseteq AfterProduction
    BY DEF AfterRows, AfterProduction, AfterIdentity, AfterReferences, AfterSemantics
<1>2. CASE WithinBudget
  <2>1. /\ phase = "budget" /\ phase' = "identity" /\ errors' = errors
        /\ UNCHANGED <<upload, sheets, tables, state, first>>
    BY <1>2 DEF WithinBudget
  <2>2. errors = {}
    BY <2>1, StillParsing
  <2>3. Report({}, "identity")
    BY <2>1, <2>2 DEF Report
  <2> QED
    BY <1>1, <2>1, <2>3, CheckReturns
<1>3. CASE OverBudget
  <2>1. /\ phase = "budget" /\ Report(TooLarge, "done")
        /\ UNCHANGED <<upload, sheets, tables, state, first>>
    BY <1>3 DEF OverBudget, TooLarge
  <2> QED
    BY <1>1, <2>1, CheckReturns
<1>4. CASE CheckIdentity
  <2>1. /\ phase = "identity" /\ Report(RepeatedKeys, "reference")
        /\ UNCHANGED <<upload, sheets, tables, state, first>>
    BY <1>4 DEF CheckIdentity
  <2>2. Returning => RepeatedKeys \subseteq TooLarge
    BY <1>1, <2>1, TablesBack, NoKeyTwice
  <2> QED
    BY <1>1, <2>1, <2>2, CheckReturns
<1>5. CASE CheckReferences
  <2> DEFINE found == DanglingRefs \cup WrongRoles \cup MisfitWindows
  <2>1. /\ phase = "reference" /\ Report(found, "production_row")
        /\ UNCHANGED <<upload, sheets, tables, state, first>>
    BY <1>5 DEF CheckReferences
  <2>2. Returning => found \subseteq TooLarge
    BY <1>1, <2>1, TablesBack, NoRefDangles, NoRoleWrong, NoWindowMisfit
  <2> HIDE DEF found
  <2> QED
    BY <1>1, <2>1, <2>2, CheckReturns
<1>6. CASE CheckProduction
  <2> DEFINE found == IF Production.shoot_end < Production.shoot_start
                      THEN {Issue("E003", "production", 2, Whole)} ELSE {}
  <2>1. /\ phase = "production_row" /\ Report(found, "semantic")
        /\ UNCHANGED <<upload, sheets, tables, state, first>>
    BY <1>6 DEF CheckProduction
  <2>2. ASSUME Returning PROVE ~(Production.shoot_end < Production.shoot_start)
    <3>1. Returned(of)
      BY <1>1, <2>1, <2>2, TablesBack
    <3> HIDE DEF of
    <3>2. /\ Production.shoot_start = of.production.shoot_start
          /\ Production.shoot_end = of.production.shoot_end
      BY <3>1, ReturnedProduction
    <3>3. /\ of.production.shoot_start \in Int /\ of.production.shoot_end \in Int
          /\ of.production.shoot_start <= of.production.shoot_end
      BY <3>1 DEF Returned, Sound, SoundShoot
    <3> QED
      BY <3>2, <3>3
  <2>3. Returning => found \subseteq TooLarge
    BY <2>2
  <2> HIDE DEF found
  <2> QED
    BY <1>1, <2>1, <2>3, CheckReturns
<1>7. CASE CheckSemantics
  <2> DEFINE found == PrerequisiteLoops \cup DaysOutside \cup ScenesTwice \cup ImpossibleTimes
                          \cup ReversedWindows
  <2>1. /\ phase = "semantic" /\ Report(found, "build")
        /\ UNCHANGED <<upload, sheets, tables, state, first>>
    BY <1>7 DEF CheckSemantics
  <2>2. Returning => found \subseteq TooLarge
    BY <1>1, <2>1, TablesBack, NoLoopReturns, NoDayWrong, NoWindowMisfit
  <2> HIDE DEF found
  <2> QED
    BY <1>1, <2>1, <2>2, CheckReturns
<1> QED
    BY <1>2, <1>3, <1>4, <1>5, <1>6, <1>7

LEMMA BuildStateReturns ==
    ASSUME WorkbookInv, ReimportInv, BuildState
    PROVE  ReimportInv'
<1> DEFINE broken == BrokenRecords(NewState)
           of == first.state
<1>1. /\ phase = "build" /\ Report(broken, "warnings")
      /\ state' = IF broken = {} THEN NewState ELSE NoState
      /\ UNCHANGED <<upload, sheets, tables, first>>
    BY DEF BuildState
<1> SUFFICES ASSUME Returning' PROVE ReimportInv'
    BY DEF ReimportInv
<1>2. Returning
    BY <1>1 DEF Returning
<1>3. state = NoState /\ errors = {} /\ phase \in AfterRows
    BY <1>1, StillParsing DEF AfterRows, AfterIdentity, AfterReferences, AfterSemantics
<1>4. Returned(of)
    BY <1>2, <1>3, TablesBack
<1>5. /\ Sound(of) /\ upload = ExportState(of) /\ SheetsReturn
      /\ tables = [s \in SheetNames |-> ExportedRows(of, s)]
    BY <1>2, <1>4 DEF ReimportInv, Returned
<1>6. \A i \in ScheduleRows : DayFits(tables["schedule"][i])
  <2>1. Reached(AfterRows) /\ SheetsFit /\ SheetsThere /\ RowsRead
    BY <1>3 DEF WorkbookInv, Reached
  <2> QED
    BY <2>1, RowsFit DEF ScheduleRows
<1> HIDE DEF of
<1>7. NewState = of
    BY <1>4, <1>6, StateReturns
<1>8. broken = {}
    BY <1>5, <1>7 DEF Sound
<1> HIDE DEF broken
<1>9. errors' = {} /\ phase' = "warnings" /\ state' = of
    BY <1>1, <1>3, <1>7, <1>8 DEF Report
<1>10. SheetsReturn'
    BY <1>1, <1>3, <1>5 DEF SheetsReturn
<1>11. ProductionReturns' /\ TablesReturn'
    BY <1>1, <1>5, SheetsAre DEF ProductionReturns, TablesReturn, of
<1>12. Sound(first.state)' /\ upload' = ExportState(first.state)' /\ state' = first'.state
    BY <1>1, <1>5, <1>9 DEF of
<1> QED
    BY <1>9, <1>10, <1>11, <1>12 DEF ReimportInv

LEMMA WarnReturns ==
    ASSUME WorkbookInv, ReimportInv, Warn
    PROVE  ReimportInv'
<1>1. /\ phase = "warnings" /\ Report({}, "done")
      /\ UNCHANGED <<upload, sheets, tables, state, first>>
    BY DEF Warn
<1> SUFFICES ASSUME Returning' PROVE ReimportInv'
    BY DEF ReimportInv
<1>2. Returning
    BY <1>1 DEF Returning
<1>3. errors = {} /\ state # NoState
    BY <1>1 DEF WorkbookInv, TypeOK
<1>4. errors' = {} /\ phase' = "done"
    BY <1>1, <1>3 DEF Report
<1>5. /\ Sound(first.state) /\ upload = ExportState(first.state) /\ state = first.state
      /\ SheetsReturn /\ ProductionReturns /\ TablesReturn
    BY <1>2, <1>3 DEF ReimportInv
<1>6. SheetsReturn'
    BY <1>1, <1>3, <1>5 DEF SheetsReturn
<1>7. ProductionReturns' /\ TablesReturn'
    BY <1>1, <1>3, <1>5 DEF ProductionReturns, TablesReturn, Reached
<1>8. Sound(first.state)' /\ upload' = ExportState(first.state)' /\ state' = first'.state
    BY <1>1, <1>5
<1> QED
    BY <1>4, <1>6, <1>7, <1>8 DEF ReimportInv

LEMMA StutterReturns ==
    ASSUME ReimportInv, UNCHANGED vars
    PROVE  ReimportInv'
<1>1. UNCHANGED <<upload, phase, sheets, tables, errors, state, first>>
    BY DEF vars
<1>2. Returning' = Returning /\ TooLarge' = TooLarge
    BY <1>1 DEF Returning, TooLarge
<1>3. SheetsReturn' = SheetsReturn /\ ProductionReturns' = ProductionReturns /\ TablesReturn' = TablesReturn
    BY <1>1 DEF SheetsReturn, ProductionReturns, TablesReturn, Reached
<1>4. Sound(first.state)' = Sound(first.state) /\ ExportState(first.state)' = ExportState(first.state)
    BY <1>1
<1> QED
    BY <1>1, <1>2, <1>3, <1>4 DEF ReimportInv

(***************************************************************************)
(* What a state was built from: every record is one the export can write.  *)
(***************************************************************************)
\* A value that was read is its own when it is written down.
LEMMA ReadWritten ==
    ASSUME NEW column, NEW cell, NEW dayFirst, CellFits(column.kind, cell),
           Accepted(cell, column, dayFirst), column.kind = "ENUM" => column.default = None
    PROVE  Written(column, Coerce(cell, column, dayFirst).value)
<1> DEFINE got == Coerce(cell, column, dayFirst)
<1>1. column.required => ~IsEmpty(column.kind, got.value)
    BY DEF Accepted
<1>2. got.ok
    BY DEF Accepted
<1>3. CASE cell.form = "blank"
  <2>1. got.value = IF column.kind \in Lists THEN <<>> ELSE column.default
    BY <1>3 DEF Coerce, Can
  <2> QED
    BY <1>1, <2>1 DEF Written, IsEmpty, Lists
<1>4. CASE cell.form = "value"
  <2>1. got.value = cell.value /\ (column.kind = "ENUM" => cell.value \in column.permitted)
    BY <1>2, <1>4 DEF Coerce, Can, Cannot
  <2>2. column.kind \notin Lists => cell.value # None
    BY <1>4 DEF CellFits
  <2> QED
    BY <1>1, <2>1, <2>2 DEF Written, IsEmpty
<1>5. CASE cell.form \notin {"blank", "value"}
  <2>1. \/ cell.form = "slashed" /\ column.kind \in {"DATE", "DATE_LIST"}
        \/ cell.form = "text" /\ column.kind \in {"STRING", "ID_LIST"}
    BY <1>2, <1>5 DEF Coerce, Cannot
  <2>2. column.kind # "ENUM"
    BY <2>1
  <2>3. column.kind \notin Lists => got.value # None
    BY <2>1, NoneAssumption DEF Coerce, Can, CellFits, Lists, Slashed
  <2> QED
    BY <1>1, <2>2, <2>3 DEF Written, IsEmpty
<1> QED
    BY <1>3, <1>4, <1>5

LEMMA ChoicesDefault ==
    \A s \in SheetNames : \A c \in DOMAIN WorkbookSheets[s].columns :
        WorkbookSheets[s].columns[c].kind = "ENUM" => WorkbookSheets[s].columns[c].default = None
<1>1. \A c \in DOMAIN ProductionSheet.columns :
          ProductionSheet.columns[c].kind = "ENUM" => ProductionSheet.columns[c].default = None
    BY DEF ProductionSheet, Sheet, Required, RequiredOf, Optional, Column
<1>2. \A c \in DOMAIN ScenesSheet.columns :
          ScenesSheet.columns[c].kind = "ENUM" => ScenesSheet.columns[c].default = None
    BY DEF ScenesSheet, Sheet, Required, RequiredOf, Optional, Column
<1>3. \A c \in DOMAIN PeopleSheet.columns :
          PeopleSheet.columns[c].kind = "ENUM" => PeopleSheet.columns[c].default = None
    BY DEF PeopleSheet, Sheet, Required, RequiredOf, Optional, Column
<1>4. \A c \in DOMAIN LocationsSheet.columns :
          LocationsSheet.columns[c].kind = "ENUM" => LocationsSheet.columns[c].default = None
    BY DEF LocationsSheet, Sheet, Required, Optional, Column
<1>5. \A c \in DOMAIN EquipmentSheet.columns :
          EquipmentSheet.columns[c].kind = "ENUM" => EquipmentSheet.columns[c].default = None
    BY DEF EquipmentSheet, Sheet, Required, Optional, Column
<1>6. \A c \in DOMAIN AvailabilitySheet.columns :
          AvailabilitySheet.columns[c].kind = "ENUM" => AvailabilitySheet.columns[c].default = None
    BY DEF AvailabilitySheet, Sheet, Required, RequiredOf, Column
<1>7. \A c \in DOMAIN ScheduleSheet.columns :
          ScheduleSheet.columns[c].kind = "ENUM" => ScheduleSheet.columns[c].default = None
    BY DEF ScheduleSheet, Sheet, Required, Optional, OptionalOf, Column
<1> QED
    BY <1>1, <1>2, <1>3, <1>4, <1>5, <1>6, <1>7, SheetsAre

LEMMA RowsWritten ==
    ASSUME NEW s \in SheetNames, s \in DOMAIN sheets, SheetFits(s, sheets[s]), CleanTable(s),
           NEW i \in DOMAIN tables[s]
    PROVE  WrittenRow(s, tables[s][i])
<1> DEFINE columns == WorkbookSheets[s].columns
           cell(c) == Cell(sheets[s].rows[i], c)
           row     == tables[s][i]
<1>1. i \in DataRows(s)
    BY CleanRows
<1>2. PICK dayFirst \in BOOLEAN : \A c \in DOMAIN columns :
          Accepted(cell(c), columns[c], dayFirst) /\ row[c] = Coerce(cell(c), columns[c], dayFirst).value
    BY <1>1, CleanRows
<1>3. \A c \in DOMAIN columns : CellFits(columns[c].kind, cell(c))
    BY <1>1, CellsFit
<1>4. \A c \in DOMAIN columns : columns[c].kind = "ENUM" => columns[c].default = None
    BY ChoicesDefault
<1>5. row = [c \in DOMAIN columns |-> row[c]]
  <2>1. PICK d \in BOOLEAN : tables[s] = ReadRows(s, d)
    BY DEF CleanTable
  <2> QED
    BY <2>1 DEF ReadRows
<1> HIDE DEF cell, columns, row
<1>6. \A c \in DOMAIN columns : Written(columns[c], row[c])
    BY <1>2, <1>3, <1>4, ReadWritten
<1> QED
    BY <1>5, <1>6 DEF WrittenRow, columns, row

LEMMA RecordsWritten ==
    ASSUME WorkbookInv, state # NoState, NEW s \in SheetNames, NEW v \in Records(s)
    PROVE  WrittenRow(s, v)
<1>1. PICK i \in DOMAIN tables[s] : v = tables[s][i]
    BY DEF Records
<1>2. SheetsFit /\ SheetsThere /\ RowsRead /\ Reached(AfterRows)
    BY DEF WorkbookInv, Reached
<1>3. /\ s # "availability" => s \in DOMAIN sheets /\ SheetFits(s, sheets[s]) /\ CleanTable(s)
      /\ "availability" \in DOMAIN sheets =>
            SheetFits("availability", sheets["availability"]) /\ CleanTable("availability")
      /\ "availability" \notin DOMAIN sheets => tables["availability"] = <<>>
    BY <1>2, TablesThere
<1>4. s = "availability" => "availability" \in DOMAIN sheets
    BY <1>1, <1>3
<1> QED
    BY <1>1, <1>3, <1>4, RowsWritten

\* No sheet holds more records than its limit.
LEMMA ImageSmaller ==
    ASSUME NEW f, IsFiniteSet(DOMAIN f)
    PROVE  /\ IsFiniteSet({f[x] : x \in DOMAIN f})
           /\ Cardinality({f[x] : x \in DOMAIN f}) <= Cardinality(DOMAIN f)
<1> DEFINE T == {f[x] : x \in DOMAIN f}
           g == [x \in DOMAIN f |-> f[x]]
<1>1. g \in Surjection(DOMAIN f, T)
    BY DEF Surjection
<1> QED
    BY <1>1, FS_Surjection

LEMMA RowsWithinLimit ==
    ASSUME WorkbookInv, state # NoState, NEW s \in SheetNames \ {"production"}
    PROVE  /\ Cardinality(DOMAIN tables[s]) \in Nat /\ Cardinality(DOMAIN tables[s]) <= RowLimit
           /\ Cardinality(Records(s)) \in Nat /\ Cardinality(Records(s)) <= RowLimit
<1>1. SheetsFit /\ SheetsThere /\ RowsRead /\ Reached(AfterRows) /\ OverlongSheets = {}
    BY AllHeld DEF WorkbookInv, Reached, SheetErrors
<1>2. /\ IsFiniteSet(DOMAIN tables[s])
      /\ s # "availability" => s \in DOMAIN sheets /\ SheetFits(s, sheets[s]) /\ CleanTable(s)
      /\ "availability" \in DOMAIN sheets =>
            SheetFits("availability", sheets["availability"]) /\ CleanTable("availability")
      /\ "availability" \notin DOMAIN sheets => tables["availability"] = <<>>
    BY <1>1, TablesThere
<1>3. Cardinality(DOMAIN tables[s]) <= RowLimit
  <2>1. CASE s \in DOMAIN sheets
    <3> DEFINE filled == {i \in DOMAIN sheets[s].rows : ~IsBlank(sheets[s].rows[i])}
    <3>1. ~(Cardinality(filled) > WorkbookSheets[s].maxRows)
      <4> DEFINE long == {t \in DOMAIN sheets :
                   /\ ~WorkbookSheets[t].exactlyOne
                   /\ Cardinality({i \in DOMAIN sheets[t].rows : ~IsBlank(sheets[t].rows[i])})
                          > WorkbookSheets[t].maxRows}
      <4>1. long = {}
        BY <1>1 DEF OverlongSheets
      <4>2. ~WorkbookSheets[s].exactlyOne
        BY FilledColumns
      <4> QED
        BY <2>1, <4>1, <4>2
    <3>2. WorkbookSheets[s].maxRows = RowLimit
      BY FilledColumns
    <3>3. SheetFits(s, sheets[s]) /\ CleanTable(s)
      BY <1>2, <2>1
    <3>4. IsFiniteSet(DOMAIN sheets[s].rows)
      BY <3>3, FS_Interval DEF SheetFits
    <3>5. filled \subseteq DOMAIN sheets[s].rows /\ DOMAIN tables[s] \subseteq filled
      BY <3>3, CleanRows DEF DataRows
    <3> HIDE DEF filled
    <3>6. IsFiniteSet(filled) /\ Cardinality(filled) \in Nat
      BY <3>4, <3>5, FS_Subset, FS_CardinalityType
    <3>7. Cardinality(DOMAIN tables[s]) <= Cardinality(filled) /\ Cardinality(DOMAIN tables[s]) \in Nat
      BY <3>5, <3>6, FS_Subset, FS_CardinalityType
    <3> QED
      BY <3>1, <3>2, <3>6, <3>7, RowLimitAssumption
  <2>2. CASE s \notin DOMAIN sheets
    <3>1. DOMAIN tables[s] = {}
      BY <1>2, <2>2
    <3> QED
      BY <3>1, FS_EmptySet, RowLimitAssumption
  <2> QED
    BY <2>1, <2>2
<1>4. Cardinality(DOMAIN tables[s]) \in Nat
    BY <1>2, FS_CardinalityType
<1>5. IsFiniteSet(Records(s)) /\ Cardinality(Records(s)) <= Cardinality(DOMAIN tables[s])
    BY <1>2, ImageSmaller DEF Records
<1> QED
    BY <1>3, <1>4, <1>5, FS_CardinalityType, RowLimitAssumption

(***************************************************************************)
(* The rows a state is exported as are the records it was built from.      *)
(***************************************************************************)
LEMMA PersonRowIs ==
    ASSUME NEW v, WrittenRow("people", v)
    PROVE  v = [person_id |-> v.person_id, name |-> v.name, role |-> v.role,
                daily_rate |-> v.daily_rate]
BY SheetsAre DEF WrittenRow, PeopleSheet, Sheet

LEMMA EquipmentRowIs ==
    ASSUME NEW v, WrittenRow("equipment", v)
    PROVE  v = [equipment_id |-> v.equipment_id, name |-> v.name, daily_rate |-> v.daily_rate]
BY SheetsAre DEF WrittenRow, EquipmentSheet, Sheet

LEMMA WindowRowIs ==
    ASSUME NEW v, WrittenRow("availability", v)
    PROVE  v = [subject_type |-> v.subject_type, subject_id |-> v.subject_id,
                window_kind |-> v.window_kind, from_date |-> v.from_date, to_date |-> v.to_date]
BY SheetsAre DEF WrittenRow, AvailabilitySheet, Sheet

\* A sheet that lists a set.
LEMMA ListedRows ==
    ASSUME NEW of, NEW s, NEW S, IsFiniteSet(S), ExportedRows(of, s) = SetToSeq(S)
    PROVE  LET rows == ExportedRows(of, s)
           IN  /\ RowSet(of, s) = S
               /\ Cardinality(S) \in Nat /\ DOMAIN rows = 1 .. Cardinality(S)
               /\ rows = [i \in 1 .. Cardinality(S) |-> rows[i]]
               /\ \A i \in DOMAIN rows : rows[i] \in S
               /\ \A i, j \in DOMAIN rows : rows[i] = rows[j] => i = j
<1> DEFINE rows == ExportedRows(of, s)
           n    == Cardinality(S)
<1>1. /\ n \in Nat /\ rows \in [1 .. n -> S]
      /\ \A i, j \in 1 .. n : rows[i] = rows[j] => i = j
      /\ \A x \in S : \E i \in 1 .. n : rows[i] = x
    BY ListingCovers
<1> HIDE DEF rows, n
<1>2. DOMAIN rows = 1 .. n /\ rows = [i \in 1 .. n |-> rows[i]] /\ \A i \in 1 .. n : rows[i] \in S
    BY <1>1
<1>3. {rows[i] : i \in DOMAIN rows} = S
    BY <1>1, <1>2
<1> QED
    BY <1>1, <1>2, <1>3 DEF RowSet, rows, n

LEMMA SceneRowsAre ==
    ASSUME WorkbookInv, state # NoState
    PROVE  ExportedRows(state, "scenes") = SetToSeq(Records("scenes"))
BY AllHeld, NewStateIs DEF ExportedRows

LEMMA PersonRowsAre ==
    ASSUME WorkbookInv, state # NoState
    PROVE  ExportedRows(state, "people") = SetToSeq(Records("people"))
<1> DEFINE row(p)  == [person_id |-> p.id, name |-> p.name, role |-> p.role,
                       daily_rate |-> p.daily_rate]
           made(v) == [id |-> v.person_id, name |-> v.name, role |-> v.role,
                       daily_rate |-> v.daily_rate,
                       unavailable_windows |-> WindowsOf(v.person_id, "UNAVAILABLE")]
<1>1. state.people = {made(v) : v \in Records("people")}
    BY AllHeld, NewStateIs DEF People
<1>2. ExportedRows(state, "people") = SetToSeq({row(p) : p \in state.people})
    BY DEF ExportedRows
<1>3. ASSUME NEW v \in Records("people") PROVE row(made(v)) = v
    BY SheetsAre, RecordsWritten, PersonRowIs
<1> HIDE DEF row, made
<1>4. {row(p) : p \in state.people} = Records("people")
    BY <1>1, <1>3
<1> QED
    BY <1>2, <1>4

LEMMA EquipmentRowsAre ==
    ASSUME WorkbookInv, state # NoState
    PROVE  ExportedRows(state, "equipment") = SetToSeq(Records("equipment"))
<1> DEFINE row(e)  == [equipment_id |-> e.id, name |-> e.name, daily_rate |-> e.daily_rate]
           made(v) == [id |-> v.equipment_id, name |-> v.name, daily_rate |-> v.daily_rate,
                       available_windows |-> WindowsOf(v.equipment_id, "AVAILABLE")]
<1>1. state.equipment = {made(v) : v \in Records("equipment")}
    BY AllHeld, NewStateIs DEF Equipment
<1>2. ExportedRows(state, "equipment") = SetToSeq({row(e) : e \in state.equipment})
    BY DEF ExportedRows
<1>3. ASSUME NEW v \in Records("equipment") PROVE row(made(v)) = v
    BY SheetsAre, RecordsWritten, EquipmentRowIs
<1> HIDE DEF row, made
<1>4. {row(e) : e \in state.equipment} = Records("equipment")
    BY <1>1, <1>3
<1> QED
    BY <1>2, <1>4

\* A window of whole days is written as the first and the last of them.
LEMMA WindowRowBack ==
    ASSUME NEW v, WindowFits(v), NEW type, NEW id, NEW kind
    PROVE  AvailabilityRow(type, id, kind, WholeDays(v.from_date, v.to_date))
               = [subject_type |-> type, subject_id |-> id, window_kind |-> kind,
                  from_date |-> v.from_date, to_date |-> v.to_date]
<1> DEFINE f == v.from_date
           t == v.to_date
           w == WholeDays(f, t)
<1>1. f \in Int /\ t \in Int
    BY DEF WindowFits
<1> HIDE DEF f, t
<1>2. w.start.wall = f * 48 /\ [w.end EXCEPT !.wall = @ - DayLength].wall = (t + 1) * 48 - 48
    BY DEF WholeDays, Midnight, Moment, DayLength
<1>3. (f * 48) \div 48 = f /\ ((t + 1) * 48 - 48) \div 48 = t
    BY <1>1
<1> HIDE DEF w
<1>4. DateOf(w.start) = f /\ DateOf([w.end EXCEPT !.wall = @ - DayLength]) = t
    BY <1>2, <1>3 DEF DateOf, DayLength
<1> QED
    BY <1>4 DEF AvailabilityRow, w, f, t

LEMMA WindowRecord ==
    ASSUME WorkbookInv, state # NoState, NEW v \in Records("availability")
    PROVE  /\ WindowFits(v) /\ ~MisfitWindow(v) /\ WrittenRow("availability", v)
           /\ v.from_date <= v.to_date
           /\ v.subject_id \in Ids(SubjectSheet[v.subject_type])
<1>1. PICK i \in DOMAIN tables["availability"] : v = tables["availability"][i]
    BY DEF Records
<1>2. WindowFits(v)
    BY <1>1, StateRows
<1>3. WrittenRow("availability", v)
    BY SheetsAre, RecordsWritten
<1>4. ~MisfitWindow(v)
  <2> DEFINE misfits == {j \in DOMAIN tables["availability"] : MisfitWindow(tables["availability"][j])}
  <2>1. MisfitWindows = {}
    BY AllHeld DEF ReferenceErrors
  <2>2. misfits = {}
    BY <2>1 DEF MisfitWindows
  <2> QED
    BY <1>1, <2>2
<1>5. v.from_date <= v.to_date
  <2> DEFINE reversed == {j \in DOMAIN tables["availability"] :
                            tables["availability"][j].to_date < tables["availability"][j].from_date}
  <2>1. ReversedWindows = {}
    BY AllHeld DEF SemanticErrors
  <2>2. reversed = {}
    BY <2>1 DEF ReversedWindows
  <2>3. ~(v.to_date < v.from_date)
    BY <1>1, <2>2
  <2> QED
    BY <1>2, <2>3 DEF WindowFits
<1>6. v.subject_id \in Ids(SubjectSheet[v.subject_type])
  <2> DEFINE ref == <<"subject_id", v.subject_id, SubjectSheet[v.subject_type]>>
  <2>1. ref \in RefsOf("availability", tables["availability"][i])
    BY <1>1, <1>4 DEF RefsOf, WindowRefs
  <2>2. ref[2] \in Ids(ref[3])
    BY <2>1, RefsFound
  <2> QED
    BY <2>2
<1> QED
    BY <1>2, <1>3, <1>4, <1>5, <1>6

\* Without a closure, the windows people and equipment have are all there are.
LEMMA WindowRowsAre ==
    ASSUME WorkbookInv, state # NoState, \A v \in Records("availability") : v.window_kind # "CLOSED"
    PROVE  ExportedRows(state, "availability") = SetToSeq(Records("availability"))
<1> DEFINE out(p)  == {AvailabilityRow("PERSON", p.id, "UNAVAILABLE", w) : w \in p.unavailable_windows}
           free(e) == {AvailabilityRow("EQUIPMENT", e.id, "AVAILABLE", w) : w \in e.available_windows}
           S == (UNION {out(p) : p \in state.people}) \cup (UNION {free(e) : e \in state.equipment})
           R == Records("availability")
<1>1. ExportedRows(state, "availability") = SetToSeq(S)
    BY DEF ExportedRows
<1>2. ASSUME NEW id, NEW kind
      PROVE  WindowsOf(id, kind) =
                 {WholeDays(v.from_date, v.to_date) :
                     v \in {v \in R : v.subject_id = id /\ v.window_kind = kind}}
    BY DEF WindowsOf, AvailabilityOf, Records
<1>3. ASSUME NEW v \in R
      PROVE  /\ v.window_kind = WindowKindOf[v.subject_type]
             /\ v.subject_type \in {"PERSON", "EQUIPMENT"}
             /\ \A type : type = v.subject_type =>
                  AvailabilityRow(type, v.subject_id, v.window_kind,
                                  WholeDays(v.from_date, v.to_date)) = v
  <2>1. WindowFits(v) /\ ~MisfitWindow(v) /\ WrittenRow("availability", v)
    BY WindowRecord
  <2>2. v.window_kind = WindowKindOf[v.subject_type]
    BY <2>1 DEF MisfitWindow
  <2>3. v.subject_type \in {"PERSON", "EQUIPMENT", "LOCATION"} /\ v.window_kind # "CLOSED"
    BY <2>1 DEF WindowFits
  <2>4. v.subject_type \in {"PERSON", "EQUIPMENT"}
    BY <2>2, <2>3 DEF WindowKindOf
  <2>5. AvailabilityRow(v.subject_type, v.subject_id, v.window_kind, WholeDays(v.from_date, v.to_date)) = v
    BY <2>1, WindowRowBack, WindowRowIs
  <2> QED
    BY <2>2, <2>4, <2>5
<1>4. ASSUME NEW v \in R PROVE v.window_kind = "UNAVAILABLE" <=> v.subject_type = "PERSON"
    BY <1>3 DEF WindowKindOf
<1>5. ASSUME NEW v \in R PROVE v.window_kind = "AVAILABLE" <=> v.subject_type = "EQUIPMENT"
    BY <1>3 DEF WindowKindOf
<1>6. ASSUME NEW p \in state.people
      PROVE  out(p) = {v \in R : v.subject_type = "PERSON" /\ v.subject_id = p.id}
  <2> DEFINE mine == {v \in R : v.subject_id = p.id /\ v.window_kind = "UNAVAILABLE"}
             row(w) == AvailabilityRow("PERSON", p.id, "UNAVAILABLE", w)
             whole(v) == WholeDays(v.from_date, v.to_date)
  <2>1. p.unavailable_windows = WindowsOf(p.id, "UNAVAILABLE")
    BY AllHeld, NewStateIs DEF People
  <2>2. p.unavailable_windows = {whole(v) : v \in mine}
    BY <1>2, <2>1
  <2>3. ASSUME NEW v \in mine PROVE row(whole(v)) = v
    BY <1>3, <1>4
  <2>4. mine = {v \in R : v.subject_type = "PERSON" /\ v.subject_id = p.id}
    BY <1>4
  <2>5. out(p) = {row(w) : w \in p.unavailable_windows}
    OBVIOUS
  <2> HIDE DEF row, whole, mine, out
  <2>6. {row(w) : w \in p.unavailable_windows} = mine
    BY <2>2, <2>3
  <2> QED
    BY <2>4, <2>5, <2>6
<1>7. ASSUME NEW e \in state.equipment
      PROVE  free(e) = {v \in R : v.subject_type = "EQUIPMENT" /\ v.subject_id = e.id}
  <2> DEFINE mine == {v \in R : v.subject_id = e.id /\ v.window_kind = "AVAILABLE"}
             row(w) == AvailabilityRow("EQUIPMENT", e.id, "AVAILABLE", w)
             whole(v) == WholeDays(v.from_date, v.to_date)
  <2>1. e.available_windows = WindowsOf(e.id, "AVAILABLE")
    BY AllHeld, NewStateIs DEF Equipment
  <2>2. e.available_windows = {whole(v) : v \in mine}
    BY <1>2, <2>1
  <2>3. ASSUME NEW v \in mine PROVE row(whole(v)) = v
    BY <1>3, <1>5
  <2>4. mine = {v \in R : v.subject_type = "EQUIPMENT" /\ v.subject_id = e.id}
    BY <1>5
  <2>5. free(e) = {row(w) : w \in e.available_windows}
    OBVIOUS
  <2> HIDE DEF row, whole, mine, free
  <2>6. {row(w) : w \in e.available_windows} = mine
    BY <2>2, <2>3
  <2> QED
    BY <2>4, <2>5, <2>6
<1>8. ASSUME NEW v \in R, v.subject_type = "PERSON" PROVE \E p \in state.people : p.id = v.subject_id
  <2>1. v.subject_id \in Ids("people")
    BY <1>8, WindowRecord DEF SubjectSheet
  <2> QED
    BY <2>1, IdsAre DEF PersonIds
<1>9. ASSUME NEW v \in R, v.subject_type = "EQUIPMENT" PROVE \E e \in state.equipment : e.id = v.subject_id
  <2>1. v.subject_id \in Ids("equipment")
    BY <1>9, WindowRecord DEF SubjectSheet
  <2> QED
    BY <2>1, IdsAre
<1>10. \A v \in R : v.subject_type \in {"PERSON", "EQUIPMENT"}
    BY <1>3
<1> HIDE DEF out, free, R
<1>11. S \subseteq R
    BY <1>6, <1>7
<1>12. ASSUME NEW v \in R PROVE v \in S
  <2>1. CASE v.subject_type = "PERSON"
    BY <1>6, <1>8, <2>1
  <2>2. CASE v.subject_type = "EQUIPMENT"
    BY <1>7, <1>9, <2>2
  <2> QED
    BY <1>10, <2>1, <2>2
<1>13. S = R
    BY <1>11, <1>12
<1> QED
    BY <1>1, <1>13 DEF R

(***************************************************************************)
(* Moments survive the change of zone: one offset stands for all of them.  *)
(***************************************************************************)
LEMMA FirstDay ==
    ASSUME WorkbookInv, state # NoState, state.days # <<>>
    PROVE  1 \in DOMAIN state.days
<1> DEFINE n == Cardinality(ScheduleRows)
           day(k) == ShootingDay(tables["schedule"][
              CHOOSE i \in ScheduleRows : Cardinality({j \in ScheduleRows : Precedes(j, i)}) = k - 1])
<1>1. state.days = Days
    BY AllHeld, NewStateIs
<1>2. n \in Nat
    BY StateRows, FS_CardinalityType
<1>3. Days = [k \in 1 .. n |-> day(k)]
    BY DEF Days, ScheduleRows
<1> HIDE DEF n, day
<1>4. n # 0
  <2> SUFFICES ASSUME n = 0 PROVE FALSE
    OBVIOUS
  <2>1. 1 .. n = {}
    OBVIOUS
  <2>2. Days = [k \in {} |-> day(k)]
    BY <1>3, <2>1
  <2> QED
    BY <1>1, <2>2
<1> QED
    BY <1>1, <1>2, <1>3, <1>4

LEMMA ZoneAgrees ==
    ASSUME WorkbookInv, state # NoState, OneOffset(state), NEW t \in Int,
           Moment(Zone, t) \in Moments(state)
    PROVE  Moment(InferredZone(state), t) = Moment(Zone, t)
<1>1. PICK offset : /\ \A m \in Moments(state) : m.wall - m.at = offset
                    /\ offset % Hour = 0 \/ offset = India
                    /\ state.days # <<>>
    BY DEF OneOffset
<1>2. 1 \in DOMAIN state.days
    BY <1>1, FirstDay
<1>3. state.days[1].call_time \in Moments(state)
    BY <1>2 DEF Moments
<1>4. state.days[1].call_time.wall - state.days[1].call_time.at = offset
    BY <1>1, <1>3
<1>5. InferredZone(state) = FixedZone(offset)
    BY <1>1, <1>4 DEF InferredZone
<1>6. Instant(Zone, t) \in Int
    BY StateRows, InstantIs DEF ProductionFits, Zone
<1>7. t - Instant(Zone, t) = offset
    BY <1>1 DEF Moment
<1>8. offset \in Int /\ Instant(Zone, t) = t - offset
    BY <1>6, <1>7
<1>9. Instant(FixedZone(offset), t) = t - offset
    BY <1>8 DEF FixedZone, Instant
<1> QED
    BY <1>5, <1>8, <1>9 DEF Moment

\* The windows of whole days that a state has are the same in either zone.
LEMMA WholeDaysAgree ==
    ASSUME WorkbookInv, state # NoState, OneOffset(state), NEW v, WindowFits(v),
           LET w == WholeDays(v.from_date, v.to_date) IN {w.start, w.end} \subseteq Moments(state)
    PROVE  AsWindow(InferredZone(state), v) = WholeDays(v.from_date, v.to_date)
<1>1. v.from_date * DayLength \in Int /\ (v.to_date + 1) * DayLength \in Int
    BY DEF WindowFits, DayLength
<1>2. /\ Moment(Zone, v.from_date * DayLength) \in Moments(state)
      /\ Moment(Zone, (v.to_date + 1) * DayLength) \in Moments(state)
    BY DEF WholeDays, Midnight
<1>3. /\ Moment(InferredZone(state), v.from_date * DayLength) = Moment(Zone, v.from_date * DayLength)
      /\ Moment(InferredZone(state), (v.to_date + 1) * DayLength)
             = Moment(Zone, (v.to_date + 1) * DayLength)
    BY <1>1, <1>2, ZoneAgrees
<1> QED
    BY <1>3 DEF AsWindow, WholeDays, Midnight

LEMMA WindowMoments ==
    /\ \A p \in state.people : \A w \in p.unavailable_windows :
          {w.start, w.end} \subseteq Moments(state)
    /\ \A e \in state.equipment : \A w \in e.available_windows :
          {w.start, w.end} \subseteq Moments(state)
    /\ \A l \in state.locations : \A w \in l.permit_windows :
          {w.start, w.end} \subseteq Moments(state)
<1> DEFINE P == {p.unavailable_windows : p \in state.people}
           E == {e.available_windows : e \in state.equipment}
           L == {l.permit_windows : l \in state.locations}
           ends(w) == {w.start, w.end}
           W == UNION (P \cup E \cup L)
<1>1. (UNION {ends(w) : w \in W}) \subseteq Moments(state)
    BY DEF Moments
<1>2. /\ \A p \in state.people : p.unavailable_windows \subseteq W
      /\ \A e \in state.equipment : e.available_windows \subseteq W
      /\ \A l \in state.locations : l.permit_windows \subseteq W
    OBVIOUS
<1> HIDE DEF ends, W
<1>3. \A w \in W : ends(w) \subseteq Moments(state)
    BY <1>1
<1> QED
    BY <1>2, <1>3 DEF ends

LEMMA PeopleSound ==
    ASSUME WorkbookInv, state # NoState, OneOffset(state),
           \A v \in Records("availability") : v.window_kind # "CLOSED"
    PROVE  SoundPeople(state)
<1> DEFINE R == Records("people")
           A == Records("availability")
           made(v) == [id |-> v.person_id, name |-> v.name, role |-> v.role,
                       daily_rate |-> v.daily_rate,
                       unavailable_windows |-> WindowsOf(v.person_id, "UNAVAILABLE")]
           again(v) == [id |-> v.person_id, name |-> v.name, role |-> v.role,
                        daily_rate |-> v.daily_rate,
                        unavailable_windows |-> AsWindows(state, v.person_id, "UNAVAILABLE")]
<1>1. state.people = {made(v) : v \in R}
    BY AllHeld, NewStateIs DEF People
<1>2. RowSet(state, "people") = R /\ RowSet(state, "availability") = A
    BY SheetsAre, RecordsFinite, PersonRowsAre, WindowRowsAre, ListedRows
<1>3. ASSUME NEW v \in R PROVE made(v) = again(v)
  <2> DEFINE id == v.person_id
             mine == {u \in A : u.subject_id = id /\ u.window_kind = "UNAVAILABLE"}
             whole(u) == WholeDays(u.from_date, u.to_date)
             as(u) == AsWindow(InferredZone(state), u)
  <2>1. WindowsOf(id, "UNAVAILABLE") = {whole(u) : u \in mine}
    BY DEF WindowsOf, AvailabilityOf, Records
  <2>2. AsWindows(state, id, "UNAVAILABLE") = {as(u) : u \in mine}
    BY <1>2 DEF AsWindows
  <2>3. made(v) \in state.people /\ made(v).unavailable_windows = WindowsOf(id, "UNAVAILABLE")
    BY <1>1
  <2>4. ASSUME NEW u \in mine PROVE as(u) = whole(u)
    <3>1. WindowFits(u)
      BY WindowRecord
    <3>2. whole(u) \in made(v).unavailable_windows
      BY <2>1, <2>3
    <3> HIDE DEF made
    <3>3. {whole(u).start, whole(u).end} \subseteq Moments(state)
      BY <2>3, <3>2, WindowMoments
    <3> QED
      BY <3>1, <3>3, WholeDaysAgree
  <2> HIDE DEF whole, as, mine, made
  <2>5. WindowsOf(id, "UNAVAILABLE") = AsWindows(state, id, "UNAVAILABLE")
    BY <2>1, <2>2, <2>4
  <2> QED
    BY <2>5 DEF made
<1> HIDE DEF made, again, R
<1>4. state.people = {again(v) : v \in RowSet(state, "people")}
    BY <1>1, <1>2, <1>3
<1> QED
    BY <1>4 DEF again, SoundPeople

LEMMA EquipmentSound ==
    ASSUME WorkbookInv, state # NoState, OneOffset(state),
           \A v \in Records("availability") : v.window_kind # "CLOSED"
    PROVE  SoundEquipment(state)
<1> DEFINE R == Records("equipment")
           A == Records("availability")
           made(v) == [id |-> v.equipment_id, name |-> v.name, daily_rate |-> v.daily_rate,
                       available_windows |-> WindowsOf(v.equipment_id, "AVAILABLE")]
           again(v) == [id |-> v.equipment_id, name |-> v.name, daily_rate |-> v.daily_rate,
                        available_windows |-> AsWindows(state, v.equipment_id, "AVAILABLE")]
<1>1. state.equipment = {made(v) : v \in R}
    BY AllHeld, NewStateIs DEF Equipment
<1>2. RowSet(state, "equipment") = R /\ RowSet(state, "availability") = A
    BY SheetsAre, RecordsFinite, EquipmentRowsAre, WindowRowsAre, ListedRows
<1>3. ASSUME NEW v \in R PROVE made(v) = again(v)
  <2> DEFINE id == v.equipment_id
             mine == {u \in A : u.subject_id = id /\ u.window_kind = "AVAILABLE"}
             whole(u) == WholeDays(u.from_date, u.to_date)
             as(u) == AsWindow(InferredZone(state), u)
  <2>1. WindowsOf(id, "AVAILABLE") = {whole(u) : u \in mine}
    BY DEF WindowsOf, AvailabilityOf, Records
  <2>2. AsWindows(state, id, "AVAILABLE") = {as(u) : u \in mine}
    BY <1>2 DEF AsWindows
  <2>3. made(v) \in state.equipment /\ made(v).available_windows = WindowsOf(id, "AVAILABLE")
    BY <1>1
  <2>4. ASSUME NEW u \in mine PROVE as(u) = whole(u)
    <3>1. WindowFits(u)
      BY WindowRecord
    <3>2. whole(u) \in made(v).available_windows
      BY <2>1, <2>3
    <3> HIDE DEF made
    <3>3. {whole(u).start, whole(u).end} \subseteq Moments(state)
      BY <2>3, <3>2, WindowMoments
    <3> QED
      BY <3>1, <3>3, WholeDaysAgree
  <2> HIDE DEF whole, as, mine, made
  <2>5. WindowsOf(id, "AVAILABLE") = AsWindows(state, id, "AVAILABLE")
    BY <2>1, <2>2, <2>4
  <2> QED
    BY <2>5 DEF made
<1> HIDE DEF made, again, R
<1>4. state.equipment = {again(v) : v \in RowSet(state, "equipment")}
    BY <1>1, <1>2, <1>3
<1> QED
    BY <1>4 DEF again, SoundEquipment

(***************************************************************************)
(* Locations: the permit is written as the one pair of clock times it has. *)
(***************************************************************************)
LEMMA LocationRowWritten ==
    ASSUME NEW v, WrittenRow("locations", v), NEW opens, NEW closes
    PROVE  WrittenRow("locations",
               [location_id |-> v.location_id, name |-> v.name, day_rate |-> v.day_rate,
                permit_start_time |-> opens, permit_end_time |-> closes,
                supports_int_ext |-> v.supports_int_ext,
                supports_time_of_day |-> v.supports_time_of_day])
<1> DEFINE row == [location_id |-> v.location_id, name |-> v.name, day_rate |-> v.day_rate,
                   permit_start_time |-> opens, permit_end_time |-> closes,
                   supports_int_ext |-> v.supports_int_ext,
                   supports_time_of_day |-> v.supports_time_of_day]
           columns == WorkbookSheets["locations"].columns
<1>1. DOMAIN columns = {"location_id", "name", "day_rate", "permit_start_time", "permit_end_time",
                        "supports_int_ext", "supports_time_of_day"}
    BY SheetsAre DEF LocationsSheet, Sheet
<1>2. \A c \in DOMAIN columns : Written(columns[c], v[c])
    BY DEF WrittenRow
<1>3. row = [c \in DOMAIN columns |-> row[c]]
    BY <1>1
<1>4. ASSUME NEW c \in {"permit_start_time", "permit_end_time"} PROVE Written(columns[c], row[c])
  <2>1. columns[c] = Optional("TIME", None)
    BY LocationsColumns
  <2> QED
    BY <2>1 DEF Written, Optional, Column, IsEmpty, Lists
<1>5. ASSUME NEW c \in DOMAIN columns, c \notin {"permit_start_time", "permit_end_time"}
      PROVE  Written(columns[c], row[c])
  <2>1. row[c] = v[c]
    BY <1>1, <1>5
  <2> QED
    BY <1>2, <2>1
<1> HIDE DEF row, columns
<1>6. \A c \in DOMAIN columns : Written(columns[c], row[c])
    BY <1>4, <1>5
<1> QED
    BY <1>3, <1>6 DEF WrittenRow, row, columns

\* A permit read back from the clock times it is written as.
LEMMA PermitBack ==
    ASSUME WorkbookInv, state # NoState, OneOffset(state),
           \A v \in Records("availability") : v.window_kind # "CLOSED",
           NEW v \in Records("locations"), NEW l \in state.locations,
           l.permit_windows = PermitWindows(v),
           NEW u, u.permit_start_time = DailyPermit(l)[1], u.permit_end_time = DailyPermit(l)[2]
    PROVE  /\ u.permit_start_time = None <=> u.permit_end_time = None
           /\ AsPermits(state, u) = PermitWindows(v)
<1> DEFINE opens  == v.permit_start_time
           closes == v.permit_end_time
           from == IF opens = None \/ closes = None THEN 0 ELSE opens
           to   == IF opens = None \/ closes = None THEN 0 ELSE closes
           last(d) == IF to <= from THEN d + 1 ELSE d
           win  == l.permit_windows
<1>1. LocationFits(v)
    BY StateRows DEF Records
<1>2. opens \in 0 .. DayLength - 1 \cup {None} /\ closes \in 0 .. DayLength - 1 \cup {None}
    BY <1>1 DEF LocationFits
<1>3. from \in 0 .. 47 /\ to \in 0 .. 47
    BY <1>2 DEF DayLength
<1>4. ClosedDays(v.location_id) = {}
  <2>1. AvailabilityOf(v.location_id, "CLOSED") = {}
    BY DEF AvailabilityOf, Records
  <2> QED
    BY <2>1 DEF ClosedDays
<1>5. state.production.shoot_start .. state.production.shoot_end = ShootDates /\ ShootDates \subseteq Int
    BY AllHeld, NewStateIs, ShootTyped DEF ShootDates
<1>6. CASE win = {}
  <2>1. DailyPermit(l) = <<None, None>>
    BY <1>6 DEF DailyPermit
  <2>2. u.permit_start_time = None /\ u.permit_end_time = None
    BY <2>1
  <2> QED
    BY <1>6, <2>2 DEF AsPermits
<1>7. CASE win # {}
  <2>1. win = {PermitOn(d, opens, closes) : d \in ShootDates}
    BY <1>4, <1>7 DEF PermitWindows
  <2>2. ASSUME NEW d \in ShootDates
        PROVE  LET w == PermitOn(d, opens, closes)
               IN  /\ w = [start |-> Moment(Zone, d * 48 + from), end |-> Moment(Zone, last(d) * 48 + to)]
                   /\ ClockOf(w.start) = from /\ ClockOf(w.end) = to
                   /\ AsPermit(InferredZone(state),
                               [permit_start_time |-> from, permit_end_time |-> to], d) = w
    <3> DEFINE w == PermitOn(d, opens, closes)
    <3>1. d \in Int /\ last(d) \in Int /\ d * 48 + from \in Int /\ last(d) * 48 + to \in Int
      <4>1. d \in Int
        BY <1>5
      <4>2. from \in Int /\ to \in Int
        BY <1>3
      <4> HIDE DEF from, to
      <4>3. last(d) \in Int
        BY <4>1
      <4> HIDE DEF last
      <4> QED
        BY <4>1, <4>2, <4>3
    <3>2. w = [start |-> Moment(Zone, d * 48 + from), end |-> Moment(Zone, last(d) * 48 + to)]
      <4>1. CASE opens = None \/ closes = None
        <5>1. from = 0 /\ to = 0 /\ last(d) = d + 1
          BY <4>1
        <5>2. w = [start |-> Moment(Zone, d * 48), end |-> Moment(Zone, (d + 1) * 48)]
          BY <4>1 DEF PermitOn, WholeDays, Midnight, DayLength
        <5>3. d * 48 + 0 = d * 48 /\ (d + 1) * 48 + 0 = (d + 1) * 48
          BY <3>1
        <5> QED
          BY <5>1, <5>2, <5>3
      <4>2. CASE ~(opens = None \/ closes = None)
        BY <4>2 DEF PermitOn, DayLength
      <4> QED
        BY <4>1, <4>2
    <3>3. (d * 48 + from) % 48 = from /\ (last(d) * 48 + to) % 48 = to
      <4> HIDE DEF last, from, to
      <4> QED
        BY <1>3, <3>1
    <3>4. w.start = Moment(Zone, d * 48 + from) /\ w.end = Moment(Zone, last(d) * 48 + to)
      BY <3>2
    <3>5. w.start.wall = d * 48 + from /\ w.end.wall = last(d) * 48 + to
      BY <3>4 DEF Moment
    <3>6. ClockOf(w.start) = from /\ ClockOf(w.end) = to
      BY <3>3, <3>5 DEF ClockOf, DayLength
    <3>7. {w.start, w.end} \subseteq Moments(state)
      BY <2>1, WindowMoments
    <3>8. /\ Moment(InferredZone(state), d * 48 + from) = w.start
          /\ Moment(InferredZone(state), last(d) * 48 + to) = w.end
      BY <3>1, <3>4, <3>7, ZoneAgrees
    <3> HIDE DEF w, from, to
    <3>9. AsPermit(InferredZone(state), [permit_start_time |-> from, permit_end_time |-> to], d)
            = [start |-> Moment(InferredZone(state), d * 48 + from),
               end |-> Moment(InferredZone(state), last(d) * 48 + to)]
      BY DEF AsPermit, DayLength
    <3>10. w = [start |-> w.start, end |-> w.end]
      BY <3>2
    <3> QED
      BY <3>2, <3>6, <3>8, <3>9, <3>10 DEF w
  <2> DEFINE on(d) == PermitOn(d, opens, closes)
             as(d) == AsPermit(InferredZone(state), [permit_start_time |-> from, permit_end_time |-> to], d)
             clocks(w) == <<ClockOf(w.start), ClockOf(w.end)>>
  <2>3. \A d \in ShootDates : clocks(on(d)) = <<from, to>> /\ as(d) = on(d)
    BY <2>2
  <2>4. ClockPairs(l) = {clocks(w) : w \in win}
    BY DEF ClockPairs
  <2> HIDE DEF on, as, clocks, win, from, to
  <2>5. {clocks(w) : w \in win} = {<<from, to>>}
    BY <1>7, <2>1, <2>3 DEF on
  <2>6. DailyPermit(l) = <<from, to>>
    BY <1>7, <2>4, <2>5 DEF DailyPermit, win
  <2>7. u.permit_start_time = from /\ u.permit_end_time = to
    BY <2>6
  <2>8. u.permit_start_time # None /\ u.permit_end_time # None
    BY <1>3, <2>7, NoneAssumption
  <2>9. AsPermits(state, u) = {AsPermit(InferredZone(state), u, d) : d \in ShootDates}
    BY <1>5, <2>8 DEF AsPermits
  <2>10. ASSUME NEW d \in ShootDates PROVE AsPermit(InferredZone(state), u, d) = as(d)
    BY <2>7 DEF AsPermit, as
  <2>11. {AsPermit(InferredZone(state), u, d) : d \in ShootDates} = {on(d) : d \in ShootDates}
    BY <2>3, <2>10
  <2> QED
    BY <2>1, <2>8, <2>9, <2>11 DEF on, win
<1> QED
    BY <1>6, <1>7

LEMMA LocationRowsAre ==
    ASSUME WorkbookInv, state # NoState
    PROVE  \E S : /\ ExportedRows(state, "locations") = SetToSeq(S)
                  /\ IsFiniteSet(S) /\ Cardinality(S) <= RowLimit
                  /\ S = {[location_id |-> l.id, name |-> l.name, day_rate |-> l.day_rate,
                           permit_start_time |-> DailyPermit(l)[1],
                           permit_end_time |-> DailyPermit(l)[2],
                           supports_int_ext |-> l.supports_int_ext,
                           supports_time_of_day |-> l.supports_time_of_day] : l \in state.locations}
<1> DEFINE row(l) == [location_id |-> l.id, name |-> l.name, day_rate |-> l.day_rate,
                      permit_start_time |-> DailyPermit(l)[1],
                      permit_end_time |-> DailyPermit(l)[2],
                      supports_int_ext |-> l.supports_int_ext,
                      supports_time_of_day |-> l.supports_time_of_day]
           made(v) == [id |-> v.location_id, name |-> v.name, day_rate |-> v.day_rate,
                       permit_windows |-> PermitWindows(v), supports_int_ext |-> v.supports_int_ext,
                       supports_time_of_day |-> v.supports_time_of_day]
           R == Records("locations")
           S == {row(l) : l \in state.locations}
           f == [v \in R |-> row(made(v))]
<1>1. ExportedRows(state, "locations") = SetToSeq(S)
    BY DEF ExportedRows
<1>2. state.locations = {made(v) : v \in R}
    BY AllHeld, NewStateIs DEF Locations
<1> HIDE DEF row, made
<1>3. S = {f[v] : v \in DOMAIN f}
    BY <1>2
<1>4. DOMAIN f = R
    OBVIOUS
<1> HIDE DEF f, S
<1>5. IsFiniteSet(R)
    BY SheetsAre, RecordsFinite
<1>6. IsFiniteSet(S) /\ Cardinality(S) <= Cardinality(R)
    BY <1>3, <1>4, <1>5, ImageSmaller
<1>7. Cardinality(R) \in Nat /\ Cardinality(R) <= RowLimit
    BY SheetsAre, RowsWithinLimit
<1>8. Cardinality(S) <= RowLimit
    BY <1>6, <1>7, FS_CardinalityType, RowLimitAssumption
<1> QED
    BY <1>1, <1>6, <1>8 DEF S, row

LEMMA LocationsSound ==
    ASSUME WorkbookInv, state # NoState, OneOffset(state),
           \A v \in Records("availability") : v.window_kind # "CLOSED"
    PROVE  /\ SoundLocations(state) /\ SheetWritten(state, "locations")
           /\ KeysIn(state, "locations") = Ids("locations")
           /\ \A i, j \in DOMAIN ExportedRows(state, "locations") :
                 ExportedRows(state, "locations")[i].location_id
                     = ExportedRows(state, "locations")[j].location_id => i = j
<1> DEFINE row(l) == [location_id |-> l.id, name |-> l.name, day_rate |-> l.day_rate,
                      permit_start_time |-> DailyPermit(l)[1],
                      permit_end_time |-> DailyPermit(l)[2],
                      supports_int_ext |-> l.supports_int_ext,
                      supports_time_of_day |-> l.supports_time_of_day]
           again(u) == [id |-> u.location_id, name |-> u.name, day_rate |-> u.day_rate,
                        permit_windows |-> AsPermits(state, u),
                        supports_int_ext |-> u.supports_int_ext,
                        supports_time_of_day |-> u.supports_time_of_day]
           rows == ExportedRows(state, "locations")
<1>1. PICK S : /\ rows = SetToSeq(S) /\ IsFiniteSet(S) /\ Cardinality(S) <= RowLimit
               /\ S = {row(l) : l \in state.locations}
    BY LocationRowsAre
<1> HIDE DEF row, again
<1>2. /\ RowSet(state, "locations") = S /\ Cardinality(S) \in Nat
      /\ DOMAIN rows = 1 .. Cardinality(S) /\ rows = [i \in 1 .. Cardinality(S) |-> rows[i]]
      /\ \A i \in DOMAIN rows : rows[i] \in S
      /\ \A i, j \in DOMAIN rows : rows[i] = rows[j] => i = j
  <2> HIDE DEF rows
  <2>1. IsFiniteSet(S) /\ ExportedRows(state, "locations") = SetToSeq(S)
    BY <1>1 DEF rows
  <2>2. /\ RowSet(state, "locations") = S /\ Cardinality(S) \in Nat
        /\ DOMAIN rows = 1 .. Cardinality(S) /\ rows = [i \in 1 .. Cardinality(S) |-> rows[i]]
    BY <2>1, ListedRows DEF rows
  <2>3. \A i \in DOMAIN rows : rows[i] \in S
    BY <2>1, ListedRows DEF rows
  <2>4. \A i, j \in DOMAIN rows : rows[i] = rows[j] => i = j
    BY <2>1, ListedRows DEF rows
  <2> QED
    BY <2>2, <2>3, <2>4
<1> USE DEF row, again
<1>3. ASSUME NEW l \in state.locations
      PROVE  /\ WrittenRow("locations", row(l)) /\ row(l).location_id = l.id
             /\ row(l).permit_start_time = None <=> row(l).permit_end_time = None
             /\ again(row(l)) = l
  <2>1. PICK v \in Records("locations") :
            l = [id |-> v.location_id, name |-> v.name, day_rate |-> v.day_rate,
                 permit_windows |-> PermitWindows(v), supports_int_ext |-> v.supports_int_ext,
                 supports_time_of_day |-> v.supports_time_of_day]
    BY AllHeld, NewStateIs DEF Locations
  <2>2. row(l) = [location_id |-> v.location_id, name |-> v.name, day_rate |-> v.day_rate,
                  permit_start_time |-> DailyPermit(l)[1], permit_end_time |-> DailyPermit(l)[2],
                  supports_int_ext |-> v.supports_int_ext,
                  supports_time_of_day |-> v.supports_time_of_day]
    BY <2>1
  <2>3. WrittenRow("locations", v)
    BY SheetsAre, RecordsWritten
  <2>4. WrittenRow("locations", row(l))
    BY <2>2, <2>3, LocationRowWritten
  <2>5. /\ row(l).permit_start_time = DailyPermit(l)[1] /\ row(l).permit_end_time = DailyPermit(l)[2]
        /\ l.permit_windows = PermitWindows(v)
    BY <2>1
  <2>6. /\ row(l).permit_start_time = None <=> row(l).permit_end_time = None
        /\ AsPermits(state, row(l)) = PermitWindows(v)
    <3> HIDE DEF row
    <3> QED
      BY <2>5, PermitBack
  <2>7. again(row(l)) = [id |-> l.id, name |-> l.name, day_rate |-> l.day_rate,
                         permit_windows |-> PermitWindows(v), supports_int_ext |-> l.supports_int_ext,
                         supports_time_of_day |-> l.supports_time_of_day]
    BY <2>6
  <2>8. again(row(l)) = l
    BY <2>1, <2>7
  <2> QED
    BY <2>4, <2>6, <2>8
<1> HIDE DEF row, again, rows
<1>4. {again(u) : u \in S} = state.locations
    BY <1>1, <1>3
<1>5. \A u \in S : u.permit_start_time = None <=> u.permit_end_time = None
    BY <1>1, <1>3
<1>6. SoundLocations(state)
    BY <1>2, <1>4, <1>5 DEF SoundLocations, again
<1>7. \A u \in S : WrittenRow("locations", u)
    BY <1>1, <1>3
<1>8. SheetWritten(state, "locations")
    BY <1>1, <1>2, <1>7, FilledColumns, SheetsAre DEF SheetWritten, rows
<1>9. {u.location_id : u \in S} = Ids("locations")
  <2>1. {u.location_id : u \in S} = {l.id : l \in state.locations}
    BY <1>1, <1>3
  <2> QED
    BY <2>1, IdsAre DEF LocationIds
<1>10. KeysIn(state, "locations") = Ids("locations")
    BY <1>2, <1>9, KeysAre DEF KeysIn
<1>11. ASSUME NEW i \in DOMAIN rows, NEW j \in DOMAIN rows, rows[i].location_id = rows[j].location_id
       PROVE  i = j
  <2>1. PICK l \in state.locations : rows[i] = row(l)
    BY <1>1, <1>2
  <2>2. PICK m \in state.locations : rows[j] = row(m)
    BY <1>1, <1>2
  <2>3. l.id = m.id
    BY <1>3, <1>11, <2>1, <2>2
  <2>4. l = m
    BY <2>3, OneRecordEach DEF OneRecordPerId, Unique
  <2> QED
    BY <1>2, <2>1, <2>2, <2>4
<1> QED
    BY <1>6, <1>8, <1>10, <1>11 DEF rows

(***************************************************************************)
(* The schedule: a day is written with its own word for the night.         *)
(***************************************************************************)
\* The row a day is written as, of the record it was made of.
DayRow(v) ==
    [date |-> v.date, call_time |-> v.call_time, wrap_time |-> v.wrap_time,
     wrap_next_day |-> Overnight(v), location_id |-> v.location_id, scene_ids |-> v.scene_ids,
     unit |-> v.unit, day_kind |-> IF v.day_kind # None THEN v.day_kind
                                   ELSE IF v.scene_ids = <<>> THEN "RESERVE" ELSE "SHOOT"]

LEMMA DayRowWritten ==
    ASSUME NEW v, WrittenRow("schedule", v)
    PROVE  WrittenRow("schedule", DayRow(v))
<1> DEFINE columns == WorkbookSheets["schedule"].columns
           row == DayRow(v)
<1>1. DOMAIN columns = {"date", "call_time", "wrap_time", "wrap_next_day", "location_id",
                        "scene_ids", "unit", "day_kind"}
    BY SheetsAre DEF ScheduleSheet, Sheet
<1>2. \A c \in DOMAIN columns : Written(columns[c], v[c])
    BY DEF WrittenRow
<1>3. row = [c \in DOMAIN columns |-> row[c]]
    BY <1>1 DEF DayRow
<1>4. Written(columns["wrap_next_day"], row["wrap_next_day"])
  <2>1. columns["wrap_next_day"] = Optional("BOOL", None)
    BY SheetsAre DEF ScheduleSheet, Sheet
  <2> QED
    BY <2>1 DEF Written, Optional, Column, IsEmpty, Lists
<1>5. Written(columns["day_kind"], row["day_kind"])
  <2>1. columns["day_kind"] = OptionalOf({"SHOOT", "TRAVEL", "COMPANY_MOVE", "HOLD", "RESERVE"})
    BY SheetsAre DEF ScheduleSheet, Sheet
  <2>2. Written(columns["day_kind"], v["day_kind"])
    BY <1>1, <1>2
  <2>3. v.day_kind # None => v.day_kind \in {"SHOOT", "TRAVEL", "COMPANY_MOVE", "HOLD", "RESERVE"}
    BY <2>1, <2>2 DEF Written, OptionalOf, Column, IsEmpty, Lists
  <2>4. row["day_kind"] \in {"SHOOT", "TRAVEL", "COMPANY_MOVE", "HOLD", "RESERVE"}
    BY <2>3 DEF DayRow
  <2> QED
    BY <2>1, <2>4 DEF Written, OptionalOf, Column, IsEmpty, Lists
<1>6. ASSUME NEW c \in DOMAIN columns, c \notin {"wrap_next_day", "day_kind"}
      PROVE  Written(columns[c], row[c])
  <2>1. row[c] = v[c]
    BY <1>1, <1>6 DEF DayRow
  <2> QED
    BY <1>2, <2>1
<1> HIDE DEF row, columns
<1>7. \A c \in DOMAIN columns : Written(columns[c], row[c])
    BY <1>4, <1>5, <1>6
<1> QED
    BY <1>3, <1>7 DEF WrittenRow, row, columns

\* The same night, whichever way it is told.
LEMMA NightIs ==
    ASSUME NEW v
    PROVE  /\ Overnight(DayRow(v)) = Overnight(v)
           /\ CallAt(DayRow(v)) = CallAt(v) /\ WrapAt(DayRow(v)) = WrapAt(v)
<1>1. Overnight(v) \in BOOLEAN
    BY DEF Overnight
<1>2. DayRow(v).wrap_next_day = Overnight(v)
    BY DEF DayRow
<1>3. Overnight(DayRow(v)) = Overnight(v)
  <2> DEFINE u == DayRow(v)
             night == Overnight(v)
  <2>1. Overnight(u) <=> u.wrap_next_day = TRUE \/ (u.wrap_next_day # FALSE /\ u.wrap_time <= u.call_time)
    BY DEF Overnight
  <2> HIDE DEF u, night
  <2>2. u.wrap_next_day = night /\ night \in BOOLEAN
    BY <1>1, <1>2 DEF u, night
  <2>3. Overnight(u) <=> night
    BY <2>1, <2>2
  <2>4. Overnight(u) \in BOOLEAN
    BY DEF Overnight
  <2> QED
    BY <2>2, <2>3, <2>4 DEF u, night
<1>4. /\ DayRow(v).date = v.date /\ DayRow(v).call_time = v.call_time
      /\ DayRow(v).wrap_time = v.wrap_time
    BY DEF DayRow
<1>5. CallAt(DayRow(v)) = CallAt(v)
    BY <1>4 DEF CallAt
<1>6. WrapAt(DayRow(v)) = WrapAt(v)
    BY <1>3, <1>4 DEF WrapAt
<1> QED
    BY <1>3, <1>5, <1>6

\* A day, as it is written.
LEMMA DayWritten ==
    ASSUME NEW v, DayFits(v)
    PROVE  LET day == ShootingDay(v)
           IN  [date |-> day.date, call_time |-> ClockOf(day.call_time),
                wrap_time |-> ClockOf(day.wrap_time),
                wrap_next_day |-> DateOf(day.wrap_time) > DateOf(day.call_time),
                location_id |-> day.location_id, scene_ids |-> day.scene_ids,
                unit |-> day.unit, day_kind |-> day.day_kind] = DayRow(v)
<1> DEFINE day  == ShootingDay(v)
           d    == v.date
           e    == IF Overnight(v) THEN d + 1 ELSE d
           call == v.call_time
           wrap == v.wrap_time
<1>1. d \in Int /\ e \in Int /\ call \in 0 .. 47 /\ wrap \in 0 .. 47
    BY DEF DayFits, DayLength
<1>2. day.call_time.wall = d * 48 + call /\ day.wrap_time.wall = e * 48 + wrap
    BY DEF ShootingDay, Moment, CallAt, WrapAt, DayLength
<1>3. (e > d) <=> Overnight(v)
    BY <1>1
<1> HIDE DEF e, d, call, wrap, day
<1>4. /\ (d * 48 + call) % 48 = call /\ (d * 48 + call) \div 48 = d
      /\ (e * 48 + wrap) % 48 = wrap /\ (e * 48 + wrap) \div 48 = e
    BY <1>1
<1>5. /\ ClockOf(day.call_time) = call /\ DateOf(day.call_time) = d
      /\ ClockOf(day.wrap_time) = wrap /\ DateOf(day.wrap_time) = e
    BY <1>2, <1>4 DEF ClockOf, DateOf, DayLength
<1>6. (DateOf(day.wrap_time) > DateOf(day.call_time)) = Overnight(v)
  <2>1. Overnight(v) \in BOOLEAN
    BY DEF Overnight
  <2>2. (e > d) \in BOOLEAN
    BY <1>1
  <2> QED
    BY <1>3, <1>5, <2>1, <2>2
<1>7. /\ day.date = v.date /\ day.location_id = v.location_id /\ day.scene_ids = v.scene_ids
      /\ day.unit = v.unit
      /\ day.day_kind = IF v.day_kind # None THEN v.day_kind
                        ELSE IF v.scene_ids = <<>> THEN "RESERVE" ELSE "SHOOT"
    BY DEF day, ShootingDay
<1> QED
    BY <1>5, <1>6, <1>7 DEF DayRow, day, call, wrap

LEMMA DayRowsAre ==
    ASSUME WorkbookInv, state # NoState
    PROVE  LET rows == ExportedRows(state, "schedule")
               n    == Cardinality(ScheduleRows)
           IN  /\ n \in Nat /\ DOMAIN state.days = 1 .. n /\ DOMAIN rows = 1 .. n
               /\ state.days = [k \in 1 .. n |-> state.days[k]] /\ rows = [k \in 1 .. n |-> rows[k]]
               /\ \A k \in 1 .. n : \E v \in Records("schedule") :
                     /\ DayFits(v) /\ WrittenRow("schedule", v)
                     /\ state.days[k] = ShootingDay(v) /\ rows[k] = DayRow(v)
<1> DEFINE rows == ExportedRows(state, "schedule")
           n    == Cardinality(ScheduleRows)
           out(k) == LET day == state.days[k]
                     IN  [date |-> day.date, call_time |-> ClockOf(day.call_time),
                          wrap_time |-> ClockOf(day.wrap_time),
                          wrap_next_day |-> DateOf(day.wrap_time) > DateOf(day.call_time),
                          location_id |-> day.location_id, scene_ids |-> day.scene_ids,
                          unit |-> day.unit, day_kind |-> day.day_kind]
<1>1. state.days = Days
    BY AllHeld, NewStateIs
<1>2. /\ n \in Nat /\ DOMAIN Days = 1 .. n
      /\ \A k \in 1 .. n : \E i \in ScheduleRows : Days[k] = ShootingDay(tables["schedule"][i])
    BY StateRows, DaysAre
<1>3. Days = [k \in 1 .. n |-> Days[k]]
    BY DEF Days, ScheduleRows
<1>4. rows = [k \in DOMAIN state.days |-> out(k)]
    BY DEF ExportedRows
<1> HIDE DEF out, rows, n
<1>5. DOMAIN rows = 1 .. n /\ rows = [k \in 1 .. n |-> rows[k]] /\ \A k \in 1 .. n : rows[k] = out(k)
    BY <1>1, <1>2, <1>4
<1>6. ASSUME NEW k \in 1 .. n
      PROVE  \E v \in Records("schedule") :
                /\ DayFits(v) /\ WrittenRow("schedule", v)
                /\ state.days[k] = ShootingDay(v) /\ rows[k] = DayRow(v)
  <2>1. PICK i \in ScheduleRows : Days[k] = ShootingDay(tables["schedule"][i])
    BY <1>2
  <2> DEFINE v == tables["schedule"][i]
  <2>2. DayFits(v)
    BY StateRows
  <2>3. v \in Records("schedule")
    BY DEF Records, ScheduleRows
  <2>4. WrittenRow("schedule", v)
    BY <2>3, SheetsAre, RecordsWritten
  <2>5. state.days[k] = ShootingDay(v)
    BY <1>1, <2>1
  <2> HIDE DEF v
  <2>6. out(k) = DayRow(v)
    BY <2>2, <2>5, DayWritten DEF out
  <2> QED
    BY <1>5, <2>2, <2>3, <2>4, <2>5, <2>6
<1> QED
    BY <1>1, <1>2, <1>3, <1>5, <1>6 DEF rows, n

\* Of two days the first has the earlier date, or the earlier unit of the same.
LEMMA DaysSorted ==
    ASSUME WorkbookInv, state # NoState, NEW j \in DOMAIN state.days, NEW k \in DOMAIN state.days,
           j < k
    PROVE  LET a == state.days[j]
               b == state.days[k]
           IN  \/ a.date < b.date
               \/ a.date = b.date /\ UnitRank(a.unit) < UnitRank(b.unit)
               \/ a.date = b.date /\ a.unit = b.unit
<1> DEFINE n == Cardinality(ScheduleRows)
           q == [i \in 1 .. n |->
                   CHOOSE x \in ScheduleRows : Cardinality(Below(x, Earlier, ScheduleRows)) = i - 1]
           row(i) == tables["schedule"][i]
<1>1. /\ n \in Nat /\ state.days = Days /\ DOMAIN state.days = 1 .. n
    BY AllHeld, NewStateIs, DayRowsAre
<1>2. IsFiniteSet(ScheduleRows) /\ StrictOn(Earlier, ScheduleRows) /\ TotalOn(Earlier, ScheduleRows)
    BY StateRows, RowsOrdered
<1>3. \A i \in 1 .. n :
          q[i] = CHOOSE x \in ScheduleRows : Cardinality(Below(x, Earlier, ScheduleRows)) = i - 1
    OBVIOUS
<1> HIDE DEF q
<1>4. /\ \A i \in 1 .. n : q[i] \in ScheduleRows
      /\ \A h, i \in 1 .. n : h < i => <<q[h], q[i]>> \in Earlier
    BY <1>2, <1>3, FiniteListing
<1>5. \A x \in ScheduleRows : Below(x, Earlier, ScheduleRows) = {y \in ScheduleRows : Precedes(y, x)}
    BY DEF Below, Earlier
<1>6. ASSUME NEW i \in 1 .. n PROVE Days[i] = ShootingDay(row(q[i]))
  <2>1. Days[i] = ShootingDay(tables["schedule"][
            CHOOSE x \in ScheduleRows : Cardinality({y \in ScheduleRows : Precedes(y, x)}) = i - 1])
    BY DEF Days, ScheduleRows
  <2>2. (CHOOSE x \in ScheduleRows : Cardinality({y \in ScheduleRows : Precedes(y, x)}) = i - 1) = q[i]
    BY <1>3, <1>5
  <2> QED
    BY <2>1, <2>2
<1>7. <<q[j], q[k]>> \in Earlier
    BY <1>1, <1>4
<1>8. \/ row(q[j]).date < row(q[k]).date
      \/ row(q[j]).date = row(q[k]).date /\ UnitRank(row(q[j]).unit) < UnitRank(row(q[k]).unit)
      \/ row(q[j]).date = row(q[k]).date /\ row(q[j]).unit = row(q[k]).unit
    BY <1>7 DEF Earlier, Precedes
<1> HIDE DEF row
<1>9. /\ Days[j].date = row(q[j]).date /\ Days[j].unit = row(q[j]).unit
      /\ Days[k].date = row(q[k]).date /\ Days[k].unit = row(q[k]).unit
    BY <1>1, <1>6 DEF ShootingDay
<1> QED
    BY <1>1, <1>8, <1>9

LEMMA ScheduleSound ==
    ASSUME WorkbookInv, state # NoState, OneOffset(state)
    PROVE  /\ SoundSchedule(state) /\ SoundDates(state) /\ SheetWritten(state, "schedule")
           /\ \A u \in RowSet(state, "schedule") : \E v \in Records("schedule") : u = DayRow(v)
<1> DEFINE rows == ExportedRows(state, "schedule")
           n    == Cardinality(ScheduleRows)
<1>1. /\ n \in Nat /\ DOMAIN state.days = 1 .. n /\ DOMAIN rows = 1 .. n
      /\ state.days = [k \in 1 .. n |-> state.days[k]] /\ rows = [k \in 1 .. n |-> rows[k]]
    BY DayRowsAre
<1>2. ASSUME NEW k \in 1 .. n
      PROVE  \E v \in Records("schedule") :
                /\ DayFits(v) /\ WrittenRow("schedule", v)
                /\ state.days[k] = ShootingDay(v) /\ rows[k] = DayRow(v)
    BY DayRowsAre
<1> HIDE DEF rows, n
<1>3. ASSUME NEW k \in 1 .. n
      PROVE  /\ AsDay(InferredZone(state), rows[k]) = state.days[k]
             /\ WrittenRow("schedule", rows[k]) /\ ~WrapBeforeCall(rows[k])
             /\ rows[k].date = state.days[k].date /\ rows[k].unit = state.days[k].unit
             /\ rows[k].scene_ids = state.days[k].scene_ids
  <2>1. PICK v \in Records("schedule") :
                /\ DayFits(v) /\ WrittenRow("schedule", v)
                /\ state.days[k] = ShootingDay(v) /\ rows[k] = DayRow(v)
    BY <1>2
  <2>2. CallAt(v) \in Int /\ WrapAt(v) \in Int
    BY <2>1, DayClocks
  <2>3. /\ state.days[k].call_time = Moment(Zone, CallAt(v))
        /\ state.days[k].wrap_time = Moment(Zone, WrapAt(v))
    BY <2>1 DEF ShootingDay
  <2>4. {state.days[k].call_time, state.days[k].wrap_time} \subseteq Moments(state)
    <3> DEFINE ends(i) == {state.days[i].call_time, state.days[i].wrap_time}
    <3>1. (UNION {ends(i) : i \in DOMAIN state.days}) \subseteq Moments(state)
      BY DEF Moments
    <3> HIDE DEF ends
    <3>2. ends(k) \subseteq Moments(state)
      BY <1>1, <3>1
    <3> QED
      BY <3>2 DEF ends
  <2>5. /\ Moment(InferredZone(state), CallAt(v)) = Moment(Zone, CallAt(v))
        /\ Moment(InferredZone(state), WrapAt(v)) = Moment(Zone, WrapAt(v))
    BY <2>2, <2>3, <2>4, ZoneAgrees
  <2>6. /\ CallAt(rows[k]) = CallAt(v) /\ WrapAt(rows[k]) = WrapAt(v)
        /\ Overnight(rows[k]) = Overnight(v)
    BY <2>1, NightIs
  <2>7. /\ rows[k].date = v.date /\ rows[k].unit = v.unit /\ rows[k].location_id = v.location_id
        /\ rows[k].scene_ids = v.scene_ids /\ rows[k].wrap_next_day = Overnight(v)
        /\ rows[k].call_time = v.call_time /\ rows[k].wrap_time = v.wrap_time
        /\ rows[k].day_kind = IF v.day_kind # None THEN v.day_kind
                              ELSE IF v.scene_ids = <<>> THEN "RESERVE" ELSE "SHOOT"
    BY <2>1 DEF DayRow
  <2>8. AsDay(InferredZone(state), rows[k]) = state.days[k]
    <3>1. AsDay(InferredZone(state), rows[k])
            = [date |-> rows[k].date, call_time |-> Moment(Zone, CallAt(v)),
               wrap_time |-> Moment(Zone, WrapAt(v)), location_id |-> rows[k].location_id,
               scene_ids |-> rows[k].scene_ids, unit |-> rows[k].unit,
               day_kind |-> IF rows[k].day_kind # None THEN rows[k].day_kind
                            ELSE IF rows[k].scene_ids = <<>> THEN "RESERVE" ELSE "SHOOT"]
      BY <2>5, <2>6 DEF AsDay
    <3> QED
      BY <2>1, <2>7, <3>1 DEF ShootingDay
  <2>9. WrittenRow("schedule", rows[k])
    BY <2>1, DayRowWritten
  <2>10. ~WrapBeforeCall(rows[k])
    <3> SUFFICES ASSUME WrapBeforeCall(rows[k]) PROVE FALSE
      OBVIOUS
    <3>1. Overnight(v) = FALSE /\ v.wrap_time <= v.call_time
      BY <2>7 DEF WrapBeforeCall
    <3>2. WrapAt(v) <= CallAt(v)
      BY <2>1, <3>1 DEF WrapAt, CallAt, DayFits, DayLength
    <3>3. state.days[k].wrap_time.wall <= state.days[k].call_time.wall
      BY <2>3, <3>2 DEF Moment
    <3>4. BrokenRecords(state) = {}
      BY AllHeld
    <3>5. BrokenRecords(state) = {Issue("E003", Whole, 0, Whole)}
      BY <1>1, <3>3 DEF BrokenRecords
    <3> QED
      BY <3>4, <3>5
  <2> QED
    BY <2>1, <2>7, <2>8, <2>9, <2>10 DEF ShootingDay
<1>4. SoundSchedule(state)
  <2> DEFINE as(k) == AsDay(InferredZone(state), rows[k])
  <2>1. [k \in DOMAIN rows |-> as(k)] = [k \in 1 .. n |-> state.days[k]]
    BY <1>1, <1>3
  <2> QED
    BY <1>1, <2>1 DEF SoundSchedule, rows
<1>5. n <= RowLimit
    BY SheetsAre, RowsWithinLimit DEF n, ScheduleRows
<1>6. SheetWritten(state, "schedule")
    BY <1>1, <1>3, <1>5, FilledColumns, SheetsAre DEF SheetWritten, rows
<1>7. SoundDates(state)
  <2>1. ASSUME NEW k \in DOMAIN rows
        PROVE  /\ rows[k].date \in state.production.shoot_start .. state.production.shoot_end
               /\ ~WrapBeforeCall(rows[k])
    BY <1>1, <1>3, DaysRight DEF DaysPossible
  <2>2. ASSUME NEW j \in DOMAIN rows, NEW k \in DOMAIN rows,
               ToSet(rows[j].scene_ids) \cap ToSet(rows[k].scene_ids) # {}
        PROVE  rows[j].date = rows[k].date /\ rows[j].unit = rows[k].unit
    <3>1. j \in 1 .. n /\ k \in 1 .. n /\ j \in DOMAIN state.days /\ k \in DOMAIN state.days
      BY <1>1
    <3>2. /\ rows[j].date = state.days[j].date /\ rows[j].unit = state.days[j].unit
          /\ rows[j].scene_ids = state.days[j].scene_ids
      BY <1>3, <3>1
    <3>3. /\ rows[k].date = state.days[k].date /\ rows[k].unit = state.days[k].unit
          /\ rows[k].scene_ids = state.days[k].scene_ids
      BY <1>3, <3>1
    <3>4. ToSet(state.days[j].scene_ids) \cap ToSet(state.days[k].scene_ids) # {}
      BY <2>2, <3>2, <3>3
    <3>5. state.days[j].date = state.days[k].date /\ state.days[j].unit = state.days[k].unit
      BY <3>1, <3>4, DaysRight DEF DaysPossible
    <3> QED
      BY <3>2, <3>3, <3>5
  <2>3. ASSUME NEW j \in DOMAIN rows, NEW k \in DOMAIN rows, j < k
        PROVE  \/ rows[j].date < rows[k].date
               \/ rows[j].date = rows[k].date /\ UnitRank(rows[j].unit) < UnitRank(rows[k].unit)
               \/ rows[j].date = rows[k].date /\ rows[j].unit = rows[k].unit
    <3>1. j \in DOMAIN state.days /\ k \in DOMAIN state.days
      BY <1>1
    <3>2. \/ state.days[j].date < state.days[k].date
          \/ /\ state.days[j].date = state.days[k].date
             /\ UnitRank(state.days[j].unit) < UnitRank(state.days[k].unit)
          \/ state.days[j].date = state.days[k].date /\ state.days[j].unit = state.days[k].unit
      BY <2>3, <3>1, DaysSorted
    <3> QED
      BY <1>1, <1>3, <3>2
  <2> QED
    BY <2>1, <2>2, <2>3 DEF SoundDates, rows
<1>8. ASSUME NEW u \in RowSet(state, "schedule") PROVE \E v \in Records("schedule") : u = DayRow(v)
  <2>1. PICK k \in DOMAIN rows : u = rows[k]
    BY DEF RowSet, rows
  <2> QED
    BY <1>1, <1>2, <2>1
<1> QED
    BY <1>4, <1>6, <1>7, <1>8

(***************************************************************************)
(* The production's own row.                                               *)
(***************************************************************************)
LEMMA ZoneWritten ==
    ASSUME WorkbookInv, state # NoState, OneOffset(state)
    PROVE  InferredZone(state) # None
<1>1. state.days # <<>>
    BY DEF OneOffset
<1>2. 1 \in DOMAIN state.days
    BY <1>1, FirstDay
<1>3. PICK t \in Int : state.days[1].call_time = Moment(Zone, t)
    BY <1>2, DayTyped
<1>4. Instant(Zone, t) \in Int
    BY StateRows, InstantIs DEF ProductionFits, Zone
<1>5. state.days[1].call_time.wall - state.days[1].call_time.at \in Int
    BY <1>3, <1>4 DEF Moment
<1>6. PICK offset \in Int : InferredZone(state) = FixedZone(offset)
    BY <1>5 DEF InferredZone
<1>7. FixedZone(offset) \in [offset : Int, forward : {None}, back : {None}, monthFirst : BOOLEAN]
    BY DEF FixedZone
<1> QED
    BY <1>6, <1>7, ZoneAssumption

LEMMA ProductionSound ==
    ASSUME WorkbookInv, state # NoState, OneOffset(state)
    PROVE  SoundShoot(state) /\ SheetWritten(state, "production")
<1> DEFINE p == state.production
           rows == ExportedRows(state, "production")
           columns == WorkbookSheets["production"].columns
           row == [production_id |-> p.id, title |-> p.title, currency |-> p.currency,
                   timezone |-> InferredZone(state), shoot_start |-> p.shoot_start,
                   shoot_end |-> p.shoot_end, reserve_days |-> p.reserve_days,
                   template_version |-> TemplateVersion]
<1>1. p = [id |-> Production.production_id, title |-> Production.title,
           currency |-> Production.currency, shoot_start |-> Production.shoot_start,
           shoot_end |-> Production.shoot_end, reserve_days |-> Production.reserve_days]
    BY AllHeld DEF NewState
<1>2. Production \in Records("production")
  <2>1. Cardinality(DOMAIN tables["production"]) = 1
    BY AllHeld, CleanRows DEF ProductionClean
  <2>2. DOMAIN tables["production"] # {}
    BY <2>1, FS_EmptySet
  <2> QED
    BY <2>2 DEF Production, Records
<1>3. WrittenRow("production", Production)
    BY <1>2, SheetsAre, RecordsWritten
<1>4. SoundShoot(state)
  <2>1. Production.shoot_start \in Int /\ Production.shoot_end \in Int
    BY StateRows DEF ProductionFits
  <2>2. 1 \in DOMAIN state.days
    BY FirstDay DEF OneOffset
  <2>3. state.days[1].date \in p.shoot_start .. p.shoot_end
    BY <2>2, DaysRight DEF DaysPossible
  <2>4. p.shoot_start \in Int /\ p.shoot_end \in Int
    BY <1>1, <2>1
  <2>5. p.shoot_start <= p.shoot_end
    BY <2>3, <2>4
  <2>6. p = [id |-> p.id, title |-> p.title, currency |-> p.currency,
             shoot_start |-> p.shoot_start, shoot_end |-> p.shoot_end,
             reserve_days |-> p.reserve_days]
    BY <1>1
  <2> QED
    BY <2>4, <2>5, <2>6 DEF SoundShoot
<1>5. rows = <<row>>
    BY DEF ExportedRows
<1>6. DOMAIN columns = {"production_id", "title", "currency", "timezone", "shoot_start", "shoot_end",
                        "reserve_days", "template_version"}
    BY SheetsAre DEF ProductionSheet, Sheet
<1>7. \A c \in DOMAIN columns : Written(columns[c], Production[c])
    BY <1>3 DEF WrittenRow
<1>8. row = [c \in DOMAIN columns |-> row[c]]
    BY <1>6
<1>9. ASSUME NEW c \in DOMAIN columns, c \notin {"timezone", "template_version"}
      PROVE  Written(columns[c], row[c])
  <2>1. row[c] = Production[c]
    BY <1>1, <1>6, <1>9
  <2> QED
    BY <1>7, <2>1
<1>10. Written(columns["timezone"], row["timezone"])
  <2>1. columns["timezone"] = Required("TIMEZONE")
    BY ProductionColumns
  <2> QED
    BY <2>1, ZoneWritten DEF Written, Required, Column, IsEmpty, Lists
<1>11. Written(columns["template_version"], row["template_version"])
  <2>1. columns["template_version"] = Required("STRING")
    BY SheetsAre DEF ProductionSheet, Sheet
  <2>2. TemplateVersion # None
    BY NoneAssumption
  <2> QED
    BY <2>1, <2>2 DEF Written, Required, Column, IsEmpty, Lists
<1> HIDE DEF columns, row, p
<1>12. \A c \in DOMAIN columns : Written(columns[c], row[c])
    BY <1>9, <1>10, <1>11
<1>13. WrittenRow("production", row)
    BY <1>8, <1>12 DEF WrittenRow, columns
<1>14. DOMAIN rows = 1 .. 1 /\ rows = [i \in 1 .. 1 |-> rows[i]] /\ rows[1] = row
    BY <1>5
<1>15. SheetWritten(state, "production")
  <2>1. WorkbookSheets["production"].exactlyOne = TRUE
    BY FilledColumns
  <2>2. ASSUME NEW i \in 1 .. 1 PROVE WrittenRow("production", rows[i])
    <3>1. i = 1
      OBVIOUS
    <3> QED
      BY <1>13, <1>14, <3>1
  <2> HIDE DEF rows
  <2>3. \E n \in Nat :
           /\ DOMAIN rows = 1 .. n /\ rows = [i \in 1 .. n |-> rows[i]]
           /\ \A i \in 1 .. n : WrittenRow("production", rows[i])
           /\ n = 1
    BY <1>14, <2>2
  <2> QED
    BY <2>1, <2>3 DEF SheetWritten, rows
<1> QED
    BY <1>4, <1>15

(***************************************************************************)
(* A state that can be exported is sound.                                  *)
(***************************************************************************)
LEMMA ListsWritten ==
    ASSUME WorkbookInv, state # NoState, \A v \in Records("availability") : v.window_kind # "CLOSED",
           NEW s \in {"scenes", "people", "equipment", "availability"}
    PROVE  /\ SheetWritten(state, s) /\ RowSet(state, s) = Records(s)
           /\ s # "availability" =>
                 \A i, j \in DOMAIN ExportedRows(state, s) :
                     ExportedRows(state, s)[i][WorkbookSheets[s].key]
                         = ExportedRows(state, s)[j][WorkbookSheets[s].key] => i = j
<1> DEFINE rows == ExportedRows(state, s)
           R    == Records(s)
           n    == Cardinality(R)
           key  == WorkbookSheets[s].key
<1>1. s \in SheetNames \ {"production"}
    BY SheetsAre
<1>2. IsFiniteSet(R) /\ n \in Nat /\ n <= RowLimit
    BY <1>1, RecordsFinite, RowsWithinLimit
<1>3. rows = SetToSeq(R)
    BY SceneRowsAre, PersonRowsAre, EquipmentRowsAre, WindowRowsAre
<1> HIDE DEF rows
<1>4. /\ RowSet(state, s) = R /\ DOMAIN rows = 1 .. n /\ rows = [i \in 1 .. n |-> rows[i]]
      /\ \A i \in DOMAIN rows : rows[i] \in R
    BY <1>2, <1>3, ListedRows DEF rows
<1>5. \A i, j \in DOMAIN rows : rows[i] = rows[j] => i = j
    BY <1>2, <1>3, ListedRows DEF rows
<1>6. \A v \in R : WrittenRow(s, v)
    BY <1>1, RecordsWritten
<1> HIDE DEF R, n
<1>7. SheetWritten(state, s)
  <2>1. WorkbookSheets[s].exactlyOne = FALSE
    BY <1>1, FilledColumns
  <2>2. \A i \in 1 .. n : WrittenRow(s, rows[i])
    BY <1>4, <1>6
  <2> QED
    BY <1>2, <1>4, <2>1, <2>2 DEF SheetWritten, rows
<1>8. ASSUME s # "availability", NEW i \in DOMAIN rows, NEW j \in DOMAIN rows,
             rows[i][key] = rows[j][key]
      PROVE  i = j
  <2>1. s \in KeyedSheets
    BY <1>8 DEF KeyedSheets
  <2>2. rows[i] \in Records(s) /\ rows[j] \in Records(s)
    BY <1>4 DEF R
  <2>3. rows[i] = rows[j]
    BY <1>8, <2>1, <2>2, OneRow
  <2> QED
    BY <1>5, <2>3
<1> QED
    BY <1>4, <1>7, <1>8 DEF rows, R

LEMMA StateIsSound ==
    ASSUME WorkbookInv, state # NoState, OneOffset(state),
           \A v \in Records("availability") : v.window_kind # "CLOSED"
    PROVE  Sound(state)
<1>1. SoundPeople(state) /\ SoundEquipment(state)
    BY PeopleSound, EquipmentSound
<1>2. /\ SoundLocations(state) /\ SheetWritten(state, "locations")
      /\ KeysIn(state, "locations") = Ids("locations")
      /\ \A i, j \in DOMAIN ExportedRows(state, "locations") :
            ExportedRows(state, "locations")[i].location_id
                = ExportedRows(state, "locations")[j].location_id => i = j
    BY LocationsSound
<1>3. /\ SoundSchedule(state) /\ SoundDates(state) /\ SheetWritten(state, "schedule")
      /\ \A u \in RowSet(state, "schedule") : \E v \in Records("schedule") : u = DayRow(v)
    BY ScheduleSound
<1>4. SoundShoot(state) /\ SheetWritten(state, "production")
    BY ProductionSound
<1>5. ASSUME NEW s \in {"scenes", "people", "equipment", "availability"}
      PROVE  /\ SheetWritten(state, s) /\ RowSet(state, s) = Records(s)
             /\ s # "availability" =>
                   \A i, j \in DOMAIN ExportedRows(state, s) :
                       ExportedRows(state, s)[i][WorkbookSheets[s].key]
                           = ExportedRows(state, s)[j][WorkbookSheets[s].key] => i = j
    BY ListsWritten
<1>6. \A s \in SheetNames : SheetWritten(state, s)
    BY <1>2, <1>3, <1>4, <1>5, SheetsAre
<1>7. SoundKeys(state)
  <2>1. WorkbookSheets["locations"].key = "location_id"
    BY KeysAre
  <2>2. ASSUME NEW s \in {"scenes", "people", "locations", "equipment"},
               NEW i \in DOMAIN ExportedRows(state, s), NEW j \in DOMAIN ExportedRows(state, s),
               ExportedRows(state, s)[i][WorkbookSheets[s].key]
                   = ExportedRows(state, s)[j][WorkbookSheets[s].key]
        PROVE  i = j
    <3>1. CASE s = "locations"
      BY <1>2, <2>1, <2>2, <3>1
    <3>2. CASE s # "locations"
      BY <1>5, <2>2, <3>2
    <3> QED
      BY <3>1, <3>2
  <2> QED
    BY <2>2 DEF SoundKeys
<1>8. ASSUME NEW s \in {"scenes", "people", "locations", "equipment"} PROVE KeysIn(state, s) = Ids(s)
  <2>1. CASE s = "locations"
    BY <1>2, <2>1
  <2>2. CASE s # "locations"
    <3>1. RowSet(state, s) = {tables[s][i] : i \in DOMAIN tables[s]}
      BY <1>5, <2>2 DEF Records
    <3> QED
      BY <3>1 DEF KeysIn, Ids
  <2> QED
    BY <2>1, <2>2
<1>9. ASSUME NEW s \in {"scenes", "schedule", "availability"}, NEW u \in RowSet(state, s)
      PROVE  \E v \in Records(s) : RefsOf(s, u) = RefsOf(s, v)
  <2>1. CASE s = "schedule"
    <3>1. PICK v \in Records("schedule") : u = DayRow(v)
      BY <1>3, <2>1
    <3>2. u.location_id = v.location_id /\ u.scene_ids = v.scene_ids
      BY <3>1 DEF DayRow
    <3>3. DayRefs(u) = DayRefs(v)
      BY <3>2 DEF DayRefs
    <3> QED
      BY <2>1, <3>3 DEF RefsOf
  <2>2. CASE s # "schedule"
    BY <1>5, <2>2
  <2> QED
    BY <2>1, <2>2
<1>10. SoundRefs(state)
  <2>1. ASSUME NEW s \in {"scenes", "schedule", "availability"}, NEW u \in RowSet(state, s),
               NEW ref \in RefsOf(s, u)
        PROVE  ref[2] \in KeysIn(state, ref[3])
    <3>1. PICK i \in DOMAIN tables[s] : ref \in RefsOf(s, tables[s][i])
      BY <1>9 DEF Records
    <3>2. ref[2] \in Ids(ref[3])
      BY <3>1, RefsFound
    <3>3. SheetsFit /\ SheetsThere /\ RowsRead /\ Reached(AfterRows)
      BY DEF WorkbookInv, Reached
    <3>4. ref[3] \in KeyedSheets
      BY <3>1, <3>3, RefsKnown
    <3> QED
      BY <1>8, <3>2, <3>4 DEF KeyedSheets
  <2> QED
    BY <2>1 DEF SoundRefs
<1>11. SoundRoles(state)
  <2>1. ASSUME NEW v \in state.scenes, NEW p \in RowSet(state, "people")
        PROVE  /\ p.person_id \in ToSet(v.cast_ids) => p.role # "CREW"
               /\ p.person_id \in ToSet(v.crew_ids) => p.role # "CAST"
    <3>1. p \in Records("people")
      BY <1>5
    <3>2. PICK q \in state.people : q.id = p.person_id /\ q.role = p.role
      <4> DEFINE made(u) == [id |-> u.person_id, name |-> u.name, role |-> u.role,
                             daily_rate |-> u.daily_rate,
                             unavailable_windows |-> WindowsOf(u.person_id, "UNAVAILABLE")]
      <4>1. state.people = {made(u) : u \in Records("people")}
        BY AllHeld, NewStateIs DEF People
      <4>2. made(p) \in state.people /\ made(p).id = p.person_id /\ made(p).role = p.role
        BY <3>1, <4>1
      <4> QED
        BY <4>2
    <3>3. \A r \in state.people : r.id = q.id => r = q
      BY OneRecordEach DEF OneRecordPerId, Unique
    <3>4. ToSet(v.cast_ids) \subseteq CastIds /\ ToSet(v.crew_ids) \subseteq PersonIds \ CastIds
      BY SceneRefsRight
    <3>5. p.person_id \in CastIds <=> p.role = "CAST"
      BY <3>2, <3>3 DEF CastIds
    <3> QED
      BY <3>4, <3>5
  <2> QED
    BY <2>1 DEF SoundRoles
<1>12. SoundWindows(state)
  <2>1. ASSUME NEW v \in RowSet(state, "availability")
        PROVE  /\ ~MisfitWindow(v) /\ v.window_kind # "CLOSED"
               /\ {v.from_date, v.to_date} \subseteq Int /\ v.from_date <= v.to_date
    <3>1. v \in Records("availability")
      BY <1>5
    <3> QED
      BY <3>1, WindowRecord DEF WindowFits
  <2> QED
    BY <2>1 DEF SoundWindows
<1>13. SoundScenes(state)
  <2>1. state.scenes = RowSet(state, "scenes")
    BY <1>5, AllHeld, NewStateIs
  <2>2. \A id : NeededBy(state, id) = Prerequisites(id)
    <3> TAKE id
    <3> DEFINE t == tables["scenes"]
               mine == {i \in DOMAIN t : t[i].scene_id = id}
    <3>1. state.scenes = {t[i] : i \in DOMAIN t}
      BY AllHeld, NewStateIs DEF Records
    <3>2. {v \in state.scenes : v.scene_id = id} = {t[i] : i \in mine}
      BY <3>1
    <3>3. Prerequisites(id) = UNION {ToSet(t[i].prerequisite_scene_ids) : i \in mine}
      BY DEF Prerequisites
    <3>4. NeededBy(state, id) = UNION {ToSet(v.prerequisite_scene_ids) : v \in {t[i] : i \in mine}}
      BY <3>2 DEF NeededBy
    <3> HIDE DEF t, mine
    <3>5. {ToSet(v.prerequisite_scene_ids) : v \in {t[i] : i \in mine}}
             = {ToSet(t[i].prerequisite_scene_ids) : i \in mine}
      OBVIOUS
    <3> QED
      BY <3>3, <3>4, <3>5
  <2>3. {v.scene_id : v \in state.scenes} = Ids("scenes")
    BY IdsAre DEF SceneIds
  <2>4. ~\E loop \in (SUBSET Ids("scenes")) \ {{}} : \A id \in loop : Prerequisites(id) \cap loop # {}
    <3>1. PrerequisiteLoops = {}
      BY AllHeld DEF SemanticErrors
    <3> QED
      BY <3>1 DEF PrerequisiteLoops
  <2> QED
    BY <2>1, <2>2, <2>3, <2>4 DEF SoundScenes
<1>14. state = [production |-> state.production, scenes |-> state.scenes, people |-> state.people,
                locations |-> state.locations, equipment |-> state.equipment, days |-> state.days]
    BY AllHeld DEF NewState
<1>15. BrokenRecords(state) = {}
    BY AllHeld
<1> QED
    BY <1>1, <1>2, <1>3, <1>4, <1>6, <1>7, <1>10, <1>11, <1>12, <1>13, <1>14, <1>15 DEF Sound

LEMMA UploadExportReturns ==
    ASSUME WorkbookInv, UploadExport
    PROVE  ReimportInv'
<1> SUFFICES ASSUME Returning' PROVE ReimportInv'
    BY DEF ReimportInv
<1>1. /\ state # NoState /\ upload' = ExportState(state) /\ phase' = "read" /\ errors' = {}
      /\ state' = NoState
      /\ first' = [state |-> state, zone |-> Zone,
                   closed |-> {v \in Records("availability") : v.window_kind = "CLOSED"}]
    BY DEF UploadExport
<1>2. first'.state = state
    BY <1>1
<1>3. {v \in Records("availability") : v.window_kind = "CLOSED"} = {}
  <2>1. first'.closed = {v \in Records("availability") : v.window_kind = "CLOSED"}
    BY <1>1
  <2>2. first'.closed = {}
    BY DEF Returning
  <2> QED
    BY <2>1, <2>2
<1>4. \A v \in Records("availability") : v.window_kind # "CLOSED"
    BY <1>3
<1>5. OneOffset(state)
  <2>1. OneOffset(first.state)'
    BY DEF Returning
  <2> QED
    BY <1>2, <2>1 DEF OneOffset, Moments
<1>6. Sound(state)
    BY <1>1, <1>4, <1>5, StateIsSound
<1>7. Sound(first.state)'
    BY <1>2, <1>6
<1>8. (upload = ExportState(first.state))'
    BY <1>1, <1>2
<1>9. SheetsReturn'
    BY <1>1 DEF SheetsReturn
<1>10. "read" \notin AfterProduction /\ "read" \notin AfterRows
    BY DEF AfterProduction, AfterRows, AfterIdentity, AfterReferences, AfterSemantics
<1>11. ~Reached(AfterProduction)' /\ ~Reached(AfterRows)'
    BY <1>1, <1>10 DEF Reached
<1>12. ProductionReturns' /\ TablesReturn'
    BY <1>11 DEF ProductionReturns, TablesReturn
<1> QED
    BY <1>1, <1>7, <1>8, <1>9, <1>12 DEF ReimportInv

LEMMA InitReturns == Init => ReimportInv
BY DEF Init, ReimportInv, Returning

LEMMA StepReturns ==
    ASSUME WorkbookInv, ReimportInv, [Next]_vars
    PROVE  ReimportInv'
BY ReadReturns, CheckSheetsReturns, ReadProductionReturns, ReadTablesReturns, ChecksReturn,
   BuildStateReturns, WarnReturns, UploadExportReturns, StutterReturns
   DEF Next

LEMMA ReturnsTheSame ==
    ASSUME WorkbookInv, ReimportInv
    PROVE  ReimportsTheSame
<1> SUFFICES ASSUME first # None, phase = "done", first.closed = {}, OneOffset(first.state),
                    NoFormulas(first.state)
             PROVE  errors = {Issue("E016", Whole, 0, Whole)} \/ state = first.state
    BY DEF ReimportsTheSame
<1>1. errors \subseteq TooLarge /\ (state # NoState => state = first.state)
    BY DEF ReimportInv, Returning
<1>2. CASE errors = {}
  <2>1. state # NoState
    BY <1>2 DEF WorkbookInv, TypeOK
  <2> QED
    BY <1>1, <2>1
<1>3. CASE errors # {}
    BY <1>1, <1>3 DEF TooLarge
<1> QED
    BY <1>2, <1>3

\* A production exported and uploaded again is the same production, whatever
\* was in the file it first came from: unless the second parse is refused for its
\* size or its time, it accepts what export_state wrote and builds the state that
\* was exported, when no location is closed, all moments have one offset with a
\* name and no text is written behind an apostrophe (template.export_state,
\* template.guard_formula, parser.parse_workbook).
THEOREM ExportComesBack == Spec => []ReimportsTheSame
<1>1. Spec => [](WorkbookInv /\ ReimportInv)
  <2>1. WorkbookInv /\ ReimportInv /\ [Next]_vars => ReimportInv'
    BY StepReturns
  <2> QED
    BY <2>1, InitReturns, WorkbookInvariant, PTL DEF Spec
<1>2. WorkbookInv /\ ReimportInv => ReimportsTheSame
    BY ReturnsTheSame
<1> QED
    BY <1>1, <1>2, PTL
=============================================================================
