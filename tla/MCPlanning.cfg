SPECIFICATION Spec
CONSTANTS
    DayUnits = 96
    Scenes <- MCScenes
    Places <- MCPlaces
    Dates <- MCDates
    Cast <- MCCast
    Equipment = {1}
    Gear <- MCGear
    Outdoors = {3}
    Light <- MCLight
    Permits <- MCPermits
    Rentals <- MCRentals
    Settings <- MCSettings
    Lights <- MCLights
    RestUnits = 40
    LongestDay = 48
    Minutes <- MCMinutes
    SetupUnits = 1
    ReserveDays <- MCReserveDays
    SwapReach = 3
    MaxRawCandidates = 8
    Plates = {3}
    PlaceRate <- MCPlaceRate
    PersonRate <- MCPersonRate
    GearRate <- MCGearRate
    Tariff <- MCTariff
    Bases <- MCBases
    Events <- MCEvents
    Hints <- MCHints
    BufferUnits = 2
INVARIANTS
    ScenesKept
    ExecutionAgrees
    AbsenceHonoured
    RepairsHeal
    FrontierCovers
CHECK_DEADLOCK FALSE
