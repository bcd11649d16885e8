SPECIFICATION Spec
CONSTANTS
    Charsets = {"utf8", "single"}
    ColumnLists <- MCColumnLists
    Rows <- MCRows
    MaxRows = 2
    Catalogue <- MCCatalogue
    ElementLists <- MCElementLists
    Texts <- MCTexts
    Descriptions <- MCDescriptions
    Rooms <- MCRooms
    RowCounts <- MCRowCounts
    SvcTexts <- MCSvcTexts
    Outcomes <- MCOutcomes
    SegmentLists <- MCSegmentLists
    Vectors <- MCVectors
    Profiles <- MCProfiles
    AuthForms <- MCAuthForms
    Calls <- MCCalls
    EventLists <- MCEventLists
    Keys <- MCKeys
    BatchOptions <- MCBatchOptions
    Starts <- MCStarts
    MaxDays = 800
    Times <- MCTimes
    Offsets <- MCOffsets
    ZoneIds <- MCZoneIds
    Strings <- MCStrings
    Lookups <- MCLookups
    Natives <- MCNatives
INVARIANTS
    RowsArrive
    ArraysArrive
    DecFloatsArrive
    AnswersUnderstood
    ParametersUnderstood
    ValuesAgree
CHECK_DEADLOCK FALSE
