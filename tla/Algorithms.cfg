\* One state for every input: four readings an hour apart and more, a map of three cells,
\* four stored reports with and without the flag, three reports of two clusters, two phrases, four events.
CONSTANTS
    Rains <- MCRains
    Spans <- MCSpansIn
    Maps <- MCMaps
    ReportSets <- MCReportSets
    RiskHistories <- MCRiskHistories
    Tables <- MCTables
    Filters <- MCFilters
    PublicReports <- MCPublicReports
    Utterances <- MCUtterances
    Neighbours <- MCNeighbours
    Histories <- MCHistories
    Districts <- MCDistricts
SPECIFICATION Spec
INVARIANTS
    RainFitsHourAndPlace
    MapViewsAgree
    StaffViewsAgree
    PagesFollowTheExport
    WordsAreUnderstood
    NobodyIsBlockedUnlisted
\* A behaviour ends with its answer.
CHECK_DEADLOCK FALSE
