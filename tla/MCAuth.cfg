SPECIFICATION MCSpec
CONSTANTS
    a1 = a1
    a2 = a2
    Apps = {a1}
    BundleOf <- OneBundle
    Choices = {"GRANTED_ALWAYS", "DENIED"}
    MaxGen = 2
    MaxReq = 2
    MaxNid = 2
INVARIANTS GrantsAreChosen AnsweredOnce FileMatchesRecords
PROPERTIES DeniedStays ClickReachesApp
