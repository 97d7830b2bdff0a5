\* Five jobs listed in pages of one or two; small configurations, outputs and trees.
SPECIFICATION Spec
CONSTANTS
    Listed = {j1, j2, j3, j4, j5}
    Stamps = {1, 2, 3, 4, 5}
    Limits = {1, 2}
    Defaults <- MCDefaults
    ConfigFiles <- MCConfigFiles
    Keys = {"plain", "model", "key", "each", "one", "two", "extra"}
    Values = {"default", "file"}
    Depth = 4
    Classes = {"Config", "Nested", "Entry"}
    TopClass = "Config"
    Fields <- MCFields
    Outputs <- MCOutputs
    Sizes <- MCSizes
    States <- MCStates
    Requests <- MCRequests
    Names <- MCNames
INVARIANTS PagesShowAll LayersWin WarnsOfIgnored TailIsLast TreeAgrees ServedIsAllowed
CHECK_DEADLOCK FALSE
