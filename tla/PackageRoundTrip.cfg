SPECIFICATION Spec
CONSTANTS
    Versions = {0, 2, 3}
    LegacyPackages <- MCLegacyPackages
    ScriptPackages <- MCScripts
    Engine = "/Script/Engine"
    TagNames <- MCTags
    DefaultNames = {"Default__TagData"}
    UserDataNames = {"Default__TagData", "TagData"}
    Foreign <- MCForeign
    LeafName <- MCLeafName
    Losses <- MCLosses
INVARIANT AssetSurvives
INVARIANT LoadOrderSurvives
