SPECIFICATION Spec
CONSTANTS
    Uis <- MCUis
    Rests <- MCRests
    DefaultUi = "ui"
    DefaultRest = "rest"
    Disabling = {"disabled"}
    Missing = Missing
    Broken = Broken
    Wrong = Wrong
    Garbled = Garbled
    Percents = {p80, p100}
    Inherit = Inherit
    Opaque = p100
    Presets = {p100}
    Limits <- MCLimits
    MaxHappenings = 3
CHECK_DEADLOCK FALSE
INVARIANTS
    TypeOK
    ManualPartKept
    FailedSaveRestoresDaemon
    SavedIsInEffect
    RuleIsPolicy
PROPERTIES
    FailedSaveRestoresFile
