SPECIFICATION Spec

CONSTANTS
    Specs <- MCSpecs
    Names <- MCNames
    Streams <- MCStreams
    Fields <- MCFields
    Lists <- MCLists
    Classes <- MCClasses
    Configs <- MCConfigs

INVARIANTS
    Wired
    OrderIrrelevant

PROPERTIES
    TopologiesStay

CHECK_DEADLOCK FALSE
