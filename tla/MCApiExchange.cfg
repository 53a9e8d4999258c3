SPECIFICATION Spec
CONSTANTS
    MaxSafe = 100
    Schemas <- ApiSchemas
    Enums <- ApiEnums
    OneOf <- ApiChoices
    Types <- MCTypes
INVARIANTS
    ReadsWhatWasSent
    FailsOnlyOnUnsafeNumbers
    NothingElseChanges
    EditIsStored
    JsonKeepsRecognized
CHECK_DEADLOCK FALSE
