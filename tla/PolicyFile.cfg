SPECIFICATION Spec
CONSTANTS
    Words <- MCWords
    Registries = {"docker.io", "ghcr.io", "localhost:5000"}
    Ports = {"localhost:5000"}
    Malformed = {"", "App"}
    BadSuffixes = {".1", "a"}
    Documents <- MCDocuments
    Layouts <- DocumentedLayouts
    Patterns <- MCPatterns
    References <- MCReferences
INVARIANTS
    TypeOK
    PolicyAsWritten
    EveryPolicyUsable
    SpellingIrrelevant
CHECK_DEADLOCK FALSE
