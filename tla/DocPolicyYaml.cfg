SPECIFICATION Spec
CONSTANTS
    Words <- MCWords
    Registries = {"docker.io", "ghcr.io", "localhost:5000"}
    Ports = {"localhost:5000"}
    Malformed = {"", "App"}
    BadSuffixes = {".1", "a"}
    Documents <- MCDocuments
    Layouts <- OtherLayouts
    Patterns <- MCPatterns
    References <- MCReferences
INVARIANTS
    YamlAsWritten
CHECK_DEADLOCK FALSE
