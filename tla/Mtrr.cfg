SPECIFICATION Spec
CONSTANTS
    Settings <- MCSettings
    Pages <- MCPages
    KeptPages = 1024
INVARIANTS TypeIsTheProcessors
