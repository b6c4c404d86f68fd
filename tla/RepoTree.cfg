SPECIFICATION Spec
CONSTANTS
    Target <- AllTargets
    MaxTargets = 2
    Arch = {"x86_64", "aarch64"}
CHECK_DEADLOCK FALSE
INVARIANTS
    TypeOK
    PublishedConsistent
    AliasesLead
    TemplatesEnable
