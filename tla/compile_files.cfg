\* Five requests, of which two workers take two at a time; all share their files.
CONSTANTS
    good1 = good1
    good2 = good2
    unlinked = unlinked
    refused = refused
    fatal = fatal
    Request = {good1, good2, unlinked, refused, fatal}
    PoolSize = 2
    Verdict <- Verdict1
    Address <- Address1
    Size <- Size1
    Digest <- Digest1
SPECIFICATION Spec
INVARIANTS
    TypeOK
    LoneCompile
    ExitHasCause
CHECK_DEADLOCK FALSE
