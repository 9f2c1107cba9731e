SPECIFICATION Spec
\* An image that runs, was released or crashed the process stays so.
CHECK_DEADLOCK FALSE
CONSTANTS
    WordSize = 48
    Page = 4
    Files <- MCFiles
    Home <- MCHome
INVARIANTS CrashOnlyInGap PagesAsDeclared LinkedAsSpecified BridgedNeverRaw CensusForetells
