CONSTANTS
    MAXARGS = 3
    NFILE = 6
    NOFILE = 5
    NPROC = 6
    NPIPE = 2
    PIPESIZE = 1
    Scripts <- Typed
SPECIFICATION LiveSpec
INVARIANTS
    ParsesAsGrammar
    WiredAsWritten
    PromptWaits
PROPERTIES
    CommandsFinish
CHECK_DEADLOCK FALSE
