CONSTANTS
    r1 = r1
    r2 = r2
    w1 = w1
    w2 = w2
    x = x
    NL = NL
    CR = CR
    EOF = EOF
    KILL = KILL
    BS = BS
    Readers <- TwoReaders
    Writers <- TwoWriters
    Chars <- Keys
    INPUT_BUF_SIZE = 2
    WRAP = 4
    UART_TX_BUF_SIZE = 1
    FIFO_SIZE = 2
    MaxEvents = 4
    Reads <- SomeReads
    START = 3
SPECIFICATION LiveSpec
INVARIANTS
    OutputExact
PROPERTIES
    IsLineQueue
    CallsReturn
CHECK_DEADLOCK FALSE
