------------------------------- MODULE Console -------------------------------
(***************************************************************************)
(* The console (kernel/console.c) over the UART (kernel/uart.c): processes *)
(* that read and write it, and the interrupt handler that edits the input  *)
(* line, echoes it, and feeds the transmitter.                             *)
(*                                                                         *)
(* Readers take turns under cons.lock; uartstart() runs in steps under     *)
(* uart_tx_lock; the handler's echo goes to the device without that lock.  *)
(* A step is one access to the device or one turn of a loop.  The PLIC     *)
(* gives the UART's interrupt to one CPU at a time, so there is one        *)
(* handler.  The device is a 16550: a transmit FIFO, a receive FIFO, and   *)
(* an interrupt that is raised when the transmit FIFO runs empty.          *)
(***************************************************************************)
EXTENDS Integers, Sequences, FiniteSets

CONSTANTS
    Readers, Writers,       \* processes that read and that write the console
    Chars,                  \* what can be typed
    NL, CR, EOF, KILL, BS,  \* newline, return, control-D, control-U, backspace
    INPUT_BUF_SIZE,
    WRAP,                   \* the indices of the input buffer count modulo this (2^32 in C)
    START,                  \* characters read before, modulo WRAP
    UART_TX_BUF_SIZE,
    FIFO_SIZE,              \* characters the UART's transmitter holds
    MaxEvents,              \* bound: keys, reads, characters written and kills, together
    Reads                   \* the reads: bytes asked for, bytes the caller's buffer can take

ASSUME ConsoleConstants ==
    /\ Cardinality({NL, CR, EOF, KILL, BS}) = 5
    /\ Writers \cap {"none", "intr", "echo"} = {}
    /\ INPUT_BUF_SIZE \in Nat \ {0} /\ WRAP \in Nat /\ WRAP > INPUT_BUF_SIZE /\ WRAP % INPUT_BUF_SIZE = 0 /\ START \in 0 .. WRAP - 1
    /\ UART_TX_BUF_SIZE \in Nat \ {0} /\ MaxEvents \in Nat
    /\ \A b \in Reads : b.n \in Nat /\ b.ok \in 0 .. b.n
    /\ FIFO_SIZE \in Nat /\ FIFO_SIZE >= 2   \* as many as can be between reading LSR and writing THR

VARIABLES
    cons,   \* input buffer and its indices r, w, e
    rd,     \* readers: where, bytes asked for, bytes the buffer can take, bytes got, killed
    wr,     \* writers: where, next character, last character of the call
    uart,   \* output buffer and its indices r, w
    tx,     \* uart_tx_lock: its holder, where in uartstart(), the character it took
    h,      \* interrupt handler: where, characters of echo left
    dev,    \* device: transmit FIFO, receive FIFO, transmit interrupt
    sent,   \* characters of each writer that went over the wire
    events  \* keys, reads, characters written and kills so far

vars == <<cons, rd, wr, uart, tx, h, dev, sent, events>>

None   == "none"
INTR   == "intr"     \* the handler as a holder of uart_tx_lock
NoChar == <<None, 0>>
ECHO   == <<"echo", 0>>     \* a character of echo; <<p, i>> is the i-th that p writes
Free   == [by |-> None, at |-> None, c |-> NoChar]

Init ==
    /\ cons = [buf |-> [i \in 0 .. INPUT_BUF_SIZE - 1 |-> None], r |-> START, w |-> START, e |-> START]
    /\ rd = [p \in Readers |-> [at |-> "user", n |-> 0, ok |-> 0, got |-> << >>, killed |-> FALSE]]
    /\ wr = [p \in Writers |-> [at |-> "user", next |-> 1, last |-> 0]]
    /\ uart = [buf |-> [i \in 0 .. UART_TX_BUF_SIZE - 1 |-> NoChar], r |-> 0, w |-> 0]
    /\ tx = Free
    /\ h = [at |-> "user", echo |-> 0]
    /\ dev = [out |-> << >>, in |-> << >>, ip |-> FALSE]
    /\ sent = [p \in Writers |-> 0]
    /\ events = 0

\* n events of the environment, within the bound.
Happens(n) == events + n <= MaxEvents /\ events' = events + n

(***************************************************************************)
(* The input buffer.                                                       *)
(***************************************************************************)
\* buf[from .. to - 1], the characters between two indices.
Span(c, from, to) == [i \in 1 .. (to - from) % WRAP |-> c.buf[(from + i - 1) % INPUT_BUF_SIZE]]

Back(c, k) == [c EXCEPT !.e = (@ - k) % WRAP]

\* ^U erases back to a newline or to the committed input, ^H and delete one character.
KillLine(l) == CHOOSE k \in 0 .. Len(l) : /\ \A i \in Len(l) - k + 1 .. Len(l) : l[i] # NL
                                          /\ k < Len(l) => l[Len(l) - k] = NL
KilledLine(c) == KillLine(Span(c, c.w, c.e))

EraseAny(c) == 1
Erased(c) == IF c.e # c.w THEN 1 ELSE 0

\* Any other key is stored, and the line committed at a newline, an end of file or a full buffer.
Commits(c, k) == k \in {NL, EOF} \/ (c.e - c.r) % WRAP = INPUT_BUF_SIZE
Put(c, k) == [c EXCEPT !.buf[c.e % INPUT_BUF_SIZE] = k, !.e = (@ + 1) % WRAP]
Committed(c, k) == IF Commits(c, k) THEN [c EXCEPT !.w = c.e] ELSE c

Key(k) == IF k = CR THEN NL ELSE k

\* wakeup(&cons.r)
Woken(r) == [p \in Readers |-> IF r[p].at = "sleep" THEN [r[p] EXCEPT !.at = "woken"] ELSE r[p]]

\* consputc(): BACKSPACE is three characters of echo.
BACKSPACE == 3
Echo(k) == [at |-> "echo", echo |-> k]

\* consoleintr(): the input buffer, the readers and the length of the echo for a key.
consoleintr(k) ==
    \/ /\ k = KILL
       /\ cons' = Back(cons, KilledLine(cons)) /\ h' = Echo(BACKSPACE * KilledLine(cons))
       /\ UNCHANGED rd
    \/ /\ k = BS
       /\ cons' = Back(cons, Erased(cons)) /\ h' = Echo(BACKSPACE * Erased(cons))
       /\ UNCHANGED rd
    \/ /\ k \notin {KILL, BS} /\ (cons.e - cons.r) % WRAP < INPUT_BUF_SIZE
       /\ cons' = Committed(Put(cons, Key(k)), Key(k)) /\ h' = Echo(1)
       /\ rd' = IF Commits(Put(cons, Key(k)), Key(k)) THEN Woken(rd) ELSE rd
    \/ /\ k \notin {KILL, BS} /\ (cons.e - cons.r) % WRAP >= INPUT_BUF_SIZE
       /\ h' = Echo(0) /\ UNCHANGED <<cons, rd>>

(***************************************************************************)
(* Readers.                                                                *)
(***************************************************************************)
ConsFree == h.at \notin {"echo", "thr"} /\ \A p \in Readers : rd[p].at # "turn"

\* A read of n bytes into a buffer that takes ok of them.
read_call(p) ==
    /\ Happens(1) /\ rd[p].at = "user" /\ ~rd[p].killed /\ ConsFree
    /\ \E b \in Reads : rd' = [rd EXCEPT ![p] = [@ EXCEPT !.at = "turn", !.n = b.n, !.ok = b.ok]]
    /\ UNCHANGED <<cons, wr, uart, tx, h, dev, sent>>

wake_reader(p) ==
    /\ rd[p].at = "woken" /\ ConsFree
    /\ rd' = [rd EXCEPT ![p].at = "turn"]
    /\ UNCHANGED <<cons, wr, uart, tx, h, dev, sent, events>>

InUser(p) == [at |-> "user", n |-> 0, ok |-> 0, got |-> << >>, killed |-> rd[p].killed]
Return(p) == rd' = [rd EXCEPT ![p] = InUser(p)]
Consume   == cons' = [cons EXCEPT !.r = (@ + 1) % WRAP]

\* An end of file stays for the next call if this one has got something.
AtEof(p) == Return(p) /\ (IF rd[p].got # << >> THEN UNCHANGED cons ELSE Consume)

\* One turn of the loop of consoleread(), with cons.lock held.
consoleread(p) ==
    /\ rd[p].at = "turn"
    /\ \/ Len(rd[p].got) = rd[p].n /\ Return(p) /\ UNCHANGED cons
       \/ /\ Len(rd[p].got) < rd[p].n /\ cons.r = cons.w /\ UNCHANGED cons
          /\ IF rd[p].killed THEN Return(p) ELSE rd' = [rd EXCEPT ![p].at = "sleep"]
       \/ /\ Len(rd[p].got) < rd[p].n /\ cons.r # cons.w
          /\ \E c \in {cons.buf[cons.r % INPUT_BUF_SIZE]} :
                \/ c = EOF /\ AtEof(p)
                \/ c # EOF /\ Len(rd[p].got) = rd[p].ok /\ Return(p) /\ Consume
                \/ /\ c # EOF /\ Len(rd[p].got) < rd[p].ok /\ Consume
                   /\ IF c = NL THEN Return(p) ELSE rd' = [rd EXCEPT ![p].got = Append(@, c)]
    /\ UNCHANGED <<wr, uart, tx, h, dev, sent, events>>

\* kill() of a reader.
kill(p) ==
    /\ Happens(1) /\ ~rd[p].killed
    /\ rd' = [rd EXCEPT ![p].killed = TRUE, ![p].at = IF @ = "sleep" THEN "woken" ELSE @]
    /\ UNCHANGED <<cons, wr, uart, tx, h, dev, sent>>

(***************************************************************************)
(* The device.                                                             *)
(***************************************************************************)
RoomOne(f) == Len(f) < 1
Room(f) == Len(f) < FIFO_SIZE
TxIdle == dev.out = << >>     \* LSR_TX_IDLE

\* A write of THR: the character enters the FIFO, or is lost if there is no room.
WriteTHR(c) == dev' = [dev EXCEPT !.out = IF Room(@) THEN Append(@, c) ELSE @, !.ip = FALSE]

\* A read of ISR clears the transmit interrupt unless a receive interrupt comes before it.
ReadISR == dev' = [dev EXCEPT !.ip = @ /\ dev.in # << >>]

device_transmit ==
    /\ dev.out # << >>
    /\ dev' = [dev EXCEPT !.out = Tail(@), !.ip = @ \/ Len(dev.out) = 1]
    /\ sent' = IF Head(dev.out) = ECHO THEN sent ELSE [sent EXCEPT ![Head(dev.out)[1]] = Head(dev.out)[2]]
    /\ UNCHANGED <<cons, rd, wr, uart, tx, h, events>>

device_receive ==
    /\ Happens(1)
    /\ \E c \in Chars : dev' = [dev EXCEPT !.in = Append(@, c)]
    /\ UNCHANGED <<cons, rd, wr, uart, tx, h, sent>>

(***************************************************************************)
(* Writers.                                                                *)
(***************************************************************************)
write_call(p) ==
    /\ wr[p].at = "user"
    /\ \E n \in 1 .. MaxEvents - events :
          Happens(n) /\ wr' = [wr EXCEPT ![p].at = "put", ![p].last = wr[p].next + n - 1]
    /\ UNCHANGED <<cons, rd, uart, tx, h, dev, sent>>

TxFull == uart.w = uart.r + UART_TX_BUF_SIZE

\* uartputc() up to its call of uartstart().
uartputc(p) ==
    /\ wr[p].at \in {"put", "woken"} /\ tx.by = None
    /\ \/ TxFull /\ wr' = [wr EXCEPT ![p].at = "sleep"] /\ UNCHANGED <<uart, tx>>
       \/ /\ ~TxFull
          /\ uart' = [uart EXCEPT !.buf[uart.w % UART_TX_BUF_SIZE] = <<p, wr[p].next>>, !.w = @ + 1]
          /\ tx' = [by |-> p, at |-> "start", c |-> NoChar]
          /\ wr' = [wr EXCEPT ![p].at = "start"]
    /\ UNCHANGED <<cons, rd, h, dev, sent, events>>

\* The holder of uart_tx_lock returns from uartstart() and releases: consolewrite() goes on
\* with the next character, the handler returns from the interrupt.
Released ==
    /\ tx' = Free
    /\ IF tx.by = INTR
       THEN h' = [h EXCEPT !.at = "user"] /\ UNCHANGED wr
       ELSE /\ wr' = [wr EXCEPT ![tx.by].next = @ + 1,
                                ![tx.by].at = IF wr[tx.by].next = wr[tx.by].last THEN "user" ELSE "put"]
            /\ UNCHANGED h

\* wakeup(&uart_tx_r)
NotWoken(w) == w
WokenWriters(w) == [p \in Writers |-> IF w[p].at = "sleep" THEN [w[p] EXCEPT !.at = "woken"] ELSE w[p]]

\* uartstart(): one turn of its loop up to the write of THR, then the write.
uartstart ==
    /\ tx.at = "start"
    /\ \/ uart.w = uart.r /\ ReadISR /\ Released /\ UNCHANGED uart
       \/ uart.w # uart.r /\ ~TxIdle /\ Released /\ UNCHANGED <<uart, dev>>
       \/ /\ uart.w # uart.r /\ TxIdle
          /\ uart' = [uart EXCEPT !.r = @ + 1]
          /\ tx' = [tx EXCEPT !.at = "thr", !.c = uart.buf[uart.r % UART_TX_BUF_SIZE]]
          /\ wr' = WokenWriters(wr)
          /\ UNCHANGED <<h, dev>>
    /\ UNCHANGED <<cons, rd, sent, events>>

uartstart_thr ==
    /\ tx.at = "thr"
    /\ WriteTHR(tx.c)
    /\ tx' = [tx EXCEPT !.at = "start", !.c = NoChar]
    /\ UNCHANGED <<cons, rd, wr, uart, h, sent, events>>

(***************************************************************************)
(* The interrupt handler.                                                  *)
(***************************************************************************)
\* devintr() claims the interrupt and calls uartintr().
devintr ==
    /\ h.at = "user" /\ (dev.ip \/ dev.in # << >>)
    /\ h' = [h EXCEPT !.at = "getc"]
    /\ UNCHANGED <<cons, rd, wr, uart, tx, dev, sent, events>>

\* uartintr() takes a character to consoleintr(), or finds no more.
uartgetc ==
    /\ h.at = "getc"
    /\ \/ dev.in = << >> /\ h' = [h EXCEPT !.at = "lock"] /\ UNCHANGED <<cons, rd, dev>>
       \/ /\ dev.in # << >> /\ ConsFree
          /\ consoleintr(Head(dev.in)) /\ dev' = [dev EXCEPT !.in = Tail(@)]
    /\ UNCHANGED <<wr, uart, tx, sent, events>>

\* consputc(), uartputc_sync(): each character of the echo waits for LSR_TX_IDLE and is written
\* to THR.  After the last one consoleintr() releases cons.lock.
uartputc_sync ==
    /\ \/ h.at = "echo" /\ h.echo = 0 /\ h' = [h EXCEPT !.at = "getc"] /\ UNCHANGED dev
       \/ h.at = "echo" /\ h.echo > 0 /\ TxIdle /\ h' = [h EXCEPT !.at = "thr"] /\ UNCHANGED dev
       \/ h.at = "thr" /\ WriteTHR(ECHO) /\ h' = [at |-> "echo", echo |-> h.echo - 1]
    /\ UNCHANGED <<cons, rd, wr, uart, tx, sent, events>>

uartintr_start ==
    /\ h.at = "lock" /\ tx.by = None
    /\ tx' = [by |-> INTR, at |-> "start", c |-> NoChar] /\ h' = [h EXCEPT !.at = "start"]
    /\ UNCHANGED <<cons, rd, wr, uart, dev, sent, events>>

Handler == devintr \/ uartgetc \/ uartputc_sync \/ uartintr_start
Lines   == uartstart \/ uartstart_thr
Reader(p) == wake_reader(p) \/ consoleread(p)

Next ==
    \/ Handler \/ Lines \/ device_transmit \/ device_receive
    \/ \E p \in Readers : read_call(p) \/ Reader(p) \/ kill(p)
    \/ \E p \in Writers : write_call(p) \/ uartputc(p)

Spec == Init /\ [][Next]_vars

\* The scheduler runs every process that can run, the handler runs with interrupts off until
\* it is done, and the device transmits.  Nobody has to type, call or kill.
LiveSpec ==
    /\ Spec
    /\ WF_vars(Handler) /\ WF_vars(Lines) /\ WF_vars(device_transmit)
    /\ \A p \in Readers : WF_vars(Reader(p))
    /\ \A p \in Writers : WF_vars(uartputc(p))

(***************************************************************************)
(* Properties.                                                             *)
(***************************************************************************)
Line  == Span(cons, cons.w, cons.e)
Ready == Span(cons, cons.r, cons.w)
Calls == [p \in Readers |-> [open |-> rd[p].at # "user", n |-> rd[p].n, got |-> rd[p].got]]
Queue == INSTANCE LineQueue WITH SIZE <- INPUT_BUF_SIZE, line <- Line, ready <- Ready, call <- Calls

\* consoleintr() and consoleread() together are the line queue, for indices that wrap: a key
\* edits only what is not yet committed, and a read gets at most one line.
IsLineQueue == Queue!Spec

\* The characters a + 1 to b of writer p are in s, each once and in order, among others.
InOrder(s, p, a, b) ==
    /\ a <= b
    /\ \A i \in DOMAIN s : s[i][1] = p => s[i][2] \in a + 1 .. b
    /\ \A k \in a + 1 .. b : \E i \in DOMAIN s : s[i] = <<p, k>>
    /\ \A i, j \in DOMAIN s : i < j /\ s[i][1] = p /\ s[j][1] = p => s[i][2] < s[j][2]

\* The characters on their way: in the FIFO, in the hands of uartstart(), in uart_tx_buf; and
\* how many of a writer's uart_tx_buf has been given.
InHand == IF tx.at = "thr" THEN <<tx.c>> ELSE << >>
Stored == [i \in 1 .. uart.w - uart.r |-> uart.buf[(uart.r + i - 1) % UART_TX_BUF_SIZE]]
Held   == dev.out \o (InHand \o Stored)
Accepted(p) == wr[p].next - (IF wr[p].at = "start" THEN 0 ELSE 1)

\* What writers wrote and the wire has not carried is in the FIFO, in the hands of uartstart()
\* or in uart_tx_buf, each character once and each writer's in order.  Echo, which does not take
\* uart_tx_lock, never finds the FIFO full either.
OutputExact ==
    /\ \A p \in Writers : InOrder(Held, p, sent[p], Accepted(p))
    /\ (tx.at = "thr" \/ h.at = "thr") => Len(dev.out) < FIFO_SIZE

\* A write() of the console ends, the handler returns from its interrupt, and no reader sleeps
\* for ever while there is committed input.
CallsReturn ==
    /\ \A p \in Writers : []<>(wr[p].at = "user")
    /\ []<>(h.at = "user")
    /\ \A p \in Readers : []<>(rd[p].at # "sleep" \/ cons.r = cons.w)
=============================================================================
