------------------------------ MODULE LineQueue ------------------------------
(***************************************************************************)
(* What the console promises to the processes that read it: a line that    *)
(* can be edited until it is complete, and a queue of complete input, of   *)
(* which a read() gets at most one line.                                   *)
(***************************************************************************)
EXTENDS Integers, Sequences

CONSTANTS
    Readers,
    Chars,          \* what can be typed
    NL, CR, EOF,    \* newline, carriage return, control-D
    KILL, BS,       \* control-U; backspace and delete
    SIZE            \* characters the console holds

VARIABLES
    line,       \* typed, can still be erased
    ready,      \* complete, waits for a reader
    call        \* a reader's call in progress: its size and what it has got

vars == <<line, ready, call>>

NoCall == [open |-> FALSE, n |-> 0, got |-> << >>]
Init   == line = << >> /\ ready = << >> /\ call = [p \in Readers |-> NoCall]

\* Key c: erase the line, erase a character, or add one if there is room.
Complete(l) == l # << >> /\ (l[Len(l)] \in {NL, EOF} \/ Len(l) + Len(ready) = SIZE)
Added(l) == IF Complete(l) THEN ready' = ready \o l /\ line' = << >>
                           ELSE line' = l /\ UNCHANGED ready
Typed(c) ==
    \/ c = KILL /\ line' = << >> /\ UNCHANGED ready
    \/ c = BS /\ line # << >> /\ line' = SubSeq(line, 1, Len(line) - 1) /\ UNCHANGED ready
    \/ c \notin {KILL, BS} /\ Len(line) + Len(ready) < SIZE /\ Added(Append(line, IF c = CR THEN NL ELSE c))
Type == (\E c \in Chars : Typed(c)) /\ UNCHANGED call

Begin(p) ==
    /\ ~call[p].open
    /\ call' = [call EXCEPT ![p] = [open |-> TRUE, n |-> call'[p].n, got |-> << >>]]
    /\ UNCHANGED <<line, ready>>

\* A character goes to the reader; a newline is the last one of its call.
Take(p) ==
    /\ call[p].open /\ ready # << >> /\ Head(ready) # EOF /\ Len(call[p].got) < call[p].n
    /\ call' = [call EXCEPT ![p] = IF Head(ready) = NL THEN NoCall
                                   ELSE [open |-> TRUE, n |-> call[p].n, got |-> Append(call[p].got, Head(ready))]]
    /\ ready' = Tail(ready) /\ UNCHANGED line

\* The call ends: it is full, at an end of file (which only an empty result uses up), where
\* the caller's buffer ends, or because the caller was killed while it waited.
End(p) ==
    /\ call[p].open /\ call' = [call EXCEPT ![p] = NoCall] /\ UNCHANGED line
    /\ \/ Len(call[p].got) = call[p].n /\ UNCHANGED ready
       \/ ready = << >> /\ UNCHANGED ready
       \/ ready # << >> /\ Head(ready) = EOF /\ call[p].got # << >> /\ UNCHANGED ready
       \/ ready # << >> /\ Head(ready) = EOF /\ call[p].got = << >> /\ ready' = Tail(ready)
       \/ ready # << >> /\ Head(ready) # EOF /\ ready' = Tail(ready)

Next == Type \/ \E p \in Readers : Begin(p) \/ Take(p) \/ End(p)
Spec == Init /\ [][Next]_vars
=============================================================================
