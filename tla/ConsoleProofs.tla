---------------------------- MODULE ConsoleProofs ----------------------------
(***************************************************************************)
(* Proofs about the console, for any readers and writers, any input ring   *)
(* and any width of its indices that the ring's size divides, and any      *)
(* output ring: its input is a queue of edited lines, and its output       *)
(* loses, repeats and reorders no character of a writer.                   *)
(***************************************************************************)
EXTENDS Console, TLAPS

\* What the definition of % says of a quotient and a remainder.
LEMMA Division ==
    ASSUME NEW m \in Nat \ {0}, NEW x \in Int
    PROVE  /\ x % m \in 0 .. m - 1
           /\ \E q \in Int : x = m * q + (x % m)
<1>1. x % m \in 0 .. m - 1
  OBVIOUS
<1>2. x \div m \in Int
  OBVIOUS
<1>3. x = m * (x \div m) + (x % m)
  OBVIOUS
<1>. QED
  BY <1>1, <1>2, <1>3, Zenon

\* A multiple of m below m and above -m is 0.
LEMMA SmallMultiple ==
    ASSUME NEW m \in Nat \ {0}, NEW q \in Int, m * q < m, m * q > -m
    PROVE  q = 0
<1>1. CASE q >= 1
  <2>1. m * q >= m * 1
    BY <1>1
  <2>. QED
    BY <2>1
<1>2. CASE q <= -1
  <2>1. m * q <= m * (-1)
    BY <1>2
  <2>. QED
    BY <2>1
<1>. QED
  BY <1>1, <1>2

\* The remainder is unique.
LEMMA Remainder ==
    ASSUME NEW m \in Nat \ {0}, NEW x \in Int, NEW q \in Int, NEW r \in 0 .. m - 1,
           x = m * q + r
    PROVE  x % m = r
<1>1. PICK s \in Int : x = m * s + (x % m)
  BY Division, Zenon
<1>2. x % m \in 0 .. m - 1
  BY Division, Zenon
<1>3. m * (q - s) = (x % m) - r
  <2>1. m * (q - s) = m * q - m * s
    OBVIOUS
  <2>2. m * q \in Int /\ m * s \in Int
    OBVIOUS
  <2>. QED
    BY <1>1, <1>2, <2>1, <2>2
<1>4. q - s = 0
  <2>1. m * (q - s) < m /\ m * (q - s) > -m
    BY <1>2, <1>3
  <2>. QED
    BY <2>1, SmallMultiple
<1>5. m * (q - s) = 0
  BY <1>4
<1>. QED
  BY <1>2, <1>3, <1>5

\* Characters that are less than a ring apart have different places.
LEMMA PlacesDiffer ==
    ASSUME NEW m \in Nat \ {0}, NEW x \in Int, NEW d \in 1 .. m - 1, NEW y \in Int, y = x + d
    PROVE  x % m # y % m
<1>. SUFFICES ASSUME x % m = y % m PROVE FALSE
  BY Zenon
<1>1. PICK q \in Int : x = m * q + (x % m)
  BY Division, Zenon
<1>2. PICK s \in Int : y = m * s + (y % m)
  BY Division, Zenon
<1>3. m * (s - q) = d
  <2>1. m * (s - q) = m * s - m * q
    OBVIOUS
  <2>2. PICK a \in Int, b \in Int, r \in Int : a = m * q /\ b = m * s /\ r = x % m
    BY Division
  <2>3. x = a + r /\ y = b + r
    BY <1>1, <1>2, <2>2, Zenon
  <2>4. b - a = d
    BY <2>3
  <2>. QED
    BY <2>1, <2>2, <2>4, Zenon
<1>4. s - q = 0
  BY <1>3, SmallMultiple
<1>5. m * (s - q) = 0
  BY <1>4
<1>. QED
  BY <1>3, <1>5

-----------------------------------------------------------------------------
Index == 0 .. WRAP - 1

\* The number of characters from index a up to index b, and the cell of the i-th of them.
Ahead(a, b) == (b - a) % WRAP
Cell(a, i)  == (a + i - 1) % INPUT_BUF_SIZE
Cells       == 0 .. INPUT_BUF_SIZE - 1

LEMMA Sizes == INPUT_BUF_SIZE \in Nat \ {0} /\ WRAP \in Nat \ {0} /\ WRAP > INPUT_BUF_SIZE
BY ConsoleConstants

\* An index that wraps points to the same cell of the ring, whose size divides the modulus.
LEMMA SamePlace ==
    ASSUME NEW x \in Int, NEW y \in Int, y = x - WRAP
    PROVE  y % INPUT_BUF_SIZE = x % INPUT_BUF_SIZE
<1>0. PICK m \in Nat \ {0}, w \in Int : m = INPUT_BUF_SIZE /\ w = WRAP /\ w % m = 0 /\ y = x - w
  BY Sizes, ConsoleConstants
<1>1. PICK q \in Int : x = m * q + (x % m)
  BY Division, Zenon
<1>2. PICK s \in Int : w = m * s
  <2>1. PICK s \in Int : w = m * s + (w % m)
    BY Division, Zenon
  <2>2. m * s \in Int
    OBVIOUS
  <2>. QED
    BY <1>0, <2>1, <2>2
<1>3. x % m \in 0 .. m - 1
  BY Division, Zenon
<1>4. y = m * (q - s) + (x % m)
  <2>1. m * (q - s) = m * q - m * s
    OBVIOUS
  <2>2. PICK a \in Int, b \in Int, r \in Int : a = m * q /\ b = m * s /\ r = x % m
    BY <1>3
  <2>3. x = a + r /\ w = b
    BY <1>1, <1>2, <2>2, Zenon
  <2>4. y = (a - b) + r
    BY <1>0, <2>3
  <2>. QED
    BY <2>1, <2>2, <2>4, Zenon
<1>5. PICK r \in 0 .. m - 1, t \in Int : r = x % m /\ t = q - s
  BY <1>3
<1>6. y = m * t + r
  BY <1>4, <1>5, Zenon
<1>7. y % m = r
  BY <1>6, Remainder, Zenon
<1>. QED
  BY <1>0, <1>5, <1>7, Zenon

\* Unsigned differences, without %.
LEMMA AheadIs ==
    ASSUME NEW a \in Index, NEW b \in Index
    PROVE  /\ Ahead(a, b) = IF b >= a THEN b - a ELSE b - a + WRAP
           /\ Ahead(a, b) \in Nat /\ Ahead(a, b) < WRAP
<1>. USE Sizes DEF Index
<1>1. PICK x \in Int : x = b - a
  OBVIOUS
<1>2. CASE b >= a
  <2>1. x \in 0 .. WRAP - 1 /\ x = WRAP * 0 + x
    BY <1>1, <1>2
  <2>2. x % WRAP = x
    BY <2>1, Remainder
  <2>3. Ahead(a, b) = x
    BY <1>1, <2>2, Zenon DEF Ahead
  <2>. QED
    BY <1>1, <1>2, <2>3
<1>3. CASE ~ b >= a
  <2>1. x + WRAP \in 0 .. WRAP - 1 /\ x = WRAP * (-1) + (x + WRAP)
    BY <1>1, <1>3
  <2>2. x % WRAP = x + WRAP
    BY <2>1, Remainder
  <2>3. Ahead(a, b) = x + WRAP
    BY <1>1, <2>2, Zenon DEF Ahead
  <2>. QED
    BY <1>1, <1>3, <2>3
<1>. QED
  BY <1>2, <1>3, Zenon

\* The index after the next character, and the index k characters back.
LEMMA Forward ==
    ASSUME NEW a \in Index
    PROVE  (a + 1) % WRAP \in Index /\ (a + 1) % WRAP = IF a + 1 < WRAP THEN a + 1 ELSE 0
<1>. USE Sizes DEF Index
<1>1. PICK x \in Int : x = a + 1
  OBVIOUS
<1>2. CASE x < WRAP
  <2>1. x \in 0 .. WRAP - 1 /\ x = WRAP * 0 + x
    BY <1>1, <1>2
  <2>2. x % WRAP = x
    BY <2>1, Remainder
  <2>. QED
    BY <1>1, <1>2, <2>1, <2>2
<1>3. CASE ~ x < WRAP
  <2>1. 0 \in 0 .. WRAP - 1 /\ x = WRAP * 1 + 0
    BY <1>1, <1>3
  <2>2. x % WRAP = 0
    BY <2>1, Remainder
  <2>. QED
    BY <1>1, <1>3, <2>1, <2>2
<1>. QED
  BY <1>2, <1>3, Zenon

LEMMA Backward ==
    ASSUME NEW a \in Index, NEW k \in Nat, k < WRAP
    PROVE  (a - k) % WRAP \in Index /\ (a - k) % WRAP = IF a >= k THEN a - k ELSE a - k + WRAP
<1>1. k \in Index
  BY Sizes DEF Index
<1>2. Ahead(k, a) = (a - k) % WRAP
  BY Zenon DEF Ahead
<1>3. /\ Ahead(k, a) = IF a >= k THEN a - k ELSE a - k + WRAP
      /\ Ahead(k, a) \in Nat /\ Ahead(k, a) < WRAP
  BY <1>1, AheadIs, Zenon
<1>4. Ahead(k, a) \in Index
  BY <1>3, Sizes DEF Index
<1>. QED
  BY <1>2, <1>3, <1>4, Zenon

\* Distances add up as long as they do not go round.
LEMMA AheadSum ==
    ASSUME NEW a \in Index, NEW b \in Index, NEW e \in Index, NEW m \in Nat, NEW n \in Nat,
           m = Ahead(a, b), n = Ahead(b, e), m + n < WRAP
    PROVE  Ahead(a, e) = m + n
<1>1. m = (IF b >= a THEN b - a ELSE b - a + WRAP) /\ n = (IF e >= b THEN e - b ELSE e - b + WRAP)
  BY AheadIs, Zenon
<1>2. PICK x \in Nat : x = Ahead(a, e) /\ x = IF e >= a THEN e - a ELSE e - a + WRAP
  BY AheadIs, Zenon
<1>3. a \in 0 .. WRAP - 1 /\ b \in 0 .. WRAP - 1 /\ e \in 0 .. WRAP - 1 /\ WRAP \in Nat
  BY Sizes, Zenon DEF Index
<1>4. x = m + n
  BY <1>1, <1>2, <1>3
<1>. QED
  BY <1>2, <1>4, Zenon

\* One character further, k characters back, and one character fewer.
LEMMA AheadNext ==
    ASSUME NEW a \in Index, NEW e \in Index, NEW f \in Index, f = (e + 1) % WRAP,
           NEW n \in Nat, n = Ahead(a, e), n < INPUT_BUF_SIZE
    PROVE  Ahead(a, f) = n + 1
<1>1. f = IF e + 1 < WRAP THEN e + 1 ELSE 0
  BY Forward, Zenon
<1>2. n = IF e >= a THEN e - a ELSE e - a + WRAP
  BY AheadIs, Zenon
<1>3. PICK x \in Nat : x = Ahead(a, f) /\ x = IF f >= a THEN f - a ELSE f - a + WRAP
  BY AheadIs, Zenon
<1>4. a \in 0 .. WRAP - 1 /\ e \in 0 .. WRAP - 1 /\ f \in 0 .. WRAP - 1
  BY Zenon DEF Index
<1>5. x = n + 1
  BY <1>1, <1>2, <1>3, <1>4, Sizes
<1>. QED
  BY <1>3, <1>5, Zenon

LEMMA AheadBack ==
    ASSUME NEW a \in Index, NEW e \in Index, NEW n \in Nat, n = Ahead(a, e), NEW k \in Nat, k <= n
    PROVE  (e - k) % WRAP \in Index /\ Ahead(a, (e - k) % WRAP) = n - k
<1>1. n < WRAP /\ n = IF e >= a THEN e - a ELSE e - a + WRAP
  BY AheadIs, Zenon
<1>2. k < WRAP
  BY <1>1, Sizes
<1>3. PICK f \in Index : f = (e - k) % WRAP /\ f = IF e >= k THEN e - k ELSE e - k + WRAP
  BY <1>2, Backward, Zenon
<1>4. PICK x \in Nat : x = Ahead(a, f) /\ x = IF f >= a THEN f - a ELSE f - a + WRAP
  BY AheadIs, Zenon
<1>5. a \in 0 .. WRAP - 1 /\ e \in 0 .. WRAP - 1 /\ f \in 0 .. WRAP - 1 /\ WRAP \in Nat
  BY Sizes, Zenon DEF Index
<1>6. x = n - k
  BY <1>1, <1>2, <1>3, <1>4, <1>5
<1>. QED
  BY <1>3, <1>4, <1>6, Zenon

LEMMA AheadFewer ==
    ASSUME NEW a \in Index, NEW b \in Index, a # b, NEW f \in Index, f = (a + 1) % WRAP
    PROVE  Ahead(a, f) = 1 /\ Ahead(a, b) > 0 /\ Ahead(f, b) = Ahead(a, b) - 1
<1>1. f = IF a + 1 < WRAP THEN a + 1 ELSE 0
  BY Forward, Zenon
<1>2. PICK x \in Nat : x = Ahead(a, b) /\ x = IF b >= a THEN b - a ELSE b - a + WRAP
  BY AheadIs, Zenon
<1>3. PICK y \in Nat : y = Ahead(f, b) /\ y = IF b >= f THEN b - f ELSE b - f + WRAP
  BY AheadIs, Zenon
<1>4. PICK z \in Nat : z = Ahead(a, f) /\ z = IF f >= a THEN f - a ELSE f - a + WRAP
  BY AheadIs, Zenon
<1>5. a \in 0 .. WRAP - 1 /\ b \in 0 .. WRAP - 1 /\ f \in 0 .. WRAP - 1
  BY Zenon DEF Index
<1>6. z = 1 /\ x > 0 /\ y = x - 1
  BY <1>1, <1>2, <1>3, <1>4, <1>5, Sizes
<1>. QED
  BY <1>2, <1>3, <1>4, <1>6, Zenon

LEMMA CellIs == ASSUME NEW a \in Int, NEW i \in Int PROVE Cell(a, i) \in Cells
<1>1. a + i - 1 \in Int
  OBVIOUS
<1>. QED
  BY <1>1, Sizes, Division, Zenon DEF Cell, Cells

\* The cell of a character does not depend on the index it is counted from.
LEMMA CellFrom ==
    ASSUME NEW a \in Index, NEW b \in Index, NEW j \in Int
    PROVE  Cell(b, j) = Cell(a, Ahead(a, b) + j)
<1>1. PICK n \in Nat : n = Ahead(a, b) /\ n = IF b >= a THEN b - a ELSE b - a + WRAP
  BY AheadIs, Zenon
<1>2. PICK x \in Int, y \in Int : x = a + (n + j) - 1 /\ y = b + j - 1
  BY Sizes DEF Index
<1>3. x = y \/ y = x - WRAP
  BY <1>1, <1>2, Sizes DEF Index
<1>4. x % INPUT_BUF_SIZE = y % INPUT_BUF_SIZE
  BY <1>3, SamePlace, Zenon
<1>. QED
  BY <1>1, <1>2, <1>4, Zenon DEF Cell

\* The cell at index e is none of those before it, unless the ring is full.
LEMMA CellsDiffer ==
    ASSUME NEW a \in Index, NEW e \in Index, NEW n \in Nat, n = Ahead(a, e), n < INPUT_BUF_SIZE
    PROVE  /\ e % INPUT_BUF_SIZE = Cell(a, n + 1) /\ e % INPUT_BUF_SIZE \in Cells
           /\ \A i \in 1 .. n : Cell(a, i) # e % INPUT_BUF_SIZE
<1>1. Cell(e, 1) = Cell(a, n + 1)
  <2>1. 1 \in Int
    OBVIOUS
  <2>. QED
    BY <2>1, CellFrom
<1>2. Cell(e, 1) = e % INPUT_BUF_SIZE
  <2>1. e + 1 - 1 = e
    BY Sizes DEF Index
  <2>. QED
    BY <2>1, Zenon DEF Cell
<1>3. Cell(e, 1) \in Cells
  BY CellIs, Sizes DEF Index
<1>4. ASSUME NEW i \in 1 .. n PROVE Cell(a, i) # Cell(a, n + 1)
  <2>1. PICK x \in Int, y \in Int : x = a + i - 1 /\ y = a + (n + 1) - 1
    BY Sizes DEF Index
  <2>2. PICK d \in 1 .. INPUT_BUF_SIZE - 1 : y = x + d
    <3>1. n + 1 - i \in 1 .. INPUT_BUF_SIZE - 1 /\ y = x + (n + 1 - i)
      BY <2>1, Sizes DEF Index
    <3>. QED
      BY <3>1, Zenon
  <2>3. x % INPUT_BUF_SIZE # y % INPUT_BUF_SIZE
    BY <2>2, Sizes, PlacesDiffer, Zenon
  <2>. QED
    BY <2>1, <2>3, Zenon DEF Cell
<1>. QED
  BY <1>1, <1>2, <1>3, <1>4, Zenon

-----------------------------------------------------------------------------
\* Sequences with the same elements are the same.
LEMMA SameSeq ==
    ASSUME NEW S, NEW s \in Seq(S), NEW t \in Seq(S), Len(s) = Len(t),
           \A i \in 1 .. Len(s) : s[i] = t[i]
    PROVE  s = t
OBVIOUS

\* What lies between two indices is a sequence.
IsSpan(s, S, c, a, n) ==
    s \in Seq(S) /\ Len(s) = n /\ \A i \in 1 .. n : s[i] = c.buf[Cell(a, i)]

LEMMA SpanIs ==
    ASSUME NEW S, NEW c, c.buf \in [Cells -> S], NEW a \in Index, NEW b \in Index
    PROVE  IsSpan(Span(c, a, b), S, c, a, Ahead(a, b))
<1>1. Ahead(a, b) \in Nat
  BY AheadIs, Zenon
<1>2. Span(c, a, b) = [i \in 1 .. Ahead(a, b) |-> c.buf[Cell(a, i)]]
  BY Zenon DEF Span, Ahead, Cell
<1>3. \A i \in 1 .. Ahead(a, b) : c.buf[Cell(a, i)] \in S
  <2>1. \A i \in 1 .. Ahead(a, b) : a \in Int /\ i \in Int
    BY Sizes DEF Index
  <2>. QED
    BY <2>1, CellIs, Zenon
<1>4. Span(c, a, b) \in Seq(S) /\ Len(Span(c, a, b)) = Ahead(a, b)
  BY <1>1, <1>2, <1>3
<1>. QED
  BY <1>2, <1>4, Zenon DEF IsSpan

LEMMA NoSpan ==
    ASSUME NEW c, NEW a \in Index
    PROVE  Ahead(a, a) = 0 /\ Span(c, a, a) = << >>
<1>1. Ahead(a, a) = 0
  BY AheadIs DEF Index
<1>2. Span(c, a, a) = [i \in 1 .. 0 |-> c.buf[Cell(a, i)]]
  BY <1>1, Zenon DEF Span, Ahead, Cell
<1>. QED
  BY <1>1, <1>2

\* Two spans that meet are one.
IsJoined(c, a, b, e) ==
    /\ Ahead(a, e) = Ahead(a, b) + Ahead(b, e)
    /\ Span(c, a, e) = Span(c, a, b) \o Span(c, b, e)

LEMMA JoinedSpan ==
    ASSUME NEW S, NEW c, c.buf \in [Cells -> S], NEW a \in Index, NEW b \in Index, NEW e \in Index,
           Ahead(a, b) + Ahead(b, e) < WRAP
    PROVE  IsJoined(c, a, b, e)
<1>1. PICK m \in Nat, n \in Nat : m = Ahead(a, b) /\ n = Ahead(b, e) /\ m + n < WRAP
  BY AheadIs, Zenon
<1>2. Ahead(a, e) = m + n
  BY <1>1, AheadSum
<1>. DEFINE s == Span(c, a, e)
            u == Span(c, a, b)
            v == Span(c, b, e)
<1>3. /\ s \in Seq(S) /\ Len(s) = m + n /\ \A i \in 1 .. m + n : s[i] = c.buf[Cell(a, i)]
      /\ u \in Seq(S) /\ Len(u) = m /\ \A i \in 1 .. m : u[i] = c.buf[Cell(a, i)]
      /\ v \in Seq(S) /\ Len(v) = n /\ \A i \in 1 .. n : v[i] = c.buf[Cell(b, i)]
  <2>1. IsSpan(s, S, c, a, m + n)
    BY <1>2, SpanIs, Zenon
  <2>2. IsSpan(u, S, c, a, m)
    BY <1>1, SpanIs, Zenon
  <2>3. IsSpan(v, S, c, b, n)
    BY <1>1, SpanIs, Zenon
  <2>. QED
    BY <2>1, <2>2, <2>3, Zenon DEF IsSpan
<1>. HIDE DEF s, u, v
<1>4. \A i \in 1 .. n : v[i] = s[m + i]
  <2>. TAKE i \in 1 .. n
  <2>1. i \in Int /\ m + i \in 1 .. m + n
    BY <1>1
  <2>2. Cell(b, i) = Cell(a, m + i)
    BY <1>1, <2>1, CellFrom
  <2>. QED
    BY <1>3, <2>1, <2>2, Zenon
<1>5. \A i \in 1 .. m : u[i] = s[i]
  <2>1. \A i \in 1 .. m : i \in 1 .. m + n
    BY <1>1
  <2>. QED
    BY <1>3, <2>1, Zenon
<1>6. u \o v \in Seq(S) /\ Len(u \o v) = m + n /\ \A i \in 1 .. m + n : (u \o v)[i] = s[i]
  <2>1. u \o v \in Seq(S) /\ Len(u \o v) = m + n
    BY <1>1, <1>3
  <2>2. ASSUME NEW i \in 1 .. m + n, i <= m PROVE (u \o v)[i] = s[i]
    <3>1. i \in 1 .. m /\ (u \o v)[i] = u[i]
      BY <1>1, <1>3, <2>2
    <3>. QED
      BY <1>5, <3>1, Zenon
  <2>3. ASSUME NEW i \in 1 .. m + n, ~ i <= m PROVE (u \o v)[i] = s[i]
    <3>1. PICK j \in 1 .. n : j = i - m /\ m + j = i
      BY <1>1, <2>3
    <3>2. i \in Nat /\ Len(u) < i /\ i <= Len(u) + Len(v) /\ u \in Seq(S) /\ v \in Seq(S)
      BY <1>1, <1>3, <2>3
    <3>3. (u \o v)[i] = v[i - Len(u)]
      BY <3>2
    <3>. QED
      BY <1>3, <1>4, <3>1, <3>3, Zenon
  <2>. QED
    BY <2>1, <2>2, <2>3, Zenon
<1>7. s = u \o v
  BY <1>3, <1>6, SameSeq, Zenon
<1>. QED
  BY <1>1, <1>2, <1>7, Zenon DEF s, u, v, IsJoined

\* Storing a character at index e adds it to what lies before.
IsPut(c, d, k, a, e) ==
    /\ Ahead(a, (e + 1) % WRAP) = Ahead(a, e) + 1
    /\ Span(d, a, (e + 1) % WRAP) = Append(Span(c, a, e), k)

LEMMA PutSpan ==
    ASSUME NEW S, NEW c, NEW d, NEW k \in S, NEW a \in Index, NEW e \in Index,
           c.buf \in [Cells -> S], Ahead(a, e) < INPUT_BUF_SIZE,
           d.buf = [c.buf EXCEPT ![e % INPUT_BUF_SIZE] = k]
    PROVE  IsPut(c, d, k, a, e)
<1>1. PICK f \in Index : f = (e + 1) % WRAP /\ f = IF e + 1 < WRAP THEN e + 1 ELSE 0
  BY Forward, Zenon
<1>2. PICK n \in Nat : n = Ahead(a, e) /\ n < INPUT_BUF_SIZE
  BY AheadIs, Zenon
<1>3. Ahead(a, f) = n + 1
  BY <1>1, <1>2, AheadNext
<1>4. /\ e % INPUT_BUF_SIZE = Cell(a, n + 1) /\ e % INPUT_BUF_SIZE \in Cells
      /\ \A i \in 1 .. n : Cell(a, i) # e % INPUT_BUF_SIZE
  BY <1>2, CellsDiffer
<1>5. d.buf \in [Cells -> S]
  BY <1>4, Zenon
<1>. DEFINE s == Span(c, a, e)
            t == Span(d, a, f)
<1>6. /\ s \in Seq(S) /\ Len(s) = n /\ \A i \in 1 .. n : s[i] = c.buf[Cell(a, i)]
      /\ t \in Seq(S) /\ Len(t) = n + 1 /\ \A i \in 1 .. n + 1 : t[i] = d.buf[Cell(a, i)]
  <2>1. IsSpan(s, S, c, a, n)
    BY <1>2, SpanIs, Zenon
  <2>2. IsSpan(t, S, d, a, Ahead(a, f))
    BY <1>5, SpanIs, Zenon
  <2>. QED
    BY <1>3, <2>1, <2>2, Zenon DEF IsSpan
<1>. HIDE DEF s, t
<1>7. ASSUME NEW i \in 1 .. n PROVE t[i] = s[i]
  <2>1. i \in 1 .. n + 1 /\ a \in Int /\ i \in Int
    BY Sizes DEF Index
  <2>2. Cell(a, i) \in Cells
    BY <2>1, CellIs, Zenon
  <2>3. d.buf[Cell(a, i)] = c.buf[Cell(a, i)]
    BY <1>4, <2>2, Zenon
  <2>. QED
    BY <1>6, <2>1, <2>3, Zenon
<1>8. t[n + 1] = k
  <2>1. n + 1 \in 1 .. n + 1
    BY <1>2
  <2>. QED
    BY <1>4, <1>6, <2>1, Zenon
<1>9. /\ Append(s, k) \in Seq(S) /\ Len(Append(s, k)) = n + 1
      /\ \A i \in 1 .. n + 1 : Append(s, k)[i] = t[i]
  BY <1>2, <1>6, <1>7, <1>8
<1>10. t = Append(s, k)
  BY <1>6, <1>9, SameSeq, Zenon
<1>. QED
  BY <1>1, <1>2, <1>3, <1>10, Zenon DEF s, t, IsPut

\* It changes nothing of what lies further back.
IsKept(c, d, a, b) ==
    Span(d, a, b) = Span(c, a, b)

LEMMA KeptSpan ==
    ASSUME NEW S, NEW c, NEW d, NEW k \in S, NEW a \in Index, NEW b \in Index, NEW e \in Index,
           c.buf \in [Cells -> S], Ahead(a, b) + Ahead(b, e) < INPUT_BUF_SIZE,
           d.buf = [c.buf EXCEPT ![e % INPUT_BUF_SIZE] = k]
    PROVE  IsKept(c, d, a, b)
<1>1. PICK m \in Nat, n \in Nat : m = Ahead(a, b) /\ n = Ahead(b, e) /\ m + n < INPUT_BUF_SIZE
  BY AheadIs, Zenon
<1>2. PICK l \in Nat : l = m + n /\ l < INPUT_BUF_SIZE /\ m + n < WRAP
  BY <1>1, Sizes
<1>x. Ahead(a, e) = l
  BY <1>1, <1>2, AheadSum
<1>3. e % INPUT_BUF_SIZE \in Cells /\ \A i \in 1 .. l : Cell(a, i) # e % INPUT_BUF_SIZE
  BY <1>2, <1>x, CellsDiffer
<1>4. ASSUME NEW i \in 1 .. m PROVE d.buf[Cell(a, i)] = c.buf[Cell(a, i)]
  <2>1. i \in 1 .. l /\ a \in Int /\ i \in Int
    BY <1>1, <1>2, Sizes DEF Index
  <2>2. Cell(a, i) \in Cells
    BY <2>1, CellIs, Zenon
  <2>. QED
    BY <1>3, <2>1, <2>2, Zenon
<1>5. Span(d, a, b) = [i \in 1 .. m |-> d.buf[Cell(a, i)]] /\ Span(c, a, b) = [i \in 1 .. m |-> c.buf[Cell(a, i)]]
  BY <1>1, Zenon DEF Span, Ahead, Cell
<1>. QED
  BY <1>4, <1>5, Zenon DEF IsKept

\* Going back k characters, and forward one.
IsShorter(c, d, k, a, e) ==
    /\ Ahead(a, (e - k) % WRAP) = Ahead(a, e) - k
    /\ Span(d, a, (e - k) % WRAP) = SubSeq(Span(c, a, e), 1, Len(Span(c, a, e)) - k)

LEMMA ShortSpan ==
    ASSUME NEW S, NEW c, NEW d, c.buf \in [Cells -> S], d.buf = c.buf,
           NEW a \in Index, NEW e \in Index, NEW k \in Nat, k <= Ahead(a, e)
    PROVE  IsShorter(c, d, k, a, e)
<1>1. PICK n \in Nat : n = Ahead(a, e) /\ n < WRAP /\ k <= n
  BY AheadIs, Zenon
<1>2. PICK f \in Index : f = (e - k) % WRAP /\ Ahead(a, f) = n - k
  BY <1>1, AheadBack
<1>. DEFINE s == Span(c, a, e)
            t == Span(d, a, f)
<1>5. /\ s \in Seq(S) /\ Len(s) = n /\ \A i \in 1 .. n : s[i] = c.buf[Cell(a, i)]
      /\ t \in Seq(S) /\ Len(t) = n - k /\ \A i \in 1 .. n - k : t[i] = c.buf[Cell(a, i)]
  <2>1. IsSpan(s, S, c, a, n)
    BY <1>1, SpanIs, Zenon
  <2>2. IsSpan(t, S, d, a, Ahead(a, f))
    BY SpanIs, Zenon
  <2>. QED
    BY <1>2, <2>1, <2>2, Zenon DEF IsSpan
<1>. HIDE DEF s, t
<1>6. \A i \in 1 .. n - k : t[i] = s[i]
  <2>1. \A i \in 1 .. n - k : i \in 1 .. n
    BY <1>1
  <2>. QED
    BY <1>5, <2>1, Zenon
<1>7. /\ SubSeq(s, 1, n - k) \in Seq(S) /\ Len(SubSeq(s, 1, n - k)) = n - k
      /\ \A i \in 1 .. n - k : SubSeq(s, 1, n - k)[i] = t[i]
  BY <1>1, <1>5, <1>6
<1>8. t = SubSeq(s, 1, n - k)
  BY <1>5, <1>7, SameSeq, Zenon
<1>. QED
  BY <1>1, <1>2, <1>5, <1>8, Zenon DEF s, t, IsShorter

IsTail(c, d, a, b) ==
    /\ Ahead((a + 1) % WRAP, b) = Ahead(a, b) - 1 /\ Ahead(a, b) > 0
    /\ Span(c, a, b) # << >> /\ Head(Span(c, a, b)) = c.buf[a % INPUT_BUF_SIZE]
    /\ Span(d, (a + 1) % WRAP, b) = Tail(Span(c, a, b))

LEMMA TailSpan ==
    ASSUME NEW S, NEW c, NEW d, c.buf \in [Cells -> S], d.buf = c.buf,
           NEW a \in Index, NEW b \in Index, a # b
    PROVE  IsTail(c, d, a, b)
<1>1. PICK f \in Index : f = (a + 1) % WRAP
  BY Forward, Zenon
<1>2. PICK n \in Nat : n = Ahead(a, b) /\ n > 0
  BY <1>1, AheadIs, AheadFewer
<1>3. Ahead(f, b) = n - 1 /\ Ahead(a, f) = 1
  BY <1>1, <1>2, AheadFewer
<1>. DEFINE s == Span(c, a, b)
            t == Span(d, f, b)
<1>4. /\ s \in Seq(S) /\ Len(s) = n /\ \A i \in 1 .. n : s[i] = c.buf[Cell(a, i)]
      /\ t \in Seq(S) /\ Len(t) = n - 1 /\ \A i \in 1 .. n - 1 : t[i] = c.buf[Cell(f, i)]
  <2>1. IsSpan(s, S, c, a, n)
    BY <1>2, SpanIs, Zenon
  <2>2. IsSpan(t, S, d, f, Ahead(f, b))
    BY SpanIs, Zenon
  <2>. QED
    BY <1>3, <2>1, <2>2, Zenon DEF IsSpan
<1>. HIDE DEF s, t
<1>5. ASSUME NEW i \in 1 .. n - 1 PROVE t[i] = s[i + 1]
  <2>1. i \in Int /\ i + 1 \in 1 .. n /\ 1 + i = i + 1
    BY <1>2
  <2>2. Cell(f, i) = Cell(a, Ahead(a, f) + i)
    BY <2>1, CellFrom
  <2>3. Cell(f, i) = Cell(a, i + 1)
    BY <1>3, <2>1, <2>2
  <2>. QED
    BY <1>4, <2>1, <2>3, Zenon
<1>6. s # << >> /\ Head(s) = s[1] /\ 1 \in 1 .. n
  BY <1>2, <1>4
<1>7. /\ Tail(s) \in Seq(S) /\ Len(Tail(s)) = n - 1
      /\ \A i \in 1 .. n - 1 : Tail(s)[i] = t[i]
  BY <1>2, <1>4, <1>5, <1>6
<1>8. t = Tail(s)
  BY <1>4, <1>7, SameSeq, Zenon
<1>9. Cell(a, 1) = a % INPUT_BUF_SIZE
  <2>1. a + 1 - 1 = a
    BY Sizes DEF Index
  <2>. QED
    BY <2>1, Zenon DEF Cell
<1>. QED
  BY <1>1, <1>2, <1>3, <1>4, <1>6, <1>8, <1>9, Zenon DEF s, t, IsTail

-----------------------------------------------------------------------------
Keys == Chars \cup {NL, None}
Wire == {ECHO} \cup (Writers \X Nat)

ConsType == [buf : [Cells -> Keys], r : Index, w : Index, e : Index]
RdType   == [at : {"user", "turn", "sleep", "woken"}, n : Nat, ok : Nat, got : Seq(Keys), killed : BOOLEAN]
WrType   == [at : {"user", "put", "sleep", "woken", "start"}, next : Nat, last : Nat]
UartType == [buf : [0 .. UART_TX_BUF_SIZE - 1 -> Wire \cup {NoChar}], r : Nat, w : Nat]
TxType   == [by : Writers \cup {None, INTR}, at : {None, "start", "thr"}, c : Wire \cup {NoChar}]
HType    == [at : {"user", "getc", "echo", "thr", "lock", "start"}, echo : Nat]
DevType  == [out : Seq(Wire), in : Seq(Chars), ip : BOOLEAN]

TypeOK ==
    /\ cons \in ConsType /\ rd \in [Readers -> RdType] /\ wr \in [Writers -> WrType]
    /\ uart \in UartType /\ tx \in TxType /\ h \in HType /\ dev \in DevType
    /\ sent \in [Writers -> Nat] /\ events \in Nat

\* The committed input and the line fit into the ring, and the line has no newline.
Lined ==
    /\ Ahead(cons.r, cons.w) + Ahead(cons.w, cons.e) <= INPUT_BUF_SIZE
    /\ \A i \in 1 .. Len(Line) : Line[i] # NL

\* A reader that is not in a call has nothing.
Outside == \A p \in Readers : rd[p].at = "user" => rd[p].n = 0 /\ rd[p].got = << >>

\* uart_tx_lock: who has it is inside uartstart(), and nobody else is.
TxLock ==
    /\ tx.at = None <=> tx.by = None
    /\ \A p \in Writers : wr[p].at = "start" <=> tx.by = p
    /\ h.at = "start" <=> tx.by = INTR

\* Whoever is between reading LSR and writing THR has found the FIFO empty: with the other one
\* doing the same, it holds at most two characters then.
Between(at) == IF at = "thr" THEN 1 ELSE 0
Fifo == Len(dev.out) + Between(tx.at) + Between(h.at) <= 2

\* The output ring has what it has room for, all of it characters that writers gave.
Ring ==
    /\ uart.r <= uart.w /\ uart.w <= uart.r + UART_TX_BUF_SIZE
    /\ \A i \in 1 .. uart.w - uart.r : uart.buf[(uart.r + i - 1) % UART_TX_BUF_SIZE] \in Wire
    /\ tx.at = "thr" => tx.c \in Wire

Echoing == h.at = "thr" => h.echo > 0

\* What OutputExact says of the characters.
Exact == \A p \in Writers : InOrder(Held, p, sent[p], Accepted(p))

IInv == TypeOK /\ Lined /\ Outside /\ TxLock /\ Fifo /\ Ring /\ Echoing /\ Exact

-----------------------------------------------------------------------------
\* s has the characters of p that t has, in the same order: the j-th of t is the f[j]-th of s,
\* and the i-th of s is the g[i]-th of t.
Moved(s, t, p, f, g) ==
    /\ \A j \in DOMAIN t : t[j][1] = p => f[j] \in DOMAIN s /\ s[f[j]] = t[j]
    /\ \A i \in DOMAIN s : s[i][1] = p => g[i] \in DOMAIN t /\ t[g[i]] = s[i]
    /\ \A j, k \in DOMAIN t : j < k /\ t[j][1] = p /\ t[k][1] = p => f[j] < f[k]

LEMMA Reindex ==
    ASSUME NEW s, NEW t, NEW f, NEW g, NEW p, NEW a, NEW b, InOrder(s, p, a, b), Moved(s, t, p, f, g)
    PROVE  InOrder(t, p, a, b)
<1>. USE DEF Moved
<1>0. \A i, j \in DOMAIN s : i < j /\ s[i][1] = p /\ s[j][1] = p => s[i][2] < s[j][2]
  BY Zenon DEF InOrder
<1>1. a <= b /\ \A j \in DOMAIN t : t[j][1] = p => t[j][2] \in a + 1 .. b
  BY Zenon DEF InOrder
<1>2. ASSUME NEW k \in a + 1 .. b PROVE \E j \in DOMAIN t : t[j] = <<p, k>>
  <2>1. PICK i \in DOMAIN s : s[i] = <<p, k>>
    BY Zenon DEF InOrder
  <2>2. s[i][1] = p
    BY <2>1
  <2>. QED
    BY <2>1, <2>2, Zenon
<1>3. ASSUME NEW j \in DOMAIN t, NEW k \in DOMAIN t, j < k, t[j][1] = p, t[k][1] = p
      PROVE  t[j][2] < t[k][2]
  <2>1. PICK x \in DOMAIN s, y \in DOMAIN s : x = f[j] /\ y = f[k] /\ s[x] = t[j] /\ s[y] = t[k]
    BY <1>3, Zenon
  <2>2. x < y
    BY <1>3, <2>1, Zenon
  <2>3. s[x][2] < s[y][2]
    BY <1>0, <1>3, <2>1, <2>2, Zenon
  <2>. QED
    BY <2>1, <2>3, Zenon
<1>. QED
  BY <1>1, <1>2, <1>3, Zenon DEF InOrder

\* The character after the last one is added at the end.
LEMMA OrderNext ==
    ASSUME NEW s \in Seq(Wire), NEW p \in Writers, NEW a \in Nat, NEW b \in Nat, NEW k \in Nat,
           InOrder(s, p, a, b), k = b + 1
    PROVE  InOrder(Append(s, <<p, k>>), p, a, k)
<1>. DEFINE c == <<p, k>>
            t == Append(s, c)
<1>1. PICK n \in Nat : n = Len(s)
  OBVIOUS
<1>2. c \in Wire /\ c[1] = p /\ c[2] = k
  BY DEF Wire
<1>3. DOMAIN s = 1 .. n /\ DOMAIN t = 1 .. n + 1 /\ t[n + 1] = c /\ \A i \in 1 .. n : t[i] = s[i]
  BY <1>1, <1>2
<1>. HIDE DEF c, t
<1>4. \A i \in 1 .. n + 1 : i \in 1 .. n \/ i = n + 1
  BY <1>1
<1>5. a <= b /\ \A i \in 1 .. n : s[i][1] = p => s[i][2] \in a + 1 .. b
  BY <1>3, Zenon DEF InOrder
<1>6. a <= k /\ k \in a + 1 .. k /\ \A x \in a + 1 .. b : x \in a + 1 .. k /\ x < k
  BY <1>5
<1>7. \A i \in 1 .. n + 1 : t[i][1] = p => t[i][2] \in a + 1 .. k
  BY <1>2, <1>3, <1>4, <1>5, <1>6, Zenon
<1>8. ASSUME NEW x \in a + 1 .. k PROVE \E i \in 1 .. n + 1 : t[i] = <<p, x>>
  <2>1. CASE x = k
    <3>1. n + 1 \in 1 .. n + 1
      BY <1>1
    <3>. QED
      BY <1>3, <2>1, <3>1, Zenon DEF c
  <2>2. CASE x # k
    <3>1. x \in a + 1 .. b
      BY <2>2
    <3>2. PICK i \in 1 .. n : s[i] = <<p, x>>
      BY <1>3, <3>1, Zenon DEF InOrder
    <3>3. i \in 1 .. n + 1
      BY <1>1
    <3>. QED
      BY <1>3, <3>2, <3>3, Zenon
  <2>. QED
    BY <2>1, <2>2, Zenon
<1>9. ASSUME NEW i \in 1 .. n + 1, NEW j \in 1 .. n + 1, i < j, t[i][1] = p, t[j][1] = p
      PROVE  t[i][2] < t[j][2]
  <2>1. i \in 1 .. n
    BY <1>1, <1>9
  <2>2. CASE j \in 1 .. n
    BY <1>3, <1>9, <2>1, <2>2, Zenon DEF InOrder
  <2>3. CASE j = n + 1
    BY <1>2, <1>3, <1>5, <1>6, <1>9, <2>1, <2>3, Zenon
  <2>. QED
    BY <1>4, <2>2, <2>3, Zenon
<1>10. InOrder(t, p, a, k)
  BY <1>3, <1>6, <1>7, <1>8, <1>9, Zenon DEF InOrder
<1>. QED
  BY <1>10, Zenon DEF c, t

\* Somebody else's character at the end changes nothing.
LEMMA OrderOther ==
    ASSUME NEW s \in Seq(Wire), NEW c \in Wire, NEW p, c[1] # p, NEW a, NEW b, InOrder(s, p, a, b)
    PROVE  InOrder(Append(s, c), p, a, b)
<1>. DEFINE t == Append(s, c)
            f == [i \in 1 .. Len(s) + 1 |-> i]
<1>1. PICK n \in Nat : n = Len(s)
  OBVIOUS
<1>2. DOMAIN s = 1 .. n /\ DOMAIN t = 1 .. n + 1 /\ t[n + 1] = c /\ \A i \in 1 .. n : t[i] = s[i]
  BY <1>1
<1>3. \A i \in 1 .. n + 1 : f[i] = i
  BY <1>1, Zenon
<1>4. \A i \in 1 .. n : i \in 1 .. n + 1
  BY <1>1
<1>5. \A i \in 1 .. n + 1 : i \in 1 .. n \/ i = n + 1
  BY <1>1
<1>. HIDE DEF t, f
<1>6. \A j \in DOMAIN t : t[j][1] = p => f[j] \in DOMAIN s /\ s[f[j]] = t[j]
  BY <1>2, <1>3, <1>5, Zenon
<1>7. \A i \in DOMAIN s : s[i][1] = p => f[i] \in DOMAIN t /\ t[f[i]] = s[i]
  BY <1>2, <1>3, <1>4, Zenon
<1>8. \A j, k \in DOMAIN t : j < k /\ t[j][1] = p /\ t[k][1] = p => f[j] < f[k]
  BY <1>2, <1>3, Zenon
<1>9. InOrder(t, p, a, b)
  <2>1. Moved(s, t, p, f, f)
    BY <1>6, <1>7, <1>8, Zenon DEF Moved
  <2>. QED
    BY <2>1, Reindex, Zenon
<1>. QED
  BY <1>9, Zenon DEF t

\* Nor does one in the middle.
LEMMA OrderInserted ==
    ASSUME NEW u \in Seq(Wire), NEW v \in Seq(Wire), NEW c \in Wire, NEW p, c[1] # p, NEW a, NEW b,
           InOrder(u \o v, p, a, b)
    PROVE  InOrder(Append(u, c) \o v, p, a, b)
<1>. DEFINE s == u \o v
            t == Append(u, c) \o v
<1>1. PICK m \in Nat, n \in Nat : m = Len(u) /\ n = Len(v)
  OBVIOUS
<1>. DEFINE f == [j \in 1 .. m + n + 1 |-> IF j <= m THEN j ELSE j - 1]
            g == [i \in 1 .. m + n |-> IF i <= m THEN i ELSE i + 1]
<1>2. DOMAIN s = 1 .. m + n /\ DOMAIN t = 1 .. m + n + 1
  BY <1>1
<1>3. t[m + 1] = c
  BY <1>1
<1>4. ASSUME NEW j \in 1 .. m + n + 1, j # m + 1
      PROVE  f[j] \in 1 .. m + n /\ s[f[j]] = t[j]
  <2>1. CASE j <= m
    BY <1>1, <2>1
  <2>2. CASE j > m + 1
    BY <1>1, <2>2
  <2>. QED
    BY <1>1, <1>4, <2>1, <2>2
<1>5. ASSUME NEW i \in 1 .. m + n
      PROVE  g[i] \in 1 .. m + n + 1 /\ g[i] # m + 1 /\ f[g[i]] = i
  BY <1>1
<1>6. ASSUME NEW j \in 1 .. m + n + 1, NEW k \in 1 .. m + n + 1, j < k, j # m + 1, k # m + 1
      PROVE  f[j] < f[k]
  BY <1>1, <1>6
<1>. HIDE DEF s, t, f, g
<1>7. \A j \in DOMAIN t : t[j][1] = p => f[j] \in DOMAIN s /\ s[f[j]] = t[j]
  BY <1>2, <1>3, <1>4, Zenon
<1>8. \A i \in DOMAIN s : s[i][1] = p => g[i] \in DOMAIN t /\ t[g[i]] = s[i]
  BY <1>2, <1>4, <1>5, Zenon
<1>9. \A j, k \in DOMAIN t : j < k /\ t[j][1] = p /\ t[k][1] = p => f[j] < f[k]
  BY <1>2, <1>3, <1>6, Zenon
<1>10. InOrder(s, p, a, b)
  BY Zenon DEF s
<1>11. InOrder(t, p, a, b)
  <2>1. Moved(s, t, p, f, g)
    BY <1>7, <1>8, <1>9, Zenon DEF Moved
  <2>. QED
    BY <1>10, <2>1, Reindex, Zenon
<1>. QED
  BY <1>11, Zenon DEF t

\* The first character goes: somebody else's, or the writer's next one.
IsNext(s, p, a, b) ==
    /\ Head(s)[1] # p => InOrder(Tail(s), p, a, b)
    /\ Head(s)[1] = p => Head(s)[2] = a + 1 /\ InOrder(Tail(s), p, a + 1, b)

LEMMA OrderTail ==
    ASSUME NEW s \in Seq(Wire), s # << >>, NEW p, NEW a \in Nat, NEW b \in Nat, InOrder(s, p, a, b)
    PROVE  IsNext(s, p, a, b)
<1>. DEFINE t == Tail(s)
            f == [j \in 1 .. Len(s) |-> j + 1]
            g == [i \in 1 .. Len(s) |-> i - 1]
<1>1. PICK n \in Nat : n = Len(s) /\ n > 0
  OBVIOUS
<1>2. /\ DOMAIN s = 1 .. n /\ DOMAIN t = 1 .. n - 1 /\ Head(s) = s[1] /\ 1 \in 1 .. n
      /\ \A i \in 1 .. n - 1 : i + 1 \in 1 .. n /\ t[i] = s[i + 1] /\ f[i] = i + 1 /\ 1 < i + 1
  BY <1>1
<1>3. \A i \in 1 .. n : i # 1 => i - 1 \in 1 .. n - 1 /\ t[i - 1] = s[i] /\ g[i] = i - 1 /\ 1 < i
  BY <1>1
<1>4. \A j, k \in 1 .. n - 1 : j < k => j + 1 < k + 1
  BY <1>1
<1>. HIDE DEF t, f, g
<1>5. ASSUME s[1][1] # p PROVE InOrder(t, p, a, b)
  <2>1. \A j \in DOMAIN t : t[j][1] = p => f[j] \in DOMAIN s /\ s[f[j]] = t[j]
    BY <1>2, Zenon
  <2>2. \A i \in DOMAIN s : s[i][1] = p => g[i] \in DOMAIN t /\ t[g[i]] = s[i]
    BY <1>2, <1>3, <1>5, Zenon
  <2>3. ASSUME NEW j \in DOMAIN t, NEW k \in DOMAIN t, j < k PROVE f[j] < f[k]
    <3>1. j + 1 < k + 1 /\ f[j] = j + 1 /\ f[k] = k + 1
      BY <1>2, <1>4, <2>3, Zenon
    <3>. QED
      BY <3>1, Zenon
  <2>4. Moved(s, t, p, f, g)
    BY <2>1, <2>2, <2>3, Zenon DEF Moved
  <2>. QED
    BY <2>4, Reindex, Zenon
<1>6. ASSUME s[1][1] = p PROVE s[1][2] = a + 1 /\ InOrder(t, p, a + 1, b)
  <2>1. s[1][2] \in a + 1 .. b
    BY <1>2, <1>6, Zenon DEF InOrder
  <2>2. PICK i \in 1 .. n : s[i] = <<p, a + 1>>
    <3>1. a + 1 \in a + 1 .. b
      BY <2>1
    <3>. QED
      BY <1>2, <3>1, Zenon DEF InOrder
  <2>3. s[i][1] = p /\ s[i][2] = a + 1
    BY <2>2
  <2>4. s[1][2] = a + 1
    <3>1. CASE i = 1
      BY <2>3, <3>1, Zenon
    <3>2. CASE i # 1
      <4>1. s[1][2] < s[i][2]
        BY <1>2, <1>3, <1>6, <2>3, <3>2, Zenon DEF InOrder
      <4>. QED
        BY <2>1, <2>3, <4>1
    <3>. QED
      BY <3>1, <3>2, Zenon
  <2>5. ASSUME NEW j \in 1 .. n - 1, t[j][1] = p PROVE t[j][2] \in a + 1 + 1 .. b
    <3>1. s[j + 1][2] \in a + 1 .. b /\ s[1][2] < s[j + 1][2] /\ t[j] = s[j + 1]
      BY <1>2, <1>6, <2>5, Zenon DEF InOrder
    <3>2. s[j + 1][2] \in a + 1 + 1 .. b
      BY <2>4, <3>1
    <3>. QED
      BY <3>1, <3>2, Zenon
  <2>6. ASSUME NEW k \in a + 1 + 1 .. b PROVE \E j \in 1 .. n - 1 : t[j] = <<p, k>>
    <3>1. k \in a + 1 .. b /\ k # a + 1
      OBVIOUS
    <3>2. PICK l \in 1 .. n : s[l] = <<p, k>>
      BY <1>2, <3>1, Zenon DEF InOrder
    <3>3. s[l][2] = k
      BY <3>2
    <3>4. l # 1
      BY <2>4, <3>1, <3>3, Zenon
    <3>. QED
      BY <1>3, <3>2, <3>4, Zenon
  <2>7. ASSUME NEW j \in 1 .. n - 1, NEW k \in 1 .. n - 1, j < k, t[j][1] = p, t[k][1] = p
        PROVE  t[j][2] < t[k][2]
    <3>1. j + 1 < k + 1 /\ t[j] = s[j + 1] /\ t[k] = s[k + 1] /\ j + 1 \in 1 .. n /\ k + 1 \in 1 .. n
      BY <1>2, <1>4, <2>7, Zenon
    <3>2. s[j + 1][1] = p /\ s[k + 1][1] = p
      BY <2>7, <3>1, Zenon
    <3>3. \A x, y \in 1 .. n : x < y /\ s[x][1] = p /\ s[y][1] = p => s[x][2] < s[y][2]
      BY <1>2, Zenon DEF InOrder
    <3>4. s[j + 1][2] < s[k + 1][2]
      BY <3>1, <3>2, <3>3, Zenon
    <3>. QED
      BY <3>1, <3>4, Zenon
  <2>8. a + 1 <= b
    BY <2>1
  <2>. QED
    BY <1>2, <2>4, <2>5, <2>6, <2>7, <2>8, Zenon DEF InOrder
<1>. QED
  BY <1>2, <1>5, <1>6, Zenon DEF t, IsNext

-----------------------------------------------------------------------------
LEMMA ConsIs ==
    ASSUME TypeOK
    PROVE  cons.buf \in [Cells -> Keys] /\ cons.r \in Index /\ cons.w \in Index /\ cons.e \in Index
BY DEF TypeOK, ConsType

\* The lengths of the line and of the committed input, which together go up to index e.
LEMMA Lengths ==
    ASSUME TypeOK, Lined
    PROVE  /\ Line \in Seq(Keys) /\ Len(Line) = Ahead(cons.w, cons.e)
           /\ Ready \in Seq(Keys) /\ Len(Ready) = Ahead(cons.r, cons.w)
           /\ Ahead(cons.w, cons.e) \in Nat /\ Ahead(cons.r, cons.w) \in Nat
           /\ Ahead(cons.r, cons.w) + Ahead(cons.w, cons.e) <= INPUT_BUF_SIZE
           /\ Ahead(cons.r, cons.e) = Ahead(cons.r, cons.w) + Ahead(cons.w, cons.e)
<1>1. cons.buf \in [Cells -> Keys] /\ cons.r \in Index /\ cons.w \in Index /\ cons.e \in Index
  BY ConsIs, Zenon
<1>2. IsSpan(Line, Keys, cons, cons.w, Ahead(cons.w, cons.e))
  BY <1>1, SpanIs, Zenon DEF Line
<1>3. IsSpan(Ready, Keys, cons, cons.r, Ahead(cons.r, cons.w))
  BY <1>1, SpanIs, Zenon DEF Ready
<1>4. PICK m \in Nat, n \in Nat : m = Ahead(cons.r, cons.w) /\ n = Ahead(cons.w, cons.e)
  BY <1>1, AheadIs, Zenon
<1>5. m + n <= INPUT_BUF_SIZE
  BY <1>4, Zenon DEF Lined
<1>6. m + n < WRAP
  BY <1>5, Sizes
<1>7. Ahead(cons.r, cons.e) = m + n
  BY <1>1, <1>4, <1>6, AheadSum
<1>. QED
  BY <1>2, <1>3, <1>4, <1>5, <1>7, Zenon DEF IsSpan

\* A reader takes the first character.
LEMMA Consumed ==
    ASSUME TypeOK, Lined, Consume, cons.r # cons.w
    PROVE  /\ cons' \in ConsType /\ Lined'
           /\ Ready # << >> /\ Head(Ready) = cons.buf[cons.r % INPUT_BUF_SIZE]
           /\ Ready' = Tail(Ready) /\ Line' = Line
<1>1. cons.buf \in [Cells -> Keys] /\ cons.r \in Index /\ cons.w \in Index /\ cons.e \in Index
  BY ConsIs, Zenon
<1>2. PICK f \in Index : f = (cons.r + 1) % WRAP
  BY <1>1, Forward, Zenon
<1>3. cons'.buf = cons.buf /\ cons'.r = f /\ cons'.w = cons.w /\ cons'.e = cons.e
  BY <1>2, Zenon DEF Consume, TypeOK, ConsType
<1>t. cons' \in ConsType
  BY <1>2, Zenon DEF Consume, TypeOK, ConsType
<1>4. /\ Ahead((cons.r + 1) % WRAP, cons.w) = Ahead(cons.r, cons.w) - 1 /\ Ahead(cons.r, cons.w) > 0
      /\ Span(cons, cons.r, cons.w) # << >>
      /\ Head(Span(cons, cons.r, cons.w)) = cons.buf[cons.r % INPUT_BUF_SIZE]
      /\ Span(cons', (cons.r + 1) % WRAP, cons.w) = Tail(Span(cons, cons.r, cons.w))
  <2>1. IsTail(cons, cons', cons.r, cons.w)
    BY <1>1, <1>3, TailSpan, Zenon
  <2>. QED
    BY <2>1, Zenon DEF IsTail
<1>5. Ready # << >> /\ Head(Ready) = cons.buf[cons.r % INPUT_BUF_SIZE] /\ Ready' = Tail(Ready)
  BY <1>2, <1>3, <1>4, Zenon DEF Ready
<1>6. Line' = Line
  BY <1>3, Zenon DEF Line, Span
<1>7. Ahead(cons'.r, cons'.w) + Ahead(cons'.w, cons'.e) <= INPUT_BUF_SIZE
  <2>1. PICK m \in Nat, n \in Nat : m = Ahead(cons.r, cons.w) /\ n = Ahead(cons.w, cons.e) /\ m + n <= INPUT_BUF_SIZE
    BY Lengths, Zenon
  <2>2. (m - 1) + n <= INPUT_BUF_SIZE
    BY <2>1, Sizes
  <2>. QED
    BY <1>2, <1>3, <1>4, <2>1, <2>2, Zenon
<1>8. Lined'
  BY <1>6, <1>7, Zenon DEF Lined, Ahead
<1>. QED
  BY <1>t, <1>5, <1>6, <1>8, Zenon

\* The handler erases k characters of the line.
LEMMA Erases ==
    ASSUME TypeOK, Lined, NEW k \in Nat, k <= Len(Line), cons' = Back(cons, k)
    PROVE  /\ cons' \in ConsType /\ Lined'
           /\ Ready' = Ready /\ Line' = SubSeq(Line, 1, Len(Line) - k)
<1>1. cons.buf \in [Cells -> Keys] /\ cons.r \in Index /\ cons.w \in Index /\ cons.e \in Index
  BY ConsIs, Zenon
<1>2. PICK m \in Nat, n \in Nat : /\ m = Ahead(cons.r, cons.w) /\ n = Ahead(cons.w, cons.e)
                                 /\ m + n <= INPUT_BUF_SIZE /\ Len(Line) = n /\ Line \in Seq(Keys)
  BY Lengths, Zenon
<1>3. k <= n /\ k <= Ahead(cons.w, cons.e)
  BY <1>2, Zenon
<1>4. PICK f \in Index : f = (cons.e - k) % WRAP /\ Ahead(cons.w, f) = n - k
  BY <1>1, <1>2, <1>3, AheadBack
<1>5. cons'.buf = cons.buf /\ cons'.r = cons.r /\ cons'.w = cons.w /\ cons'.e = f
  BY <1>4, Zenon DEF Back, TypeOK, ConsType
<1>t. cons' \in ConsType
  BY <1>4, Zenon DEF Back, TypeOK, ConsType
<1>6. Span(cons', cons.w, (cons.e - k) % WRAP)
        = SubSeq(Span(cons, cons.w, cons.e), 1, Len(Span(cons, cons.w, cons.e)) - k)
  <2>1. IsShorter(cons, cons', k, cons.w, cons.e)
    BY <1>1, <1>3, <1>5, ShortSpan, Zenon
  <2>. QED
    BY <2>1, Zenon DEF IsShorter
<1>7. Line' = SubSeq(Line, 1, Len(Line) - k)
  BY <1>4, <1>5, <1>6, Zenon DEF Line
<1>8. Ready' = Ready
  BY <1>5, Zenon DEF Ready, Span
<1>9. Ahead(cons'.r, cons'.w) + Ahead(cons'.w, cons'.e) <= INPUT_BUF_SIZE
  <2>1. m + (n - k) <= INPUT_BUF_SIZE
    BY <1>2, Sizes
  <2>. QED
    BY <1>2, <1>4, <1>5, <2>1, Zenon
<1>10. ASSUME NEW i \in 1 .. Len(Line') PROVE Line'[i] # NL
  <2>1. PICK l \in Seq(Keys) : l = Line /\ Len(l) = n /\ Line' = SubSeq(l, 1, n - k)
    BY <1>2, <1>7, Zenon
  <2>2. i \in 1 .. n /\ Line'[i] = l[i]
    BY <1>3, <2>1
  <2>. QED
    BY <2>1, <2>2, Zenon DEF Lined
<1>11. Lined'
  BY <1>9, <1>10, Zenon DEF Lined, Ahead
<1>. QED
  BY <1>t, <1>7, <1>8, <1>11, Zenon

\* ^U goes back to the committed input, because the line has no newline.
LEMMA KilledIs == ASSUME TypeOK, Lined PROVE KilledLine(cons) = Len(Line)
<1>1. PICK n \in Nat : n = Len(Line)
  BY Lengths, Zenon
<1>. DEFINE P(k) == /\ \A i \in n - k + 1 .. n : Line[i] # NL
                    /\ k < n => Line[n - k] = NL
<1>2. KilledLine(cons) = CHOOSE k \in 0 .. n : P(k)
  BY <1>1, Zenon DEF KilledLine, KillLine, Line
<1>3. n \in 0 .. n /\ P(n)
  BY <1>1 DEF Lined
<1>4. ASSUME NEW k \in 0 .. n, P(k) PROVE k = n
  <2>. SUFFICES ASSUME k # n PROVE FALSE
    BY Zenon
  <2>1. k < n /\ n - k \in 1 .. n
    BY <1>1
  <2>. QED
    BY <1>1, <1>4, <2>1, Zenon DEF Lined
<1>. HIDE DEF P
<1>. QED
  BY <1>1, <1>2, <1>3, <1>4, Zenon

\* The handler stores a character, and commits the line or not.
LEMMA Stores ==
    ASSUME TypeOK, Lined, NEW k \in Keys, (cons.e - cons.r) % WRAP < INPUT_BUF_SIZE,
           cons' = Committed(Put(cons, k), k)
    PROVE  /\ cons' \in ConsType /\ Lined'
           /\ Len(Line) + Len(Ready) < INPUT_BUF_SIZE
           /\ Commits(Put(cons, k), k) <=> (k \in {NL, EOF} \/ (Len(Line) + 1) + Len(Ready) = INPUT_BUF_SIZE)
           /\ IF Commits(Put(cons, k), k) THEN Ready' = Ready \o Append(Line, k) /\ Line' = << >>
                                          ELSE Line' = Append(Line, k) /\ Ready' = Ready
<1>1. cons.buf \in [Cells -> Keys] /\ cons.r \in Index /\ cons.w \in Index /\ cons.e \in Index
  BY ConsIs, Zenon
<1>2. PICK m \in Nat, n \in Nat : /\ m = Ahead(cons.r, cons.w) /\ n = Ahead(cons.w, cons.e)
                                 /\ Ahead(cons.r, cons.e) = m + n
  BY Lengths, Zenon
<1>s. Len(Line) = n /\ Line \in Seq(Keys) /\ Len(Ready) = m /\ Ready \in Seq(Keys)
  BY <1>2, Lengths, Zenon
<1>3. m + n < INPUT_BUF_SIZE
  BY <1>2, Zenon DEF Ahead
<1>4. n < INPUT_BUF_SIZE
  BY <1>3, Sizes
<1>a. Ahead(cons.w, cons.e) < INPUT_BUF_SIZE
  BY <1>2, <1>4, Zenon
<1>5. PICK f \in Index : f = (cons.e + 1) % WRAP
  BY <1>1, Forward, Zenon
<1>. DEFINE d == Put(cons, k)
<1>6. cons.e % INPUT_BUF_SIZE \in Cells
  BY <1>1, <1>2, <1>4, CellsDiffer
<1>7. /\ d.buf = [cons.buf EXCEPT ![cons.e % INPUT_BUF_SIZE] = k]
      /\ d.r = cons.r /\ d.w = cons.w /\ d.e = f
  BY <1>5, Zenon DEF Put, TypeOK, ConsType
<1>t. d \in ConsType
  BY <1>5, <1>6, Zenon DEF Put, TypeOK, ConsType
<1>. HIDE DEF d
<1>8. Ahead(cons.w, f) = n + 1 /\ Span(d, cons.w, f) = Append(Line, k)
  <2>1. IsPut(cons, d, k, cons.w, cons.e)
    BY <1>1, <1>a, <1>7, PutSpan, Zenon
  <2>. QED
    BY <1>2, <1>5, <2>1, Zenon DEF IsPut, Line
<1>9. Span(d, cons.r, cons.w) = Ready
  <2>1. Ahead(cons.r, cons.w) + Ahead(cons.w, cons.e) < INPUT_BUF_SIZE
    BY <1>2, <1>3, Zenon
  <2>2. IsKept(cons, d, cons.r, cons.w)
    BY <1>1, <1>7, <2>1, KeptSpan, Zenon
  <2>. QED
    BY <2>2, Zenon DEF IsKept, Ready
<1>10. d.buf \in [Cells -> Keys]
  BY <1>t, Zenon DEF ConsType
<1>11. Ahead(cons.r, f) = m + (n + 1) /\ Span(d, cons.r, f) = Ready \o Append(Line, k)
  <2>1. m + (n + 1) < WRAP /\ Ahead(cons.r, cons.w) + Ahead(cons.w, f) < WRAP
    BY <1>2, <1>3, <1>8, Sizes
  <2>2. IsJoined(d, cons.r, cons.w, f)
    BY <1>1, <1>10, <2>1, JoinedSpan, Zenon
  <2>. QED
    BY <1>2, <1>8, <1>9, <2>2, Zenon DEF IsJoined
<1>12. Commits(d, k) <=> k \in {NL, EOF} \/ m + (n + 1) = INPUT_BUF_SIZE
  BY <1>7, <1>11, Zenon DEF Commits, Ahead
<1>13. (Len(Line) + 1) + Len(Ready) = m + (n + 1) /\ Len(Line) + Len(Ready) < INPUT_BUF_SIZE
  BY <1>s, <1>3
<1>14. CASE Commits(d, k)
  <2>0. cons' = [d EXCEPT !.w = d.e]
    BY <1>14, Zenon DEF Committed, d
  <2>1. cons'.buf = d.buf /\ cons'.r = cons.r /\ cons'.w = f /\ cons'.e = f
    BY <1>7, <1>t, <2>0, Zenon DEF ConsType
  <2>t. cons' \in ConsType
    BY <1>7, <1>t, <2>0, Zenon DEF ConsType
  <2>2. Line' = << >> /\ Ahead(f, f) = 0
    BY <2>1, NoSpan, Zenon DEF Line
  <2>3. Ready' = Ready \o Append(Line, k)
    <3>1. Span(cons', cons.r, f) = Span(d, cons.r, f)
      BY <2>1, Zenon DEF Span
    <3>. QED
      BY <1>11, <2>1, <3>1, Zenon DEF Ready
  <2>4. Ahead(cons'.r, cons'.w) + Ahead(cons'.w, cons'.e) <= INPUT_BUF_SIZE
    <3>1. m + (n + 1) + 0 <= INPUT_BUF_SIZE
      BY <1>3, Sizes
    <3>. QED
      BY <1>11, <2>1, <2>2, <3>1, Zenon
  <2>5. \A i \in 1 .. Len(Line') : Line'[i] # NL
    BY <2>2
  <2>6. Lined'
    BY <2>4, <2>5, Zenon DEF Lined, Ahead
  <2>. QED
    BY <1>12, <1>13, <1>14, <2>t, <2>2, <2>3, <2>6, Zenon DEF d
<1>15. CASE ~ Commits(d, k)
  <2>0. cons' = d
    BY <1>15, Zenon DEF Committed, d
  <2>1. cons'.buf = d.buf /\ cons'.r = cons.r /\ cons'.w = cons.w /\ cons'.e = f
    BY <1>7, <2>0, Zenon
  <2>2. Line' = Append(Line, k)
    BY <1>7, <1>8, <2>0, Zenon DEF Line
  <2>3. Ready' = Ready
    BY <1>7, <1>9, <2>0, Zenon DEF Ready
  <2>4. Ahead(cons'.r, cons'.w) + Ahead(cons'.w, cons'.e) <= INPUT_BUF_SIZE
    <3>1. m + (n + 1) <= INPUT_BUF_SIZE
      BY <1>3, Sizes
    <3>. QED
      BY <1>2, <1>8, <2>1, <3>1, Zenon
  <2>5. k # NL
    BY <1>12, <1>15, Zenon
  <2>6. ASSUME NEW i \in 1 .. Len(Line') PROVE Line'[i] # NL
    <3>1. CASE i \in 1 .. n
      <4>1. Line'[i] = Line[i]
        BY <1>s, <2>2, <3>1
      <4>. QED
        BY <1>s, <3>1, <4>1, Zenon DEF Lined
    <3>2. CASE i = n + 1
      <4>1. Line'[i] = k
        BY <1>s, <2>2, <3>2
      <4>. QED
        BY <2>5, <4>1, Zenon
    <3>3. i \in 1 .. n \/ i = n + 1
      BY <1>s, <2>2
    <3>. QED
      BY <3>1, <3>2, <3>3, Zenon
  <2>7. Lined'
    BY <2>4, <2>6, Zenon DEF Lined, Ahead
  <2>. QED
    BY <1>12, <1>13, <1>15, <1>t, <2>0, <2>2, <2>3, <2>7, Zenon DEF d
<1>. QED
  BY <1>14, <1>15, Zenon

-----------------------------------------------------------------------------
\* What the line queue sees of a reader.
View(r) == [open |-> r.at # "user", n |-> r.n, got |-> r.got]

\* One reader moves.
LEMMA ReaderMoves ==
    ASSUME rd \in [Readers -> RdType], Outside, NEW p \in Readers, NEW r \in RdType,
           r.at = "user" => r.n = 0 /\ r.got = << >>, rd' = [rd EXCEPT ![p] = r]
    PROVE  /\ rd' \in [Readers -> RdType] /\ Outside'
           /\ Calls' = [Calls EXCEPT ![p] = View(r)]
<1>1. rd' \in [Readers -> RdType] /\ rd'[p] = r /\ \A q \in Readers : q # p => rd'[q] = rd[q]
  BY Zenon
<1>2. Outside'
  BY <1>1, Zenon DEF Outside
<1>3. Calls' = [q \in Readers |-> View(rd'[q])] /\ Calls = [q \in Readers |-> View(rd[q])]
  BY Zenon DEF Calls, View
<1>4. [Calls EXCEPT ![p] = View(r)] = [q \in Readers |-> IF q = p THEN View(r) ELSE View(rd[q])]
  BY <1>3, Zenon
<1>5. \A q \in Readers : View(rd'[q]) = IF q = p THEN View(r) ELSE View(rd[q])
  BY <1>1, Zenon
<1>6. Calls' = [Calls EXCEPT ![p] = View(r)]
  BY <1>3, <1>4, <1>5, Zenon
<1>. QED
  BY <1>1, <1>2, <1>6, Zenon

\* A reader moves and the line queue does not notice.
LEMMA ReaderStill ==
    ASSUME rd \in [Readers -> RdType], Outside, NEW p \in Readers, NEW r \in RdType,
           r.n = rd[p].n, r.got = rd[p].got, r.at = "user" <=> rd[p].at = "user",
           rd' = [rd EXCEPT ![p] = r]
    PROVE  rd' \in [Readers -> RdType] /\ Outside' /\ Calls' = Calls
<1>1. r.at = "user" => r.n = 0 /\ r.got = << >>
  BY Zenon DEF Outside
<1>2. /\ rd' \in [Readers -> RdType] /\ Outside'
      /\ Calls' = [Calls EXCEPT ![p] = View(r)]
  BY <1>1, ReaderMoves, Zenon
<1>3. View(r) = View(rd[p])
  <2>1. (r.at # "user") = (rd[p].at # "user")
    OBVIOUS
  <2>. QED
    BY <2>1, Zenon DEF View
<1>4. Calls[p] = View(rd[p]) /\ Calls = [q \in Readers |-> Calls[q]]
  BY Zenon DEF Calls, View
<1>5. [Calls EXCEPT ![p] = View(r)] = Calls
  BY <1>3, <1>4, Zenon
<1>. QED
  BY <1>2, <1>5, Zenon

LEMMA ReadCallIn ==
    ASSUME TypeOK, Outside, NEW p \in Readers, read_call(p)
    PROVE  rd' \in [Readers -> RdType] /\ Outside' /\ Queue!Begin(p)
<1>1. PICK b \in Reads : rd' = [rd EXCEPT ![p] = [rd[p] EXCEPT !.at = "turn", !.n = b.n, !.ok = b.ok]]
  BY Zenon DEF read_call
<1>. DEFINE r == [rd[p] EXCEPT !.at = "turn", !.n = b.n, !.ok = b.ok]
<1>2. b.n \in Nat /\ b.ok \in Nat
  BY ConsoleConstants
<1>3. rd \in [Readers -> RdType] /\ rd[p] \in RdType /\ rd[p].at = "user"
  BY Zenon DEF TypeOK, read_call
<1>4. r \in RdType /\ r.at = "turn" /\ r.n = b.n /\ r.got = rd[p].got
  BY <1>2, <1>3, Zenon DEF RdType
<1>5. rd[p].got = << >> /\ rd[p].n = 0
  BY <1>3, Zenon DEF Outside
<1>6. rd' = [rd EXCEPT ![p] = r]
  BY <1>1, Zenon
<1>. HIDE DEF r
<1>7. r.at # "user"
  BY <1>4
<1>8. rd' \in [Readers -> RdType] /\ Outside' /\ Calls' = [Calls EXCEPT ![p] = View(r)]
  BY <1>3, <1>4, <1>6, <1>7, ReaderMoves, Zenon
<1>9. View(r) = [open |-> TRUE, n |-> b.n, got |-> << >>]
  <2>1. (r.at # "user") = TRUE
    BY <1>7
  <2>. QED
    BY <1>4, <1>5, <2>1, Zenon DEF View
<1>10. Calls'[p] = View(r) /\ Calls'[p].n = b.n
  <2>1. Calls'[p] = View(r)
    BY <1>8, Zenon DEF Calls
  <2>. QED
    BY <1>9, <2>1
<1>11. ~ Calls[p].open
  BY <1>3, Zenon DEF Calls
<1>12. UNCHANGED <<Line, Ready>>
  BY Zenon DEF read_call, Line, Ready
<1>. QED
  BY <1>8, <1>9, <1>10, <1>11, <1>12, Zenon DEF Queue!Begin

LEMMA WakeReaderIn ==
    ASSUME TypeOK, Outside, NEW p \in Readers, wake_reader(p)
    PROVE  rd' \in [Readers -> RdType] /\ Outside' /\ Calls' = Calls
<1>. DEFINE r == [rd[p] EXCEPT !.at = "turn"]
<1>1. rd' = [rd EXCEPT ![p] = r]
  BY Zenon DEF wake_reader
<1>2. rd \in [Readers -> RdType] /\ rd[p] \in RdType /\ rd[p].at = "woken"
  BY Zenon DEF TypeOK, wake_reader
<1>3. r \in RdType /\ r.at = "turn" /\ r.n = rd[p].n /\ r.got = rd[p].got
  BY <1>2 DEF RdType
<1>. HIDE DEF r
<1>4. r.at = "user" <=> rd[p].at = "user"
  BY <1>2, <1>3
<1>. QED
  BY <1>1, <1>2, <1>3, <1>4, ReaderStill, Zenon

LEMMA KillIn ==
    ASSUME TypeOK, Outside, NEW p \in Readers, kill(p)
    PROVE  rd' \in [Readers -> RdType] /\ Outside' /\ Calls' = Calls
<1>. DEFINE r == [rd[p] EXCEPT !.killed = TRUE, !.at = IF rd[p].at = "sleep" THEN "woken" ELSE rd[p].at]
<1>1. rd \in [Readers -> RdType] /\ rd[p] \in RdType
  BY Zenon DEF TypeOK
<1>2. rd' = [rd EXCEPT ![p] = r]
  BY <1>1, Zenon DEF kill, RdType
<1>3. /\ r \in RdType /\ r.at = (IF rd[p].at = "sleep" THEN "woken" ELSE rd[p].at)
      /\ r.n = rd[p].n /\ r.got = rd[p].got
  BY <1>1, Zenon DEF RdType
<1>. HIDE DEF r
<1>4. r.at = "user" <=> rd[p].at = "user"
  BY <1>3
<1>. QED
  BY <1>1, <1>2, <1>3, <1>4, ReaderStill, Zenon

QueueStep == Queue!Next \/ UNCHANGED <<Line, Ready, Calls>>

LEMMA Returns ==
    ASSUME TypeOK, Outside, NEW p \in Readers, Return(p)
    PROVE  rd' \in [Readers -> RdType] /\ Outside' /\ Calls' = [Calls EXCEPT ![p] = Queue!NoCall]
<1>1. rd \in [Readers -> RdType] /\ rd[p] \in RdType
  BY Zenon DEF TypeOK
<1>2. rd[p].killed \in BOOLEAN
  BY <1>1, Zenon DEF RdType
<1>3. << >> \in Seq(Keys)
  OBVIOUS
<1>4. InUser(p) \in RdType /\ InUser(p).at = "user" /\ InUser(p).n = 0 /\ InUser(p).got = << >>
  BY <1>2, <1>3 DEF InUser, RdType
<1>5. rd' = [rd EXCEPT ![p] = InUser(p)]
  BY Zenon DEF Return
<1>6. /\ rd' \in [Readers -> RdType] /\ Outside'
      /\ Calls' = [Calls EXCEPT ![p] = View(InUser(p))]
  BY <1>1, <1>4, <1>5, ReaderMoves, Zenon
<1>7. View(InUser(p)) = Queue!NoCall
  <2>1. (InUser(p).at # "user") = FALSE
    BY <1>4
  <2>. QED
    BY <1>4, <2>1, Zenon DEF View, Queue!NoCall
<1>. QED
  BY <1>6, <1>7, Zenon

\* What consoleread() finds at index r.
LEMMA Front ==
    ASSUME TypeOK, Lined
    PROVE  /\ cons.r = cons.w => Ready = << >>
           /\ cons.r # cons.w => Ready # << >> /\ Head(Ready) = cons.buf[cons.r % INPUT_BUF_SIZE]
<1>1. cons.buf \in [Cells -> Keys] /\ cons.r \in Index /\ cons.w \in Index /\ cons.e \in Index
  BY ConsIs, Zenon
<1>2. CASE cons.r = cons.w
  BY <1>1, <1>2, NoSpan, Zenon DEF Ready
<1>3. CASE cons.r # cons.w
  <2>1. IsTail(cons, cons, cons.r, cons.w)
    BY <1>1, <1>3, TailSpan, Zenon
  <2>. QED
    BY <1>3, <2>1, Zenon DEF IsTail, Ready
<1>. QED
  BY <1>2, <1>3, Zenon

\* The record of a call in progress.
IsCall(c, n, g) == c.open /\ c.n = n /\ c.got = g

LEMMA CallRecord ==
    ASSUME NEW c, NEW n, NEW g, c = [open |-> TRUE, n |-> n, got |-> g]
    PROVE  IsCall(c, n, g)
BY Zenon DEF IsCall

\* One turn of consoleread() takes a character from the line queue, ends the call, or leaves
\* the line queue alone.
LEMMA ConsolereadIn ==
    ASSUME TypeOK, Lined, Outside, NEW p \in Readers, consoleread(p)
    PROVE  cons' \in ConsType /\ Lined' /\ rd' \in [Readers -> RdType] /\ Outside' /\ QueueStep
<1>1. rd \in [Readers -> RdType] /\ rd[p] \in RdType /\ cons \in ConsType
  BY Zenon DEF TypeOK
<1>2. rd[p].at = "turn"
  BY Zenon DEF consoleread
<1>3. Calls[p].open /\ Calls[p].n = rd[p].n /\ Calls[p].got = rd[p].got
  <2>1. Calls[p] = [open |-> TRUE, n |-> rd[p].n, got |-> rd[p].got]
    BY <1>2, Zenon DEF Calls
  <2>2. IsCall(Calls[p], rd[p].n, rd[p].got)
    BY <2>1, CallRecord, Zenon
  <2>. QED
    BY <2>2, Zenon DEF IsCall
<1>4. ASSUME UNCHANGED cons PROVE cons' \in ConsType /\ Lined' /\ Line' = Line /\ Ready' = Ready
  BY <1>1, <1>4, Zenon DEF Lined, Line, Ready
<1>5. ASSUME Return(p)
      PROVE  rd' \in [Readers -> RdType] /\ Outside' /\ Calls' = [Calls EXCEPT ![p] = Queue!NoCall]
  BY <1>5, Returns, Zenon
<1>6. ASSUME Consume, cons.r # cons.w
      PROVE  cons' \in ConsType /\ Lined' /\ Ready' = Tail(Ready) /\ Line' = Line
  BY <1>6, Consumed, Zenon
<1>7. ASSUME Queue!End(p) \/ Queue!Take(p) \/ UNCHANGED <<Line, Ready, Calls>> PROVE QueueStep
  BY <1>7, Zenon DEF QueueStep, Queue!Next
<1>8. CASE Len(rd[p].got) = rd[p].n /\ Return(p) /\ UNCHANGED cons
  <2>1. Queue!End(p)
    BY <1>3, <1>4, <1>5, <1>8, Zenon DEF Queue!End
  <2>. QED
    BY <1>4, <1>5, <1>7, <1>8, <2>1, Zenon
<1>9. CASE cons.r = cons.w /\ UNCHANGED cons /\ Return(p)
  <2>1. Queue!End(p)
    BY <1>3, <1>4, <1>5, <1>9, Front, Zenon DEF Queue!End
  <2>. QED
    BY <1>4, <1>5, <1>7, <1>9, <2>1, Zenon
<1>10. CASE UNCHANGED cons /\ rd' = [rd EXCEPT ![p].at = "sleep"]
  <2>. DEFINE r == [rd[p] EXCEPT !.at = "sleep"]
  <2>1. rd' = [rd EXCEPT ![p] = r]
    BY <1>10, Zenon
  <2>2. r \in RdType /\ r.at = "sleep" /\ r.n = rd[p].n /\ r.got = rd[p].got
    BY <1>1, Zenon DEF RdType
  <2>. HIDE DEF r
  <2>3. r.at = "user" <=> rd[p].at = "user"
    BY <1>2, <2>2
  <2>4. rd' \in [Readers -> RdType] /\ Outside' /\ Calls' = Calls
    BY <1>1, <2>1, <2>2, <2>3, ReaderStill, Zenon
  <2>. QED
    BY <1>4, <1>7, <1>10, <2>4, Zenon
<1>11. CASE cons.r # cons.w /\ cons.buf[cons.r % INPUT_BUF_SIZE] = EOF /\ AtEof(p)
  <2>1. Ready # << >> /\ Head(Ready) = EOF /\ Return(p)
    BY <1>11, Front, Zenon DEF AtEof
  <2>2. CASE rd[p].got # << >>
    <3>1. UNCHANGED cons
      BY <1>11, <2>2, Zenon DEF AtEof
    <3>2. Queue!End(p)
      BY <1>3, <1>4, <1>5, <2>1, <2>2, <3>1, Zenon DEF Queue!End
    <3>. QED
      BY <1>4, <1>5, <1>7, <2>1, <3>1, <3>2, Zenon
  <2>3. CASE rd[p].got = << >>
    <3>1. Consume
      BY <1>11, <2>3, Zenon DEF AtEof
    <3>2. Queue!End(p)
      BY <1>3, <1>5, <1>6, <1>11, <2>1, <2>3, <3>1, Zenon DEF Queue!End
    <3>. QED
      BY <1>5, <1>6, <1>7, <1>11, <2>1, <3>1, <3>2, Zenon
  <2>. QED
    BY <2>2, <2>3, Zenon
<1>12. CASE cons.r # cons.w /\ cons.buf[cons.r % INPUT_BUF_SIZE] # EOF /\ Return(p) /\ Consume
  <2>1. Queue!End(p)
    BY <1>3, <1>5, <1>6, <1>12, Front, Zenon DEF Queue!End
  <2>. QED
    BY <1>5, <1>6, <1>7, <1>12, <2>1, Zenon
<1>13. CASE /\ Len(rd[p].got) < rd[p].n /\ cons.r # cons.w /\ Consume
            /\ cons.buf[cons.r % INPUT_BUF_SIZE] \notin {EOF, NL}
            /\ rd' = [rd EXCEPT ![p].got = Append(@, cons.buf[cons.r % INPUT_BUF_SIZE])]
  <2>1. PICK k \in Keys : k = cons.buf[cons.r % INPUT_BUF_SIZE]
    <3>1. cons.r % INPUT_BUF_SIZE \in Cells
      BY ConsIs, Sizes DEF Cells, Index
    <3>. QED
      BY <3>1, ConsIs, Zenon
  <2>. DEFINE r == [rd[p] EXCEPT !.got = Append(rd[p].got, k)]
  <2>2. rd' = [rd EXCEPT ![p] = r]
    BY <1>13, <2>1, Zenon
  <2>3. Append(rd[p].got, k) \in Seq(Keys)
    <3>1. rd[p].got \in Seq(Keys)
      BY <1>1, Zenon DEF RdType
    <3>. QED
      BY <3>1
  <2>4. r \in RdType /\ r.at = rd[p].at /\ r.n = rd[p].n /\ r.got = Append(rd[p].got, k)
    BY <1>1, <2>3, Zenon DEF RdType
  <2>. HIDE DEF r
  <2>5. r.at # "user"
    BY <1>2, <2>4
  <2>6. rd' \in [Readers -> RdType] /\ Outside' /\ Calls' = [Calls EXCEPT ![p] = View(r)]
    BY <1>1, <2>2, <2>4, <2>5, ReaderMoves, Zenon
  <2>7. View(r) = [open |-> TRUE, n |-> Calls[p].n, got |-> Append(Calls[p].got, k)]
    BY <1>3, <2>4, <2>5, Zenon DEF View
  <2>8. Ready # << >> /\ Head(Ready) = k /\ Head(Ready) # EOF /\ Head(Ready) # NL
    BY <1>13, <2>1, Front, Zenon
  <2>9. Queue!Take(p)
    <3>1. /\ Calls[p].open /\ Len(Calls[p].got) < Calls[p].n
          /\ Ready' = Tail(Ready) /\ Line' = Line
      BY <1>3, <1>6, <1>13, Zenon
    <3>2. View(r) = IF Head(Ready) = NL THEN Queue!NoCall
                    ELSE [open |-> TRUE, n |-> Calls[p].n, got |-> Append(Calls[p].got, Head(Ready))]
      BY <2>7, <2>8, Zenon
    <3>3. Calls' = [Calls EXCEPT ![p] = IF Head(Ready) = NL THEN Queue!NoCall
                                        ELSE [open |-> TRUE, n |-> Calls[p].n, got |-> Append(Calls[p].got, Head(Ready))]]
      BY <2>6, <3>2, Zenon
    <3>. QED
      BY <2>8, <3>1, <3>3, Zenon DEF Queue!Take
  <2>. QED
    BY <1>6, <1>7, <1>13, <2>6, <2>9, Zenon
<1>14. CASE /\ Len(rd[p].got) < rd[p].n /\ cons.r # cons.w /\ Consume /\ Return(p)
            /\ cons.buf[cons.r % INPUT_BUF_SIZE] # EOF
  BY <1>12, <1>14, Zenon
<1>. QED
  BY <1>8, <1>9, <1>10, <1>11, <1>12, <1>13, Zenon DEF consoleread

\* wakeup(&cons.r) is not a step of the line queue.
LEMMA WokenIn ==
    ASSUME TypeOK, Outside, rd' = Woken(rd)
    PROVE  rd' \in [Readers -> RdType] /\ Outside' /\ Calls' = Calls
<1>1. ASSUME NEW p \in Readers
      PROVE  /\ rd'[p] \in RdType /\ rd'[p].n = rd[p].n /\ rd'[p].got = rd[p].got
             /\ rd'[p].at = "user" <=> rd[p].at = "user"
  <2>1. rd[p] \in RdType
    BY Zenon DEF TypeOK
  <2>2. rd'[p] = IF rd[p].at = "sleep" THEN [rd[p] EXCEPT !.at = "woken"] ELSE rd[p]
    BY Zenon DEF Woken
  <2>3. CASE rd[p].at = "sleep"
    <3>1. rd'[p] = [rd[p] EXCEPT !.at = "woken"]
      BY <2>2, <2>3, Zenon
    <3>2. rd'[p] \in RdType /\ rd'[p].n = rd[p].n /\ rd'[p].got = rd[p].got /\ rd'[p].at = "woken"
      BY <2>1, <3>1, Zenon DEF RdType
    <3>3. rd'[p].at # "user" /\ rd[p].at # "user"
      BY <2>3, <3>2
    <3>. QED
      BY <3>2, <3>3, Zenon
  <2>4. CASE rd[p].at # "sleep"
    BY <2>1, <2>2, <2>4, Zenon
  <2>. QED
    BY <2>3, <2>4, Zenon
<1>2. rd' \in [Readers -> RdType]
  <2>1. rd' = [p \in Readers |-> rd'[p]]
    BY Zenon DEF Woken
  <2>. QED
    BY <1>1, <2>1, Zenon
<1>3. Outside'
  BY <1>1, Zenon DEF Outside
<1>4. ASSUME NEW p \in Readers
      PROVE  [open |-> rd'[p].at # "user", n |-> rd'[p].n, got |-> rd'[p].got]
               = [open |-> rd[p].at # "user", n |-> rd[p].n, got |-> rd[p].got]
  <2>1. (rd'[p].at # "user") = (rd[p].at # "user")
    BY <1>1
  <2>. QED
    BY <1>1, <2>1, Zenon
<1>5. Calls' = Calls
  BY <1>4, Zenon DEF Calls
<1>. QED
  BY <1>2, <1>3, <1>5, Zenon

\* A key that consoleintr() handles is a key of the line queue, or changes nothing there.
LEMMA KeyIn ==
    ASSUME TypeOK, Lined, Outside, NEW k \in Chars, consoleintr(k)
    PROVE  /\ cons' \in ConsType /\ Lined' /\ rd' \in [Readers -> RdType] /\ Outside' /\ QueueStep
           /\ h' \in HType /\ h'.at = "echo"
<1>1. rd \in [Readers -> RdType] /\ cons \in ConsType
  BY Zenon DEF TypeOK
<1>2. PICK n \in Nat : n = Len(Line) /\ n = Ahead(cons.w, cons.e) /\ Line \in Seq(Keys)
  BY Lengths, Zenon
<1>3. ASSUME UNCHANGED rd PROVE rd' \in [Readers -> RdType] /\ Outside' /\ Calls' = Calls
  BY <1>1, <1>3, Zenon DEF Outside, Calls
<1>4. ASSUME NEW j \in Nat, h' = Echo(j) PROVE h' \in HType /\ h'.at = "echo"
  BY <1>4 DEF Echo, HType
<1>5. ASSUME Calls' = Calls, Queue!Typed(k) \/ (Line' = Line /\ Ready' = Ready) PROVE QueueStep
  BY <1>5, Zenon DEF QueueStep, Queue!Next, Queue!Type
<1>6. CASE k = KILL /\ cons' = Back(cons, KilledLine(cons)) /\ h' = Echo(BACKSPACE * KilledLine(cons)) /\ UNCHANGED rd
  <2>1. KilledLine(cons) = n
    BY <1>2, KilledIs, Zenon
  <2>2. n <= Len(Line)
    BY <1>2
  <2>3. cons' \in ConsType /\ Lined' /\ Ready' = Ready /\ Line' = SubSeq(Line, 1, Len(Line) - n)
    BY <1>6, <2>1, <2>2, Erases, Zenon
  <2>4. Line' = << >>
    <3>1. PICK l \in Seq(Keys) : l = Line
      BY <1>2, Zenon
    <3>2. SubSeq(l, 1, Len(l) - Len(l)) = << >>
      OBVIOUS
    <3>. QED
      BY <1>2, <2>3, <3>1, <3>2, Zenon
  <2>5. Queue!Typed(k)
    BY <1>6, <2>3, <2>4, Zenon DEF Queue!Typed
  <2>6. BACKSPACE * n \in Nat
    BY DEF BACKSPACE
  <2>. QED
    BY <1>3, <1>4, <1>5, <1>6, <2>1, <2>3, <2>5, <2>6, Zenon
<1>7. CASE k = BS /\ cons' = Back(cons, Erased(cons)) /\ h' = Echo(BACKSPACE * Erased(cons)) /\ UNCHANGED rd
  <2>1. BACKSPACE * 1 \in Nat /\ BACKSPACE * 0 \in Nat /\ 1 \in Nat /\ 0 \in Nat
    BY DEF BACKSPACE
  <2>2. CASE cons.e # cons.w
    <3>1. Erased(cons) = 1
      BY <2>2, Zenon DEF Erased
    <3>2. n > 0
      <4>1. PICK a \in Index, b \in Index : a = cons.w /\ b = cons.e
        BY ConsIs, Zenon
      <4>2. n = Ahead(a, b) /\ a # b
        BY <1>2, <2>2, <4>1, Zenon
      <4>3. n = IF b >= a THEN b - a ELSE b - a + WRAP
        BY <4>2, AheadIs
      <4>. QED
        BY <4>2, <4>3, Sizes DEF Index
    <3>3. 1 <= Len(Line) /\ Line # << >>
      <4>1. PICK l \in Seq(Keys) : l = Line /\ n = Len(l)
        BY <1>2, Zenon
      <4>2. 1 <= Len(l) /\ l # << >>
        BY <3>2, <4>1
      <4>. QED
        BY <4>1, <4>2, Zenon
    <3>4. cons' \in ConsType /\ Lined' /\ Ready' = Ready /\ Line' = SubSeq(Line, 1, Len(Line) - 1)
      BY <1>7, <2>1, <3>1, <3>3, Erases, Zenon
    <3>5. Queue!Typed(k)
      BY <1>7, <3>3, <3>4, Zenon DEF Queue!Typed
    <3>. QED
      BY <1>3, <1>4, <1>5, <1>7, <2>1, <3>1, <3>4, <3>5, Zenon
  <2>3. CASE cons.e = cons.w
    <3>1. Erased(cons) = 0
      BY <2>3, Zenon DEF Erased
    <3>2. 0 <= Len(Line)
      BY <1>2
    <3>3. cons' \in ConsType /\ Lined' /\ Ready' = Ready /\ Line' = SubSeq(Line, 1, Len(Line) - 0)
      BY <1>7, <2>1, <3>1, <3>2, Erases, Zenon
    <3>4. Line' = Line
      <4>1. PICK l \in Seq(Keys) : l = Line
        BY <1>2, Zenon
      <4>2. SubSeq(l, 1, Len(l) - 0) = l
        OBVIOUS
      <4>. QED
        BY <3>3, <4>1, <4>2, Zenon
    <3>. QED
      BY <1>3, <1>4, <1>5, <1>7, <2>1, <3>1, <3>3, <3>4, Zenon
  <2>. QED
    BY <2>2, <2>3, Zenon
<1>8. CASE /\ k \notin {KILL, BS} /\ (cons.e - cons.r) % WRAP < INPUT_BUF_SIZE
           /\ cons' = Committed(Put(cons, Key(k)), Key(k)) /\ h' = Echo(1)
           /\ rd' = IF Commits(Put(cons, Key(k)), Key(k)) THEN Woken(rd) ELSE rd
  <2>1. PICK x \in Keys : x = Key(k) /\ x = IF k = CR THEN NL ELSE k
    BY Zenon DEF Key, Keys
  <2>2. /\ cons' \in ConsType /\ Lined'
        /\ Len(Line) + Len(Ready) < INPUT_BUF_SIZE
        /\ Commits(Put(cons, x), x) <=> (x \in {NL, EOF} \/ (Len(Line) + 1) + Len(Ready) = INPUT_BUF_SIZE)
        /\ IF Commits(Put(cons, x), x) THEN Ready' = Ready \o Append(Line, x) /\ Line' = << >>
                                       ELSE Line' = Append(Line, x) /\ Ready' = Ready
    BY <1>8, <2>1, Stores, Zenon
  <2>3. Append(Line, x) # << >> /\ Len(Append(Line, x)) = Len(Line) + 1 /\ Append(Line, x)[Len(Line) + 1] = x
    <3>1. PICK l \in Seq(Keys) : l = Line
      BY <1>2, Zenon
    <3>2. Append(l, x) # << >> /\ Len(Append(l, x)) = Len(l) + 1 /\ Append(l, x)[Len(l) + 1] = x
      OBVIOUS
    <3>. QED
      BY <3>1, <3>2, Zenon
  <2>4. Queue!Complete(Append(Line, x)) <=> Commits(Put(cons, x), x)
    BY <2>2, <2>3, Zenon DEF Queue!Complete
  <2>5. Queue!Added(Append(Line, x))
    BY <2>2, <2>4, Zenon DEF Queue!Added
  <2>6. Queue!Typed(k)
    BY <1>8, <2>1, <2>2, <2>5, Zenon DEF Queue!Typed
  <2>7. rd' \in [Readers -> RdType] /\ Outside' /\ Calls' = Calls
    BY <1>3, <1>8, WokenIn, Zenon
  <2>. QED
    BY <1>4, <1>5, <1>8, <2>2, <2>6, <2>7
<1>9. CASE h' = Echo(0) /\ UNCHANGED <<cons, rd>>
  <2>1. Line' = Line /\ Ready' = Ready /\ Lined' /\ cons' \in ConsType
    BY <1>1, <1>9, Zenon DEF Line, Ready, Lined
  <2>. QED
    BY <1>3, <1>4, <1>5, <1>9, <2>1
<1>. QED
  BY <1>6, <1>7, <1>8, <1>9, Zenon DEF consoleintr

-----------------------------------------------------------------------------
\* The output ring as a sequence.
Slot(i) == i % UART_TX_BUF_SIZE
Slots == 0 .. UART_TX_BUF_SIZE - 1

LEMMA SlotIs == ASSUME NEW i \in Int PROVE Slot(i) \in Slots
<1>1. UART_TX_BUF_SIZE \in Nat \ {0}
  BY ConsoleConstants, Zenon
<1>. QED
  BY <1>1 DEF Slot, Slots

LEMMA UartIs ==
    ASSUME TypeOK, Ring
    PROVE  /\ uart.buf \in [Slots -> Wire \cup {NoChar}] /\ uart.r \in Nat /\ uart.w \in Nat
           /\ uart.w - uart.r \in 0 .. UART_TX_BUF_SIZE /\ uart.w - uart.r \in Nat
           /\ UART_TX_BUF_SIZE \in Nat \ {0}
<1>1. uart.buf \in [Slots -> Wire \cup {NoChar}] /\ uart.r \in Nat /\ uart.w \in Nat
  BY Zenon DEF TypeOK, UartType, Slots
<1>2. UART_TX_BUF_SIZE \in Nat \ {0}
  BY ConsoleConstants, Zenon
<1>3. PICK r \in Nat, w \in Nat, n \in Nat : r = uart.r /\ w = uart.w /\ n = UART_TX_BUF_SIZE
  BY <1>1, <1>2
<1>4. r <= w /\ w <= r + n
  BY <1>3, Zenon DEF Ring
<1>5. w - r \in 0 .. n /\ w - r \in Nat
  BY <1>4
<1>. QED
  BY <1>1, <1>2, <1>3, <1>5, Zenon

LEMMA StoredIs ==
    ASSUME TypeOK, Ring
    PROVE  /\ Stored \in Seq(Wire) /\ Len(Stored) = uart.w - uart.r
           /\ \A i \in 1 .. uart.w - uart.r : Stored[i] = uart.buf[Slot(uart.r + i - 1)]
<1>1. PICK d \in Nat : d = uart.w - uart.r
  BY UartIs, Zenon
<1>2. Stored = [i \in 1 .. d |-> uart.buf[Slot(uart.r + i - 1)]]
  BY <1>1, Zenon DEF Stored, Slot
<1>3. \A i \in 1 .. d : uart.buf[Slot(uart.r + i - 1)] \in Wire
  BY <1>1, Zenon DEF Ring, Slot
<1>4. Stored \in [1 .. d -> Wire] /\ \A i \in 1 .. d : Stored[i] = uart.buf[Slot(uart.r + i - 1)]
  BY <1>2, <1>3, Zenon
<1>5. Stored \in Seq(Wire) /\ Len(Stored) = d
  BY <1>4
<1>. QED
  BY <1>1, <1>4, <1>5, Zenon

LEMMA HeldIs ==
    ASSUME TypeOK, Ring
    PROVE  /\ dev.out \in Seq(Wire) /\ InHand \in Seq(Wire) /\ Stored \in Seq(Wire)
           /\ InHand \o Stored \in Seq(Wire) /\ Held \in Seq(Wire)
<1>1. dev.out \in Seq(Wire)
  BY Zenon DEF TypeOK, DevType
<1>2. InHand \in Seq(Wire)
  <2>1. CASE tx.at = "thr"
    <3>1. PICK c \in Wire : c = tx.c
      BY <2>1, Zenon DEF Ring
    <3>2. <<c>> \in Seq(Wire)
      OBVIOUS
    <3>. QED
      BY <2>1, <3>1, <3>2, Zenon DEF InHand
  <2>2. CASE tx.at # "thr"
    <3>1. << >> \in Seq(Wire)
      OBVIOUS
    <3>. QED
      BY <2>2, <3>1, Zenon DEF InHand
  <2>. QED
    BY <2>1, <2>2, Zenon
<1>3. Stored \in Seq(Wire)
  BY StoredIs, Zenon
<1>4. PICK u \in Seq(Wire), v \in Seq(Wire), w \in Seq(Wire) : u = dev.out /\ v = InHand /\ w = Stored
  BY <1>1, <1>2, <1>3, Zenon
<1>5. v \o w \in Seq(Wire) /\ u \o (v \o w) \in Seq(Wire)
  OBVIOUS
<1>. QED
  BY <1>4, <1>5, Zenon DEF Held

\* uartputc() stores a character.
LEMMA Putting ==
    ASSUME TypeOK, Ring, NEW c \in Wire, ~ TxFull, tx.at # "thr", tx'.at # "thr", dev' = dev,
           uart' = [uart EXCEPT !.buf[uart.w % UART_TX_BUF_SIZE] = c, !.w = @ + 1]
    PROVE  uart' \in UartType /\ Ring' /\ Held' = Append(Held, c)
<1>1. PICK r \in Nat, w \in Nat, n \in Nat \ {0} :
         r = uart.r /\ w = uart.w /\ n = UART_TX_BUF_SIZE /\ w - r \in 0 .. n
  BY UartIs, Zenon
<1>2. w # r + n /\ w - r < n /\ w - r \in Nat
  <2>1. w # r + n
    BY <1>1, Zenon DEF TxFull
  <2>. QED
    BY <1>1, <2>1
<1>3. uart.buf \in [Slots -> Wire \cup {NoChar}] /\ Slot(w) \in Slots
  BY <1>1, UartIs, SlotIs
<1>4. uart'.buf = [uart.buf EXCEPT ![Slot(w)] = c] /\ uart'.r = r /\ uart'.w = w + 1
  BY <1>1, Zenon DEF TypeOK, UartType, Slot
<1>5. uart'.buf \in [Slots -> Wire \cup {NoChar}] /\ uart'.buf[Slot(w)] = c
  <2>1. c \in Wire \cup {NoChar}
    OBVIOUS
  <2>2. [uart.buf EXCEPT ![Slot(w)] = c] \in [Slots -> Wire \cup {NoChar}]
    BY <1>3, <2>1, Zenon
  <2>3. [uart.buf EXCEPT ![Slot(w)] = c][Slot(w)] = c
    BY <1>3, Zenon
  <2>. QED
    BY <1>4, <2>2, <2>3, Zenon
<1>6. uart' \in UartType
  <2>1. w + 1 \in Nat
    OBVIOUS
  <2>2. [uart.buf EXCEPT ![Slot(w)] = c] \in [Slots -> Wire \cup {NoChar}]
    BY <1>4, <1>5, Zenon
  <2>. QED
    BY <1>1, <2>1, <2>2, Zenon DEF TypeOK, UartType, Slots, Slot
<1>7. PICK d \in Nat : d = w - r /\ d = uart.w - uart.r /\ d < n /\ w + 1 - r = d + 1
  BY <1>1, <1>2
<1>8. ASSUME NEW i \in 1 .. d PROVE uart'.buf[Slot(r + i - 1)] = uart.buf[Slot(r + i - 1)]
  <2>1. PICK x \in Int, y \in 1 .. n - 1 : x = r + i - 1 /\ w = x + y
    <3>1. r + i - 1 \in Int /\ w - (r + i - 1) \in 1 .. n - 1 /\ w = r + i - 1 + (w - (r + i - 1))
      BY <1>1, <1>7
    <3>. QED
      BY <3>1, Zenon
  <2>2. w \in Int
    OBVIOUS
  <2>3. Slot(x) # Slot(w)
    BY <1>1, <2>1, <2>2, PlacesDiffer, Zenon DEF Slot
  <2>4. Slot(x) \in Slots
    BY SlotIs, Zenon
  <2>5. uart'.buf[Slot(x)] = uart.buf[Slot(x)]
    BY <1>3, <1>4, <2>3, <2>4, Zenon
  <2>. QED
    BY <2>1, <2>5, Zenon
<1>9. r + (d + 1) - 1 = w
  BY <1>7
<1>10. \A i \in 1 .. d + 1 : uart'.buf[Slot(r + i - 1)] = IF i = d + 1 THEN c ELSE Stored[i]
  <2>1. \A i \in 1 .. d : Stored[i] = uart.buf[Slot(r + i - 1)]
    BY <1>1, <1>7, StoredIs, Zenon
  <2>2. \A i \in 1 .. d + 1 : i = d + 1 \/ i \in 1 .. d
    OBVIOUS
  <2>3. ~ (d + 1 \in 1 .. d)
    OBVIOUS
  <2>. QED
    BY <1>5, <1>8, <1>9, <2>1, <2>2, <2>3, Zenon
<1>11. PICK s \in Seq(Wire) : s = Stored /\ Len(s) = d
  BY <1>7, StoredIs, Zenon
<1>12. uart'.w - uart'.r = d + 1
  <2>1. uart'.w - uart'.r = (w + 1) - r
    BY <1>4, Zenon
  <2>. QED
    BY <1>7, <2>1
<1>13. Ring'
  <2>1. r <= w + 1 /\ w + 1 <= r + n
    BY <1>1, <1>2
  <2>2. ASSUME NEW i \in 1 .. d + 1 PROVE uart'.buf[Slot(r + i - 1)] \in Wire
    <3>1. i # d + 1 => s[i] \in Wire
      BY <1>11
    <3>. QED
      BY <1>10, <1>11, <3>1, Zenon
  <2>3. uart'.r <= uart'.w /\ uart'.w <= uart'.r + UART_TX_BUF_SIZE
    BY <1>1, <1>4, <2>1, Zenon
  <2>4. \A i \in 1 .. uart'.w - uart'.r : uart'.buf[(uart'.r + i - 1) % UART_TX_BUF_SIZE] \in Wire
    BY <1>4, <1>12, <2>2, Zenon DEF Slot
  <2>. QED
    BY <2>3, <2>4, Zenon DEF Ring
<1>14. Stored' = Append(s, c)
  <2>1. Stored' = [i \in 1 .. d + 1 |-> uart'.buf[Slot(uart'.r + i - 1)]]
    BY <1>12, Zenon DEF Stored, Slot
  <2>2. PICK t : t = Stored' /\ t = [i \in 1 .. d + 1 |-> IF i = d + 1 THEN c ELSE s[i]]
    <3>1. \A i \in 1 .. d + 1 : uart'.buf[Slot(uart'.r + i - 1)] = IF i = d + 1 THEN c ELSE s[i]
      BY <1>4, <1>10, <1>11, Zenon
    <3>. QED
      BY <2>1, <3>1, Zenon
  <2>3. t \in Seq(Wire) /\ Len(t) = d + 1
    BY <1>11, <2>2
  <2>4. Append(s, c) \in Seq(Wire) /\ Len(Append(s, c)) = d + 1
    BY <1>11
  <2>5. \A i \in 1 .. d + 1 : t[i] = Append(s, c)[i]
    BY <1>11, <2>2
  <2>6. t = Append(s, c)
    BY <2>3, <2>4, <2>5, SameSeq
  <2>. QED
    BY <2>2, <2>6, Zenon
<1>15. Held' = Append(Held, c)
  <2>1. PICK u \in Seq(Wire) : u = dev.out
    BY HeldIs, Zenon
  <2>2. u \o (<< >> \o Append(s, c)) = Append(u \o (<< >> \o s), c)
    BY <1>11
  <2>. QED
    BY <1>11, <1>14, <2>1, <2>2, Zenon DEF Held, InHand
<1>. QED
  BY <1>6, <1>13, <1>15, Zenon

\* uartstart() takes the first character out of the ring.
LEMMA Taking ==
    ASSUME TypeOK, Ring, tx.at = "start", uart.w # uart.r, dev' = dev,
           uart' = [uart EXCEPT !.r = @ + 1],
           tx' = [tx EXCEPT !.at = "thr", !.c = uart.buf[uart.r % UART_TX_BUF_SIZE]]
    PROVE  uart' \in UartType /\ tx' \in TxType /\ Ring' /\ Held' = Held
<1>1. PICK r \in Nat, w \in Nat, n \in Nat \ {0} :
         r = uart.r /\ w = uart.w /\ n = UART_TX_BUF_SIZE /\ w - r \in 0 .. n
  BY UartIs, Zenon
<1>2. PICK d \in Nat : d + 1 = w - r /\ d = w - (r + 1) /\ r + 1 <= w /\ w <= (r + 1) + n
  <2>1. w # r
    BY <1>1, Zenon
  <2>2. w - (r + 1) \in Nat /\ w - (r + 1) + 1 = w - r /\ r + 1 <= w /\ w <= (r + 1) + n
    BY <1>1, <2>1
  <2>. QED
    BY <2>2, Zenon
<1>3. uart'.buf = uart.buf /\ uart'.r = r + 1 /\ uart'.w = w
  BY <1>1, Zenon DEF TypeOK, UartType
<1>4. uart' \in UartType
  <2>1. uart.r + 1 \in Nat
    BY <1>1
  <2>. QED
    BY <2>1, Zenon DEF TypeOK, UartType
<1>5. PICK s \in Seq(Wire) : s = Stored /\ Len(s) = d + 1
  BY <1>1, <1>2, StoredIs, Zenon
<1>6. \A i \in 1 .. d + 1 : s[i] = uart.buf[Slot(r + i - 1)]
  BY <1>1, <1>2, <1>5, StoredIs, Zenon
<1>7. 1 \in 1 .. d + 1 /\ r + 1 - 1 = r
  OBVIOUS
<1>8. PICK c \in Wire : c = s[1]
  BY <1>5
<1>9. c = uart.buf[Slot(r)]
  BY <1>6, <1>7, <1>8, Zenon
<1>10. tx' \in TxType /\ tx'.at = "thr" /\ tx'.c = c
  <2>1. tx' = [tx EXCEPT !.at = "thr", !.c = c]
    BY <1>1, <1>9, Zenon DEF Slot
  <2>. QED
    BY <2>1, Zenon DEF TypeOK, TxType
<1>11. \A i \in 1 .. d : i + 1 \in 1 .. d + 1 /\ r + (i + 1) - 1 = (r + 1) + i - 1
  OBVIOUS
<1>12. \A i \in 1 .. d : uart'.buf[Slot(uart'.r + i - 1)] = s[i + 1]
  BY <1>3, <1>6, <1>11, Zenon
<1>13. uart'.w - uart'.r = d
  BY <1>2, <1>3, Zenon
<1>14. Ring'
  <2>1. uart'.r <= uart'.w /\ uart'.w <= uart'.r + UART_TX_BUF_SIZE
    BY <1>1, <1>2, <1>3, Zenon
  <2>2. \A i \in 1 .. d : s[i + 1] \in Wire
    BY <1>5
  <2>3. \A i \in 1 .. uart'.w - uart'.r : uart'.buf[(uart'.r + i - 1) % UART_TX_BUF_SIZE] \in Wire
    BY <1>12, <1>13, <2>2, Zenon DEF Slot
  <2>. QED
    BY <1>10, <2>1, <2>3, Zenon DEF Ring
<1>15. Held' = Held
  <2>1. Stored' = [i \in 1 .. d |-> uart'.buf[Slot(uart'.r + i - 1)]]
    BY <1>13, Zenon DEF Stored, Slot
  <2>2. PICK t : t = Stored' /\ t = [i \in 1 .. d |-> s[i + 1]]
    BY <1>12, <2>1, Zenon
  <2>3. t \in Seq(Wire) /\ Len(t) = d
    <3>1. \A i \in 1 .. d : s[i + 1] \in Wire
      BY <1>5
    <3>2. t \in [1 .. d -> Wire]
      BY <2>2, <3>1, Zenon
    <3>. QED
      BY <3>2
  <2>4. <<c>> \o t \in Seq(Wire) /\ Len(<<c>> \o t) = d + 1 /\ << >> \o s = s
    BY <1>5, <2>3
  <2>5. \A i \in 1 .. d + 1 : (<<c>> \o t)[i] = s[i]
    BY <1>5, <1>8, <2>2, <2>3
  <2>6. <<c>> \o t = s
    BY <1>5, <2>4, <2>5, SameSeq, Zenon
  <2>7. InHand = << >>
    BY DEF InHand
  <2>8. InHand' = <<c>>
    BY <1>10, Zenon DEF InHand
  <2>. QED
    BY <1>5, <2>2, <2>4, <2>6, <2>7, <2>8, Zenon DEF Held
<1>. QED
  BY <1>4, <1>10, <1>14, <1>15, Zenon

\* Who writes THR finds room in the FIFO.
LEMMA ThrRoom ==
    ASSUME TypeOK, Fifo, tx.at = "thr" \/ h.at = "thr"
    PROVE  Len(dev.out) <= 1 /\ Len(dev.out) < FIFO_SIZE
<1>1. PICK n \in Nat : n = Len(dev.out)
  <2>1. dev.out \in Seq(Wire)
    BY Zenon DEF TypeOK, DevType
  <2>. QED
    BY <2>1
<1>2. PICK a \in Nat, b \in Nat : a = Between(tx.at) /\ b = Between(h.at)
  BY DEF Between
<1>3. a >= 1 \/ b >= 1
  BY <1>2 DEF Between
<1>4. n + a + b <= 2
  BY <1>1, <1>2, Zenon DEF Fifo
<1>5. n <= 1
  BY <1>3, <1>4
<1>6. n < FIFO_SIZE
  BY <1>5, ConsoleConstants
<1>. QED
  BY <1>1, <1>5, <1>6, Zenon

LEMMA Written ==
    ASSUME TypeOK, Fifo, tx.at = "thr" \/ h.at = "thr", NEW c \in Wire, WriteTHR(c)
    PROVE  dev' \in DevType /\ dev'.out = Append(dev.out, c) /\ Len(dev'.out) = Len(dev.out) + 1
<1>1. dev \in DevType /\ dev.out \in Seq(Wire)
  BY Zenon DEF TypeOK, DevType
<1>2. Room(dev.out)
  BY ThrRoom, Zenon DEF Room
<1>3. dev' = [dev EXCEPT !.out = Append(dev.out, c), !.ip = FALSE]
  BY <1>2, Zenon DEF WriteTHR
<1>4. Append(dev.out, c) \in Seq(Wire) /\ Len(Append(dev.out, c)) = Len(dev.out) + 1
  BY <1>1
<1>5. dev' \in DevType /\ dev'.out = Append(dev.out, c)
  BY <1>1, <1>3, <1>4, Zenon DEF DevType
<1>. QED
  BY <1>4, <1>5, Zenon

\* uartstart() writes the character it has taken to THR.
LEMMA Writing ==
    ASSUME TypeOK, Ring, Fifo, uartstart_thr
    PROVE  tx' \in TxType /\ dev' \in DevType /\ Ring' /\ Fifo' /\ Held' = Held
<1>1. PICK c \in Wire : c = tx.c
  BY Zenon DEF uartstart_thr, Ring
<1>2. dev' \in DevType /\ dev'.out = Append(dev.out, c) /\ Len(dev'.out) = Len(dev.out) + 1
  BY <1>1, Written, Zenon DEF uartstart_thr
<1>3. tx \in TxType /\ NoChar \in Wire \cup {NoChar}
  BY Zenon DEF TypeOK
<1>4. tx' \in TxType /\ tx'.at = "start" /\ tx.at = "thr"
  BY <1>3, Zenon DEF uartstart_thr, TxType
<1>5. tx'.at # "thr"
  BY <1>4
<1>6. uart' = uart /\ h' = h
  BY Zenon DEF uartstart_thr
<1>7. Ring'
  BY <1>5, <1>6, Zenon DEF Ring
<1>8. Fifo'
  <2>1. Between(tx.at) = 1 /\ Between(tx'.at) = 0
    BY <1>4, <1>5 DEF Between
  <2>2. PICK n \in Nat, b \in Nat : n = Len(dev.out) /\ b = Between(h.at)
    <3>1. dev.out \in Seq(Wire)
      BY HeldIs, Zenon
    <3>2. Between(h.at) \in Nat
      BY DEF Between
    <3>. QED
      BY <3>1, <3>2
  <2>3. n + 1 + b <= 2
    BY <2>1, <2>2, Zenon DEF Fifo
  <2>4. (n + 1) + 0 + b <= 2
    BY <2>3
  <2>. QED
    BY <1>2, <1>6, <2>1, <2>2, <2>4, Zenon DEF Fifo
<1>9. Held' = Held
  <2>1. PICK u \in Seq(Wire), s \in Seq(Wire) : u = dev.out /\ s = Stored
    BY HeldIs, Zenon
  <2>2. Append(u, c) \o (<< >> \o s) = u \o (<<c>> \o s)
    OBVIOUS
  <2>3. Stored' = Stored
    BY <1>6, Zenon DEF Stored
  <2>4. InHand = <<c>> /\ InHand' = << >>
    BY <1>1, <1>4, <1>5, Zenon DEF InHand
  <2>. QED
    BY <1>2, <2>1, <2>2, <2>3, <2>4, Zenon DEF Held
<1>. QED
  BY <1>2, <1>4, <1>7, <1>8, <1>9, Zenon

-----------------------------------------------------------------------------
\* What the steps have in common.
LEMMA Names == None # INTR /\ \A p \in Writers : p # None /\ p # INTR /\ ECHO[1] # p
BY ConsoleConstants DEF None, INTR, ECHO

LEMMA SameHeld ==
    ASSUME Ring, UNCHANGED <<uart, tx>>, dev'.out = dev.out
    PROVE  Ring' /\ Held' = Held
BY Zenon DEF Ring, Held, InHand, Stored

LEMMA SameExact ==
    ASSUME Exact, Held' = Held, sent' = sent, \A p \in Writers : Accepted(p)' = Accepted(p)
    PROVE  Exact'
BY Zenon DEF Exact

LEMMA SameWriters ==
    ASSUME UNCHANGED wr
    PROVE  \A p \in Writers : Accepted(p)' = Accepted(p)
BY Zenon DEF Accepted

\* A step of readers only.
LEMMA SameOutput ==
    ASSUME TxLock, Fifo, Ring, Echoing, Exact, UNCHANGED <<wr, uart, tx, h, dev, sent>>
    PROVE  TxLock' /\ Fifo' /\ Ring' /\ Echoing' /\ Exact'
<1>1. TxLock' /\ Fifo' /\ Echoing'
  BY Zenon DEF TxLock, Fifo, Echoing
<1>2. Ring' /\ Held' = Held
  BY SameHeld, Zenon
<1>3. Exact'
  BY <1>2, SameExact, SameWriters, Zenon
<1>. QED
  BY <1>1, <1>2, <1>3, Zenon

\* A step of the handler outside uartstart() and uartputc_sync().
LEMMA HandlerMoves ==
    ASSUME TxLock, Fifo, Ring, Exact, UNCHANGED <<wr, uart, tx, sent>>, dev'.out = dev.out,
           h.at \notin {"start", "thr"}, h'.at \notin {"start", "thr"}
    PROVE  TxLock' /\ Fifo' /\ Ring' /\ Echoing' /\ Exact'
<1>1. h.at # "start" /\ h'.at # "start" /\ h.at # "thr" /\ h'.at # "thr"
  OBVIOUS
<1>2. TxLock'
  BY <1>1, Zenon DEF TxLock
<1>3. Fifo'
  BY <1>1, Zenon DEF Fifo, Between
<1>4. Echoing'
  BY <1>1, Zenon DEF Echoing
<1>5. Ring' /\ Held' = Held
  BY SameHeld, Zenon
<1>6. Exact'
  BY <1>5, SameExact, SameWriters, Zenon
<1>. QED
  BY <1>2, <1>3, <1>4, <1>5, <1>6, Zenon

LEMMA DevintrOut ==
    ASSUME TypeOK, TxLock, Fifo, Ring, Exact, devintr
    PROVE  h' \in HType /\ TxLock' /\ Fifo' /\ Ring' /\ Echoing' /\ Exact'
<1>1. h \in HType /\ h.at = "user" /\ h' = [h EXCEPT !.at = "getc"]
  BY Zenon DEF TypeOK, devintr
<1>2. h' \in HType /\ h'.at = "getc"
  BY <1>1, Zenon DEF HType
<1>3. h.at \notin {"start", "thr"} /\ h'.at \notin {"start", "thr"}
  BY <1>1, <1>2
<1>4. UNCHANGED <<wr, uart, tx, sent>> /\ dev'.out = dev.out
  BY Zenon DEF devintr
<1>. QED
  BY <1>2, <1>3, <1>4, HandlerMoves, Zenon

LEMMA UartgetcOut ==
    ASSUME TypeOK, Lined, Outside, TxLock, Fifo, Ring, Exact, uartgetc
    PROVE  /\ h' \in HType /\ dev' \in DevType /\ TxLock' /\ Fifo' /\ Ring' /\ Echoing' /\ Exact'
           /\ cons' \in ConsType /\ Lined' /\ rd' \in [Readers -> RdType] /\ Outside' /\ QueueStep
<1>1. h \in HType /\ h.at = "getc" /\ dev \in DevType
  BY Zenon DEF TypeOK, uartgetc
<1>2. UNCHANGED <<wr, uart, tx, sent>>
  BY Zenon DEF uartgetc
<1>3. CASE dev.in = << >> /\ h' = [h EXCEPT !.at = "lock"] /\ UNCHANGED <<cons, rd, dev>>
  <2>1. h' \in HType /\ h'.at = "lock"
    BY <1>1, <1>3, Zenon DEF HType
  <2>2. h.at \notin {"start", "thr"} /\ h'.at \notin {"start", "thr"}
    BY <1>1, <2>1
  <2>3. dev' \in DevType /\ dev'.out = dev.out
    BY <1>1, <1>3, Zenon
  <2>4. cons' \in ConsType /\ Lined' /\ rd' \in [Readers -> RdType] /\ Outside'
    BY <1>3, Zenon DEF TypeOK, Lined, Line, Outside
  <2>5. QueueStep
    BY <1>3, Zenon DEF QueueStep, Line, Ready, Calls
  <2>. QED
    BY <1>2, <2>1, <2>2, <2>3, <2>4, <2>5, HandlerMoves, Zenon
<1>4. CASE dev.in # << >> /\ consoleintr(Head(dev.in)) /\ dev' = [dev EXCEPT !.in = Tail(@)]
  <2>1. PICK s \in Seq(Chars) : s = dev.in
    BY <1>1, Zenon DEF DevType
  <2>2. s # << >>
    BY <1>4, <2>1, Zenon
  <2>3. Head(s) \in Chars /\ Tail(s) \in Seq(Chars)
    BY <2>2
  <2>4. dev' \in DevType /\ dev'.out = dev.out
    BY <1>1, <1>4, <2>1, <2>3, Zenon DEF DevType
  <2>5. /\ cons' \in ConsType /\ Lined' /\ rd' \in [Readers -> RdType] /\ Outside' /\ QueueStep
        /\ h' \in HType /\ h'.at = "echo"
    BY <1>4, <2>1, <2>3, KeyIn, Zenon
  <2>6. h.at \notin {"start", "thr"} /\ h'.at \notin {"start", "thr"}
    BY <1>1, <2>5
  <2>. QED
    BY <1>2, <2>4, <2>5, <2>6, HandlerMoves, Zenon
<1>. QED
  BY <1>3, <1>4, Zenon DEF uartgetc

\* The echo, which takes its turns between those of uartstart().
LEMMA EchoOut ==
    ASSUME TypeOK, TxLock, Fifo, Ring, Echoing, Exact, uartputc_sync
    PROVE  h' \in HType /\ dev' \in DevType /\ TxLock' /\ Fifo' /\ Ring' /\ Echoing' /\ Exact'
<1>1. h \in HType /\ dev \in DevType /\ h.echo \in Nat /\ dev.out \in Seq(Wire)
  BY Zenon DEF TypeOK, HType, DevType
<1>2. UNCHANGED <<wr, uart, tx, sent>>
  BY Zenon DEF uartputc_sync
<1>3. Between(tx.at) \in {0, 1}
  BY DEF Between
<1>4. CASE h.at = "echo" /\ h' = [h EXCEPT !.at = "getc"] /\ UNCHANGED dev
  <2>1. h' \in HType /\ h'.at = "getc"
    BY <1>1, <1>4, Zenon DEF HType
  <2>2. h.at \notin {"start", "thr"} /\ h'.at \notin {"start", "thr"}
    BY <1>4, <2>1
  <2>3. dev' \in DevType /\ dev'.out = dev.out
    BY <1>1, <1>4, Zenon
  <2>. QED
    BY <1>2, <2>1, <2>2, <2>3, HandlerMoves, Zenon
<1>5. CASE h.at = "echo" /\ h.echo > 0 /\ TxIdle /\ h' = [h EXCEPT !.at = "thr"] /\ UNCHANGED dev
  <2>1. h' \in HType /\ h'.at = "thr" /\ h'.echo = h.echo
    BY <1>1, <1>5, Zenon DEF HType
  <2>2. h.at # "start" /\ h'.at # "start"
    BY <1>5, <2>1
  <2>3. TxLock'
    BY <1>2, <2>2, Zenon DEF TxLock
  <2>4. Echoing'
    BY <1>5, <2>1, Zenon DEF Echoing
  <2>5. Fifo'
    <3>1. Len(dev'.out) = 0
      BY <1>5 DEF TxIdle
    <3>2. Between(h'.at) = 1 /\ Between(tx'.at) \in {0, 1}
      BY <1>2, <1>3, <2>1, Zenon DEF Between
    <3>. QED
      BY <3>1, <3>2 DEF Fifo
  <2>6. dev' \in DevType /\ dev'.out = dev.out
    BY <1>1, <1>5, Zenon
  <2>7. Ring' /\ Held' = Held
    BY <1>2, <2>6, SameHeld, Zenon
  <2>8. Exact'
    BY <1>2, <2>7, SameExact, SameWriters, Zenon
  <2>. QED
    BY <2>1, <2>3, <2>4, <2>5, <2>6, <2>7, <2>8, Zenon
<1>6. CASE h.at = "thr" /\ WriteTHR(ECHO) /\ h' = [at |-> "echo", echo |-> h.echo - 1]
  <2>1. h.echo > 0
    BY <1>6, Zenon DEF Echoing
  <2>2. h' \in HType /\ h'.at = "echo"
    BY <1>1, <1>6, <2>1 DEF HType
  <2>3. h.at # "start" /\ h'.at # "start" /\ h'.at # "thr"
    BY <1>6, <2>2
  <2>4. TxLock' /\ Echoing'
    BY <1>2, <2>3, Zenon DEF TxLock, Echoing
  <2>5. dev' \in DevType /\ dev'.out = Append(dev.out, ECHO) /\ Len(dev'.out) = Len(dev.out) + 1
    <3>1. ECHO \in Wire
      BY Zenon DEF Wire
    <3>. QED
      BY <1>6, <3>1, Written, Zenon
  <2>6. Fifo'
    <3>1. PICK n \in Nat, a \in Nat : n = Len(dev.out) /\ a = Between(tx.at)
      BY <1>1, <1>3
    <3>2. Between(h.at) = 1 /\ Between(h'.at) = 0 /\ Between(tx'.at) = a
      BY <1>2, <1>6, <2>3, <3>1, Zenon DEF Between
    <3>3. n + a + 1 <= 2
      BY <3>1, <3>2, Zenon DEF Fifo
    <3>4. (n + 1) + a + 0 <= 2
      BY <3>3
    <3>. QED
      BY <2>5, <3>1, <3>2, <3>4, Zenon DEF Fifo
  <2>7. Ring'
    BY <1>2, Zenon DEF Ring
  <2>8. ASSUME NEW p \in Writers PROVE InOrder(Held, p, sent[p], Accepted(p))'
    <3>1. ECHO \in Wire /\ ECHO[1] # p
      BY Names, Zenon DEF Wire
    <3>2. dev.out \in Seq(Wire) /\ InHand \o Stored \in Seq(Wire)
      BY HeldIs, Zenon
    <3>3. InOrder(dev.out \o (InHand \o Stored), p, sent[p], Accepted(p))
      BY Zenon DEF Exact, Held
    <3>4. InOrder(Append(dev.out, ECHO) \o (InHand \o Stored), p, sent[p], Accepted(p))
      BY <3>1, <3>2, <3>3, OrderInserted, Zenon
    <3>5. InHand' = InHand /\ Stored' = Stored /\ sent' = sent /\ Accepted(p)' = Accepted(p)
      BY <1>2, Zenon DEF InHand, Stored, Accepted
    <3>6. Held' = Append(dev.out, ECHO) \o (InHand \o Stored)
      BY <2>5, <3>5, Zenon DEF Held
    <3>. QED
      BY <3>4, <3>5, <3>6, Zenon
  <2>9. Exact'
    BY <2>8, Zenon DEF Exact
  <2>. QED
    BY <2>2, <2>4, <2>5, <2>6, <2>7, <2>9, Zenon
<1>. QED
  BY <1>4, <1>5, <1>6, Zenon DEF uartputc_sync

LEMMA IntrStartOut ==
    ASSUME TypeOK, TxLock, Fifo, Ring, Exact, uartintr_start
    PROVE  h' \in HType /\ tx' \in TxType /\ TxLock' /\ Fifo' /\ Ring' /\ Echoing' /\ Exact'
<1>1. h \in HType /\ h.at = "lock" /\ h' = [h EXCEPT !.at = "start"] /\ tx.by = None
  BY Zenon DEF TypeOK, uartintr_start
<1>2. h' \in HType /\ h'.at = "start"
  BY <1>1, Zenon DEF HType
<1>3. tx' \in TxType /\ tx'.by = INTR /\ tx'.at = "start"
  BY DEF uartintr_start, TxType
<1>4. UNCHANGED <<wr, uart, dev, sent>>
  BY Zenon DEF uartintr_start
<1>5. tx.at = None
  BY <1>1, Zenon DEF TxLock
<1>6. /\ tx.at # "thr" /\ tx'.at # "thr" /\ h.at # "thr" /\ h'.at # "thr" /\ tx'.at # None
      /\ tx'.by # None
  BY <1>1, <1>2, <1>3, <1>5, Names DEF None
<1>7. TxLock'
  BY <1>1, <1>2, <1>3, <1>4, <1>6, Names, Zenon DEF TxLock
<1>8. Fifo' /\ Echoing'
  BY <1>4, <1>6, Zenon DEF Fifo, Between, Echoing
<1>9. Ring' /\ Held' = Held
  BY <1>4, <1>6, Zenon DEF Ring, Held, InHand, Stored
<1>10. Exact'
  BY <1>4, <1>9, SameExact, SameWriters, Zenon
<1>. QED
  BY <1>2, <1>3, <1>7, <1>8, <1>9, <1>10, Zenon

LEMMA ReceiveOut ==
    ASSUME TypeOK, TxLock, Fifo, Ring, Echoing, Exact, device_receive
    PROVE  dev' \in DevType /\ TxLock' /\ Fifo' /\ Ring' /\ Echoing' /\ Exact'
<1>1. PICK c \in Chars : dev' = [dev EXCEPT !.in = Append(@, c)]
  BY Zenon DEF device_receive
<1>2. dev \in DevType /\ dev.in \in Seq(Chars)
  BY Zenon DEF TypeOK, DevType
<1>3. Append(dev.in, c) \in Seq(Chars)
  BY <1>2
<1>4. dev' \in DevType /\ dev'.out = dev.out
  BY <1>1, <1>2, <1>3, Zenon DEF DevType
<1>5. UNCHANGED <<wr, uart, tx, h, sent>>
  BY Zenon DEF device_receive
<1>6. TxLock' /\ Fifo' /\ Echoing'
  BY <1>4, <1>5, Zenon DEF TxLock, Fifo, Echoing
<1>7. Ring' /\ Held' = Held
  BY <1>4, <1>5, SameHeld, Zenon
<1>8. Exact'
  BY <1>5, <1>7, SameExact, SameWriters, Zenon
<1>. QED
  BY <1>4, <1>6, <1>7, <1>8, Zenon

\* The wire takes the first character that is held: echo, or the next one of some writer.
LEMMA TransmitOut ==
    ASSUME TypeOK, TxLock, Fifo, Ring, Echoing, Exact, device_transmit
    PROVE  /\ dev' \in DevType /\ sent' \in [Writers -> Nat]
           /\ TxLock' /\ Fifo' /\ Ring' /\ Echoing' /\ Exact'
<1>1. dev \in DevType /\ dev.ip \in BOOLEAN /\ sent \in [Writers -> Nat]
  BY Zenon DEF TypeOK, DevType
<1>2. UNCHANGED <<wr, uart, tx, h>>
  BY Zenon DEF device_transmit
<1>3. PICK u \in Seq(Wire), v \in Seq(Wire) : u = dev.out /\ v = InHand \o Stored
  BY HeldIs, Zenon
<1>4. u # << >>
  BY <1>3, Zenon DEF device_transmit
<1>5. PICK c \in Wire : c = Head(u)
  BY <1>4
<1>6. /\ Tail(u) \in Seq(Wire) /\ Len(Tail(u)) = Len(u) - 1
      /\ u \o v \in Seq(Wire) /\ u \o v # << >> /\ Head(u \o v) = c /\ Tail(u \o v) = Tail(u) \o v
  BY <1>4, <1>5
<1>7. dev' \in DevType /\ dev'.out = Tail(u)
  <2>1. dev' = [dev EXCEPT !.out = Tail(u), !.ip = dev.ip \/ Len(dev.out) = 1]
    BY <1>3, Zenon DEF device_transmit
  <2>2. (dev.ip \/ Len(dev.out) = 1) \in BOOLEAN
    OBVIOUS
  <2>. QED
    BY <1>1, <1>6, <2>1, <2>2, Zenon DEF DevType
<1>8. TxLock' /\ Echoing'
  BY <1>2, Zenon DEF TxLock, Echoing
<1>9. Fifo'
  <2>1. PICK n \in Nat, a \in Nat, b \in Nat : n = Len(u) /\ a = Between(tx.at) /\ b = Between(h.at)
    BY DEF Between
  <2>2. n + a + b <= 2
    BY <1>3, <2>1, Zenon DEF Fifo
  <2>3. (n - 1) + a + b <= 2
    BY <2>2
  <2>. QED
    BY <1>2, <1>6, <1>7, <2>1, <2>3, Zenon DEF Fifo
<1>10. Ring'
  BY <1>2, Zenon DEF Ring
<1>11. Held = u \o v /\ Held' = Tail(u \o v)
  BY <1>2, <1>3, <1>6, <1>7, Zenon DEF Held, InHand, Stored
<1>12. sent' = IF c = ECHO THEN sent ELSE [sent EXCEPT ![c[1]] = c[2]]
  BY <1>3, <1>5, Zenon DEF device_transmit
<1>13. c = ECHO \/ (c[1] \in Writers /\ c[2] \in Nat)
  BY DEF Wire
<1>14. sent' \in [Writers -> Nat]
  BY <1>1, <1>12, <1>13, Zenon
<1>15. ASSUME NEW p \in Writers PROVE InOrder(Held, p, sent[p], Accepted(p))'
  <2>1. Accepted(p)' = Accepted(p)
    BY <1>2, Zenon DEF Accepted
  <2>2. PICK s \in Seq(Wire) : s = u \o v /\ s # << >> /\ Head(s) = c
    BY <1>6, Zenon
  <2>3. PICK a \in Nat : a = sent[p]
    BY <1>1, Zenon
  <2>4. InOrder(s, p, a, Accepted(p))
    BY <1>11, <2>2, <2>3, Zenon DEF Exact
  <2>5. PICK b \in Nat : b = Accepted(p)
    <3>1. Accepted(p) \in Int
      <4>1. wr[p].next \in Nat
        BY Zenon DEF TypeOK, WrType
      <4>. QED
        BY <4>1 DEF Accepted
    <3>2. a <= Accepted(p)
      BY <2>4, Zenon DEF InOrder
    <3>. QED
      BY <3>1, <3>2
  <2>6. InOrder(s, p, a, b)
    BY <2>4, <2>5, Zenon
  <2>7. IsNext(s, p, a, b)
    BY <2>2, <2>6, OrderTail, Zenon
  <2>8. CASE c[1] # p
    <3>1. InOrder(Tail(s), p, a, b)
      BY <2>2, <2>7, <2>8, Zenon DEF IsNext
    <3>2. sent'[p] = a
      BY <1>1, <1>12, <1>13, <2>3, <2>8, Zenon
    <3>. QED
      BY <1>11, <2>1, <2>2, <2>5, <3>1, <3>2, Zenon
  <2>9. CASE c[1] = p
    <3>1. c[2] = a + 1 /\ InOrder(Tail(s), p, a + 1, b)
      BY <2>2, <2>7, <2>9, Zenon DEF IsNext
    <3>2. c # ECHO
      BY <2>9, Names, Zenon
    <3>3. sent'[p] = a + 1
      BY <1>1, <1>12, <2>9, <3>1, <3>2, Zenon
    <3>. QED
      BY <1>11, <2>1, <2>2, <2>5, <3>1, <3>3, Zenon
  <2>. QED
    BY <2>8, <2>9, Zenon
<1>16. Exact'
  BY <1>15, Zenon DEF Exact
<1>. QED
  BY <1>7, <1>8, <1>9, <1>10, <1>14, <1>16, Zenon

\* One writer moves, and has given as many characters as before.
LEMMA WriterMoves ==
    ASSUME wr \in [Writers -> WrType], NEW p \in Writers, NEW r \in WrType, wr' = [wr EXCEPT ![p] = r],
           r.next - (IF r.at = "start" THEN 0 ELSE 1) = Accepted(p)
    PROVE  wr' \in [Writers -> WrType] /\ \A q \in Writers : Accepted(q)' = Accepted(q)
<1>1. wr' \in [Writers -> WrType] /\ wr'[p] = r /\ \A q \in Writers : q # p => wr'[q] = wr[q]
  BY Zenon
<1>. QED
  BY <1>1, Zenon DEF Accepted

LEMMA WriteCallOut ==
    ASSUME TypeOK, TxLock, Fifo, Ring, Echoing, Exact, NEW p \in Writers, write_call(p)
    PROVE  /\ wr' \in [Writers -> WrType] /\ events' \in Nat
           /\ TxLock' /\ Fifo' /\ Ring' /\ Echoing' /\ Exact'
<1>1. wr \in [Writers -> WrType] /\ wr[p] \in WrType /\ wr[p].at = "user" /\ wr[p].next \in Nat /\ events \in Nat
  BY Zenon DEF TypeOK, WrType, write_call
<1>2. PICK n \in 1 .. MaxEvents - events :
         events' = events + n /\ wr' = [wr EXCEPT ![p].at = "put", ![p].last = wr[p].next + n - 1]
  BY Zenon DEF write_call, Happens
<1>3. wr[p].next + n - 1 \in Nat /\ events' \in Nat
  BY <1>1, <1>2, ConsoleConstants
<1>. DEFINE r == [wr[p] EXCEPT !.at = "put", !.last = wr[p].next + n - 1]
<1>4. r \in WrType /\ r.at = "put" /\ r.next = wr[p].next
  BY <1>1, <1>3, Zenon DEF WrType
<1>5. wr' = [wr EXCEPT ![p] = r]
  BY <1>1, <1>2, Zenon
<1>. HIDE DEF r
<1>6. r.at # "start" /\ wr[p].at # "start"
  BY <1>1, <1>4
<1>7. wr' \in [Writers -> WrType] /\ \A q \in Writers : Accepted(q)' = Accepted(q)
  <2>1. r.next - (IF r.at = "start" THEN 0 ELSE 1) = Accepted(p)
    BY <1>4, <1>6, Zenon DEF Accepted
  <2>. QED
    BY <1>1, <1>4, <1>5, <2>1, WriterMoves, Zenon
<1>8. UNCHANGED <<uart, tx, h, dev, sent>>
  BY Zenon DEF write_call
<1>9. wr'[p] = r /\ \A q \in Writers : q # p => wr'[q] = wr[q]
  BY <1>1, <1>5, Zenon
<1>10. TxLock'
  BY <1>6, <1>8, <1>9, Zenon DEF TxLock
<1>11. Fifo' /\ Echoing'
  BY <1>8, Zenon DEF Fifo, Echoing
<1>12. Ring' /\ Held' = Held
  BY <1>8, SameHeld, Zenon
<1>13. Exact'
  BY <1>7, <1>8, <1>12, SameExact, Zenon
<1>. QED
  BY <1>3, <1>7, <1>10, <1>11, <1>12, <1>13, Zenon

LEMMA UartputcOut ==
    ASSUME TypeOK, TxLock, Fifo, Ring, Echoing, Exact, NEW p \in Writers, uartputc(p)
    PROVE  /\ wr' \in [Writers -> WrType] /\ uart' \in UartType /\ tx' \in TxType
           /\ TxLock' /\ Fifo' /\ Ring' /\ Echoing' /\ Exact'
<1>1. /\ wr \in [Writers -> WrType] /\ wr[p] \in WrType /\ wr[p].next \in Nat
      /\ uart \in UartType /\ tx \in TxType
  BY Zenon DEF TypeOK, WrType
<1>2. wr[p].at \in {"put", "woken"} /\ tx.by = None /\ UNCHANGED <<h, dev, sent>>
  BY Zenon DEF uartputc
<1>3. wr[p].at # "start"
  BY <1>2
<1>4. tx.at = None
  BY <1>2, Zenon DEF TxLock
<1>5. tx.at # "thr"
  BY <1>4 DEF None
<1>6. CASE wr' = [wr EXCEPT ![p].at = "sleep"] /\ UNCHANGED <<uart, tx>>
  <2>. DEFINE r == [wr[p] EXCEPT !.at = "sleep"]
  <2>1. r \in WrType /\ r.at = "sleep" /\ r.next = wr[p].next
    BY <1>1, Zenon DEF WrType
  <2>2. wr' = [wr EXCEPT ![p] = r]
    BY <1>1, <1>6, Zenon
  <2>. HIDE DEF r
  <2>3. r.at # "start"
    BY <2>1
  <2>4. wr' \in [Writers -> WrType] /\ \A q \in Writers : Accepted(q)' = Accepted(q)
    <3>1. r.next - (IF r.at = "start" THEN 0 ELSE 1) = Accepted(p)
      BY <1>3, <2>1, <2>3, Zenon DEF Accepted
    <3>. QED
      BY <1>1, <2>1, <2>2, <3>1, WriterMoves, Zenon
  <2>5. wr'[p] = r /\ \A q \in Writers : q # p => wr'[q] = wr[q]
    BY <1>1, <2>2, Zenon
  <2>6. TxLock'
    BY <1>2, <1>3, <1>6, <2>3, <2>5, Zenon DEF TxLock
  <2>7. Fifo' /\ Echoing'
    BY <1>2, <1>6, Zenon DEF Fifo, Echoing
  <2>8. Ring' /\ Held' = Held
    BY <1>2, <1>6, SameHeld, Zenon
  <2>9. Exact'
    BY <1>2, <2>4, <2>8, SameExact, Zenon
  <2>. QED
    BY <1>1, <1>6, <2>4, <2>6, <2>7, <2>8, <2>9, Zenon
<1>7. CASE /\ ~ TxFull
           /\ uart' = [uart EXCEPT !.buf[uart.w % UART_TX_BUF_SIZE] = <<p, wr[p].next>>, !.w = @ + 1]
           /\ tx' = [by |-> p, at |-> "start", c |-> NoChar]
           /\ wr' = [wr EXCEPT ![p].at = "start"]
  <2>. DEFINE r == [wr[p] EXCEPT !.at = "start"]
  <2>1. r \in WrType /\ r.at = "start" /\ r.next = wr[p].next
    BY <1>1, Zenon DEF WrType
  <2>2. wr' = [wr EXCEPT ![p] = r]
    BY <1>1, <1>7, Zenon
  <2>. HIDE DEF r
  <2>3. /\ wr' \in [Writers -> WrType] /\ wr'[p] = r
        /\ \A q \in Writers : q # p => wr'[q] = wr[q]
    BY <1>1, <2>1, <2>2, Zenon
  <2>4. tx' \in TxType /\ tx'.by = p /\ tx'.at = "start"
    BY <1>7 DEF TxType
  <2>5. tx'.at # "thr" /\ tx'.at # None
    BY <2>4 DEF None
  <2>6. TxLock'
    BY <1>2, <2>1, <2>3, <2>4, <2>5, Names, Zenon DEF TxLock
  <2>7. Fifo' /\ Echoing'
    BY <1>2, <1>5, <2>5, Zenon DEF Fifo, Between, Echoing
  <2>8. PICK k \in Nat : k = wr[p].next
    BY <1>1, Zenon
  <2>9. <<p, k>> \in Wire
    BY <2>8, Zenon DEF Wire
  <2>10. uart' \in UartType /\ Ring' /\ Held' = Append(Held, <<p, k>>)
    BY <1>2, <1>5, <1>7, <2>5, <2>8, <2>9, Putting, Zenon
  <2>11. Held \in Seq(Wire)
    BY HeldIs, Zenon
  <2>12. ASSUME NEW q \in Writers PROVE InOrder(Held, q, sent[q], Accepted(q))'
    <3>1. InOrder(Held, q, sent[q], Accepted(q)) /\ sent[q] \in Nat
      BY Zenon DEF Exact, TypeOK
    <3>2. CASE q = p
      <4>1. PICK a \in Nat : a = sent[p]
        BY <3>1, <3>2, Zenon
      <4>2. Accepted(p) = k - 1 /\ Accepted(p)' = k - 0
        BY <1>3, <2>1, <2>3, <2>8, Zenon DEF Accepted
      <4>3. InOrder(Held, p, a, k - 1)
        BY <3>1, <3>2, <4>1, <4>2, Zenon
      <4>4. a <= k - 1
        BY <4>3, Zenon DEF InOrder
      <4>5. PICK b \in Nat : b = k - 1 /\ k = b + 1 /\ k - 0 = k
        BY <4>4
      <4>6. InOrder(Append(Held, <<p, k>>), p, a, k)
        BY <2>11, <4>3, <4>5, OrderNext, Zenon
      <4>. QED
        BY <1>2, <2>10, <3>2, <4>1, <4>2, <4>5, <4>6, Zenon
    <3>3. CASE q # p
      <4>1. Accepted(q)' = Accepted(q)
        BY <2>3, <3>3, Zenon DEF Accepted
      <4>2. <<p, k>>[1] # q
        BY <3>3
      <4>3. InOrder(Append(Held, <<p, k>>), q, sent[q], Accepted(q))
        BY <2>9, <2>11, <3>1, <4>2, OrderOther, Zenon
      <4>. QED
        BY <1>2, <2>10, <4>1, <4>3, Zenon
    <3>. QED
      BY <3>2, <3>3, Zenon
  <2>13. Exact'
    BY <2>12, Zenon DEF Exact
  <2>. QED
    BY <2>3, <2>4, <2>6, <2>7, <2>10, <2>13, Zenon
<1>. QED
  BY <1>6, <1>7, Zenon DEF uartputc

\* The holder of uart_tx_lock releases it; a writer has one character more behind it, which
\* it had given before.
LEMMA ReleasedOut ==
    ASSUME TypeOK, TxLock, Fifo, Ring, Echoing, Exact, tx.at = "start", Released,
           UNCHANGED <<uart, sent>>, dev'.out = dev.out
    PROVE  /\ wr' \in [Writers -> WrType] /\ tx' \in TxType /\ h' \in HType
           /\ TxLock' /\ Fifo' /\ Ring' /\ Echoing' /\ Exact'
<1>1. wr \in [Writers -> WrType] /\ tx.by \in Writers \cup {None, INTR} /\ h \in HType
  BY Zenon DEF TypeOK, TxType
<1>2. tx' \in TxType /\ tx'.by = None /\ tx'.at = None
  BY DEF Released, Free, TxType
<1>3. tx.at # "thr" /\ tx'.at # "thr" /\ tx.at # None
  BY <1>2 DEF None
<1>4. tx.by # None
  BY <1>3, Zenon DEF TxLock
<1>5. Ring' /\ Held' = Held
  BY <1>3, Zenon DEF Ring, Held, InHand, Stored
<1>6. CASE tx.by = INTR
  <2>1. h' = [h EXCEPT !.at = "user"] /\ UNCHANGED wr /\ h.at = "start"
    BY <1>6, Zenon DEF Released, TxLock
  <2>2. h' \in HType /\ h'.at = "user"
    BY <1>1, <2>1, Zenon DEF HType
  <2>3. h'.at # "start" /\ h'.at # "thr" /\ h.at # "thr"
    BY <2>1, <2>2
  <2>4. TxLock'
    BY <1>2, <1>6, <2>1, <2>3, Names, Zenon DEF TxLock
  <2>5. Fifo' /\ Echoing'
    BY <1>3, <2>3, Zenon DEF Fifo, Between, Echoing
  <2>6. Exact'
    BY <1>5, <2>1, SameExact, SameWriters, Zenon
  <2>. QED
    BY <1>1, <1>2, <1>5, <2>1, <2>2, <2>4, <2>5, <2>6, Zenon
<1>7. CASE tx.by # INTR
  <2>1. PICK p \in Writers : p = tx.by
    BY <1>1, <1>4, <1>7, Zenon
  <2>2. /\ wr' = [wr EXCEPT ![p].next = @ + 1, ![p].at = IF wr[p].next = wr[p].last THEN "user" ELSE "put"]
        /\ UNCHANGED h
    BY <1>7, <2>1, Zenon DEF Released
  <2>3. wr[p] \in WrType /\ wr[p].next \in Nat /\ wr[p].at = "start"
    BY <1>1, <2>1, Zenon DEF WrType, TxLock
  <2>4. PICK y \in {"user", "put"} : y = IF wr[p].next = wr[p].last THEN "user" ELSE "put"
    OBVIOUS
  <2>5. wr[p].next + 1 \in Nat /\ wr[p].next + 1 - 1 = wr[p].next - 0
    BY <2>3
  <2>. DEFINE r == [wr[p] EXCEPT !.next = wr[p].next + 1, !.at = y]
  <2>6. wr' = [wr EXCEPT ![p] = r]
    BY <1>1, <2>2, <2>4, Zenon
  <2>7. r \in WrType /\ r.at = y /\ r.next = wr[p].next + 1
    <3>1. y \in {"user", "put", "sleep", "woken", "start"}
      BY <2>4
    <3>. QED
      BY <2>3, <2>5, <3>1, Zenon DEF WrType
  <2>. HIDE DEF r
  <2>8. r.at # "start"
    BY <2>4, <2>7
  <2>9. wr' \in [Writers -> WrType] /\ \A q \in Writers : Accepted(q)' = Accepted(q)
    <3>1. r.next - (IF r.at = "start" THEN 0 ELSE 1) = Accepted(p)
      <4>1. Accepted(p) = wr[p].next - 0
        BY <2>3, Zenon DEF Accepted
      <4>2. (IF r.at = "start" THEN 0 ELSE 1) = 1
        BY <2>8, Zenon
      <4>3. PICK m \in Nat : m = wr[p].next /\ r.next = m + 1 /\ Accepted(p) = m - 0
        BY <2>3, <2>7, <4>1, Zenon
      <4>. QED
        BY <4>2, <4>3
    <3>. QED
      BY <1>1, <2>6, <2>7, <3>1, WriterMoves, Zenon
  <2>10. wr'[p] = r /\ \A q \in Writers : q # p => wr'[q] = wr[q]
    BY <1>1, <2>6, Zenon
  <2>11. TxLock'
    BY <1>2, <2>1, <2>2, <2>8, <2>10, Names, Zenon DEF TxLock
  <2>12. Fifo' /\ Echoing'
    BY <1>3, <2>2, Zenon DEF Fifo, Between, Echoing
  <2>13. Exact'
    BY <1>5, <2>9, SameExact, Zenon
  <2>. QED
    BY <1>1, <1>2, <1>5, <2>2, <2>9, <2>11, <2>12, <2>13, Zenon
<1>. QED
  BY <1>6, <1>7, Zenon

LEMMA UartstartOut ==
    ASSUME TypeOK, TxLock, Fifo, Ring, Echoing, Exact, uartstart
    PROVE  /\ wr' \in [Writers -> WrType] /\ uart' \in UartType /\ tx' \in TxType
           /\ h' \in HType /\ dev' \in DevType
           /\ TxLock' /\ Fifo' /\ Ring' /\ Echoing' /\ Exact'
<1>1. /\ wr \in [Writers -> WrType] /\ uart \in UartType /\ tx \in TxType
      /\ h \in HType /\ dev \in DevType /\ dev.ip \in BOOLEAN
  BY Zenon DEF TypeOK, DevType
<1>2. tx.at = "start" /\ sent' = sent
  BY Zenon DEF uartstart
<1>3. CASE ReadISR /\ Released /\ UNCHANGED uart
  <2>1. dev' = [dev EXCEPT !.ip = dev.ip /\ dev.in # << >>]
    BY <1>3, Zenon DEF ReadISR
  <2>2. (dev.ip /\ dev.in # << >>) \in BOOLEAN
    OBVIOUS
  <2>3. dev' \in DevType /\ dev'.out = dev.out
    BY <1>1, <2>1, <2>2, Zenon DEF DevType
  <2>. QED
    BY <1>1, <1>2, <1>3, <2>3, ReleasedOut, Zenon
<1>4. CASE Released /\ UNCHANGED <<uart, dev>>
  <2>1. dev' \in DevType /\ dev'.out = dev.out
    BY <1>1, <1>4, Zenon
  <2>. QED
    BY <1>1, <1>2, <1>4, <2>1, ReleasedOut, Zenon
<1>5. CASE /\ uart.w # uart.r /\ TxIdle
           /\ uart' = [uart EXCEPT !.r = @ + 1]
           /\ tx' = [tx EXCEPT !.at = "thr", !.c = uart.buf[uart.r % UART_TX_BUF_SIZE]]
           /\ wr' = WokenWriters(wr)
           /\ UNCHANGED <<h, dev>>
  <2>1. uart' \in UartType /\ tx' \in TxType /\ Ring' /\ Held' = Held
    BY <1>2, <1>5, Taking, Zenon
  <2>2. tx'.at = "thr" /\ tx'.by = tx.by
    BY <1>1, <1>5, Zenon DEF TxType
  <2>3. tx'.at # None /\ tx.at # None /\ tx.at # "thr"
    BY <1>2, <2>2 DEF None
  <2>4. ASSUME NEW p \in Writers
        PROVE  /\ wr'[p] \in WrType /\ wr'[p].next = wr[p].next
               /\ wr'[p].at = "start" <=> wr[p].at = "start"
    <3>1. wr[p] \in WrType /\ wr'[p] = IF wr[p].at = "sleep" THEN [wr[p] EXCEPT !.at = "woken"] ELSE wr[p]
      BY <1>1, <1>5, Zenon DEF WokenWriters
    <3>2. CASE wr[p].at = "sleep"
      <4>1. wr'[p] = [wr[p] EXCEPT !.at = "woken"]
        BY <3>1, <3>2, Zenon
      <4>2. wr'[p] \in WrType /\ wr'[p].next = wr[p].next /\ wr'[p].at = "woken"
        BY <3>1, <4>1, Zenon DEF WrType
      <4>3. wr'[p].at # "start" /\ wr[p].at # "start"
        BY <3>2, <4>2
      <4>. QED
        BY <4>2, <4>3, Zenon
    <3>3. CASE wr[p].at # "sleep"
      BY <3>1, <3>3, Zenon
    <3>. QED
      BY <3>2, <3>3, Zenon
  <2>5. wr' \in [Writers -> WrType]
    <3>1. wr' = [p \in Writers |-> wr'[p]]
      BY <1>5, Zenon DEF WokenWriters
    <3>. QED
      BY <2>4, <3>1, Zenon
  <2>6. TxLock'
    BY <1>5, <2>2, <2>3, <2>4, Zenon DEF TxLock
  <2>7. Fifo'
    <3>1. Len(dev'.out) = 0
      BY <1>5 DEF TxIdle
    <3>2. Between(tx'.at) = 1 /\ Between(h'.at) \in {0, 1}
      BY <2>2 DEF Between
    <3>. QED
      BY <3>1, <3>2 DEF Fifo
  <2>8. Echoing'
    BY <1>5, Zenon DEF Echoing
  <2>9. \A p \in Writers : Accepted(p)' = Accepted(p)
    BY <2>4, Zenon DEF Accepted
  <2>10. Exact'
    BY <1>2, <2>1, <2>9, SameExact, Zenon
  <2>11. h' \in HType /\ dev' \in DevType
    BY <1>1, <1>5, Zenon
  <2>. QED
    BY <2>1, <2>5, <2>6, <2>7, <2>8, <2>10, <2>11, Zenon
<1>. QED
  BY <1>3, <1>4, <1>5, Zenon DEF uartstart

LEMMA ThrOut ==
    ASSUME TypeOK, TxLock, Fifo, Ring, Echoing, Exact, uartstart_thr
    PROVE  tx' \in TxType /\ dev' \in DevType /\ TxLock' /\ Fifo' /\ Ring' /\ Echoing' /\ Exact'
<1>1. tx' \in TxType /\ dev' \in DevType /\ Ring' /\ Fifo' /\ Held' = Held
  BY Writing, Zenon
<1>2. UNCHANGED <<wr, h, sent>> /\ tx.at = "thr" /\ tx' = [tx EXCEPT !.at = "start", !.c = NoChar]
  BY Zenon DEF uartstart_thr
<1>3. tx'.at = "start" /\ tx'.by = tx.by
  BY <1>2, Zenon DEF TypeOK, TxType
<1>4. tx'.at # None /\ tx.at # None
  BY <1>2, <1>3 DEF None
<1>5. TxLock' /\ Echoing'
  BY <1>2, <1>3, <1>4, Zenon DEF TxLock, Echoing
<1>6. Exact'
  BY <1>1, <1>2, SameExact, SameWriters, Zenon
<1>. QED
  BY <1>1, <1>5, <1>6, Zenon

-----------------------------------------------------------------------------
LEMMA InitInv == Init => IInv /\ Queue!Init
<1>. SUFFICES ASSUME Init PROVE IInv /\ Queue!Init
  OBVIOUS
<1>1. cons.buf = [i \in Cells |-> None] /\ cons.r = START /\ cons.w = START /\ cons.e = START
  BY Zenon DEF Init, Cells
<1>2. START \in Index
  BY ConsoleConstants, Zenon DEF Index
<1>3. cons \in ConsType
  BY <1>2, Zenon DEF Init, ConsType, Cells, Keys
<1>4. Ahead(START, START) = 0 /\ Line = << >> /\ Ready = << >>
  BY <1>1, <1>2, NoSpan, Zenon DEF Line, Ready
<1>5. Lined
  <2>1. Ahead(cons.r, cons.w) + Ahead(cons.w, cons.e) = 0 + 0
    BY <1>1, <1>4, Zenon
  <2>2. 0 + 0 <= INPUT_BUF_SIZE
    BY Sizes
  <2>3. \A i \in 1 .. Len(Line) : Line[i] # NL
    BY <1>4
  <2>. QED
    BY <2>1, <2>2, <2>3, Zenon DEF Lined
<1>6. \A p \in Readers : rd[p] = [at |-> "user", n |-> 0, ok |-> 0, got |-> << >>, killed |-> FALSE]
  BY Zenon DEF Init
<1>7. rd \in [Readers -> RdType]
  <2>1. [at |-> "user", n |-> 0, ok |-> 0, got |-> << >>, killed |-> FALSE] \in RdType
    BY DEF RdType
  <2>. QED
    BY <2>1, Zenon DEF Init
<1>8. Outside
  BY <1>6 DEF Outside
<1>9. Calls = [p \in Readers |-> Queue!NoCall]
  <2>1. ASSUME NEW p \in Readers
        PROVE  [open |-> rd[p].at # "user", n |-> rd[p].n, got |-> rd[p].got] = Queue!NoCall
    <3>1. (rd[p].at # "user") = FALSE /\ rd[p].n = 0 /\ rd[p].got = << >>
      BY <1>6
    <3>. QED
      BY <3>1, Zenon DEF Queue!NoCall
  <2>. QED
    BY <2>1, Zenon DEF Calls
<1>10. wr \in [Writers -> WrType] /\ \A p \in Writers : wr[p].at = "user" /\ wr[p].next = 1
  <2>1. [at |-> "user", next |-> 1, last |-> 0] \in WrType
    BY DEF WrType
  <2>2. \A p \in Writers : wr[p] = [at |-> "user", next |-> 1, last |-> 0]
    BY Zenon DEF Init
  <2>3. wr \in [Writers -> WrType]
    BY <2>1, Zenon DEF Init
  <2>. QED
    BY <2>2, <2>3
<1>11. uart \in UartType /\ uart.r = 0 /\ uart.w = 0
  <2>1. 0 \in Nat /\ NoChar \in Wire \cup {NoChar}
    OBVIOUS
  <2>. QED
    BY <2>1, Zenon DEF Init, UartType
<1>12. tx \in TxType /\ tx.by = None /\ tx.at = None
  BY Zenon DEF Init, Free, TxType
<1>13. h \in HType /\ h.at = "user"
  BY DEF Init, HType
<1>14. dev \in DevType /\ dev.out = << >>
  BY DEF Init, DevType
<1>15. sent \in [Writers -> Nat] /\ \A p \in Writers : sent[p] = 0
  <2>1. 0 \in Nat
    OBVIOUS
  <2>. QED
    BY <2>1, Zenon DEF Init
<1>16. TypeOK
  BY <1>3, <1>7, <1>10, <1>11, <1>12, <1>13, <1>14, <1>15 DEF TypeOK, Init
<1>17. tx.at # "thr" /\ h.at # "thr" /\ h.at # "start" /\ \A p \in Writers : wr[p].at # "start"
  BY <1>10, <1>12, <1>13 DEF None
<1>18. TxLock /\ Echoing
  BY <1>12, <1>17, Names, Zenon DEF TxLock, Echoing
<1>19. Fifo
  BY <1>14, <1>17 DEF Fifo, Between
<1>20. 0 - 0 = 0 /\ 1 .. 0 = {}
  OBVIOUS
<1>21. Ring
  <2>1. 0 <= 0 /\ 0 <= 0 + UART_TX_BUF_SIZE
    BY ConsoleConstants
  <2>. QED
    BY <1>11, <1>17, <1>20, <2>1, Zenon DEF Ring
<1>22. Held = << >>
  <2>1. Stored = << >>
    <3>1. Stored = [i \in {} |-> uart.buf[(uart.r + i - 1) % UART_TX_BUF_SIZE]]
      BY <1>11, <1>20, Zenon DEF Stored
    <3>. QED
      BY <3>1
  <2>2. << >> \o (<< >> \o << >>) = << >>
    OBVIOUS
  <2>. QED
    BY <1>14, <1>17, <2>1, <2>2, Zenon DEF Held, InHand
<1>23. Exact
  <2>1. ASSUME NEW p \in Writers PROVE Accepted(p) = 0
    <3>1. Accepted(p) = 1 - 1
      BY <1>10, <1>17, Zenon DEF Accepted
    <3>. QED
      BY <3>1
  <2>2. ASSUME NEW p \in Writers PROVE InOrder(<< >>, p, 0, 0)
    BY DEF InOrder
  <2>. QED
    BY <1>15, <1>22, <2>1, <2>2, Zenon DEF Exact
<1>. QED
  BY <1>4, <1>5, <1>8, <1>9, <1>16, <1>18, <1>19, <1>21, <1>23, Zenon DEF IInv, Queue!Init

\* A step that is not of the input.
LEMMA SameInput ==
    ASSUME TypeOK, Lined, Outside, UNCHANGED <<cons, rd>>
    PROVE  cons' \in ConsType /\ Lined' /\ rd' \in [Readers -> RdType] /\ Outside' /\ QueueStep
<1>1. cons' \in ConsType /\ Lined' /\ rd' \in [Readers -> RdType] /\ Outside'
  BY Zenon DEF TypeOK, Lined, Line, Outside
<1>2. QueueStep
  BY Zenon DEF QueueStep, Line, Ready, Calls
<1>. QED
  BY <1>1, <1>2, Zenon

\* A step of a reader that leaves the ring alone and is not a call.
LEMMA SameInputRing ==
    ASSUME TypeOK, Lined, UNCHANGED cons, Calls' = Calls
    PROVE  cons' \in ConsType /\ Lined' /\ QueueStep
<1>1. cons' \in ConsType /\ Lined'
  BY Zenon DEF TypeOK, Lined, Line
<1>2. QueueStep
  BY Zenon DEF QueueStep, Line, Ready
<1>. QED
  BY <1>1, <1>2, Zenon

LEMMA Happened == ASSUME TypeOK, Happens(1) PROVE events' \in Nat
BY DEF TypeOK, Happens

\* Every step keeps the invariant, and is a step of the line queue or none of it.
LEMMA StepInv == IInv /\ [Next]_vars => IInv' /\ QueueStep
<1>. SUFFICES ASSUME IInv, [Next]_vars PROVE IInv' /\ QueueStep
  OBVIOUS
<1>1. TypeOK /\ Lined /\ Outside /\ TxLock /\ Fifo /\ Ring /\ Echoing /\ Exact
  BY Zenon DEF IInv
<1>2. /\ cons \in ConsType /\ rd \in [Readers -> RdType] /\ wr \in [Writers -> WrType]
      /\ uart \in UartType /\ tx \in TxType /\ h \in HType /\ dev \in DevType
      /\ sent \in [Writers -> Nat] /\ events \in Nat
  BY <1>1, Zenon DEF TypeOK
<1>. DEFINE TypeOut == /\ wr' \in [Writers -> WrType] /\ uart' \in UartType /\ tx' \in TxType
                       /\ h' \in HType /\ dev' \in DevType /\ sent' \in [Writers -> Nat]
            Out == TxLock' /\ Fifo' /\ Ring' /\ Echoing' /\ Exact'
            In == cons' \in ConsType /\ Lined' /\ rd' \in [Readers -> RdType] /\ Outside' /\ QueueStep
<1>3. SUFFICES TypeOut /\ Out /\ In /\ events' \in Nat
  BY <1>3, Zenon DEF IInv, TypeOK
<1>4. ASSUME UNCHANGED <<wr, uart, tx, h, dev, sent>> PROVE TypeOut /\ Out
  BY <1>1, <1>2, <1>4, SameOutput, Zenon
<1>5. ASSUME UNCHANGED <<cons, rd>> PROVE In
  BY <1>1, <1>5, SameInput, Zenon
<1>6. CASE UNCHANGED vars
  BY <1>2, <1>4, <1>5, <1>6, Zenon DEF vars
<1>7. ASSUME NEW p \in Readers, read_call(p) PROVE TypeOut /\ Out /\ In /\ events' \in Nat
  <2>1. UNCHANGED <<cons, wr, uart, tx, h, dev, sent>> /\ Happens(1)
    BY <1>7, Zenon DEF read_call
  <2>2. rd' \in [Readers -> RdType] /\ Outside' /\ Queue!Begin(p)
    BY <1>1, <1>7, ReadCallIn, Zenon
  <2>3. QueueStep
    BY <2>2, Zenon DEF QueueStep, Queue!Next
  <2>4. cons' \in ConsType /\ Lined'
    BY <1>1, <1>2, <2>1, Zenon DEF Lined, Line
  <2>. QED
    BY <1>1, <1>4, <2>1, <2>2, <2>3, <2>4, Happened, Zenon
<1>8. ASSUME NEW p \in Readers, wake_reader(p) PROVE TypeOut /\ Out /\ In /\ events' \in Nat
  <2>1. UNCHANGED <<cons, wr, uart, tx, h, dev, sent, events>>
    BY <1>8, Zenon DEF wake_reader
  <2>2. rd' \in [Readers -> RdType] /\ Outside' /\ Calls' = Calls
    BY <1>1, <1>8, WakeReaderIn, Zenon
  <2>. QED
    BY <1>1, <1>2, <1>4, <2>1, <2>2, SameInputRing, Zenon
<1>9. ASSUME NEW p \in Readers, kill(p) PROVE TypeOut /\ Out /\ In /\ events' \in Nat
  <2>1. UNCHANGED <<cons, wr, uart, tx, h, dev, sent>> /\ Happens(1)
    BY <1>9, Zenon DEF kill
  <2>2. rd' \in [Readers -> RdType] /\ Outside' /\ Calls' = Calls
    BY <1>1, <1>9, KillIn, Zenon
  <2>. QED
    BY <1>1, <1>4, <2>1, <2>2, Happened, SameInputRing, Zenon
<1>10. ASSUME NEW p \in Readers, consoleread(p) PROVE TypeOut /\ Out /\ In /\ events' \in Nat
  <2>1. UNCHANGED <<wr, uart, tx, h, dev, sent, events>>
    BY <1>10, Zenon DEF consoleread
  <2>2. In
    BY <1>1, <1>10, ConsolereadIn, Zenon
  <2>. QED
    BY <1>2, <1>4, <2>1, <2>2, Zenon
<1>11. ASSUME NEW p \in Writers, write_call(p) PROVE TypeOut /\ Out /\ In /\ events' \in Nat
  <2>1. UNCHANGED <<cons, rd, uart, tx, h, dev, sent>>
    BY <1>11, Zenon DEF write_call
  <2>2. wr' \in [Writers -> WrType] /\ events' \in Nat /\ Out
    BY <1>1, <1>11, WriteCallOut, Zenon
  <2>. QED
    BY <1>2, <1>5, <2>1, <2>2, Zenon
<1>12. ASSUME NEW p \in Writers, uartputc(p) PROVE TypeOut /\ Out /\ In /\ events' \in Nat
  <2>1. UNCHANGED <<cons, rd, h, dev, sent, events>>
    BY <1>12, Zenon DEF uartputc
  <2>2. wr' \in [Writers -> WrType] /\ uart' \in UartType /\ tx' \in TxType /\ Out
    BY <1>1, <1>12, UartputcOut, Zenon
  <2>. QED
    BY <1>2, <1>5, <2>1, <2>2, Zenon
<1>13. CASE uartstart
  <2>1. UNCHANGED <<cons, rd, sent, events>>
    BY <1>13, Zenon DEF uartstart
  <2>2. /\ wr' \in [Writers -> WrType] /\ uart' \in UartType /\ tx' \in TxType
        /\ h' \in HType /\ dev' \in DevType /\ Out
    BY <1>1, <1>13, UartstartOut, Zenon
  <2>. QED
    BY <1>2, <1>5, <2>1, <2>2, Zenon
<1>14. CASE uartstart_thr
  <2>1. UNCHANGED <<cons, rd, wr, uart, h, sent, events>>
    BY <1>14, Zenon DEF uartstart_thr
  <2>2. tx' \in TxType /\ dev' \in DevType /\ Out
    BY <1>1, <1>14, ThrOut, Zenon
  <2>. QED
    BY <1>2, <1>5, <2>1, <2>2, Zenon
<1>15. CASE devintr
  <2>1. UNCHANGED <<cons, rd, wr, uart, tx, dev, sent, events>>
    BY <1>15, Zenon DEF devintr
  <2>2. h' \in HType /\ Out
    BY <1>1, <1>15, DevintrOut, Zenon
  <2>. QED
    BY <1>2, <1>5, <2>1, <2>2, Zenon
<1>16. CASE uartgetc
  <2>1. UNCHANGED <<wr, uart, tx, sent, events>>
    BY <1>16, Zenon DEF uartgetc
  <2>2. h' \in HType /\ dev' \in DevType /\ Out /\ In
    BY <1>1, <1>16, UartgetcOut, Zenon
  <2>. QED
    BY <1>2, <2>1, <2>2, Zenon
<1>17. CASE uartputc_sync
  <2>1. UNCHANGED <<cons, rd, wr, uart, tx, sent, events>>
    BY <1>17, Zenon DEF uartputc_sync
  <2>2. h' \in HType /\ dev' \in DevType /\ Out
    BY <1>1, <1>17, EchoOut, Zenon
  <2>. QED
    BY <1>2, <1>5, <2>1, <2>2, Zenon
<1>18. CASE uartintr_start
  <2>1. UNCHANGED <<cons, rd, wr, uart, dev, sent, events>>
    BY <1>18, Zenon DEF uartintr_start
  <2>2. h' \in HType /\ tx' \in TxType /\ Out
    BY <1>1, <1>18, IntrStartOut, Zenon
  <2>. QED
    BY <1>2, <1>5, <2>1, <2>2, Zenon
<1>19. CASE device_transmit
  <2>1. UNCHANGED <<cons, rd, wr, uart, tx, h, events>>
    BY <1>19, Zenon DEF device_transmit
  <2>2. dev' \in DevType /\ sent' \in [Writers -> Nat] /\ Out
    BY <1>1, <1>19, TransmitOut, Zenon
  <2>. QED
    BY <1>2, <1>5, <2>1, <2>2, Zenon
<1>20. CASE device_receive
  <2>1. UNCHANGED <<cons, rd, wr, uart, tx, h, sent>> /\ Happens(1)
    BY <1>20, Zenon DEF device_receive
  <2>2. dev' \in DevType /\ Out
    BY <1>1, <1>20, ReceiveOut, Zenon
  <2>. QED
    BY <1>1, <1>2, <1>5, <2>1, <2>2, Happened, Zenon
<1>. QED
  BY <1>6, <1>7, <1>8, <1>9, <1>10, <1>11, <1>12, <1>13, <1>14, <1>15, <1>16, <1>17, <1>18, <1>19, <1>20,
     Zenon DEF Next, Handler, Lines, Reader

\* The invariant holds in every state of the console.
THEOREM Invariance == Spec => []IInv
<1>1. Init => IInv
  BY InitInv
<1>2. IInv /\ [Next]_vars => IInv'
  BY StepInv
<1>. QED
  BY <1>1, <1>2, PTL DEF Spec

\* Console output is exact for any number of writers, any ring and any FIFO of two characters
\* or more: what was given to uartputc() and is not yet on the wire is in the FIFO, in the hands
\* of uartstart() or in uart_tx_buf, once and in order, and THR is never written when the FIFO
\* is full, although the echo does not take uart_tx_lock.
THEOREM OutputIsExact == Spec => []OutputExact
<1>1. IInv => OutputExact
  <2>. SUFFICES ASSUME IInv PROVE OutputExact
    OBVIOUS
  <2>1. (tx.at = "thr" \/ h.at = "thr") => Len(dev.out) < FIFO_SIZE
    BY ThrRoom, Zenon DEF IInv
  <2>. QED
    BY <2>1, Zenon DEF IInv, Exact, OutputExact
<1>. QED
  BY <1>1, Invariance, PTL

\* consoleintr() and consoleread() implement the line queue: for every size of the input buffer
\* and every wrap of its indices, what is typed, edited, committed and read is what the queue of
\* lines does in one step, or nothing.
THEOREM ConsoleIsLineQueue == Spec => IsLineQueue
<1>1. Init => Queue!Init
  BY InitInv
<1>2. IInv /\ [Next]_vars => [Queue!Next]_<<Line, Ready, Calls>>
  BY StepInv, Zenon DEF QueueStep
<1>. QED
  BY <1>1, <1>2, Invariance, PTL DEF Spec, IsLineQueue, Queue!Spec, Queue!vars

=============================================================================
