-------------------------- MODULE VirtioDiskProofs --------------------------
(***************************************************************************)
(* Proofs about the virtio disk driver, for any processes and buffers, any *)
(* number of descriptors and any width of the ring indices that it divides:*)
(* no descriptor is lost or shared, the device serves every request once   *)
(* and for the right buffer, and none of the driver's panics is reached.   *)
(***************************************************************************)
EXTENDS VirtioDisk, FunctionTheorems, TLAPS

\* What the definition of % says of a quotient and a remainder.
LEMMA Division ==
    ASSUME NEW m \in Nat \ {0}, NEW x \in Int
    PROVE  /\ x % m \in 0 .. m - 1
           /\ \E q \in Int : x = m * q + (x % m)
<1>1. x % m \in 0 .. m - 1
  OBVIOUS
<1>2. x \div m \in Int
  OBVIOUS
<1>3. x = m * (x \div m) + (x % m)
  OBVIOUS
<1>. QED
  BY <1>1, <1>2, <1>3, Zenon

\* A multiple of m below m and above -m is 0.
LEMMA SmallMultiple ==
    ASSUME NEW m \in Nat \ {0}, NEW q \in Int, m * q < m, m * q > -m
    PROVE  q = 0
<1>1. CASE q >= 1
  <2>1. m * q >= m * 1
    BY <1>1
  <2>. QED
    BY <2>1
<1>2. CASE q <= -1
  <2>1. m * q <= m * (-1)
    BY <1>2
  <2>. QED
    BY <2>1
<1>. QED
  BY <1>1, <1>2

\* The remainder is unique.
LEMMA Remainder ==
    ASSUME NEW m \in Nat \ {0}, NEW x \in Int, NEW q \in Int, NEW r \in 0 .. m - 1,
           x = m * q + r
    PROVE  x % m = r
<1>1. PICK s \in Int : x = m * s + (x % m)
  BY Division, Zenon
<1>2. x % m \in 0 .. m - 1
  BY Division, Zenon
<1>3. m * (q - s) = (x % m) - r
  <2>1. m * (q - s) = m * q - m * s
    OBVIOUS
  <2>2. m * q \in Int /\ m * s \in Int
    OBVIOUS
  <2>. QED
    BY <1>1, <1>2, <2>1, <2>2
<1>4. q - s = 0
  <2>1. m * (q - s) < m /\ m * (q - s) > -m
    BY <1>2, <1>3
  <2>. QED
    BY <2>1, SmallMultiple
<1>5. m * (q - s) = 0
  BY <1>4
<1>. QED
  BY <1>2, <1>3, <1>5

\* Numbers that differ by a multiple of m have the same remainder.
LEMMA Congruent ==
    ASSUME NEW m \in Nat \ {0}, NEW x \in Int, NEW y \in Int, NEW q \in Int, x = y + m * q
    PROVE  x % m = y % m
<1>1. PICK s \in Int : y = m * s + (y % m)
  BY Division, Zenon
<1>2. y % m \in 0 .. m - 1
  BY Division, Zenon
<1>3. x = m * (s + q) + (y % m)
  <2>1. m * (s + q) = m * s + m * q
    OBVIOUS
  <2>2. PICK a \in Int, b \in Int, r \in Int : a = m * s /\ b = m * q /\ r = y % m
    BY <1>2
  <2>3. y = a + r /\ x = y + b /\ m * (s + q) = a + b
    BY <1>1, <2>1, <2>2, Zenon
  <2>4. x = (a + b) + r
    BY <2>3
  <2>. QED
    BY <2>2, <2>3, <2>4, Zenon
<1>4. s + q \in Int
  OBVIOUS
<1>. QED
  BY <1>2, <1>3, <1>4, Remainder, Zenon

\* A step forward or backward inside a round.
LEMMA NextRemainder ==
    ASSUME NEW m \in Nat \ {0}, NEW x \in Int
    PROVE  /\ x % m < m - 1 => (x + 1) % m = (x % m) + 1
           /\ x % m > 0 => (x - 1) % m = (x % m) - 1
           /\ x % m = 0 => (x - 1) % m = m - 1
<1>1. PICK q \in Int : x = m * q + (x % m)
  BY Division, Zenon
<1>2. x % m \in 0 .. m - 1
  BY Division, Zenon
<1>3. PICK a \in Int, r \in Int : a = m * q /\ r = x % m
  BY <1>2
<1>4. x = a + r /\ r \in 0 .. m - 1
  BY <1>1, <1>2, <1>3, Zenon
<1>5. ASSUME r < m - 1 PROVE (x + 1) % m = r + 1
  <2>1. x + 1 = a + (r + 1) /\ r + 1 \in 0 .. m - 1 /\ x + 1 \in Int
    BY <1>4, <1>5
  <2>. QED
    BY <1>3, <2>1, Remainder, Zenon
<1>6. ASSUME r > 0 PROVE (x - 1) % m = r - 1
  <2>1. x - 1 = a + (r - 1) /\ r - 1 \in 0 .. m - 1 /\ x - 1 \in Int
    BY <1>4, <1>6
  <2>. QED
    BY <1>3, <2>1, Remainder, Zenon
<1>7. ASSUME r = 0 PROVE (x - 1) % m = m - 1
  <2>1. x - 1 = (a - m) + (m - 1) /\ m - 1 \in 0 .. m - 1 /\ x - 1 \in Int /\ q - 1 \in Int
    BY <1>4, <1>7
  <2>2. m * (q - 1) = m * q - m
    OBVIOUS
  <2>. QED
    BY <1>3, <2>1, <2>2, Remainder
<1>. QED
  BY <1>3, <1>5, <1>6, <1>7, Zenon

-----------------------------------------------------------------------------
\* The places of a ring from index a up to index b.
Window(a, b) == {s \in Descs : (s - a) % NUM < Uint16(b - a)}

LEMMA Sizes ==
    /\ NUM \in Nat \ {0} /\ WRAP \in Nat \ {0} /\ WRAP > NUM
    /\ \E c \in Int : WRAP = NUM * c
<1>1. NUM \in Nat \ {0} /\ WRAP \in Nat \ {0} /\ WRAP > NUM /\ WRAP % NUM = 0
  BY VirtioConstants
<1>2. PICK c \in Int : WRAP = NUM * c + (WRAP % NUM)
  <2>1. WRAP \in Int
    BY <1>1
  <2>. QED
    BY <1>1, <2>1, Division, Zenon
<1>3. PICK a \in Int : a = NUM * c
  BY <1>1
<1>4. WRAP = a
  BY <1>1, <1>2, <1>3
<1>. QED
  BY <1>1, <1>3, <1>4, Zenon

\* An index that wraps points to the same place of the ring, whose size divides the modulus.
LEMMA SamePlace ==
    ASSUME NEW x \in Int, NEW y \in Int, NEW q \in Int, x = y + WRAP * q
    PROVE  x % NUM = y % NUM
<1>1. PICK c \in Int : WRAP = NUM * c
  BY Sizes, Zenon
<1>2. NUM \in Nat \ {0}
  BY Sizes, Zenon
<1>3. (NUM * c) * q = NUM * (c * q)
  BY <1>2
<1>4. c * q \in Int
  OBVIOUS
<1>5. x = y + NUM * (c * q)
  BY <1>1, <1>3, Zenon
<1>. QED
  BY <1>2, <1>4, <1>5, Congruent, Zenon

\* uint16 arithmetic: what it subtracts, and that it keeps the place in the ring.
LEMMA Wrapped ==
    ASSUME NEW x \in Int
    PROVE  /\ Uint16(x) \in 0 .. WRAP - 1
           /\ \E q \in Int : Uint16(x) = x + WRAP * q
           /\ Uint16(x) % NUM = x % NUM
<1>1. WRAP \in Nat \ {0}
  BY Sizes, Zenon
<1>2. Uint16(x) \in 0 .. WRAP - 1
  BY <1>1, Division DEF Uint16
<1>3. PICK q \in Int : x = WRAP * q + Uint16(x)
  BY <1>1, Division, Zenon DEF Uint16
<1>4. WRAP * (-q) = -(WRAP * q)
  BY <1>1
<1>5. -q \in Int /\ Uint16(x) \in Int /\ WRAP * q \in Int
  BY <1>1, <1>2
<1>6. Uint16(x) = x + WRAP * (-q)
  <2>1. PICK a \in Int, u \in Int : a = WRAP * q /\ u = Uint16(x)
    BY <1>5, Zenon
  <2>2. x = a + u
    BY <1>3, <2>1, Zenon
  <2>3. u = x + (-a)
    BY <2>2
  <2>. QED
    BY <1>4, <2>1, <2>3, Zenon
<1>7. Uint16(x) % NUM = x % NUM
  BY <1>5, <1>6, SamePlace, Zenon
<1>. QED
  BY <1>2, <1>5, <1>6, <1>7, Zenon

\* Two places of the ring are as far from a as each other only if they are the same.
LEMMA PlaceUnique ==
    ASSUME NEW a \in Int, NEW s \in Descs, NEW t \in Descs, (s - a) % NUM = (t - a) % NUM
    PROVE  s = t
<1>0. PICK m \in Nat \ {0} : m = NUM /\ s \in 0 .. m - 1 /\ t \in 0 .. m - 1
  BY Sizes DEF Descs
<1>10. s - a \in Int /\ t - a \in Int
  BY <1>0
<1>1. PICK q \in Int : s - a = m * q + ((s - a) % m)
  BY <1>10, Division, Zenon
<1>2. PICK r \in Int : t - a = m * r + ((t - a) % m)
  BY <1>10, Division, Zenon
<1>3. PICK x \in Int, y \in Int, z \in Int : x = m * q /\ y = m * r /\ z = (s - a) % m
  BY <1>0, Division
<1>4. s - a = x + z /\ t - a = y + z
  BY <1>0, <1>1, <1>2, <1>3, Zenon
<1>5. x - y = s - t
  BY <1>0, <1>4
<1>6. m * (q - r) = x - y
  BY <1>3
<1>7. q - r \in Int /\ m * (q - r) < m /\ m * (q - r) > -m
  BY <1>0, <1>5, <1>6
<1>8. q - r = 0
  BY <1>7, SmallMultiple, Zenon
<1>9. m * (q - r) = 0
  BY <1>8
<1>. QED
  BY <1>0, <1>5, <1>6, <1>9

\* An index that advances adds its place to the window behind it.
LEMMA Grow ==
    ASSUME NEW a \in 0 .. WRAP - 1, NEW b \in 0 .. WRAP - 1, Uint16(b - a) < NUM
    PROVE  /\ Uint16(Uint16(b + 1) - a) = Uint16(b - a) + 1
           /\ b % NUM \in Descs /\ b % NUM \notin Window(a, b)
           /\ Window(a, Uint16(b + 1)) = Window(a, b) \cup {b % NUM}
<1>. DEFINE L == Uint16(b - a)
<1>1. NUM \in Nat \ {0} /\ WRAP \in Nat \ {0} /\ WRAP > NUM /\ a \in Int /\ b \in Int
  BY Sizes
<1>2. b - a \in Int /\ b + 1 \in Int /\ (b - a) + 1 \in Int
  BY <1>1
<1>3. L \in 0 .. WRAP - 1 /\ L < NUM /\ L % NUM = (b - a) % NUM
  BY <1>2, Wrapped, Zenon
<1>4. Uint16(Uint16(b + 1) - a) = L + 1
  <2>1. PICK q \in Int : Uint16(b + 1) = (b + 1) + WRAP * q
    BY <1>2, Wrapped, Zenon
  <2>2. Uint16(b + 1) - a = ((b - a) + 1) + WRAP * q /\ Uint16(b + 1) - a \in Int
    BY <1>1, <2>1
  <2>3. Uint16(Uint16(b + 1) - a) = Uint16((b - a) + 1)
    BY <1>1, <1>2, <2>2, Congruent, Zenon DEF Uint16
  <2>4. Uint16(b - a) < WRAP - 1
    BY <1>1, <1>3
  <2>. QED
    BY <1>1, <1>2, <2>3, <2>4, NextRemainder, Zenon DEF Uint16
<1>5. b % NUM \in Descs
  BY <1>1, Division, Zenon DEF Descs
<1>6. ((b % NUM) - a) % NUM = L
  <2>1. PICK q \in Int : b = NUM * q + (b % NUM)
    BY <1>1, Division, Zenon
  <2>2. b - a = ((b % NUM) - a) + NUM * q /\ (b % NUM) - a \in Int
    BY <1>1, <1>5, <2>1 DEF Descs
  <2>3. (b - a) % NUM = ((b % NUM) - a) % NUM
    BY <1>1, <1>2, <2>2, Congruent, Zenon
  <2>4. L = NUM * 0 + L /\ L \in 0 .. NUM - 1 /\ L \in Int /\ 0 \in Int
    BY <1>1, <1>3
  <2>5. L % NUM = L
    BY <1>1, <2>4, Remainder, Zenon
  <2>. QED
    BY <1>3, <2>3, <2>5, Zenon
<1>. HIDE DEF L
<1>7. ASSUME NEW s \in Descs
      PROVE  (s - a) % NUM < L + 1 <=> (s - a) % NUM < L \/ s = b % NUM
  <2>1. s - a \in Int
    BY <1>1 DEF Descs
  <2>2. PICK r \in Int : r = (s - a) % NUM
    BY <1>1, <2>1, Division
  <2>3. r < L + 1 <=> r < L \/ r = L
    BY <1>3, <2>2
  <2>4. r = L <=> s = b % NUM
    BY <1>1, <1>5, <1>6, <2>2, PlaceUnique, Zenon
  <2>. QED
    BY <2>2, <2>3, <2>4, Zenon
<1>8. ~ L < L
  BY <1>3
<1>9. b % NUM \notin Window(a, b)
  BY <1>6, <1>8, Zenon DEF Window, L
<1>10. ASSUME NEW s
       PROVE  s \in Window(a, Uint16(b + 1)) <=> s \in Window(a, b) \/ s = b % NUM
  BY <1>4, <1>5, <1>7, Zenon DEF Window, L
<1>. QED
  BY <1>4, <1>5, <1>9, <1>10, Zenon DEF L

\* An index that follows takes its place out of the window before it.
LEMMA Shrink ==
    ASSUME NEW a \in 0 .. WRAP - 1, NEW b \in 0 .. WRAP - 1, a # b, Uint16(b - a) <= NUM
    PROVE  /\ Uint16(b - Uint16(a + 1)) = Uint16(b - a) - 1
           /\ a % NUM \in Window(a, b)
           /\ Window(Uint16(a + 1), b) = Window(a, b) \ {a % NUM}
<1>. DEFINE L == Uint16(b - a)
            c == Uint16(a + 1)
<1>1. NUM \in Nat \ {0} /\ WRAP \in Nat \ {0} /\ WRAP > NUM /\ a \in Int /\ b \in Int
  BY Sizes
<1>2. b - a \in Int /\ a + 1 \in Int /\ (b - a) - 1 \in Int
  BY <1>1
<1>3. L \in 0 .. WRAP - 1 /\ L <= NUM
  BY <1>2, Wrapped, Zenon
<1>4. L > 0
  <2>. SUFFICES ASSUME L = 0 PROVE FALSE
    BY <1>3
  <2>1. PICK q \in Int : b - a = WRAP * q + 0
    BY <1>1, <1>2, Division, Zenon DEF Uint16
  <2>2. WRAP * q < WRAP /\ WRAP * q > -WRAP
    BY <1>1, <2>1
  <2>3. q = 0
    BY <1>1, <2>2, SmallMultiple, Zenon
  <2>4. WRAP * q = 0
    BY <1>1, <2>3
  <2>. QED
    BY <1>1, <2>1, <2>4
<1>5. PICK q \in Int : c = (a + 1) + WRAP * q
  BY <1>2, Wrapped, Zenon
<1>6. c \in Int
  BY <1>2, Wrapped
<1>. HIDE DEF c
<1>7. PICK k \in Int : k = -q
  OBVIOUS
<1>8. PICK e \in Int : e = WRAP * k /\ e = -(WRAP * q) /\ WRAP * q \in Int
  BY <1>1, <1>7
<1>9. c = (a + 1) - e
  <2>1. PICK g \in Int : g = WRAP * q
    BY <1>8, Zenon
  <2>2. c = (a + 1) + g /\ e = -g
    BY <1>5, <1>8, <2>1, Zenon
  <2>. QED
    BY <1>1, <2>2
<1>10. Uint16(b - c) = L - 1
  <2>1. b - c = ((b - a) - 1) + e /\ b - c \in Int
    BY <1>1, <1>9
  <2>2. (b - c) % WRAP = ((b - a) - 1) % WRAP
    <3>1. PICK x \in Int, y \in Int : x = b - c /\ y = (b - a) - 1
      BY <1>2, <2>1, Zenon
    <3>2. x = y + WRAP * k
      BY <1>8, <2>1, <3>1, Zenon
    <3>3. x % WRAP = y % WRAP
      BY <1>1, <3>2, Congruent, Zenon
    <3>. QED
      BY <3>1, <3>3, Zenon
  <2>. QED
    BY <1>1, <1>2, <1>4, <2>2, NextRemainder, Zenon DEF Uint16
<1>11. a % NUM \in Descs
  BY <1>1, Division, Zenon DEF Descs
<1>12. ((a % NUM) - a) % NUM = 0
  <2>1. PICK r \in Int : a = NUM * r + (a % NUM)
    BY <1>1, Division, Zenon
  <2>2. NUM * (-r) = -(NUM * r) /\ -r \in Int /\ 0 \in 0 .. NUM - 1
    BY <1>1
  <2>3. (a % NUM) - a = NUM * (-r) + 0 /\ (a % NUM) - a \in Int
    <3>1. PICK g \in Int, u \in Int : g = NUM * r /\ u = a % NUM
      BY <1>1, <1>11 DEF Descs
    <3>2. a = g + u
      BY <2>1, <3>1, Zenon
    <3>3. u - a = -g + 0 /\ u - a \in Int
      BY <3>2
    <3>. QED
      BY <2>2, <3>1, <3>3, Zenon
  <2>. QED
    BY <1>1, <2>2, <2>3, Remainder, Zenon
<1>. HIDE DEF L
<1>13. ASSUME NEW s \in Descs
       PROVE  (s - c) % NUM < L - 1 <=> (s - a) % NUM < L /\ s # a % NUM
  <2>1. s - a \in Int /\ (s - a) - 1 \in Int /\ s - c \in Int /\ s - c = ((s - a) - 1) + e
    BY <1>1, <1>6, <1>9 DEF Descs
  <2>2. (s - c) % NUM = ((s - a) - 1) % NUM
    <3>1. PICK x \in Int, y \in Int : x = s - c /\ y = (s - a) - 1
      BY <1>2, <2>1, Zenon
    <3>2. x = y + WRAP * k
      BY <1>8, <2>1, <3>1, Zenon
    <3>3. x % NUM = y % NUM
      BY <3>2, SamePlace, Zenon
    <3>. QED
      BY <3>1, <3>3, Zenon
  <2>3. PICK r \in Int : r = (s - a) % NUM /\ r >= 0
    BY <1>1, <2>1, Division
  <2>4. r = 0 <=> s = a % NUM
    BY <1>1, <1>11, <1>12, <2>3, PlaceUnique, Zenon
  <2>5. CASE r = 0
    <3>1. (s - c) % NUM = NUM - 1
      BY <1>1, <2>1, <2>2, <2>3, <2>5, NextRemainder
    <3>2. ~ NUM - 1 < L - 1
      BY <1>1, <1>3
    <3>. QED
      BY <2>4, <2>5, <3>1, <3>2, Zenon
  <2>6. CASE r # 0
    <3>1. r > 0
      BY <2>3, <2>6
    <3>2. (s - c) % NUM = r - 1
      BY <1>1, <2>1, <2>2, <2>3, <3>1, NextRemainder, Zenon
    <3>3. r - 1 < L - 1 <=> r < L
      BY <1>3
    <3>. QED
      BY <2>3, <2>4, <2>6, <3>2, <3>3, Zenon
  <2>. QED
    BY <2>5, <2>6, Zenon
<1>14. 0 < L
  BY <1>3, <1>4
<1>15. a % NUM \in Window(a, b)
  BY <1>11, <1>12, <1>14, Zenon DEF Window, L
<1>16. ASSUME NEW s
       PROVE  s \in Window(c, b) <=> s \in Window(a, b) /\ s # a % NUM
  BY <1>10, <1>13, Zenon DEF Window, L
<1>. QED
  BY <1>10, <1>15, <1>16, Zenon DEF L, c

\* A window of as many entries as the ring has is the whole ring, an empty one nothing.
LEMMA WholeRing ==
    ASSUME NEW a \in 0 .. WRAP - 1, NEW b \in 0 .. WRAP - 1, Uint16(b - a) = NUM
    PROVE  Window(a, b) = Descs
<1>1. ASSUME NEW s \in Descs PROVE (s - a) % NUM < NUM
  BY Sizes DEF Descs
<1>. QED
  BY <1>1, Zenon DEF Window

LEMMA EmptyWindow ==
    ASSUME NEW a \in 0 .. WRAP - 1
    PROVE  Uint16(a - a) = 0 /\ Window(a, a) = {}
<1>1. NUM \in Nat \ {0} /\ WRAP \in Nat \ {0} /\ WRAP > NUM /\ a \in Int
  BY Sizes
<1>2. 0 = WRAP * 0 + 0 /\ 0 \in 0 .. WRAP - 1 /\ 0 \in Int /\ a - a = 0
  BY <1>1
<1>3. Uint16(a - a) = 0
  BY <1>1, <1>2, Remainder, Zenon DEF Uint16
<1>4. ASSUME NEW s \in Descs PROVE ~ (s - a) % NUM < 0
  BY <1>1 DEF Descs
<1>. QED
  BY <1>3, <1>4, Zenon DEF Window

\* A ring whose entries differ and leave out a descriptor is not full.
LEMMA NotFull ==
    ASSUME NEW f \in [Descs -> Descs], NEW a \in 0 .. WRAP - 1, NEW b \in 0 .. WRAP - 1,
           NEW h \in Descs, Uint16(b - a) <= NUM,
           \A s, t \in Window(a, b) : f[s] = f[t] => s = t,
           \A s \in Window(a, b) : f[s] # h
    PROVE  Uint16(b - a) < NUM
<1>. SUFFICES ASSUME ~ Uint16(b - a) < NUM PROVE FALSE
  BY Zenon
<1>1. NUM \in Nat /\ Uint16(b - a) \in Int
  BY Sizes, Wrapped
<1>2. Uint16(b - a) = NUM
  BY <1>1
<1>3. Window(a, b) = Descs
  BY <1>2, WholeRing, Zenon
<1>. DEFINE Onto(x) == IF x = NUM - 1 THEN h + 1 ELSE x + 1
<1>. DEFINE g == [i \in 1 .. NUM |-> Onto(f[i - 1])]
<1>4. \A s \in Descs : f[s] \in Descs /\ f[s] # h
  BY <1>3, Zenon
<1>5. \A i \in 1 .. NUM : i - 1 \in Descs
  BY <1>1 DEF Descs
<1>6. \A x \in Descs : x # h => Onto(x) \in 1 .. NUM - 1
  BY <1>1 DEF Descs
<1>7. ASSUME NEW x \in Descs, NEW y \in Descs, x # h, y # h, Onto(x) = Onto(y) PROVE x = y
  <2>1. x \in Int /\ y \in Int /\ h \in Int /\ NUM \in Int
    BY <1>1 DEF Descs
  <2>2. CASE x = NUM - 1 /\ y # NUM - 1
    BY <1>7, <2>1, <2>2
  <2>3. CASE x # NUM - 1 /\ y = NUM - 1
    BY <1>7, <2>1, <2>3
  <2>4. CASE x # NUM - 1 /\ y # NUM - 1
    BY <1>7, <2>1, <2>4
  <2>. QED
    BY <2>2, <2>3, <2>4, Zenon
<1>. HIDE DEF Onto
<1>8. ASSUME NEW i \in 1 .. NUM PROVE g[i] \in 1 .. NUM - 1
  BY <1>4, <1>5, <1>6, Zenon
<1>9. ASSUME NEW i \in 1 .. NUM, NEW j \in 1 .. NUM, g[i] = g[j] PROVE i = j
  <2>1. Onto(f[i - 1]) = Onto(f[j - 1])
    BY <1>9, Zenon
  <2>2. f[i - 1] = f[j - 1]
    BY <1>4, <1>5, <1>7, <2>1, Zenon
  <2>3. i - 1 = j - 1
    BY <1>3, <1>5, <2>2, Zenon
  <2>. QED
    BY <2>3
<1>10. g \in [1 .. NUM -> 1 .. NUM - 1] /\ DOMAIN g = 1 .. NUM
  BY <1>8, Zenon
<1>. HIDE DEF g
<1>11. ExistsInjection(1 .. NUM, 1 .. NUM - 1)
  BY <1>9, <1>10, Zenon DEF ExistsInjection, Injection, IsInjective
<1>12. NUM - 1 \in Nat
  BY Sizes
<1>13. NUM <= NUM - 1
  BY <1>1, <1>11, <1>12, Fun_NatInjLeq, Zenon
<1>. QED
  BY <1>1, <1>13

-----------------------------------------------------------------------------
\* Where the processes are, as far as the invariant tells.
Labels == {"idle", "alloc", "nodesc", "format", "publish", "asleep", "check"}
Idle       == {p \in Procs : pc[p] = "idle"}
Locked     == {p \in Procs : pc[p] \in {"format", "publish"}}
Publishing == {p \in Procs : pc[p] = "publish"}
InFlight   == {p \in Procs : pc[p] \in {"asleep", "check"}}

DescType == [addr : Descs \cup Bufs \cup {Nobody}, flags : SUBSET {"NEXT", "WRITE"}, next : Descs]
OpType   == [type : {"IN", "OUT"}, sector : Bufs \cup {Nobody}]
InfoType == [b : Bufs \cup {Nobody}, status : {"ok", "none", "error"}]
RingType == [ring : [Descs -> Descs], idx : 0 .. WRAP - 1]

TypeOK ==
    /\ vdisk_lock \in Procs \cup {"intr", Nobody}
    /\ free \subseteq Descs
    /\ desc \in [Descs -> DescType] /\ ops \in [Descs -> OpType] /\ info \in [Descs -> InfoType]
    /\ avail \in RingType /\ used \in RingType /\ used_idx \in 0 .. WRAP - 1
    /\ disk \subseteq Bufs
    /\ data \in [Bufs -> Data] /\ platter \in [Bufs -> Data]
    /\ req \in [Procs -> [b : Bufs \cup {Nobody}, write : BOOLEAN]]
    /\ idx \in [Procs -> Descs \X Descs \X Descs]
    /\ pc \in [Procs -> Labels]
    /\ handler \in {"out", "loop", "leave"}
    /\ irq \in BOOLEAN
    /\ dev \in [seen : 0 .. WRAP - 1, inhand : SUBSET Descs, served : SUBSET Descs, raise : BOOLEAN]

\* The entries of a ring at the places W, and that they differ.
Entries(f, W)  == {f[s] : s \in W}
Distinct(f, W) == \A s, t \in W : f[s] = f[t] => s = t

\* The chains the device has not fetched yet, and those the handler has not seen yet.
AvailWindow == Window(dev.seen, avail.idx)
UsedWindow  == Window(used_idx, used.idx)
Queued      == Entries(avail.ring, AvailWindow)
Reported    == Entries(used.ring, UsedWindow)

\* No index laps the one it follows, and no chain is twice in a ring.
Rings ==
    /\ Uint16(avail.idx - dev.seen) <= NUM /\ Uint16(used.idx - used_idx) <= NUM
    /\ Distinct(avail.ring, AvailWindow) /\ Distinct(used.ring, UsedWindow)

\* Who has vdisk_lock between two steps.
Locking ==
    /\ \A p \in Locked : vdisk_lock = p
    /\ handler # "out" => vdisk_lock = "intr"

\* No two calls are about one buffer, which bread() and bwrite() lock.
Requests ==
    /\ \A p \in Procs : IF p \in Idle THEN req[p] = NoReq ELSE req[p].b \in Bufs
    /\ \A p, q \in Procs : req[p].b = req[q].b /\ req[p].b # Nobody => p = q

\* The descriptors of a request are three, its own, and not free; all others are free.
Own(p) == {idx[p][1], idx[p][2], idx[p][3]}
Descriptors ==
    /\ \A p \in Holding : idx[p][1] # idx[p][2] /\ idx[p][1] # idx[p][3] /\ idx[p][2] # idx[p][3]
    /\ \A p, q \in Holding : p # q => Own(p) \cap Own(q) = {}
    /\ \A d \in Descs : d \in free <=> \A p \in Holding : d \notin Own(p)

\* What format() wrote is there until the request returns.
Chain(p) ==
    /\ desc[idx[p][1]].next = idx[p][2]
    /\ desc[idx[p][2]].next = idx[p][3] /\ desc[idx[p][2]].addr = req[p].b
    /\ "WRITE" \in desc[idx[p][2]].flags <=> ~req[p].write
    /\ "NEXT" \in desc[idx[p][1]].flags /\ "NEXT" \in desc[idx[p][2]].flags
    /\ "NEXT" \notin desc[idx[p][3]].flags
    /\ desc[idx[p][3]].addr = idx[p][1]
    /\ ops[idx[p][1]].type = IF req[p].write THEN "OUT" ELSE "IN"
    /\ ops[idx[p][1]].sector = req[p].b
    /\ info[idx[p][1]].b = req[p].b
Formatted == \A p \in Publishing \cup InFlight : Chain(p)

\* A chain that is about to be published is where the avail index points.
Published ==
    \A p \in Publishing :
        /\ avail.ring[avail.idx % NUM] = idx[p][1]
        /\ info[idx[p][1]].status = "none"
        /\ req[p].b \in disk

\* The chains under way are each in one place, and are those of the requests whose
\* buffer the disk owns; the status byte is "ok" from when the device wrote it.
Apart ==
    /\ \A h \in Queued : h \notin dev.inhand /\ h \notin dev.served /\ h \notin Reported
    /\ \A h \in dev.inhand : h \notin dev.served /\ h \notin Reported
    /\ \A h \in dev.served : h \notin Reported
UnderWay == Queued \cup dev.inhand \cup dev.served \cup Reported
Owned   == \A h \in UnderWay : \E p \in InFlight : idx[p][1] = h /\ req[p].b \in disk
Tracked == \A p \in InFlight : req[p].b \in disk => idx[p][1] \in UnderWay
Status  == \A p \in InFlight :
              info[idx[p][1]].status = IF idx[p][1] \in Queued \cup dev.inhand THEN "none" ELSE "ok"

\* The device has served the request, and a step that no caller notices.
Done(p) == p \in InFlight /\ info[idx[p][1]].status = "ok"
Still   == Idle' = Idle /\ \A p \in Procs : Done(p)' <=> Done(p)

IInv ==
    /\ TypeOK /\ Rings /\ Locking /\ Requests /\ Descriptors /\ Formatted /\ Published
    /\ Apart /\ Owned /\ Tracked /\ Status

-----------------------------------------------------------------------------
\* Moves between the labels of one place leave the places alone.
LEMMA Quietly ==
    ASSUME \A q \in Procs : \/ pc'[q] = pc[q]
                            \/ pc[q] \in {"alloc", "nodesc"} /\ pc'[q] \in {"alloc", "nodesc"}
                            \/ pc[q] \in {"asleep", "check"} /\ pc'[q] \in {"asleep", "check"}
    PROVE  UNCHANGED <<Idle, Locked, Holding, Publishing, InFlight>>
<1>1. Idle' = Idle
  BY Zenon DEF Idle
<1>2. Locked' = Locked
  BY Zenon DEF Locked
<1>3. Holding' = Holding
  BY Zenon DEF Holding
<1>4. Publishing' = Publishing
  BY Zenon DEF Publishing
<1>5. InFlight' = InFlight
  BY Zenon DEF InFlight
<1>. QED
  BY <1>1, <1>2, <1>3, <1>4, <1>5, Zenon

\* wakeup() moves the sleepers it finds, and nobody else.
LEMMA WakeMoves ==
    ASSUME NEW f \in [Procs -> Labels], NEW S,
           \A q \in Procs : q \in S => f[q] \in {"nodesc", "asleep"}
    PROVE  /\ Wake(S, f) \in [Procs -> Labels]
           /\ \A q \in Procs : \/ Wake(S, f)[q] = f[q]
                               \/ f[q] = "nodesc" /\ Wake(S, f)[q] = "alloc"
                               \/ f[q] = "asleep" /\ Wake(S, f)[q] = "check"
<1>1. \A q \in Procs : Wake(S, f)[q] = IF q \notin S THEN f[q]
                                       ELSE IF f[q] = "nodesc" THEN "alloc" ELSE "check"
  BY Zenon DEF Wake
<1>2. \A q \in Procs : \/ Wake(S, f)[q] = f[q]
                       \/ f[q] = "nodesc" /\ Wake(S, f)[q] = "alloc"
                       \/ f[q] = "asleep" /\ Wake(S, f)[q] = "check"
  BY <1>1
<1>3. Wake(S, f) = [q \in Procs |-> Wake(S, f)[q]]
  BY <1>1, Zenon DEF Wake
<1>4. \A q \in Procs : Wake(S, f)[q] \in Labels
  BY <1>2, Zenon DEF Labels
<1>. QED
  BY <1>2, <1>3, <1>4, Zenon

\* One process goes to l.
LEMMA GotoMoves ==
    ASSUME pc \in [Procs -> Labels], NEW p \in Procs, NEW l \in Labels, Goto(p, l)
    PROVE  /\ pc' \in [Procs -> Labels]
           /\ pc'[p] = l /\ \A q \in Procs : q # p => pc'[q] = pc[q]
BY Zenon DEF Goto

-----------------------------------------------------------------------------
\* What the conjuncts of the invariant depend on.
LEMMA RingsFrame ==
    ASSUME Rings, UNCHANGED <<avail, used, used_idx>>, dev'.seen = dev.seen
    PROVE  Rings' /\ UNCHANGED <<Queued, Reported>>
<1>1. UNCHANGED <<AvailWindow, UsedWindow>>
  BY Zenon DEF AvailWindow, UsedWindow
<1>2. UNCHANGED <<Queued, Reported>>
  BY <1>1, Zenon DEF Queued, Reported
<1>. QED
  BY <1>1, <1>2, Zenon DEF Rings

LEMMA DescriptorsFrame ==
    ASSUME Descriptors, UNCHANGED <<Holding, free, idx>>
    PROVE  Descriptors'
BY Zenon DEF Descriptors, Own

LEMMA RequestsFrame ==
    ASSUME Requests, UNCHANGED <<Idle, req>>
    PROVE  Requests'
BY Zenon DEF Requests

LEMMA LockingFrame ==
    ASSUME Locking, UNCHANGED <<Locked, vdisk_lock, handler>>
    PROVE  Locking'
BY Zenon DEF Locking

LEMMA StagesFrame ==
    ASSUME Apart, Owned, Tracked, Status,
           UNCHANGED <<Queued, Reported, InFlight, idx, req, disk, info>>,
           dev'.inhand = dev.inhand, dev'.served = dev.served
    PROVE  Apart' /\ Owned' /\ Tracked' /\ Status'
<1>1. Apart'
  BY Zenon DEF Apart
<1>2. UnderWay' = UnderWay
  BY Zenon DEF UnderWay
<1>3. Owned'
  BY <1>2, Zenon DEF Owned
<1>4. Tracked'
  BY <1>2, Zenon DEF Tracked
<1>5. Status'
  BY Zenon DEF Status
<1>. QED
  BY <1>1, <1>3, <1>4, <1>5, Zenon

\* A chain stays formatted for a request that keeps its descriptors, and its command.
LEMMA ChainFrame ==
    ASSUME NEW p, Chain(p), idx'[p] = idx[p], req'[p] = req[p],
           \A d \in Own(p) : desc'[d] = desc[d] /\ ops'[d] = ops[d] /\ info'[d].b = info[d].b
    PROVE  Chain(p)'
<1>1. /\ desc'[idx[p][1]] = desc[idx[p][1]] /\ ops'[idx[p][1]] = ops[idx[p][1]]
      /\ info'[idx[p][1]].b = info[idx[p][1]].b
      /\ desc'[idx[p][2]] = desc[idx[p][2]] /\ desc'[idx[p][3]] = desc[idx[p][3]]
  BY Zenon DEF Own
<1>2. /\ desc'[idx'[p][1]] = desc[idx[p][1]] /\ ops'[idx'[p][1]] = ops[idx[p][1]]
      /\ info'[idx'[p][1]].b = info[idx[p][1]].b
      /\ desc'[idx'[p][2]] = desc[idx[p][2]] /\ desc'[idx'[p][3]] = desc[idx[p][3]]
  BY <1>1, Zenon
<1>3. /\ desc'[idx'[p][1]].next = idx'[p][2]
      /\ desc'[idx'[p][2]].next = idx'[p][3] /\ desc'[idx'[p][2]].addr = req'[p].b
      /\ "WRITE" \in desc'[idx'[p][2]].flags <=> ~req'[p].write
  BY <1>2, Zenon DEF Chain
<1>4. /\ "NEXT" \in desc'[idx'[p][1]].flags /\ "NEXT" \in desc'[idx'[p][2]].flags
      /\ "NEXT" \notin desc'[idx'[p][3]].flags
      /\ desc'[idx'[p][3]].addr = idx'[p][1]
  BY <1>2, Zenon DEF Chain
<1>5. ops'[idx'[p][1]].type = IF req'[p].write THEN "OUT" ELSE "IN"
  <2>1. ops[idx[p][1]].type = IF req[p].write THEN "OUT" ELSE "IN"
    BY Zenon DEF Chain
  <2>. QED
    BY <1>2, <2>1, Zenon
<1>6. /\ ops'[idx'[p][1]].sector = req'[p].b
      /\ info'[idx'[p][1]].b = req'[p].b
  BY <1>2, Zenon DEF Chain
<1>. QED
  BY <1>3, <1>4, <1>5, <1>6, Zenon DEF Chain

LEMMA FormattedFrame ==
    ASSUME Formatted, UNCHANGED <<Publishing, InFlight, idx, req, desc, ops, info>>
    PROVE  Formatted'
<1>1. \A p \in Publishing \cup InFlight : Chain(p)'
  BY ChainFrame, Zenon DEF Formatted
<1>. QED
  BY <1>1, Zenon DEF Formatted

LEMMA PublishedFrame ==
    ASSUME Published, UNCHANGED <<Publishing, avail, idx, req, disk, info>>
    PROVE  Published'
BY Zenon DEF Published

\* Steps that only change the lock, the handler, the interrupt, or who is awake.
LEMMA QuietStep ==
    ASSUME IInv, TypeOK', Locking', UNCHANGED <<Idle, Holding, Publishing, InFlight>>,
           UNCHANGED <<free, desc, ops, info, avail, used, used_idx, disk, req, idx>>,
           dev'.seen = dev.seen, dev'.inhand = dev.inhand, dev'.served = dev.served
    PROVE  IInv' /\ Still
<1>1. Rings' /\ UNCHANGED <<Queued, Reported>>
  BY RingsFrame, Zenon DEF IInv
<1>2. Apart' /\ Owned' /\ Tracked' /\ Status'
  BY <1>1, StagesFrame, Zenon DEF IInv
<1>3. Descriptors' /\ Requests' /\ Formatted' /\ Published'
  BY DescriptorsFrame, RequestsFrame, FormattedFrame, PublishedFrame, Zenon DEF IInv
<1>4. Still
  BY Zenon DEF Still, Done
<1>. QED
  BY <1>1, <1>2, <1>3, <1>4, Zenon DEF IInv

-----------------------------------------------------------------------------
LEMMA InitInv == Init => IInv
<1>. SUFFICES ASSUME Init PROVE IInv
  BY Zenon
<1>1. NUM \in Nat \ {0} /\ WRAP \in Nat \ {0} /\ WRAP > NUM
  BY Sizes, Zenon
<1>2. 0 \in Descs /\ 0 \in 0 .. WRAP - 1 /\ 0 <= NUM
  BY <1>1 DEF Descs
<1>3. TypeOK
  <2>1. free \subseteq Descs /\ disk \subseteq Bufs /\ vdisk_lock \in Procs \cup {"intr", Nobody}
    BY Zenon DEF Init
  <2>2. desc \in [Descs -> DescType] /\ ops \in [Descs -> OpType] /\ info \in [Descs -> InfoType]
    BY <1>2 DEF Init, NoDesc, NoOp, DescType, OpType, InfoType
  <2>3. avail \in RingType /\ used \in RingType /\ used_idx \in 0 .. WRAP - 1
    BY <1>2 DEF Init, RingType
  <2>4. /\ data \in [Bufs -> Data] /\ platter \in [Bufs -> Data]
        /\ handler \in {"out", "loop", "leave"} /\ irq \in BOOLEAN
    BY Zenon DEF Init
  <2>5. req \in [Procs -> [b : Bufs \cup {Nobody}, write : BOOLEAN]] /\ pc \in [Procs -> Labels]
    BY DEF Init, NoReq, Labels
  <2>6. idx \in [Procs -> Descs \X Descs \X Descs]
    BY <1>2 DEF Init, NoIdx
  <2>7. dev \in [seen : 0 .. WRAP - 1, inhand : SUBSET Descs, served : SUBSET Descs, raise : BOOLEAN]
    BY <1>2 DEF Init
  <2>. QED
    BY <2>1, <2>2, <2>3, <2>4, <2>5, <2>6, <2>7, Zenon DEF TypeOK
<1>4. Uint16(avail.idx - dev.seen) = 0 /\ AvailWindow = {} /\ Uint16(used.idx - used_idx) = 0 /\ UsedWindow = {}
  <2>1. avail.idx = 0 /\ dev.seen = 0 /\ used.idx = 0 /\ used_idx = 0
    BY DEF Init
  <2>. QED
    BY <1>2, <2>1, EmptyWindow, Zenon DEF AvailWindow, UsedWindow
<1>5. Queued = {} /\ Reported = {} /\ dev.inhand = {} /\ dev.served = {}
  <2>1. Queued = {} /\ Reported = {}
    BY <1>4, Zenon DEF Queued, Reported, Entries
  <2>2. dev.inhand = {} /\ dev.served = {}
    BY DEF Init
  <2>. QED
    BY <2>1, <2>2, Zenon
<1>6. Idle = Procs /\ Locked = {} /\ Holding = {} /\ Publishing = {} /\ InFlight = {}
  <2>1. \A p \in Procs : pc[p] = "idle"
    BY Zenon DEF Init
  <2>. QED
    BY <2>1 DEF Idle, Locked, Holding, Publishing, InFlight
<1>7. Rings
  BY <1>2, <1>4, Zenon DEF Rings, Distinct
<1>8. Locking
  BY <1>6, Zenon DEF Locking, Init
<1>9. Requests
  <2>1. \A p \in Procs : req[p] = NoReq /\ req[p].b = Nobody
    BY DEF Init, NoReq
  <2>. QED
    BY <1>6, <2>1, Zenon DEF Requests
<1>10. Descriptors
  BY <1>6, Zenon DEF Descriptors, Init
<1>11. Formatted /\ Published
  BY <1>6, Zenon DEF Formatted, Published
<1>12. Apart /\ Owned /\ Tracked /\ Status
  BY <1>5, <1>6, Zenon DEF Apart, Owned, Tracked, Status, UnderWay
<1>. QED
  BY <1>3, <1>7, <1>8, <1>9, <1>10, <1>11, <1>12, Zenon DEF IInv

LEMMA KillInv == ASSUME IInv, NEW p \in Procs, kill(p) PROVE IInv' /\ Still
<1>1. pc \in [Procs -> Labels] /\ pc' = Wake({p}, pc) /\ pc[p] \in {"nodesc", "asleep"}
  BY Zenon DEF kill, IInv, TypeOK
<1>2. /\ pc' \in [Procs -> Labels]
      /\ \A q \in Procs : \/ pc'[q] = pc[q]
                          \/ pc[q] = "nodesc" /\ pc'[q] = "alloc"
                          \/ pc[q] = "asleep" /\ pc'[q] = "check"
  <2>1. \A q \in Procs : q \in {p} => pc[q] \in {"nodesc", "asleep"}
    BY <1>1, Zenon
  <2>. DEFINE w == Wake({p}, pc)
  <2>2. /\ w \in [Procs -> Labels]
        /\ \A q \in Procs : \/ w[q] = pc[q]
                            \/ pc[q] = "nodesc" /\ w[q] = "alloc"
                            \/ pc[q] = "asleep" /\ w[q] = "check"
    BY <1>1, <2>1, WakeMoves, Zenon
  <2>3. pc' = w
    BY <1>1, Zenon
  <2>. HIDE DEF w
  <2>. QED
    BY <2>2, <2>3, Zenon
<1>3. UNCHANGED <<Idle, Locked, Holding, Publishing, InFlight>>
  BY <1>2, Quietly, Zenon
<1>4. TypeOK'
  <2>1. UNCHANGED <<vdisk_lock, free, desc, ops, info, avail, used, used_idx, disk, data, platter,
                    req, idx, handler, irq, dev>>
    BY Zenon DEF kill, driver, device
  <2>. QED
    BY <1>2, <2>1, Zenon DEF IInv, TypeOK
<1>5. Locking'
  BY <1>3, LockingFrame, Zenon DEF kill, IInv
<1>. QED
  BY <1>3, <1>4, <1>5, QuietStep, Zenon DEF kill, driver, device

\* The handler's steps other than its loop, and the interrupt itself.
LEMMA InterruptInv == ASSUME IInv, intr \/ intr_end \/ intr_leave \/ dev_raise PROVE IInv' /\ Still
<1>1. UNCHANGED <<free, desc, ops, info, avail, used, used_idx, disk, req, idx, pc>>
  BY Zenon DEF intr, intr_end, intr_leave, dev_raise, driver, device
<1>2. UNCHANGED <<Idle, Locked, Holding, Publishing, InFlight>>
  BY <1>1, Quietly, Zenon
<1>3. /\ dev'.seen = dev.seen /\ dev'.inhand = dev.inhand /\ dev'.served = dev.served
      /\ dev' \in [seen : 0 .. WRAP - 1, inhand : SUBSET Descs, served : SUBSET Descs, raise : BOOLEAN]
  <2>1. dev \in [seen : 0 .. WRAP - 1, inhand : SUBSET Descs, served : SUBSET Descs, raise : BOOLEAN]
    BY Zenon DEF IInv, TypeOK
  <2>2. dev' = dev \/ dev' = [dev EXCEPT !.raise = FALSE]
    BY Zenon DEF intr, intr_end, intr_leave, dev_raise, device
  <2>. QED
    BY <2>1, <2>2, Zenon
<1>4. TypeOK'
  <2>1. irq' \in BOOLEAN
    <3>1. irq \in BOOLEAN
      BY Zenon DEF IInv, TypeOK
    <3>2. Ack.enter = FALSE /\ Ack.leave = irq
      BY DEF Ack
    <3>. QED
      BY <3>1, <3>2, Zenon DEF intr, intr_end, intr_leave, dev_raise, device
  <2>2. handler' \in {"out", "loop", "leave"} /\ vdisk_lock' \in Procs \cup {"intr", Nobody}
    BY Zenon DEF intr, intr_end, intr_leave, dev_raise, IInv, TypeOK
  <2>3. UNCHANGED <<data, platter>>
    BY Zenon DEF intr, intr_end, intr_leave, dev_raise, device
  <2>. QED
    BY <1>1, <1>3, <2>1, <2>2, <2>3, Zenon DEF IInv, TypeOK
<1>5. Locking'
  <2>1. CASE intr
    <3>1. Locked = {}
      <4>1. vdisk_lock = Nobody /\ Locking
        BY <2>1, Zenon DEF intr, IInv
      <4>. QED
        BY <4>1, VirtioConstants, Zenon DEF Locking, Locked
    <3>. QED
      BY <1>2, <2>1, <3>1, Zenon DEF intr, Locking
  <2>2. CASE intr_end
    BY <1>2, <2>2 DEF intr_end, IInv, Locking
  <2>3. CASE intr_leave
    <3>1. Locked = {}
      <4>1. vdisk_lock = "intr" /\ Locking
        BY <2>3 DEF intr_leave, IInv, Locking
      <4>. QED
        BY <4>1, VirtioConstants, Zenon DEF Locking, Locked
    <3>. QED
      BY <1>2, <2>3, <3>1, Zenon DEF intr_leave, Locking
  <2>4. CASE dev_raise
    BY <1>2, <2>4, LockingFrame, Zenon DEF dev_raise, IInv
  <2>. QED
    BY <2>1, <2>2, <2>3, <2>4, Zenon
<1>. QED
  BY <1>1, <1>2, <1>3, <1>4, <1>5, QuietStep, Zenon

\* Steps of a request before its chain is formatted do not touch the others.
LEMMA OthersFrame ==
    ASSUME IInv, UNCHANGED <<Publishing, InFlight, avail, used, used_idx, desc, ops, info, disk, dev>>,
           \A q \in Publishing \cup InFlight : idx'[q] = idx[q] /\ req'[q] = req[q]
    PROVE  Rings' /\ Formatted' /\ Published' /\ Apart' /\ Owned' /\ Tracked' /\ Status'
<1>1. Rings' /\ UNCHANGED <<Queued, Reported>>
  BY RingsFrame, Zenon DEF IInv
<1>2. Formatted'
  <2>1. \A q \in Publishing \cup InFlight : Chain(q)
    BY Zenon DEF IInv, Formatted
  <2>2. \A q \in Publishing \cup InFlight : Chain(q)'
    BY <2>1, ChainFrame, Zenon
  <2>. QED
    BY <2>2, Zenon DEF Formatted
<1>3. Published'
  BY Zenon DEF IInv, Published
<1>4. UnderWay' = UnderWay
  BY <1>1, Zenon DEF UnderWay
<1>5. Apart'
  BY <1>1, Zenon DEF IInv, Apart
<1>6. Owned'
  <2>. SUFFICES ASSUME NEW h \in UnderWay
                PROVE  \E q \in InFlight' : idx'[q][1] = h /\ req'[q].b \in disk'
    BY <1>4, Zenon DEF Owned
  <2>1. PICK q \in InFlight : idx[q][1] = h /\ req[q].b \in disk
    BY Zenon DEF IInv, Owned
  <2>2. idx'[q] = idx[q] /\ req'[q] = req[q] /\ q \in InFlight'
    BY Zenon
  <2>. QED
    BY <2>1, <2>2, Zenon
<1>7. Tracked'
  BY <1>4, Zenon DEF IInv, Tracked
<1>8. Status'
  BY <1>1, Zenon DEF IInv, Status
<1>. QED
  BY <1>1, <1>2, <1>3, <1>5, <1>6, <1>7, <1>8, Zenon

LEMMA CallInv ==
    ASSUME IInv, NEW p \in Procs, NEW b \in Bufs, NEW write \in BOOLEAN, call(p, b, write)
    PROVE  /\ IInv'
           /\ p \in Idle /\ Idle' = Idle \ {p} /\ \A q \in Procs : Done(q)' <=> Done(q)
<1>1. /\ pc \in [Procs -> Labels] /\ Goto(p, "alloc") /\ pc[p] = "idle"
      /\ req \in [Procs -> [b : Bufs \cup {Nobody}, write : BOOLEAN]]
  BY Zenon DEF call, IInv, TypeOK
<1>2. pc' \in [Procs -> Labels] /\ pc'[p] = "alloc" /\ \A q \in Procs : q # p => pc'[q] = pc[q]
  <2>1. "alloc" \in Labels
    BY DEF Labels
  <2>. QED
    BY <1>1, <2>1, GotoMoves, Zenon
<1>3. UNCHANGED <<Locked, Holding, Publishing, InFlight>> /\ Idle' = Idle \ {p} /\ p \in Idle
      /\ p \notin Publishing \cup InFlight
  BY <1>1, <1>2 DEF Idle, Locked, Holding, Publishing, InFlight
<1>4. /\ req'[p].b = b /\ \A q \in Procs : q # p => req'[q] = req[q]
      /\ req' \in [Procs -> [b : Bufs \cup {Nobody}, write : BOOLEAN]]
  BY <1>1 DEF call
<1>5. TypeOK'
  <2>1. data' \in [Bufs -> Data]
    <3>1. data \in [Bufs -> Data]
      BY Zenon DEF IInv, TypeOK
    <3>2. data' = data \/ \E v \in Data : data' = [data EXCEPT ![b] = v]
      BY Zenon DEF call
    <3>. QED
      BY <3>1, <3>2, Zenon
  <2>. QED
    BY <1>2, <1>4, <2>1, Zenon DEF call, IInv, TypeOK, driver, device
<1>6. Locking' /\ Descriptors'
  BY <1>3, LockingFrame, DescriptorsFrame, Zenon DEF call, IInv
<1>7. Requests'
  <2>1. Requests /\ \A q \in Procs : req[q].b # b
    BY Zenon DEF call, IInv
  <2>2. \A q \in Procs : IF q \in Idle' THEN req'[q] = NoReq ELSE req'[q].b \in Bufs
    BY <1>3, <1>4, <2>1, Zenon DEF Requests
  <2>3. \A q, r \in Procs : req'[q].b = req'[r].b /\ req'[q].b # Nobody => q = r
    <3>1. \A q, r \in Procs : req[q].b = req[r].b /\ req[q].b # Nobody => q = r
      BY <2>1, Zenon DEF Requests
    <3>. SUFFICES ASSUME NEW q \in Procs, NEW r \in Procs, q # r, req'[q].b = req'[r].b, req'[q].b # Nobody
                  PROVE  FALSE
      BY Zenon
    <3>2. CASE q = p \/ r = p
      BY <1>4, <2>1, <3>2, Zenon
    <3>3. CASE q # p /\ r # p
      BY <1>4, <3>1, <3>3, Zenon
    <3>. QED
      BY <3>2, <3>3, Zenon
  <2>. QED
    BY <2>2, <2>3, Zenon DEF Requests
<1>8. \A q \in Publishing \cup InFlight : idx'[q] = idx[q] /\ req'[q] = req[q]
  BY <1>3, <1>4, Zenon DEF call, Publishing, InFlight
<1>9. Rings' /\ Formatted' /\ Published' /\ Apart' /\ Owned' /\ Tracked' /\ Status'
  BY <1>3, <1>8, OthersFrame, Zenon DEF call, driver, device
<1>10. \A q \in Procs : Done(q)' <=> Done(q)
  BY <1>3, Zenon DEF call, driver, Done
<1>. QED
  BY <1>3, <1>5, <1>6, <1>7, <1>9, <1>10, Zenon DEF IInv

\* The descriptors a request takes were free.
LEMMA AllocInv == ASSUME IInv, NEW p \in Procs, alloc3_desc(p) PROVE IInv' /\ Still
<1>0. UNCHANGED <<desc, ops, info, avail, disk, used_idx, data, req, handler, used, platter, irq, dev>>
  BY Zenon DEF alloc3_desc, driver, device
<1>1. /\ pc \in [Procs -> Labels] /\ pc[p] = "alloc" /\ vdisk_lock = Nobody
      /\ free \subseteq Descs /\ idx \in [Procs -> Descs \X Descs \X Descs]
  BY Zenon DEF alloc3_desc, IInv, TypeOK
<1>2. CASE Cardinality(free) >= 3
  <2>1. PICK a \in Descs, b \in Descs, c \in Descs :
            /\ alloc_desc(a, free) /\ alloc_desc(b, free \ {a}) /\ alloc_desc(c, free \ {a, b})
            /\ idx' = [idx EXCEPT ![p] = <<a, b, c>>]
            /\ free' = free \ {a, b, c}
    BY <1>2, Zenon DEF alloc3_desc
  <2>2. vdisk_lock' = p /\ Goto(p, "format")
    BY <1>2, Zenon DEF alloc3_desc
  <2>3. a \in free /\ b \in free /\ c \in free /\ a # b /\ a # c /\ b # c
    BY <2>1, Zenon DEF alloc_desc
  <2>4. pc' \in [Procs -> Labels] /\ pc'[p] = "format" /\ \A q \in Procs : q # p => pc'[q] = pc[q]
    <3>1. "format" \in Labels
      BY DEF Labels
    <3>. QED
      BY <1>1, <2>2, <3>1, GotoMoves, Zenon
  <2>5. /\ UNCHANGED <<Idle, Publishing, InFlight>> /\ Locked' = Locked \cup {p}
        /\ Holding' = Holding \cup {p} /\ p \notin Holding
        /\ p \notin Publishing \cup InFlight
    BY <1>1, <2>4 DEF Idle, Locked, Holding, Publishing, InFlight
  <2>6. /\ idx'[p][1] = a /\ idx'[p][2] = b /\ idx'[p][3] = c
        /\ \A q \in Procs : q # p => idx'[q] = idx[q]
        /\ idx' \in [Procs -> Descs \X Descs \X Descs]
    BY <1>1, <2>1
  <2>7. TypeOK'
    BY <1>0, <1>1, <2>1, <2>2, <2>4, <2>6, Zenon DEF IInv, TypeOK
  <2>8. Locking'
    <3>1. Locking
      BY Zenon DEF IInv
    <3>2. Locked = {} /\ handler = "out"
      BY <1>1, <3>1, VirtioConstants, Zenon DEF Locking, Locked
    <3>. QED
      BY <1>0, <2>2, <2>5, <3>2, Zenon DEF Locking
  <2>9. Descriptors'
    <3>0. Descriptors /\ Holding \subseteq Procs
      BY Zenon DEF IInv, Holding
    <3>1. Own(p)' = {a, b, c} /\ \A q \in Holding : Own(q)' = Own(q)
      BY <2>5, <2>6, <3>0, Zenon DEF Own
    <3>2. \A q \in Holding' : idx'[q][1] # idx'[q][2] /\ idx'[q][1] # idx'[q][3] /\ idx'[q][2] # idx'[q][3]
      BY <2>3, <2>5, <2>6, <3>0, Zenon DEF Descriptors
    <3>3. \A q \in Holding : Own(q) \cap {a, b, c} = {}
      BY <2>3, <3>0, Zenon DEF Descriptors
    <3>4. \A q, r \in Holding' : q # r => Own(q)' \cap Own(r)' = {}
      <4>1. \A q, r \in Holding : q # r => Own(q)' \cap Own(r)' = {}
        BY <3>0, <3>1, Zenon DEF Descriptors
      <4>2. \A q \in Holding : Own(q)' \cap Own(p)' = {} /\ Own(p)' \cap Own(q)' = {}
        BY <3>1, <3>3, Zenon
      <4>. QED
        BY <2>5, <4>1, <4>2, Zenon
    <3>5. \A d \in Descs : d \in free' <=> \A q \in Holding' : d \notin Own(q)'
      <4>. SUFFICES ASSUME NEW d \in Descs
                    PROVE  d \in free' <=> \A q \in Holding' : d \notin Own(q)'
        BY Zenon
      <4>1. d \in free <=> \A q \in Holding : d \notin Own(q)'
        <5>1. d \in free <=> \A q \in Holding : d \notin Own(q)
          BY <3>0, Zenon DEF Descriptors
        <5>. QED
          BY <3>1, <5>1, Zenon
      <4>2. d \in free' <=> d \in free /\ d \notin Own(p)'
        BY <2>1, <3>1, Zenon
      <4>. QED
        BY <2>5, <4>1, <4>2, Zenon
    <3>. QED
      BY <3>2, <3>4, <3>5, Zenon DEF Descriptors
  <2>10. Requests'
    BY <1>0, <2>5, RequestsFrame, Zenon DEF IInv
  <2>11. \A q \in Publishing \cup InFlight : idx'[q] = idx[q] /\ req'[q] = req[q]
    BY <1>0, <2>5, <2>6, Zenon DEF Publishing, InFlight
  <2>12. Rings' /\ Formatted' /\ Published' /\ Apart' /\ Owned' /\ Tracked' /\ Status'
    BY <1>0, <2>5, <2>11, OthersFrame, Zenon
  <2>13. Still
    BY <1>0, <2>5, <2>11, Zenon DEF Still, Done
  <2>. QED
    BY <2>7, <2>8, <2>9, <2>10, <2>12, <2>13, Zenon DEF IInv
<1>3. CASE ~ Cardinality(free) >= 3
  <2>1. UNCHANGED <<free, vdisk_lock, idx>>
    BY <1>3, Zenon DEF alloc3_desc, GiveBack
  <2>2. PICK f : f = [pc EXCEPT ![p] = "nodesc"]
    BY Zenon
  <2>3. f \in [Procs -> Labels] /\ f[p] = "nodesc" /\ \A q \in Procs : q # p => f[q] = pc[q]
    BY <1>1, <2>2 DEF Labels
  <2>4. PICK S : pc' = Wake(S, f) /\ S \subseteq DescSleepers
    BY <1>3, <2>2, Zenon DEF alloc3_desc
  <2>5. \A q \in Procs : q \in S => f[q] \in {"nodesc", "asleep"}
    BY <2>3, <2>4, Zenon DEF DescSleepers
  <2>6. /\ pc' \in [Procs -> Labels]
        /\ \A q \in Procs : \/ pc'[q] = f[q]
                            \/ f[q] = "nodesc" /\ pc'[q] = "alloc"
                            \/ f[q] = "asleep" /\ pc'[q] = "check"
    <3>1. /\ Wake(S, f) \in [Procs -> Labels]
          /\ \A q \in Procs : \/ Wake(S, f)[q] = f[q]
                              \/ f[q] = "nodesc" /\ Wake(S, f)[q] = "alloc"
                              \/ f[q] = "asleep" /\ Wake(S, f)[q] = "check"
      BY <2>3, <2>5, WakeMoves, Zenon
    <3>. QED
      BY <2>4, <3>1, Zenon
  <2>7. UNCHANGED <<Idle, Locked, Holding, Publishing, InFlight>>
    <3>1. \A q \in Procs : \/ pc'[q] = pc[q]
                           \/ pc[q] \in {"alloc", "nodesc"} /\ pc'[q] \in {"alloc", "nodesc"}
                           \/ pc[q] \in {"asleep", "check"} /\ pc'[q] \in {"asleep", "check"}
      BY <1>1, <2>3, <2>6
    <3>. QED
      BY <3>1, Quietly, Zenon
  <2>8. TypeOK'
    BY <1>0, <2>1, <2>6, Zenon DEF IInv, TypeOK
  <2>9. Locking'
    BY <1>0, <2>1, <2>7, LockingFrame, Zenon DEF IInv
  <2>. QED
    BY <1>0, <2>1, <2>7, <2>8, <2>9, QuietStep, Zenon
<1>. QED
  BY <1>2, <1>3, Zenon

-----------------------------------------------------------------------------
LEMMA Places ==
    /\ Holding \subseteq Procs /\ Locked \subseteq Holding /\ InFlight \subseteq Holding
    /\ Publishing \subseteq Locked
    /\ \A p \in Procs : p \in Holding => p \notin Idle
    /\ \A p \in Procs : p \in InFlight => p \notin Locked
BY DEF Idle, Locked, Holding, Publishing, InFlight

LEMMA IdxType ==
    ASSUME TypeOK, NEW p \in Procs
    PROVE  idx[p][1] \in Descs /\ idx[p][2] \in Descs /\ idx[p][3] \in Descs
<1>1. idx \in [Procs -> Descs \X Descs \X Descs]
  BY Zenon DEF TypeOK
<1>. QED
  BY <1>1

\* No descriptor has two owners.
LEMMA OneOwner ==
    ASSUME Descriptors, NEW p \in Holding, NEW q \in Holding, NEW d \in Own(p), d \in Own(q)
    PROVE  p = q
BY Zenon DEF Descriptors

LEMMA HeadOwned == \A p : idx[p][1] \in Own(p) /\ idx[p][2] \in Own(p) /\ idx[p][3] \in Own(p)
BY Zenon DEF Own

\* A chain under way is that of a request the device owns the buffer of.
LEMMA HeadUnderWay ==
    ASSUME Descriptors, Owned, NEW p \in Holding, idx[p][1] \in UnderWay
    PROVE  p \in InFlight /\ req[p].b \in disk
<1>1. PICK q \in InFlight : idx[q][1] = idx[p][1] /\ req[q].b \in disk
  BY Zenon DEF Owned
<1>2. q \in Holding
  BY Places, Zenon
<1>3. q = p
  BY <1>1, <1>2, OneOwner, HeadOwned, Zenon
<1>. QED
  BY <1>1, <1>3, Zenon

\* While a request is not yet in the avail ring, the ring has room for it.
LEMMA RoomInAvail ==
    ASSUME IInv, NEW p \in Holding, p \notin InFlight
    PROVE  /\ idx[p][1] \notin UnderWay
           /\ Uint16(avail.idx - dev.seen) < NUM
           /\ avail.idx % NUM \in Descs /\ avail.idx % NUM \notin AvailWindow
<1>1. idx[p][1] \notin UnderWay
  BY HeadUnderWay, Zenon DEF IInv
<1>2. p \in Procs /\ TypeOK
  BY Places, Zenon DEF IInv
<1>3. avail.ring \in [Descs -> Descs] /\ avail.idx \in 0 .. WRAP - 1 /\ dev.seen \in 0 .. WRAP - 1
  BY <1>2 DEF TypeOK, RingType
<1>4. \A s \in AvailWindow : avail.ring[s] # idx[p][1]
  BY <1>1, Zenon DEF UnderWay, Queued, Entries
<1>5. Uint16(avail.idx - dev.seen) < NUM
  <2>1. idx[p][1] \in Descs
    BY <1>2, IdxType, Zenon
  <2>2. /\ Uint16(avail.idx - dev.seen) <= NUM
        /\ \A s, t \in AvailWindow : avail.ring[s] = avail.ring[t] => s = t
    BY Zenon DEF IInv, Rings, Distinct
  <2>3. PICK f \in [Descs -> Descs], a \in 0 .. WRAP - 1, b \in 0 .. WRAP - 1 :
            f = avail.ring /\ a = dev.seen /\ b = avail.idx
    BY <1>3, Zenon
  <2>4. AvailWindow = Window(a, b)
    BY <2>3, Zenon DEF AvailWindow
  <2>5. /\ Uint16(b - a) <= NUM
        /\ \A s, t \in Window(a, b) : f[s] = f[t] => s = t
        /\ \A s \in Window(a, b) : f[s] # idx[p][1]
    BY <1>4, <2>2, <2>3, <2>4, Zenon
  <2>6. Uint16(b - a) < NUM
    BY <2>1, <2>5, NotFull, Zenon
  <2>. QED
    BY <2>3, <2>6, Zenon
<1>6. avail.idx % NUM \in Descs /\ avail.idx % NUM \notin AvailWindow
  BY <1>3, <1>5, Grow, Zenon DEF AvailWindow
<1>. QED
  BY <1>1, <1>5, <1>6, Zenon

\* The window of the avail ring is not written while a chain is formatted.
LEMMA FormatRings ==
    ASSUME IInv, NEW p \in Procs, format(p)
    PROVE  /\ Rings' /\ UNCHANGED <<Queued, Reported>>
           /\ avail' \in RingType /\ avail'.ring[avail'.idx % NUM] = idx[p][1]
<1>1. /\ p \in Holding /\ p \notin InFlight /\ TypeOK /\ Rings
      /\ avail' = [avail EXCEPT !.ring[avail.idx % NUM] = idx[p][1]]
      /\ UNCHANGED <<used, used_idx, dev>>
  BY Zenon DEF format, IInv, Holding, InFlight, device
<1>2. avail.idx % NUM \in Descs /\ avail.idx % NUM \notin AvailWindow /\ idx[p][1] \in Descs
  BY <1>1, RoomInAvail, IdxType, Zenon
<1>3. avail \in RingType
  BY <1>1, Zenon DEF TypeOK
<1>4. /\ avail'.idx = avail.idx
      /\ avail'.ring[avail.idx % NUM] = idx[p][1]
      /\ \A s \in Descs : s # avail.idx % NUM => avail'.ring[s] = avail.ring[s]
      /\ avail' \in RingType
  BY <1>1, <1>2, <1>3 DEF RingType
<1>5. UNCHANGED <<AvailWindow, UsedWindow>> /\ AvailWindow \subseteq Descs
  BY <1>1, <1>4, Zenon DEF AvailWindow, UsedWindow, Window
<1>6. \A s \in AvailWindow : avail'.ring[s] = avail.ring[s]
  BY <1>2, <1>4, <1>5, Zenon
<1>7. Queued' = Queued
  BY <1>5, <1>6, Zenon DEF Queued, Entries
<1>8. Reported' = Reported
  BY <1>1, <1>5, Zenon DEF Reported
<1>9. Rings'
  <2>1. Uint16(avail'.idx - dev'.seen) <= NUM /\ Uint16(used'.idx - used_idx') <= NUM
    BY <1>1, <1>4, Zenon DEF Rings
  <2>2. Distinct(avail'.ring, AvailWindow)
    BY <1>1, <1>6, Zenon DEF Rings, Distinct
  <2>. QED
    BY <1>1, <1>5, <2>1, <2>2, Zenon DEF Rings
<1>. QED
  BY <1>4, <1>7, <1>8, <1>9, Zenon

\* What format() writes, in the descriptors of the request.
LEMMA FormatWrites ==
    ASSUME IInv, NEW p \in Procs, format(p)
    PROVE  /\ desc' \in [Descs -> DescType] /\ ops' \in [Descs -> OpType] /\ info' \in [Descs -> InfoType]
           /\ Chain(p)' /\ info'[idx[p][1]].status = "none"
           /\ \A d \in Descs : d \notin Own(p) => desc'[d] = desc[d] /\ ops'[d] = ops[d] /\ info'[d] = info[d]
<1>0. PICK a \in Descs, b \in Descs, c \in Descs : a = idx[p][1] /\ b = idx[p][2] /\ c = idx[p][3]
  BY IdxType, Zenon DEF IInv
<1>1. a # b /\ a # c /\ b # c /\ Own(p) = {a, b, c}
  <2>1. p \in Holding /\ Descriptors
    BY Zenon DEF format, Holding, IInv
  <2>. QED
    BY <1>0, <2>1, Zenon DEF Descriptors, Own
<1>2. PICK r \in [b : Bufs, write : BOOLEAN] : r = req[p]
  <2>1. p \notin Idle /\ req \in [Procs -> [b : Bufs \cup {Nobody}, write : BOOLEAN]] /\ Requests
    BY Zenon DEF format, Idle, IInv, TypeOK
  <2>2. req[p].b \in Bufs
    BY <2>1, Zenon DEF Requests
  <2>. QED
    BY <2>1, <2>2
<1>3. desc \in [Descs -> DescType] /\ ops \in [Descs -> OpType] /\ info \in [Descs -> InfoType]
  BY Zenon DEF IInv, TypeOK
<1>4. UNCHANGED <<req, idx>>
  BY Zenon DEF format
<1>5. ops' = [ops EXCEPT ![a] = [type |-> IF r.write THEN "OUT" ELSE "IN", sector |-> r.b]]
  BY <1>0, <1>2, Zenon DEF format
<1>6. info' = [info EXCEPT ![a] = [b |-> r.b, status |-> "none"]]
  BY <1>0, <1>2, Zenon DEF format, NewInfo
<1>7. PICK fl : fl = {"NEXT"} \cup (IF r.write THEN {} ELSE {"WRITE"})
  BY Zenon
<1>15. fl \in SUBSET {"NEXT", "WRITE"} /\ "NEXT" \in fl /\ ("WRITE" \in fl <=> ~r.write)
  <2>1. CASE r.write
    BY <1>7, <2>1
  <2>2. CASE ~r.write
    BY <1>7, <2>2
  <2>. QED
    BY <2>1, <2>2, Zenon
<1>8. desc' = [desc EXCEPT ![a] = [addr |-> a, flags |-> {"NEXT"}, next |-> b],
                           ![b] = [addr |-> r.b, flags |-> fl, next |-> c],
                           ![c] = [addr |-> a, flags |-> {"WRITE"}, next |-> 0]]
  BY <1>0, <1>2, <1>7, Zenon DEF format
<1>9. /\ ops'[a].type = IF r.write THEN "OUT" ELSE "IN"
      /\ ops'[a].sector = r.b /\ ops' \in [Descs -> OpType]
      /\ \A d \in Descs : d # a => ops'[d] = ops[d]
  BY <1>2, <1>3, <1>5 DEF OpType
<1>10. /\ info'[a].b = r.b /\ info'[a].status = "none" /\ info' \in [Descs -> InfoType]
       /\ \A d \in Descs : d # a => info'[d] = info[d]
  BY <1>2, <1>3, <1>6 DEF InfoType
<1>11. /\ desc'[a].next = b /\ desc'[b].next = c /\ desc'[b].addr = r.b /\ desc'[b].flags = fl
       /\ desc'[c].addr = a /\ "NEXT" \in desc'[a].flags /\ "NEXT" \notin desc'[c].flags
       /\ \A d \in Descs : d \notin {a, b, c} => desc'[d] = desc[d]
  BY <1>1, <1>3, <1>8
<1>12. desc' \in [Descs -> DescType]
  <2>1. 0 \in Descs
    BY Sizes DEF Descs
  <2>. QED
    BY <1>2, <1>3, <1>8, <1>15, <2>1 DEF DescType
<1>13. Chain(p)'
  BY <1>0, <1>2, <1>4, <1>15, <1>9, <1>10, <1>11, Zenon DEF Chain
<1>14. \A d \in Descs : d \notin Own(p) => desc'[d] = desc[d] /\ ops'[d] = ops[d] /\ info'[d] = info[d]
  BY <1>1, <1>9, <1>10, <1>11, Zenon
<1>. QED
  BY <1>0, <1>9, <1>10, <1>12, <1>13, <1>14, Zenon

LEMMA FormatInv == ASSUME IInv, NEW p \in Procs, format(p) PROVE IInv' /\ Still
<1>0. /\ pc[p] = "format" /\ Goto(p, "publish") /\ disk' = disk \cup {req[p].b}
      /\ UNCHANGED <<vdisk_lock, free, used_idx, data, req, idx, handler, used, platter, irq, dev>>
  BY Zenon DEF format, device
<1>1. /\ TypeOK /\ Locking /\ Requests /\ Descriptors /\ Formatted /\ Apart /\ Owned /\ Tracked /\ Status
      /\ pc \in [Procs -> Labels]
  BY Zenon DEF IInv, TypeOK
<1>2. pc' \in [Procs -> Labels] /\ pc'[p] = "publish" /\ \A q \in Procs : q # p => pc'[q] = pc[q]
  <2>1. "publish" \in Labels
    BY DEF Labels
  <2>. QED
    BY <1>0, <1>1, <2>1, GotoMoves, Zenon
<1>3. p \in Locked /\ p \in Holding /\ p \notin InFlight /\ p \notin Idle /\ p \notin Publishing
  BY <1>0 DEF Locked, Holding, InFlight, Idle, Publishing
<1>4. Publishing = {}
  BY <1>1, <1>3, Places, Zenon DEF Locking
<1>5. /\ UNCHANGED <<Idle, Locked, Holding, InFlight>> /\ Publishing' = Publishing \cup {p}
  BY <1>0, <1>2 DEF Idle, Locked, Holding, Publishing, InFlight
<1>6. /\ Rings' /\ UNCHANGED <<Queued, Reported>>
      /\ avail' \in RingType /\ avail'.ring[avail'.idx % NUM] = idx[p][1]
  BY FormatRings, Zenon
<1>7. /\ desc' \in [Descs -> DescType] /\ ops' \in [Descs -> OpType] /\ info' \in [Descs -> InfoType]
      /\ Chain(p)' /\ info'[idx[p][1]].status = "none"
      /\ \A d \in Descs : d \notin Own(p) => desc'[d] = desc[d] /\ ops'[d] = ops[d] /\ info'[d] = info[d]
  BY FormatWrites, Zenon
<1>8. req[p].b \in Bufs
  BY <1>1, <1>3, Zenon DEF Requests
<1>9. TypeOK'
  BY <1>0, <1>1, <1>2, <1>6, <1>7, <1>8, Zenon DEF TypeOK
<1>10. Locking' /\ Requests' /\ Descriptors'
  BY <1>0, <1>1, <1>5, LockingFrame, RequestsFrame, DescriptorsFrame, Zenon
<1>11. \A q \in InFlight : \A d \in Own(q) : desc'[d] = desc[d] /\ ops'[d] = ops[d] /\ info'[d] = info[d]
  <2>. SUFFICES ASSUME NEW q \in InFlight, NEW d \in Own(q)
                PROVE  desc'[d] = desc[d] /\ ops'[d] = ops[d] /\ info'[d] = info[d]
    BY Zenon
  <2>1. q \in Holding /\ q # p /\ q \in Procs
    BY <1>3, Places, Zenon
  <2>2. d \in Descs
    BY <1>1, <2>1, IdxType, Zenon DEF Own
  <2>3. d \notin Own(p)
    BY <1>1, <1>3, <2>1, OneOwner, Zenon
  <2>. QED
    BY <1>7, <2>2, <2>3, Zenon
<1>12. Formatted'
  <2>1. \A q \in InFlight : Chain(q)'
    BY <1>0, <1>1, <1>11, ChainFrame, Zenon DEF Formatted
  <2>. QED
    BY <1>4, <1>5, <1>7, <2>1, Zenon DEF Formatted
<1>13. Published'
  BY <1>0, <1>4, <1>5, <1>6, <1>7, Zenon DEF Published
<1>14. Apart' /\ UnderWay' = UnderWay
  BY <1>0, <1>1, <1>6, Zenon DEF Apart, UnderWay
<1>15. Owned'
  BY <1>0, <1>1, <1>5, <1>14, Zenon DEF Owned
<1>16. Tracked'
  <2>1. \A q \in InFlight : req[q].b \in disk' => req[q].b \in disk
    <3>. SUFFICES ASSUME NEW q \in InFlight, req[q].b = req[p].b PROVE FALSE
      BY <1>0, Zenon
    <3>1. q \in Procs /\ q # p
      BY <1>3, Places, Zenon
    <3>2. req[p].b # Nobody
      BY <1>8, VirtioConstants, Zenon
    <3>. QED
      BY <1>1, <3>1, <3>2, Zenon DEF Requests
  <2>. QED
    BY <1>0, <1>1, <1>5, <1>14, <2>1, Zenon DEF Tracked
<1>17. Status'
  <2>1. \A q \in InFlight : info'[idx[q][1]] = info[idx[q][1]]
    BY <1>11, HeadOwned, Zenon
  <2>. QED
    BY <1>0, <1>1, <1>5, <1>6, <2>1, Zenon DEF Status
<1>18. Still
  <2>1. \A q \in InFlight : info'[idx[q][1]] = info[idx[q][1]]
    BY <1>11, HeadOwned, Zenon
  <2>. QED
    BY <1>0, <1>5, <2>1, Zenon DEF Still, Done
<1>. QED
  BY <1>6, <1>9, <1>10, <1>12, <1>13, <1>14, <1>15, <1>16, <1>17, <1>18, Zenon DEF IInv

\* An entry that is put at the index before it advances joins those of the window.
LEMMA Push ==
    ASSUME NEW f \in [Descs -> Descs], NEW g \in [Descs -> Descs],
           NEW a \in 0 .. WRAP - 1, NEW b \in 0 .. WRAP - 1, NEW h \in Descs,
           Uint16(b - a) <= NUM,
           Distinct(f, Window(a, b)),
           h \notin Entries(f, Window(a, b)),
           g[b % NUM] = h, \A s \in Descs : s # b % NUM => g[s] = f[s]
    PROVE  /\ Uint16(Uint16(b + 1) - a) <= NUM
           /\ Distinct(g, Window(a, Uint16(b + 1)))
           /\ Entries(g, Window(a, Uint16(b + 1))) = Entries(f, Window(a, b)) \cup {h}
<1>0. /\ \A s, t \in Window(a, b) : f[s] = f[t] => s = t
      /\ \A s \in Window(a, b) : f[s] # h
  BY Zenon DEF Distinct, Entries
<1>1. Uint16(b - a) < NUM
  BY <1>0, NotFull, Zenon
<1>2. PICK W : W = Window(a, b) /\ W \subseteq Descs
  BY Zenon DEF Window
<1>3. PICK c : c = b % NUM /\ c \in Descs /\ c \notin W /\ Window(a, Uint16(b + 1)) = W \cup {c}
  BY <1>1, <1>2, Grow, Zenon
<1>4. \A s \in W : g[s] = f[s] /\ g[s] # h
  BY <1>0, <1>2, <1>3, Zenon
<1>5. \A s, t \in W \cup {c} : g[s] = g[t] => s = t
  <2>1. \A s, t \in W : g[s] = g[t] => s = t
    BY <1>0, <1>2, <1>4, Zenon
  <2>2. \A s \in W : g[s] # g[c] /\ g[c] # g[s]
    BY <1>3, <1>4, Zenon
  <2>. QED
    BY <2>1, <2>2, Zenon
<1>6. {g[s] : s \in W \cup {c}} = {f[s] : s \in W} \cup {h}
  <2>. DEFINE A == {g[s] : s \in W \cup {c}}
              B == {f[s] : s \in W} \cup {h}
  <2>1. ASSUME NEW x PROVE x \in A <=> x \in B
    <3>1. x \in A <=> \E s \in W \cup {c} : x = g[s]
      BY Zenon
    <3>2. x \in B <=> (\E s \in W : x = f[s]) \/ x = h
      BY Zenon
    <3>3. (\E s \in W \cup {c} : x = g[s]) <=> (\E s \in W : x = f[s]) \/ x = h
      BY <1>3, <1>4, Zenon
    <3>. QED
      BY <3>1, <3>2, <3>3, Zenon
  <2>. HIDE DEF A, B
  <2>2. A = B
    BY <2>1, Zenon
  <2>. QED
    BY <2>2, Zenon DEF A, B
<1>7. Uint16(Uint16(b + 1) - a) <= NUM
  <2>1. Uint16(Uint16(b + 1) - a) = Uint16(b - a) + 1
    BY <1>1, Grow, Zenon
  <2>2. NUM \in Int /\ Uint16(b - a) \in Int
    BY Sizes, Wrapped
  <2>. QED
    BY <1>1, <2>1, <2>2
<1>. QED
  BY <1>2, <1>3, <1>5, <1>6, <1>7, Zenon DEF Distinct, Entries

\* An index that follows leaves the first entry of the window behind.
LEMMA Pop ==
    ASSUME NEW f \in [Descs -> Descs], NEW g \in [Descs -> Descs],
           NEW a \in 0 .. WRAP - 1, NEW b \in 0 .. WRAP - 1, a # b,
           Uint16(b - a) <= NUM,
           Distinct(f, Window(a, b)),
           \A s \in Descs : s # a % NUM => g[s] = f[s]
    PROVE  /\ a % NUM \in Window(a, b)
           /\ Uint16(b - Uint16(a + 1)) <= NUM
           /\ Distinct(g, Window(Uint16(a + 1), b))
           /\ Entries(g, Window(Uint16(a + 1), b)) = Entries(f, Window(a, b)) \ {f[a % NUM]}
<1>0. \A s, t \in Window(a, b) : f[s] = f[t] => s = t
  BY Zenon DEF Distinct
<1>2. PICK W : W = Window(a, b) /\ W \subseteq Descs
  BY Zenon DEF Window
<1>3. PICK c : c = a % NUM /\ c \in W /\ Window(Uint16(a + 1), b) = W \ {c}
  BY <1>2, Shrink, Zenon
<1>4. \A s \in W \ {c} : g[s] = f[s] /\ f[s] # f[c]
  BY <1>0, <1>2, <1>3, Zenon
<1>5. \A s, t \in W \ {c} : g[s] = g[t] => s = t
  <2>. SUFFICES ASSUME NEW s \in W \ {c}, NEW t \in W \ {c}, g[s] = g[t] PROVE s = t
    BY Zenon
  <2>1. s \in W /\ t \in W /\ f[s] = f[t]
    BY <1>4, Zenon
  <2>. QED
    BY <1>0, <1>2, <2>1, Zenon
<1>6. {g[s] : s \in W \ {c}} = {f[s] : s \in W} \ {f[c]}
  <2>. DEFINE A == {g[s] : s \in W \ {c}}
              B == {f[s] : s \in W} \ {f[c]}
  <2>1. ASSUME NEW x PROVE x \in A <=> x \in B
    <3>1. x \in A <=> \E s \in W \ {c} : x = g[s]
      BY Zenon
    <3>2. x \in B <=> (\E s \in W : x = f[s]) /\ x # f[c]
      BY Zenon
    <3>3. (\E s \in W \ {c} : x = g[s]) <=> (\E s \in W : x = f[s]) /\ x # f[c]
      BY <1>3, <1>4, Zenon
    <3>. QED
      BY <3>1, <3>2, <3>3, Zenon
  <2>. HIDE DEF A, B
  <2>2. A = B
    BY <2>1, Zenon
  <2>. QED
    BY <2>2, Zenon DEF A, B
<1>7. Uint16(b - Uint16(a + 1)) <= NUM
  <2>1. Uint16(b - Uint16(a + 1)) = Uint16(b - a) - 1
    BY Shrink, Zenon
  <2>2. NUM \in Int /\ Uint16(b - a) \in Int
    BY Sizes, Wrapped
  <2>. QED
    BY <2>1, <2>2
<1>. QED
  BY <1>2, <1>3, <1>5, <1>6, <1>7, Zenon DEF Distinct, Entries

LEMMA RingTypes ==
    ASSUME TypeOK
    PROVE  /\ avail.ring \in [Descs -> Descs] /\ avail.idx \in 0 .. WRAP - 1
           /\ used.ring \in [Descs -> Descs] /\ used.idx \in 0 .. WRAP - 1
           /\ used_idx \in 0 .. WRAP - 1 /\ dev.seen \in 0 .. WRAP - 1
           /\ Uint16(avail.idx + 1) \in 0 .. WRAP - 1 /\ Uint16(used.idx + 1) \in 0 .. WRAP - 1
           /\ Uint16(used_idx + 1) \in 0 .. WRAP - 1 /\ Uint16(dev.seen + 1) \in 0 .. WRAP - 1
<1>1. /\ avail \in RingType /\ used \in RingType /\ used_idx \in 0 .. WRAP - 1
      /\ dev \in [seen : 0 .. WRAP - 1, inhand : SUBSET Descs, served : SUBSET Descs, raise : BOOLEAN]
  BY Zenon DEF TypeOK
<1>2. /\ avail.ring \in [Descs -> Descs] /\ avail.idx \in 0 .. WRAP - 1
      /\ used.ring \in [Descs -> Descs] /\ used.idx \in 0 .. WRAP - 1 /\ dev.seen \in 0 .. WRAP - 1
  BY <1>1 DEF RingType
<1>3. ASSUME NEW n \in 0 .. WRAP - 1 PROVE Uint16(n + 1) \in 0 .. WRAP - 1
  <2>1. n + 1 \in Int
    BY Sizes
  <2>. QED
    BY <2>1, Wrapped, Zenon
<1>. QED
  BY <1>1, <1>2, <1>3, Zenon

\* The chain at the avail index joins those the device may fetch.
LEMMA PublishRings ==
    ASSUME IInv, NEW p \in Procs, publish(p)
    PROVE  /\ Rings' /\ Queued' = Queued \cup {idx[p][1]} /\ Reported' = Reported
           /\ avail' \in RingType
<1>1. /\ p \in Publishing /\ p \in Holding /\ p \notin InFlight /\ TypeOK /\ Rings
      /\ avail' = [avail EXCEPT !.idx = Uint16(@ + 1)]
      /\ UNCHANGED <<used, used_idx, dev>>
  BY Zenon DEF publish, IInv, Publishing, Holding, InFlight, device
<1>2. PICK f \in [Descs -> Descs], a \in 0 .. WRAP - 1, b \in 0 .. WRAP - 1, h \in Descs :
          f = avail.ring /\ a = dev.seen /\ b = avail.idx /\ h = idx[p][1]
  BY <1>1, RingTypes, IdxType, Zenon
<1>3. avail'.ring = f /\ avail'.idx = Uint16(b + 1) /\ avail' \in RingType
  <2>1. avail \in RingType /\ Uint16(b + 1) \in 0 .. WRAP - 1
    BY <1>1, <1>2, RingTypes, Zenon DEF TypeOK
  <2>. QED
    BY <1>1, <1>2, <2>1 DEF RingType
<1>4. f[b % NUM] = h
  BY <1>1, <1>2, Zenon DEF IInv, Published
<1>5. AvailWindow = Window(a, b) /\ Queued = Entries(f, Window(a, b))
  BY <1>2, Zenon DEF AvailWindow, Queued
<1>6. Uint16(b - a) <= NUM /\ Distinct(f, Window(a, b))
  BY <1>1, <1>2, <1>5, Zenon DEF Rings
<1>7. h \notin Entries(f, Window(a, b))
  BY <1>1, <1>2, <1>5, RoomInAvail, Zenon DEF UnderWay
<1>8. /\ Uint16(Uint16(b + 1) - a) <= NUM
      /\ Distinct(f, Window(a, Uint16(b + 1)))
      /\ Entries(f, Window(a, Uint16(b + 1))) = Entries(f, Window(a, b)) \cup {h}
  <2>1. PICK g \in [Descs -> Descs] : g = f
    BY Zenon
  <2>2. g[b % NUM] = h /\ \A s \in Descs : s # b % NUM => g[s] = f[s]
    BY <1>4, <2>1, Zenon
  <2>3. /\ Uint16(Uint16(b + 1) - a) <= NUM
        /\ Distinct(g, Window(a, Uint16(b + 1)))
        /\ Entries(g, Window(a, Uint16(b + 1))) = Entries(f, Window(a, b)) \cup {h}
    BY <1>6, <1>7, <2>2, Push
  <2>. QED
    BY <2>1, <2>3, Zenon
<1>9. AvailWindow' = Window(a, Uint16(b + 1)) /\ UsedWindow' = UsedWindow /\ dev'.seen = a
  BY <1>1, <1>2, <1>3, Zenon DEF AvailWindow, UsedWindow
<1>10. Queued' = Queued \cup {h}
  BY <1>3, <1>5, <1>8, <1>9, Zenon DEF Queued
<1>11. Reported' = Reported
  BY <1>1, <1>9, Zenon DEF Reported
<1>12. Rings'
  BY <1>1, <1>3, <1>8, <1>9, Zenon DEF Rings
<1>. QED
  BY <1>2, <1>3, <1>10, <1>11, <1>12, Zenon

LEMMA PublishInv == ASSUME IInv, NEW p \in Procs, publish(p) PROVE IInv' /\ Still
<1>0. /\ pc[p] = "publish" /\ Goto(p, "asleep") /\ vdisk_lock' = Nobody
      /\ UNCHANGED <<free, desc, ops, info, used_idx, disk, data, req, idx, handler, used, platter, irq, dev>>
  BY Zenon DEF publish, device
<1>1. /\ TypeOK /\ Locking /\ Requests /\ Descriptors /\ Formatted /\ Published
      /\ Apart /\ Owned /\ Tracked /\ Status
      /\ pc \in [Procs -> Labels]
  BY Zenon DEF IInv, TypeOK
<1>2. pc' \in [Procs -> Labels] /\ pc'[p] = "asleep" /\ \A q \in Procs : q # p => pc'[q] = pc[q]
  <2>1. "asleep" \in Labels
    BY DEF Labels
  <2>. QED
    BY <1>0, <1>1, <2>1, GotoMoves, Zenon
<1>3. p \in Locked /\ p \in Holding /\ p \notin InFlight /\ p \in Publishing
  BY <1>0 DEF Locked, Holding, InFlight, Idle, Publishing
<1>4. /\ UNCHANGED <<Idle, Holding>> /\ Publishing' = Publishing \ {p}
      /\ InFlight' = InFlight \cup {p} /\ Locked' = Locked \ {p}
  BY <1>0, <1>2 DEF Idle, Locked, Holding, Publishing, InFlight
<1>5. vdisk_lock = p /\ Locked' = {} /\ Publishing' = {}
  BY <1>1, <1>3, <1>4, Places, Zenon DEF Locking
<1>6. Rings' /\ Queued' = Queued \cup {idx[p][1]} /\ Reported' = Reported /\ avail' \in RingType
  BY PublishRings, Zenon
<1>7. idx[p][1] \notin UnderWay
  BY <1>3, RoomInAvail, Zenon
<1>8. TypeOK'
  BY <1>0, <1>1, <1>2, <1>6, Zenon DEF TypeOK
<1>9. Locking'
  <2>1. handler = "out"
    BY <1>1, <1>5, VirtioConstants, Zenon DEF Locking
  <2>. QED
    BY <1>0, <1>5, <2>1, Zenon DEF Locking
<1>10. Requests' /\ Descriptors'
  BY <1>0, <1>1, <1>4, RequestsFrame, DescriptorsFrame, Zenon
<1>11. Formatted'
  <2>1. \A q \in InFlight' : Chain(q)
    BY <1>1, <1>3, <1>4, Zenon DEF Formatted
  <2>2. \A q \in InFlight' : Chain(q)'
    BY <1>0, <2>1, ChainFrame, Zenon
  <2>. QED
    BY <1>5, <2>2, Zenon DEF Formatted
<1>12. Published'
  BY <1>5, Zenon DEF Published
<1>13. UnderWay' = UnderWay \cup {idx[p][1]}
  BY <1>0, <1>6, Zenon DEF UnderWay
<1>14. Apart'
  BY <1>0, <1>1, <1>6, <1>7, Zenon DEF Apart, UnderWay
<1>15. info[idx[p][1]].status = "none" /\ req[p].b \in disk
  BY <1>1, <1>3, Zenon DEF Published
<1>16. Owned'
  <2>1. \A h \in UnderWay : \E q \in InFlight' : idx'[q][1] = h /\ req'[q].b \in disk'
    BY <1>0, <1>1, <1>4, Zenon DEF Owned
  <2>2. p \in InFlight' /\ idx'[p][1] = idx[p][1] /\ req'[p].b \in disk'
    BY <1>0, <1>4, <1>15, Zenon
  <2>. QED
    BY <1>13, <2>1, <2>2, Zenon DEF Owned
<1>17. Tracked'
  BY <1>0, <1>1, <1>4, <1>13, Zenon DEF Tracked
<1>18. Status'
  <2>1. \A q \in InFlight : idx[q][1] # idx[p][1]
    BY <1>1, <1>3, Places, OneOwner, HeadOwned, Zenon
  <2>2. \A q \in InFlight' : info[idx[q][1]].status = IF idx[q][1] \in Queued' \cup dev.inhand THEN "none" ELSE "ok"
    <3>1. \A q \in InFlight : idx[q][1] \in Queued' <=> idx[q][1] \in Queued
      BY <1>6, <2>1, Zenon
    <3>2. idx[p][1] \in Queued'
      BY <1>6, Zenon
    <3>. QED
      BY <1>1, <1>4, <1>15, <3>1, <3>2, Zenon DEF Status
  <2>. QED
    BY <1>0, <2>2, Zenon DEF Status
<1>19. Still
  BY <1>0, <1>4, <1>15 DEF Still, Done
<1>. QED
  BY <1>6, <1>8, <1>9, <1>10, <1>11, <1>12, <1>14, <1>16, <1>17, <1>18, <1>19, Zenon DEF IInv

\* A request that returns gives back its own chain, and its status byte is the device's.
LEMMA Returns ==
    ASSUME IInv, NEW p \in Procs, check(p), Finished(req[p].b)
    PROVE  /\ p \in InFlight /\ idx[p][1] \notin UnderWay
           /\ Own(p) = {idx[p][1], desc[idx[p][1]].next, desc[desc[idx[p][1]].next].next}
           /\ free' = free \cup Own(p)
           /\ desc' = [d \in Descs |-> IF d \in Own(p) THEN NoDesc ELSE desc[d]]
           /\ \A q \in Procs : q # p => idx'[q] = idx[q] /\ req'[q] = req[q]
           /\ req'[p] = NoReq /\ idx'[p] = NoIdx
<1>1. p \in InFlight /\ p \in Holding
  BY Zenon DEF check, InFlight, Holding
<1>2. Chain(p)
  BY <1>1, Zenon DEF IInv, Formatted
<1>3. Own(p) = {idx[p][1], desc[idx[p][1]].next, desc[desc[idx[p][1]].next].next}
  BY <1>2, Zenon DEF Chain, Own
<1>4. idx[p][1] \notin UnderWay
  BY <1>1, HeadUnderWay, Zenon DEF IInv, Finished
<1>5. /\ free' = free \cup Own(p)
      /\ desc' = [d \in Descs |-> IF d \in Own(p) THEN NoDesc ELSE desc[d]]
  BY <1>3, Zenon DEF check
<1>6. req' = [req EXCEPT ![p] = NoReq] /\ idx' = [idx EXCEPT ![p] = NoIdx]
  BY Zenon DEF check
<1>7. DOMAIN req = Procs /\ DOMAIN idx = Procs
  BY Zenon DEF IInv, TypeOK
<1>8. \A q \in Procs : q # p => idx'[q] = idx[q] /\ req'[q] = req[q]
  BY <1>6, <1>7
<1>9. req'[p] = NoReq /\ idx'[p] = NoIdx
  BY <1>6, <1>7
<1>. QED
  BY <1>1, <1>3, <1>4, <1>5, <1>8, <1>9, Zenon

LEMMA CheckInv ==
    ASSUME IInv, NEW p \in Procs, check(p)
    PROVE  /\ IInv'
           /\ IF Finished(req[p].b)
              THEN /\ Done(p) /\ p \notin Idle /\ Idle' = Idle \cup {p}
                   /\ \A q \in Procs : q # p => (Done(q)' <=> Done(q))
              ELSE Still
<1>0. /\ pc[p] = "check" /\ vdisk_lock = Nobody
      /\ UNCHANGED <<vdisk_lock, avail, disk, used_idx, data, handler, used, platter, irq, dev>>
  BY Zenon DEF check, device
<1>1. /\ TypeOK /\ Locking /\ Requests /\ Descriptors /\ Formatted /\ Published
      /\ Rings /\ Apart /\ Owned /\ Tracked /\ Status
      /\ pc \in [Procs -> Labels]
  BY Zenon DEF IInv, TypeOK
<1>2. CASE ~Finished(req[p].b)
  <2>1. Goto(p, "asleep") /\ UNCHANGED <<free, desc, ops, info, req, idx>>
    BY <1>2, Zenon DEF check
  <2>2. pc' \in [Procs -> Labels] /\ pc'[p] = "asleep" /\ \A q \in Procs : q # p => pc'[q] = pc[q]
    <3>1. "asleep" \in Labels
      BY DEF Labels
    <3>. QED
      BY <1>1, <2>1, <3>1, GotoMoves, Zenon
  <2>3. UNCHANGED <<Idle, Locked, Holding, Publishing, InFlight>>
    BY <1>0, <2>2, Quietly, Zenon
  <2>4. TypeOK'
    BY <1>0, <1>1, <2>1, <2>2, Zenon DEF TypeOK
  <2>5. Locking'
    BY <1>0, <1>1, <2>3, LockingFrame, Zenon
  <2>. QED
    BY <1>0, <1>2, <2>1, <2>3, <2>4, <2>5, QuietStep, Zenon
<1>3. CASE Finished(req[p].b)
  <2>1. /\ p \in InFlight /\ idx[p][1] \notin UnderWay
        /\ free' = free \cup Own(p)
        /\ desc' = [d \in Descs |-> IF d \in Own(p) THEN NoDesc ELSE desc[d]]
        /\ \A q \in Procs : q # p => idx'[q] = idx[q] /\ req'[q] = req[q]
        /\ req'[p] = NoReq /\ idx'[p] = NoIdx
    BY <1>3, Returns, Zenon
  <2>2. /\ info' = [info EXCEPT ![idx[p][1]].b = Nobody]
        /\ ops' = [ops EXCEPT ![idx[p][1]] = NoOp]
        /\ req' = [req EXCEPT ![p] = NoReq] /\ idx' = [idx EXCEPT ![p] = NoIdx]
        /\ pc' = Wake(DescSleepers, [pc EXCEPT ![p] = "idle"])
    BY <1>3, Zenon DEF check
  <2>3. /\ pc' \in [Procs -> Labels] /\ pc'[p] = "idle"
        /\ \A q \in Procs : q # p => \/ pc'[q] = pc[q]
                                     \/ pc[q] = "nodesc" /\ pc'[q] = "alloc"
                                     \/ pc[q] = "asleep" /\ pc'[q] = "check"
    <3>1. PICK f : f = [pc EXCEPT ![p] = "idle"]
      BY Zenon
    <3>2. f \in [Procs -> Labels] /\ f[p] = "idle" /\ \A q \in Procs : q # p => f[q] = pc[q]
      BY <1>1, <3>1 DEF Labels
    <3>3. PICK S : S = DescSleepers
      BY Zenon
    <3>4. \A q \in Procs : q \in S => f[q] \in {"nodesc", "asleep"}
      BY <1>0, <3>2, <3>3 DEF DescSleepers
    <3>5. /\ Wake(S, f) \in [Procs -> Labels]
          /\ \A q \in Procs : \/ Wake(S, f)[q] = f[q]
                              \/ f[q] = "nodesc" /\ Wake(S, f)[q] = "alloc"
                              \/ f[q] = "asleep" /\ Wake(S, f)[q] = "check"
      BY <3>2, <3>4, WakeMoves, Zenon
    <3>6. pc' = Wake(S, f)
      BY <2>2, <3>1, <3>3, Zenon
    <3>7. /\ pc' \in [Procs -> Labels]
          /\ \A q \in Procs : \/ pc'[q] = f[q]
                              \/ f[q] = "nodesc" /\ pc'[q] = "alloc"
                              \/ f[q] = "asleep" /\ pc'[q] = "check"
      BY <3>5, <3>6, Zenon
    <3>. QED
      BY <3>2, <3>7
  <2>4. /\ Idle' = Idle \cup {p} /\ Holding' = Holding \ {p} /\ InFlight' = InFlight \ {p}
        /\ UNCHANGED <<Locked, Publishing>>
    BY <1>0, <2>3 DEF Idle, Locked, Holding, Publishing, InFlight
  <2>5. p \in Holding /\ p \notin Publishing
    BY <2>1, Places, Zenon
  <2>6. idx[p][1] \in Descs /\ Own(p) \subseteq Descs /\ idx[p][1] \in Own(p)
    BY <1>1, IdxType, Zenon DEF Own
  <2>7. /\ info' \in [Descs -> InfoType]
        /\ \A d \in Descs : info'[d].status = info[d].status
        /\ \A d \in Descs : d # idx[p][1] => info'[d] = info[d]
    <3>1. info \in [Descs -> InfoType]
      BY <1>1, Zenon DEF TypeOK
    <3>. QED
      BY <2>2, <2>6, <3>1 DEF InfoType
  <2>8. ops' \in [Descs -> OpType] /\ \A d \in Descs : d # idx[p][1] => ops'[d] = ops[d]
    <3>1. ops \in [Descs -> OpType] /\ NoOp \in OpType
      BY <1>1 DEF TypeOK, NoOp, OpType
    <3>. QED
      BY <2>2, <2>6, <3>1, Zenon
  <2>9. desc' \in [Descs -> DescType] /\ \A d \in Descs : d \notin Own(p) => desc'[d] = desc[d]
    <3>1. NoDesc \in DescType
      <4>1. 0 \in Descs
        BY Sizes DEF Descs
      <4>. QED
        BY <4>1 DEF NoDesc, DescType
    <3>2. desc \in [Descs -> DescType]
      BY <1>1, Zenon DEF TypeOK
    <3>. QED
      BY <2>1, <3>1, <3>2, Zenon
  <2>10. /\ req' \in [Procs -> [b : Bufs \cup {Nobody}, write : BOOLEAN]]
         /\ idx' \in [Procs -> Descs \X Descs \X Descs]
    <3>1. 0 \in Descs
      BY Sizes DEF Descs
    <3>2. NoIdx \in Descs \X Descs \X Descs /\ NoReq \in [b : Bufs \cup {Nobody}, write : BOOLEAN]
      BY <3>1 DEF NoIdx, NoReq
    <3>. QED
      BY <1>1, <2>2, <3>2, Zenon DEF TypeOK
  <2>11. TypeOK'
    BY <1>0, <1>1, <2>1, <2>3, <2>6, <2>7, <2>8, <2>9, <2>10, Zenon DEF TypeOK
  <2>12. Locking'
    BY <1>0, <1>1, <2>4, LockingFrame, Zenon
  <2>13. Rings' /\ UNCHANGED <<Queued, Reported>>
    BY <1>0, <1>1, RingsFrame, Zenon
  <2>14. Requests'
    <3>1. \A q \in Procs : IF q \in Idle' THEN req'[q] = NoReq ELSE req'[q].b \in Bufs
      BY <1>1, <2>1, <2>4, Zenon DEF Requests
    <3>2. req'[p].b = Nobody
      BY <2>1 DEF NoReq
    <3>3. ASSUME NEW q \in Procs, NEW r \in Procs, req'[q].b = req'[r].b, req'[q].b # Nobody
          PROVE  q = r
      <4>1. q # p /\ r # p
        BY <3>2, <3>3, Zenon
      <4>2. req[q].b = req[r].b /\ req[q].b # Nobody
        BY <2>1, <3>3, <4>1, Zenon
      <4>. QED
        BY <1>1, <4>2, Zenon DEF Requests
    <3>. QED
      BY <3>1, <3>3, Zenon DEF Requests
  <2>15. \A q \in Holding' : q \in Procs /\ q \in Holding /\ q # p /\ idx'[q] = idx[q] /\ req'[q] = req[q]
    BY <2>1, <2>4, Places, Zenon
  <2>16. \A q \in Holding' : Own(q)' = Own(q)
    BY <2>15, Zenon DEF Own
  <2>17. \A q \in Holding' : \A d \in Own(q) : d \notin Own(p) /\ d \in Descs
    <3>1. \A q \in Holding' : \A d \in Own(q) : d \notin Own(p)
      BY <1>1, <2>5, <2>15, OneOwner, Zenon
    <3>2. \A q \in Procs : \A d \in Own(q) : d \in Descs
      BY <1>1, IdxType, Zenon DEF Own
    <3>. QED
      BY <2>15, <3>1, <3>2, Zenon
  <2>18. Descriptors'
    <3>1. \A q \in Holding' : idx'[q][1] # idx'[q][2] /\ idx'[q][1] # idx'[q][3] /\ idx'[q][2] # idx'[q][3]
      BY <1>1, <2>15, Zenon DEF Descriptors
    <3>2. \A q, r \in Holding' : q # r => Own(q)' \cap Own(r)' = {}
      <4>1. \A q, r \in Holding : q # r => Own(q) \cap Own(r) = {}
        BY <1>1, Zenon DEF Descriptors
      <4>2. \A q, r \in Holding' : q # r => Own(q) \cap Own(r) = {}
        BY <2>15, <4>1, Zenon
      <4>. QED
        BY <2>16, <4>2, Zenon
    <3>3. ASSUME NEW d \in Descs PROVE d \in free' <=> \A q \in Holding' : d \notin Own(q)'
      <4>1. d \in free <=> \A q \in Holding : d \notin Own(q)
        BY <1>1, Zenon DEF Descriptors
      <4>2. (\A q \in Holding' : d \notin Own(q)') <=> (\A q \in Holding' : d \notin Own(q))
        BY <2>16, Zenon
      <4>3. d \in free' <=> d \in free \/ d \in Own(p)
        BY <2>1, Zenon
      <4>4. d \in Own(p) => \A q \in Holding' : d \notin Own(q)
        BY <2>17, Zenon
      <4>. QED
        BY <2>4, <4>1, <4>2, <4>3, <4>4, Zenon
    <3>. QED
      BY <3>1, <3>2, <3>3, Zenon DEF Descriptors
  <2>19. \A q \in Publishing' \cup InFlight' : q \in Holding' /\ q \in Publishing \cup InFlight
    BY <2>4, <2>5, Places, Zenon
  <2>20. Formatted'
    <3>. SUFFICES ASSUME NEW q \in Publishing' \cup InFlight' PROVE Chain(q)'
      BY Zenon DEF Formatted
    <3>1. q \in Holding' /\ Chain(q)
      BY <1>1, <2>19, Zenon DEF Formatted
    <3>2. \A d \in Own(q) : desc'[d] = desc[d] /\ ops'[d] = ops[d] /\ info'[d].b = info[d].b
      <4>1. \A d \in Own(q) : d \in Descs /\ d \notin Own(p) /\ d # idx[p][1]
        BY <2>6, <2>17, <3>1, Zenon
      <4>. QED
        BY <2>7, <2>8, <2>9, <4>1, Zenon
    <3>. QED
      BY <2>15, <3>1, <3>2, ChainFrame, Zenon
  <2>21. \A q \in Publishing' \cup InFlight' :
            idx'[q] = idx[q] /\ req'[q] = req[q] /\ info'[idx[q][1]].status = info[idx[q][1]].status
    <3>1. \A q \in Procs : idx[q][1] \in Descs
      BY <1>1, IdxType, Zenon
    <3>. QED
      BY <2>7, <2>15, <2>19, <3>1, Zenon
  <2>22. Published'
    BY <1>0, <1>1, <2>4, <2>21, Zenon DEF Published
  <2>23. Apart' /\ UnderWay' = UnderWay
    BY <1>0, <1>1, <2>13, Zenon DEF Apart, UnderWay
  <2>24. Owned'
    <3>. SUFFICES ASSUME NEW h \in UnderWay
                  PROVE  \E q \in InFlight' : idx'[q][1] = h /\ req'[q].b \in disk'
      BY <2>23, Zenon DEF Owned
    <3>1. PICK q \in InFlight : idx[q][1] = h /\ req[q].b \in disk
      BY <1>1, Zenon DEF Owned
    <3>2. q # p
      BY <2>1, <3>1, Zenon
    <3>3. q \in InFlight'
      BY <2>4, <3>2, Zenon
    <3>. QED
      BY <1>0, <2>21, <3>1, <3>3, Zenon
  <2>25. Tracked'
    BY <1>0, <1>1, <2>4, <2>21, <2>23, Zenon DEF Tracked
  <2>26. Status'
    BY <1>0, <1>1, <2>4, <2>13, <2>21, Zenon DEF Status
  <2>27. Done(p)
    BY <1>1, <2>1, Zenon DEF Done, Status, UnderWay
  <2>28. \A q \in Procs : q # p => (Done(q)' <=> Done(q))
    BY <2>4, <2>21, Zenon DEF Done
  <2>29. p \notin Idle
    BY <2>5, Places, Zenon
  <2>. QED
    BY <1>3, <2>4, <2>11, <2>12, <2>13, <2>14, <2>18, <2>20, <2>22, <2>23, <2>24, <2>25, <2>26,
       <2>27, <2>28, <2>29, Zenon DEF IInv
<1>. QED
  BY <1>2, <1>3, Zenon

-----------------------------------------------------------------------------
\* The entry the handler reads is of a request whose chain the device has served.
LEMMA EntryRead ==
    ASSUME IInv, used_idx # used.idx
    PROVE  /\ used.ring[used_idx % NUM] \in Reported
           /\ \E q \in InFlight : /\ idx[q][1] = used.ring[used_idx % NUM] /\ req[q].b \in disk
                                  /\ info[used.ring[used_idx % NUM]].b = req[q].b
                                  /\ info[used.ring[used_idx % NUM]].status = "ok"
<1>1. TypeOK /\ Rings /\ Apart /\ Owned /\ Status /\ Formatted
  BY Zenon DEF IInv
<1>2. PICK a \in 0 .. WRAP - 1, b \in 0 .. WRAP - 1 : a = used_idx /\ b = used.idx
  BY <1>1, RingTypes, Zenon
<1>3. UsedWindow = Window(a, b) /\ Uint16(b - a) <= NUM /\ a # b
  BY <1>1, <1>2, Zenon DEF UsedWindow, Rings
<1>4. used_idx % NUM \in UsedWindow
  BY <1>2, <1>3, Shrink, Zenon
<1>5. PICK h : h = used.ring[used_idx % NUM] /\ h \in Reported
  BY <1>4, Zenon DEF Reported, Entries
<1>6. PICK q \in InFlight : idx[q][1] = h /\ req[q].b \in disk
  BY <1>1, <1>5, Zenon DEF Owned, UnderWay
<1>7. h \notin Queued \cup dev.inhand
  BY <1>1, <1>5, Zenon DEF Apart
<1>8. info[h].status = "ok" /\ info[h].b = req[q].b
  BY <1>1, <1>6, <1>7, Zenon DEF Status, Formatted, Chain
<1>. QED
  BY <1>5, <1>6, <1>8, Zenon

LEMMA EntryRings ==
    ASSUME IInv, intr_entry
    PROVE  /\ Rings' /\ Queued' = Queued /\ Reported' = Reported \ {used.ring[used_idx % NUM]}
           /\ used' \in RingType /\ used_idx' \in 0 .. WRAP - 1
<1>1. /\ TypeOK /\ Rings /\ used_idx # used.idx /\ used_idx' = Uint16(used_idx + 1)
      /\ used' = [used EXCEPT !.ring[used_idx % NUM] = 0]
      /\ UNCHANGED <<avail, dev>>
  BY Zenon DEF intr_entry, IInv
<1>2. PICK f \in [Descs -> Descs], a \in 0 .. WRAP - 1, b \in 0 .. WRAP - 1 :
          f = used.ring /\ a = used_idx /\ b = used.idx
  BY <1>1, RingTypes, Zenon
<1>3. /\ Uint16(b - a) <= NUM /\ Distinct(f, Window(a, b)) /\ a # b
      /\ UsedWindow = Window(a, b) /\ Reported = Entries(f, Window(a, b))
  BY <1>1, <1>2, Zenon DEF Rings, UsedWindow, Reported
<1>4. 0 \in Descs /\ a % NUM \in Descs
  <2>1. a \in Int
    BY Sizes
  <2>. QED
    BY Sizes DEF Descs
<1>5. PICK g \in [Descs -> Descs] : g = used'.ring /\ \A s \in Descs : s # a % NUM => g[s] = f[s]
  <2>1. used \in RingType
    BY <1>1, Zenon DEF TypeOK
  <2>. QED
    BY <1>1, <1>2, <1>4, <2>1 DEF RingType
<1>6. used'.idx = b /\ used' \in RingType
  <2>1. used \in RingType
    BY <1>1, Zenon DEF TypeOK
  <2>. QED
    BY <1>1, <1>2, <1>4, <2>1 DEF RingType
<1>7. /\ Uint16(b - Uint16(a + 1)) <= NUM
      /\ Distinct(g, Window(Uint16(a + 1), b))
      /\ Entries(g, Window(Uint16(a + 1), b)) = Entries(f, Window(a, b)) \ {f[a % NUM]}
  BY <1>3, <1>5, Pop
<1>8. UsedWindow' = Window(Uint16(a + 1), b) /\ AvailWindow' = AvailWindow
  BY <1>1, <1>2, <1>6, Zenon DEF UsedWindow, AvailWindow
<1>9. Reported' = Reported \ {f[a % NUM]}
  BY <1>3, <1>5, <1>7, <1>8, Zenon DEF Reported
<1>10. Queued' = Queued
  BY <1>1, <1>8, Zenon DEF Queued
<1>11. Rings'
  BY <1>1, <1>2, <1>5, <1>6, <1>7, <1>8, Zenon DEF Rings
<1>12. used_idx' \in 0 .. WRAP - 1
  BY <1>1, RingTypes, Zenon
<1>. QED
  BY <1>2, <1>6, <1>9, <1>10, <1>11, <1>12, Zenon

LEMMA EntryInv == ASSUME IInv, intr_entry PROVE IInv' /\ Still
<1>0. /\ handler = "loop" /\ used_idx # used.idx
      /\ UNCHANGED <<vdisk_lock, free, desc, ops, info, avail, data, platter, req, idx, handler, irq, dev>>
  BY Zenon DEF intr_entry
<1>1. /\ TypeOK /\ Locking /\ Requests /\ Descriptors /\ Formatted
      /\ Apart /\ Owned /\ Tracked /\ Status
      /\ pc \in [Procs -> Labels]
  BY Zenon DEF IInv, TypeOK
<1>2. PICK h : h = used.ring[used_idx % NUM] /\ h \in Reported
  BY <1>0, EntryRead, Zenon
<1>3. PICK p \in InFlight : idx[p][1] = h /\ req[p].b \in disk /\ info[h].b = req[p].b
  BY <1>0, <1>2, EntryRead, Zenon
<1>4. disk' = disk \ {req[p].b} /\ pc' = Wake(BufSleepers(req[p].b), pc)
  BY <1>2, <1>3, Zenon DEF intr_entry
<1>5. /\ pc' \in [Procs -> Labels]
      /\ \A q \in Procs : \/ pc'[q] = pc[q]
                          \/ pc[q] = "nodesc" /\ pc'[q] = "alloc"
                          \/ pc[q] = "asleep" /\ pc'[q] = "check"
  <2>1. PICK S : S = BufSleepers(req[p].b)
    BY Zenon
  <2>2. \A q \in Procs : q \in S => pc[q] \in {"nodesc", "asleep"}
    BY <2>1, Zenon DEF BufSleepers
  <2>3. /\ Wake(S, pc) \in [Procs -> Labels]
        /\ \A q \in Procs : \/ Wake(S, pc)[q] = pc[q]
                            \/ pc[q] = "nodesc" /\ Wake(S, pc)[q] = "alloc"
                            \/ pc[q] = "asleep" /\ Wake(S, pc)[q] = "check"
    BY <1>1, <2>2, WakeMoves, Zenon
  <2>4. pc' = Wake(S, pc)
    BY <1>4, <2>1, Zenon
  <2>. QED
    BY <2>3, <2>4, Zenon
<1>6. UNCHANGED <<Idle, Locked, Holding, Publishing, InFlight>>
  BY <1>5, Quietly, Zenon
<1>7. /\ Rings' /\ Queued' = Queued /\ Reported' = Reported \ {h}
      /\ used' \in RingType /\ used_idx' \in 0 .. WRAP - 1
  BY <1>2, EntryRings, Zenon
<1>8. TypeOK'
  BY <1>0, <1>1, <1>4, <1>5, <1>7, Zenon DEF TypeOK
<1>9. Locking' /\ Requests' /\ Descriptors' /\ Formatted'
  BY <1>0, <1>1, <1>6, LockingFrame, RequestsFrame, DescriptorsFrame, FormattedFrame, Zenon
<1>10. Published'
  <2>1. vdisk_lock = "intr"
    BY <1>0, <1>1 DEF Locking
  <2>2. Publishing = {}
    BY <1>1, <2>1, Places, VirtioConstants, Zenon DEF Locking
  <2>. QED
    BY <1>6, <2>2, Zenon DEF Published
<1>11. Apart'
  BY <1>0, <1>1, <1>7, Zenon DEF Apart
<1>12. UnderWay' = UnderWay \ {h} /\ h \in UnderWay
  <2>1. h \notin Queued /\ h \notin dev.inhand /\ h \notin dev.served
    BY <1>1, <1>2, Zenon DEF Apart
  <2>. QED
    BY <1>0, <1>2, <1>7, <2>1, Zenon DEF UnderWay
<1>13. \A q \in InFlight : /\ idx[q][1] = h <=> q = p
                           /\ req[q].b \in disk' <=> req[q].b \in disk /\ q # p
  <2>. SUFFICES ASSUME NEW q \in InFlight
                PROVE  /\ idx[q][1] = h <=> q = p
                       /\ req[q].b \in disk' <=> req[q].b \in disk /\ q # p
    BY Zenon
  <2>1. q \in Holding /\ p \in Holding /\ q \in Procs /\ p \in Procs
    BY Places, Zenon
  <2>2. idx[q][1] = h <=> q = p
    BY <1>1, <1>3, <2>1, OneOwner, HeadOwned, Zenon
  <2>3. req[q].b = req[p].b => q = p
    <3>1. req[p].b # Nobody
      BY <1>1, <1>3, VirtioConstants, Zenon DEF TypeOK
    <3>. QED
      BY <1>1, <2>1, <3>1, Zenon DEF Requests
  <2>. QED
    BY <1>4, <2>2, <2>3, Zenon
<1>14. Owned'
  BY <1>0, <1>1, <1>6, <1>12, <1>13, Zenon DEF Owned
<1>15. Tracked'
  BY <1>0, <1>1, <1>6, <1>12, <1>13, Zenon DEF Tracked
<1>16. Status'
  BY <1>0, <1>1, <1>6, <1>7, Zenon DEF Status
<1>17. Still
  BY <1>0, <1>6, Zenon DEF Still, Done
<1>. QED
  BY <1>7, <1>8, <1>9, <1>10, <1>11, <1>14, <1>15, <1>16, <1>17, Zenon DEF IInv

-----------------------------------------------------------------------------
DevType == [seen : 0 .. WRAP - 1, inhand : SUBSET Descs, served : SUBSET Descs, raise : BOOLEAN]

LEMMA FetchRings ==
    ASSUME IInv, dev_fetch
    PROVE  /\ Rings' /\ Reported' = Reported
           /\ avail.ring[dev.seen % NUM] \in Queued
           /\ Queued' = Queued \ {avail.ring[dev.seen % NUM]}
           /\ dev' \in DevType /\ avail' \in RingType
           /\ dev'.inhand = dev.inhand \cup {avail.ring[dev.seen % NUM]} /\ dev'.served = dev.served
           /\ \A p \in Publishing : avail'.ring[avail'.idx % NUM] = avail.ring[avail.idx % NUM]
<1>1. /\ TypeOK /\ Rings /\ dev.seen # avail.idx
      /\ dev' = [dev EXCEPT !.seen = Uint16(@ + 1), !.inhand = @ \cup {avail.ring[dev.seen % NUM]}]
      /\ avail' = [avail EXCEPT !.ring[dev.seen % NUM] = 0]
      /\ UNCHANGED <<used, used_idx>>
  BY Zenon DEF dev_fetch, IInv
<1>2. PICK f \in [Descs -> Descs], a \in 0 .. WRAP - 1, b \in 0 .. WRAP - 1 :
          f = avail.ring /\ a = dev.seen /\ b = avail.idx
  BY <1>1, RingTypes, Zenon
<1>3. /\ Uint16(b - a) <= NUM /\ Distinct(f, Window(a, b)) /\ a # b
      /\ AvailWindow = Window(a, b) /\ Queued = Entries(f, Window(a, b))
  BY <1>1, <1>2, Zenon DEF Rings, AvailWindow, Queued
<1>4. 0 \in Descs /\ a % NUM \in Descs
  <2>1. a \in Int
    BY Sizes
  <2>. QED
    BY Sizes DEF Descs
<1>5. avail \in RingType /\ dev \in DevType /\ Uint16(a + 1) \in 0 .. WRAP - 1 /\ f[a % NUM] \in Descs
  BY <1>1, <1>2, <1>4, RingTypes, Zenon DEF TypeOK, DevType
<1>6. PICK g \in [Descs -> Descs] : g = avail'.ring /\ \A s \in Descs : s # a % NUM => g[s] = f[s]
  BY <1>1, <1>2, <1>4, <1>5 DEF RingType
<1>7. avail'.idx = b /\ avail' \in RingType
  BY <1>1, <1>2, <1>4, <1>5 DEF RingType
<1>8. /\ dev'.seen = Uint16(a + 1) /\ dev' \in DevType
      /\ dev'.inhand = dev.inhand \cup {f[a % NUM]} /\ dev'.served = dev.served
  <2>1. dev' = [dev EXCEPT !.seen = Uint16(a + 1), !.inhand = dev.inhand \cup {f[a % NUM]}]
    BY <1>1, <1>2, <1>5 DEF DevType
  <2>. QED
    BY <1>5, <2>1, Zenon DEF DevType
<1>9. /\ a % NUM \in Window(a, b)
      /\ Uint16(b - Uint16(a + 1)) <= NUM
      /\ Distinct(g, Window(Uint16(a + 1), b))
      /\ Entries(g, Window(Uint16(a + 1), b)) = Entries(f, Window(a, b)) \ {f[a % NUM]}
  BY <1>3, <1>6, Pop
<1>10. AvailWindow' = Window(Uint16(a + 1), b) /\ UsedWindow' = UsedWindow
  BY <1>1, <1>7, <1>8, Zenon DEF UsedWindow, AvailWindow
<1>11. Queued' = Queued \ {f[a % NUM]} /\ f[a % NUM] \in Queued
  <2>1. Queued' = Queued \ {f[a % NUM]}
    BY <1>3, <1>6, <1>9, <1>10, Zenon DEF Queued
  <2>2. f[a % NUM] \in Entries(f, Window(a, b))
    BY <1>9, Zenon DEF Entries
  <2>. QED
    BY <1>3, <2>1, <2>2, Zenon
<1>12. Reported' = Reported
  BY <1>1, <1>10, Zenon DEF Reported
<1>13. Rings'
  BY <1>1, <1>6, <1>7, <1>8, <1>9, <1>10, Zenon DEF Rings
<1>14. ASSUME NEW p \in Publishing PROVE avail'.ring[avail'.idx % NUM] = avail.ring[avail.idx % NUM]
  <2>1. p \in Holding /\ p \notin InFlight
    BY Places, Zenon
  <2>2. b % NUM \in Descs /\ b % NUM \notin Window(a, b)
    BY <1>2, <1>3, <2>1, RoomInAvail, Zenon
  <2>3. b % NUM # a % NUM
    BY <1>9, <2>2, Zenon
  <2>. QED
    BY <1>2, <1>6, <1>7, <2>2, <2>3, Zenon
<1>. QED
  BY <1>2, <1>7, <1>8, <1>11, <1>12, <1>13, <1>14, Zenon

\* A chain that the device takes is still under way, and nobody has reported it.
LEMMA FetchInv == ASSUME IInv, dev_fetch PROVE IInv' /\ Still
<1>0. UNCHANGED <<vdisk_lock, free, desc, ops, info, disk, used, used_idx, data, platter, req, idx, pc, handler, irq>>
  BY Zenon DEF dev_fetch
<1>1. /\ TypeOK /\ Locking /\ Requests /\ Descriptors /\ Formatted /\ Published
      /\ Apart /\ Owned /\ Tracked /\ Status
  BY Zenon DEF IInv
<1>2. PICK h : h = avail.ring[dev.seen % NUM]
  BY Zenon
<1>3. /\ Rings' /\ Reported' = Reported /\ h \in Queued /\ Queued' = Queued \ {h}
      /\ dev' \in DevType /\ avail' \in RingType
      /\ dev'.inhand = dev.inhand \cup {h} /\ dev'.served = dev.served
      /\ \A p \in Publishing : avail'.ring[avail'.idx % NUM] = avail.ring[avail.idx % NUM]
  BY <1>2, FetchRings, Zenon
<1>4. UNCHANGED <<Idle, Locked, Holding, Publishing, InFlight>>
  BY <1>0, Quietly, Zenon
<1>5. TypeOK'
  BY <1>0, <1>1, <1>3, Zenon DEF TypeOK, DevType
<1>6. Locking' /\ Requests' /\ Descriptors' /\ Formatted'
  BY <1>0, <1>1, <1>4, LockingFrame, RequestsFrame, DescriptorsFrame, FormattedFrame, Zenon
<1>7. Published'
  BY <1>0, <1>1, <1>3, <1>4, Zenon DEF Published
<1>8. Apart'
  BY <1>1, <1>3, Zenon DEF Apart
<1>9. UnderWay' = UnderWay /\ (Queued \cup dev.inhand)' = Queued \cup dev.inhand
  BY <1>3, Zenon DEF UnderWay
<1>10. Owned'
  BY <1>0, <1>1, <1>4, <1>9, Zenon DEF Owned
<1>11. Tracked'
  BY <1>0, <1>1, <1>4, <1>9, Zenon DEF Tracked
<1>12. Status'
  BY <1>0, <1>1, <1>4, <1>9, Zenon DEF Status
<1>13. Still
  BY <1>0, <1>4, Zenon DEF Still, Done
<1>. QED
  BY <1>3, <1>5, <1>6, <1>7, <1>8, <1>10, <1>11, <1>12, <1>13, Zenon DEF IInv

\* The device moves the block of the request that owns the chain, as it asked for.
LEMMA Serves ==
    ASSUME IInv, NEW h \in Descs, dev_serve(h)
    PROVE  \E p \in InFlight :
             /\ idx[p][1] = h /\ req[p].b \in Bufs /\ info[h].status = "none"
             /\ platter' = IF req[p].write THEN [platter EXCEPT ![req[p].b] = data[req[p].b]] ELSE platter
             /\ data' = IF req[p].write THEN data ELSE [data EXCEPT ![req[p].b] = platter[req[p].b]]
             /\ info' = [info EXCEPT ![h].status = "ok"]
<1>1. /\ h \in dev.inhand /\ Owned /\ Status /\ Formatted /\ TypeOK
  BY Zenon DEF dev_serve, IInv
<1>2. PICK p \in InFlight : idx[p][1] = h /\ req[p].b \in disk
  BY <1>1, Zenon DEF Owned, UnderWay
<1>3. Chain(p) /\ info[h].status = "none" /\ req[p].b \in Bufs
  BY <1>1, <1>2, Zenon DEF Formatted, Status, TypeOK
<1>4. PICK r \in [b : Bufs, write : BOOLEAN] : r = req[p]
  <2>1. req \in [Procs -> [b : Bufs \cup {Nobody}, write : BOOLEAN]] /\ p \in Procs
    BY <1>1, Places, Zenon DEF TypeOK
  <2>. QED
    BY <1>3, <2>1
<1>5. PICK d : /\ d = desc[desc[h].next] /\ d.addr = r.b /\ desc[d.next].addr = h
               /\ ("WRITE" \in d.flags <=> ~r.write)
  BY <1>2, <1>3, <1>4, Zenon DEF Chain
<1>6. ops[h].sector = r.b /\ (ops[h].type = "OUT" <=> r.write)
  <2>1. ops[h].sector = r.b /\ ops[h].type = IF r.write THEN "OUT" ELSE "IN"
    BY <1>2, <1>3, <1>4, Zenon DEF Chain
  <2>. QED
    BY <2>1
<1>7. (ops[h].type = "OUT") # ("WRITE" \in d.flags)
  BY <1>5, <1>6, Zenon
<1>8. /\ platter' = IF r.write THEN [platter EXCEPT ![r.b] = data[r.b]] ELSE platter
      /\ data' = IF r.write THEN data ELSE [data EXCEPT ![r.b] = platter[r.b]]
      /\ info' = [info EXCEPT ![h].status = "ok"]
  BY <1>5, <1>6, <1>7, Zenon DEF dev_serve
<1>. QED
  BY <1>2, <1>3, <1>4, <1>8, Zenon

LEMMA ServeInv ==
    ASSUME IInv, NEW h \in Descs, dev_serve(h)
    PROVE  /\ IInv' /\ Idle' = Idle
           /\ \E p \in InFlight :
                 /\ ~Done(p) /\ Done(p)' /\ \A q \in Procs : q # p => (Done(q)' <=> Done(q))
                 /\ platter' = IF req[p].write THEN [platter EXCEPT ![req[p].b] = data[req[p].b]] ELSE platter
                 /\ data' = IF req[p].write THEN data ELSE [data EXCEPT ![req[p].b] = platter[req[p].b]]
<1>0. /\ h \in dev.inhand
      /\ dev' = [dev EXCEPT !.inhand = @ \ {h}, !.served = @ \cup {h}]
      /\ UNCHANGED <<vdisk_lock, free, desc, ops, avail, used, used_idx, disk, req, idx, pc, handler, irq>>
  BY Zenon DEF dev_serve
<1>1. /\ TypeOK /\ Locking /\ Requests /\ Descriptors /\ Formatted /\ Published
      /\ Rings /\ Apart /\ Owned /\ Tracked /\ Status
  BY Zenon DEF IInv
<1>2. PICK p \in InFlight :
          /\ idx[p][1] = h /\ req[p].b \in Bufs /\ info[h].status = "none"
          /\ platter' = IF req[p].write THEN [platter EXCEPT ![req[p].b] = data[req[p].b]] ELSE platter
          /\ data' = IF req[p].write THEN data ELSE [data EXCEPT ![req[p].b] = platter[req[p].b]]
          /\ info' = [info EXCEPT ![h].status = "ok"]
  BY Serves, Zenon
<1>3. /\ dev' \in DevType /\ dev'.seen = dev.seen
      /\ dev'.inhand = dev.inhand \ {h} /\ dev'.served = dev.served \cup {h}
  <2>1. dev \in DevType
    BY <1>1, Zenon DEF TypeOK, DevType
  <2>. QED
    BY <1>0, <2>1, Zenon DEF DevType
<1>4. /\ info' \in [Descs -> InfoType] /\ info'[h].status = "ok"
      /\ \A d \in Descs : info'[d].b = info[d].b /\ (d # h => info'[d] = info[d])
  <2>1. info \in [Descs -> InfoType]
    BY <1>1, Zenon DEF TypeOK
  <2>. QED
    BY <1>2, <2>1 DEF InfoType
<1>5. platter' \in [Bufs -> Data] /\ data' \in [Bufs -> Data]
  <2>1. platter \in [Bufs -> Data] /\ data \in [Bufs -> Data]
    BY <1>1, Zenon DEF TypeOK
  <2>2. platter[req[p].b] \in Data /\ data[req[p].b] \in Data
    BY <1>2, <2>1, Zenon
  <2>. QED
    BY <1>2, <2>1, <2>2, Zenon
<1>6. UNCHANGED <<Idle, Locked, Holding, Publishing, InFlight>>
  BY <1>0, Quietly, Zenon
<1>7. TypeOK'
  BY <1>0, <1>1, <1>3, <1>4, <1>5, Zenon DEF TypeOK, DevType
<1>8. Locking' /\ Requests' /\ Descriptors'
  BY <1>0, <1>1, <1>6, LockingFrame, RequestsFrame, DescriptorsFrame, Zenon
<1>9. Rings' /\ UNCHANGED <<Queued, Reported>>
  BY <1>0, <1>1, <1>3, RingsFrame, Zenon
<1>10. \A q \in Procs : \A d \in Own(q) : d \in Descs
  BY <1>1, IdxType, Zenon DEF Own
<1>11. Formatted'
  <2>. SUFFICES ASSUME NEW q \in Publishing \cup InFlight PROVE Chain(q)'
    BY <1>6, Zenon DEF Formatted
  <2>1. Chain(q) /\ q \in Procs
    BY <1>1, Places, Zenon DEF Formatted
  <2>2. \A d \in Own(q) : desc'[d] = desc[d] /\ ops'[d] = ops[d] /\ info'[d].b = info[d].b
    BY <1>0, <1>4, <1>10, <2>1, Zenon
  <2>. QED
    BY <1>0, <2>1, <2>2, ChainFrame, Zenon
<1>12. \A q \in Holding : q # p => idx[q][1] # h /\ info'[idx[q][1]] = info[idx[q][1]]
  <2>. SUFFICES ASSUME NEW q \in Holding, q # p PROVE idx[q][1] # h /\ info'[idx[q][1]] = info[idx[q][1]]
    BY Zenon
  <2>1. p \in Holding /\ q \in Procs
    BY Places, Zenon
  <2>2. idx[q][1] # h
    BY <1>1, <1>2, <2>1, OneOwner, HeadOwned, Zenon
  <2>3. idx[q][1] \in Descs
    BY <1>1, <2>1, IdxType, Zenon
  <2>. QED
    BY <1>4, <2>2, <2>3, Zenon
<1>13. Published'
  <2>1. \A q \in Publishing : q \in Holding /\ q # p
    BY Places, Zenon
  <2>. QED
    BY <1>0, <1>1, <1>6, <1>12, <2>1, Zenon DEF Published
<1>14. Apart' /\ UnderWay' = UnderWay
  <2>1. h \notin Queued /\ h \notin dev.served /\ h \notin Reported
    BY <1>0, <1>1, Zenon DEF Apart
  <2>. QED
    BY <1>0, <1>1, <1>3, <1>9, <2>1, Zenon DEF Apart, UnderWay
<1>15. Owned'
  BY <1>0, <1>1, <1>6, <1>14, Zenon DEF Owned
<1>16. Tracked'
  BY <1>0, <1>1, <1>6, <1>14, Zenon DEF Tracked
<1>17. Status'
  <2>. SUFFICES ASSUME NEW q \in InFlight
                PROVE  info'[idx[q][1]].status = IF idx[q][1] \in (Queued \cup dev.inhand)' THEN "none" ELSE "ok"
    BY <1>0, <1>6, Zenon DEF Status
  <2>1. CASE q = p
    <3>1. h \notin Queued' /\ h \notin dev'.inhand
      BY <1>0, <1>1, <1>3, <1>9, Zenon DEF Apart
    <3>. QED
      BY <1>2, <1>4, <2>1, <3>1, Zenon
  <2>2. CASE q # p
    <3>1. idx[q][1] # h /\ info'[idx[q][1]] = info[idx[q][1]]
      BY <1>12, <2>2, Places, Zenon
    <3>2. idx[q][1] \in (Queued \cup dev.inhand)' <=> idx[q][1] \in Queued \cup dev.inhand
      BY <1>3, <1>9, <3>1, Zenon
    <3>. QED
      BY <1>1, <3>1, <3>2, Zenon DEF Status
  <2>. QED
    BY <2>1, <2>2, Zenon
<1>18. ~Done(p) /\ Done(p)'
  BY <1>0, <1>2, <1>4, <1>6 DEF Done
<1>19. \A q \in Procs : q # p => (Done(q)' <=> Done(q))
  BY <1>0, <1>6, <1>12, Places, Zenon DEF Done
<1>. QED
  BY <1>2, <1>6, <1>7, <1>8, <1>9, <1>11, <1>13, <1>14, <1>15, <1>16, <1>17, <1>18, <1>19, Zenon DEF IInv

LEMMA ReportRings ==
    ASSUME IInv, NEW h \in Descs, dev_report(h)
    PROVE  /\ Rings' /\ Queued' = Queued /\ Reported' = Reported \cup {h}
           /\ dev' \in DevType /\ used' \in RingType
           /\ dev'.inhand = dev.inhand /\ dev'.served = dev.served \ {h}
<1>1. /\ TypeOK /\ Rings /\ h \in dev.served /\ Apart
      /\ used' = [ring |-> [used.ring EXCEPT ![used.idx % NUM] = h], idx |-> Uint16(used.idx + 1)]
      /\ dev' = [dev EXCEPT !.served = @ \ {h}, !.raise = TRUE]
      /\ UNCHANGED <<avail, used_idx>>
  BY Zenon DEF dev_report, IInv, driver
<1>2. PICK f \in [Descs -> Descs], a \in 0 .. WRAP - 1, b \in 0 .. WRAP - 1 :
          f = used.ring /\ a = used_idx /\ b = used.idx
  BY <1>1, RingTypes, Zenon
<1>3. /\ Uint16(b - a) <= NUM /\ Distinct(f, Window(a, b))
      /\ UsedWindow = Window(a, b) /\ Reported = Entries(f, Window(a, b))
  BY <1>1, <1>2, Zenon DEF Rings, UsedWindow, Reported
<1>4. h \notin Entries(f, Window(a, b))
  BY <1>1, <1>3, Zenon DEF Apart
<1>5. b % NUM \in Descs
  <2>1. b \in Int
    BY Sizes
  <2>. QED
    BY <2>1, Sizes, Division, Zenon DEF Descs
<1>6. PICK g : g = [f EXCEPT ![b % NUM] = h]
  BY Zenon
<1>14. g \in [Descs -> Descs] /\ g[b % NUM] = h /\ \A s \in Descs : s # b % NUM => g[s] = f[s]
  BY <1>5, <1>6, Zenon
<1>7. used'.ring = g /\ used'.idx = Uint16(b + 1) /\ used' \in RingType
  <2>1. Uint16(b + 1) \in 0 .. WRAP - 1
    BY <1>1, <1>2, RingTypes, Zenon
  <2>2. used' = [ring |-> g, idx |-> Uint16(b + 1)]
    BY <1>1, <1>2, <1>6, Zenon
  <2>. QED
    BY <1>14, <2>1, <2>2 DEF RingType
<1>8. /\ Uint16(Uint16(b + 1) - a) <= NUM
      /\ Distinct(g, Window(a, Uint16(b + 1)))
      /\ Entries(g, Window(a, Uint16(b + 1))) = Entries(f, Window(a, b)) \cup {h}
  BY <1>3, <1>4, <1>14, Push
<1>9. /\ dev' \in DevType /\ dev'.seen = dev.seen
      /\ dev'.inhand = dev.inhand /\ dev'.served = dev.served \ {h}
  <2>1. dev \in DevType
    BY <1>1, Zenon DEF TypeOK, DevType
  <2>. QED
    BY <1>1, <2>1, Zenon DEF DevType
<1>10. UsedWindow' = Window(a, Uint16(b + 1)) /\ AvailWindow' = AvailWindow
  BY <1>1, <1>2, <1>7, <1>9, Zenon DEF UsedWindow, AvailWindow
<1>11. Reported' = Reported \cup {h}
  BY <1>3, <1>7, <1>8, <1>10, Zenon DEF Reported
<1>12. Queued' = Queued
  BY <1>1, <1>10, Zenon DEF Queued
<1>13. Rings'
  BY <1>1, <1>2, <1>7, <1>8, <1>9, <1>10, Zenon DEF Rings
<1>. QED
  BY <1>7, <1>9, <1>11, <1>12, <1>13, Zenon

LEMMA ReportInv == ASSUME IInv, NEW h \in Descs, dev_report(h) PROVE IInv' /\ Still
<1>0. /\ h \in dev.served
      /\ UNCHANGED <<vdisk_lock, free, desc, ops, info, avail, disk, used_idx, data, platter, req, idx, pc, handler, irq>>
  BY Zenon DEF dev_report, driver
<1>1. /\ TypeOK /\ Locking /\ Requests /\ Descriptors /\ Formatted /\ Published
      /\ Apart /\ Owned /\ Tracked /\ Status
  BY Zenon DEF IInv
<1>2. /\ Rings' /\ Queued' = Queued /\ Reported' = Reported \cup {h}
      /\ dev' \in DevType /\ used' \in RingType
      /\ dev'.inhand = dev.inhand /\ dev'.served = dev.served \ {h}
  BY ReportRings, Zenon
<1>3. UNCHANGED <<Idle, Locked, Holding, Publishing, InFlight>>
  BY <1>0, Quietly, Zenon
<1>4. TypeOK'
  BY <1>0, <1>1, <1>2, Zenon DEF TypeOK, DevType
<1>5. Locking' /\ Requests' /\ Descriptors' /\ Formatted' /\ Published'
  BY <1>0, <1>1, <1>3, LockingFrame, RequestsFrame, DescriptorsFrame, FormattedFrame, PublishedFrame, Zenon
<1>6. Apart'
  BY <1>0, <1>1, <1>2, Zenon DEF Apart
<1>7. UnderWay' = UnderWay
  BY <1>0, <1>2, Zenon DEF UnderWay
<1>8. Owned'
  BY <1>0, <1>1, <1>3, <1>7, Zenon DEF Owned
<1>9. Tracked'
  BY <1>0, <1>1, <1>3, <1>7, Zenon DEF Tracked
<1>10. Status'
  BY <1>0, <1>1, <1>2, <1>3, Zenon DEF Status
<1>11. Still
  BY <1>0, <1>3, Zenon DEF Still, Done
<1>. QED
  BY <1>2, <1>4, <1>5, <1>6, <1>8, <1>9, <1>10, <1>11, Zenon DEF IInv

-----------------------------------------------------------------------------
LEMMA NextInv == IInv /\ [Next]_vars => IInv'
<1>. SUFFICES ASSUME IInv, [Next]_vars PROVE IInv'
  BY Zenon
<1>1. ASSUME NEW p \in Procs, NEW b \in Bufs, NEW write \in BOOLEAN, call(p, b, write) PROVE IInv'
  BY <1>1, CallInv, Zenon
<1>2. ASSUME NEW p \in Procs, Rw(p) PROVE IInv'
  BY <1>2, AllocInv, FormatInv, PublishInv, CheckInv, Zenon DEF Rw
<1>3. ASSUME NEW p \in Procs, kill(p) PROVE IInv'
  BY <1>3, KillInv, Zenon
<1>4. ASSUME Handler PROVE IInv'
  BY <1>4, InterruptInv, EntryInv, Zenon DEF Handler
<1>5. ASSUME Device PROVE IInv'
  BY <1>5, FetchInv, InterruptInv, ServeInv, ReportInv, Zenon DEF Device
<1>6. CASE UNCHANGED vars
  <2>1. UNCHANGED <<vdisk_lock, free, desc, ops, info, avail, used, used_idx, disk, data, platter,
                    req, idx, pc, handler, irq, dev>>
    BY <1>6, Zenon DEF vars
  <2>2. UNCHANGED <<Idle, Locked, Holding, Publishing, InFlight>>
    BY <2>1, Quietly, Zenon
  <2>3. TypeOK' /\ Locking'
    BY <2>1, <2>2, LockingFrame, Zenon DEF IInv, TypeOK
  <2>. QED
    BY <2>1, <2>2, <2>3, QuietStep, Zenon
<1>. QED
  BY <1>1, <1>2, <1>3, <1>4, <1>5, <1>6, Zenon DEF Next

\* The invariant of the driver and the device, whatever the order of their steps.
THEOREM Invariance == Spec => []IInv
BY InitInv, NextInv, PTL DEF Spec

LEMMA OwnIs == \A p : {idx[p][k] : k \in 1 .. 3} = Own(p)
<1>1. 1 .. 3 = {1, 2, 3}
  OBVIOUS
<1>. QED
  BY <1>1, Zenon DEF Own

\* No descriptor is lost or shared: alloc3_desc() gives out only free descriptors, and
\* free_chain() gives back exactly those of its request, whatever the device does.
THEOREM ChainsConserved == Spec => []DescriptorsConserved
<1>1. IInv => DescriptorsConserved
  <2>. SUFFICES ASSUME IInv PROVE DescriptorsConserved
    BY Zenon
  <2>1. \A p, q \in Holding : p # q => {idx[p][k] : k \in 1 .. 3} \cap {idx[q][k] : k \in 1 .. 3} = {}
    BY OwnIs, Zenon DEF IInv, Descriptors
  <2>2. UNION {{idx[p][k] : k \in 1 .. 3} : p \in Holding} = UNION {Own(p) : p \in Holding}
    BY OwnIs, Zenon
  <2>3. \A d \in Descs : d \in free <=> d \notin UNION {Own(p) : p \in Holding}
    BY Zenon DEF IInv, Descriptors
  <2>4. free \subseteq Descs
    BY Zenon DEF IInv, TypeOK
  <2>5. free = Descs \ UNION {Own(p) : p \in Holding}
    BY <2>3, <2>4, Zenon
  <2>. QED
    BY <2>1, <2>2, <2>5, Zenon DEF DescriptorsConserved
<1>. QED
  BY <1>1, Invariance, PTL

\* The panics of the driver: the handler finds a used entry whose status byte the device
\* has not made 0, and free_desc() is given a descriptor out of range or already free.
\* free_chain() follows the NEXT flags: three descriptors, as check() has it.
BadStatus  == handler = "loop" /\ used_idx # used.idx /\ info[used.ring[used_idx % NUM]].status # "ok"
BadFree ==
    \E p \in Procs :
        LET i == idx[p][1]
            j == desc[i].next
            k == desc[j].next
        IN
        /\ pc[p] = "check" /\ Finished(req[p].b)
        /\ ~ /\ {i, j, k} \subseteq Descs \ free /\ i # j /\ i # k /\ j # k
             /\ "NEXT" \in desc[i].flags /\ "NEXT" \in desc[j].flags /\ "NEXT" \notin desc[k].flags

\* The handler reads only entries the device has served, and a request frees only
\* descriptors that are in use: the driver's panics are never reached.
THEOREM NoDriverPanic == Spec => [](~BadStatus /\ ~BadFree)
<1>1. IInv => ~BadStatus
  BY EntryRead, Zenon DEF BadStatus
<1>2. IInv => ~BadFree
  <2>. SUFFICES ASSUME IInv, NEW p \in Procs, pc[p] = "check"
                PROVE  LET i == idx[p][1]
                           j == desc[i].next
                           k == desc[j].next
                       IN  /\ {i, j, k} \subseteq Descs \ free /\ i # j /\ i # k /\ j # k
                           /\ "NEXT" \in desc[i].flags /\ "NEXT" \in desc[j].flags
                           /\ "NEXT" \notin desc[k].flags
    BY Zenon DEF BadFree
  <2>1. p \in InFlight /\ p \in Holding
    BY Zenon DEF InFlight, Holding
  <2>2. Chain(p)
    BY <2>1, Zenon DEF IInv, Formatted
  <2>3. /\ desc[idx[p][1]].next = idx[p][2] /\ desc[desc[idx[p][1]].next].next = idx[p][3]
        /\ "NEXT" \in desc[idx[p][1]].flags /\ "NEXT" \in desc[idx[p][2]].flags
        /\ "NEXT" \notin desc[idx[p][3]].flags
    BY <2>2, Zenon DEF Chain
  <2>6. idx[p][1] # idx[p][2] /\ idx[p][1] # idx[p][3] /\ idx[p][2] # idx[p][3]
    BY <2>1, Zenon DEF IInv, Descriptors
  <2>4. Own(p) \subseteq Descs
    BY IdxType, Zenon DEF Own, IInv
  <2>5. \A d \in Own(p) : d \notin free
    BY <2>1, <2>4, Zenon DEF IInv, Descriptors
  <2>. QED
    BY <2>3, <2>4, <2>5, <2>6, Zenon DEF Own
<1>. QED
  BY <1>1, <1>2, Invariance, PTL

-----------------------------------------------------------------------------
\* What BlockIO sees of a request.
stages == [p \in Procs |-> Stage(p)]
StagesAre == \A p \in Procs : stages[p] = IF p \in Idle THEN "idle" ELSE IF Done(p) THEN "served" ELSE "asked"

LEMMA StageIs == IInv => StagesAre
<1>. SUFFICES ASSUME IInv, NEW p \in Procs
              PROVE  Stage(p) = IF p \in Idle THEN "idle" ELSE IF Done(p) THEN "served" ELSE "asked"
  BY Zenon DEF StagesAre, stages
<1>1. pc[p] \in Labels
  BY Zenon DEF IInv, TypeOK
<1>2. CASE pc[p] = "idle"
  BY <1>2 DEF Stage, Idle
<1>3. CASE pc[p] \in {"alloc", "nodesc", "format"}
  BY <1>3 DEF Stage, Idle, Done, InFlight
<1>4. CASE pc[p] = "publish"
  <2>1. info[idx[p][1]].status = "none"
    BY <1>4, Zenon DEF IInv, Published, Publishing
  <2>. QED
    BY <1>4, <2>1 DEF Stage, Idle, Done, InFlight
<1>5. CASE pc[p] \in {"asleep", "check"}
  BY <1>5 DEF Stage, Idle, Done, InFlight
<1>. QED
  BY <1>1, <1>2, <1>3, <1>4, <1>5, Zenon DEF Labels

\* A step after which one request, or none, has got further.
LEMMA StageMoves ==
    ASSUME StagesAre, StagesAre', NEW p \in Procs,
           \A q \in Procs : q # p => (q \in Idle' <=> q \in Idle) /\ (Done(q)' <=> Done(q))
    PROVE  stages' = [stages EXCEPT ![p] = stages'[p]]
<1>1. \A q \in Procs : q # p => stages'[q] = stages[q]
  BY Zenon DEF StagesAre
<1>2. stages = [q \in Procs |-> stages[q]] /\ stages' = [q \in Procs |-> stages'[q]]
  BY Zenon DEF stages
<1>. QED
  BY <1>1, <1>2

LEMMA StillMoves ==
    ASSUME StagesAre, StagesAre', Still
    PROVE  stages' = stages
<1>1. \A q \in Procs : stages'[q] = stages[q]
  BY Zenon DEF StagesAre, Still
<1>2. stages = [q \in Procs |-> stages[q]] /\ stages' = [q \in Procs |-> stages'[q]]
  BY Zenon DEF stages
<1>. QED
  BY <1>1, <1>2, Zenon

LEMMA InitRefines == Init => IO!Init
<1>. SUFFICES ASSUME Init PROVE IO!Init
  BY Zenon
<1>1. \A p \in Procs : Stage(p) = "idle"
  BY DEF Init, Stage
<1>2. [p \in Procs |-> Stage(p)] = [p \in Procs |-> "idle"]
  BY <1>1, Zenon
<1>. QED
  BY <1>2, Zenon DEF Init, IO!Init, NoReq, IO!NoReq

LEMMA QuietRefines ==
    ASSUME IInv, IInv', Still, UNCHANGED <<data, platter, req>>
    PROVE  UNCHANGED IO!vars
<1>1. stages' = stages
  BY StageIs, StillMoves, PTL
<1>. QED
  BY <1>1, Zenon DEF IO!vars, stages

LEMMA CallRefines ==
    ASSUME IInv, NEW p \in Procs, NEW b \in Bufs, NEW write \in BOOLEAN, call(p, b, write)
    PROVE  IO!Ask(p, b, write)
<1>1. IInv' /\ p \in Idle /\ Idle' = Idle \ {p} /\ \A q \in Procs : Done(q)' <=> Done(q)
  BY CallInv, Zenon
<1>2. StagesAre /\ StagesAre'
  BY <1>1, StageIs, PTL
<1>3. ~Done(p)
  BY <1>1, Places, Zenon DEF Done
<1>4. stages[p] = "idle" /\ stages'[p] = "asked"
  BY <1>1, <1>2, <1>3, Zenon DEF StagesAre
<1>5. stages' = [stages EXCEPT ![p] = "asked"]
  BY <1>1, <1>2, <1>4, StageMoves, Zenon
<1>. QED
  BY <1>4, <1>5, Zenon DEF IO!Ask, call, device, stages

LEMMA CheckRefines ==
    ASSUME IInv, NEW p \in Procs, check(p)
    PROVE  IO!Return(p) \/ UNCHANGED IO!vars
<1>0. IInv'
  BY CheckInv, Zenon
<1>1. CASE ~Finished(req[p].b)
  <2>1. Still
    BY <1>1, CheckInv, Zenon
  <2>. QED
    BY <1>0, <1>1, <2>1, QuietRefines, Zenon DEF check, device
<1>2. CASE Finished(req[p].b)
  <2>1. /\ Done(p) /\ p \notin Idle /\ Idle' = Idle \cup {p}
        /\ \A q \in Procs : q # p => (Done(q)' <=> Done(q))
    BY <1>2, CheckInv, Zenon
  <2>2. StagesAre /\ StagesAre'
    BY <1>0, StageIs, PTL
  <2>3. stages[p] = "served" /\ stages'[p] = "idle"
    BY <2>1, <2>2, Zenon DEF StagesAre
  <2>4. stages' = [stages EXCEPT ![p] = "idle"]
    BY <2>1, <2>2, <2>3, StageMoves, Zenon
  <2>. QED
    BY <1>2, <2>3, <2>4, Zenon DEF IO!Return, IO!NoReq, NoReq, check, device, stages
<1>. QED
  BY <1>1, <1>2, Zenon

LEMMA ServeRefines ==
    ASSUME IInv, NEW h \in Descs, dev_serve(h)
    PROVE  \E p \in Procs : IO!Serve(p)
<1>0. IInv' /\ Idle' = Idle
  BY ServeInv, Zenon
<1>1. PICK p \in InFlight :
          /\ ~Done(p) /\ Done(p)' /\ \A q \in Procs : q # p => (Done(q)' <=> Done(q))
          /\ platter' = IF req[p].write THEN [platter EXCEPT ![req[p].b] = data[req[p].b]] ELSE platter
          /\ data' = IF req[p].write THEN data ELSE [data EXCEPT ![req[p].b] = platter[req[p].b]]
  BY ServeInv, Zenon
<1>2. p \in Procs /\ p \notin Idle
  BY Places, Zenon
<1>3. StagesAre /\ StagesAre'
  BY <1>0, StageIs, PTL
<1>4. stages[p] = "asked" /\ stages'[p] = "served"
  BY <1>0, <1>1, <1>2, <1>3, Zenon DEF StagesAre
<1>5. stages' = [stages EXCEPT ![p] = "served"]
  BY <1>0, <1>1, <1>2, <1>3, <1>4, StageMoves, Zenon
<1>6. req' = req
  BY Zenon DEF dev_serve
<1>7. IO!Serve(p)
  BY <1>1, <1>4, <1>5, <1>6, Zenon DEF IO!Serve, stages
<1>. QED
  BY <1>2, <1>7, Zenon

LEMMA StepRefines == IInv /\ [Next]_vars => [IO!Next]_(IO!vars)
<1>. SUFFICES ASSUME IInv, [Next]_vars PROVE IO!Next \/ UNCHANGED IO!vars
  BY Zenon
<1>1. ASSUME NEW p \in Procs, NEW b \in Bufs, NEW write \in BOOLEAN, call(p, b, write) PROVE IO!Next
  BY <1>1, CallRefines, Zenon DEF IO!Next
<1>2. ASSUME NEW p \in Procs, alloc3_desc(p) \/ format(p) \/ publish(p) \/ kill(p) PROVE UNCHANGED IO!vars
  <2>1. IInv' /\ Still
    BY <1>2, AllocInv, FormatInv, PublishInv, KillInv, Zenon
  <2>2. UNCHANGED <<data, platter, req>>
    BY <1>2, Zenon DEF alloc3_desc, format, publish, kill, device
  <2>. QED
    BY <2>1, <2>2, QuietRefines, Zenon
<1>3. ASSUME NEW p \in Procs, check(p) PROVE IO!Next \/ UNCHANGED IO!vars
  BY <1>3, CheckRefines, Zenon DEF IO!Next
<1>4. ASSUME Handler \/ dev_fetch \/ dev_raise PROVE UNCHANGED IO!vars
  <2>1. IInv' /\ Still
    BY <1>4, InterruptInv, EntryInv, FetchInv, Zenon DEF Handler
  <2>2. UNCHANGED <<data, platter, req>>
    BY <1>4, Zenon DEF Handler, intr, intr_entry, intr_end, intr_leave, dev_fetch, dev_raise, device
  <2>. QED
    BY <2>1, <2>2, QuietRefines, Zenon
<1>5. ASSUME NEW h \in Descs, dev_serve(h) PROVE IO!Next
  BY <1>5, ServeRefines, Zenon DEF IO!Next
<1>6. ASSUME NEW h \in Descs, dev_report(h) PROVE UNCHANGED IO!vars
  <2>1. IInv' /\ Still /\ UNCHANGED <<data, platter, req>>
    BY <1>6, ReportInv, Zenon DEF dev_report
  <2>. QED
    BY <2>1, QuietRefines, Zenon
<1>7. ASSUME UNCHANGED vars PROVE UNCHANGED IO!vars
  BY <1>7, Zenon DEF vars, IO!vars, Stage
<1>. QED
  BY <1>1, <1>2, <1>3, <1>4, <1>5, <1>6, <1>7, Zenon DEF Next, Rw, Device

\* The driver and the device implement BlockIO: the disk serves every request once, for the
\* buffer and in the direction its caller asked for, and virtio_disk_rw() returns after that,
\* for any number of processes, descriptors and ring entries.
THEOREM DriverServesOnce == Spec => ServedOnce
<1>1. Init => IO!Init
  BY InitRefines
<1>2. IInv /\ [Next]_vars => [IO!Next]_(IO!vars)
  BY StepRefines
<1>. QED
  BY <1>1, <1>2, Invariance, PTL DEF Spec, ServedOnce, IO!Spec

=============================================================================
