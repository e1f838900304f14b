---------------------------- MODULE FsRefProofs -----------------------------
(***************************************************************************)
(* Proofs about the references to inodes, for any number of processes,     *)
(* inodes, files and descriptors, and for any calls: what an inode's ref   *)
(* counts, and that path lookup, link(), unlink(), iput() and create()     *)
(* count right.                                                            *)
(***************************************************************************)
EXTENDS Fs, FiniteSetTheorems, TLAPS

-----------------------------------------------------------------------------
(***************************************************************************)
(* Counting.                                                               *)
(***************************************************************************)
\* 1 when x is i, 0 when it is not.
Eq(x, i) == IF x = i THEN 1 ELSE 0

\* A non-empty set of natural numbers has a least element.
LEMMA LeastNat ==
    ASSUME NEW A, A \subseteq Nat, A # {}
    PROVE  \E x \in A : \A y \in A : x <= y
<1>. USE Zenon
<1>1. IsWellFoundedOn(OpToRel(<, Nat), Nat)
  BY NatLessThanWellFounded
<1>2. PICK x \in A : \A y \in A : ~(<<y, x>> \in OpToRel(<, Nat))
  BY <1>1, WFMin
<1>3. \A y \in A : ~(y < x)
  BY <1>2 DEF OpToRel
<1>. QED
  BY <1>3, SMT

\* So Min() of it is its least element.
LEMMA MinOfNats ==
    ASSUME NEW A, A \subseteq Nat, A # {}
    PROVE  Min(A) \in A /\ \A y \in A : Min(A) <= y
<1>. USE Zenon
<1>1. \E x \in A : \A y \in A : x <= y
  BY LeastNat
<1>. QED
  BY <1>1 DEF Min

\* One more element, or not, counts for one or nothing.
LEMMA CardAdd ==
    ASSUME NEW A, IsFiniteSet(A), NEW x, x \notin A, NEW B
    PROVE  /\ B = A \cup {x} => IsFiniteSet(B) /\ Cardinality(B) = Cardinality(A) + 1
           /\ B = A => IsFiniteSet(B) /\ Cardinality(B) = Cardinality(A)
BY FS_AddElement

\* Two disjoint sets.
LEMMA CardUnion ==
    ASSUME NEW A, IsFiniteSet(A), NEW B, IsFiniteSet(B), A \cap B = {}
    PROVE  /\ IsFiniteSet(A \cup B)
           /\ Cardinality(A \cup B) = Cardinality(A) + Cardinality(B)
<1>1. /\ IsFiniteSet(A \cup B)
      /\ Cardinality(A \cup B) = Cardinality(A) + Cardinality(B) - Cardinality(A \cap B)
  BY FS_Union
<1>2. Cardinality(A \cap B) = 0 /\ Cardinality(A) \in Nat /\ Cardinality(B) \in Nat
  BY FS_EmptySet, FS_CardinalityType, Zenon
<1>. QED
  BY <1>1, <1>2

\* The pairs of one value with those of a set are as many as the set.
LEMMA CardPairs ==
    ASSUME NEW p, NEW A, IsFiniteSet(A)
    PROVE  IsFiniteSet({p} \X A) /\ Cardinality({p} \X A) = Cardinality(A)
<1>1. IsFiniteSet({p}) /\ Cardinality({p}) = 1
  BY FS_Singleton
<1>2. IsFiniteSet({p} \X A) /\ Cardinality({p} \X A) = Cardinality({p}) * Cardinality(A)
  BY <1>1, FS_Product
<1>3. Cardinality(A) \in Nat
  BY FS_CardinalityType
<1>. QED
  BY <1>1, <1>2, <1>3

-----------------------------------------------------------------------------
(***************************************************************************)
(* The pointers to an inode in a list of tasks.                            *)
(***************************************************************************)
IpAt(ts, i) == {k \in DOMAIN ts : ts[k].ip = i}
DpAt(ts, i) == {k \in DOMAIN ts : ts[k].dp = i}
Ptrs(ts, i) == Cardinality(IpAt(ts, i)) + Cardinality(DpAt(ts, i))

\* The pointers of one task.
One(t, i) == Eq(t.ip, i) + Eq(t.dp, i)

LEMMA EqNat == \A x, i : Eq(x, i) \in Nat
BY DEF Eq

\* A task that has one pointer at most.
LEMMA OneIp == ASSUME NEW t, t.dp = 0 PROVE \A i \in Inums : One(t, i) = Eq(t.ip, i)
BY DEF One, Eq, Inums

LEMMA OneDp == ASSUME NEW t, t.ip = 0 PROVE \A i \in Inums : One(t, i) = Eq(t.dp, i)
BY DEF One, Eq, Inums

\* The positions of a value of a list that got one more element.
LEMMA CountMore ==
    ASSUME NEW n \in Nat, NEW A, A \subseteq 1 .. n, NEW B, NEW x, NEW i,
           B = IF x = i THEN A \cup {n + 1} ELSE A
    PROVE  IsFiniteSet(A) /\ IsFiniteSet(B) /\ Cardinality(A) \in Nat /\ Cardinality(B) = Cardinality(A) + Eq(x, i)
<1>1. IsFiniteSet(1 .. n)
  BY FS_Interval
<1>2. IsFiniteSet(A) /\ Cardinality(A) \in Nat
  BY <1>1, FS_Subset, FS_CardinalityType, Zenon
<1>3. n + 1 \notin A
  OBVIOUS
<1>4. CASE x = i
  BY <1>2, <1>3, <1>4, CardAdd DEF Eq
<1>5. CASE x # i
  BY <1>2, <1>5 DEF Eq
<1>. QED
  BY <1>2, <1>4, <1>5

\* Lists of up to four tasks: each task's pointers count.
LEMMA Ptrs0 == ASSUME NEW i PROVE Ptrs(<< >>, i) = 0
<1>1. IpAt(<< >>, i) = {} /\ DpAt(<< >>, i) = {}
  BY DEF IpAt, DpAt
<1>2. Cardinality({}) = 0
  BY FS_EmptySet
<1>. QED
  BY <1>1, <1>2 DEF Ptrs

LEMMA Ptrs1 == ASSUME NEW a, NEW i PROVE Ptrs(<<a>>, i) = One(a, i)
<1>1. IpAt(<<a>>, i) = IF a.ip = i THEN {} \cup {0 + 1} ELSE {}
  BY DEF IpAt
<1>2. DpAt(<<a>>, i) = IF a.dp = i THEN {} \cup {0 + 1} ELSE {}
  BY DEF DpAt
<1>3. Cardinality(IpAt(<<a>>, i)) = 0 + Eq(a.ip, i)
  BY <1>1, CountMore, FS_EmptySet
<1>4. Cardinality(DpAt(<<a>>, i)) = 0 + Eq(a.dp, i)
  BY <1>2, CountMore, FS_EmptySet
<1>. QED
  BY <1>3, <1>4 DEF Ptrs, One, Eq

LEMMA Ptrs2 == ASSUME NEW a, NEW b, NEW i
         PROVE  Ptrs(<<a, b>>, i) = One(a, i) + One(b, i)
<1>1. IpAt(<<a, b>>, i) = IF b.ip = i THEN IpAt(<<a>>, i) \cup {1 + 1} ELSE IpAt(<<a>>, i)
  BY DEF IpAt
<1>2. DpAt(<<a, b>>, i) = IF b.dp = i THEN DpAt(<<a>>, i) \cup {1 + 1} ELSE DpAt(<<a>>, i)
  BY DEF DpAt
<1>3. IpAt(<<a>>, i) \subseteq 1 .. 1 /\ DpAt(<<a>>, i) \subseteq 1 .. 1
  BY DEF IpAt, DpAt
<1>4. Cardinality(IpAt(<<a, b>>, i)) = Cardinality(IpAt(<<a>>, i)) + Eq(b.ip, i) /\ Cardinality(IpAt(<<a>>, i)) \in Nat
  BY <1>1, <1>3, CountMore
<1>5. Cardinality(DpAt(<<a, b>>, i)) = Cardinality(DpAt(<<a>>, i)) + Eq(b.dp, i) /\ Cardinality(DpAt(<<a>>, i)) \in Nat
  BY <1>2, <1>3, CountMore
<1>. QED
  BY <1>4, <1>5, Ptrs1 DEF Ptrs, One, Eq

LEMMA Ptrs3 == ASSUME NEW a, NEW b, NEW c, NEW i
         PROVE  Ptrs(<<a, b, c>>, i) = One(a, i) + One(b, i) + One(c, i)
<1>1. IpAt(<<a, b, c>>, i) = IF c.ip = i THEN IpAt(<<a, b>>, i) \cup {2 + 1} ELSE IpAt(<<a, b>>, i)
  BY DEF IpAt
<1>2. DpAt(<<a, b, c>>, i) = IF c.dp = i THEN DpAt(<<a, b>>, i) \cup {2 + 1} ELSE DpAt(<<a, b>>, i)
  BY DEF DpAt
<1>3. IpAt(<<a, b>>, i) \subseteq 1 .. 2 /\ DpAt(<<a, b>>, i) \subseteq 1 .. 2
  BY DEF IpAt, DpAt
<1>4. Cardinality(IpAt(<<a, b, c>>, i)) = Cardinality(IpAt(<<a, b>>, i)) + Eq(c.ip, i) /\ Cardinality(IpAt(<<a, b>>, i)) \in Nat
  BY <1>1, <1>3, CountMore
<1>5. Cardinality(DpAt(<<a, b, c>>, i)) = Cardinality(DpAt(<<a, b>>, i)) + Eq(c.dp, i) /\ Cardinality(DpAt(<<a, b>>, i)) \in Nat
  BY <1>2, <1>3, CountMore
<1>. QED
  BY <1>4, <1>5, Ptrs2 DEF Ptrs, One, Eq

LEMMA Ptrs4 == ASSUME NEW a, NEW b, NEW c, NEW d, NEW i
         PROVE  Ptrs(<<a, b, c, d>>, i) = One(a, i) + One(b, i) + One(c, i) + One(d, i)
<1>1. IpAt(<<a, b, c, d>>, i) = IF d.ip = i THEN IpAt(<<a, b, c>>, i) \cup {3 + 1} ELSE IpAt(<<a, b, c>>, i)
  BY DEF IpAt
<1>2. DpAt(<<a, b, c, d>>, i) = IF d.dp = i THEN DpAt(<<a, b, c>>, i) \cup {3 + 1} ELSE DpAt(<<a, b, c>>, i)
  BY DEF DpAt
<1>3. IpAt(<<a, b, c>>, i) \subseteq 1 .. 3 /\ DpAt(<<a, b, c>>, i) \subseteq 1 .. 3
  BY DEF IpAt, DpAt
<1>4. Cardinality(IpAt(<<a, b, c, d>>, i)) = Cardinality(IpAt(<<a, b, c>>, i)) + Eq(d.ip, i) /\ Cardinality(IpAt(<<a, b, c>>, i)) \in Nat
  BY <1>1, <1>3, CountMore
<1>5. Cardinality(DpAt(<<a, b, c, d>>, i)) = Cardinality(DpAt(<<a, b, c>>, i)) + Eq(d.dp, i) /\ Cardinality(DpAt(<<a, b, c>>, i)) \in Nat
  BY <1>2, <1>3, CountMore
<1>. QED
  BY <1>4, <1>5, Ptrs3 DEF Ptrs, One, Eq

-----------------------------------------------------------------------------
(***************************************************************************)
(* A list of tasks with one more in front.                                 *)
(***************************************************************************)
Short(r) ==
    \/ r = << >>
    \/ \E a : r = <<a>>
    \/ \E a, b : r = <<a, b>>
    \/ \E a, b, c : r = <<a, b, c>>

\* exit() has closed its files.
Exiting(ts) == (\E k \in DOMAIN ts : ts[k].op = "exit_done") /\ ~\E k \in DOMAIN ts : ts[k].op = "close"

LEMMA Push0 == ASSUME NEW a PROVE <<a>> \o << >> = <<a>>
OBVIOUS

LEMMA Push1 == ASSUME NEW a, NEW b PROVE <<a>> \o <<b>> = <<a, b>>
<1>. DEFINE R == {a, b}
           s == <<a>> \o <<b>>
<1>1. <<a>> \in Seq(R) /\ <<b>> \in Seq(R) /\ Len(<<a>>) = 1 /\ Len(<<b>>) = 1
  OBVIOUS
<1>2. s \in Seq(R) /\ Len(s) = 2 /\ s[1] = a /\ s[2] = b
  BY <1>1
<1>. HIDE DEF R, s
<1>3. s = [k \in 1 .. 2 |-> s[k]]
  BY <1>2
<1>4. s = <<a, b>>
  BY <1>2, <1>3
<1>. QED
  BY <1>4 DEF s

LEMMA Push2 == ASSUME NEW a, NEW b, NEW c PROVE <<a>> \o <<b, c>> = <<a, b, c>>
<1>. DEFINE R == {a, b, c}
           s == <<a>> \o <<b, c>>
<1>1. <<a>> \in Seq(R) /\ <<b, c>> \in Seq(R) /\ Len(<<a>>) = 1 /\ Len(<<b, c>>) = 2
  OBVIOUS
<1>2. s \in Seq(R) /\ Len(s) = 3 /\ s[1] = a /\ s[2] = b /\ s[3] = c
  BY <1>1
<1>. HIDE DEF R, s
<1>3. s = [k \in 1 .. 3 |-> s[k]]
  BY <1>2
<1>4. s = <<a, b, c>>
  BY <1>2, <1>3
<1>. QED
  BY <1>4 DEF s

LEMMA Push3 == ASSUME NEW a, NEW b, NEW c, NEW d PROVE <<a>> \o <<b, c, d>> = <<a, b, c, d>>
<1>. DEFINE R == {a, b, c, d}
           s == <<a>> \o <<b, c, d>>
<1>1. <<a>> \in Seq(R) /\ <<b, c, d>> \in Seq(R) /\ Len(<<a>>) = 1 /\ Len(<<b, c, d>>) = 3
  OBVIOUS
<1>2. s \in Seq(R) /\ Len(s) = 4 /\ s[1] = a /\ s[2] = b /\ s[3] = c /\ s[4] = d
  BY <1>1
<1>. HIDE DEF R, s
<1>3. s = [k \in 1 .. 4 |-> s[k]]
  BY <1>2
<1>4. s = <<a, b, c, d>>
  BY <1>2, <1>3
<1>. QED
  BY <1>4 DEF s

LEMMA PushTwo == ASSUME NEW a, NEW b, NEW c PROVE <<a, b>> \o <<c>> = <<a, b, c>>
<1>. DEFINE R == {a, b, c}
           s == <<a, b>> \o <<c>>
<1>1. <<a, b>> \in Seq(R) /\ <<c>> \in Seq(R) /\ Len(<<a, b>>) = 2 /\ Len(<<c>>) = 1
  OBVIOUS
<1>2. s \in Seq(R) /\ Len(s) = 3 /\ s[1] = a /\ s[2] = b /\ s[3] = c
  BY <1>1
<1>. HIDE DEF R, s
<1>3. s = [k \in 1 .. 3 |-> s[k]]
  BY <1>2
<1>4. s = <<a, b, c>>
  BY <1>2, <1>3
<1>. QED
  BY <1>4 DEF s

\* s is the list r with task a in front.
Pushed(a, r, s) ==
    /\ Head(s) = a /\ Tail(s) = r /\ s # << >>
    /\ Leaving(s) <=> a.op \in {"chdir_done", "exit_done"} \/ Leaving(r)
    /\ a.op \notin {"exit_done", "close"} => (Exiting(s) <=> Exiting(r))
    /\ \A i : Ptrs(s, i) = One(a, i) + Ptrs(r, i)

LEMMA Pushed0 == ASSUME NEW a PROVE Pushed(a, << >>, <<a>>)
<1>1. Head(<<a>>) = a /\ Tail(<<a>>) = << >> /\ <<a>> # << >>
  OBVIOUS
<1>2. /\ Leaving(<<a>>) <=> a.op \in {"chdir_done", "exit_done"} \/ Leaving(<< >>)
      /\ a.op \notin {"exit_done", "close"} => (Exiting(<<a>>) <=> Exiting(<< >>))
  BY DEF Leaving, Exiting
<1>3. \A i : Ptrs(<<a>>, i) = One(a, i) + Ptrs(<< >>, i)
  BY Ptrs0, Ptrs1 DEF One, Eq
<1>. QED
  BY <1>1, <1>2, <1>3 DEF Pushed

LEMMA Pushed1 == ASSUME NEW a, NEW b PROVE Pushed(a, <<b>>, <<a, b>>)
<1>1. Head(<<a, b>>) = a /\ Tail(<<a, b>>) = <<b>> /\ <<a, b>> # << >>
  OBVIOUS
<1>2. /\ Leaving(<<a, b>>) <=> a.op \in {"chdir_done", "exit_done"} \/ Leaving(<<b>>)
      /\ a.op \notin {"exit_done", "close"} => (Exiting(<<a, b>>) <=> Exiting(<<b>>))
  BY DEF Leaving, Exiting
<1>3. \A i : Ptrs(<<a, b>>, i) = One(a, i) + Ptrs(<<b>>, i)
  BY Ptrs1, Ptrs2 DEF One, Eq
<1>. QED
  BY <1>1, <1>2, <1>3 DEF Pushed

LEMMA Pushed2 == ASSUME NEW a, NEW b, NEW c PROVE Pushed(a, <<b, c>>, <<a, b, c>>)
<1>1. Head(<<a, b, c>>) = a /\ Tail(<<a, b, c>>) = <<b, c>> /\ <<a, b, c>> # << >>
  OBVIOUS
<1>2. /\ Leaving(<<a, b, c>>) <=> a.op \in {"chdir_done", "exit_done"} \/ Leaving(<<b, c>>)
      /\ a.op \notin {"exit_done", "close"} => (Exiting(<<a, b, c>>) <=> Exiting(<<b, c>>))
  BY DEF Leaving, Exiting
<1>3. \A i : Ptrs(<<a, b, c>>, i) = One(a, i) + Ptrs(<<b, c>>, i)
  BY Ptrs2, Ptrs3 DEF One, Eq
<1>. QED
  BY <1>1, <1>2, <1>3 DEF Pushed

LEMMA Pushed3 == ASSUME NEW a, NEW b, NEW c, NEW d PROVE Pushed(a, <<b, c, d>>, <<a, b, c, d>>)
<1>1. Head(<<a, b, c, d>>) = a /\ Tail(<<a, b, c, d>>) = <<b, c, d>> /\ <<a, b, c, d>> # << >>
  OBVIOUS
<1>2. /\ Leaving(<<a, b, c, d>>) <=> a.op \in {"chdir_done", "exit_done"} \/ Leaving(<<b, c, d>>)
      /\ a.op \notin {"exit_done", "close"} => (Exiting(<<a, b, c, d>>) <=> Exiting(<<b, c, d>>))
  BY DEF Leaving, Exiting
<1>3. \A i : Ptrs(<<a, b, c, d>>, i) = One(a, i) + Ptrs(<<b, c, d>>, i)
  BY Ptrs3, Ptrs4 DEF One, Eq
<1>. QED
  BY <1>1, <1>2, <1>3 DEF Pushed

LEMMA Push == ASSUME NEW r, Short(r), NEW a PROVE Pushed(a, r, <<a>> \o r)
<1>1. CASE r = << >>
  <2>1. <<a>> \o << >> = <<a>>
    BY Push0
  <2>2. Pushed(a, << >>, <<a>>)
    BY Pushed0
  <2>. QED
    BY <1>1, <2>1, <2>2
<1>2. ASSUME NEW b, r = <<b>> PROVE Pushed(a, r, <<a>> \o r)
  <2>1. <<a>> \o <<b>> = <<a, b>>
    BY Push1
  <2>2. Pushed(a, <<b>>, <<a, b>>)
    BY Pushed1
  <2>. QED
    BY <1>2, <2>1, <2>2, Zenon
<1>3. ASSUME NEW b, NEW c, r = <<b, c>> PROVE Pushed(a, r, <<a>> \o r)
  <2>1. <<a>> \o <<b, c>> = <<a, b, c>>
    BY Push2
  <2>2. Pushed(a, <<b, c>>, <<a, b, c>>)
    BY Pushed2
  <2>. QED
    BY <1>3, <2>1, <2>2, Zenon
<1>4. ASSUME NEW b, NEW c, NEW d, r = <<b, c, d>> PROVE Pushed(a, r, <<a>> \o r)
  <2>1. <<a>> \o <<b, c, d>> = <<a, b, c, d>>
    BY Push3
  <2>2. Pushed(a, <<b, c, d>>, <<a, b, c, d>>)
    BY Pushed3
  <2>. QED
    BY <1>4, <2>1, <2>2, Zenon
<1>. QED
  BY <1>1, <1>2, <1>3, <1>4 DEF Short

-----------------------------------------------------------------------------
(***************************************************************************)
(* The pointers of all processes, when one of them changes its tasks, its  *)
(* current directory or its descriptors.                                   *)
(***************************************************************************)
In(x, A) == IF x \in A THEN 1 ELSE 0

\* A set with an element that may be in it, and one without.
LEMMA CardPart ==
    ASSUME NEW C, IsFiniteSet(C), NEW x, NEW A, A \ {x} = C
    PROVE  IsFiniteSet(A) /\ Cardinality(A) = Cardinality(C) + In(x, A)
<1>1. CASE x \in A
  <2>1. A = C \cup {x} /\ x \notin C
    BY <1>1
  <2>2. IsFiniteSet(A) /\ Cardinality(A) = Cardinality(C) + 1
    BY <2>1, CardAdd
  <2>. QED
    BY <1>1, <2>2 DEF In
<1>2. CASE x \notin A
  <2>1. A = C
    BY <1>2
  <2>2. Cardinality(A) = Cardinality(C) + 0
    BY <2>1, FS_CardinalityType
  <2>. QED
    BY <1>2, <2>1, <2>2 DEF In
<1>. QED
  BY <1>1, <1>2

\* Two sets that differ in one element at most.
Differ(A, B, x) ==
    /\ Cardinality(A) \in Nat /\ Cardinality(B) \in Nat
    /\ Cardinality(B) = Cardinality(A) - In(x, A) + In(x, B)

LEMMA CardDiff == ASSUME NEW A, IsFiniteSet(A), NEW B, NEW x, A \ {x} = B \ {x} PROVE Differ(A, B, x)
<1>1. PICK C : C = A \ {x}
  BY Zenon
<1>2. IsFiniteSet(C) /\ Cardinality(C) \in Nat
  BY <1>1, FS_Subset, FS_CardinalityType
<1>3. Cardinality(A) = Cardinality(C) + In(x, A)
  BY <1>1, <1>2, CardPart
<1>4. IsFiniteSet(B) /\ Cardinality(B) = Cardinality(C) + In(x, B)
  BY <1>1, <1>2, CardPart
<1>. QED
  BY <1>2, <1>3, <1>4 DEF In, Differ

\* Pairs that belong to p give way to others.
Counts(A, C, B, D) ==
    /\ IsFiniteSet(B) /\ Cardinality(A) \in Nat /\ Cardinality(B) \in Nat
    /\ Cardinality(B) = Cardinality(A) - Cardinality(C) + Cardinality(D)

LEMMA CardSwap ==
    ASSUME NEW p, NEW O, IsFiniteSet(O), \A x \in O : x[1] # p,
           NEW C, IsFiniteSet(C), NEW D, IsFiniteSet(D),
           NEW A, A = O \cup ({p} \X C), NEW B, B = O \cup ({p} \X D)
    PROVE  Counts(A, C, B, D)
<1>1. O \cap ({p} \X C) = {} /\ O \cap ({p} \X D) = {}
  OBVIOUS
<1>2. Cardinality(O) \in Nat /\ Cardinality(C) \in Nat /\ Cardinality(D) \in Nat
  BY FS_CardinalityType
<1>3. /\ IsFiniteSet({p} \X C) /\ Cardinality({p} \X C) = Cardinality(C)
      /\ IsFiniteSet({p} \X D) /\ Cardinality({p} \X D) = Cardinality(D)
  BY CardPairs, Zenon
<1>4. Cardinality(A) = Cardinality(O) + Cardinality(C)
  <2>1. Cardinality(O \cup ({p} \X C)) = Cardinality(O) + Cardinality({p} \X C)
    BY <1>1, <1>3, CardUnion, Zenon
  <2>. QED
    BY <1>3, <2>1, Zenon
<1>5. IsFiniteSet(B) /\ Cardinality(B) = Cardinality(O) + Cardinality(D)
  <2>1. /\ IsFiniteSet(O \cup ({p} \X D))
        /\ Cardinality(O \cup ({p} \X D)) = Cardinality(O) + Cardinality({p} \X D)
    BY <1>1, <1>3, CardUnion, Zenon
  <2>. QED
    BY <1>3, <2>1, Zenon
<1>. QED
  BY <1>2, <1>4, <1>5 DEF Counts

\* The pointers of the tasks td[p] of all processes.
Places(td)  == UNION {{q} \X DOMAIN td[q] : q \in Procs}
IpOf(td, i) == {x \in Places(td) : td[x[1]][x[2]].ip = i}
DpOf(td, i) == {x \in Places(td) : td[x[1]][x[2]].dp = i}
PtrsOf(td, i) == Cardinality(IpOf(td, i)) + Cardinality(DpOf(td, i))

IsFun(f) == DOMAIN f = Procs
Small(ts) == DOMAIN ts \subseteq 1 .. 4

LEMMA FiniteFour == IsFiniteSet(1 .. 4)
<1>1. \A n \in Nat : IsFiniteSet(1 .. n)
  BY FS_Interval
<1>. QED
  BY <1>1, Zenon

LEMMA FinitePlaces ==
    ASSUME NEW td, \A q \in Procs : Small(td[q]), NEW A, A \subseteq Places(td)
    PROVE  IsFiniteSet(A)
<1>2. IsFiniteSet(Procs \X (1 .. 4))
  BY FiniteFour, FsConstants, FS_Product
<1>3. Places(td) \subseteq Procs \X (1 .. 4)
  BY DEF Places, Small
<1>. QED
  BY <1>2, <1>3, FS_Subset

PtrsBy(td, t2, old, new, i) ==
    /\ Cardinality(IpOf(td, i)) \in Nat /\ Cardinality(DpOf(td, i)) \in Nat
    /\ PtrsOf(t2, i) = PtrsOf(td, i) - Ptrs(old, i) + Ptrs(new, i)

\* Process p has the tasks ts instead.
Replaced(td, t2, p, ts) == t2[p] = ts /\ \A q \in Procs \ {p} : t2[q] = td[q]

LEMMA TasksChange ==
    ASSUME NEW td, \A q \in Procs : Small(td[q]), NEW p \in Procs, NEW ts, Small(ts), NEW t2, Replaced(td, t2, p, ts), NEW i
    PROVE  PtrsBy(td, t2, td[p], ts, i)
<1>1. t2[p] = ts /\ \A q \in Procs \ {p} : t2[q] = td[q]
  BY DEF Replaced
<1>3. PICK O : O = {x \in IpOf(td, i) : x[1] # p}
  BY Zenon
<1>4. PICK P : P = {x \in DpOf(td, i) : x[1] # p}
  BY Zenon
<1>5. IsFiniteSet(O) /\ IsFiniteSet(P)
  <2>1. O \subseteq Places(td) /\ P \subseteq Places(td)
    BY <1>3, <1>4 DEF IpOf, DpOf
  <2>. QED
    BY <2>1, FinitePlaces
<1>6. /\ IsFiniteSet(IpAt(td[p], i)) /\ IsFiniteSet(DpAt(td[p], i))
      /\ IsFiniteSet(IpAt(ts, i)) /\ IsFiniteSet(DpAt(ts, i))
  <2>1. /\ IpAt(td[p], i) \subseteq 1 .. 4 /\ DpAt(td[p], i) \subseteq 1 .. 4
        /\ IpAt(ts, i) \subseteq 1 .. 4 /\ DpAt(ts, i) \subseteq 1 .. 4
    BY DEF IpAt, DpAt, Small
  <2>. QED
    BY FiniteFour, <2>1, FS_Subset
<1>7. IpOf(td, i) = O \cup ({p} \X IpAt(td[p], i)) /\ DpOf(td, i) = P \cup ({p} \X DpAt(td[p], i))
  BY <1>3, <1>4 DEF IpOf, DpOf, IpAt, DpAt, Places
<1>8. IpOf(t2, i) = O \cup ({p} \X IpAt(ts, i)) /\ DpOf(t2, i) = P \cup ({p} \X DpAt(ts, i))
  BY <1>1, <1>3, <1>4 DEF IpOf, DpOf, IpAt, DpAt, Places
<1>9. (\A x \in O : x[1] # p) /\ (\A x \in P : x[1] # p)
  BY <1>3, <1>4
<1>10. Counts(IpOf(td, i), IpAt(td[p], i), IpOf(t2, i), IpAt(ts, i))
  BY <1>5, <1>6, <1>7, <1>8, <1>9, CardSwap, Zenon
<1>11. Counts(DpOf(td, i), DpAt(td[p], i), DpOf(t2, i), DpAt(ts, i))
  BY <1>5, <1>6, <1>7, <1>8, <1>9, CardSwap, Zenon
<1>12. /\ Cardinality(IpAt(td[p], i)) \in Nat /\ Cardinality(DpAt(td[p], i)) \in Nat
       /\ Cardinality(IpAt(ts, i)) \in Nat /\ Cardinality(DpAt(ts, i)) \in Nat
  BY <1>6, FS_CardinalityType
<1>13. PtrsOf(t2, i) = PtrsOf(td, i) - Ptrs(td[p], i) + Ptrs(ts, i)
  BY <1>10, <1>11, <1>12 DEF PtrsOf, Ptrs, Counts
<1>. QED
  BY <1>10, <1>11, <1>13 DEF Counts, PtrsBy

-----------------------------------------------------------------------------
(***************************************************************************)
(* The inode table.                                                        *)
(***************************************************************************)
IsInode(r)  == DOMAIN r = {"ref", "valid", "lock", "copy"} /\ r.ref \in Nat
IsTable(it) == DOMAIN it = Inums /\ \A i \in Inums : IsInode(it[i])

\* A reference to x was added, or none.
Added(it, it2, x) == IsTable(it2) /\ \A i \in Inums : it2[i].ref = it[i].ref + Eq(x, i)
Kept(it, it2)     == IsTable(it2) /\ \A i \in Inums : it2[i].ref = it[i].ref

LEMMA IdupAdds == ASSUME NEW it, IsTable(it), NEW x PROVE Added(it, idup(it, x), x)
BY DEF IsTable, IsInode, Added, idup, Eq

LEMMA IgetAdds == ASSUME NEW it, IsTable(it), NEW x PROVE Added(it, iget(it, x), x)
<1>1. CASE it[x].ref > 0
  BY <1>1, IdupAdds DEF iget, idup
<1>2. CASE ~(it[x].ref > 0)
  <2>1. IsInode([NoInode EXCEPT !.ref = 1]) /\ [NoInode EXCEPT !.ref = 1].ref = 1
    BY DEF IsInode, NoInode
  <2>. QED
    BY <1>2, <2>1 DEF IsTable, IsInode, Added, iget, Eq
<1>. QED
  BY <1>1, <1>2

LEMMA IlockKeeps == ASSUME NEW it, IsTable(it), NEW x, NEW s, NEW l PROVE Kept(it, ilock(it, x, s, l))
BY DEF IsTable, IsInode, Kept, ilock

LEMMA IunlockKeeps == ASSUME NEW it, IsTable(it), NEW x, NEW s PROVE Kept(it, iunlock(it, x, s))
BY IlockKeeps DEF iunlock

-----------------------------------------------------------------------------
(***************************************************************************)
(* What the tasks of a call are, with the pointers that each of them has.  *)
(***************************************************************************)
IsTask(t) == DOMAIN t = {"op", "ip", "dp", "path", "f", "k"}
Idle(t)   == t.ip = 0 /\ t.dp = 0
IsPut(t)  == IsTask(t) /\ t.op \in {"iput", "iput_last"} /\ t.dp = 0

\* The last task of a call.
Final(t) ==
    /\ IsTask(t)
    /\ \/ /\ t.op \in {"iput", "iput_last", "iunlockput", "link_ip", "link_bad", "unlink_last", "open", "open_locked"}
          /\ t.dp = 0
       \/ t.op \in {"chdir", "chdir_done"} /\ t.dp = 0 /\ t.ip # 0
       \/ t.op \in {"link_dp", "unlink_ip"}
       \/ t.op = "unlink_dp" /\ t.ip = 0
       \/ t.op \in {"read", "write", "stat", "exit_done"} /\ Idle(t)

\* What sys_mkdir(), sys_mknod() and sys_open() do with what create() returns.
Created(t) == IsTask(t) /\ t.op \in {"iunlockput", "open_locked"} /\ Idle(t)

Looks(t)    == IsTask(t) /\ t.op \in {"namei", "nameiparent"} /\ t.dp = 0 /\ t.ip # 0
Looked(t)   == IsTask(t) /\ t.op \in {"link_ip", "chdir", "open"} /\ Idle(t)
Parent(t)   == IsTask(t) /\ ((t.op = "unlink_dp" /\ Idle(t)) \/ (t.op = "link_dp" /\ t.dp = 0))
Creating(t) ==
    /\ IsTask(t)
    /\ \/ t.op = "create_dp" /\ t.ip = 0
       \/ t.op = "create_old" /\ t.dp = 0
       \/ t.op \in {"create_new", "create_dot", "create_dotdot", "create_enter"}

Pair(a, b) ==
    \/ Looks(a) /\ a.op = "namei" /\ Looked(b)
    \/ Looks(a) /\ a.op = "nameiparent" /\ Parent(b)
    \/ Creating(a) /\ Created(b)

Triple(a, b, c) ==
    \/ Looks(a) /\ a.op = "nameiparent" /\ IsTask(b) /\ b.op = "create_dp" /\ Idle(b) /\ Created(c)
    \/ IsTask(a) /\ a.op = "close" /\ Idle(a) /\ IsPut(b) /\ IsTask(c) /\ c.op = "exit_done" /\ Idle(c)

Call(ts) ==
    \/ ts = << >>
    \/ \E a : ts = <<a>> /\ Final(a)
    \/ \E a, b : ts = <<a, b>> /\ Pair(a, b)
    \/ \E a, b, c : ts = <<a, b, c>> /\ Triple(a, b, c)

\* An iput() may come first.
Shape(ts) == Call(ts) \/ \E a, r : IsPut(a) /\ Call(r) /\ ts = <<a>> \o r

LEMMA CallShort == ASSUME NEW r, Call(r) PROVE Short(r) /\ Small(r)
BY DEF Call, Short, Small

LEMMA ShapeSmall == ASSUME NEW ts, Shape(ts) PROVE Small(ts)
<1>1. CASE Call(ts)
  BY <1>1, CallShort
<1>2. ASSUME NEW a, NEW r, Call(r), ts = <<a>> \o r PROVE Small(ts)
  <2>1. CASE r = << >>
    BY <1>2, <2>1, Push0 DEF Small
  <2>2. ASSUME NEW b, r = <<b>> PROVE Small(ts)
    BY <1>2, <2>2, Push1 DEF Small
  <2>3. ASSUME NEW b, NEW c, r = <<b, c>> PROVE Small(ts)
    BY <1>2, <2>3, Push2 DEF Small
  <2>4. ASSUME NEW b, NEW c, NEW d, r = <<b, c, d>> PROVE Small(ts)
    BY <1>2, <2>4, Push3 DEF Small
  <2>5. Short(r)
    BY <1>2, CallShort
  <2>. QED
    BY <2>1, <2>2, <2>3, <2>4, <2>5 DEF Short
<1>. QED
  BY <1>1, <1>2, Zenon DEF Shape

-----------------------------------------------------------------------------
(***************************************************************************)
(* The inductive invariant of the reference counts.                        *)
(***************************************************************************)
IsFile(r)  == /\ DOMAIN r = {"ref", "type", "obj", "off", "readable", "writable"}
              /\ r.ref \in Nat /\ (r.ref = 0 => r.type = "none")
IsFiles(ft) == DOMAIN ft = 1 .. NFILE /\ \A f \in 1 .. NFILE : IsFile(ft[f])

\* The counts, as functions of the variables.
CwdOf(cw, td, i) == {q \in Procs : cw[q] = i /\ ~Leaving(td[q])}
FileOf(ft, i)    == {f \in DOMAIN ft : ft[f].type \in {"inode", "device"} /\ ft[f].obj = i}
FdOf(of, f)      == {x \in Procs \X Descriptors : of[x[1]][x[2]] = f}
Counted(it, ft, of, cw, td) ==
    /\ \A i \in Inums : it[i].ref = Cardinality(CwdOf(cw, td, i)) + Cardinality(FileOf(ft, i))
                                   + Cardinality(IpOf(td, i)) + Cardinality(DpOf(td, i))
    /\ \A f \in DOMAIN ft : ft[f].ref = Cardinality(FdOf(of, f))

NoFiles(of, p) == \A fd \in Descriptors : of[p][fd] = 0

Refs(it, ft, of, cw, td) ==
    /\ IsTable(it) /\ IsFiles(ft) /\ of \in [Procs -> [Descriptors -> 0 .. NFILE]]
    /\ IsFun(cw) /\ IsFun(td)
    /\ \A p \in Procs : /\ Shape(td[p])
                        /\ cw[p] = 0 => td[p] = << >> /\ NoFiles(of, p)
                        /\ Exiting(td[p]) => NoFiles(of, p)
    /\ Counted(it, ft, of, cw, td)

RefsInv == Refs(itable, ftable, ofile, cwd, todo)

LEMMA FiniteSets ==
    ASSUME NEW cw, NEW td, NEW ft, DOMAIN ft = 1 .. NFILE, NEW i
    PROVE  Cardinality(CwdOf(cw, td, i)) \in Nat /\ IsFiniteSet(FileOf(ft, i)) /\ Cardinality(FileOf(ft, i)) \in Nat
<1>1. IsFiniteSet(Procs) /\ IsFiniteSet(1 .. NFILE)
  BY FsConstants, FS_Interval, FileTableConstants
<1>2. CwdOf(cw, td, i) \subseteq Procs /\ FileOf(ft, i) \subseteq 1 .. NFILE
  BY DEF CwdOf, FileOf
<1>. QED
  BY <1>1, <1>2, FS_Subset, FS_CardinalityType, Zenon

LEMMA PtrsNat == ASSUME NEW ts, Small(ts), NEW i PROVE Ptrs(ts, i) \in Nat
<1>1. IpAt(ts, i) \subseteq 1 .. 4 /\ DpAt(ts, i) \subseteq 1 .. 4
  BY DEF IpAt, DpAt, Small
<1>2. Cardinality(IpAt(ts, i)) \in Nat /\ Cardinality(DpAt(ts, i)) \in Nat
  BY <1>1, FiniteFour, FS_Subset, FS_CardinalityType
<1>. QED
  BY <1>2 DEF Ptrs

IsSum(r, c, f, x, y) == r = c + f + x + y

\* The current directory of p, as a pointer.
Dir(c, ts, i)     == IF c = i /\ ~Leaving(ts) THEN 1 ELSE 0
Cur(cw, td, p, i) == Dir(cw[p], td[p], i)

CwdsBy(cw, c2, td, t2, p, i) ==
    /\ Cardinality(CwdOf(cw, td, i)) \in Nat /\ Cardinality(CwdOf(c2, t2, i)) \in Nat
    /\ Cardinality(CwdOf(c2, t2, i)) = Cardinality(CwdOf(cw, td, i)) - Cur(cw, td, p, i) + Cur(c2, t2, p, i)

LEMMA CwdChange ==
    ASSUME NEW cw, NEW c2, NEW td, NEW t2, NEW p \in Procs, NEW i,
           \A q \in Procs \ {p} : c2[q] = cw[q] /\ t2[q] = td[q]
    PROVE  CwdsBy(cw, c2, td, t2, p, i)
<1>1. CwdOf(cw, td, i) \ {p} = CwdOf(c2, t2, i) \ {p}
  BY DEF CwdOf
<1>2. IsFiniteSet(CwdOf(cw, td, i))
  <2>1. CwdOf(cw, td, i) \subseteq Procs
    BY DEF CwdOf
  <2>. QED
    BY <2>1, FsConstants, FS_Subset, Zenon
<1>3. In(p, CwdOf(cw, td, i)) = Cur(cw, td, p, i) /\ In(p, CwdOf(c2, t2, i)) = Cur(c2, t2, p, i)
  BY DEF In, CwdOf, Cur, Dir
<1>. QED
  BY <1>1, <1>2, <1>3, CardDiff DEF CwdsBy, Differ

\* A step that concerns process p.  What is required of it: the files are counted by the
\* descriptors, ...
FilesFit(ft, of) ==
    /\ IsFiles(ft) /\ of \in [Procs -> [Descriptors -> 0 .. NFILE]]
    /\ \A f \in DOMAIN ft : ft[f].ref = Cardinality(FdOf(of, f))

\* ... the process is in a state it can be in, ...
ProcFits(of, cw, td, p) ==
    /\ Shape(td[p])
    /\ cw[p] = 0 => td[p] = << >> /\ NoFiles(of, p)
    /\ Exiting(td[p]) => NoFiles(of, p)

\* ... the other processes are as they were, ...
Others(of, of2, cw, c2, td, t2, p) ==
    /\ IsFun(c2) /\ IsFun(t2)
    /\ \A q \in Procs \ {p} : of2[q] = of[q] /\ c2[q] = cw[q] /\ t2[q] = td[q]

\* ... and inodes gain the references to them that p and the files gain.
Shifted(it, it2, ft, f2, cw, c2, td, t2, p) ==
    \A i \in Inums : it2[i].ref + Cur(cw, td, p, i) + Cardinality(FileOf(ft, i)) + Ptrs(td[p], i)
                     = it[i].ref + Cur(c2, t2, p, i) + Cardinality(FileOf(f2, i)) + Ptrs(t2[p], i)

LEMMA FullStep ==
    ASSUME NEW it, NEW it2, NEW ft, NEW f2, NEW of, NEW of2, NEW cw, NEW c2, NEW td, NEW t2, NEW p \in Procs,
           Refs(it, ft, of, cw, td), IsTable(it2), FilesFit(f2, of2), ProcFits(of2, c2, t2, p),
           Others(of, of2, cw, c2, td, t2, p), Shifted(it, it2, ft, f2, cw, c2, td, t2, p)
    PROVE  Refs(it2, f2, of2, c2, t2)
<1>. USE Zenon
<1>1. (\A q \in Procs : Small(td[q])) /\ Small(t2[p]) /\ Replaced(td, t2, p, t2[p])
  BY ShapeSmall DEF Refs, ProcFits, Others, Replaced
<1>2. \A q \in Procs : Small(t2[q])
  BY <1>1 DEF Replaced
<1>3. Replaced(t2, t2, p, t2[p]) /\ DOMAIN ft = 1 .. NFILE /\ DOMAIN f2 = 1 .. NFILE /\ IsTable(it)
  BY DEF Replaced, Refs, IsFiles, FilesFit
<1>4. ASSUME NEW i \in Inums
      PROVE  it2[i].ref = Cardinality(CwdOf(c2, t2, i)) + Cardinality(FileOf(f2, i))
                          + Cardinality(IpOf(t2, i)) + Cardinality(DpOf(t2, i))
  <2>1. PICK c, d, u, v, f, g, m, n, x, y, x2, y2, r, r2 :
           /\ c = Cardinality(CwdOf(cw, td, i)) /\ d = Cardinality(CwdOf(c2, t2, i))
           /\ u = Cur(cw, td, p, i) /\ v = Cur(c2, t2, p, i)
           /\ f = Cardinality(FileOf(ft, i)) /\ g = Cardinality(FileOf(f2, i))
           /\ m = Ptrs(td[p], i) /\ n = Ptrs(t2[p], i)
           /\ x = Cardinality(IpOf(td, i)) /\ y = Cardinality(DpOf(td, i))
           /\ x2 = Cardinality(IpOf(t2, i)) /\ y2 = Cardinality(DpOf(t2, i))
           /\ r = it[i].ref /\ r2 = it2[i].ref
    OBVIOUS
  <2>2. c \in Nat /\ d \in Nat /\ u \in Nat /\ v \in Nat /\ d = c - u + v
    <3>1. u \in Nat /\ v \in Nat
      <4>1. Cur(cw, td, p, i) \in Nat /\ Cur(c2, t2, p, i) \in Nat
        BY SMT DEF Cur, Dir
      <4>. QED
        BY <2>1, <4>1
    <3>2. CwdsBy(cw, c2, td, t2, p, i)
      BY CwdChange DEF Others
    <3>. QED
      BY <2>1, <3>1, <3>2 DEF CwdsBy
  <2>3. f \in Nat /\ g \in Nat /\ m \in Nat /\ n \in Nat
    BY <1>1, <1>3, <2>1, FiniteSets, PtrsNat
  <2>4. PtrsBy(td, t2, td[p], t2[p], i) /\ PtrsBy(t2, t2, t2[p], t2[p], i)
    BY <1>1, <1>2, <1>3, TasksChange
  <2>5. x \in Nat /\ y \in Nat /\ x2 \in Nat /\ y2 \in Nat /\ x2 + y2 = (x + y) - m + n
    BY <2>1, <2>4 DEF PtrsBy, PtrsOf
  <2>6. r \in Nat /\ r2 \in Nat
    BY <1>3, <2>1 DEF IsTable, IsInode
  <2>7. r = c + f + x + y /\ r2 + u + f + m = r + v + g + n
    BY <2>1 DEF Refs, Counted, Shifted
  <2>8. IsSum(r2, d, g, x2, y2)
    BY <2>2, <2>3, <2>5, <2>6, <2>7, SMT DEF IsSum
  <2>. QED
    BY <2>1, <2>8 DEF IsSum
<1>5. ASSUME NEW q \in Procs PROVE ProcFits(of2, c2, t2, q)
  <2>1. CASE q # p
    <3>1. of2[q] = of[q] /\ c2[q] = cw[q] /\ t2[q] = td[q]
      BY <2>1 DEF Others
    <3>2. ProcFits(of, cw, td, q)
      BY DEF Refs, ProcFits
    <3>. QED
      BY <3>1, <3>2 DEF ProcFits, NoFiles
  <2>. QED
    BY <2>1
<1>. QED
  BY <1>4, <1>5 DEF Refs, Counted, FilesFit, ProcFits, Others

\* Files that changed in nothing but their offsets.
SameFiles(ft, f2) ==
    /\ IsFiles(f2) /\ DOMAIN f2 = DOMAIN ft
    /\ \A f \in DOMAIN ft : /\ f2[f].ref = ft[f].ref /\ f2[f].type = ft[f].type
                            /\ ft[f].type # "none" => f2[f].obj = ft[f].obj

\* A step of p that leaves the references of files and the descriptors alone: p gets the tasks ts and the
\* current directory c.
Moved(p, ts, c) ==
    /\ todo' = [todo EXCEPT ![p] = ts] /\ ofile' = ofile /\ (ftable' = ftable \/ SameFiles(ftable, ftable'))
    /\ IsFun(cwd') /\ cwd'[p] = c /\ \A q \in Procs \ {p} : cwd'[q] = cwd[q]

Settled(p, ts, c) == Shape(ts) /\ (c = 0 => ts = << >>) /\ (c = 0 \/ Exiting(ts) => NoFiles(ofile, p))

Paid(p, ts, c) ==
    /\ IsTable(itable')
    /\ \A i \in Inums : itable'[i].ref + Dir(cwd[p], todo[p], i) + Ptrs(todo[p], i)
                        = itable[i].ref + Dir(c, ts, i) + Ptrs(ts, i)

LEMMA Moves ==
    ASSUME RefsInv, NEW p \in Procs, NEW ts, NEW c, Moved(p, ts, c), Settled(p, ts, c), Paid(p, ts, c)
    PROVE  RefsInv'
<1>1. IsFiles(ftable) /\ IsFun(todo) /\ IsTable(itable) /\ IsTable(itable') /\ Shape(todo[p]) /\ Shape(ts)
  BY Zenon DEF RefsInv, Refs, Settled, Paid
<1>2. IsFun(todo') /\ todo'[p] = ts /\ \A q \in Procs \ {p} : todo'[q] = todo[q]
  BY <1>1 DEF IsFun, Moved
<1>3. SameFiles(ftable, ftable')
  BY <1>1, Zenon DEF Moved, SameFiles, IsFiles
<1>4. FilesFit(ftable', ofile') /\ ProcFits(ofile', cwd', todo', p) /\ Others(ofile, ofile', cwd, cwd', todo, todo', p)
  BY <1>2, <1>3, Zenon DEF RefsInv, Refs, Counted, FilesFit, ProcFits, Others, Moved, Settled, SameFiles
<1>5. ASSUME NEW i \in Inums
      PROVE  itable'[i].ref + Cur(cwd, todo, p, i) + Cardinality(FileOf(ftable, i)) + Ptrs(todo[p], i)
             = itable[i].ref + Cur(cwd', todo', p, i) + Cardinality(FileOf(ftable', i)) + Ptrs(todo'[p], i)
  <2>1. PICK x, y, u, v, f, m, n :
           /\ x = itable[i].ref /\ y = itable'[i].ref /\ u = Dir(cwd[p], todo[p], i) /\ v = Dir(c, ts, i)
           /\ f = Cardinality(FileOf(ftable, i)) /\ m = Ptrs(todo[p], i) /\ n = Ptrs(ts, i)
    BY Zenon
  <2>2. x \in Nat /\ y \in Nat /\ f \in Nat /\ m \in Nat /\ n \in Nat
    BY <1>1, <2>1, FiniteSets, ShapeSmall, PtrsNat, Zenon DEF IsFiles, IsTable, IsInode
  <2>3. u \in Nat /\ v \in Nat /\ y + u + m = x + v + n
    BY <2>1 DEF Dir, Paid
  <2>4. y + u + f + m = x + v + f + n
    BY <2>2, <2>3
  <2>5. FileOf(ftable', i) = FileOf(ftable, i)
    BY <1>3 DEF FileOf, SameFiles
  <2>. QED
    BY <1>2, <2>1, <2>4, <2>5, Zenon DEF Cur, Moved
<1>6. Shifted(itable, itable', ftable, ftable', cwd, cwd', todo, todo', p)
  BY <1>5, Zenon DEF Shifted
<1>. QED
  BY <1>1, <1>4, <1>6, FullStep, Zenon DEF RefsInv

\* The tasks gain and lose as many pointers as the inodes references.
Balanced(it, it2, old, new) == \A i \in Inums : it2[i].ref = it[i].ref + Ptrs(new, i) - Ptrs(old, i)

\* A step of a call that leaves descriptors and current directories alone.
Stays(p, ts) ==
    /\ todo[p] # << >> /\ Shape(ts) /\ Do(p, ts)
    /\ UNCHANGED <<ofile, cwd>> /\ (ftable' = ftable \/ SameFiles(ftable, ftable'))
    /\ (Leaving(ts) <=> Leaving(todo[p])) /\ (Exiting(ts) => Exiting(todo[p]))

LEMMA TaskStep ==
    ASSUME RefsInv, NEW p \in Procs, NEW ts, Stays(p, ts), IsTable(itable'), Balanced(itable, itable', todo[p], ts)
    PROVE  RefsInv'
<1>1. IsTable(itable) /\ Shape(todo[p]) /\ Shape(ts)
  BY Zenon DEF RefsInv, Refs, Stays
<1>2. \A i \in Inums : Ptrs(todo[p], i) \in Nat /\ Ptrs(ts, i) \in Nat
  BY <1>1, ShapeSmall, PtrsNat, Zenon
<1>3. ASSUME NEW i \in Inums
      PROVE  itable'[i].ref + Dir(cwd[p], todo[p], i) + Ptrs(todo[p], i) = itable[i].ref + Dir(cwd[p], ts, i) + Ptrs(ts, i)
  <2>1. PICK x, y, m, n, d : /\ x = itable[i].ref /\ y = itable'[i].ref /\ m = Ptrs(todo[p], i) /\ n = Ptrs(ts, i)
                             /\ d = Dir(cwd[p], todo[p], i)
    BY Zenon
  <2>2. Dir(cwd[p], ts, i) = d /\ d \in Nat
    BY <2>1 DEF Dir, Stays
  <2>3. x \in Nat /\ y \in Nat /\ m \in Nat /\ n \in Nat /\ y = x + n - m
    BY <1>1, <1>2, <2>1, Zenon DEF Balanced, IsTable, IsInode
  <2>4. y + d + m = x + d + n
    BY <2>2, <2>3
  <2>. QED
    BY <2>1, <2>2, <2>4, Zenon
<1>4. Moved(p, ts, cwd[p]) /\ Settled(p, ts, cwd[p])
  BY Zenon DEF RefsInv, Refs, Stays, Do, Moved, Settled
<1>5. Paid(p, ts, cwd[p])
  BY <1>3, Zenon DEF Paid
<1>. QED
  BY <1>4, <1>5, Moves, Zenon

-----------------------------------------------------------------------------
(***************************************************************************)
(* The lists of tasks before and after a step.                             *)
(***************************************************************************)
\* The first task of a list, and what may follow it.
FirstTask(ts, a) ==
    /\ Head(ts) = a
    /\ \/ IsPut(a) /\ Call(Tail(ts)) /\ Pushed(a, Tail(ts), ts)
       \/ ts = <<a>> /\ Final(a) /\ a.op \notin {"iput", "iput_last"}
       \/ \E b : ts = <<a, b>> /\ Pair(a, b)
       \/ \E b, c : ts = <<a, b, c>> /\ Triple(a, b, c)

LEMMA Cases ==
    ASSUME NEW ts, Shape(ts), ts # << >>
    PROVE  \E a : FirstTask(ts, a)
<1>1. ASSUME NEW a, NEW r, IsPut(a), Call(r), ts = <<a>> \o r
      PROVE  Head(ts) = a /\ Call(Tail(ts)) /\ Pushed(a, Tail(ts), ts)
  <2>1. Pushed(a, r, ts)
    BY <1>1, Push, CallShort
  <2>. QED
    BY <1>1, <2>1, Zenon DEF Pushed
<1>2. ASSUME NEW a, ts = <<a>>, Final(a), a.op \in {"iput", "iput_last"}
      PROVE  Head(ts) = a /\ IsPut(a) /\ Call(Tail(ts)) /\ Pushed(a, Tail(ts), ts)
  <2>1. Pushed(a, << >>, ts)
    BY <1>2, Pushed0
  <2>2. IsPut(a)
    BY <1>2 DEF Final, IsPut
  <2>. QED
    BY <2>1, <2>2, Zenon DEF Pushed, Call
<1>3. ASSUME NEW a PROVE (ts = <<a>> => Head(ts) = a) /\ (\A b : ts = <<a, b>> => Head(ts) = a)
                         /\ (\A b, c : ts = <<a, b, c>> => Head(ts) = a)
  OBVIOUS
<1>. QED
  BY <1>1, <1>2, <1>3, Zenon DEF Shape, Call, FirstTask

\* Lists without the end of chdir() or exit().
Plain(ts) == ~Leaving(ts) /\ ~Exiting(ts)
Quiet(a)  == a.op \notin {"chdir_done", "exit_done"}

LEMMA List0 == Shape(<< >>) /\ Plain(<< >>) /\ \A i : Ptrs(<< >>, i) = 0
<1>1. Plain(<< >>)
  BY DEF Plain, Leaving, Exiting
<1>. QED
  BY <1>1, Ptrs0 DEF Shape, Call

LEMMA List1 ==
    ASSUME NEW a
    PROVE  /\ Final(a) => Shape(<<a>>)
           /\ Quiet(a) => Plain(<<a>>)
           /\ ~Quiet(a) => Leaving(<<a>>)
           /\ \A i : Ptrs(<<a>>, i) = One(a, i)
<1>1. (Quiet(a) => Plain(<<a>>)) /\ (~Quiet(a) => Leaving(<<a>>))
  BY DEF Plain, Quiet, Leaving, Exiting
<1>. QED
  BY <1>1, Ptrs1, Zenon DEF Shape, Call

LEMMA List2 ==
    ASSUME NEW a, NEW b
    PROVE  /\ Pair(a, b) => Shape(<<a, b>>) /\ Plain(<<a, b>>)
           /\ IsPut(a) /\ Final(b) => Shape(<<a, b>>)
           /\ IsPut(a) /\ Quiet(b) => Plain(<<a, b>>)
           /\ IsPut(a) /\ ~Quiet(b) => Leaving(<<a, b>>)
           /\ \A i : Ptrs(<<a, b>>, i) = One(a, i) + One(b, i)
<1>1. IsPut(a) /\ Final(b) => Shape(<<a, b>>)
  <2>1. <<a, b>> = <<a>> \o <<b>>
    BY Push1, Zenon
  <2>. QED
    BY <2>1, Zenon DEF Shape, Call
<1>2. Pair(a, b) => Plain(<<a, b>>)
  BY DEF Pair, Looks, Looked, Parent, Creating, Created, Plain, Leaving, Exiting
<1>3. /\ IsPut(a) /\ Quiet(b) => Plain(<<a, b>>)
      /\ IsPut(a) /\ ~Quiet(b) => Leaving(<<a, b>>)
  BY DEF IsPut, Plain, Quiet, Leaving, Exiting
<1>. QED
  BY <1>1, <1>2, <1>3, Ptrs2, Zenon DEF Shape, Call

LEMMA List3 ==
    ASSUME NEW a, NEW b, NEW c
    PROVE  /\ Triple(a, b, c) => Shape(<<a, b, c>>)
           /\ Triple(a, b, c) /\ a.op # "close" => Plain(<<a, b, c>>)
           /\ a.op = "close" /\ c.op = "exit_done" => Leaving(<<a, b, c>>) /\ ~Exiting(<<a, b, c>>)
           /\ IsPut(a) /\ Pair(b, c) => Shape(<<a, b, c>>) /\ Plain(<<a, b, c>>)
           /\ \A i : Ptrs(<<a, b, c>>, i) = One(a, i) + One(b, i) + One(c, i)
<1>1. IsPut(a) /\ Pair(b, c) => Shape(<<a, b, c>>)
  <2>1. <<a, b, c>> = <<a>> \o <<b, c>>
    BY Push2
  <2>. QED
    BY <2>1, Zenon DEF Shape, Call
<1>2. Triple(a, b, c) /\ a.op # "close" => Plain(<<a, b, c>>)
  BY DEF Triple, Looks, Created, Plain, Leaving, Exiting
<1>3. a.op = "close" /\ c.op = "exit_done" => Leaving(<<a, b, c>>) /\ ~Exiting(<<a, b, c>>)
  BY DEF Leaving, Exiting
<1>4. IsPut(a) /\ Pair(b, c) => Plain(<<a, b, c>>)
  BY DEF IsPut, Pair, Looks, Looked, Parent, Creating, Created, Plain, Leaving, Exiting
<1>5. Triple(a, b, c) => Shape(<<a, b, c>>)
  BY DEF Shape, Call
<1>6. \A i : Ptrs(<<a, b, c>>, i) = One(a, i) + One(b, i) + One(c, i)
  BY Ptrs3
<1>. QED
  BY <1>1, <1>2, <1>3, <1>4, <1>5, <1>6

\* An iput() before the tasks of a call.
LEMMA ListPut ==
    ASSUME NEW a, IsPut(a), NEW r, Call(r)
    PROVE  /\ Shape(<<a>> \o r)
           /\ Leaving(<<a>> \o r) <=> Leaving(r)
           /\ Exiting(<<a>> \o r) <=> Exiting(r)
           /\ \A i : Ptrs(<<a>> \o r, i) = One(a, i) + Ptrs(r, i)
<1>1. Pushed(a, r, <<a>> \o r)
  BY Push, CallShort, Zenon
<1>2. a.op \notin {"chdir_done", "exit_done", "close"}
  BY DEF IsPut
<1>3. Shape(<<a>> \o r)
  BY DEF Shape
<1>. QED
  BY <1>1, <1>2, <1>3 DEF Pushed

LEMMA OneT ==
    ASSUME NEW op, NEW x, NEW y, NEW path
    PROVE  /\ IsTask(T(op, x, y, path))
           /\ T(op, x, y, path).op = op /\ T(op, x, y, path).ip = x /\ T(op, x, y, path).dp = y
           /\ \A i : One(T(op, x, y, path), i) = Eq(x, i) + Eq(y, i)
BY DEF T, IsTask, One, Eq

\* The fields of a new task.
IsT(a, op, x, y) == IsTask(a) /\ a.op = op /\ a.ip = x /\ a.dp = y

LEMMA TIs == \A op, x, y, path : IsT(T(op, x, y, path), op, x, y)
BY DEF IsT, T, IsTask

LEMMA OnePut == ASSUME NEW x PROVE /\ IsPut(Put(x)) /\ Final(Put(x)) /\ Quiet(Put(x))
                                   /\ \A i \in Inums : One(Put(x), i) = Eq(x, i)
<1>1. Put(x).op = "iput" /\ IsTask(Put(x)) /\ Put(x).ip = x /\ Put(x).dp = 0
  BY DEF Put, T, IsTask
<1>2. \A i \in Inums : One(Put(x), i) = Eq(x, i)
  BY <1>1 DEF One, Eq, Inums
<1>. QED
  BY <1>1, <1>2 DEF IsPut, Final, Quiet

LEMMA BalancedKept ==
    ASSUME NEW it, IsTable(it), NEW it2, Kept(it, it2), NEW old, Shape(old), NEW new,
           \A i \in Inums : Ptrs(new, i) = Ptrs(old, i)
    PROVE  IsTable(it2) /\ Balanced(it, it2, old, new)
<1>1. \A i \in Inums : Ptrs(old, i) \in Nat
  BY ShapeSmall, PtrsNat
<1>. QED
  BY <1>1 DEF Kept, Balanced, IsTable, IsInode

LEMMA BalancedAdded ==
    ASSUME NEW it, IsTable(it), NEW it2, NEW x, Added(it, it2, x), NEW old, Shape(old), NEW new,
           \A i \in Inums : Ptrs(new, i) = Ptrs(old, i) + Eq(x, i)
    PROVE  IsTable(it2) /\ Balanced(it, it2, old, new)
<1>1. \A i \in Inums : Ptrs(old, i) \in Nat
  BY ShapeSmall, PtrsNat
<1>. QED
  BY <1>1 DEF Added, Balanced, IsTable, IsInode, Eq

\* Locking and looking up: first one, then the other.
LEMMA KeptAdded ==
    ASSUME NEW it, NEW it2, NEW it3, NEW x, Kept(it, it2), Added(it2, it3, x)
    PROVE  Added(it, it3, x)
BY DEF Kept, Added

LEMMA KeptKept == ASSUME NEW it, NEW it2, NEW it3, Kept(it, it2), Kept(it2, it3) PROVE Kept(it, it3)
BY DEF Kept

-----------------------------------------------------------------------------
(***************************************************************************)
(* Every step keeps the counts.                                            *)
(***************************************************************************)
OneOps == {"iunlockput", "open_locked", "link_ip", "link_dp", "link_bad", "unlink_dp", "unlink_ip", "unlink_last",
           "open", "chdir", "chdir_done", "read", "write", "stat", "exit_done"}
TwoOps == {"create_dp", "create_old", "create_new", "create_dot", "create_dotdot", "create_enter"}

LEMMA Typed ==
    ASSUME RefsInv, NEW p \in Procs, Ready(p)
    PROVE  IsTable(itable) /\ Shape(todo[p]) /\ todo[p] # << >>
BY DEF RefsInv, Refs, Ready

LEMMA TopFirst == ASSUME RefsInv, NEW p \in Procs, Ready(p) PROVE FirstTask(todo[p], Top(p))
<1>1. PICK a : FirstTask(todo[p], a)
  BY Typed, Cases, Zenon
<1>2. a = Top(p)
  BY <1>1, Zenon DEF FirstTask, Top
<1>. QED
  BY <1>1, <1>2, Zenon

LEMMA OneTop ==
    ASSUME RefsInv, NEW p \in Procs, Ready(p), Top(p).op \in OneOps
    PROVE  todo[p] = <<Top(p)>> /\ Final(Top(p))
<1>. DEFINE a == Top(p)
<1>1. ~IsPut(a) /\ (\A b : ~Pair(a, b)) /\ (\A b, c : ~Triple(a, b, c))
  BY DEF OneOps, IsPut, Pair, Triple, Looks, Creating
<1>. QED
  BY <1>1, TopFirst, Zenon DEF FirstTask

LEMMA TwoTop ==
    ASSUME RefsInv, NEW p \in Procs, Ready(p), Top(p).op \in TwoOps
    PROVE  \E b : todo[p] = <<Top(p), b>> /\ Rest(p) = <<b>> /\ Creating(Top(p)) /\ Created(b)
<1>. DEFINE a == Top(p)
<1>1. ~IsPut(a) /\ ~Final(a) /\ (\A b, c : ~Triple(a, b, c)) /\ (\A b : Pair(a, b) => Creating(a) /\ Created(b))
  BY DEF TwoOps, IsPut, Final, Pair, Triple, Looks
<1>2. PICK b : todo[p] = <<a, b>> /\ Pair(a, b)
  BY <1>1, TopFirst, Zenon DEF FirstTask
<1>3. Rest(p) = <<b>>
  BY <1>2 DEF Rest
<1>. QED
  BY <1>1, <1>2, <1>3, Zenon

LEMMA TopPtrs ==
    ASSUME RefsInv, NEW p \in Procs, Ready(p), Top(p).op \in OneOps \cup TwoOps, Quiet(Top(p))
    PROVE  Plain(todo[p]) /\ \A i \in Inums : Ptrs(todo[p], i) = One(Top(p), i)
<1>1. CASE Top(p).op \in OneOps
  BY <1>1, OneTop, List1
<1>2. CASE Top(p).op \in TwoOps
  <2>1. PICK b : todo[p] = <<Top(p), b>> /\ Creating(Top(p)) /\ Created(b)
    BY <1>2, TwoTop, Zenon
  <2>2. Plain(todo[p]) /\ \A i : Ptrs(todo[p], i) = One(Top(p), i) + One(b, i)
    BY <2>1, List2, Zenon DEF Pair
  <2>3. \A i \in Inums : One(b, i) = 0 /\ One(Top(p), i) \in Nat
    BY <2>1 DEF Created, Idle, One, Eq, Inums
  <2>. QED
    BY <2>2, <2>3
<1>. QED
  BY <1>1, <1>2

\* Steps of a call that keep its pointers, or add one to x.
LEMMA PlainKept ==
    ASSUME RefsInv, NEW p \in Procs, Ready(p), Top(p).op \in OneOps \cup TwoOps, Quiet(Top(p)),
           NEW ts, Shape(ts), Plain(ts), Do(p, ts), UNCHANGED files, Kept(itable, itable'),
           \A i \in Inums : Ptrs(ts, i) = One(Top(p), i)
    PROVE  RefsInv'
<1>. USE Zenon
<1>1. Plain(todo[p]) /\ \A i \in Inums : Ptrs(ts, i) = Ptrs(todo[p], i)
  BY TopPtrs
<1>2. IsTable(itable') /\ Balanced(itable, itable', todo[p], ts)
  BY <1>1, Typed, BalancedKept
<1>3. (Leaving(ts) <=> Leaving(todo[p])) /\ (Exiting(ts) => Exiting(todo[p]))
  BY <1>1 DEF Plain
<1>. QED
  BY <1>2, <1>3, Typed, TaskStep, Zenon DEF Stays, files

LEMMA PlainAdded ==
    ASSUME RefsInv, NEW p \in Procs, Ready(p), Top(p).op \in OneOps \cup TwoOps, Quiet(Top(p)),
           NEW ts, Shape(ts), Plain(ts), Do(p, ts), UNCHANGED files, NEW x, Added(itable, itable', x),
           \A i \in Inums : Ptrs(ts, i) = One(Top(p), i) + Eq(x, i)
    PROVE  RefsInv'
<1>. USE Zenon
<1>1. Plain(todo[p]) /\ \A i \in Inums : Ptrs(ts, i) = Ptrs(todo[p], i) + Eq(x, i)
  BY TopPtrs
<1>2. IsTable(itable') /\ Balanced(itable, itable', todo[p], ts)
  BY <1>1, Typed, BalancedAdded
<1>3. (Leaving(ts) <=> Leaving(todo[p])) /\ (Exiting(ts) => Exiting(todo[p]))
  BY <1>1 DEF Plain
<1>. QED
  BY <1>2, <1>3, Typed, TaskStep, Zenon DEF Stays, files

\* The call puts its only inode, or its two.
LEMMA PutOne ==
    ASSUME NEW x
    PROVE  Shape(<<Put(x)>>) /\ Plain(<<Put(x)>>) /\ \A i \in Inums : Ptrs(<<Put(x)>>, i) = Eq(x, i)
BY OnePut, List1

LEMMA PutTwo ==
    ASSUME NEW x, NEW t, Final(t), Quiet(t)
    PROVE  /\ Shape(<<Put(x), t>>) /\ Plain(<<Put(x), t>>)
           /\ \A i \in Inums : Ptrs(<<Put(x), t>>, i) = Eq(x, i) + One(t, i)
<1>1. \A i \in Inums : Ptrs(<<Put(x), t>>, i) = Eq(x, i) + One(t, i)
  BY OnePut, List2
<1>. QED
  BY <1>1, OnePut, List2

\* What becomes of the task t with two pointers: one of them is put, and the task u has the other.
Has(u, x)     == \A i \in Inums : One(u, i) = Eq(x, i)
Spared(ts, t) == Shape(ts) /\ Plain(ts) /\ \A i \in Inums : Ptrs(ts, i) = One(t, i)

LEMMA PutIp == ASSUME NEW t, NEW u, Final(u), Quiet(u), Has(u, t.dp) PROVE Spared(<<Put(t.ip), u>>, t)
<1>1. \A i \in Inums : Ptrs(<<Put(t.ip), u>>, i) = Eq(t.ip, i) + One(u, i)
  BY PutTwo, Zenon
<1>2. \A i \in Inums : Ptrs(<<Put(t.ip), u>>, i) = One(t, i)
  BY <1>1, Zenon DEF Has, One
<1>. QED
  BY <1>2, PutTwo, Zenon DEF Spared

LEMMA PutDp == ASSUME NEW t, NEW u, Final(u), Quiet(u), Has(u, t.ip) PROVE Spared(<<Put(t.dp), u>>, t)
<1>1. \A i \in Inums : Ptrs(<<Put(t.dp), u>>, i) = Eq(t.dp, i) + One(u, i)
  BY PutTwo, Zenon
<1>2. \A i \in Inums : Ptrs(<<Put(t.dp), u>>, i) = Eq(t.dp, i) + Eq(t.ip, i)
  BY <1>1, Zenon DEF Has
<1>3. \A i \in Inums : Eq(t.dp, i) + Eq(t.ip, i) = One(t, i)
  BY EqNat, SMT DEF One
<1>. QED
  BY <1>2, <1>3, PutTwo, Zenon DEF Spared

-----------------------------------------------------------------------------
(***************************************************************************)
(* Path lookup.                                                            *)
(***************************************************************************)
LEMMA Called ==
    ASSUME RefsInv, NEW p \in Procs, NEW c, Calls(p, c), NEW ts, Enter(p, c, ts), UNCHANGED files,
           Shape(ts), ~Exiting(ts), IsTable(itable'),
           \A i \in Inums : itable'[i].ref + Eq(cwd[p], i) = itable[i].ref + Dir(cwd[p], ts, i) + Ptrs(ts, i)
    PROVE  RefsInv'
<1>1. todo[p] = << >> /\ cwd[p] # 0
  BY Zenon DEF Calls
<1>2. \A i : Ptrs(<< >>, i) = 0 /\ Dir(cwd[p], << >>, i) = Eq(cwd[p], i)
  BY List0 DEF Plain, Dir, Eq
<1>3. Paid(p, ts, cwd[p])
  BY <1>1, <1>2 DEF Paid, IsTable, IsInode, Eq
<1>4. Moved(p, ts, cwd[p]) /\ Settled(p, ts, cwd[p])
  BY <1>1 DEF Enter, files, RefsInv, Refs, Moved, Settled
<1>. QED
  BY <1>3, <1>4, Moves, Zenon

\* What follows a path's lookup, and what becomes of it: the tasks ts have the pointers of r
\* and one more, to x.
Lookup(t, r) ==
    /\ Looks(t)
    /\ (\E b : r = <<b>> /\ Pair(t, b)) \/ (\E b, c : r = <<b, c>> /\ Triple(t, b, c))

Gained(ts, x, r) ==
    Call(ts) /\ Plain(ts) /\ \A i \in Inums : Ptrs(r, i) \in Nat /\ Ptrs(ts, i) = Eq(x, i) + Ptrs(r, i)

\* An iput() before the tasks of a call, and the pointers of both.
PutFirst(x, r, s) == Shape(s) /\ Plain(s) /\ \A i \in Inums : Ptrs(s, i) = Eq(x, i) + Ptrs(r, i)

\* The tasks of a call with a path.
PathList(ts) ==
    \/ \E x, y : /\ ts = <<Task(x), Task(y)>>
                 /\ (x = "namei" /\ y \in {"link_ip", "chdir", "open"}) \/ (x = "nameiparent" /\ y = "unlink_dp")
    \/ \E z \in {"iunlockput", "open_locked"} : ts = <<Task("nameiparent"), Task("create_dp"), Task(z)>>

Starts(a, r, st) == Lookup(a, r) /\ a.ip = st /\ \A i \in Inums : Ptrs(r, i) = 0

\* namex(), and the calls that start one.
LEMMA LookupSteps ==
    \A p \in Procs : RefsInv /\ ((Ready(p) /\ namex(p)) \/ \E c : path_call(p, c)) => RefsInv'
\* An entry that dirlookup() finds has an inode number.
<1>1. ASSUME NEW s, NEW name, dirlookup(s, name) # -1
      PROVE  Entries(s)[dirlookup(s, name) + 1][2] # 0
  <2>. USE <1>1
  <2>. DEFINE at == {k \in DOMAIN Entries(s) : Entries(s)[k][2] # 0 /\ Entries(s)[k][1] = name}
  <2>1. at # {} /\ dirlookup(s, name) = Min(at) - 1
    BY Zenon DEF dirlookup
  <2>2. \A m : 1 .. m \subseteq Nat
    OBVIOUS
  <2>3. at \subseteq Nat
    BY <2>2, Zenon DEF Entries, readi
  <2>4. Min(at) \in at /\ Min(at) \in Nat
    BY <2>1, <2>3, MinOfNats
  <2>5. PICK m \in Nat : m = Min(at)
    BY <2>4, Zenon
  <2>6. (m - 1) + 1 = m
    OBVIOUS
  <2>. QED
    BY <2>1, <2>4, <2>5, <2>6, Zenon
<1>2. ASSUME RefsInv, NEW p \in Procs, Ready(p), Top(p).op \in {"namei", "nameiparent"}
      PROVE  Lookup(Top(p), Rest(p)) /\ todo[p] = <<Top(p)>> \o Rest(p)
  <2>. USE <1>2
  <2>. DEFINE a == Top(p)
  <2>1. ~IsPut(a) /\ ~Final(a) /\ (\A b : Pair(a, b) => Looks(a)) /\ (\A b, c : Triple(a, b, c) => Looks(a))
    BY DEF IsPut, Final, Pair, Triple, Creating
  <2>2. ASSUME NEW b, todo[p] = <<a, b>>, Pair(a, b) PROVE Lookup(a, Rest(p)) /\ todo[p] = <<a>> \o Rest(p)
    <3>1. Rest(p) = <<b>>
      BY <2>2 DEF Rest
    <3>. QED
      BY <2>1, <2>2, <3>1, Push1, Zenon DEF Lookup
  <2>3. ASSUME NEW b, NEW c, todo[p] = <<a, b, c>>, Triple(a, b, c)
        PROVE  Lookup(a, Rest(p)) /\ todo[p] = <<a>> \o Rest(p)
    <3>1. Rest(p) = <<b, c>>
      BY <2>3 DEF Rest
    <3>. QED
      BY <2>1, <2>3, <3>1, Push2, Zenon DEF Lookup
  <2>. QED
    BY <2>1, <2>2, <2>3, TopFirst, Zenon DEF FirstTask
\* The lookup goes on.
<1>3. ASSUME NEW t, NEW r, Lookup(t, r), NEW u, Looks(u), u.op = t.op
      PROVE  Gained(<<u>> \o r, u.ip, r)
  <2>. USE <1>3
  <2>1. \A i \in Inums : One(u, i) = Eq(u.ip, i) /\ One(u, i) \in Nat
    BY DEF Looks, One, Eq, Inums
  <2>2. ASSUME NEW b, r = <<b>>, Pair(t, b) PROVE Gained(<<u>> \o r, u.ip, r)
    <3>1. Pair(u, b)
      BY <2>2, Zenon DEF Pair, Looks, Lookup, Creating
    <3>2. Call(<<u, b>>) /\ Plain(<<u, b>>)
      BY <3>1, List2, Zenon DEF Call
    <3>3. ASSUME NEW i \in Inums PROVE Ptrs(<<b>>, i) \in Nat /\ Ptrs(<<u, b>>, i) = Eq(u.ip, i) + Ptrs(<<b>>, i)
      <4>3. (\A j : Ptrs(<<u, b>>, j) = One(u, j) + One(b, j)) /\ \A j : Ptrs(<<b>>, j) = One(b, j)
        BY List1, List2, Zenon
      <4>1. Ptrs(<<u, b>>, i) = Eq(u.ip, i) + One(b, i) /\ Ptrs(<<b>>, i) = One(b, i)
        BY <2>1, <4>3, Zenon
      <4>2. One(b, i) \in Nat
        BY EqNat DEF One
      <4>. QED
        BY <4>1, <4>2, Zenon
    <3>. QED
      BY <2>2, <3>2, <3>3, Push1, Zenon DEF Gained
  <2>3. ASSUME NEW b, NEW c, r = <<b, c>>, Triple(t, b, c) PROVE Gained(<<u>> \o r, u.ip, r)
    <3>1. Triple(u, b, c) /\ u.op # "close" /\ \A i : One(b, i) \in Nat /\ One(c, i) \in Nat
      BY <2>3 DEF Triple, Looks, Lookup, One, Eq
    <3>2. Call(<<u, b, c>>) /\ Plain(<<u, b, c>>)
      BY <3>1, List3 DEF Call
    <3>3. \A i \in Inums : Ptrs(<<b, c>>, i) \in Nat /\ Ptrs(<<u, b, c>>, i) = Eq(u.ip, i) + Ptrs(<<b, c>>, i)
      BY <2>1, <3>1, Ptrs2, Ptrs3
    <3>. QED
      BY <2>3, <3>2, <3>3, Push2, Zenon DEF Gained
  <2>. QED
    BY <2>2, <2>3 DEF Lookup
\* It is over: the next task gets the inode.
<1>4. ASSUME NEW t, NEW r, Lookup(t, r), NEW path, path = << >> <=> t.op = "namei"
      PROVE  Gained(Give(r, t.ip, path), t.ip, r)
  <2>. USE <1>4
  <2>1. ASSUME NEW b, r = <<b>>, Pair(t, b) PROVE Gained(Give(r, t.ip, path), t.ip, r)
    <3>1. PICK c : c = IF path = << >> THEN [b EXCEPT !.ip = t.ip] ELSE [b EXCEPT !.dp = t.ip, !.path = path]
      BY Zenon
    <3>2. Give(r, t.ip, path) = <<c>>
      BY <2>1, <3>1 DEF Give
    <3>3. (Looked(b) /\ path = << >>) \/ (Parent(b) /\ path # << >>)
      BY <2>1 DEF Pair, Lookup, Looks, Creating
    <3>4. Final(c) /\ Quiet(c)
      BY <3>1, <3>3 DEF Looked, Parent, Final, Quiet, IsTask, Idle, Lookup, Looks
    <3>5. \A i \in Inums : One(b, i) \in Nat /\ One(c, i) = Eq(t.ip, i) + One(b, i)
      BY <3>1, <3>3 DEF Looked, Parent, IsTask, Idle, One, Eq, Inums
    <3>6. \A i \in Inums : Ptrs(<<b>>, i) \in Nat /\ Ptrs(<<c>>, i) = Eq(t.ip, i) + Ptrs(<<b>>, i)
      BY <3>5, Ptrs1
    <3>. QED
      BY <2>1, <3>2, <3>4, <3>6, List1 DEF Gained, Call
  <2>2. ASSUME NEW b, NEW d, r = <<b, d>>, Triple(t, b, d) PROVE Gained(Give(r, t.ip, path), t.ip, r)
    <3>1. t.op = "nameiparent" /\ IsTask(b) /\ b.op = "create_dp" /\ Idle(b) /\ Created(d)
      BY <2>2 DEF Triple, Lookup, Looks
    <3>2. PICK c : c = [b EXCEPT !.dp = t.ip, !.path = path]
      OBVIOUS
    <3>3. Give(r, t.ip, path) = <<c>> \o <<d>>
      BY <2>2, <3>1, <3>2 DEF Give
    <3>4. Creating(c) /\ \A i \in Inums : One(c, i) = Eq(t.ip, i) /\ One(b, i) = 0 /\ One(d, i) = 0
      BY <3>1, <3>2 DEF Creating, Created, IsTask, Idle, One, Eq, Inums
    <3>5. Call(<<c, d>>) /\ Plain(<<c, d>>)
      BY <3>1, <3>4, List2 DEF Call, Pair
    <3>6. \A i \in Inums : Ptrs(<<b, d>>, i) \in Nat /\ Ptrs(<<c, d>>, i) = Eq(t.ip, i) + Ptrs(<<b, d>>, i)
      BY <3>4, Ptrs2 DEF Eq
    <3>. QED
      BY <2>2, <3>3, <3>5, <3>6, Push1 DEF Gained
  <2>. QED
    BY <2>1, <2>2, Zenon DEF Lookup
\* It failed.
<1>5. ASSUME NEW t, NEW r, Lookup(t, r)
      PROVE  Call(Failed(r)) /\ Plain(Failed(r)) /\ \A i \in Inums : Ptrs(Failed(r), i) = Ptrs(r, i)
  <2>. USE <1>5
  <2>1. PICK b : (r = <<b>> /\ Pair(t, b)) \/ \E d : r = <<b, d>> /\ Triple(t, b, d)
    BY DEF Lookup
  <2>2. Head(r) = b
    BY <2>1
  <2>3. CASE b.op = "link_dp"
    <3>1. PICK c : c = [b EXCEPT !.op = "link_bad"]
      BY Zenon
    <3>2. Failed(r) = <<c>>
      BY <2>2, <2>3, <3>1 DEF Failed
    <3>3. r = <<b>> /\ Parent(b)
      BY <2>1, <2>3 DEF Pair, Triple, Looked, Lookup, Looks, Creating
    <3>4. Final(c) /\ Quiet(c) /\ \A i : One(c, i) = One(b, i)
      BY <2>3, <3>1, <3>3 DEF Parent, IsTask, Final, Quiet, One
    <3>5. \A i \in Inums : Ptrs(<<c>>, i) = Ptrs(<<b>>, i)
      BY <3>4, Ptrs1
    <3>. QED
      BY <3>2, <3>3, <3>4, <3>5, List1 DEF Call
  <2>4. CASE b.op # "link_dp"
    <3>1. Failed(r) = << >>
      BY <2>2, <2>4, Zenon DEF Failed
    <3>2. \A i \in Inums : One(b, i) = 0
      <4>1. Idle(b)
        BY <2>1, <2>4 DEF Pair, Triple, Looked, Parent, Lookup, Looks, Creating
      <4>. QED
        BY <4>1, SMT DEF Idle, One, Eq, Inums
    <3>3. ASSUME NEW d, Triple(t, b, d) PROVE \A i \in Inums : One(d, i) = 0
      BY <3>3 DEF Triple, Lookup, Looks, Created, Idle, One, Eq, Inums
    <3>4. \A i \in Inums : Ptrs(r, i) = 0
      BY <2>1, <3>2, <3>3, Ptrs1, Ptrs2
    <3>. QED
      BY <3>1, <3>4, List0 DEF Call
  <2>. QED
    BY <2>3, <2>4
<1>6. ASSUME NEW a, NEW b, NEW c, NEW d PROVE <<a, b>> \o <<c, d>> = <<a, b, c, d>>
  <2>. USE <1>6
  <2>. DEFINE R == {a, b, c, d}
             s == <<a, b>> \o <<c, d>>
  <2>1. <<a, b>> \in Seq(R) /\ <<c, d>> \in Seq(R) /\ Len(<<a, b>>) = 2 /\ Len(<<c, d>>) = 2
    OBVIOUS
  <2>2. s \in Seq(R) /\ Len(s) = 4 /\ s[1] = a /\ s[2] = b /\ s[3] = c /\ s[4] = d
    BY <2>1
  <2>. HIDE DEF R, s
  <2>3. s = [k \in 1 .. 4 |-> s[k]]
    BY <2>2
  <2>4. s = <<a, b, c, d>>
    BY <2>2, <2>3
  <2>. QED
    BY <2>4 DEF s
<1>7. ASSUME NEW t, NEW r, Lookup(t, r), NEW a, NEW u
      PROVE  <<a, u>> \o r = <<a>> \o (<<u>> \o r)
  <2>. USE <1>7
  <2>. USE Zenon
  <2>1. ASSUME NEW b PROVE <<a, u>> \o <<b>> = <<a>> \o (<<u>> \o <<b>>)
    <3>1. <<a, u>> \o <<b>> = <<a, u, b>> /\ <<u>> \o <<b>> = <<u, b>>
      BY PushTwo, Push1
    <3>. QED
      BY <3>1, Push2
  <2>2. ASSUME NEW b, NEW c PROVE <<a, u>> \o <<b, c>> = <<a>> \o (<<u>> \o <<b, c>>)
    <3>1. <<a, u>> \o <<b, c>> = <<a, u, b, c>> /\ <<u>> \o <<b, c>> = <<u, b, c>>
      BY <1>6, Push2
    <3>. QED
      BY <3>1, Push3
  <2>. QED
    BY <2>1, <2>2 DEF Lookup
<1>8. ASSUME NEW x, NEW r, Call(r), Plain(r) PROVE PutFirst(x, r, <<Put(x)>> \o r)
  <2>. USE <1>8
  <2>1. PICK a : a = Put(x) /\ IsPut(a) /\ \A i \in Inums : One(a, i) = Eq(x, i)
    BY OnePut
  <2>2. Shape(<<a>> \o r) /\ Plain(<<a>> \o r) /\ \A i : Ptrs(<<a>> \o r, i) = One(a, i) + Ptrs(r, i)
    BY <2>1, ListPut DEF Plain
  <2>. QED
    BY <2>1, <2>2 DEF PutFirst
<1>9. ASSUME RefsInv, NEW p \in Procs, Ready(p), namex(p) PROVE RefsInv'
  <2>. USE <1>9
  <2>. USE Zenon
  <2>. DEFINE t == Top(p)
              r == Rest(p)
  <2>1. t.op \in {"namei", "nameiparent"} /\ UNCHANGED files
    BY DEF namex
  <2>2. Lookup(t, r) /\ todo[p] = <<t>> \o r
    BY <2>1, <1>2
  <2>3. Gained(todo[p], t.ip, r) /\ IsTable(itable) /\ Shape(todo[p]) /\ todo[p] # << >>
    BY <2>2, <1>3, Typed DEF Lookup
  <2>. HIDE DEF t, r
  <2>4. ASSUME NEW ts, Shape(ts), Plain(ts), Do(p, ts), Kept(itable, itable'),
               \A i \in Inums : Ptrs(ts, i) = Eq(t.ip, i) + Ptrs(r, i)
        PROVE  RefsInv'
    <3>1. IsTable(itable') /\ Balanced(itable, itable', todo[p], ts)
      BY <2>3, <2>4, BalancedKept DEF Gained
    <3>. QED
      BY <2>1, <2>3, <2>4, <3>1, TaskStep DEF Gained, Plain, Shape, Stays, files
  <2>5. ASSUME NEW ts, Gained(ts, t.ip, r), Do(p, ts), Kept(itable, itable') PROVE RefsInv'
    BY <2>4, <2>5 DEF Gained, Shape
  <2>6. ASSUME Do(p, <<Put(t.ip)>> \o Failed(r)), Kept(itable, itable') PROVE RefsInv'
    <3>1. Call(Failed(r)) /\ Plain(Failed(r)) /\ \A i \in Inums : Ptrs(Failed(r), i) = Ptrs(r, i)
      BY <2>2, <1>5
    <3>2. PutFirst(t.ip, Failed(r), <<Put(t.ip)>> \o Failed(r))
      BY <3>1, <1>8
    <3>. QED
      BY <2>4, <2>6, <3>1, <3>2 DEF PutFirst
  <2>7. ASSUME NEW x, x # 0, NEW path, Do(p, <<Put(t.ip), T(t.op, x, 0, path)>> \o r), Added(itable, itable', x)
        PROVE  RefsInv'
    <3>1. PICK u : u = T(t.op, x, 0, path)
      OBVIOUS
    <3>2. Looks(u) /\ u.op = t.op /\ u.ip = x
      BY <2>1, <2>7, <3>1, OneT, SMT DEF Looks
    <3>3. Gained(<<u>> \o r, x, r)
      BY <2>2, <3>2, <1>3
    <3>4. PICK ts : ts = <<Put(t.ip)>> \o (<<u>> \o r)
      OBVIOUS
    <3>5. PutFirst(t.ip, <<u>> \o r, ts)
      BY <3>3, <3>4, <1>8 DEF Gained
    <3>6. Do(p, ts)
      BY <2>2, <2>7, <3>1, <3>4, <1>7
    <3>7. ASSUME NEW i \in Inums PROVE Ptrs(ts, i) = Ptrs(todo[p], i) + Eq(x, i)
      <4>1. PICK m, e, g : m = Ptrs(r, i) /\ e = Eq(t.ip, i) /\ g = Eq(x, i) /\ m \in Nat /\ e \in Nat /\ g \in Nat
        BY <2>3, EqNat DEF Gained
      <4>2. Ptrs(ts, i) = e + (g + m) /\ Ptrs(todo[p], i) = e + m
        BY <2>3, <3>3, <3>5, <4>1 DEF Gained, PutFirst
      <4>3. e + (g + m) = (e + m) + g
        BY <4>1, SMT
      <4>. QED
        BY <4>1, <4>2, <4>3
    <3>8. IsTable(itable') /\ Balanced(itable, itable', todo[p], ts)
      BY <2>3, <2>7, <3>7, BalancedAdded
    <3>. QED
      BY <2>1, <2>3, <3>5, <3>6, <3>8, TaskStep DEF Gained, PutFirst, Plain, Stays, files
  <2>8. Kept(itable, itable) /\ \A x, s : Kept(itable, iunlock(itable, x, s))
    BY <2>3, IunlockKeeps DEF Kept
  <2>9. \A x, y, s : Added(itable, iget(iunlock(itable, x, s), y), y)
    BY <2>8, IgetAdds, KeptAdded DEF Kept
  <2>10. CASE t.path = << >>
    <3>1. itable' = itable /\ ((Do(p, Give(r, t.ip, << >>)) /\ t.op = "namei") \/ Do(p, <<Put(t.ip)>> \o Failed(r)))
      BY <2>10 DEF namex, t, r
    <3>. QED
      BY <2>2, <2>5, <2>6, <2>8, <3>1, <1>4
  <2>11. CASE t.path # << >>
    <3>. DEFINE s == S(t.ip)
                x == Entries(s)[dirlookup(s, Head(t.path)) + 1][2]
    <3>1. \/ itable' = iunlock(itable, t.ip, s) /\ t.op = "nameiparent" /\ Do(p, Give(r, t.ip, t.path))
          \/ /\ itable' = iget(iunlock(itable, t.ip, s), x) /\ dirlookup(s, Head(t.path)) # -1
             /\ Do(p, <<Put(t.ip), T(t.op, x, 0, Tail(t.path))>> \o r)
          \/ itable' = iunlock(itable, t.ip, s) /\ Do(p, <<Put(t.ip)>> \o Failed(r))
      BY <2>11 DEF namex, t, r
    <3>2. t.op = "nameiparent" => Gained(Give(r, t.ip, t.path), t.ip, r)
      BY <2>2, <2>11, <1>4
    <3>3. dirlookup(s, Head(t.path)) # -1 => x # 0
      BY <1>1
    <3>. HIDE DEF s, x
    <3>. QED
      BY <2>5, <2>6, <2>7, <2>8, <2>9, <3>1, <3>2, <3>3
  <2>. QED
    BY <2>10, <2>11
<1>10. ASSUME NEW ts, NEW st, st # 0, NEW path, NEW a, a = [Head(ts) EXCEPT !.ip = st, !.path = path], PathList(ts)
       PROVE  Starts(a, Tail(ts), st)
  <2>. USE <1>10
  <2>1. ASSUME NEW x, NEW y, ts = <<Task(x), Task(y)>>,
               (x = "namei" /\ y \in {"link_ip", "chdir", "open"}) \/ (x = "nameiparent" /\ y = "unlink_dp")
        PROVE  Starts(a, Tail(ts), st)
    <3>1. PICK b : b = Task(y) /\ Tail(ts) = <<b>>
      BY <2>1
    <3>2. Head(ts) = Task(x)
      BY <2>1
    <3>3. Looks(a) /\ a.op = x /\ a.ip = st
      BY <2>1, <3>2 DEF Task, T, Looks, IsTask
    <3>4. IsTask(b) /\ b.op = y /\ Idle(b) /\ \A i \in Inums : One(b, i) = 0
      BY <3>1 DEF Task, T, IsTask, Idle, One, Eq, Inums
    <3>5. Pair(a, b)
      BY <2>1, <3>3, <3>4 DEF Pair, Looked, Parent, Idle
    <3>. QED
      BY <3>1, <3>3, <3>4, <3>5, Ptrs1, Zenon DEF Lookup, Starts
  <2>2. ASSUME NEW z \in {"iunlockput", "open_locked"}, ts = <<Task("nameiparent"), Task("create_dp"), Task(z)>>
        PROVE  Starts(a, Tail(ts), st)
    <3>1. PICK b, c : b = Task("create_dp") /\ c = Task(z) /\ Tail(ts) = <<b, c>>
      BY <2>2
    <3>2. Head(ts) = Task("nameiparent")
      BY <2>2
    <3>3. Looks(a) /\ a.op = "nameiparent" /\ a.ip = st
      BY <3>2 DEF Task, T, Looks, IsTask
    <3>4. IsTask(b) /\ b.op = "create_dp" /\ Idle(b) /\ Created(c)
      BY <2>2, <3>1 DEF Task, T, IsTask, Idle, Created
    <3>5. Triple(a, b, c)
      BY <3>3, <3>4 DEF Triple
    <3>6. \A i \in Inums : Ptrs(<<b, c>>, i) = 0
      BY <3>4, Ptrs2 DEF Created, Idle, One, Eq, Inums
    <3>. QED
      BY <3>1, <3>3, <3>5, <3>6, Zenon DEF Lookup, Starts
  <2>. QED
    BY <2>1, <2>2 DEF PathList
<1>11. ASSUME RefsInv, NEW p \in Procs, NEW c, path_call(p, c) PROVE RefsInv'
  <2>. USE <1>11
  <2>. USE Zenon
  <2>1. IsTable(itable) /\ Calls(p, c) /\ UNCHANGED files /\ itable' = Started(itable, p, c.path)
    BY DEF path_call, RefsInv, Refs
  <2>2. PICK ts : /\ Enter(p, c, <<[Head(ts) EXCEPT !.ip = Start(p, c.path), !.path = c.path.names]>> \o Tail(ts))
                  /\ PathList(ts)
    <3>1. PICK ts : /\ Enter(p, c, <<[Head(ts) EXCEPT !.ip = Start(p, c.path), !.path = c.path.names]>> \o Tail(ts))
                    /\ ts \in {sys_link, sys_unlink, sys_mkdir, sys_mknod, sys_chdir, sys_open(c.mode)}
      BY DEF path_call
    <3>2. PathList(sys_link) /\ PathList(sys_unlink) /\ PathList(sys_chdir)
      BY DEF sys_link, sys_unlink, sys_chdir, PathList
    <3>3. PathList(sys_mkdir) /\ PathList(sys_mknod)
      BY DEF sys_mkdir, sys_mknod, PathList
    <3>4. PathList(sys_open(c.mode))
      BY DEF sys_open, PathList
    <3>. QED
      BY <3>1, <3>2, <3>3, <3>4
  <2>3. PICK st, a, r : /\ st = Start(p, c.path) /\ r = Tail(ts) /\ a = [Head(ts) EXCEPT !.ip = st, !.path = c.path.names]
                        /\ Enter(p, c, <<a>> \o r)
    BY <2>2
  <2>4. st # 0 /\ Added(itable, itable', st)
    BY <2>1, <2>3, IgetAdds, IdupAdds, SMT DEF Start, Started, Calls, ROOTINO
  <2>5. Lookup(a, r) /\ a.ip = st /\ \A i \in Inums : Ptrs(r, i) = 0
    <3>1. Starts(a, Tail(ts), st)
      BY <2>2, <2>3, <2>4, <1>10
    <3>. QED
      BY <2>3, <3>1 DEF Starts
  <2>6. Gained(<<a>> \o r, st, r)
    BY <2>5, <1>3 DEF Lookup
  <2>7. \A i \in Inums : Dir(cwd[p], <<a>> \o r, i) = Eq(cwd[p], i)
    BY <2>6, SMT DEF Gained, Plain, Dir, Eq
  <2>8. ASSUME NEW i \in Inums
        PROVE  itable'[i].ref + Eq(cwd[p], i) = itable[i].ref + Dir(cwd[p], <<a>> \o r, i) + Ptrs(<<a>> \o r, i)
    <3>1. PICK x, d, e : /\ x = itable[i].ref /\ d = Eq(cwd[p], i) /\ e = Eq(st, i)
                         /\ x \in Nat /\ d \in Nat /\ e \in Nat
      BY <2>1, EqNat DEF IsTable, IsInode
    <3>2. itable'[i].ref = x + e /\ Dir(cwd[p], <<a>> \o r, i) = d /\ Ptrs(<<a>> \o r, i) = e + 0
      BY <2>4, <2>5, <2>6, <2>7, <3>1 DEF Gained, Added
    <3>3. (x + e) + d = x + d + (e + 0)
      BY <3>1, SMT
    <3>. QED
      BY <3>1, <3>2, <3>3
  <2>. QED
    BY <2>1, <2>3, <2>4, <2>6, <2>8, Called DEF Gained, Plain, Shape, Added
<1>. QED
  BY <1>9, <1>11, Zenon

-----------------------------------------------------------------------------
(***************************************************************************)
(* iput(), link() and unlink().                                            *)
(***************************************************************************)
\* iput().
LEMMA PutSteps ==
    \A p \in Procs : RefsInv /\ Ready(p) /\ (iput_drop(p) \/ iput_free(p)) => RefsInv'
<1>1. ASSUME RefsInv, NEW p \in Procs, Ready(p), Top(p).op \in {"iput", "iput_last"}
      PROVE  IsPut(Top(p)) /\ Call(Rest(p)) /\ Pushed(Top(p), Rest(p), todo[p])
  <2>. USE <1>1
  <2>. DEFINE a == Top(p)
  <2>1. (\A b : ~Pair(a, b)) /\ (\A b, c : ~Triple(a, b, c))
    BY DEF Pair, Triple, Looks, Creating
  <2>. QED
    BY <2>1, TopFirst, Zenon DEF FirstTask, Rest
\* The pointers of one process are among those that are counted.
<1>2. ASSUME RefsInv, NEW p \in Procs, NEW i \in Inums
      PROVE  itable[i].ref \in Nat /\ Ptrs(todo[p], i) \in Nat /\ itable[i].ref >= Ptrs(todo[p], i)
  <2>. USE <1>2
  <2>. USE Zenon
  <2>. DEFINE t2 == [todo EXCEPT ![p] = << >>]
  <2>1. IsFun(todo) /\ (\A q \in Procs : Small(todo[q])) /\ Small(<< >>) /\ IsTable(itable)
    BY ShapeSmall, List0 DEF RefsInv, Refs
  <2>2. Replaced(todo, t2, p, << >>) /\ Replaced(t2, t2, p, << >>) /\ \A q \in Procs : Small(t2[q])
    BY <2>1, SMT DEF IsFun, Replaced
  <2>. HIDE DEF t2
  <2>3. PtrsBy(todo, t2, todo[p], << >>, i)
    BY <2>1, <2>2, TasksChange
  <2>4. Cardinality(IpOf(t2, i)) \in Nat /\ Cardinality(DpOf(t2, i)) \in Nat
    BY <2>1, <2>2, TasksChange DEF PtrsBy
  <2>5. /\ DOMAIN ftable = 1 .. NFILE
        /\ itable[i].ref = Cardinality(CwdOf(cwd, todo, i)) + Cardinality(FileOf(ftable, i))
                           + Cardinality(IpOf(todo, i)) + Cardinality(DpOf(todo, i))
    BY DEF RefsInv, Refs, Counted, IsFiles
  <2>6. Cardinality(CwdOf(cwd, todo, i)) \in Nat /\ Cardinality(FileOf(ftable, i)) \in Nat
    BY <2>5, FiniteSets
  <2>7. Ptrs(todo[p], i) \in Nat /\ Ptrs(<< >>, i) = 0
    BY <2>1, PtrsNat, Ptrs0
  <2>8. PICK c, f, x, y, u, v, m : /\ c = Cardinality(CwdOf(cwd, todo, i)) /\ f = Cardinality(FileOf(ftable, i))
                                   /\ x = Cardinality(IpOf(todo, i)) /\ y = Cardinality(DpOf(todo, i))
                                   /\ u = Cardinality(IpOf(t2, i)) /\ v = Cardinality(DpOf(t2, i)) /\ m = Ptrs(todo[p], i)
    OBVIOUS
  <2>9. c \in Nat /\ f \in Nat /\ x \in Nat /\ y \in Nat /\ u \in Nat /\ v \in Nat /\ m \in Nat
    BY <2>3, <2>4, <2>6, <2>7, <2>8 DEF PtrsBy
  <2>10. u + v = (x + y) - m + 0 /\ itable[i].ref = c + f + x + y
    BY <2>3, <2>5, <2>7, <2>8 DEF PtrsBy, PtrsOf
  <2>11. itable[i].ref \in Nat /\ itable[i].ref >= m
    BY <2>9, <2>10, SMT
  <2>. QED
    BY <2>8, <2>9, <2>11
<1>3. ASSUME RefsInv, NEW p \in Procs, Ready(p), iput_drop(p) PROVE RefsInv'
  <2>. USE <1>3
  <2>. DEFINE t == Top(p)
              r == Rest(p)
  <2>1. t.op \in {"iput", "iput_last"} /\ UNCHANGED files /\ Do(p, r)
    BY DEF iput_drop
  <2>2. IsPut(t) /\ Call(r) /\ Pushed(t, r, todo[p]) /\ IsTable(itable) /\ todo[p] # << >>
    BY <2>1, <1>1, Typed, Zenon
  <2>3. /\ \A i \in Inums : One(t, i) = Eq(t.ip, i) /\ Ptrs(r, i) \in Nat
        /\ \A i \in Inums : Ptrs(todo[p], i) = Eq(t.ip, i) + Ptrs(r, i)
    <3>1. \A i \in Inums : One(t, i) = Eq(t.ip, i)
      BY <2>2 DEF IsPut, One, Eq, Inums
    <3>2. \A i \in Inums : Ptrs(r, i) \in Nat
      BY <2>2, CallShort, PtrsNat, Zenon
    <3>. QED
      BY <2>2, <3>1, <3>2, Zenon DEF Pushed
  <2>4. \A i \in Inums : itable[i].ref \in Nat /\ itable[i].ref >= Ptrs(todo[p], i)
    BY <1>2, Zenon
  <2>5. itable' = [itable EXCEPT ![t.ip] = IF itable[t.ip].ref = 1 THEN NoInode
                                             ELSE [itable[t.ip] EXCEPT !.ref = itable[t.ip].ref - 1]]
    BY DEF iput_drop
  <2>6. IsInode(NoInode) /\ NoInode.ref = 0
    BY DEF IsInode, NoInode
  <2>. HIDE DEF t, r
  <2>7. IsTable(itable') /\ \A i \in Inums : itable'[i].ref = itable[i].ref - Eq(t.ip, i)
    BY <2>2, <2>3, <2>4, <2>5, <2>6 DEF IsTable, IsInode, Eq
  <2>8. Balanced(itable, itable', todo[p], r)
    BY <2>3, <2>4, <2>7 DEF Balanced, Eq
  <2>9. (Leaving(r) <=> Leaving(todo[p])) /\ (Exiting(r) => Exiting(todo[p]))
    BY <2>2 DEF Pushed, IsPut
  <2>. QED
    BY <2>1, <2>2, <2>7, <2>8, <2>9, TaskStep, Zenon DEF Shape, Stays, files
<1>4. ASSUME RefsInv, NEW p \in Procs, Ready(p), iput_free(p) PROVE RefsInv'
  <2>. USE <1>4
  <2>. DEFINE t == Top(p)
              r == Rest(p)
  <2>1. PICK a : a = T("iput_last", t.ip, 0, << >>)
    BY Zenon
  <2>2. t.op \in {"iput", "iput_last"} /\ UNCHANGED files /\ Do(p, <<a>> \o r) /\ itable' = Invalidated(itable, t.ip)
    BY <2>1 DEF iput_free
  <2>3. IsPut(t) /\ Call(r) /\ Pushed(t, r, todo[p]) /\ IsTable(itable) /\ todo[p] # << >> /\ Shape(todo[p])
    BY <2>2, <1>1, Typed, Zenon
  <2>4. IsPut(a) /\ \A i \in Inums : One(a, i) = One(t, i)
    <3>2. IsT(a, "iput_last", t.ip, 0)
      BY <2>1, TIs, Zenon
    <3>1. IsPut(a) /\ a.ip = t.ip /\ a.dp = 0 /\ t.dp = 0
      BY <2>3, <3>2 DEF IsT, IsPut
    <3>. QED
      BY <3>1, OneIp, Zenon
  <2>5. Kept(itable, itable')
    BY <2>2, <2>3 DEF Kept, Invalidated, IsTable, IsInode
  <2>6. /\ Shape(<<a>> \o r) /\ (Leaving(<<a>> \o r) <=> Leaving(r)) /\ (Exiting(<<a>> \o r) <=> Exiting(r))
        /\ \A i : Ptrs(<<a>> \o r, i) = One(a, i) + Ptrs(r, i)
    BY <2>3, <2>4, ListPut
  <2>7. (Leaving(r) <=> Leaving(todo[p])) /\ (Exiting(r) => Exiting(todo[p]))
    BY <2>3 DEF Pushed, IsPut
  <2>8. \A i \in Inums : Ptrs(<<a>> \o r, i) = Ptrs(todo[p], i)
    BY <2>3, <2>4, <2>6, Zenon DEF Pushed
  <2>9. IsTable(itable') /\ Balanced(itable, itable', todo[p], <<a>> \o r)
    BY <2>3, <2>5, <2>8, BalancedKept, Zenon
  <2>. QED
    BY <2>2, <2>3, <2>6, <2>7, <2>9, TaskStep, Zenon DEF Stays, files
<1>. QED
  BY <1>3, <1>4, Zenon

\* iunlockput(), link() and unlink().
LEMMA LinkSteps ==
    \A p \in Procs :
        /\ RefsInv /\ Ready(p)
        /\ iunlockput(p) \/ link_ip(p) \/ link_dp(p) \/ link_bad(p) \/ unlink_dp(p) \/ unlink_ip(p) \/ unlink_last(p)
        => RefsInv'
<1>1. ASSUME NEW it, IsTable(it), NEW x, NEW s, NEW l, NEW y, NEW t
      PROVE  Kept(it, iunlock(ilock(it, x, s, l), y, t))
  <2>. USE <1>1
  <2>1. Kept(it, ilock(it, x, s, l))
    BY IlockKeeps
  <2>2. IsTable(ilock(it, x, s, l))
    BY <2>1 DEF Kept
  <2>3. Kept(ilock(it, x, s, l), iunlock(ilock(it, x, s, l), y, t))
    BY <2>2, IunlockKeeps
  <2>. QED
    BY <2>1, <2>3, KeptKept
<1>2. ASSUME RefsInv, NEW p \in Procs, Ready(p), link_bad(p) PROVE RefsInv'
  <2>. USE <1>2
  <2>1. Top(p).op = "link_bad" /\ Do(p, <<Put(Top(p).ip)>>) /\ UNCHANGED files /\ Kept(itable, itable')
    BY Typed, IunlockKeeps, Zenon DEF link_bad
  <2>2. \A i \in Inums : One(Top(p), i) = Eq(Top(p).ip, i)
    <3>1. Top(p).dp = 0
      BY <2>1, OneTop DEF Final, OneOps
    <3>. QED
      BY <3>1, OneIp, Zenon
  <2>. QED
    BY <2>1, <2>2, PutOne, PlainKept DEF OneOps, Quiet
<1>3. ASSUME RefsInv, NEW p \in Procs, Ready(p), unlink_last(p) PROVE RefsInv'
  <2>. USE <1>3
  <2>1. Top(p).op = "unlink_last" /\ Do(p, <<Put(Top(p).ip)>>) /\ UNCHANGED files /\ Kept(itable, itable')
    BY Typed, IunlockKeeps, Zenon DEF unlink_last
  <2>2. \A i \in Inums : One(Top(p), i) = Eq(Top(p).ip, i)
    <3>1. Top(p).dp = 0
      BY <2>1, OneTop DEF Final, OneOps
    <3>. QED
      BY <3>1, OneIp, Zenon
  <2>. QED
    BY <2>1, <2>2, PutOne, PlainKept DEF OneOps, Quiet
<1>4. ASSUME RefsInv, NEW p \in Procs, Ready(p), iunlockput(p) PROVE RefsInv'
  <2>. USE <1>4
  <2>1. Top(p).op = "iunlockput"
    BY Zenon DEF iunlockput
  <2>2. todo[p] = <<Top(p)>> /\ Final(Top(p))
    BY <2>1, OneTop DEF OneOps
  <2>3. <<Put(Top(p).ip)>> \o Rest(p) = <<Put(Top(p).ip)>>
    BY <2>2 DEF Rest
  <2>4. Do(p, <<Put(Top(p).ip)>>) /\ UNCHANGED files
    BY <2>3, Zenon DEF iunlockput
  <2>5. Kept(itable, itable')
    BY Typed DEF iunlockput, Kept, IsTable, IsInode
  <2>6. \A i \in Inums : One(Top(p), i) = Eq(Top(p).ip, i)
    <3>1. Top(p).dp = 0
      BY <2>1, <2>2 DEF Final
    <3>. QED
      BY <3>1, OneIp, Zenon
  <2>. QED
    BY <2>1, <2>4, <2>5, <2>6, PutOne, PlainKept DEF OneOps, Quiet
<1>5. ASSUME RefsInv, NEW p \in Procs, Ready(p), unlink_dp(p) PROVE RefsInv'
  <2>. USE <1>5
  <2>. DEFINE t == Top(p)
  <2>1. t.op = "unlink_dp" /\ UNCHANGED files
    BY DEF unlink_dp
  <2>2. Final(t) /\ t.ip = 0 /\ IsTask(t)
    BY <2>1, OneTop DEF OneOps, Final
  <2>3. CASE Do(p, <<Put(t.dp)>>) /\ itable' = iunlock(itable, t.dp, S(t.dp))
    <3>1. \A i \in Inums : One(t, i) = Eq(t.dp, i)
      BY <2>2 DEF One, Eq, Inums
    <3>2. Kept(itable, itable')
      BY <2>3, Typed, IunlockKeeps, Zenon
    <3>. QED
      BY <2>1, <2>3, <3>1, <3>2, PutOne, PlainKept DEF OneOps, Quiet
  <2>4. ASSUME NEW x, Do(p, <<[t EXCEPT !.op = "unlink_ip", !.ip = x]>>),
               itable' = iget(ilock(itable, t.dp, S(t.dp), p), x)
        PROVE  RefsInv'
    <3>1. PICK u : u = [t EXCEPT !.op = "unlink_ip", !.ip = x]
      OBVIOUS
    <3>2. Final(u) /\ Quiet(u) /\ \A i \in Inums : One(u, i) = One(t, i) + Eq(x, i)
      BY <2>2, <3>1 DEF IsTask, Final, Quiet, One, Eq, Inums
    <3>3. Added(itable, itable', x)
      BY <2>4, Typed, IlockKeeps, IgetAdds, KeptAdded DEF Kept
    <3>4. Shape(<<u>>) /\ Plain(<<u>>) /\ \A i \in Inums : Ptrs(<<u>>, i) = One(t, i) + Eq(x, i)
      BY <3>2, List1
    <3>. QED
      BY <2>1, <2>4, <3>1, <3>3, <3>4, PlainAdded DEF OneOps, Quiet
  <2>. QED
    BY <2>3, <2>4, Zenon DEF unlink_dp
<1>6. ASSUME RefsInv, NEW p \in Procs, Ready(p), unlink_ip(p) PROVE RefsInv'
  <2>. USE <1>6
  <2>. DEFINE t == Top(p)
  <2>1. t.op = "unlink_ip" /\ UNCHANGED files
    BY Zenon DEF unlink_ip
  <2>4. t.op \in OneOps \cup TwoOps /\ Quiet(t)
    BY <2>1 DEF OneOps, Quiet
  <2>2. CASE /\ Do(p, <<Put(t.ip), T("iunlockput", t.dp, 0, << >>)>>)
             /\ itable' = iunlock(itable, t.ip, S(t.ip))
    <3>1. PICK u : u = T("iunlockput", t.dp, 0, << >>)
      OBVIOUS
    <3>2. Final(u) /\ Quiet(u) /\ Has(u, t.dp)
      BY <3>1, OneT DEF Final, Quiet, Has, Eq, Inums
    <3>3. Spared(<<Put(t.ip), u>>, t)
      BY <3>2, PutIp, Zenon
    <3>4. Kept(itable, itable')
      BY <2>2, Typed, IunlockKeeps, Zenon
    <3>. QED
      BY <2>1, <2>2, <2>4, <3>1, <3>3, <3>4, PlainKept, Zenon DEF Spared
  <2>3. ASSUME NEW s, Do(p, <<Put(t.dp), T("unlink_last", t.ip, 0, << >>)>>),
               itable' = iunlock(ilock(itable, t.ip, S(t.ip), p), t.dp, s)
        PROVE  RefsInv'
    <3>1. PICK u : u = T("unlink_last", t.ip, 0, << >>)
      OBVIOUS
    <3>2. Final(u) /\ Quiet(u) /\ Has(u, t.ip)
      BY <3>1, OneT DEF Final, Quiet, Has, Eq, Inums
    <3>3. Spared(<<Put(t.dp), u>>, t)
      BY <3>2, PutDp, Zenon
    <3>4. Kept(itable, itable')
      BY <2>3, Typed, <1>1, Zenon
    <3>. QED
      BY <2>1, <2>3, <2>4, <3>1, <3>3, <3>4, PlainKept, Zenon DEF Spared
  <2>. QED
    BY <2>2, <2>3 DEF unlink_ip
<1>7. ASSUME RefsInv, NEW p \in Procs, Ready(p), link_ip(p) PROVE RefsInv'
  <2>. USE <1>7
  <2>. USE Zenon
  <2>. DEFINE i0  == Top(p).ip
              new == call[p].new
  <2>1. Top(p).op = "link_ip" /\ UNCHANGED files
    BY DEF link_ip
  <2>5. Top(p).op \in OneOps \cup TwoOps /\ Quiet(Top(p))
    BY <2>1, SMT DEF OneOps, Quiet
  <2>2. \A i \in Inums : One(Top(p), i) = Eq(i0, i)
    <3>1. Top(p).dp = 0
      BY <2>1, OneTop, SMT DEF Final, OneOps
    <3>. QED
      BY <3>1, OneIp
  <2>3. CASE Do(p, <<Put(i0)>>) /\ itable' = iunlock(itable, i0, S(i0))
    <3>1. Kept(itable, itable')
      BY <2>3, Typed, IunlockKeeps
    <3>. QED
      BY <2>1, <2>2, <2>3, <3>1, PutOne, PlainKept, SMT DEF OneOps, Quiet
  <2>4. ASSUME NEW s, itable' = Started(iunlock(itable, i0, s), p, new),
               Do(p, <<T("nameiparent", Start(p, new), 0, new.names), T("link_dp", i0, 0, << >>)>>)
        PROVE  RefsInv'
    <3>1. PICK a, b : a = T("nameiparent", Start(p, new), 0, new.names) /\ b = T("link_dp", i0, 0, << >>)
      OBVIOUS
    <3>2. cwd[p] # 0
      BY Typed DEF RefsInv, Refs
    <3>3. Start(p, new) # 0
      BY <3>2, SMT DEF Start, ROOTINO
    <3>4. Pair(a, b) /\ a.ip = Start(p, new) /\ a.dp = 0 /\ b.ip = i0 /\ b.dp = 0
      <4>1. IsT(a, "nameiparent", Start(p, new), 0) /\ IsT(b, "link_dp", i0, 0)
        BY <3>1, TIs
      <4>. QED
        BY <3>3, <4>1 DEF IsT, Pair, Looks, Parent
    <3>5. Shape(<<a, b>>) /\ Plain(<<a, b>>) /\ \A i : Ptrs(<<a, b>>, i) = One(a, i) + One(b, i)
      BY <3>4, List2
    <3>6. \A i \in Inums : Ptrs(<<a, b>>, i) = One(Top(p), i) + Eq(Start(p, new), i)
      <4>1. \A i \in Inums : Ptrs(<<a, b>>, i) = Eq(Start(p, new), i) + Eq(i0, i)
        BY <3>4, <3>5, OneIp
      <4>. QED
        BY <2>2, <4>1, EqNat, SMT
    <3>7. Added(itable, itable', Start(p, new))
      <4>1. Kept(itable, iunlock(itable, i0, s))
        BY Typed, IunlockKeeps
      <4>2. Added(iunlock(itable, i0, s), itable', Start(p, new))
        BY <2>4, <4>1, IgetAdds, IdupAdds DEF Started, Start, Kept
      <4>. QED
        BY <4>1, <4>2, KeptAdded
    <3>8. PICK ts, x : ts = <<a, b>> /\ x = Start(p, new)
      OBVIOUS
    <3>9. /\ Shape(ts) /\ Plain(ts) /\ Do(p, ts) /\ Added(itable, itable', x)
          /\ \A i \in Inums : Ptrs(ts, i) = One(Top(p), i) + Eq(x, i)
      BY <2>4, <3>1, <3>5, <3>6, <3>7, <3>8
    <3>. QED
      BY <2>1, <2>5, <3>9, PlainAdded
  <2>. QED
    BY <2>3, <2>4 DEF link_ip
<1>8. ASSUME RefsInv, NEW p \in Procs, Ready(p), link_dp(p) PROVE RefsInv'
  <2>. USE <1>8
  <2>. DEFINE t == Top(p)
  <2>1. t.op = "link_dp" /\ UNCHANGED files
    BY Zenon DEF link_dp
  <2>7. t.op \in OneOps \cup TwoOps /\ Quiet(t)
    BY <2>1 DEF OneOps, Quiet
  <2>2. PICK s : /\ itable' = iunlock(itable, t.dp, s)
                 /\ Do(p, <<Put(t.dp), IF Written(s) THEN Put(t.ip) ELSE T("link_bad", t.ip, 0, << >>)>>)
    BY Zenon DEF link_dp
  <2>3. PICK u : u = IF Written(s) THEN Put(t.ip) ELSE T("link_bad", t.ip, 0, << >>)
    OBVIOUS
  <2>4. Final(u) /\ Quiet(u) /\ Has(u, t.ip)
    <3>1. CASE Written(s)
      BY <2>3, <3>1, OnePut DEF Has
    <3>2. CASE ~Written(s)
      <4>1. u = T("link_bad", t.ip, 0, << >>)
        BY <2>3, <3>2
      <4>. QED
        BY <4>1, OneT DEF Final, Quiet, Has, Eq, Inums
    <3>. QED
      BY <3>1, <3>2
  <2>5. Spared(<<Put(t.dp), u>>, t)
    BY <2>4, PutDp, Zenon
  <2>6. Kept(itable, itable')
    BY <2>2, Typed, IunlockKeeps
  <2>. QED
    BY <2>1, <2>2, <2>3, <2>5, <2>6, <2>7, PlainKept, Zenon DEF Spared
<1>. QED
  BY <1>2, <1>3, <1>4, <1>5, <1>6, <1>7, <1>8, Zenon

-----------------------------------------------------------------------------
(***************************************************************************)
(* create().                                                               *)
(***************************************************************************)
\* What create() returns goes to the task that waits for it.
Given(b, x, c) ==
    /\ Give(<<b>>, x, << >>) = <<c>> /\ IsTask(c) /\ c.op = b.op /\ c.ip = x /\ c.dp = 0
    /\ Final(c) /\ Quiet(c) /\ \A i \in Inums : One(c, i) = Eq(x, i)

\* create().
LEMMA CreateSteps ==
    \A p \in Procs :
        /\ RefsInv /\ Ready(p)
        /\ create_dp(p) \/ create_old(p) \/ create_new(p) \/ create_dots(p) \/ create_enter(p)
        => RefsInv'
\* What becomes of the list after create()'s parts, when b is what follows.
<1>1. ASSUME NEW u, Creating(u), NEW b, Created(b)
      PROVE  /\ <<u>> \o <<b>> = <<u, b>> /\ Shape(<<u, b>>) /\ Plain(<<u, b>>)
             /\ \A i \in Inums : Ptrs(<<u, b>>, i) = One(u, i)
  <2>. USE <1>1
  <2>1. Pair(u, b) /\ \A i \in Inums : One(b, i) = 0 /\ One(u, i) \in Nat
    BY DEF Pair, Created, Idle, One, Eq, Inums
  <2>2. Shape(<<u, b>>) /\ Plain(<<u, b>>) /\ \A i : Ptrs(<<u, b>>, i) = One(u, i) + One(b, i)
    BY <2>1, List2
  <2>3. \A i \in Inums : Ptrs(<<u, b>>, i) = One(u, i)
    BY <2>1, <2>2
  <2>. QED
    BY <2>2, <2>3, Push1, Zenon
<1>2. ASSUME NEW x, NEW u, Creating(u), NEW b, Created(b)
      PROVE  /\ Shape(<<Put(x), u, b>>) /\ Plain(<<Put(x), u, b>>)
             /\ \A i \in Inums : Ptrs(<<Put(x), u, b>>, i) = Eq(x, i) + One(u, i)
  <2>. USE <1>2
  <2>1. Pair(u, b) /\ \A i \in Inums : One(b, i) = 0 /\ One(u, i) \in Nat
    BY DEF Pair, Created, Idle, One, Eq, Inums
  <2>2. PICK a : a = Put(x)
    OBVIOUS
  <2>3. IsPut(a) /\ \A i \in Inums : One(a, i) = Eq(x, i)
    BY <2>2, OnePut
  <2>4. \A i : Ptrs(<<a, u, b>>, i) = One(a, i) + One(u, i) + One(b, i)
    BY Ptrs3
  <2>5. \A i \in Inums : Ptrs(<<a, u, b>>, i) = Eq(x, i) + One(u, i)
    BY <2>1, <2>3, <2>4 DEF Eq
  <2>6. Shape(<<a, u, b>>) /\ Plain(<<a, u, b>>)
    BY <2>1, <2>3, List3
  <2>. QED
    BY <2>2, <2>5, <2>6
<1>3. ASSUME RefsInv, NEW p \in Procs, Ready(p), create_new(p) PROVE RefsInv'
  <2>. USE <1>3
  <2>. USE Zenon
  <2>. DEFINE t == Top(p)
  <2>1. t.op = "create_new" /\ UNCHANGED files
    BY DEF create_new
  <2>2. PICK b : todo[p] = <<t, b>> /\ Rest(p) = <<b>> /\ Creating(t) /\ Created(b)
    BY <2>1, TwoTop DEF TwoOps
  <2>3. PICK u : u = [t EXCEPT !.op = IF Type(call[p]) = "dir" THEN "create_dot" ELSE "create_enter"]
    OBVIOUS
  <2>4. Creating(u) /\ \A i \in Inums : One(u, i) = One(t, i)
    BY <2>2, <2>3, SMT DEF Creating, IsTask, One
  <2>5. Do(p, <<u, b>>)
    BY <2>2, <2>3, <2>4, <1>1 DEF create_new
  <2>6. Kept(itable, itable')
    BY Typed, IlockKeeps DEF create_new
  <2>7. t.op \in OneOps \cup TwoOps /\ Quiet(t)
    BY <2>1, SMT DEF TwoOps, Quiet
  <2>8. Shape(<<u, b>>) /\ Plain(<<u, b>>) /\ \A i \in Inums : Ptrs(<<u, b>>, i) = One(t, i)
    BY <2>2, <2>4, <1>1
  <2>. QED
    BY <2>1, <2>5, <2>6, <2>7, <2>8, PlainKept
\* fail: both inodes are put.
<1>4. ASSUME RefsInv, NEW p \in Procs, Ready(p), Top(p).op \in TwoOps, UNCHANGED files,
             NEW it, Kept(itable, it), NEW s, create_fail(p, it, s)
      PROVE  RefsInv'
  <2>. USE <1>4
  <2>. DEFINE t == Top(p)
  <2>1. PICK u : u = T("iunlockput", t.dp, 0, << >>)
    OBVIOUS
  <2>2. Final(u) /\ Quiet(u) /\ \A i \in Inums : One(u, i) = Eq(t.dp, i)
    <3>1. IsT(u, "iunlockput", t.dp, 0)
      BY <2>1, TIs, Zenon
    <3>2. Final(u) /\ Quiet(u) /\ u.dp = 0 /\ u.ip = t.dp
      BY <3>1 DEF IsT, Final, Quiet
    <3>. QED
      BY <3>2, OneIp, Zenon
  <2>3. Shape(<<Put(t.ip), u>>) /\ Plain(<<Put(t.ip), u>>) /\ \A i \in Inums : Ptrs(<<Put(t.ip), u>>, i) = One(t, i)
    BY <2>2, PutIp, Zenon DEF Has, Spared
  <2>4. Do(p, <<Put(t.ip), u>>) /\ itable' = iunlock(it, t.ip, s)
    BY <2>1 DEF create_fail
  <2>5. Kept(itable, itable')
    <3>1. IsTable(it)
      BY Zenon DEF Kept
    <3>2. Kept(it, itable')
      BY <2>4, <3>1, IunlockKeeps
    <3>. QED
      BY <3>2, KeptKept
  <2>6. t.op \in OneOps \cup TwoOps /\ Quiet(t)
    BY DEF TwoOps, Quiet
  <2>. QED
    BY <2>3, <2>4, <2>5, <2>6, PlainKept
<1>5. ASSUME RefsInv, NEW p \in Procs, Ready(p), create_dots(p) PROVE RefsInv'
  <2>. USE <1>5
  <2>. USE Zenon
  <2>. DEFINE t   == Top(p)
              dot == t.op = "create_dot"
  <2>1. t.op \in {"create_dot", "create_dotdot"} /\ UNCHANGED files
    BY DEF create_dots
  <2>2. t.op \in TwoOps /\ t.op \in OneOps \cup TwoOps /\ Quiet(t)
    BY <2>1, SMT DEF TwoOps, Quiet
  <2>3. PICK b : todo[p] = <<t, b>> /\ Rest(p) = <<b>> /\ Creating(t) /\ Created(b)
    BY <2>2, TwoTop
  <2>4. ASSUME NEW s, itable' = ilock(itable, t.ip, s, p),
               Do(p, <<[t EXCEPT !.op = IF dot THEN "create_dotdot" ELSE "create_enter"]>> \o Rest(p))
        PROVE  RefsInv'
    <3>1. PICK u : u = [t EXCEPT !.op = IF dot THEN "create_dotdot" ELSE "create_enter"]
      OBVIOUS
    <3>2. Creating(u) /\ \A i \in Inums : One(u, i) = One(t, i)
      BY <2>3, <3>1, SMT DEF Creating, IsTask, One
    <3>3. Do(p, <<u, b>>)
      BY <2>3, <2>4, <3>1, <3>2, <1>1
    <3>4. Kept(itable, itable')
      BY <2>4, Typed, IlockKeeps
    <3>5. Shape(<<u, b>>) /\ Plain(<<u, b>>) /\ \A i \in Inums : Ptrs(<<u, b>>, i) = One(t, i)
      BY <2>3, <3>2, <1>1
    <3>. QED
      BY <2>1, <2>2, <3>3, <3>4, <3>5, PlainKept
  <2>5. Kept(itable, itable)
    BY Typed DEF Kept
  <2>6. ASSUME NEW s, create_fail(p, itable, s) PROVE RefsInv'
    BY <2>1, <2>2, <2>5, <2>6, <1>4
  <2>. QED
    BY <2>4, <2>6 DEF create_dots
<1>6. ASSUME NEW b, Created(b), NEW x PROVE \E c : Given(b, x, c)
  <2>. USE <1>6
  <2>1. PICK c : c = [b EXCEPT !.ip = x]
    BY Zenon
  <2>2. Give(<<b>>, x, << >>) = <<c>>
    BY <2>1 DEF Give
  <2>3. IsTask(c) /\ c.op = b.op /\ c.ip = x /\ c.dp = 0
    BY <2>1 DEF Created, IsTask, Idle
  <2>4. Final(c) /\ Quiet(c) /\ \A i \in Inums : One(c, i) = Eq(x, i)
    BY <2>3 DEF Created, Final, Quiet, One, Eq, Inums
  <2>. QED
    BY <2>2, <2>3, <2>4 DEF Given
<1>7. ASSUME RefsInv, NEW p \in Procs, Ready(p), create_enter(p) PROVE RefsInv'
  <2>. USE <1>7
  <2>. USE Zenon
  <2>. DEFINE t == Top(p)
  <2>1. t.op = "create_enter" /\ UNCHANGED files
    BY DEF create_enter
  <2>2. t.op \in TwoOps /\ t.op \in OneOps \cup TwoOps /\ Quiet(t)
    BY <2>1, SMT DEF TwoOps, Quiet
  <2>3. PICK b : todo[p] = <<t, b>> /\ Rest(p) = <<b>> /\ Creating(t) /\ Created(b)
    BY <2>2, TwoTop
  <2>4. ASSUME NEW s, itable' = iunlock(itable, t.dp, s), Do(p, <<Put(t.dp)>> \o Give(Rest(p), t.ip, << >>))
        PROVE  RefsInv'
    <3>6. PICK c : Given(b, t.ip, c)
      BY <2>3, <1>6
    <3>1. /\ Give(<<b>>, t.ip, << >>) = <<c>> /\ Final(c) /\ Quiet(c)
          /\ \A i \in Inums : One(c, i) = Eq(t.ip, i)
      BY <3>6 DEF Given
    <3>2. Do(p, <<Put(t.dp), c>>)
      BY <2>3, <2>4, <3>1, Push1
    <3>3. Kept(itable, itable')
      BY <2>4, Typed, IunlockKeeps
    <3>5. Has(c, t.ip)
      BY <3>1 DEF Has
    <3>4. Spared(<<Put(t.dp), c>>, t)
      BY <3>1, <3>5, PutDp
    <3>. QED
      BY <2>1, <2>2, <3>2, <3>3, <3>4, PlainKept DEF Spared
  <2>5. ASSUME NEW s, NEW r, create_fail(p, ilock(itable, t.dp, s, p), r) PROVE RefsInv'
    <3>1. Kept(itable, ilock(itable, t.dp, s, p))
      BY Typed, IlockKeeps
    <3>. QED
      BY <2>1, <2>2, <2>5, <3>1, <1>4
  <2>. QED
    BY <2>4, <2>5 DEF create_enter
<1>8. ASSUME RefsInv, NEW p \in Procs, Ready(p), create_old(p) PROVE RefsInv'
  <2>. USE <1>8
  <2>. USE Zenon
  <2>. DEFINE t == Top(p)
  <2>1. t.op = "create_old" /\ UNCHANGED files
    BY DEF create_old
  <2>2. t.op \in TwoOps /\ t.op \in OneOps \cup TwoOps /\ Quiet(t)
    BY <2>1, SMT DEF TwoOps, Quiet
  <2>3. PICK b : todo[p] = <<t, b>> /\ Rest(p) = <<b>> /\ Creating(t) /\ Created(b)
    BY <2>2, TwoTop
  <2>4. \A i \in Inums : One(t, i) = Eq(t.ip, i)
    <3>1. t.dp = 0
      BY <2>1, <2>3, SMT DEF Creating
    <3>. QED
      BY <3>1, OneIp
  <2>5. Kept(itable, itable')
    BY Typed, IunlockKeeps, IlockKeeps DEF create_old
  <2>6. CASE Do(p, Give(Rest(p), t.ip, << >>))
    <3>6. PICK c : Given(b, t.ip, c)
      BY <2>3, <1>6
    <3>1. /\ Give(<<b>>, t.ip, << >>) = <<c>> /\ Final(c) /\ Quiet(c)
          /\ \A i \in Inums : One(c, i) = Eq(t.ip, i)
      BY <3>6 DEF Given
    <3>2. Do(p, <<c>>)
      BY <2>3, <2>6, <3>1
    <3>3. Shape(<<c>>) /\ Plain(<<c>>) /\ \A i \in Inums : Ptrs(<<c>>, i) = One(t, i)
      BY <2>4, <3>1, List1
    <3>. QED
      BY <2>1, <2>2, <2>5, <3>2, <3>3, PlainKept
  <2>7. CASE Do(p, <<Put(t.ip)>>)
    BY <2>1, <2>2, <2>4, <2>5, <2>7, PutOne, PlainKept
  <2>. QED
    BY <2>6, <2>7 DEF create_old
<1>9. ASSUME RefsInv, NEW p \in Procs, Ready(p), create_dp(p) PROVE RefsInv'
  <2>. USE <1>9
  <2>. USE Zenon
  <2>. DEFINE t == Top(p)
  <2>1. t.op = "create_dp" /\ UNCHANGED files
    BY DEF create_dp
  <2>2. t.op \in TwoOps /\ t.op \in OneOps \cup TwoOps /\ Quiet(t)
    BY <2>1, SMT DEF TwoOps, Quiet
  <2>3. PICK b : todo[p] = <<t, b>> /\ Rest(p) = <<b>> /\ Creating(t) /\ Created(b)
    BY <2>2, TwoTop
  <2>4. t.ip = 0 /\ IsTask(t) /\ \A i \in Inums : One(t, i) = Eq(t.dp, i)
    <3>1. t.ip = 0 /\ IsTask(t)
      BY <2>1, <2>3, SMT DEF Creating
    <3>. QED
      BY <3>1, OneDp
  <2>5. ASSUME NEW x, itable' = iget(iunlock(itable, t.dp, S(t.dp)), x),
               Do(p, <<Put(t.dp), T("create_old", x, 0, << >>)>> \o Rest(p))
        PROVE  RefsInv'
    <3>1. PICK u : u = T("create_old", x, 0, << >>)
      OBVIOUS
    <3>2. Creating(u) /\ \A i \in Inums : One(u, i) = Eq(x, i)
      BY <3>1, OneT, SMT DEF Creating, Eq, Inums
    <3>3. <<Put(t.dp), u>> \o <<b>> = <<Put(t.dp), u, b>>
      BY PushTwo
    <3>4. Do(p, <<Put(t.dp), u, b>>)
      BY <2>3, <2>5, <3>1, <3>3
    <3>5. /\ Shape(<<Put(t.dp), u, b>>) /\ Plain(<<Put(t.dp), u, b>>)
          /\ \A i \in Inums : Ptrs(<<Put(t.dp), u, b>>, i) = One(t, i) + Eq(x, i)
      <4>1. /\ Shape(<<Put(t.dp), u, b>>) /\ Plain(<<Put(t.dp), u, b>>)
            /\ \A i \in Inums : Ptrs(<<Put(t.dp), u, b>>, i) = Eq(t.dp, i) + One(u, i)
        BY <2>3, <3>2, <1>2
      <4>2. \A i \in Inums : Ptrs(<<Put(t.dp), u, b>>, i) = One(t, i) + Eq(x, i)
        BY <2>4, <3>2, <4>1
      <4>. QED
        BY <4>1, <4>2
    <3>6. Added(itable, itable', x)
      BY <2>5, Typed, IunlockKeeps, IgetAdds, KeptAdded DEF Kept
    <3>. QED
      BY <2>1, <2>2, <3>4, <3>5, <3>6, PlainAdded
  <2>6. CASE itable' = iunlock(itable, t.dp, S(t.dp)) /\ Do(p, <<Put(t.dp)>>)
    BY <2>1, <2>2, <2>4, <2>6, Typed, IunlockKeeps, PutOne, PlainKept
  <2>7. ASSUME NEW x, itable' = iget(ilock(itable, t.dp, S(t.dp), p), x),
               Do(p, <<[t EXCEPT !.op = "create_new", !.ip = x]>> \o Rest(p))
        PROVE  RefsInv'
    <3>1. PICK u : u = [t EXCEPT !.op = "create_new", !.ip = x]
      OBVIOUS
    <3>2. Creating(u) /\ \A i \in Inums : One(u, i) = One(t, i) + Eq(x, i)
      BY <2>4, <3>1, SMT DEF Creating, IsTask, One, Eq, Inums
    <3>3. Do(p, <<u, b>>)
      BY <2>3, <2>7, <3>1, <3>2, <1>1
    <3>4. Added(itable, itable', x)
      BY <2>7, Typed, IlockKeeps, IgetAdds, KeptAdded DEF Kept
    <3>5. Shape(<<u, b>>) /\ Plain(<<u, b>>) /\ \A i \in Inums : Ptrs(<<u, b>>, i) = One(t, i) + Eq(x, i)
      BY <2>3, <3>2, <1>1
    <3>. QED
      BY <2>1, <2>2, <3>3, <3>4, <3>5, PlainAdded
  <2>. QED
    BY <2>5, <2>6, <2>7 DEF create_dp
<1>. QED
  BY <1>3, <1>5, <1>7, <1>8, <1>9, Zenon
=============================================================================
