------------------------------ MODULE DataProofs ------------------------------
(* Induction over the natural numbers, for the proofs about what a          *)
(* recursive function of the models computes, and kv objects: what the      *)
(* operators of Kv return and preserve, for kvs of every length.            *)
EXTENDS KvBuffer, FiniteSetTheorems, SequenceTheorems, WellFoundedInduction, TLAPS

(* The library's induction theorems have a predicate for a parameter, which
   the provers cannot instantiate.  Here a set takes its place. *)

LEMMA LeastNumber ==
  ASSUME NEW T, T \subseteq Nat, T # {}
  PROVE  \E m \in T : \A k \in T : m <= k
<1> DEFINE R == {ss \in Nat \X Nat : ss[1] < ss[2]}
<1>1. IsWellFoundedOn(R, Nat)
  BY NatLessThanWellFounded DEF OpToRel
<1>2. \E x \in T : \A y \in T : ~ (<<y, x>> \in R)
  <2> HIDE DEF R
  <2> QED
    BY WFMin, <1>1
<1>3. \A x, y \in T : x <= y \/ <<y, x>> \in R
  OBVIOUS
<1> HIDE DEF R
<1> QED
  BY <1>2, <1>3

LEMMA Induction ==
  ASSUME NEW T, 0 \in T, \A n \in Nat : n \in T => n + 1 \in T
  PROVE  Nat \subseteq T
<1> SUFFICES ASSUME ~(Nat \subseteq T) PROVE FALSE
  OBVIOUS
<1> DEFINE C == Nat \ T
<1>1. PICK m \in C : \A k \in C : m <= k
  BY LeastNumber
<1>2. m # 0 /\ m - 1 \in Nat
  BY <1>1
<1>3. m - 1 \in T
  <2> SUFFICES ASSUME m - 1 \in C PROVE FALSE
    BY <1>2
  <2> QED
    BY <1>1, <1>2
<1> QED
  BY <1>2, <1>3

\* The same up to a bound.
LEMMA InductionTo ==
  ASSUME NEW T, NEW N \in Nat, 0 \in T, \A n \in 0..(N - 1) : n \in T => n + 1 \in T
  PROVE  0..N \subseteq T
<1> DEFINE U == {n \in Nat : n \in T \/ n > N}
<1>1. 0 \in U
  OBVIOUS
<1>2. \A n \in Nat : n \in U => n + 1 \in U
  OBVIOUS
<1>3. Nat \subseteq U
  <2> HIDE DEF U
  <2> QED
    BY <1>1, <1>2, Induction
<1> QED
  BY <1>3
-----------------------------------------------------------------------------
(* One entry of a kv goes, or is put.                                      *)

LEMMA KvFindFirst ==
  ASSUME NEW S, NEW kv \in Seq(S), NEW key \in Keys(kv)
  PROVE  /\ KvFind(kv, key) \in 1..Len(kv)
         /\ kv[KvFind(kv, key)].key = key
         /\ \A j \in 1..(KvFind(kv, key) - 1) : kv[j].key # key
<1> DEFINE T == {i \in 1..Len(kv) : kv[i].key = key}
<1>1. T \subseteq Nat /\ T # {}
  BY DEF Keys
<1>2. PICK m \in T : \A k \in T : m <= k
  BY <1>1, LeastNumber
<1>3. \A j \in 1..(m - 1) : kv[j].key # key
  BY <1>2
<1>4. m \in DOMAIN kv /\ kv[m].key = key /\ DOMAIN kv = 1..Len(kv)
  OBVIOUS
<1> HIDE DEF T
<1>5. \E i \in DOMAIN kv : kv[i].key = key /\ \A j \in 1..(i - 1) : kv[j].key # key
  BY <1>3, <1>4
<1> QED
  BY <1>4, <1>5 DEF KvFind

LEMMA RemovedAt ==
  ASSUME NEW S, NEW s \in Seq(S), NEW i \in 1..Len(s)
  PROVE  /\ RemoveAt(s, i) \in Seq(S)
         /\ Len(RemoveAt(s, i)) = Len(s) - 1
         /\ \A k \in 1..(Len(s) - 1) : RemoveAt(s, i)[k] = IF k < i THEN s[k] ELSE s[k + 1]
<1> DEFINE a == SubSeq(s, 1, i - 1)
           b == SubSeq(s, i + 1, Len(s))
<1>1. a \in Seq(S) /\ Len(a) = i - 1 /\ \A k \in 1..(i - 1) : a[k] = s[k]
  OBVIOUS
<1>2. b \in Seq(S) /\ Len(b) = Len(s) - i /\ \A k \in 1..(Len(s) - i) : b[k] = s[i + k]
  OBVIOUS
<1>3. RemoveAt(s, i) = a \o b
  BY DEF RemoveAt
<1> HIDE DEF a, b
<1>4. /\ a \o b \in Seq(S)
      /\ Len(a \o b) = Len(a) + Len(b)
      /\ \A k \in 1..(Len(a) + Len(b)) : (a \o b)[k] = IF k <= Len(a) THEN a[k] ELSE b[k - Len(a)]
  BY <1>1, <1>2, ConcatProperties
<1> DEFINE c == a \o b
<1> HIDE DEF c
<1>5. /\ Len(a) = i - 1 /\ Len(b) = Len(s) - i /\ Len(s) \in Nat
      /\ c \in Seq(S) /\ Len(c) = Len(s) - 1
      /\ \A k \in 1..(Len(s) - 1) : c[k] = IF k <= i - 1 THEN a[k] ELSE b[k - (i - 1)]
  BY <1>1, <1>2, <1>4 DEF c
<1>6. ASSUME NEW k \in 1..(Len(s) - 1)
      PROVE  c[k] = IF k < i THEN s[k] ELSE s[k + 1]
  <2>1. CASE k <= i - 1
    BY <1>1, <1>5, <2>1
  <2>2. CASE ~(k <= i - 1)
    <3>1. k - (i - 1) \in 1..(Len(s) - i) /\ i + (k - (i - 1)) = k + 1
      BY <1>5, <2>2
    <3>2. c[k] = b[k - (i - 1)] /\ b[k - (i - 1)] = s[k + 1]
      BY <1>2, <1>5, <2>2, <3>1
    <3> QED
      BY <2>2, <3>2
  <2> QED
    BY <2>1, <2>2
<1> QED
  BY <1>3, <1>5, <1>6 DEF c

\* The place that a place in a shorter kv had.
Before(i, k) == IF k < i THEN k ELSE k + 1

\* What kv_delete leaves, for any kv: all but the first entry with the key.
LEMMA Deleted ==
  ASSUME NEW S, NEW kv \in Seq(S), NEW key
  PROVE  /\ KvDelete(kv, key) \in Seq(S)
         /\ key \notin Keys(kv) => KvDelete(kv, key) = kv
         /\ key \in Keys(kv) =>
              /\ Len(KvDelete(kv, key)) = Len(kv) - 1
              /\ \A k \in 1..(Len(kv) - 1) :
                   KvDelete(kv, key)[k] = kv[Before(KvFind(kv, key), k)]
<1>1. CASE key \in Keys(kv)
  BY <1>1, KvFindFirst, RemovedAt DEF KvDelete, Before
<1>2. CASE key \notin Keys(kv)
  BY <1>2 DEF KvDelete
<1> QED
  BY <1>1, <1>2

LEMMA DeletedRange ==
  ASSUME NEW S, NEW kv \in Seq(S), NEW key
  PROVE  /\ Range(KvDelete(kv, key)) \subseteq Range(kv)
         /\ \A e \in Range(kv) : e.key # key => e \in Range(KvDelete(kv, key))
         /\ UniqueKeys(kv) => /\ UniqueKeys(KvDelete(kv, key))
                              /\ key \notin Keys(KvDelete(kv, key))
<1> DEFINE d == KvDelete(kv, key)
           f == KvFind(kv, key)
<1>1. CASE key \notin Keys(kv)
  BY <1>1, Deleted
<1>2. CASE key \in Keys(kv)
  <2>1. f \in 1..Len(kv) /\ kv[f].key = key
    BY <1>2, KvFindFirst
  <2>2. /\ d \in Seq(S) /\ Len(d) = Len(kv) - 1
        /\ \A k \in 1..(Len(kv) - 1) : d[k] = kv[Before(f, k)]
    BY <1>2, Deleted
  <2> HIDE DEF d, f
  <2>3. DOMAIN d = 1..(Len(kv) - 1) /\ DOMAIN kv = 1..Len(kv)
    BY <2>2
  <2>4. \A k \in DOMAIN d : Before(f, k) \in DOMAIN kv /\ Before(f, k) # f
    BY <2>1, <2>3 DEF Before
  <2>5. \A k, l \in DOMAIN d : Before(f, k) = Before(f, l) => k = l
    BY <2>1, <2>3 DEF Before
  <2>6. ASSUME NEW e \in Range(kv), e.key # key PROVE e \in Range(d)
    <3>1. PICK i \in DOMAIN kv : e = kv[i]
      BY DEF Range
    <3>2. i # f
      BY <2>1, <2>6, <3>1
    <3>3. \E k \in DOMAIN d : Before(f, k) = i
      <4>1. CASE i < f
        BY <2>1, <2>3, <4>1 DEF Before
      <4>2. CASE i > f
        <5>1. i - 1 \in DOMAIN d /\ Before(f, i - 1) = i
          BY <2>1, <2>3, <4>2 DEF Before
        <5> QED
          BY <5>1
      <4> QED
        BY <2>1, <2>3, <3>2, <4>1, <4>2
    <3> QED
      BY <2>2, <2>3, <3>1, <3>3 DEF Range
  <2>7. Range(d) \subseteq Range(kv)
    BY <2>2, <2>3, <2>4 DEF Range
  <2>8. ASSUME UniqueKeys(kv) PROVE UniqueKeys(d) /\ key \notin Keys(d)
    <3>1. ASSUME NEW k \in DOMAIN d, NEW l \in DOMAIN d, d[k].key = d[l].key PROVE k = l
      <4>1. d[k] = kv[Before(f, k)] /\ d[l] = kv[Before(f, l)]
        BY <2>2, <2>3
      <4>2. Before(f, k) = Before(f, l)
        BY <2>4, <2>8, <3>1, <4>1 DEF UniqueKeys
      <4> QED
        BY <2>5, <4>2
    <3>2. ASSUME NEW k \in DOMAIN d, d[k].key = key PROVE FALSE
      <4>1. d[k] = kv[Before(f, k)]
        BY <2>2, <2>3
      <4>2. Before(f, k) = f
        BY <2>1, <2>3, <2>4, <2>8, <3>2, <4>1 DEF UniqueKeys
      <4> QED
        BY <2>4, <4>2
    <3> QED
      BY <3>1, <3>2 DEF UniqueKeys, Keys
  <2> QED
    BY <2>6, <2>7, <2>8 DEF d
<1> QED
  BY <1>1, <1>2
\* kv_put: the new entry is there, last, and of the others those with another key.
LEMMA PutRange ==
  ASSUME NEW S, NEW kv \in Seq(S), NEW key, NEW type, NEW val, Entry(key, type, val) \in S
  PROVE  /\ KvPut(kv, key, type, val) \in Seq(S)
         /\ Entry(key, type, val) \in Range(KvPut(kv, key, type, val))
         /\ Range(KvPut(kv, key, type, val)) \subseteq Range(kv) \cup {Entry(key, type, val)}
         /\ \A e \in Range(kv) : e.key # key => e \in Range(KvPut(kv, key, type, val))
         /\ key \notin Keys(kv) => KvPut(kv, key, type, val) = Append(kv, Entry(key, type, val))
<1> DEFINE d == KvDelete(kv, key)
           new == Entry(key, type, val)
           p == Append(d, new)
<1>1. d \in Seq(S) /\ (key \notin Keys(kv) => d = kv)
  BY Deleted
<1>2. /\ Range(d) \subseteq Range(kv)
      /\ \A e \in Range(kv) : e.key # key => e \in Range(d)
  BY DeletedRange
<1>3. KvPut(kv, key, type, val) = p
  BY DEF KvPut
<1> HIDE DEF d, new
<1>4. new \in S
  BY DEF new
<1>5. /\ p \in Seq(S) /\ DOMAIN p = 1..(Len(d) + 1) /\ p[Len(d) + 1] = new
      /\ \A i \in 1..Len(d) : p[i] = d[i]
      /\ DOMAIN d = 1..Len(d) /\ Len(d) \in Nat
  BY <1>1, <1>4
<1> HIDE DEF p
<1>6. Range(p) = Range(d) \cup {new}
  BY <1>5 DEF Range
<1> QED
  BY <1>1, <1>2, <1>3, <1>5, <1>6 DEF p, new

LEMMA PutUnique ==
  ASSUME NEW S, NEW kv \in Seq(S), NEW key, NEW type, NEW val, UniqueKeys(kv),
         Entry(key, type, val) \in S
  PROVE  UniqueKeys(KvPut(kv, key, type, val))
<1> DEFINE d == KvDelete(kv, key)
           new == Entry(key, type, val)
           p == Append(d, new)
<1>1. d \in Seq(S)
  BY Deleted
<1>2. UniqueKeys(d) /\ key \notin Keys(d)
  BY DeletedRange
<1>3. new.key = key /\ new \in S
  BY DEF Entry
<1>4. KvPut(kv, key, type, val) = p
  BY DEF KvPut
<1> HIDE DEF d, new
<1>5. /\ DOMAIN p = 1..(Len(d) + 1) /\ p[Len(d) + 1] = new
      /\ \A i \in 1..Len(d) : p[i] = d[i]
      /\ DOMAIN d = 1..Len(d) /\ Len(d) \in Nat
  BY <1>1, <1>3
<1> HIDE DEF p
<1>6. ASSUME NEW i \in DOMAIN p, NEW j \in DOMAIN p, p[i].key = p[j].key PROVE i = j
  <2>1. \A n \in 1..Len(d) : p[n].key # key
    BY <1>2, <1>5 DEF Keys
  <2>2. CASE i \in 1..Len(d) /\ j \in 1..Len(d)
    BY <1>2, <1>5, <1>6, <2>2 DEF UniqueKeys
  <2>3. CASE i = Len(d) + 1 \/ j = Len(d) + 1
    BY <1>3, <1>5, <1>6, <2>1, <2>3
  <2> QED
    BY <1>5, <2>2, <2>3
<1> QED
  BY <1>4, <1>6 DEF UniqueKeys

-----------------------------------------------------------------------------
(* Entries are put one after the other.                                    *)

PutStep(kv, entries, chosen, after, n) ==
  IF n = 0 THEN kv
  ELSE IF n \in chosen
       THEN KvPut(after[n - 1], entries[n].key, entries[n].type, entries[n].val)
       ELSE after[n - 1]

IsPuts(kv, entries, chosen, N, after) ==
  after = [n \in 0..N |-> PutStep(kv, entries, chosen, after, n)]

\* The recursive function of PutEach is there.
LEMMA PutsExist ==
  ASSUME NEW kv, NEW entries, NEW chosen
  PROVE  \A N \in Nat : \E after : IsPuts(kv, entries, chosen, N, after)
<1> DEFINE T == {N \in Nat : \E after : IsPuts(kv, entries, chosen, N, after)}
<1>1. 0 \in T
  <2>1. IsPuts(kv, entries, chosen, 0, [n \in 0..0 |-> kv])
    BY DEF IsPuts, PutStep
  <2> QED
    BY <2>1
<1>2. ASSUME NEW N \in Nat, N \in T PROVE N + 1 \in T
  <2>1. PICK g : IsPuts(kv, entries, chosen, N, g)
    BY <1>2
  <2> DEFINE h == [n \in 0..(N + 1) |->
                     IF n <= N THEN g[n] ELSE PutStep(kv, entries, chosen, g, N + 1)]
  <2>2. \A n \in 0..(N + 1) : h[n] = PutStep(kv, entries, chosen, h, n)
    <3> SUFFICES ASSUME NEW n \in 0..(N + 1) PROVE h[n] = PutStep(kv, entries, chosen, h, n)
      OBVIOUS
    <3>1. h[n] = PutStep(kv, entries, chosen, g, n)
      BY <2>1 DEF IsPuts
    <3>2. n # 0 => n - 1 \in 0..(N + 1) /\ n - 1 <= N /\ h[n - 1] = g[n - 1]
      OBVIOUS
    <3> HIDE DEF h
    <3> QED
      BY <3>1, <3>2 DEF PutStep
  <2>3. IsPuts(kv, entries, chosen, N + 1, h)
    BY <2>2 DEF IsPuts
  <2> QED
    BY <2>3
<1>3. Nat \subseteq T
  <2> HIDE DEF T
  <2> QED
    BY <1>1, <1>2, Induction
<1> QED
  BY <1>3

\* What has been put after each entry, the last being what PutEach returns.
Puts(kv, entries, chosen, after) ==
  /\ after[0] = kv
  /\ \A n \in 1..Len(entries) :
       after[n] =
         IF n \in chosen
         THEN KvPut(after[n - 1], entries[n].key, entries[n].type, entries[n].val)
         ELSE after[n - 1]
  /\ PutEach(kv, entries, chosen) = after[Len(entries)]

LEMMA PutEachSteps ==
  ASSUME NEW kv, NEW entries, NEW chosen, Len(entries) \in Nat
  PROVE  \E after : Puts(kv, entries, chosen, after)
<1> DEFINE after == CHOOSE g : IsPuts(kv, entries, chosen, Len(entries), g)
<1>1. IsPuts(kv, entries, chosen, Len(entries), after)
  BY PutsExist
<1>2. PutEach(kv, entries, chosen) = after[Len(entries)]
  BY DEF PutEach, IsPuts, PutStep
<1> HIDE DEF after
<1>3. \A n \in 0..Len(entries) : after[n] = PutStep(kv, entries, chosen, after, n)
  BY <1>1 DEF IsPuts
<1>4. after[0] = kv
  <2>1. 0 \in 0..Len(entries)
    OBVIOUS
  <2> QED
    BY <1>3, <2>1 DEF PutStep
<1>5. ASSUME NEW n \in 1..Len(entries)
      PROVE  after[n] =
               IF n \in chosen
               THEN KvPut(after[n - 1], entries[n].key, entries[n].type, entries[n].val)
               ELSE after[n - 1]
  <2>1. n \in 0..Len(entries) /\ n # 0
    OBVIOUS
  <2> QED
    BY <1>3, <2>1 DEF PutStep
<1> QED
  BY <1>2, <1>4, <1>5 DEF Puts

\* What kv_put makes of what entries[n] says.
Put(entries, n) == Entry(entries[n].key, entries[n].type, entries[n].val)

LEMMA PutEachUnique ==
  ASSUME NEW S, NEW kv \in Seq(S), NEW entries, NEW chosen, Len(entries) \in Nat,
         \A n \in chosen \cap (1..Len(entries)) : Put(entries, n) \in S
  PROVE  /\ PutEach(kv, entries, chosen) \in Seq(S)
         /\ UniqueKeys(kv) => UniqueKeys(PutEach(kv, entries, chosen))
         /\ Range(PutEach(kv, entries, chosen)) \subseteq
              Range(kv) \cup {Put(entries, n) : n \in chosen \cap (1..Len(entries))}
<1> DEFINE N == Len(entries)
           All == {Put(entries, n) : n \in chosen \cap (1..N)}
           Good(f) == /\ f \in Seq(S)
                      /\ UniqueKeys(kv) => UniqueKeys(f)
                      /\ Range(f) \subseteq Range(kv) \cup All
<1>0. PICK after : Puts(kv, entries, chosen, after)
  BY PutEachSteps
<1>1. /\ after[0] = kv
      /\ \A n \in 1..N :
           after[n] =
             IF n \in chosen
             THEN KvPut(after[n - 1], entries[n].key, entries[n].type, entries[n].val)
             ELSE after[n - 1]
      /\ PutEach(kv, entries, chosen) = after[N]
  BY <1>0 DEF Puts
<1> DEFINE T == {n \in Nat : Good(after[n])}
<1>2. N \in Nat
  OBVIOUS
<1>3. 0 \in T
  BY <1>1
<1> HIDE DEF N
<1>4. ASSUME NEW n \in 0..(N - 1), n \in T PROVE n + 1 \in T
  <2>1. n + 1 \in 1..N /\ (n + 1) - 1 = n /\ n + 1 \in Nat /\ Good(after[n])
    BY <1>2, <1>4
  <2>2. CASE n + 1 \notin chosen
    BY <1>1, <2>1, <2>2
  <2>3. CASE n + 1 \in chosen
    <3> DEFINE new == Put(entries, n + 1)
    <3>1. new \in S /\ new \in All
      BY <2>1, <2>3 DEF N
    <3>2. after[n + 1] =
            KvPut(after[n], entries[n + 1].key, entries[n + 1].type, entries[n + 1].val)
      BY <1>1, <2>1, <2>3
    <3>3. Range(after[n + 1]) \subseteq Range(after[n]) \cup {new} /\ after[n + 1] \in Seq(S)
      <4>1. /\ after[n] \in Seq(S)
            /\ new = Entry(entries[n + 1].key, entries[n + 1].type, entries[n + 1].val)
        BY <2>1 DEF Put
      <4> HIDE DEF new
      <4> QED
        BY <3>1, <3>2, <4>1, PutRange
    <3>4. UniqueKeys(kv) => UniqueKeys(after[n + 1])
      BY <2>1, <3>1, <3>2, PutUnique DEF Put
    <3> HIDE DEF new, All
    <3> QED
      BY <2>1, <3>1, <3>3, <3>4
  <2> QED
    BY <2>2, <2>3
<1> HIDE DEF T
<1>5. N \in T
  <2>1. 0..N \subseteq T
    BY <1>2, <1>3, <1>4, InductionTo
  <2> QED
    BY <1>2, <2>1
<1> QED
  BY <1>1, <1>5 DEF T, N

\* f is kv and then what the entries from lo + 1 to hi say.
IsBlock(f, kv, entries, lo, hi) ==
  /\ Len(f) = Len(kv) + (hi - lo)
  /\ \A i \in 1..Len(kv) : f[i] = kv[i]
  /\ \A i \in 1..(hi - lo) : f[Len(kv) + i] = Put(entries, lo + i)

\* A new key comes to stand behind those that are there.
LEMMA BlockGrows ==
  ASSUME NEW S, NEW kv \in Seq(S), NEW f \in Seq(S), NEW entries,
         NEW lo \in Nat, NEW n \in Nat, lo <= n, IsBlock(f, kv, entries, lo, n),
         Put(entries, n + 1) \in S, entries[n + 1].key \notin Keys(kv),
         \A m \in (lo + 1)..n : entries[m].key # entries[n + 1].key,
         NEW g, g = KvPut(f, entries[n + 1].key, entries[n + 1].type, entries[n + 1].val)
  PROVE  IsBlock(g, kv, entries, lo, n + 1)
<1> DEFINE e == Put(entries, n + 1)
           key == entries[n + 1].key
<1>1. /\ Len(f) = Len(kv) + (n - lo) /\ Len(kv) \in Nat /\ Len(f) \in Nat
      /\ \A i \in 1..Len(kv) : f[i] = kv[i]
      /\ \A i \in 1..(n - lo) : f[Len(kv) + i] = Put(entries, lo + i)
      /\ DOMAIN f = 1..Len(f) /\ DOMAIN kv = 1..Len(kv)
  BY DEF IsBlock
<1>2. key \notin Keys(f)
  <2> SUFFICES ASSUME NEW i \in 1..Len(f), f[i].key = key PROVE FALSE
    BY <1>1 DEF Keys
  <2>1. CASE i <= Len(kv)
    <3>1. i \in DOMAIN kv /\ f[i] = kv[i]
      BY <1>1, <2>1
    <3> QED
      BY <3>1 DEF Keys
  <2>2. CASE ~(i <= Len(kv))
    <3>1. i - Len(kv) \in 1..(n - lo) /\ Len(kv) + (i - Len(kv)) = i
      BY <1>1, <2>2
    <3>2. f[i] = Put(entries, lo + (i - Len(kv)))
      BY <1>1, <3>1
    <3>3. lo + (i - Len(kv)) \in (lo + 1)..n
      BY <1>1, <3>1
    <3>4. f[i].key = entries[lo + (i - Len(kv))].key
      BY <3>2 DEF Put, Entry
    <3> QED
      BY <3>3, <3>4
  <2> QED
    BY <2>1, <2>2
<1>3. g = Append(f, e)
  BY <1>2, PutRange DEF Put
<1>4. e \in S
  OBVIOUS
<1> HIDE DEF e
<1>5. /\ Len(g) = Len(f) + 1 /\ g[Len(f) + 1] = e
      /\ \A i \in 1..Len(f) : g[i] = f[i]
  BY <1>3, <1>4
<1>6. ASSUME NEW i \in 1..Len(kv) PROVE g[i] = kv[i]
  <2>1. i \in 1..Len(f) /\ f[i] = kv[i]
    BY <1>1
  <2> QED
    BY <1>5, <2>1
<1>7. ASSUME NEW i \in 1..(n + 1 - lo) PROVE g[Len(kv) + i] = Put(entries, lo + i)
  <2>1. CASE i <= n - lo
    <3>1. i \in 1..(n - lo) /\ Len(kv) + i \in 1..Len(f)
      BY <1>1, <2>1
    <3>2. f[Len(kv) + i] = Put(entries, lo + i)
      BY <1>1, <3>1
    <3>3. \A j \in 1..Len(f) : g[j] = f[j]
      BY <1>5
    <3> QED
      BY <3>1, <3>2, <3>3
  <2>2. CASE ~(i <= n - lo)
    <3>1. i = n + 1 - lo
      BY <2>2
    <3>2. Len(kv) + i = Len(f) + 1 /\ lo + i = n + 1
      BY <1>1, <3>1
    <3> QED
      BY <1>5, <3>2 DEF e
  <2> QED
    BY <2>1, <2>2
<1>8. Len(g) = Len(kv) + (n + 1 - lo)
  BY <1>1, <1>5
<1> QED
  BY <1>6, <1>7, <1>8 DEF IsBlock

\* Up to where the entries between lo and hi have been put after n of them.
UpTo(lo, hi, n) == IF n <= lo THEN lo ELSE IF n <= hi THEN n ELSE hi

\* The chosen entries are consecutive ones with new keys: they come after kv, in order.
LEMMA PutEachBlock ==
  ASSUME NEW S, NEW kv \in Seq(S), NEW entries, NEW chosen, Len(entries) \in Nat,
         NEW lo \in Nat, NEW hi \in Nat, lo <= hi, hi <= Len(entries),
         \A n \in 1..Len(entries) : n \in chosen <=> lo < n /\ n <= hi,
         \A n \in (lo + 1)..hi : Put(entries, n) \in S /\ entries[n].key \notin Keys(kv),
         \A m, n \in (lo + 1)..hi : entries[m].key = entries[n].key => m = n
  PROVE  /\ PutEach(kv, entries, chosen) \in Seq(S)
         /\ IsBlock(PutEach(kv, entries, chosen), kv, entries, lo, hi)
<1> DEFINE N == Len(entries)
<1>0. PICK after : Puts(kv, entries, chosen, after)
  BY PutEachSteps
<1>1. /\ after[0] = kv
      /\ \A n \in 1..N :
           after[n] =
             IF n \in chosen
             THEN KvPut(after[n - 1], entries[n].key, entries[n].type, entries[n].val)
             ELSE after[n - 1]
      /\ PutEach(kv, entries, chosen) = after[N]
  BY <1>0 DEF Puts
<1> DEFINE Good(n) == after[n] \in Seq(S) /\ IsBlock(after[n], kv, entries, lo, UpTo(lo, hi, n))
           T == {n \in Nat : Good(n)}
<1>2. N \in Nat /\ hi <= N
  OBVIOUS
<1>3. 0 \in T
  <2>1. UpTo(lo, hi, 0) = lo
    BY DEF UpTo
  <2>2. IsBlock(kv, kv, entries, lo, lo)
    BY DEF IsBlock
  <2> QED
    BY <1>1, <2>1, <2>2
<1> HIDE DEF N
<1>4. ASSUME NEW n \in 0..(N - 1), n \in T PROVE n + 1 \in T
  <2>1. /\ n + 1 \in 1..N /\ (n + 1) - 1 = n /\ n + 1 \in Nat /\ n \in Nat
        /\ after[n] \in Seq(S) /\ IsBlock(after[n], kv, entries, lo, UpTo(lo, hi, n))
    BY <1>2, <1>4
  <2>2. CASE ~(lo < n + 1 /\ n + 1 <= hi)
    <3>1. n + 1 \notin chosen
      BY <2>1, <2>2 DEF N
    <3>2. after[n + 1] = after[n]
      BY <1>1, <2>1, <3>1
    <3>3. UpTo(lo, hi, n + 1) = UpTo(lo, hi, n)
      BY <2>1, <2>2 DEF UpTo
    <3> QED
      BY <2>1, <3>2, <3>3
  <2>3. CASE lo < n + 1 /\ n + 1 <= hi
    <3>1. n + 1 \in chosen /\ n + 1 \in (lo + 1)..hi
      BY <2>1, <2>3 DEF N
    <3>2. after[n + 1] =
            KvPut(after[n], entries[n + 1].key, entries[n + 1].type, entries[n + 1].val)
      BY <1>1, <2>1, <3>1
    <3>3. UpTo(lo, hi, n) = n /\ UpTo(lo, hi, n + 1) = n + 1 /\ lo <= n
      BY <2>1, <2>3 DEF UpTo
    <3>4. Put(entries, n + 1) \in S /\ entries[n + 1].key \notin Keys(kv)
      BY <3>1
    <3>5. \A m \in (lo + 1)..n : entries[m].key # entries[n + 1].key
      <4>1. \A m \in (lo + 1)..n : m \in (lo + 1)..hi /\ m # n + 1
        BY <2>1, <2>3
      <4> QED
        BY <3>1, <4>1
    <3>6. IsBlock(after[n + 1], kv, entries, lo, n + 1)
      BY <2>1, <3>2, <3>3, <3>4, <3>5, BlockGrows
    <3>7. after[n + 1] \in Seq(S)
      BY <2>1, <3>2, <3>4, PutRange DEF Put
    <3> QED
      BY <2>1, <3>3, <3>6, <3>7
  <2> QED
    BY <2>2, <2>3
<1> HIDE DEF T
<1>5. N \in T
  <2>1. 0..N \subseteq T
    BY <1>2, <1>3, <1>4, InductionTo
  <2> QED
    BY <1>2, <2>1
<1>6. UpTo(lo, hi, N) = hi
  BY <1>2 DEF UpTo
<1> QED
  BY <1>1, <1>5, <1>6 DEF T

\* A kv that is put whole after another without any of its keys.
LEMMA PutAllNew ==
  ASSUME NEW S, NEW kv \in Seq(S), NEW new \in Seq(S), UniqueKeys(new),
         \A n \in 1..Len(new) : Put(new, n) = new[n] /\ new[n].key \notin Keys(kv)
  PROVE  PutAll(kv, new) = kv \o new
<1> DEFINE f == PutAll(kv, new)
<1>1. DOMAIN new = 1..Len(new) /\ Len(new) \in Nat /\ Len(kv) \in Nat
  OBVIOUS
<1>2. f \in Seq(S) /\ IsBlock(f, kv, new, 0, Len(new))
  <2>1. \A n \in 1..Len(new) : n \in DOMAIN new <=> 0 < n /\ n <= Len(new)
    BY <1>1
  <2>2. \A n \in (0 + 1)..Len(new) : Put(new, n) \in S /\ new[n].key \notin Keys(kv)
    BY <1>1
  <2>3. \A m, n \in (0 + 1)..Len(new) : new[m].key = new[n].key => m = n
    BY <1>1 DEF UniqueKeys
  <2>4. 0 \in Nat /\ 0 <= Len(new) /\ Len(new) <= Len(new)
    BY <1>1
  <2> QED
    BY <1>1, <2>1, <2>2, <2>3, <2>4, PutEachBlock DEF PutAll
<1> HIDE DEF f
<1>3. /\ Len(f) = Len(kv) + Len(new)
      /\ \A i \in 1..Len(kv) : f[i] = kv[i]
      /\ \A i \in 1..Len(new) : f[Len(kv) + i] = new[i]
  <2>1. Len(new) - 0 = Len(new) /\ \A i \in 1..Len(new) : 0 + i = i
    BY <1>1
  <2> QED
    BY <1>1, <1>2, <2>1 DEF IsBlock
<1>4. /\ kv \o new \in Seq(S) /\ Len(kv \o new) = Len(kv) + Len(new)
      /\ \A i \in 1..(Len(kv) + Len(new)) :
           (kv \o new)[i] = IF i <= Len(kv) THEN kv[i] ELSE new[i - Len(kv)]
  BY ConcatProperties
<1>5. ASSUME NEW i \in 1..Len(f) PROVE f[i] = (kv \o new)[i]
  <2>1. CASE i <= Len(kv)
    BY <1>1, <1>3, <1>4, <2>1
  <2>2. CASE ~(i <= Len(kv))
    <3>1. i - Len(kv) \in 1..Len(new) /\ Len(kv) + (i - Len(kv)) = i
      BY <1>1, <1>3, <2>2
    <3>2. f[i] = new[i - Len(kv)]
      BY <1>3, <3>1
    <3>3. (kv \o new)[i] = new[i - Len(kv)]
      BY <1>1, <1>3, <1>4, <2>2
    <3> QED
      BY <3>2, <3>3
  <2> QED
    BY <2>1, <2>2
<1>6. f = kv \o new
  BY <1>2, <1>3, <1>4, <1>5, SeqEqual
<1> QED
  BY <1>6 DEF f

-----------------------------------------------------------------------------
(* Prefixes are put before keys and taken off again.                       *)

LEMMA Stripping ==
  ASSUME NEW K, NEW prefix \in Seq(K), NEW key \in Seq(K)
  PROVE  /\ prefix \o key \in Seq(K)
         /\ Stripped(prefix \o key, prefix) = key
         /\ key # <<>> => IsStrictPrefix(prefix, prefix \o key)
         /\ \A other \in Seq(K) : prefix \o key = prefix \o other => key = other
<1> DEFINE long == prefix \o key
<1>1. /\ long \in Seq(K) /\ Len(long) = Len(prefix) + Len(key)
      /\ \A i \in 1..(Len(prefix) + Len(key)) :
           long[i] = IF i <= Len(prefix) THEN prefix[i] ELSE key[i - Len(prefix)]
      /\ Len(prefix) \in Nat /\ Len(key) \in Nat
  BY ConcatProperties
<1> HIDE DEF long
<1>2. Stripped(long, prefix) = key
  <2> DEFINE m == Len(prefix) + 1
             n == Len(long)
             rest == SubSeq(long, m, n)
  <2>1. /\ m \in Int /\ n \in Int /\ \A i \in m..n : long[i] \in K
        /\ n - m + 1 = Len(key)
    BY <1>1
  <2>2. /\ rest \in Seq(K) /\ Len(rest) = Len(key)
        /\ \A i \in 1..Len(key) : rest[i] = long[m + i - 1]
    <3> HIDE DEF m, n
    <3>1. /\ SubSeq(long, m, n) \in Seq(K)
          /\ Len(SubSeq(long, m, n)) = IF m <= n THEN n - m + 1 ELSE 0
          /\ \A i \in 1..(n - m + 1) : SubSeq(long, m, n)[i] = long[m + i - 1]
      BY <2>1, SubSeqProperties
    <3>2. Len(rest) = Len(key)
      BY <1>1, <2>1, <3>1
    <3> QED
      BY <2>1, <3>1, <3>2
  <2> HIDE DEF rest
  <2>3. ASSUME NEW i \in 1..Len(key) PROVE rest[i] = key[i]
    <3>1. /\ Len(prefix) + i \in 1..(Len(prefix) + Len(key))
          /\ (Len(prefix) + i) - Len(prefix) = i /\ ~(Len(prefix) + i <= Len(prefix))
          /\ m + i - 1 = Len(prefix) + i
      BY <1>1
    <3>2. rest[i] = long[Len(prefix) + i]
      BY <2>2, <3>1
    <3> QED
      BY <1>1, <3>1, <3>2
  <2>4. rest = key
    BY <2>2, <2>3, SeqEqual
  <2> QED
    BY <2>4 DEF rest, Stripped
<1>3. key # <<>> => IsStrictPrefix(prefix, long)
  <2> SUFFICES ASSUME key # <<>> PROVE IsStrictPrefix(prefix, long)
    OBVIOUS
  <2>1. Len(key) > 0
    <3> SUFFICES ASSUME Len(key) = 0 PROVE FALSE
      BY <1>1
    <3> QED
      OBVIOUS
  <2>2. prefix # long
    BY <1>1, <2>1
  <2>3. SubSeq(prefix, 1, Len(prefix)) = prefix
    BY SubSeqFull
  <2> DEFINE n == Len(prefix)
             first == SubSeq(long, 1, n)
  <2>4. first \in Seq(K) /\ Len(first) = n /\ \A i \in 1..n : first[i] = long[i]
    BY <1>1
  <2>5. \A i \in 1..n : long[i] = prefix[i]
    BY <1>1
  <2>6. first = prefix
    <3> HIDE DEF first
    <3>1. \A i \in 1..Len(first) : first[i] = prefix[i]
      BY <2>4, <2>5
    <3> QED
      BY <2>4, <3>1, SeqEqual
  <2> QED
    BY <1>1, <2>2, <2>3, <2>6 DEF IsStrictPrefix, IsPrefix
<1>4. \A other \in Seq(K) : prefix \o key = prefix \o other => key = other
  <2> SUFFICES ASSUME NEW other \in Seq(K), prefix \o key = prefix \o other
               PROVE  key = other
    OBVIOUS
  <2>1. /\ prefix \o other \in Seq(K) /\ Len(prefix \o other) = Len(prefix) + Len(other)
        /\ \A i \in 1..(Len(prefix) + Len(other)) :
             (prefix \o other)[i] =
               IF i <= Len(prefix) THEN prefix[i] ELSE other[i - Len(prefix)]
        /\ Len(other) \in Nat
    BY ConcatProperties
  <2>2. long = prefix \o other
    BY DEF long
  <2> HIDE DEF long
  <2>3. Len(other) = Len(key)
    BY <1>1, <2>1, <2>2
  <2>4. ASSUME NEW i \in 1..Len(key) PROVE key[i] = other[i]
    <3>1. Len(prefix) + i \in 1..(Len(prefix) + Len(key)) /\ (Len(prefix) + i) - Len(prefix) = i
          /\ ~(Len(prefix) + i <= Len(prefix))
      BY <1>1
    <3>2. long[Len(prefix) + i] = key[i]
      BY <1>1, <3>1
    <3>3. (prefix \o other)[Len(prefix) + i] = other[i]
      BY <2>1, <2>3, <3>1
    <3> QED
      BY <2>2, <3>2, <3>3
  <2> QED
    BY <2>3, <2>4, SeqEqual
<1> QED
  BY <1>1, <1>2, <1>3, <1>4 DEF long

\* Entries whose keys are sequences over K.
EntriesOf(K, T, V) == [key : Seq(K), type : T, val : V]

Prefixed(kv, prefix) == [n \in DOMAIN kv |-> [kv[n] EXCEPT !.key = prefix \o @]]

LEMMA PrefixedIs ==
  ASSUME NEW K, NEW T, NEW V, NEW kv \in Seq(EntriesOf(K, T, V)), NEW prefix \in Seq(K)
  PROVE  /\ Prefixed(kv, prefix) \in Seq(EntriesOf(K, T, V))
         /\ Len(Prefixed(kv, prefix)) = Len(kv)
         /\ \A n \in 1..Len(kv) :
              /\ Prefixed(kv, prefix)[n] = Entry(prefix \o kv[n].key, kv[n].type, kv[n].val)
              /\ Put(Prefixed(kv, prefix), n) = Prefixed(kv, prefix)[n]
         /\ UniqueKeys(kv) => UniqueKeys(Prefixed(kv, prefix))
<1> DEFINE S == EntriesOf(K, T, V)
           p == Prefixed(kv, prefix)
<1>1. /\ DOMAIN kv = 1..Len(kv) /\ Len(kv) \in Nat
      /\ \A n \in 1..Len(kv) : kv[n] \in EntriesOf(K, T, V)
  OBVIOUS
<1>2. ASSUME NEW n \in 1..Len(kv)
      PROVE  /\ p[n] = Entry(prefix \o kv[n].key, kv[n].type, kv[n].val)
             /\ p[n] \in S
             /\ p[n].key = prefix \o kv[n].key /\ kv[n].key \in Seq(K)
  <2>1. kv[n] \in [key : Seq(K), type : T, val : V]
    BY <1>1 DEF EntriesOf
  <2>2. prefix \o kv[n].key \in Seq(K)
    BY <2>1, ConcatProperties
  <2>3. p[n] = [kv[n] EXCEPT !.key = prefix \o @]
    BY <1>1 DEF Prefixed
  <2> HIDE DEF p
  <2> QED
    BY <2>1, <2>2, <2>3 DEF Entry, EntriesOf
<1>3. DOMAIN p = 1..Len(kv) /\ p = [n \in 1..Len(kv) |-> p[n]]
  BY <1>1 DEF Prefixed
<1> HIDE DEF p, S
<1>4. p \in Seq(S) /\ Len(p) = Len(kv)
  <2>1. p \in [1..Len(kv) -> S]
    BY <1>2, <1>3
  <2> QED
    BY <1>1, <1>3, <2>1, SeqDef
<1>5. ASSUME NEW n \in 1..Len(kv) PROVE Put(p, n) = p[n]
  <2>1. p[n] = Entry(prefix \o kv[n].key, kv[n].type, kv[n].val)
    BY <1>2
  <2> QED
    BY <2>1 DEF Put, Entry
<1>6. ASSUME UniqueKeys(kv), NEW i \in 1..Len(kv), NEW j \in 1..Len(kv), p[i].key = p[j].key
      PROVE  i = j
  <2>1. prefix \o kv[i].key = prefix \o kv[j].key /\ kv[i].key \in Seq(K) /\ kv[j].key \in Seq(K)
    BY <1>2, <1>6
  <2>2. kv[i].key = kv[j].key
    BY <2>1, Stripping
  <2> QED
    BY <1>1, <1>6, <2>2 DEF UniqueKeys
<1>7. UniqueKeys(kv) => UniqueKeys(p)
  BY <1>3, <1>6 DEF UniqueKeys
<1> QED
  BY <1>2, <1>4, <1>5, <1>7 DEF p, S

\* kv_join of a kv whose keys, prefixed, the other has not.
LEMMA JoinNew ==
  ASSUME NEW K, NEW T, NEW V, NEW kv1 \in Seq(EntriesOf(K, T, V)),
         NEW kv2 \in Seq(EntriesOf(K, T, V)), NEW prefix \in Seq(K), UniqueKeys(kv2),
         \A n \in 1..Len(kv2) : prefix \o kv2[n].key \notin Keys(kv1)
  PROVE  KvJoin(kv1, kv2, prefix) = kv1 \o Prefixed(kv2, prefix)
<1> DEFINE p == Prefixed(kv2, prefix)
<1>1. KvJoin(kv1, kv2, prefix) = PutAll(kv1, p)
  BY DEF KvJoin, Prefixed
<1>2. /\ p \in Seq(EntriesOf(K, T, V)) /\ Len(p) = Len(kv2) /\ UniqueKeys(p)
      /\ \A n \in 1..Len(kv2) : /\ p[n] = Entry(prefix \o kv2[n].key, kv2[n].type, kv2[n].val)
                                /\ Put(p, n) = p[n]
  BY PrefixedIs
<1> HIDE DEF p
<1>3. ASSUME NEW n \in 1..Len(p) PROVE Put(p, n) = p[n] /\ p[n].key \notin Keys(kv1)
  <2>1. p[n].key = prefix \o kv2[n].key
    <3>1. n \in 1..Len(kv2)
      BY <1>2
    <3>2. p[n] = Entry(prefix \o kv2[n].key, kv2[n].type, kv2[n].val)
      BY <1>2, <3>1
    <3> QED
      BY <3>2 DEF Entry
  <2> QED
    BY <1>2, <2>1
<1> HIDE DEF p
<1> QED
  BY <1>1, <1>2, <1>3, PutAllNew DEF p

LEMMA ThreeParts ==
  ASSUME NEW S, NEW a \in Seq(S), NEW b \in Seq(S), NEW c \in Seq(S)
  PROVE  /\ (a \o b) \o c \in Seq(S)
         /\ Len((a \o b) \o c) = Len(a) + Len(b) + Len(c)
         /\ \A i \in 1..Len(a) : ((a \o b) \o c)[i] = a[i]
         /\ \A i \in 1..Len(b) : ((a \o b) \o c)[Len(a) + i] = b[i]
         /\ \A i \in 1..Len(c) : ((a \o b) \o c)[Len(a) + Len(b) + i] = c[i]
<1> DEFINE d == a \o b
           f == d \o c
<1>1. /\ d \in Seq(S) /\ Len(d) = Len(a) + Len(b)
      /\ \A i \in 1..(Len(a) + Len(b)) : d[i] = IF i <= Len(a) THEN a[i] ELSE b[i - Len(a)]
      /\ Len(a) \in Nat /\ Len(b) \in Nat /\ Len(c) \in Nat
  BY ConcatProperties
<1> HIDE DEF d
<1>2. /\ f \in Seq(S) /\ Len(f) = Len(d) + Len(c)
      /\ \A i \in 1..(Len(d) + Len(c)) : f[i] = IF i <= Len(d) THEN d[i] ELSE c[i - Len(d)]
  <2>1. d \in Seq(S)
    BY <1>1
  <2> QED
    BY <2>1, ConcatProperties, Zenon
<1> HIDE DEF f
<1>3. ASSUME NEW i \in 1..Len(a) PROVE f[i] = a[i]
  <2>1. i \in 1..(Len(a) + Len(b)) /\ i \in 1..(Len(d) + Len(c)) /\ i <= Len(d) /\ i <= Len(a)
    BY <1>1
  <2> QED
    BY <1>1, <1>2, <2>1
<1>4. ASSUME NEW i \in 1..Len(b) PROVE f[Len(a) + i] = b[i]
  <2>1. /\ Len(a) + i \in 1..(Len(a) + Len(b)) /\ Len(a) + i \in 1..(Len(d) + Len(c))
        /\ Len(a) + i <= Len(d) /\ ~(Len(a) + i <= Len(a)) /\ (Len(a) + i) - Len(a) = i
    BY <1>1
  <2>2. d[Len(a) + i] = b[i]
    BY <1>1, <2>1
  <2> QED
    BY <1>2, <2>1, <2>2
<1>5. ASSUME NEW i \in 1..Len(c) PROVE f[Len(a) + Len(b) + i] = c[i]
  <2>1. /\ Len(a) + Len(b) + i \in 1..(Len(d) + Len(c))
        /\ ~(Len(a) + Len(b) + i <= Len(d)) /\ (Len(a) + Len(b) + i) - Len(d) = i
    BY <1>1
  <2> QED
    BY <1>2, <2>1
<1>6. Len(f) = Len(a) + Len(b) + Len(c)
  BY <1>1, <1>2
<1> QED
  BY <1>2, <1>3, <1>4, <1>5, <1>6 DEF f, d

\* f is a, b, c and d one after the other.
Joined(f, S, a, b, c, d) ==
  /\ f \in Seq(S)
  /\ Len(f) = Len(a) + Len(b) + Len(c) + Len(d)
  /\ \A i \in 1..Len(a) : f[i] = a[i]
  /\ \A i \in 1..Len(b) : f[Len(a) + i] = b[i]
  /\ \A i \in 1..Len(c) : f[Len(a) + Len(b) + i] = c[i]
  /\ \A i \in 1..Len(d) : f[Len(a) + Len(b) + Len(c) + i] = d[i]

LEMMA FourParts ==
  ASSUME NEW S, NEW a \in Seq(S), NEW b \in Seq(S), NEW c \in Seq(S), NEW d \in Seq(S)
  PROVE  Joined(((a \o b) \o c) \o d, S, a, b, c, d)
<1> DEFINE e == (a \o b) \o c
           f == e \o d
<1>1. /\ e \in Seq(S) /\ Len(e) = Len(a) + Len(b) + Len(c)
      /\ \A i \in 1..Len(a) : e[i] = a[i]
      /\ \A i \in 1..Len(b) : e[Len(a) + i] = b[i]
      /\ \A i \in 1..Len(c) : e[Len(a) + Len(b) + i] = c[i]
  BY ThreeParts
<1> HIDE DEF e
<1>2. /\ f \in Seq(S) /\ Len(f) = Len(e) + Len(d)
      /\ \A i \in 1..(Len(e) + Len(d)) : f[i] = IF i <= Len(e) THEN e[i] ELSE d[i - Len(e)]
  <2>1. e \in Seq(S)
    BY <1>1
  <2> QED
    BY <2>1, ConcatProperties, Zenon
<1>3. Len(a) \in Nat /\ Len(b) \in Nat /\ Len(c) \in Nat /\ Len(d) \in Nat
  OBVIOUS
<1> HIDE DEF f
<1>4. ASSUME NEW i \in 1..Len(e) PROVE f[i] = e[i]
  <2>1. i \in 1..(Len(e) + Len(d)) /\ i <= Len(e)
    BY <1>1, <1>3
  <2> QED
    BY <1>2, <2>1
<1>5. ASSUME NEW i \in 1..Len(a) PROVE f[i] = a[i]
  <2>1. i \in 1..Len(e)
    BY <1>1, <1>3
  <2> QED
    BY <1>1, <1>4, <2>1
<1>6. ASSUME NEW i \in 1..Len(b) PROVE f[Len(a) + i] = b[i]
  <2>1. Len(a) + i \in 1..Len(e)
    BY <1>1, <1>3
  <2> QED
    BY <1>1, <1>4, <2>1
<1>7. ASSUME NEW i \in 1..Len(c) PROVE f[Len(a) + Len(b) + i] = c[i]
  <2>1. Len(a) + Len(b) + i \in 1..Len(e)
    BY <1>1, <1>3
  <2> QED
    BY <1>1, <1>4, <2>1
<1>8. ASSUME NEW i \in 1..Len(d) PROVE f[Len(a) + Len(b) + Len(c) + i] = d[i]
  <2> DEFINE j == Len(a) + Len(b) + Len(c) + i
  <2>1. j \in 1..(Len(e) + Len(d)) /\ ~(j <= Len(e)) /\ j - Len(e) = i
    BY <1>1, <1>3
  <2> HIDE DEF j
  <2>2. f[j] = d[i]
    BY <1>2, <2>1
  <2> QED
    BY <2>2 DEF j
<1>9. Len(f) = Len(a) + Len(b) + Len(c) + Len(d)
  BY <1>1, <1>2
<1> QED
  BY <1>2, <1>5, <1>6, <1>7, <1>8, <1>9 DEF e, f, Joined

\* kv_split undoes kv_join, whatever stands before and after what was joined.
LEMMA SplitBlock ==
  ASSUME NEW K, NEW T, NEW V, NEW a \in Seq(EntriesOf(K, T, V)),
         NEW kv \in Seq(EntriesOf(K, T, V)), NEW b \in Seq(EntriesOf(K, T, V)),
         NEW prefix \in Seq(K), UniqueKeys(kv), \A n \in 1..Len(kv) : kv[n].key # <<>>,
         \A n \in 1..Len(a) : ~IsStrictPrefix(prefix, a[n].key),
         \A n \in 1..Len(b) : ~IsStrictPrefix(prefix, b[n].key)
  PROVE  KvSplit((a \o Prefixed(kv, prefix)) \o b, prefix) = kv
<1> DEFINE S == EntriesOf(K, T, V)
           p == Prefixed(kv, prefix)
           f == (a \o p) \o b
           entries == [n \in DOMAIN f |-> [f[n] EXCEPT !.key = Stripped(@, prefix)]]
           chosen == {n \in DOMAIN f : IsStrictPrefix(prefix, f[n].key)}
           lo == Len(a)
           hi == Len(a) + Len(kv)
<1>1. /\ p \in Seq(S) /\ Len(p) = Len(kv)
      /\ \A n \in 1..Len(kv) : p[n] = Entry(prefix \o kv[n].key, kv[n].type, kv[n].val)
  BY PrefixedIs
<1>2. KvSplit(f, prefix) = PutEach(<<>>, entries, chosen)
  BY DEF KvSplit
<1>3. ASSUME NEW n \in 1..Len(kv) PROVE kv[n] \in S /\ kv[n].key \in Seq(K)
  <2>1. kv[n] \in EntriesOf(K, T, V)
    OBVIOUS
  <2>2. kv[n] \in [key : Seq(K), type : T, val : V]
    BY <2>1, Zenon DEF EntriesOf
  <2> QED
    BY <2>1, <2>2
<1> HIDE DEF p, S
<1>4. /\ f \in Seq(S) /\ Len(f) = Len(a) + Len(p) + Len(b)
      /\ \A i \in 1..Len(a) : f[i] = a[i]
      /\ \A i \in 1..Len(p) : f[Len(a) + i] = p[i]
      /\ \A i \in 1..Len(b) : f[Len(a) + Len(p) + i] = b[i]
  <2>1. a \in Seq(S) /\ b \in Seq(S) /\ p \in Seq(S)
    BY <1>1 DEF S
  <2> HIDE DEF f
  <2>2. f = (a \o p) \o b
    BY DEF f
  <2>3. /\ (a \o p) \o b \in Seq(S)
        /\ Len((a \o p) \o b) = Len(a) + Len(p) + Len(b)
        /\ \A i \in 1..Len(a) : ((a \o p) \o b)[i] = a[i]
        /\ \A i \in 1..Len(p) : ((a \o p) \o b)[Len(a) + i] = p[i]
        /\ \A i \in 1..Len(b) : ((a \o p) \o b)[Len(a) + Len(p) + i] = b[i]
    BY <2>1, ThreeParts
  <2> QED
    BY <2>2, <2>3
<1> HIDE DEF f
<1>5. /\ DOMAIN f = 1..(hi + Len(b)) /\ Len(f) = hi + Len(b)
      /\ lo \in Nat /\ hi \in Nat /\ Len(kv) \in Nat /\ Len(b) \in Nat
      /\ DOMAIN kv = 1..Len(kv)
  BY <1>1, <1>4
<1>6. ASSUME NEW n \in 1..(hi + Len(b)) PROVE n \in chosen <=> lo < n /\ n <= hi
  <2>1. CASE n <= lo
    <3>1. n \in 1..Len(a) /\ f[n] = a[n]
      BY <1>4, <1>5, <2>1
    <3> QED
      BY <1>5, <2>1, <3>1
  <2>2. CASE lo < n /\ n <= hi
    <3>1. n - Len(a) \in 1..Len(kv) /\ Len(a) + (n - Len(a)) = n
      BY <1>5, <2>2
    <3>2. f[n] = p[n - Len(a)]
      BY <1>1, <1>4, <3>1
    <3>3. f[n] = Entry(prefix \o kv[n - Len(a)].key, kv[n - Len(a)].type, kv[n - Len(a)].val)
      BY <1>1, <3>1, <3>2
    <3>4. f[n].key = prefix \o kv[n - Len(a)].key
      BY <3>3 DEF Entry
    <3>5. kv[n - Len(a)].key \in Seq(K) /\ kv[n - Len(a)].key # <<>>
      BY <1>3, <3>1
    <3>6. IsStrictPrefix(prefix, f[n].key)
      BY <3>4, <3>5, Stripping
    <3> QED
      BY <1>5, <2>2, <3>6
  <2>3. CASE hi < n
    <3>1. n - hi \in 1..Len(b) /\ Len(a) + Len(p) + (n - hi) = n
      BY <1>1, <1>5, <2>3
    <3>2. f[n] = b[n - hi]
      BY <1>4, <3>1
    <3>3. ~IsStrictPrefix(prefix, f[n].key)
      BY <3>1, <3>2
    <3> QED
      BY <1>5, <2>3, <3>3
  <2> QED
    BY <1>5, <2>1, <2>2, <2>3
<1>7. ASSUME NEW i \in 1..Len(kv)
      PROVE  /\ entries[lo + i].key = kv[i].key
             /\ Put(entries, lo + i) = kv[i]
  <2>1. lo + i \in DOMAIN f /\ f[lo + i] = p[i]
    BY <1>1, <1>4, <1>5
  <2>2. f[lo + i] = Entry(prefix \o kv[i].key, kv[i].type, kv[i].val)
    BY <1>1, <2>1
  <2>3. Stripped(prefix \o kv[i].key, prefix) = kv[i].key
    BY <1>3, Stripping
  <2>4. entries[lo + i] = [f[lo + i] EXCEPT !.key = Stripped(@, prefix)]
    BY <2>1
  <2> HIDE DEF entries
  <2>5. entries[lo + i] = Entry(kv[i].key, kv[i].type, kv[i].val)
    BY <2>2, <2>3, <2>4 DEF Entry
  <2>6. kv[i] = Entry(kv[i].key, kv[i].type, kv[i].val)
    <3>1. kv[i] \in [key : Seq(K), type : T, val : V]
      BY <1>3 DEF S, EntriesOf
    <3> QED
      BY <3>1 DEF Entry
  <2> QED
    BY <2>5, <2>6 DEF Put, Entry
<1>8. Len(entries) = hi + Len(b)
  BY <1>5
<1> HIDE DEF entries, chosen
<1>9. ASSUME NEW n \in (lo + 1)..hi
      PROVE  /\ n - lo \in 1..Len(kv) /\ entries[n].key = kv[n - lo].key
             /\ Put(entries, n) \in S
  <2>1. n - lo \in 1..Len(kv) /\ lo + (n - lo) = n
    BY <1>5
  <2> QED
    BY <1>3, <1>7, <2>1
<1> HIDE DEF lo, hi
<1>10. \A m, n \in (lo + 1)..hi : entries[m].key = entries[n].key => m = n
  <2> SUFFICES ASSUME NEW m \in (lo + 1)..hi, NEW n \in (lo + 1)..hi,
                      entries[m].key = entries[n].key
               PROVE  m = n
    OBVIOUS
  <2>1. /\ m - lo \in DOMAIN kv /\ n - lo \in DOMAIN kv
        /\ kv[m - lo].key = kv[n - lo].key
    BY <1>5, <1>9
  <2>2. m - lo = n - lo
    BY <2>1, Zenon DEF UniqueKeys
  <2> QED
    BY <1>5, <2>2
<1> DEFINE r == PutEach(<<>>, entries, chosen)
<1>11. r \in Seq(S) /\ IsBlock(r, <<>>, entries, lo, hi)
  <2>1. /\ <<>> \in Seq(S) /\ Len(entries) \in Nat /\ lo <= hi /\ hi <= Len(entries)
        /\ \A n \in 1..Len(entries) : n \in chosen <=> lo < n /\ n <= hi
    BY <1>5, <1>6, <1>8 DEF lo, hi
  <2>2. Keys(<<>>) = {}
    BY DEF Keys
  <2>3. \A n \in (lo + 1)..hi : Put(entries, n) \in S /\ entries[n].key \notin Keys(<<>>)
    BY <1>9, <2>2
  <2> QED
    BY <1>5, <1>10, <2>1, <2>3, PutEachBlock
<1> HIDE DEF r
<1>12. hi - lo = Len(kv) /\ Len(<<>>) = 0
  BY <1>5 DEF lo, hi
<1>13. Len(r) = Len(kv)
  BY <1>5, <1>11, <1>12 DEF IsBlock
<1>14. ASSUME NEW i \in 1..Len(kv) PROVE r[i] = kv[i]
  <2>1. r[Len(<<>>) + i] = Put(entries, lo + i)
    BY <1>11, <1>12 DEF IsBlock
  <2>2. Len(<<>>) + i = i
    BY <1>12
  <2> QED
    BY <1>7, <2>1, <2>2
<1>15. r = kv
  <2>1. kv \in Seq(S)
    BY DEF S
  <2> QED
    BY <1>11, <1>13, <1>14, <2>1, SeqEqual
<1> QED
  BY <1>2, <1>15 DEF r, f, p

\* kv_get finds the value of an entry whose key no other has.
LEMMA GetUnique ==
  ASSUME NEW S, NEW kv \in Seq(S), UniqueKeys(kv), NEW i \in 1..Len(kv)
  PROVE  /\ KvGet(kv, kv[i].key) = kv[i].val
         /\ \A type : KvHas(kv, kv[i].key, type) <=> kv[i].type = type
<1> DEFINE key == kv[i].key
           f == KvFind(kv, key)
<1>1. key \in Keys(kv) /\ DOMAIN kv = 1..Len(kv)
  BY DEF Keys
<1>2. f \in 1..Len(kv) /\ kv[f].key = key
  BY <1>1, KvFindFirst
<1>3. f = i
  <2> HIDE DEF f
  <2> QED
    BY <1>1, <1>2 DEF UniqueKeys
<1> QED
  BY <1>1, <1>3 DEF KvGet, KvHas

\* A short key has no prefix that is as long.
LEMMA ShortKey ==
  ASSUME NEW K, NEW prefix \in Seq(K), NEW key \in Seq(K), Len(key) <= Len(prefix)
  PROVE  ~IsStrictPrefix(prefix, key)
<1> SUFFICES ASSUME IsStrictPrefix(prefix, key) PROVE FALSE
  OBVIOUS
<1>1. Len(key) = Len(prefix) /\ prefix # key
      /\ SubSeq(prefix, 1, Len(prefix)) = SubSeq(key, 1, Len(prefix))
  BY DEF IsStrictPrefix, IsPrefix
<1>2. SubSeq(prefix, 1, Len(prefix)) = prefix /\ SubSeq(key, 1, Len(key)) = key
  BY SubSeqFull
<1> QED
  BY <1>1, <1>2

LEMMA One ==
  ASSUME NEW S, NEW x \in S
  PROVE  <<x>> \in Seq(S) /\ Len(<<x>>) = 1 /\ <<x>>[1] = x /\ <<x>> # <<>>
OBVIOUS

LEMMA Two ==
  ASSUME NEW S, NEW x \in S, NEW y \in S
  PROVE  /\ <<x, y>> \in Seq(S) /\ Len(<<x, y>>) = 2
         /\ <<x, y>>[1] = x /\ <<x, y>>[2] = y /\ <<x, y>> # <<>>
OBVIOUS

LEMMA TwoIsConcat ==
  ASSUME NEW S, NEW x \in S, NEW y \in S
  PROVE  <<x, y>> = <<x>> \o <<y>>
<1> DEFINE a == <<x>>
           b == <<y>>
           two == <<x, y>>
<1>1. /\ a \in Seq(S) /\ Len(a) = 1 /\ a[1] = x
      /\ b \in Seq(S) /\ Len(b) = 1 /\ b[1] = y
  BY One
<1>2. two \in Seq(S) /\ Len(two) = 2 /\ two[1] = x /\ two[2] = y
  BY Two
<1> HIDE DEF a, b, two
<1>3. /\ a \o b \in Seq(S) /\ Len(a \o b) = 2
      /\ \A i \in 1..2 : (a \o b)[i] = IF i <= 1 THEN a[i] ELSE b[i - 1]
  BY <1>1, ConcatProperties
<1>4. \A i \in 1..2 : two[i] = (a \o b)[i]
  BY <1>1, <1>2, <1>3
<1>5. two = a \o b
  BY <1>2, <1>3, <1>4, SeqEqual
<1> QED
  BY <1>5 DEF a, b, two

\* kv_join keeps keys apart.
LEMMA JoinUnique ==
  ASSUME NEW K, NEW T, NEW V, NEW kv1 \in Seq(EntriesOf(K, T, V)),
         NEW kv2 \in Seq(EntriesOf(K, T, V)), NEW prefix \in Seq(K), UniqueKeys(kv1)
  PROVE  UniqueKeys(KvJoin(kv1, kv2, prefix))
<1> DEFINE p == Prefixed(kv2, prefix)
           S == EntriesOf(K, T, V)
<1>1. KvJoin(kv1, kv2, prefix) = PutEach(kv1, p, DOMAIN p)
  BY DEF KvJoin, PutAll, Prefixed
<1>2. /\ p \in Seq(S) /\ Len(p) = Len(kv2)
      /\ \A n \in 1..Len(kv2) : Put(p, n) = p[n]
  BY PrefixedIs
<1> HIDE DEF p
<1>3. /\ Len(p) \in Nat /\ DOMAIN p = 1..Len(p)
      /\ \A n \in DOMAIN p \cap (1..Len(p)) : Put(p, n) \in S
  BY <1>2
<1> HIDE DEF S
<1>4. kv1 \in Seq(S)
  BY DEF S
<1> QED
  BY <1>1, <1>3, <1>4, PutEachUnique

LEMMA EntryFields ==
  ASSUME NEW key, NEW type, NEW val
  PROVE  /\ Entry(key, type, val).key = key
         /\ Entry(key, type, val).type = type
         /\ Entry(key, type, val).val = val
BY DEF Entry

LEMMA NotAmongKeys ==
  ASSUME NEW S, NEW kv \in Seq(S), NEW key, \A i \in 1..Len(kv) : kv[i].key # key
  PROVE  key \notin Keys(kv)
BY DEF Keys

LEMMA NotEmpty ==
  ASSUME NEW S, NEW s \in Seq(S), s # <<>>
  PROVE  Len(s) \in Nat /\ Len(s) > 0
<1>1. Len(s) \in Nat
  OBVIOUS
<1>2. Len(s) # 0
  OBVIOUS
<1> QED
  BY <1>1, <1>2

-----------------------------------------------------------------------------
(* Sequences one after the other.                                          *)

FlatStep(seqs, f, n) == IF n = 1 THEN seqs[n] ELSE f[n - 1] \o seqs[n]

IsFlat(seqs, N, f) == f = [n \in 1..N |-> FlatStep(seqs, f, n)]

\* The recursive function of FlattenSeq is there.
LEMMA FlatExists ==
  ASSUME NEW seqs
  PROVE  \A N \in Nat : \E f : IsFlat(seqs, N, f)
<1> DEFINE T == {N \in Nat : \E f : IsFlat(seqs, N, f)}
<1>1. 0 \in T
  <2>1. IsFlat(seqs, 0, [n \in 1..0 |-> seqs])
    BY DEF IsFlat
  <2> QED
    BY <2>1
<1>2. ASSUME NEW N \in Nat, N \in T PROVE N + 1 \in T
  <2>1. PICK g : IsFlat(seqs, N, g)
    BY <1>2
  <2> DEFINE h == [n \in 1..(N + 1) |-> IF n <= N THEN g[n] ELSE FlatStep(seqs, g, N + 1)]
  <2>2. \A n \in 1..(N + 1) : h[n] = FlatStep(seqs, h, n)
    <3> SUFFICES ASSUME NEW n \in 1..(N + 1) PROVE h[n] = FlatStep(seqs, h, n)
      OBVIOUS
    <3>1. h[n] = FlatStep(seqs, g, n)
      BY <2>1 DEF IsFlat
    <3>2. n # 1 => n - 1 \in 1..(N + 1) /\ n - 1 <= N /\ h[n - 1] = g[n - 1]
      OBVIOUS
    <3> HIDE DEF h
    <3> QED
      BY <3>1, <3>2 DEF FlatStep
  <2>3. IsFlat(seqs, N + 1, h)
    BY <2>2 DEF IsFlat
  <2> QED
    BY <2>3
<1>3. Nat \subseteq T
  <2> HIDE DEF T
  <2> QED
    BY <1>1, <1>2, Induction
<1> QED
  BY <1>3

\* Where each of them begins in buf: after at[n] elements.
Flat(seqs, buf, at) ==
  /\ at \in [1..(Len(seqs) + 1) -> Nat] /\ at[1] = 0
  /\ \A n \in 1..Len(seqs) : /\ at[n + 1] = at[n] + Len(seqs[n])
                             /\ at[n + 1] <= Len(buf)
                             /\ \A k \in 1..Len(seqs[n]) : buf[at[n] + k] = seqs[n][k]
  /\ Len(buf) = at[Len(seqs) + 1]

\* What a sequence was is still there, and what was appended to it.
Extends(old, more, new) ==
  /\ Len(new) \in Nat /\ Len(new) = Len(old) + Len(more)
  /\ \A lo, len \in Nat : lo + len <= Len(old) =>
       /\ lo + len <= Len(new)
       /\ \A k \in 1..len : new[lo + k] = old[lo + k]
  /\ \A k \in 1..Len(more) : new[Len(old) + k] = more[k]

LEMMA Extended ==
  ASSUME NEW S, NEW old \in Seq(S), NEW more \in Seq(S)
  PROVE  old \o more \in Seq(S) /\ Extends(old, more, old \o more)
<1> DEFINE new == old \o more
<1>1. /\ new \in Seq(S) /\ Len(new) = Len(old) + Len(more)
      /\ \A k \in 1..(Len(old) + Len(more)) :
           new[k] = IF k <= Len(old) THEN old[k] ELSE more[k - Len(old)]
      /\ Len(old) \in Nat /\ Len(more) \in Nat
  BY ConcatProperties
<1> HIDE DEF new
<1>2. ASSUME NEW lo \in Nat, NEW len \in Nat, lo + len <= Len(old), NEW k \in 1..len
      PROVE  new[lo + k] = old[lo + k]
  <2>1. lo + k \in 1..(Len(old) + Len(more)) /\ lo + k <= Len(old)
    BY <1>1, <1>2
  <2> QED
    BY <1>1, <2>1
<1>3. ASSUME NEW k \in 1..Len(more) PROVE new[Len(old) + k] = more[k]
  <2>1. /\ Len(old) + k \in 1..(Len(old) + Len(more)) /\ ~(Len(old) + k <= Len(old))
        /\ (Len(old) + k) - Len(old) = k
    BY <1>1
  <2> QED
    BY <1>1, <2>1
<1>4. \A lo, len \in Nat : lo + len <= Len(old) => lo + len <= Len(new)
  BY <1>1
<1> QED
  BY <1>1, <1>2, <1>3, <1>4 DEF new, Extends

LEMMA Flattened ==
  ASSUME NEW S, NEW seqs \in Seq(Seq(S))
  PROVE  /\ FlattenSeq(seqs) \in Seq(S)
         /\ \E at : Flat(seqs, FlattenSeq(seqs), at)
<1> DEFINE N == Len(seqs)
<1>1. N \in Nat /\ \A n \in 1..N : seqs[n] \in Seq(S) /\ Len(seqs[n]) \in Nat
  OBVIOUS
<1>2. CASE N = 0
  <2>1. seqs = <<>> /\ FlattenSeq(seqs) = seqs
    BY <1>2 DEF FlattenSeq
  <2>2. <<>> \in Seq(S) /\ Len(<<>>) = 0
    OBVIOUS
  <2>3. Flat(seqs, FlattenSeq(seqs), [n \in 1..1 |-> 0])
    BY <2>1, <2>2 DEF Flat
  <2> QED
    BY <2>1, <2>2, <2>3
<1>3. CASE N # 0
  <2> DEFINE f == CHOOSE g : IsFlat(seqs, N, g)
  <2>1. IsFlat(seqs, N, f)
    BY <1>1, FlatExists
  <2>2. FlattenSeq(seqs) = f[N]
    BY <1>3 DEF FlattenSeq, IsFlat, FlatStep
  <2> HIDE DEF f, N
  <2>3. \A n \in 1..N : f[n] = FlatStep(seqs, f, n)
    BY <2>1 DEF IsFlat
  <2>4. \A n \in 1..N : f[n] \in Seq(S)
    <3> DEFINE T == {n \in Nat : f[n + 1] \in Seq(S)}
    <3>1. 0 \in T
      <4>1. 1 \in 1..N /\ 0 + 1 = 1
        BY <1>1, <1>3
      <4>2. f[1] = seqs[1]
        BY <2>3, <4>1 DEF FlatStep
      <4> QED
        BY <1>1, <4>1, <4>2
    <3>2. ASSUME NEW n \in 0..((N - 1) - 1), n \in T PROVE n + 1 \in T
      <4>1. (n + 1) + 1 \in 1..N /\ ((n + 1) + 1) - 1 = n + 1 /\ (n + 1) + 1 # 1 /\ n + 1 \in Nat
        BY <1>1
      <4>2. f[(n + 1) + 1] = f[n + 1] \o seqs[(n + 1) + 1]
        BY <2>3, <4>1 DEF FlatStep
      <4>3. f[n + 1] \in Seq(S) /\ seqs[(n + 1) + 1] \in Seq(S)
        BY <1>1, <3>2, <4>1
      <4>4. f[(n + 1) + 1] \in Seq(S)
        BY <4>2, <4>3, ConcatProperties
      <4> QED
        BY <4>1, <4>4
    <3> HIDE DEF T
    <3>3. 0..(N - 1) \subseteq T
      <4>1. N - 1 \in Nat
        BY <1>1, <1>3
      <4> QED
        BY <3>1, <3>2, <4>1, InductionTo
    <3>4. \A n \in 1..N : n - 1 \in T
      BY <1>1, <3>3
    <3> QED
      BY <1>1, <3>4 DEF T
  <2> DEFINE at == [n \in 1..(N + 1) |-> IF n = 1 THEN 0 ELSE Len(f[n - 1])]
  <2>5. at[1] = 0 /\ \A n \in 1..N : at[n + 1] = Len(f[n])
    BY <1>1
  <2>6. at \in [1..(N + 1) -> Nat]
    <3>1. \A n \in 1..(N + 1) : n # 1 => n - 1 \in 1..N /\ Len(f[n - 1]) \in Nat
      BY <1>1, <2>4
    <3> QED
      BY <3>1
  <2> HIDE DEF at
  <2>7. ASSUME NEW n \in 1..N, n # 1
        PROVE  /\ n - 1 \in 1..N /\ f[n] = f[n - 1] \o seqs[n]
               /\ Len(f[n]) = Len(f[n - 1]) + Len(seqs[n]) /\ at[n] = Len(f[n - 1])
               /\ \A k \in 1..(Len(f[n - 1]) + Len(seqs[n])) :
                    f[n][k] = IF k <= Len(f[n - 1]) THEN f[n - 1][k] ELSE seqs[n][k - Len(f[n - 1])]
    <3>1. n - 1 \in 1..N /\ (n - 1) + 1 = n
      BY <1>1, <2>7
    <3>2. f[n] = f[n - 1] \o seqs[n]
      BY <2>3, <2>7 DEF FlatStep
    <3>3. f[n - 1] \in Seq(S) /\ seqs[n] \in Seq(S)
      BY <1>1, <2>4, <3>1
    <3>4. /\ Len(f[n - 1] \o seqs[n]) = Len(f[n - 1]) + Len(seqs[n])
          /\ \A k \in 1..(Len(f[n - 1]) + Len(seqs[n])) :
               (f[n - 1] \o seqs[n])[k] =
                 IF k <= Len(f[n - 1]) THEN f[n - 1][k] ELSE seqs[n][k - Len(f[n - 1])]
      BY <3>3, ConcatProperties
    <3>5. at[n] = Len(f[n - 1])
      BY <2>5, <3>1
    <3> QED
      BY <3>1, <3>2, <3>4, <3>5
  <2>8. ASSUME NEW n \in 1..N
        PROVE  at[n + 1] = at[n] + Len(seqs[n]) /\ at[n] \in Nat /\ Len(seqs[n]) \in Nat
    <3>1. at[n] \in Nat /\ Len(seqs[n]) \in Nat /\ at[n + 1] = Len(f[n])
      BY <1>1, <2>5, <2>6
    <3>2. CASE n = 1
      <4>1. f[1] = seqs[1]
        BY <2>3, <3>2 DEF FlatStep
      <4> QED
        BY <2>5, <3>1, <3>2, <4>1
    <3>3. CASE n # 1
      BY <2>7, <3>1, <3>3
    <3> QED
      BY <3>1, <3>2, <3>3
  <2> DEFINE Good(n) == \A m \in 1..n :
                          /\ at[m + 1] <= Len(f[n])
                          /\ \A k \in 1..Len(seqs[m]) : f[n][at[m] + k] = seqs[m][k]
             T == {n \in Nat : Good(n + 1)}
  <2>9. 0 \in T
    <3>1. 1 \in 1..N
      BY <1>1, <1>3
    <3>2. f[1] = seqs[1] /\ Len(f[1]) \in Nat
      BY <2>3, <2>4, <3>1 DEF FlatStep
    <3>3. ASSUME NEW m \in 1..1
          PROVE  /\ at[m + 1] <= Len(f[1])
                 /\ \A k \in 1..Len(seqs[m]) : f[1][at[m] + k] = seqs[m][k]
      <4>1. m = 1 /\ at[m + 1] = Len(f[1]) /\ at[m] = 0
        BY <2>5, <3>1
      <4>2. \A k \in 1..Len(seqs[m]) : at[m] + k = k
        BY <1>1, <3>1, <4>1
      <4> QED
        BY <3>2, <4>1, <4>2
    <3>4. Good(1)
      BY <3>3
    <3>5. 0 + 1 = 1
      OBVIOUS
    <3> QED
      BY <3>4, <3>5
  <2>10. ASSUME NEW n \in 0..((N - 1) - 1), n \in T PROVE n + 1 \in T
    <3> DEFINE p == n + 1
               q == p + 1
    <3>1. p \in 1..N /\ q \in 1..N /\ q - 1 = p /\ q # 1 /\ p \in Nat
      BY <1>1
    <3>2. Good(p)
      BY <2>10
    <3> HIDE DEF p, q
    <3>3. f[q] = f[p] \o seqs[q] /\ at[q] = Len(f[p]) /\ f[p] \in Seq(S) /\ seqs[q] \in Seq(S)
      BY <1>1, <2>4, <2>7, <3>1
    <3>6. Extends(f[p], seqs[q], f[q])
      BY <3>3, Extended
    <3>4. ASSUME NEW m \in 1..q
          PROVE  /\ at[m + 1] <= Len(f[q])
                 /\ \A k \in 1..Len(seqs[m]) : f[q][at[m] + k] = seqs[m][k]
      <4>1. CASE m = q
        <5>1. at[q + 1] = Len(f[q])
          BY <2>5, <3>1
        <5>2. Len(f[q]) \in Nat /\ \A k \in 1..Len(seqs[q]) : f[q][Len(f[p]) + k] = seqs[q][k]
          BY <3>6 DEF Extends
        <5>3. at[q + 1] <= Len(f[q])
          BY <5>1, <5>2
        <5>4. \A k \in 1..Len(seqs[q]) : f[q][at[q] + k] = seqs[q][k]
          BY <3>3, <5>2
        <5> QED
          BY <4>1, <5>3, <5>4
      <4>2. CASE m # q
        <5>1. m \in 1..p /\ m \in 1..N
          <6>1. p \in Nat /\ q = p + 1 /\ p <= N
            BY <3>1 DEF q
          <6> QED
            BY <1>1, <4>2, <6>1
        <5>2. /\ at[m + 1] <= Len(f[p])
              /\ \A k \in 1..Len(seqs[m]) : f[p][at[m] + k] = seqs[m][k]
          BY <3>2, <5>1
        <5>3. at[m + 1] = at[m] + Len(seqs[m]) /\ at[m] \in Nat /\ Len(seqs[m]) \in Nat
          BY <2>8, <5>1
        <5>4. at[m] + Len(seqs[m]) <= Len(f[p])
          BY <5>2, <5>3
        <5>5. /\ at[m] + Len(seqs[m]) <= Len(f[q])
              /\ \A k \in 1..Len(seqs[m]) : f[q][at[m] + k] = f[p][at[m] + k]
          BY <3>6, <5>3, <5>4 DEF Extends
        <5> QED
          BY <5>2, <5>3, <5>5
      <4> QED
        BY <4>1, <4>2
    <3>5. Good(q)
      BY <3>4
    <3>7. p \in T
      BY <3>1, <3>5 DEF q
    <3> QED
      BY <3>7 DEF p
  <2> HIDE DEF T
  <2>11. N \in 1..N /\ N - 1 \in Nat /\ (N - 1) + 1 = N
    BY <1>1, <1>3
  <2>12. N - 1 \in T
    <3>1. 0..(N - 1) \subseteq T
      BY <2>9, <2>10, <2>11, InductionTo
    <3> QED
      BY <2>11, <3>1
  <2>13. \A m \in 1..N : /\ at[m + 1] <= Len(f[N])
                         /\ \A k \in 1..Len(seqs[m]) : f[N][at[m] + k] = seqs[m][k]
    BY <2>11, <2>12 DEF T
  <2>14. Len(f[N]) = at[N + 1]
    BY <2>5, <2>11
  <2>15. Flat(seqs, f[N], at)
    BY <2>5, <2>6, <2>8, <2>13, <2>14 DEF Flat, N
  <2> QED
    BY <2>2, <2>4, <2>11, <2>15
<1> QED
  BY <1>2, <1>3

-----------------------------------------------------------------------------
(* The buffer of a kv, and what a walk over it finds.                      *)

\* A string of C.
Clean(s) == s \in Seq(Range(s)) /\ NUL \notin Range(s)

\* What kv_put takes.
Codable(e) ==
  /\ e = Entry(e.key, e.type, e.val)
  /\ Clean(e.key) /\ e.key # <<>> /\ e.type \in KvTypes /\ Clean(e.val)

\* Where an entry with a key and a value of k and v symbols ends.
Size(k, v) == k + v + 3

LEMMA SameSequence ==
  ASSUME NEW S, NEW s \in Seq(S), NEW T, NEW t \in Seq(T),
         Len(s) = Len(t), \A j \in 1..Len(s) : s[j] = t[j]
  PROVE  s = t
<1> DEFINE R == S \cup T
<1>1. S \subseteq R /\ T \subseteq R
  OBVIOUS
<1> HIDE DEF R
<1>2. s \in Seq(R)
  BY <1>1, SeqMonotonic
<1>3. t \in Seq(R)
  BY <1>1, SeqMonotonic
<1> QED
  BY <1>2, <1>3, SeqEqual

\* The first NUL from offset o on stands k symbols further.
FirstNul(buf, o, max, k) ==
  /\ k \in 0..(max - 1) /\ buf[o + k + 1] = NUL
  /\ \A j \in 0..(k - 1) : buf[o + j + 1] # NUL

LEMMA StrnlenIs ==
  ASSUME NEW buf, NEW o \in Nat, NEW max \in Nat, NEW k, FirstNul(buf, o, max, k)
  PROVE  Strnlen(buf, o, max) = k
<1> DEFINE T == {max} \cup {n \in 0..(max - 1) : buf[o + n + 1] = NUL}
<1>0. /\ k \in 0..(max - 1) /\ buf[o + k + 1] = NUL
      /\ \A j \in 0..(k - 1) : buf[o + j + 1] # NUL
  BY DEF FirstNul
<1>1. k \in T /\ \A n \in T : k <= n
  <2>1. ASSUME NEW n \in T PROVE k <= n
    <3>1. CASE n = max
      BY <1>0, <3>1
    <3>2. CASE n # max
      <4>1. n \in 0..(max - 1) /\ buf[o + n + 1] = NUL
        BY <2>1, <3>2
      <4>2. n \notin 0..(k - 1)
        BY <1>0, <4>1
      <4> QED
        BY <1>0, <4>1, <4>2
    <3> QED
      BY <3>1, <3>2
  <2> QED
    BY <1>0, <2>1
<1>2. \A n \in T : n \in Int
  OBVIOUS
<1>3. Strnlen(buf, o, max) = CHOOSE n \in T : \A m \in T : n <= m
  BY DEF Strnlen, Min
<1> HIDE DEF T
<1>4. \A n \in T : (\A m \in T : n <= m) => n = k
  BY <1>1, <1>2
<1> QED
  BY <1>1, <1>3, <1>4

\* Entry e stands at offset o of a buffer.
Placed(e, buf, o) ==
  LET k == Len(e.key)
      v == Len(e.val)
  IN /\ k \in Nat /\ k > 0 /\ v \in Nat /\ o \in Nat /\ Len(buf) \in Nat
     /\ o + Size(k, v) <= Len(buf)
     /\ \A n \in 1..k : buf[o + n] = e.key[n]
     /\ buf[o + k + 1] = NUL /\ buf[o + k + 2] = e.type
     /\ \A n \in 1..v : buf[o + k + 2 + n] = e.val[n]
     /\ buf[o + k + 2 + v + 1] = NUL

\* The functions that read a buffer find it there.
LEMMA PlacedIsRead ==
  ASSUME NEW S, NEW buf \in Seq(S), NEW e, Codable(e), NEW o, Placed(e, buf, o)
  PROVE  /\ EntryLength(buf, o) = Size(Len(e.key), Len(e.val))
         /\ KeyAt(buf, o) = e.key /\ TypeAt(buf, o) = e.type
         /\ EntryAt(buf, o) = e
<1> DEFINE k == Len(e.key)
           v == Len(e.val)
           max == Len(buf) - o
           left == max - (k + 1)
           w == o + k + 2
<1>1. /\ k \in Nat /\ k > 0 /\ v \in Nat /\ o \in Nat /\ Len(buf) \in Nat
      /\ o + (k + v + 3) <= Len(buf)
  BY DEF Placed, Size
<1>2. /\ \A n \in 1..k : buf[o + n] = e.key[n]
      /\ buf[o + k + 1] = NUL /\ buf[o + k + 2] = e.type
      /\ \A n \in 1..v : buf[o + k + 2 + n] = e.val[n]
      /\ buf[o + k + 2 + v + 1] = NUL
  BY DEF Placed
<1>3. /\ e.key \in Seq(Range(e.key)) /\ e.val \in Seq(Range(e.val)) /\ e.type # NUL
      /\ \A n \in 1..k : e.key[n] # NUL
      /\ \A n \in 1..v : e.val[n] # NUL
  <2>1. Clean(e.key) /\ Clean(e.val) /\ e.type \in KvTypes
    BY DEF Codable
  <2>2. e.type # NUL
    BY <2>1 DEF KvTypes, NUL
  <2> QED
    BY <2>1, <2>2 DEF Clean, Range
<1> HIDE DEF k, v
<1>4. Strnlen(buf, o, max) = k
  <2>1. max \in Nat /\ k \in 0..(max - 1)
    BY <1>1
  <2>2. ASSUME NEW j \in 0..(k - 1) PROVE buf[o + j + 1] # NUL
    <3>1. j + 1 \in 1..k /\ o + (j + 1) = o + j + 1
      BY <1>1
    <3> QED
      BY <1>2, <1>3, <3>1
  <2> HIDE DEF max
  <2>3. FirstNul(buf, o, max, k)
    BY <1>2, <2>1, <2>2 DEF FirstNul
  <2> QED
    BY <1>1, <2>1, <2>3, StrnlenIs
<1>5. Strnlen(buf, o + k + 1, left) = v + 1
  <2>1. left \in Nat /\ v + 1 \in 0..(left - 1) /\ o + k + 1 \in Nat
    BY <1>1
  <2>2. ASSUME NEW j \in 0..v PROVE buf[(o + k + 1) + j + 1] # NUL
    <3>1. CASE j = 0
      <4>1. (o + k + 1) + j + 1 = o + k + 2
        BY <1>1, <3>1
      <4> QED
        BY <1>2, <1>3, <4>1
    <3>2. CASE j # 0
      <4>1. j \in 1..v /\ (o + k + 1) + j + 1 = o + k + 2 + j
        BY <1>1, <3>2
      <4> QED
        BY <1>2, <1>3, <4>1
    <3> QED
      BY <3>1, <3>2
  <2>3. (o + k + 1) + (v + 1) + 1 = o + k + 2 + v + 1 /\ (v + 1) - 1 = v
    BY <1>1
  <2>4. buf[(o + k + 1) + (v + 1) + 1] = NUL /\ \A j \in 0..((v + 1) - 1) : buf[(o + k + 1) + j + 1] # NUL
    BY <1>2, <2>2, <2>3
  <2> DEFINE p == o + k + 1
             q == v + 1
  <2>5. p \in Nat /\ left \in Nat /\ FirstNul(buf, p, left, q)
    BY <2>1, <2>4 DEF FirstNul
  <2> HIDE DEF left, p, q
  <2>6. Strnlen(buf, p, left) = q
    BY <2>5, StrnlenIs
  <2> QED
    BY <2>6 DEF p, q
<1>6. EntryLength(buf, o) = Size(k, v)
  <2>1. k \notin {0, max} /\ v + 1 \notin {0, left} /\ k + (v + 1) + 2 = k + v + 3
    BY <1>1
  <2> QED
    BY <1>4, <1>5, <2>1 DEF EntryLength, Size
<1>7. KeyAt(buf, o) = e.key
  <2> DEFINE s == SubSeq(buf, o + 1, o + k)
  <2>1. KeyAt(buf, o) = s
    BY <1>4 DEF KeyAt
  <2>2. /\ o + 1 \in Int /\ o + k \in Int /\ o + 1 <= o + k /\ (o + k) - (o + 1) + 1 = k
        /\ \A n \in (o + 1)..(o + k) : n \in 1..Len(buf)
    BY <1>1
  <2>3. \A n \in (o + 1)..(o + k) : buf[n] \in S
    BY <2>2
  <2>4. /\ s \in Seq(S) /\ Len(s) = k
        /\ \A n \in 1..k : s[n] = buf[(o + 1) + n - 1]
    BY <2>2, <2>3, SubSeqProperties
  <2>5. \A n \in 1..k : (o + 1) + n - 1 = o + n
    BY <1>1
  <2>6. \A n \in 1..k : s[n] = e.key[n]
    BY <1>2, <2>4, <2>5
  <2> HIDE DEF s
  <2>7. s = e.key
    BY <1>3, <2>4, <2>6, SameSequence DEF k
  <2> QED
    BY <2>1, <2>7
<1>8. TypeAt(buf, o) = e.type
  BY <1>2, <1>7 DEF TypeAt, k
<1>9. ValAt(buf, o) = e.val
  <2>0. w \in Nat /\ w = o + k + 2
    BY <1>1
  <2> HIDE DEF w
  <2>1. Strnlen(buf, w, Len(buf) - w) = v
    <3> DEFINE rest == Len(buf) - w
    <3>1. rest \in Nat /\ v \in 0..(rest - 1)
      BY <1>1, <2>0
    <3>2. ASSUME NEW j \in 0..(v - 1) PROVE buf[w + j + 1] # NUL
      <4>1. j + 1 \in 1..v /\ o + k + 2 + (j + 1) = w + j + 1
        BY <1>1, <2>0
      <4> QED
        BY <1>2, <1>3, <4>1
    <3>3. buf[w + v + 1] = NUL
      BY <1>2, <2>0
    <3>4. FirstNul(buf, w, rest, v)
      BY <3>1, <3>2, <3>3 DEF FirstNul
    <3> HIDE DEF rest
    <3>5. Strnlen(buf, w, rest) = v
      BY <2>0, <3>1, <3>4, StrnlenIs
    <3> QED
      BY <3>5 DEF rest
  <2> DEFINE s == SubSeq(buf, w + 1, w + v)
  <2>2. ValAt(buf, o) = s
    <3>1. ValAt(buf, o) = SubSeq(buf, w + 1, w + Strnlen(buf, w, Len(buf) - w))
      BY <1>7, <2>0 DEF ValAt, k
    <3> QED
      BY <2>1, <3>1
  <2>3. /\ w + 1 \in Int /\ w + v \in Int
        /\ (IF w + 1 <= w + v THEN (w + v) - (w + 1) + 1 ELSE 0) = v
        /\ (w + v) - (w + 1) + 1 = v
        /\ \A n \in (w + 1)..(w + v) : n \in 1..Len(buf)
    BY <1>1, <2>0
  <2>4. \A n \in (w + 1)..(w + v) : buf[n] \in S
    BY <2>3
  <2>5. /\ s \in Seq(S) /\ Len(s) = v
        /\ \A n \in 1..v : s[n] = buf[(w + 1) + n - 1]
    BY <2>3, <2>4, SubSeqProperties
  <2>6. \A n \in 1..v : (w + 1) + n - 1 = o + k + 2 + n
    BY <1>1, <2>0
  <2>7. \A n \in 1..v : s[n] = e.val[n]
    BY <1>2, <2>5, <2>6
  <2> HIDE DEF s
  <2>8. s = e.val
    BY <1>3, <2>5, <2>7, SameSequence DEF v
  <2> QED
    BY <2>2, <2>8
<1>10. EntryAt(buf, o) = e
  BY <1>7, <1>8, <1>9 DEF EntryAt, Codable
<1> QED
  BY <1>6, <1>7, <1>8, <1>10 DEF k, v

WalkStep(buf, seen, n) ==
  IF n = 0 THEN <<BufNext(buf, NULL)>>
  ELSE IF Last(seen[n - 1]) = NULL THEN seen[n - 1]
  ELSE Append(seen[n - 1], BufNext(buf, Last(seen[n - 1])))

IsWalk(buf, N, seen) == seen = [n \in 0..N |-> WalkStep(buf, seen, n)]

\* The recursive function of Visits is there.
LEMMA WalksExist ==
  ASSUME NEW buf
  PROVE  \A N \in Nat : \E seen : IsWalk(buf, N, seen)
<1> DEFINE T == {N \in Nat : \E seen : IsWalk(buf, N, seen)}
<1>1. 0 \in T
  <2>1. IsWalk(buf, 0, [n \in 0..0 |-> <<BufNext(buf, NULL)>>])
    BY DEF IsWalk, WalkStep
  <2> QED
    BY <2>1
<1>2. ASSUME NEW N \in Nat, N \in T PROVE N + 1 \in T
  <2>1. PICK g : IsWalk(buf, N, g)
    BY <1>2
  <2> DEFINE h == [n \in 0..(N + 1) |-> IF n <= N THEN g[n] ELSE WalkStep(buf, g, N + 1)]
  <2>2. \A n \in 0..(N + 1) : h[n] = WalkStep(buf, h, n)
    <3> SUFFICES ASSUME NEW n \in 0..(N + 1) PROVE h[n] = WalkStep(buf, h, n)
      OBVIOUS
    <3>1. h[n] = WalkStep(buf, g, n)
      BY <2>1 DEF IsWalk
    <3>2. n # 0 => n - 1 \in 0..(N + 1) /\ n - 1 <= N /\ h[n - 1] = g[n - 1]
      OBVIOUS
    <3> HIDE DEF h
    <3> QED
      BY <3>1, <3>2 DEF WalkStep
  <2>3. IsWalk(buf, N + 1, h)
    BY <2>2 DEF IsWalk
  <2> QED
    BY <2>3
<1>3. Nat \subseteq T
  <2> HIDE DEF T
  <2> QED
    BY <1>1, <1>2, Induction
<1> QED
  BY <1>3

\* What has been seen after each turn, the last time by Visits.
Walks(buf, seen) ==
  /\ seen[0] = <<BufNext(buf, NULL)>>
  /\ \A n \in 1..Len(buf) :
       seen[n] = IF Last(seen[n - 1]) = NULL THEN seen[n - 1]
                 ELSE Append(seen[n - 1], BufNext(buf, Last(seen[n - 1])))
  /\ Visits(buf) = Front(seen[Len(buf)])

LEMMA VisitsSteps ==
  ASSUME NEW buf, Len(buf) \in Nat
  PROVE  \E seen : Walks(buf, seen)
<1> DEFINE seen == CHOOSE g : IsWalk(buf, Len(buf), g)
<1>1. IsWalk(buf, Len(buf), seen)
  BY WalksExist
<1>2. Visits(buf) = Front(seen[Len(buf)])
  BY DEF Visits, IsWalk, WalkStep
<1> HIDE DEF seen
<1>3. \A n \in 0..Len(buf) : seen[n] = WalkStep(buf, seen, n)
  BY <1>1 DEF IsWalk
<1>4. seen[0] = <<BufNext(buf, NULL)>>
  <2>1. 0 \in 0..Len(buf)
    OBVIOUS
  <2> QED
    BY <1>3, <2>1 DEF WalkStep
<1>5. ASSUME NEW n \in 1..Len(buf)
      PROVE  seen[n] = IF Last(seen[n - 1]) = NULL THEN seen[n - 1]
                       ELSE Append(seen[n - 1], BufNext(buf, Last(seen[n - 1])))
  <2>1. n \in 0..Len(buf) /\ n # 0
    OBVIOUS
  <2> QED
    BY <1>3, <2>1 DEF WalkStep
<1> QED
  BY <1>2, <1>4, <1>5 DEF Walks

\* The places at[1..N] cut a buffer into entries.
Cuts(buf, N, at) ==
  /\ N \in Nat /\ Len(buf) \in Nat /\ at \in [1..(N + 1) -> Nat]
  /\ at[1] = 0 /\ at[N + 1] = Len(buf)
  /\ \A n \in 1..N : /\ EntryLength(buf, at[n]) \in Nat \ {0}
                     /\ at[n + 1] = at[n] + EntryLength(buf, at[n])

LEMMA CutsRise ==
  ASSUME NEW buf, NEW N, NEW at, Cuts(buf, N, at)
  PROVE  /\ N <= Len(buf)
         /\ \A m, n \in 1..(N + 1) : m < n => at[m] < at[n]
<1>1. /\ N \in Nat /\ Len(buf) \in Nat /\ at \in [1..(N + 1) -> Nat]
      /\ at[1] = 0 /\ at[N + 1] = Len(buf)
      /\ \A n \in 1..N : EntryLength(buf, at[n]) \in Nat \ {0}
                         /\ at[n + 1] = at[n] + EntryLength(buf, at[n])
  BY DEF Cuts
<1> DEFINE T == {n \in Nat : \A m \in 1..(n + 1) : at[m] + ((n + 1) - m) <= at[n + 1]}
<1>2. 0 \in T
  <2>1. ASSUME NEW m \in 1..(0 + 1) PROVE at[m] + ((0 + 1) - m) <= at[0 + 1]
    <3>1. m = 1 /\ (0 + 1) - m = 0 /\ 0 + 1 = 1
      OBVIOUS
    <3> QED
      BY <1>1, <3>1
  <2> QED
    BY <2>1
<1>3. ASSUME NEW n \in 0..(N - 1), n \in T PROVE n + 1 \in T
  <2> DEFINE p == n + 1
  <2>1. p \in 1..N /\ p + 1 \in 1..(N + 1) /\ p \in Nat
    BY <1>1
  <2>2. at[p + 1] = at[p] + EntryLength(buf, at[p]) /\ EntryLength(buf, at[p]) \in Nat \ {0}
        /\ at[p] \in Nat
    BY <1>1, <2>1
  <2>3. \A m \in 1..p : at[m] + (p - m) <= at[p]
    BY <1>3
  <2> HIDE DEF p
  <2>4. at[p] + 1 <= at[p + 1] /\ at[p + 1] \in Nat
    BY <2>2
  <2>5. ASSUME NEW m \in 1..(p + 1) PROVE at[m] + ((p + 1) - m) <= at[p + 1]
    <3>1. CASE m = p + 1
      <4>1. (p + 1) - m = 0
        BY <2>1, <3>1
      <4> QED
        BY <2>4, <3>1, <4>1
    <3>2. CASE m # p + 1
      <4>1. m \in 1..p /\ m \in 1..(N + 1) /\ p - m \in Nat /\ (p + 1) - m = (p - m) + 1
        <5>1. N \in Nat
          BY <1>1
        <5> QED
          BY <2>1, <3>2, <5>1
      <4>2. at[m] \in Nat /\ at[m] + (p - m) <= at[p]
        BY <1>1, <2>3, <4>1
      <4> QED
        BY <2>2, <2>4, <4>1, <4>2
    <3> QED
      BY <3>1, <3>2
  <2>6. p \in T
    BY <2>1, <2>5
  <2> QED
    BY <2>6 DEF p
<1>4. \A n \in 1..(N + 1) : \A m \in 1..n : at[m] + (n - m) <= at[n]
  <2> HIDE DEF T
  <2>1. 0..N \subseteq T
    BY <1>1, <1>2, <1>3, InductionTo
  <2>2. ASSUME NEW n \in 1..(N + 1) PROVE \A m \in 1..n : at[m] + (n - m) <= at[n]
    <3>1. n - 1 \in 0..N /\ (n - 1) + 1 = n
      BY <1>1
    <3>2. n - 1 \in T
      BY <2>1, <3>1
    <3> QED
      BY <3>1, <3>2 DEF T
  <2> QED
    BY <2>2
<1>5. N <= Len(buf)
  <2>1. N + 1 \in 1..(N + 1) /\ 1 \in 1..(N + 1) /\ (N + 1) - 1 = N
    BY <1>1
  <2>2. at[1] + ((N + 1) - 1) <= at[N + 1]
    BY <1>4, <2>1
  <2> QED
    BY <1>1, <2>1, <2>2
<1>6. ASSUME NEW m \in 1..(N + 1), NEW n \in 1..(N + 1), m < n PROVE at[m] < at[n]
  <2>1. m \in 1..n /\ n - m \in Nat /\ n - m > 0
    BY <1>6
  <2>2. at[m] + (n - m) <= at[n] /\ at[m] \in Nat /\ at[n] \in Nat
    BY <1>1, <1>4, <2>1
  <2> QED
    BY <2>1, <2>2
<1> QED
  BY <1>5, <1>6

\* kv_next goes from each place to the next.
LEMMA CutsNext ==
  ASSUME NEW buf, NEW N, NEW at, Cuts(buf, N, at), buf # <<>>
  PROVE  /\ BufNext(buf, NULL) = 0
         /\ \A n \in 1..N : /\ at[n] # NULL
                            /\ BufNext(buf, at[n]) = IF n < N THEN at[n + 1] ELSE NULL
<1>1. BufNext(buf, NULL) = 0
  BY DEF BufNext
<1>2. ASSUME NEW n \in 1..N
      PROVE  at[n] # NULL /\ BufNext(buf, at[n]) = IF n < N THEN at[n + 1] ELSE NULL
  <2> DEFINE len == EntryLength(buf, at[n])
  <2>1. /\ N \in Nat /\ at[n] \in Nat /\ at[n + 1] \in Nat /\ at[N + 1] = Len(buf)
        /\ len \in Nat /\ at[n + 1] = at[n] + len
        /\ n + 1 \in 1..(N + 1) /\ N + 1 \in 1..(N + 1)
    BY <1>2 DEF Cuts
  <2> HIDE DEF len
  <2>2. at[n] # NULL /\ len # Bad
    BY <2>1 DEF NULL, Bad
  <2>3. n < N <=> at[n] + len # Len(buf)
    <3>1. CASE n < N
      <4>1. n + 1 < N + 1
        BY <2>1, <3>1
      <4>2. at[n + 1] < at[N + 1]
        BY <2>1, <4>1, CutsRise
      <4> QED
        BY <2>1, <3>1, <4>2
    <3>2. CASE ~(n < N)
      <4>1. n = N
        BY <2>1, <3>2
      <4> QED
        BY <2>1, <3>2, <4>1
    <3> QED
      BY <3>1, <3>2
  <2> QED
    BY <2>1, <2>2, <2>3 DEF BufNext, len
<1> QED
  BY <1>1, <1>2

\* How many places have been seen after n turns, with the end for the last.
Upto(N, n) == IF n <= N THEN n + 1 ELSE N + 1

\* The first k of the places, and the end behind them.
PlacesSeen(s, N, at, k) ==
  /\ s \in Seq(Int) /\ Len(s) = k
  /\ \A j \in 1..k : s[j] = IF j <= N THEN at[j] ELSE NULL

LEMMA OneSeen ==
  ASSUME NEW x \in Int
  PROVE  <<x>> \in Seq(Int) /\ Len(<<x>>) = 1 /\ <<x>>[1] = x
OBVIOUS

LEMMA OneMoreSeen ==
  ASSUME NEW s, NEW N \in Nat, NEW at, NEW k \in 1..N, PlacesSeen(s, N, at, k),
         NEW next \in Int, next = IF k < N THEN at[k + 1] ELSE NULL
  PROVE  PlacesSeen(Append(s, next), N, at, k + 1)
<1>1. /\ s \in Seq(Int) /\ Len(s) = k
      /\ \A j \in 1..k : s[j] = IF j <= N THEN at[j] ELSE NULL
  BY DEF PlacesSeen
<1>2. /\ Append(s, next) \in Seq(Int) /\ Len(Append(s, next)) = k + 1
      /\ \A j \in 1..k : Append(s, next)[j] = s[j]
      /\ Append(s, next)[k + 1] = next
  BY <1>1, AppendProperties
<1>3. ASSUME NEW j \in 1..(k + 1)
      PROVE  Append(s, next)[j] = IF j <= N THEN at[j] ELSE NULL
  <2>1. CASE j = k + 1
    <3>1. k < N <=> j <= N
      BY <2>1
    <3> QED
      BY <1>2, <2>1, <3>1
  <2>2. CASE j # k + 1
    <3>1. j \in 1..k
      BY <2>2
    <3> QED
      BY <1>1, <1>2, <3>1
  <2> QED
    BY <2>1, <2>2
<1> QED
  BY <1>2, <1>3 DEF PlacesSeen

LEMMA CutsVisited ==
  ASSUME NEW S, NEW buf \in Seq(S), NEW N, NEW at, Cuts(buf, N, at)
  PROVE  /\ Visits(buf) \in Seq(Int) /\ Len(Visits(buf)) = N
         /\ \A n \in 1..N : Visits(buf)[n] = at[n]
<1>1. /\ N \in Nat /\ Len(buf) \in Nat /\ \A n \in 1..N : at[n] \in Nat
      /\ at[1] = 0 /\ at[N + 1] = Len(buf) /\ N <= Len(buf)
  <2>1. /\ N \in Nat /\ Len(buf) \in Nat /\ at \in [1..(N + 1) -> Nat]
        /\ at[1] = 0 /\ at[N + 1] = Len(buf)
    BY DEF Cuts
  <2>2. \A n \in 1..N : at[n] \in Nat
    BY <2>1
  <2>3. N <= Len(buf)
    BY CutsRise
  <2> QED
    BY <2>1, <2>2, <2>3
<1>2. PICK seen : Walks(buf, seen)
  BY <1>1, VisitsSteps
<1>3. /\ seen[0] = <<BufNext(buf, NULL)>>
      /\ \A n \in 1..Len(buf) :
           seen[n] = IF Last(seen[n - 1]) = NULL THEN seen[n - 1]
                     ELSE Append(seen[n - 1], BufNext(buf, Last(seen[n - 1])))
      /\ Visits(buf) = Front(seen[Len(buf)])
  BY <1>2 DEF Walks
<1> DEFINE T == {n \in Nat : PlacesSeen(seen[n], N, at, Upto(N, n))}
<1>4. 0 \in T
  <2>1. Upto(N, 0) = 1
    BY <1>1 DEF Upto
  <2>2. CASE N = 0
    <3>1. buf = <<>>
      BY <1>1, <2>2
    <3>2. BufNext(buf, NULL) = NULL /\ NULL \in Int
      BY <3>1 DEF BufNext, NULL
    <3>3. PlacesSeen(<<NULL>>, N, at, 1)
      BY <2>2, <3>2, OneSeen DEF PlacesSeen
    <3> QED
      BY <1>3, <2>1, <3>2, <3>3
  <2>3. CASE N # 0
    <3>1. buf # <<>> /\ 1 \in 1..N /\ 1 <= N
      <4>1. Len(buf) # 0
        BY <1>1, <2>3
      <4> QED
        BY <1>1, <2>3, <4>1
    <3>2. BufNext(buf, NULL) = 0
      BY <3>1, CutsNext
    <3>3. PlacesSeen(<<0>>, N, at, 1)
      BY <1>1, <3>1, OneSeen DEF PlacesSeen
    <3> QED
      BY <1>3, <2>1, <3>2, <3>3
  <2> QED
    BY <2>2, <2>3
<1>5. ASSUME NEW n \in 0..(Len(buf) - 1), n \in T PROVE n + 1 \in T
  <2> DEFINE s == seen[n]
             k == Upto(N, n)
  <2>1. /\ n \in Nat /\ n + 1 \in 1..Len(buf) /\ (n + 1) - 1 = n
        /\ PlacesSeen(s, N, at, k)
    BY <1>1, <1>5
  <2>2. seen[n + 1] = IF Last(s) = NULL THEN s ELSE Append(s, BufNext(buf, Last(s)))
    BY <1>3, <2>1
  <2>3. k \in 1..(N + 1) /\ Last(s) = IF k <= N THEN at[k] ELSE NULL
    <3>1. k \in 1..(N + 1)
      BY <1>1, <2>1 DEF Upto
    <3> QED
      BY <2>1, <3>1 DEF PlacesSeen, Last
  <2>4. CASE n < N
    <3>1. k = n + 1 /\ k \in 1..N /\ Upto(N, n + 1) = k + 1
      BY <1>1, <2>1, <2>4 DEF Upto
    <3>2. buf # <<>>
      BY <1>1, <3>1
    <3> HIDE DEF s, k
    <3>3. Last(s) = at[k] /\ at[k] # NULL /\ BufNext(buf, at[k]) = IF k < N THEN at[k + 1] ELSE NULL
      BY <2>3, <3>1, <3>2, CutsNext
    <3>4. BufNext(buf, Last(s)) \in Int
      <4>1. NULL \in Int
        BY DEF NULL
      <4>2. k < N => k + 1 \in 1..N
        BY <1>1, <3>1
      <4> QED
        BY <1>1, <3>3, <4>1, <4>2
    <3>5. PlacesSeen(Append(s, BufNext(buf, Last(s))), N, at, k + 1)
      BY <1>1, <2>1, <3>1, <3>3, <3>4, OneMoreSeen
    <3>6. seen[n + 1] = Append(s, BufNext(buf, Last(s)))
      BY <2>2, <3>3
    <3>7. PlacesSeen(seen[n + 1], N, at, Upto(N, n + 1)) /\ n + 1 \in Nat
      BY <2>1, <3>1, <3>5, <3>6
    <3> QED
      BY <3>7
  <2>5. CASE ~(n < N)
    <3>1. k = N + 1 /\ Upto(N, n + 1) = k
      BY <1>1, <2>1, <2>5 DEF Upto
    <3>2. Last(s) = NULL
      BY <1>1, <2>3, <3>1
    <3> QED
      BY <2>1, <2>2, <3>1, <3>2
  <2> QED
    BY <2>4, <2>5
<1>6. PlacesSeen(seen[Len(buf)], N, at, N + 1)
  <2> HIDE DEF T
  <2>1. 0..Len(buf) \subseteq T
    BY <1>1, <1>4, <1>5, InductionTo
  <2>2. Len(buf) \in T
    BY <1>1, <2>1
  <2>3. Upto(N, Len(buf)) = N + 1
    BY <1>1 DEF Upto
  <2> QED
    BY <2>2, <2>3 DEF T
<1> DEFINE s == seen[Len(buf)]
<1>7. s \in Seq(Int) /\ Len(s) = N + 1 /\ \A n \in 1..N : s[n] = at[n]
  <2>1. \A n \in 1..N : n \in 1..(N + 1) /\ n <= N
    BY <1>1
  <2> QED
    BY <1>6, <2>1 DEF PlacesSeen
<1>8. Visits(buf) = SubSeq(s, 1, N)
  <2>1. Len(s) - 1 = N
    BY <1>1, <1>7
  <2> QED
    BY <1>3, <2>1 DEF Front
<1> HIDE DEF s
<1>9. /\ 1 \in Int /\ N \in Int /\ \A n \in 1..N : s[n] \in Int
      /\ (IF 1 <= N THEN N - 1 + 1 ELSE 0) = N /\ N - 1 + 1 = N
      /\ \A n \in 1..N : 1 + n - 1 = n
  BY <1>1, <1>7
<1>10. /\ SubSeq(s, 1, N) \in Seq(Int) /\ Len(SubSeq(s, 1, N)) = N
       /\ \A n \in 1..N : SubSeq(s, 1, N)[n] = s[1 + n - 1]
  BY <1>9, SubSeqProperties
<1> QED
  BY <1>7, <1>8, <1>9, <1>10

\* What is encoded for an entry.
LEMMA EntryBufIs ==
  ASSUME NEW e, Codable(e)
  PROVE  /\ EntryBuf(e) \in Seq(Range(EntryBuf(e)))
         /\ Len(EntryBuf(e)) = Size(Len(e.key), Len(e.val))
         /\ Placed(e, EntryBuf(e), 0)
<1> DEFINE R == Range(e.key) \cup Range(e.val) \cup {e.type, NUL}
           a == e.key
           b == <<NUL, e.type>>
           c == e.val
           d == <<NUL>>
           buf == ((a \o b) \o c) \o d
           k == Len(e.key)
           v == Len(e.val)
<1>1. EntryBuf(e) = buf
  BY DEF EntryBuf
<1>2. /\ Clean(e.key) /\ Clean(e.val) /\ e.key # <<>>
      /\ Range(e.key) \subseteq R /\ Range(e.val) \subseteq R
      /\ e.type \in R /\ NUL \in R
  BY DEF Codable
<1> HIDE DEF R
<1>3. a \in Seq(R)
  BY <1>2, SeqMonotonic DEF Clean
<1>4. c \in Seq(R)
  BY <1>2, SeqMonotonic DEF Clean
<1>5. b \in Seq(R) /\ Len(b) = 2 /\ b[1] = NUL /\ b[2] = e.type
  BY <1>2, Two
<1>6. d \in Seq(R) /\ Len(d) = 1 /\ d[1] = NUL
  BY <1>2, One
<1>7. k \in Nat /\ k > 0 /\ v \in Nat /\ k = Len(a) /\ v = Len(c)
  BY <1>2, <1>3, <1>4, NotEmpty
<1> HIDE DEF a, b, c, d, k, v
<1>8. Joined(buf, R, a, b, c, d)
  BY <1>3, <1>4, <1>5, <1>6, FourParts
<1> HIDE DEF buf
<1>9. /\ buf \in Seq(R) /\ Len(buf) = k + 2 + v + 1
      /\ \A n \in 1..k : buf[n] = a[n]
      /\ \A n \in 1..2 : buf[k + n] = b[n]
      /\ \A n \in 1..v : buf[k + 2 + n] = c[n]
      /\ \A n \in 1..1 : buf[k + 2 + v + n] = d[n]
  BY <1>5, <1>6, <1>7, <1>8 DEF Joined
<1>10. /\ buf[k + 1] = NUL /\ buf[k + 2] = e.type /\ buf[k + 2 + v + 1] = NUL
  <2>1. 1 \in 1..2 /\ 2 \in 1..2 /\ 1 \in 1..1
    OBVIOUS
  <2> QED
    BY <1>5, <1>6, <1>9, <2>1
<1>11. Len(buf) = Size(k, v)
  BY <1>7, <1>9 DEF Size
<1>12. Placed(e, buf, 0)
  <2>1. 0 + Size(k, v) <= Len(buf) /\ Len(buf) \in Nat /\ 0 \in Nat
    BY <1>7, <1>9, <1>11
  <2>2. /\ \A n \in 1..k : 0 + n = n
        /\ 0 + k = k
    BY <1>7
  <2>3. /\ \A n \in 1..k : buf[0 + n] = e.key[n]
        /\ buf[0 + k + 1] = NUL /\ buf[0 + k + 2] = e.type
        /\ \A n \in 1..v : buf[0 + k + 2 + n] = e.val[n]
        /\ buf[0 + k + 2 + v + 1] = NUL
    BY <1>9, <1>10, <2>2 DEF a, c
  <2> QED
    BY <1>7, <2>1, <2>3 DEF Placed, k, v
<1>13. buf \in Seq(Range(buf))
  BY <1>9, SeqOfRange
<1> QED
  BY <1>1, <1>11, <1>12, <1>13 DEF k, v

\* A kv that the code can put together.
Storable(kv) == Sequence(kv) /\ \A n \in DOMAIN kv : Codable(kv[n])

\* Each entry of a kv stands in its buffer, and the entries cut it.
LEMMA EncodedIsCut ==
  ASSUME NEW kv, Storable(kv)
  PROVE  \E S, at : /\ KvEncode(kv) \in Seq(S)
                    /\ Cuts(KvEncode(kv), Len(kv), at)
                    /\ \A n \in 1..Len(kv) : Placed(kv[n], KvEncode(kv), at[n])
<1> DEFINE S == UNION {Range(EntryBuf(e)) : e \in Range(kv)}
           N == Len(kv)
           es == [n \in DOMAIN kv |-> EntryBuf(kv[n])]
           buf == KvEncode(kv)
<1>1. N \in Nat /\ DOMAIN kv = 1..N /\ \A n \in 1..N : Codable(kv[n]) /\ kv[n] \in Range(kv)
  BY DEF Storable, Sequence, Range
<1>2. ASSUME NEW n \in 1..N
      PROVE  /\ es[n] \in Seq(S) /\ es[n] = EntryBuf(kv[n])
             /\ Len(es[n]) = Size(Len(kv[n].key), Len(kv[n].val))
             /\ Placed(kv[n], es[n], 0)
  <2>1. es[n] = EntryBuf(kv[n])
    BY <1>1
  <2>2. Range(EntryBuf(kv[n])) \subseteq S
    BY <1>1
  <2> HIDE DEF S, es
  <2>3. /\ EntryBuf(kv[n]) \in Seq(Range(EntryBuf(kv[n])))
        /\ Len(EntryBuf(kv[n])) = Size(Len(kv[n].key), Len(kv[n].val))
        /\ Placed(kv[n], EntryBuf(kv[n]), 0)
    BY <1>1, EntryBufIs
  <2>4. EntryBuf(kv[n]) \in Seq(S)
    BY <2>2, <2>3, SeqMonotonic
  <2> QED
    BY <2>1, <2>3, <2>4
<1>3. es \in Seq(Seq(S)) /\ Len(es) = N
  <2>1. es \in [1..N -> Seq(S)]
    BY <1>1, <1>2
  <2> HIDE DEF es, S, N
  <2> QED
    BY <1>1, <2>1
<1>4. buf = FlattenSeq(es)
  BY DEF KvEncode
<1> HIDE DEF S, es, buf
<1>5. buf \in Seq(S) /\ \E at : Flat(es, buf, at)
  BY <1>3, <1>4, Flattened
<1>6. PICK at : Flat(es, buf, at)
  BY <1>5
<1>7. /\ at \in [1..(N + 1) -> Nat] /\ at[1] = 0 /\ Len(buf) = at[N + 1]
      /\ \A n \in 1..N : /\ at[n + 1] = at[n] + Len(es[n])
                         /\ at[n + 1] <= Len(buf)
                         /\ \A j \in 1..Len(es[n]) : buf[at[n] + j] = es[n][j]
  BY <1>3, <1>6 DEF Flat
<1> HIDE DEF N
<1>8. ASSUME NEW n \in 1..N
      PROVE  /\ Placed(kv[n], buf, at[n])
             /\ EntryLength(buf, at[n]) \in Nat \ {0}
             /\ at[n + 1] = at[n] + EntryLength(buf, at[n])
  <2> DEFINE k == Len(kv[n].key)
             v == Len(kv[n].val)
             o == at[n]
  <2>1. o \in Nat /\ n + 1 \in 1..(N + 1) /\ at[n + 1] \in Nat /\ Len(buf) \in Nat
    BY <1>1, <1>5, <1>7
  <2>2. /\ k \in Nat /\ k > 0 /\ v \in Nat /\ Len(es[n]) = k + v + 3
        /\ \A j \in 1..k : es[n][0 + j] = kv[n].key[j]
        /\ es[n][0 + k + 1] = NUL /\ es[n][0 + k + 2] = kv[n].type
        /\ \A j \in 1..v : es[n][0 + k + 2 + j] = kv[n].val[j]
        /\ es[n][0 + k + 2 + v + 1] = NUL
    BY <1>2 DEF Placed, Size
  <2> HIDE DEF k, v, o
  <2>3. o + Size(k, v) <= Len(buf) /\ at[n + 1] = o + Size(k, v)
    BY <1>7, <2>1, <2>2 DEF Size, o
  <2>4. \A j \in 1..(k + v + 3) : buf[o + j] = es[n][j]
    BY <1>7, <2>2 DEF o
  <2>5. \A j \in 1..k : buf[o + j] = kv[n].key[j]
    <3>1. \A j \in 1..k : j \in 1..(k + v + 3) /\ 0 + j = j
      BY <2>2
    <3> QED
      BY <2>2, <2>4, <3>1
  <2>6. buf[o + k + 1] = NUL /\ buf[o + k + 2] = kv[n].type /\ buf[o + k + 2 + v + 1] = NUL
    <3>1. /\ k + 1 \in 1..(k + v + 3) /\ k + 2 \in 1..(k + v + 3)
          /\ k + 2 + v + 1 \in 1..(k + v + 3)
          /\ o + (k + 1) = o + k + 1 /\ o + (k + 2) = o + k + 2
          /\ o + (k + 2 + v + 1) = o + k + 2 + v + 1
          /\ 0 + k + 1 = k + 1 /\ 0 + k + 2 = k + 2 /\ 0 + k + 2 + v + 1 = k + 2 + v + 1
      <4>1. k \in Nat /\ v \in Nat /\ o \in Nat
        BY <2>1, <2>2 DEF o
      <4> QED
        BY <4>1
    <3> QED
      BY <2>2, <2>4, <3>1
  <2>7. \A j \in 1..v : buf[o + k + 2 + j] = kv[n].val[j]
    <3>1. \A j \in 1..v : /\ k + 2 + j \in 1..(k + v + 3)
                          /\ o + (k + 2 + j) = o + k + 2 + j
                          /\ 0 + k + 2 + j = k + 2 + j
      BY <2>1, <2>2 DEF o
    <3> QED
      BY <2>2, <2>4, <3>1
  <2>8. Placed(kv[n], buf, o)
    BY <2>1, <2>2, <2>3, <2>5, <2>6, <2>7 DEF Placed, k, v, o
  <2>9. EntryLength(buf, o) = Size(k, v)
    BY <1>1, <1>5, <2>8, PlacedIsRead DEF k, v
  <2>10. Size(k, v) \in Nat \ {0}
    BY <2>2 DEF Size
  <2> QED
    BY <2>3, <2>8, <2>9, <2>10 DEF o
<1>9. Cuts(buf, N, at)
  <2>1. Len(buf) \in Nat
    BY <1>5
  <2> QED
    BY <1>1, <1>7, <1>8, <2>1 DEF Cuts
<1> QED
  BY <1>5, <1>8, <1>9 DEF buf, N

\* What is encoded is what is read back.
THEOREM DecodedIsEncoded ==
  ASSUME NEW kv, Storable(kv)
  PROVE  Entries(KvEncode(kv)) = kv
<1> DEFINE buf == KvEncode(kv)
           N == Len(kv)
<1>1. PICK S, at : /\ buf \in Seq(S) /\ Cuts(buf, N, at)
                   /\ \A n \in 1..N : Placed(kv[n], buf, at[n])
  BY EncodedIsCut
<1>2. N \in Nat /\ kv \in Seq(Range(kv)) /\ DOMAIN kv = 1..N /\ \A n \in 1..N : Codable(kv[n])
  BY DEF Storable, Sequence
<1> HIDE DEF buf
<1>3. /\ Visits(buf) \in Seq(Int) /\ Len(Visits(buf)) = N
      /\ \A n \in 1..N : Visits(buf)[n] = at[n]
  BY <1>1, CutsVisited
<1>4. DOMAIN Visits(buf) = 1..N
  BY <1>3
<1>5. \A n \in 1..N : EntryAt(buf, Visits(buf)[n]) = kv[n]
  BY <1>1, <1>2, <1>3, PlacedIsRead
<1>6. Entries(buf) = [n \in 1..N |-> kv[n]]
  BY <1>4, <1>5 DEF Entries
<1> QED
  BY <1>2, <1>6 DEF buf

LEMMA SequenceAppend ==
  ASSUME NEW s, Sequence(s), NEW x
  PROVE  Sequence(Append(s, x)) /\ Len(Append(s, x)) = Len(s) + 1
<1> DEFINE R == Range(s) \cup {x}
<1>1. s \in Seq(Range(s)) /\ Range(s) \subseteq R /\ x \in R
  BY DEF Sequence
<1> HIDE DEF R
<1>2. s \in Seq(R)
  BY <1>1, SeqMonotonic
<1>3. Append(s, x) \in Seq(R) /\ Len(Append(s, x)) = Len(s) + 1
  BY <1>1, <1>2, AppendProperties
<1> QED
  BY <1>3, SeqOfRange DEF Sequence

-----------------------------------------------------------------------------
(* Any buffer at all: an iteration stays inside of it, and ends.           *)

LEMMA StrnlenRange ==
  ASSUME NEW buf, NEW o, NEW max \in Nat
  PROVE  /\ Strnlen(buf, o, max) \in 0..max
         /\ Strnlen(buf, o, max) # max => buf[o + Strnlen(buf, o, max) + 1] = NUL
         /\ \A j \in 0..(Strnlen(buf, o, max) - 1) : buf[o + j + 1] # NUL
<1> DEFINE T == {max} \cup {n \in 0..(max - 1) : buf[o + n + 1] = NUL}
<1>1. T \subseteq 0..max /\ T \subseteq Nat /\ T # {}
  OBVIOUS
<1>2. Strnlen(buf, o, max) = CHOOSE n \in T : \A m \in T : n <= m
  BY DEF Strnlen, Min
<1>3. \E n \in T : \A m \in T : n <= m
  <2> HIDE DEF T
  <2> QED
    BY <1>1, LeastNumber
<1> DEFINE k == Strnlen(buf, o, max)
<1>4. k \in T /\ \A m \in T : k <= m
  <2> HIDE DEF T
  <2> QED
    BY <1>2, <1>3
<1> HIDE DEF k
<1>5. k \in 0..max /\ (k # max => buf[o + k + 1] = NUL)
  BY <1>4
<1>6. ASSUME NEW j \in 0..(k - 1) PROVE buf[o + j + 1] # NUL
  <2>1. j \in 0..(max - 1) /\ ~(k <= j)
    BY <1>5
  <2> QED
    BY <1>4, <2>1
<1> QED
  BY <1>5, <1>6 DEF k

\* An entry that is one ends inside the buffer.
LEMMA EntryLengthRange ==
  ASSUME NEW buf, Len(buf) \in Nat, NEW o \in 0..Len(buf), EntryLength(buf, o) # Bad
  PROVE  EntryLength(buf, o) \in Nat \ {0} /\ o + EntryLength(buf, o) <= Len(buf)
<1> DEFINE max    == Len(buf) - o
           keylen == Strnlen(buf, o, max)
           left   == max - (keylen + 1)
           vallen == Strnlen(buf, o + keylen + 1, left)
<1>1. max \in Nat
  OBVIOUS
<1>2. keylen \in 0..max
  BY <1>1, StrnlenRange
<1>3. /\ keylen \notin {0, max} /\ vallen \notin {0, left}
      /\ EntryLength(buf, o) = keylen + vallen + 2
  BY DEF EntryLength
<1> HIDE DEF keylen
<1>4. left \in Nat
  BY <1>1, <1>2, <1>3
<1>5. vallen \in 0..left
  BY <1>4, StrnlenRange
<1> HIDE DEF vallen
<1> QED
  BY <1>1, <1>2, <1>3, <1>4, <1>5

LEMMA BufNextRange ==
  ASSUME NEW buf, Len(buf) \in Nat, buf # <<>> => Len(buf) > 0, NEW o \in 0..(Len(buf) - 1)
  PROVE  \/ BufNext(buf, o) = NULL
         \/ BufNext(buf, o) \in 0..(Len(buf) - 1) /\ BufNext(buf, o) > o
<1>1. CASE EntryLength(buf, o) = Bad
  BY <1>1 DEF BufNext, NULL
<1>2. CASE EntryLength(buf, o) # Bad
  <2>1. EntryLength(buf, o) \in Nat \ {0} /\ o + EntryLength(buf, o) <= Len(buf)
    BY <1>2, EntryLengthRange
  <2>2. o # NULL
    BY DEF NULL
  <2>3. BufNext(buf, o) \in {NULL, o + EntryLength(buf, o)}
        /\ (o + EntryLength(buf, o) = Len(buf) => BufNext(buf, o) = NULL)
    BY <2>2 DEF BufNext
  <2> QED
    BY <2>1, <2>3
<1> QED
  BY <1>1, <1>2

\* s is what has been seen after n turns.
SeenAfter(buf, s, n) ==
  /\ s \in Seq(Int) /\ Len(s) \in 1..(n + 1)
  /\ s[1] = BufNext(buf, NULL)
  /\ \A m \in 1..Len(s) : s[m] = NULL \/ (m - 1 <= s[m] /\ s[m] < Len(buf))
  /\ \A m \in 1..(Len(s) - 1) : s[m] # NULL /\ s[m + 1] = BufNext(buf, s[m])
  /\ s[Len(s)] = NULL \/ Len(s) = n + 1

\* What Visits returns: a whole iteration.
Iteration(buf, w) ==
  /\ w \in Seq(Nat)
  /\ \A n \in 1..Len(w) : w[n] < Len(buf)
  /\ buf = <<>> => Len(w) = 0
  /\ buf # <<>> => /\ Len(w) > 0 /\ w[1] = 0
                   /\ \A n \in 1..(Len(w) - 1) : w[n + 1] = BufNext(buf, w[n])
                   /\ BufNext(buf, w[Len(w)]) = NULL

LEMMA SeenMore ==
  ASSUME NEW buf, Len(buf) \in Nat, NEW s, NEW n \in Nat, SeenAfter(buf, s, n),
         buf # <<>> => Len(buf) > 0,
         NEW f, f = IF Last(s) = NULL THEN s ELSE Append(s, BufNext(buf, Last(s)))
  PROVE  SeenAfter(buf, f, n + 1)
<1>1. /\ s \in Seq(Int) /\ Len(s) \in 1..(n + 1)
      /\ s[1] = BufNext(buf, NULL)
      /\ \A m \in 1..Len(s) : s[m] = NULL \/ (m - 1 <= s[m] /\ s[m] < Len(buf))
      /\ \A m \in 1..(Len(s) - 1) : s[m] # NULL /\ s[m + 1] = BufNext(buf, s[m])
      /\ s[Len(s)] = NULL \/ Len(s) = n + 1
  BY DEF SeenAfter
<1>2. Last(s) = s[Len(s)]
  BY DEF Last
<1> DEFINE k == Len(s)
           x == s[k]
           y == BufNext(buf, x)
<1>3. k \in Nat /\ k > 0 /\ k \in 1..k /\ x \in Int
  BY <1>1
<1>4. CASE x = NULL
  <2>1. f = s
    BY <1>2, <1>4
  <2>2. Len(s) \in 1..((n + 1) + 1)
    BY <1>1
  <2> QED
    BY <1>1, <1>4, <2>1, <2>2 DEF SeenAfter
<1>5. CASE x # NULL
  <2>1. f = Append(s, y)
    BY <1>2, <1>5
  <2>2. x \in 0..(Len(buf) - 1) /\ k - 1 <= x
    BY <1>1, <1>3, <1>5
  <2>3. y = NULL \/ (y \in 0..(Len(buf) - 1) /\ y > x)
    BY <2>2, BufNextRange
  <2>4. y \in Int
    BY <2>3 DEF NULL
  <2>5. k = n + 1
    BY <1>1, <1>5
  <2> HIDE DEF y
  <2>6. /\ f \in Seq(Int) /\ Len(f) = k + 1 /\ f[k + 1] = y
        /\ \A m \in 1..k : f[m] = s[m]
    BY <1>1, <2>1, <2>4, AppendProperties
  <2>7. ASSUME NEW m \in 1..(k + 1) PROVE f[m] = NULL \/ (m - 1 <= f[m] /\ f[m] < Len(buf))
    <3>1. CASE m \in 1..k
      BY <1>1, <2>6, <3>1
    <3>2. CASE m = k + 1
      BY <1>3, <2>2, <2>3, <2>6, <3>2
    <3> QED
      BY <1>3, <3>1, <3>2
  <2>8. ASSUME NEW m \in 1..k PROVE f[m] # NULL /\ f[m + 1] = BufNext(buf, f[m])
    <3>1. CASE m = k
      BY <1>5, <2>6, <3>1 DEF y
    <3>2. CASE m # k
      <4>1. m \in 1..(k - 1) /\ m + 1 \in 1..k
        BY <1>3, <3>2
      <4> QED
        BY <1>1, <2>6, <4>1
    <3> QED
      BY <3>1, <3>2
  <2>9. Len(f) \in 1..((n + 1) + 1) /\ Len(f) = (n + 1) + 1 /\ (k + 1) - 1 = k
    BY <1>3, <2>5, <2>6
  <2>10. f[1] = BufNext(buf, NULL)
    BY <1>1, <1>3, <2>6
  <2> HIDE DEF k, x
  <2> QED
    BY <2>6, <2>7, <2>8, <2>9, <2>10 DEF SeenAfter
<1> QED
  BY <1>4, <1>5

\* kv_next visits places in any buffer, one after the other, and comes to an end.
THEOREM VisitsStayInside ==
  ASSUME NEW S, NEW buf \in Seq(S)
  PROVE  Iteration(buf, Visits(buf))
<1>0. Len(buf) \in Nat /\ (buf # <<>> => Len(buf) > 0) /\ (buf = <<>> => Len(buf) = 0)
  BY NotEmpty
<1>1. PICK seen : Walks(buf, seen)
  BY <1>0, VisitsSteps
<1>2. /\ seen[0] = <<BufNext(buf, NULL)>>
      /\ \A n \in 1..Len(buf) :
           seen[n] = IF Last(seen[n - 1]) = NULL THEN seen[n - 1]
                     ELSE Append(seen[n - 1], BufNext(buf, Last(seen[n - 1])))
      /\ Visits(buf) = Front(seen[Len(buf)])
  BY <1>1 DEF Walks
<1> DEFINE T == {n \in Nat : SeenAfter(buf, seen[n], n)}
<1>3. 0 \in T
  <2> DEFINE x == BufNext(buf, NULL)
  <2>1. x = IF buf = <<>> THEN NULL ELSE 0
    BY DEF BufNext
  <2>2. x \in Int
    BY <2>1 DEF NULL
  <2>3. x = NULL \/ (0 <= x /\ x < Len(buf))
    BY <1>0, <2>1
  <2>4. seen[0] = <<x>>
    BY <1>2
  <2> HIDE DEF x
  <2>5. <<x>> \in Seq(Int) /\ Len(<<x>>) = 1 /\ <<x>>[1] = x
    BY <2>2, OneSeen
  <2>6. /\ \A m \in 1..1 : m = 1 /\ m - 1 = 0
        /\ 1 \in 1..(0 + 1) /\ 1 = 0 + 1 /\ 1..(1 - 1) = {}
    OBVIOUS
  <2>7. SeenAfter(buf, seen[0], 0)
    BY <2>3, <2>4, <2>5, <2>6 DEF SeenAfter, x
  <2> QED
    BY <2>7
<1>4. ASSUME NEW n \in 0..(Len(buf) - 1), n \in T PROVE n + 1 \in T
  <2>1. n + 1 \in 1..Len(buf) /\ (n + 1) - 1 = n /\ n + 1 \in Nat /\ n \in Nat
    BY <1>0
  <2>2. seen[n + 1] = IF Last(seen[n]) = NULL THEN seen[n]
                      ELSE Append(seen[n], BufNext(buf, Last(seen[n])))
    BY <1>2, <2>1
  <2>3. SeenAfter(buf, seen[n + 1], n + 1)
    BY <1>0, <1>4, <2>1, <2>2, SeenMore
  <2> QED
    BY <2>1, <2>3
<1> DEFINE s == seen[Len(buf)]
           N == Len(s) - 1
           w == Visits(buf)
<1>5. SeenAfter(buf, s, Len(buf))
  <2> HIDE DEF T
  <2>1. 0..Len(buf) \subseteq T
    BY <1>0, <1>3, <1>4, InductionTo
  <2>2. Len(buf) \in T
    BY <1>0, <2>1
  <2> QED
    BY <2>2 DEF T
<1>6. w = SubSeq(s, 1, N)
  BY <1>2 DEF Front
<1> HIDE DEF s, w
<1>7. /\ s \in Seq(Int) /\ Len(s) \in 1..(Len(buf) + 1)
      /\ s[1] = BufNext(buf, NULL)
      /\ \A m \in 1..Len(s) : s[m] = NULL \/ (m - 1 <= s[m] /\ s[m] < Len(buf))
      /\ \A m \in 1..(Len(s) - 1) : s[m] # NULL /\ s[m + 1] = BufNext(buf, s[m])
      /\ s[Len(s)] = NULL \/ Len(s) = Len(buf) + 1
  BY <1>5 DEF SeenAfter
<1>8. N \in Nat /\ Len(s) = N + 1 /\ s[N + 1] = NULL
  <2>1. N \in Nat /\ Len(s) = N + 1
    BY <1>0, <1>7
  <2>2. CASE Len(s) = Len(buf) + 1
    <3>1. Len(s) \in 1..Len(s) /\ ~(Len(s) - 1 < Len(buf))
      BY <1>0, <2>2
    <3>2. s[Len(s)] = NULL \/ (Len(s) - 1 <= s[Len(s)] /\ s[Len(s)] < Len(buf))
      BY <1>7, <3>1
    <3>3. s[Len(s)] \in Int
      BY <1>7, <3>1
    <3>4. s[Len(s)] = NULL
      BY <1>0, <2>2, <3>1, <3>2, <3>3
    <3> QED
      BY <2>1, <3>4
  <2> QED
    BY <1>7, <2>1, <2>2
<1> HIDE DEF N
<1>9. ASSUME NEW m \in 1..N PROVE s[m] \in Nat /\ s[m] < Len(buf)
  <2>1. m \in 1..Len(s) /\ m \in 1..(Len(s) - 1) /\ 0 <= m - 1
    BY <1>8
  <2>2. s[m] \in Int /\ s[m] # NULL /\ m - 1 <= s[m] /\ s[m] < Len(buf)
    BY <1>7, <2>1
  <2> QED
    BY <2>1, <2>2
<1>10. w \in Seq(Nat) /\ Len(w) = N /\ \A m \in 1..N : w[m] = s[m]
  <2>1. 1 \in Int /\ N \in Int /\ (IF 1 <= N THEN N - 1 + 1 ELSE 0) = N /\ N - 1 + 1 = N
        /\ \A m \in 1..N : 1 + m - 1 = m
    BY <1>8
  <2>2. \A m \in 1..N : s[m] \in Nat
    BY <1>9
  <2>3. /\ SubSeq(s, 1, N) \in Seq(Nat)
        /\ Len(SubSeq(s, 1, N)) = IF 1 <= N THEN N - 1 + 1 ELSE 0
        /\ \A m \in 1..(N - 1 + 1) : SubSeq(s, 1, N)[m] = s[1 + m - 1]
    BY <2>1, <2>2, SubSeqProperties
  <2> QED
    BY <1>6, <2>1, <2>3
<1>11. buf = <<>> => N = 0
  <2>1. ASSUME buf = <<>>, N # 0 PROVE FALSE
    <3>1. 1 \in 1..N /\ Len(buf) = 0
      BY <1>0, <1>8, <2>1
    <3>2. s[1] \in Nat /\ s[1] < Len(buf)
      BY <1>9, <3>1
    <3> QED
      BY <3>1, <3>2
  <2> QED
    BY <2>1
<1>12. ASSUME buf # <<>>
       PROVE  /\ N > 0 /\ w[1] = 0
              /\ \A n \in 1..(N - 1) : w[n + 1] = BufNext(buf, w[n])
              /\ BufNext(buf, w[N]) = NULL
  <2>1. s[1] = 0 /\ 0 # NULL
    BY <1>7, <1>12 DEF BufNext, NULL
  <2>2. N # 0
    <3>1. N = 0 => s[1] = NULL
      BY <1>8
    <3> QED
      BY <2>1, <3>1
  <2>3. 1 \in 1..N /\ N \in 1..N /\ N > 0
    BY <1>8, <2>2
  <2>4. \A m \in 1..N : s[m + 1] = BufNext(buf, s[m])
    <3>1. Len(s) - 1 = N
      BY <1>8
    <3> QED
      BY <1>7, <3>1
  <2>5. \A m \in 1..(N - 1) : m \in 1..N /\ m + 1 \in 1..N
    BY <1>8
  <2>6. \A m \in 1..(N - 1) : w[m + 1] = BufNext(buf, w[m])
    BY <1>10, <2>4, <2>5
  <2>7. BufNext(buf, w[N]) = NULL
    BY <1>8, <1>10, <2>3, <2>4
  <2> QED
    BY <1>10, <2>1, <2>3, <2>6, <2>7
<1>13. Iteration(buf, w)
  BY <1>9, <1>10, <1>11, <1>12 DEF Iteration
<1> QED
  BY <1>13 DEF w

\* What is read of any buffer is a sequence of entries whose keys are sequences.
LEMMA EntriesSequence ==
  ASSUME NEW S, NEW buf \in Seq(S)
  PROVE  /\ Sequence(Entries(buf)) /\ Len(Entries(buf)) = Len(Visits(buf))
         /\ \A n \in 1..Len(Entries(buf)) :
              /\ Entries(buf)[n] = EntryAt(buf, Visits(buf)[n])
              /\ Sequence(Entries(buf)[n].key)
<1> DEFINE w == Visits(buf)
           q == Entries(buf)
<1>1. w \in Seq(Nat) /\ \A n \in 1..Len(w) : w[n] < Len(buf)
  BY VisitsStayInside DEF Iteration
<1>2. q = [n \in 1..Len(w) |-> EntryAt(buf, w[n])] /\ Len(w) \in Nat
  BY <1>1 DEF Entries
<1> HIDE DEF w, q
<1>3. q \in Seq(Range(q)) /\ Len(q) = Len(w)
  <2>1. DOMAIN q = 1..Len(w)
    BY <1>2
  <2>2. q \in [1..Len(w) -> Range(q)]
    BY <1>2, <2>1 DEF Range
  <2> QED
    BY <1>2, <2>2
<1>4. ASSUME NEW n \in 1..Len(w) PROVE Sequence(KeyAt(buf, w[n]))
  <2> DEFINE o == w[n]
             k == Strnlen(buf, o, Len(buf) - o)
  <2>1. o \in Nat /\ o < Len(buf) /\ Len(buf) \in Nat
    BY <1>1
  <2> HIDE DEF o
  <2>2. Len(buf) - o \in Nat
    BY <2>1
  <2>3. k \in 0..(Len(buf) - o)
    BY <2>2, StrnlenRange
  <2> HIDE DEF k
  <2>4. \A m \in (o + 1)..(o + k) : m \in 1..Len(buf)
    BY <2>1, <2>3
  <2>5. \A m \in (o + 1)..(o + k) : buf[m] \in S
    BY <2>4
  <2>6. o + 1 \in Int /\ o + k \in Int
    BY <2>1, <2>3
  <2>7. SubSeq(buf, o + 1, o + k) \in Seq(S)
    BY <2>5, <2>6, SubSeqProperties
  <2>8. KeyAt(buf, o) \in Seq(S)
    BY <2>7 DEF KeyAt, k
  <2> QED
    BY <2>8, SeqOfRange DEF Sequence, o
<1>5. \A n \in 1..Len(w) : q[n] = EntryAt(buf, w[n]) /\ q[n].key = KeyAt(buf, w[n])
  BY <1>2 DEF EntryAt, Entry
<1> QED
  BY <1>3, <1>4, <1>5 DEF Sequence, w, q

\* Whatever is in the entries, a kv of sequences is encoded to a sequence.
LEMMA EncodedSequence ==
  ASSUME NEW kv, Sequence(kv),
         \A e \in Range(kv) : Sequence(e.key) /\ Sequence(e.val)
  PROVE  Sequence(KvEncode(kv))
<1> DEFINE S  == UNION {Range(EntryBuf(e)) : e \in Range(kv)}
           es == [n \in DOMAIN kv |-> EntryBuf(kv[n])]
<1>1. ASSUME NEW e \in Range(kv) PROVE EntryBuf(e) \in Seq(Range(EntryBuf(e)))
  <2> DEFINE R == Range(e.key) \cup Range(e.val) \cup {e.type, NUL}
             b == <<NUL, e.type>>
             d == <<NUL>>
  <2>1. /\ Range(e.key) \subseteq R /\ Range(e.val) \subseteq R /\ e.type \in R /\ NUL \in R
        /\ e.key \in Seq(Range(e.key)) /\ e.val \in Seq(Range(e.val))
    BY <1>1 DEF Sequence
  <2> HIDE DEF R
  <2>2. e.key \in Seq(R) /\ e.val \in Seq(R)
    BY <2>1, SeqMonotonic
  <2>3. b \in Seq(R) /\ d \in Seq(R)
    BY <2>1, One, Two
  <2> HIDE DEF b, d
  <2>4. ((e.key \o b) \o e.val) \o d \in Seq(R)
    BY <2>2, <2>3
  <2>5. EntryBuf(e) \in Seq(R)
    BY <2>4 DEF EntryBuf, b, d
  <2> QED
    BY <2>5, SeqOfRange
<1>2. \A e \in Range(kv) : Range(EntryBuf(e)) \subseteq S
  OBVIOUS
<1> HIDE DEF S
<1>3. \A e \in Range(kv) : EntryBuf(e) \in Seq(S)
  BY <1>1, <1>2, SeqMonotonic
<1>4. Len(kv) \in Nat /\ DOMAIN kv = 1..Len(kv) /\ \A n \in 1..Len(kv) : kv[n] \in Range(kv)
  BY DEF Sequence, Range
<1>5. es \in Seq(Seq(S))
  BY <1>3, <1>4
<1> HIDE DEF es
<1>6. FlattenSeq(es) \in Seq(S)
  BY <1>5, Flattened
<1> QED
  BY <1>6, SeqOfRange DEF Sequence, KvEncode, es

-----------------------------------------------------------------------------
(* How the NULs of a buffer tell where an entry ends.                      *)

\* The NULs among the first n symbols.
NulCount(buf, n) == Cardinality({m \in 1..n : buf[m] = NUL})

LEMMA CountSame ==
  ASSUME NEW buf, NEW a \in Nat, NEW b \in Nat, a <= b, \A m \in (a + 1)..b : buf[m] # NUL
  PROVE  NulCount(buf, b) = NulCount(buf, a)
<1>1. \A m \in 1..b : m \in 1..a \/ m \in (a + 1)..b
  OBVIOUS
<1>2. \A m \in 1..a : m \in 1..b
  OBVIOUS
<1>3. {m \in 1..b : buf[m] = NUL} = {m \in 1..a : buf[m] = NUL}
  BY <1>1, <1>2
<1> QED
  BY <1>3 DEF NulCount

LEMMA CountOne ==
  ASSUME NEW buf, NEW n \in Nat \ {0}, buf[n] = NUL
  PROVE  NulCount(buf, n - 1) \in Nat /\ NulCount(buf, n) = NulCount(buf, n - 1) + 1
<1> DEFINE T == {m \in 1..(n - 1) : buf[m] = NUL}
<1>1. IsFiniteSet(T)
  <2>1. IsFiniteSet(1..(n - 1)) /\ T \subseteq 1..(n - 1)
    BY FS_Interval
  <2> QED
    BY <2>1, FS_Subset
<1>2. n \notin T
  OBVIOUS
<1>3. {m \in 1..n : buf[m] = NUL} = T \cup {n}
  <2>1. \A m \in 1..n : m \in 1..(n - 1) \/ m = n
    OBVIOUS
  <2>2. \A m \in 1..(n - 1) : m \in 1..n
    OBVIOUS
  <2>3. n \in 1..n
    OBVIOUS
  <2> QED
    BY <2>1, <2>2, <2>3
<1>4. NulCount(buf, n) = Cardinality(T \cup {n}) /\ NulCount(buf, n - 1) = Cardinality(T)
  BY <1>3 DEF NulCount
<1> HIDE DEF T
<1>5. Cardinality(T) \in Nat
  BY <1>1, FS_CardinalityType
<1>6. Cardinality(T \cup {n}) = Cardinality(T) + 1
  BY <1>1, <1>2, FS_AddElement
<1> QED
  BY <1>4, <1>5, <1>6

LEMMA CountNat ==
  ASSUME NEW buf, NEW n \in Nat
  PROVE  NulCount(buf, n) \in Nat
<1>1. IsFiniteSet(1..n) /\ {m \in 1..n : buf[m] = NUL} \subseteq 1..n
  BY FS_Interval
<1>2. IsFiniteSet({m \in 1..n : buf[m] = NUL})
  BY <1>1, FS_Subset
<1> QED
  BY <1>2, FS_CardinalityType DEF NulCount

\* p is the place of the first NUL behind the first o symbols.
NextNul(buf, o, p) ==
  /\ p \in (o + 1)..Len(buf) /\ buf[p] = NUL
  /\ \A m \in (o + 1)..(p - 1) : buf[m] # NUL
  /\ \A m \in o..(p - 1) : NulCount(buf, m) = NulCount(buf, o)
  /\ NulCount(buf, p) = NulCount(buf, o) + 1

LEMMA NextNulIs ==
  ASSUME NEW buf, Len(buf) \in Nat, NEW o \in 0..(Len(buf) - 1), buf[Len(buf)] = NUL
  PROVE  /\ Strnlen(buf, o, Len(buf) - o) \in 0..(Len(buf) - o - 1)
         /\ NextNul(buf, o, o + Strnlen(buf, o, Len(buf) - o) + 1)
<1> DEFINE L == Len(buf)
           max == L - o
           k == Strnlen(buf, o, max)
           p == o + k + 1
<1>0. L \in Nat /\ o \in Nat /\ o < L /\ max \in Nat /\ max = L - o
  OBVIOUS
<1>1. /\ k \in 0..max
      /\ k # max => buf[o + k + 1] = NUL
      /\ \A j \in 0..(k - 1) : buf[o + j + 1] # NUL
  BY <1>0, StrnlenRange
<1> HIDE DEF max, k
<1>2. k # max
  <2>1. ASSUME k = max PROVE FALSE
    <3>1. max - 1 \in 0..(k - 1) /\ o + (max - 1) + 1 = L
      BY <1>0, <2>1
    <3> QED
      BY <1>1, <3>1
  <2> QED
    BY <2>1
<1>3. k \in 0..(max - 1) /\ p \in (o + 1)..L /\ buf[p] = NUL /\ p \in Nat \ {0} /\ p - 1 = o + k
  BY <1>0, <1>1, <1>2
<1>4. ASSUME NEW m \in (o + 1)..(p - 1) PROVE buf[m] # NUL
  <2>1. m - o - 1 \in 0..(k - 1) /\ o + (m - o - 1) + 1 = m
    BY <1>0, <1>3
  <2> QED
    BY <1>1, <2>1
<1>5. ASSUME NEW m \in o..(p - 1) PROVE NulCount(buf, m) = NulCount(buf, o)
  <2>1. m \in Nat /\ o <= m /\ \A l \in (o + 1)..m : l \in (o + 1)..(p - 1)
    BY <1>0, <1>3
  <2>2. \A l \in (o + 1)..m : buf[l] # NUL
    BY <1>4, <2>1
  <2> QED
    BY <1>0, <2>1, <2>2, CountSame
<1>6. NulCount(buf, p) = NulCount(buf, o) + 1
  <2>1. NulCount(buf, p) = NulCount(buf, p - 1) + 1
    BY <1>3, CountOne
  <2>2. p - 1 \in o..(p - 1)
    BY <1>0, <1>1, <1>3
  <2> QED
    BY <1>5, <2>1, <2>2
<1>7. NextNul(buf, o, p)
  BY <1>3, <1>4, <1>5, <1>6 DEF NextNul
<1> QED
  BY <1>0, <1>3, <1>7 DEF max, k

\* The key of an entry at o ends at p, where the type follows.
KeyEnds(buf, o, p) ==
  /\ NextNul(buf, o, p) /\ p < Len(buf)
  /\ Strnlen(buf, o, Len(buf) - o) = p - o - 1
  /\ Len(KeyAt(buf, o)) = p - o - 1
  /\ \A j \in 1..(p - o - 1) : KeyAt(buf, o)[j] = buf[o + j]
  /\ TypeAt(buf, o) = buf[p + 1]

\* A buffer that can be cut: its NULs come in pairs, and it ends with one.
Paired(buf) ==
  /\ Sequence(buf) /\ Len(buf) > 0 /\ buf[Len(buf)] = NUL
  /\ NulCount(buf, Len(buf)) % 2 = 0

\* An entry begins here, as far as the number of NULs tells.
AtEntry(buf, o) == o \in 0..(Len(buf) - 1) /\ NulCount(buf, o) % 2 = 0

LEMMA Pieces ==
  ASSUME NEW buf, Sequence(buf), NEW a \in Nat, NEW n \in Nat, a + n <= Len(buf)
  PROVE  /\ Sequence(SubSeq(buf, a + 1, a + n)) /\ Len(SubSeq(buf, a + 1, a + n)) = n
         /\ \A j \in 1..n : SubSeq(buf, a + 1, a + n)[j] = buf[a + j]
<1> DEFINE S == Range(buf)
           s == SubSeq(buf, a + 1, a + n)
<1>1. buf \in Seq(S) /\ Len(buf) \in Nat
  BY DEF Sequence
<1> HIDE DEF S
<1>2. \A m \in (a + 1)..(a + n) : m \in 1..Len(buf)
  BY <1>1
<1>3. \A m \in (a + 1)..(a + n) : buf[m] \in S
  BY <1>1, <1>2
<1>4. /\ a + 1 \in Int /\ a + n \in Int
      /\ (IF a + 1 <= a + n THEN a + n - (a + 1) + 1 ELSE 0) = n
      /\ a + n - (a + 1) + 1 = n
      /\ \A j \in 1..n : a + 1 + j - 1 = a + j
  OBVIOUS
<1>5. /\ s \in Seq(S)
      /\ Len(s) = (IF a + 1 <= a + n THEN a + n - (a + 1) + 1 ELSE 0)
      /\ \A j \in 1..(a + n - (a + 1) + 1) : s[j] = buf[a + 1 + j - 1]
  BY <1>3, <1>4, SubSeqProperties
<1> HIDE DEF s
<1>6. s \in Seq(Range(s))
  BY <1>5, SeqOfRange
<1>7. Len(s) = n /\ \A j \in 1..n : s[j] = buf[a + j]
  BY <1>4, <1>5
<1> QED
  BY <1>6, <1>7 DEF Sequence, s

LEMMA KeyHere ==
  ASSUME NEW buf, Paired(buf), NEW o, AtEntry(buf, o)
  PROVE  \E p : KeyEnds(buf, o, p) /\ Sequence(KeyAt(buf, o))
<1> DEFINE L == Len(buf)
           k == Strnlen(buf, o, L - o)
           p == o + k + 1
<1>1. /\ Sequence(buf) /\ L \in Nat /\ L > 0 /\ buf[L] = NUL /\ NulCount(buf, L) % 2 = 0
      /\ o \in 0..(L - 1) /\ NulCount(buf, o) % 2 = 0 /\ NulCount(buf, o) \in Nat
  BY CountNat DEF Paired, AtEntry, Sequence
<1>2. k \in 0..(L - o - 1) /\ NextNul(buf, o, p)
  BY <1>1, NextNulIs
<1> HIDE DEF k
<1>3. p \in (o + 1)..L /\ NulCount(buf, p) = NulCount(buf, o) + 1
  BY <1>2 DEF NextNul
<1>4. NulCount(buf, p) % 2 = 1
  BY <1>1, <1>3
<1>5. p < L
  <2>1. p # L
    BY <1>1, <1>4
  <2> QED
    BY <1>1, <1>3, <2>1
<1>6. KeyAt(buf, o) = SubSeq(buf, o + 1, o + k)
  BY DEF KeyAt, k
<1>7. /\ Sequence(KeyAt(buf, o)) /\ Len(KeyAt(buf, o)) = k
      /\ \A j \in 1..k : KeyAt(buf, o)[j] = buf[o + j]
  BY <1>1, <1>2, <1>6, Pieces
<1>8. TypeAt(buf, o) = buf[p + 1]
  <2>1. o + k + 2 = p + 1
    BY <1>1, <1>2
  <2> QED
    BY <1>7, <2>1 DEF TypeAt
<1>9. p - o - 1 = k
  BY <1>1, <1>2
<1>10. KeyEnds(buf, o, p)
  BY <1>2, <1>5, <1>7, <1>8, <1>9 DEF KeyEnds, k
<1> QED
  BY <1>7, <1>10

\* The entry at o ends at q.
EntryEnds(buf, o, p, q) ==
  /\ NextNul(buf, p, q) /\ q > p + 1
  /\ EntryLength(buf, o) = q - o
  /\ Sequence(ValAt(buf, o)) /\ Len(ValAt(buf, o)) = q - p - 2
  /\ \A j \in 1..(q - p - 2) : ValAt(buf, o)[j] = buf[p + 1 + j]

LEMMA ValueHere ==
  ASSUME NEW buf, Paired(buf), NEW o, AtEntry(buf, o), NEW p, KeyEnds(buf, o, p),
         p # o + 1, buf[p + 1] # NUL
  PROVE  \E q : EntryEnds(buf, o, p, q)
<1> DEFINE L == Len(buf)
           k == p - o - 1
           v == Strnlen(buf, p, L - p)
           q == p + v + 1
           x == Strnlen(buf, p + 1, L - (p + 1))
<1>1. /\ Sequence(buf) /\ L \in Nat /\ buf[L] = NUL /\ o \in 0..(L - 1)
  BY DEF Paired, AtEntry, Sequence
<1>2. /\ p \in (o + 1)..L /\ p < L /\ Strnlen(buf, o, L - o) = k /\ Len(KeyAt(buf, o)) = k
  BY DEF KeyEnds, NextNul
<1>3. p \in 0..(L - 1) /\ p \in Nat /\ k \in Nat /\ k > 0 /\ p + 1 < L
  <2>1. p + 1 # L
    BY <1>1
  <2> QED
    BY <1>1, <1>2, <2>1
<1>4. v \in 0..(L - p - 1) /\ NextNul(buf, p, q)
  BY <1>1, <1>3, NextNulIs
<1> HIDE DEF L, k, v
<1>5. q \in (p + 1)..L /\ buf[q] = NUL /\ \A m \in (p + 1)..(q - 1) : buf[m] # NUL
  BY <1>4 DEF NextNul, L
<1>6. v > 0 /\ q > p + 1
  <2>1. v # 0
    BY <1>3, <1>5
  <2> QED
    BY <1>3, <1>4, <2>1
<1>7. x = v - 1
  <2>1. v - 1 \in 0..((L - (p + 1)) - 1) /\ (p + 1) + (v - 1) + 1 = q
        /\ p + 1 \in Nat /\ L - (p + 1) \in Nat
    BY <1>1, <1>3, <1>4, <1>6
  <2>2. ASSUME NEW j \in 0..((v - 1) - 1) PROVE buf[(p + 1) + j + 1] # NUL
    <3>1. (p + 1) + j + 1 \in (p + 1)..(q - 1)
      BY <1>3, <1>4, <1>6
    <3> QED
      BY <1>5, <3>1
  <2>3. FirstNul(buf, p + 1, L - (p + 1), v - 1)
    BY <1>5, <2>1, <2>2 DEF FirstNul
  <2> QED
    BY <2>1, <2>3, StrnlenIs
<1> HIDE DEF x
<1>8. EntryLength(buf, o) = k + v + 2
  <2>1. /\ (L - o) - (k + 1) = L - p /\ o + k + 1 = p
        /\ k \notin {0, L - o} /\ v \notin {0, L - p}
    BY <1>1, <1>2, <1>3, <1>4, <1>6 DEF k
  <2>2. Strnlen(buf, o, L - o) = k /\ Strnlen(buf, p, L - p) = v
    BY <1>2 DEF v
  <2> QED
    BY <2>1, <2>2 DEF EntryLength, L
<1>9. o + k + 2 = p + 1
  BY <1>1, <1>3 DEF k
<1>10. ValAt(buf, o) = SubSeq(buf, (p + 1) + 1, (p + 1) + (v - 1))
  BY <1>2, <1>7, <1>9 DEF ValAt, x, L
<1>11. p + 1 \in Nat /\ v - 1 \in Nat /\ (p + 1) + (v - 1) <= L
  BY <1>1, <1>3, <1>4, <1>6
<1>12. /\ Sequence(ValAt(buf, o)) /\ Len(ValAt(buf, o)) = v - 1
       /\ \A j \in 1..(v - 1) : ValAt(buf, o)[j] = buf[(p + 1) + j]
  <2> DEFINE a == p + 1
             n == v - 1
  <2>1. a \in Nat /\ n \in Nat /\ a + n <= Len(buf) /\ ValAt(buf, o) = SubSeq(buf, a + 1, a + n)
    BY <1>10, <1>11 DEF L
  <2> HIDE DEF a, n
  <2>2. Sequence(buf) /\ a \in Nat /\ n \in Nat /\ a + n <= Len(buf)
    BY <1>1, <2>1
  <2>3. /\ Sequence(SubSeq(buf, a + 1, a + n)) /\ Len(SubSeq(buf, a + 1, a + n)) = n
        /\ \A j \in 1..n : SubSeq(buf, a + 1, a + n)[j] = buf[a + j]
    BY <2>2, Pieces
  <2> QED
    BY <2>1, <2>3 DEF a, n
<1>13. q - p - 2 = v - 1 /\ k + v + 2 = q - o
  BY <1>1, <1>3, <1>4 DEF k
<1>14. EntryEnds(buf, o, p, q)
  BY <1>4, <1>6, <1>8, <1>12, <1>13 DEF EntryEnds
<1> QED
  BY <1>14

\* Every entry with a key and a type can be stored again, and another begins where it ends.
LEMMA EntryHere ==
  ASSUME NEW buf, Paired(buf), NEW o, AtEntry(buf, o), NEW p, KeyEnds(buf, o, p),
         Sequence(KeyAt(buf, o)), KeyAt(buf, o) # <<>>, TypeAt(buf, o) \in KvTypes
  PROVE  \E q : /\ EntryEnds(buf, o, p, q)
                /\ Codable(EntryAt(buf, o)) /\ Placed(EntryAt(buf, o), buf, o)
                /\ EntryLength(buf, o) = Size(Len(EntryAt(buf, o).key), Len(EntryAt(buf, o).val))
<1> DEFINE L == Len(buf)
           k == p - o - 1
           e == EntryAt(buf, o)
<1>1. /\ Sequence(buf) /\ L \in Nat /\ buf[L] = NUL /\ o \in 0..(L - 1)
  BY DEF Paired, AtEntry, Sequence
<1>2. /\ p \in (o + 1)..L /\ p < L /\ Len(KeyAt(buf, o)) = k
      /\ \A j \in 1..k : KeyAt(buf, o)[j] = buf[o + j]
      /\ TypeAt(buf, o) = buf[p + 1]
      /\ buf[p] = NUL /\ \A m \in (o + 1)..(p - 1) : buf[m] # NUL
  BY DEF KeyEnds, NextNul
<1>3. k \in Nat /\ k > 0 /\ p # o + 1
  <2>1. Len(KeyAt(buf, o)) > 0
    BY NotEmpty DEF Sequence
  <2> QED
    BY <1>1, <1>2, <2>1
<1>4. buf[p + 1] # NUL
  BY <1>2 DEF KvTypes, NUL
<1>5. PICK q : EntryEnds(buf, o, p, q)
  BY <1>3, <1>4, ValueHere
<1> DEFINE v == q - p - 2
<1>6. /\ q > p + 1 /\ EntryLength(buf, o) = q - o
      /\ Sequence(ValAt(buf, o)) /\ Len(ValAt(buf, o)) = v
      /\ \A j \in 1..v : ValAt(buf, o)[j] = buf[p + 1 + j]
      /\ q \in (p + 1)..L /\ buf[q] = NUL /\ \A m \in (p + 1)..(q - 1) : buf[m] # NUL
  BY <1>5 DEF EntryEnds, NextNul
<1>7. v \in Nat /\ q - o = k + v + 3 /\ o + k + 1 = p /\ o + k + 2 = p + 1
      /\ o + k + 2 + v + 1 = q /\ o + (k + v + 3) <= L
  BY <1>1, <1>2, <1>3, <1>6
<1>8. /\ e.key = KeyAt(buf, o) /\ e.type = TypeAt(buf, o) /\ e.val = ValAt(buf, o)
      /\ e = Entry(e.key, e.type, e.val)
  BY DEF EntryAt, Entry
<1> HIDE DEF e, k, v
<1>9. Clean(e.key) /\ Clean(e.val)
  <2>1. ASSUME NEW j \in 1..k PROVE e.key[j] # NUL
    <3>1. o + j \in (o + 1)..(p - 1)
      BY <1>1, <1>3, <1>7
    <3> QED
      BY <1>2, <1>8, <3>1
  <2>2. ASSUME NEW j \in 1..v PROVE e.val[j] # NUL
    <3>1. p + 1 + j \in (p + 1)..(q - 1)
      BY <1>1, <1>2, <1>6, <1>7
    <3> QED
      BY <1>6, <1>8, <3>1
  <2>3. DOMAIN e.key = 1..k /\ DOMAIN e.val = 1..v
    BY <1>2, <1>6, <1>8 DEF Sequence
  <2>4. NUL \notin Range(e.key) /\ NUL \notin Range(e.val)
    BY <2>1, <2>2, <2>3 DEF Range
  <2> QED
    BY <1>6, <1>8, <2>4 DEF Clean, Sequence
<1>10. Codable(e)
  BY <1>8, <1>9 DEF Codable
<1>11. Placed(e, buf, o)
  <2>1. Len(e.key) = k /\ Len(e.val) = v /\ o + Size(k, v) <= L /\ o \in Nat
    BY <1>1, <1>2, <1>6, <1>7, <1>8 DEF Size
  <2>2. /\ buf[o + k + 1] = NUL /\ buf[o + k + 2] = e.type /\ buf[o + k + 2 + v + 1] = NUL
    BY <1>2, <1>6, <1>7, <1>8
  <2>3. \A j \in 1..v : buf[o + k + 2 + j] = e.val[j]
    BY <1>6, <1>7, <1>8
  <2>4. \A j \in 1..k : buf[o + j] = e.key[j]
    BY <1>2, <1>8
  <2> QED
    BY <1>1, <1>3, <1>7, <2>1, <2>2, <2>3, <2>4 DEF Placed
<1>12. EntryLength(buf, o) = Size(Len(e.key), Len(e.val))
  BY <1>2, <1>6, <1>7, <1>8 DEF Size
<1> QED
  BY <1>5, <1>10, <1>11, <1>12 DEF e

\* What kv_decode looks for at an entry.
GoodAt(buf, o) == KeyAt(buf, o) # <<>> /\ TypeAt(buf, o) \in KvTypes

\* What there is at the NUL behind a key, wherever entries begin.
Well(buf, n) ==
  buf[n] = NUL /\ NulCount(buf, n) % 2 = 1 =>
    n > 1 /\ buf[n - 1] # NUL /\ buf[n + 1] \in KvTypes

Starts(buf, o) == AtEntry(buf, o) /\ (o = 0 \/ buf[o] = NUL)

LEMMA WellIsGood ==
  ASSUME NEW buf, Paired(buf), NEW o, Starts(buf, o), NEW p, KeyEnds(buf, o, p),
         Sequence(KeyAt(buf, o))
  PROVE  Well(buf, p) <=> GoodAt(buf, o)
<1>1. /\ Len(buf) \in Nat /\ o \in Nat /\ o \in 0..(Len(buf) - 1) /\ NulCount(buf, o) % 2 = 0
      /\ NulCount(buf, o) \in Nat /\ (o = 0 \/ buf[o] = NUL)
  BY CountNat DEF Paired, Starts, AtEntry, Sequence
<1>2. /\ p \in (o + 1)..Len(buf) /\ buf[p] = NUL /\ \A m \in (o + 1)..(p - 1) : buf[m] # NUL
      /\ NulCount(buf, p) = NulCount(buf, o) + 1
      /\ Len(KeyAt(buf, o)) = p - o - 1 /\ TypeAt(buf, o) = buf[p + 1]
  BY DEF KeyEnds, NextNul
<1>3. NulCount(buf, p) % 2 = 1
  <2>1. \A n \in Nat : n % 2 = 0 => (n + 1) % 2 = 1
    OBVIOUS
  <2>2. NulCount(buf, o) \in Nat /\ NulCount(buf, o) % 2 = 0
    BY <1>1
  <2>3. (NulCount(buf, o) + 1) % 2 = 1
    BY <2>1, <2>2
  <2> QED
    BY <1>2, <2>3
<1>4. KeyAt(buf, o) # <<>> <=> p # o + 1
  <2>1. KeyAt(buf, o) # <<>> => Len(KeyAt(buf, o)) > 0
    BY NotEmpty DEF Sequence
  <2>2. KeyAt(buf, o) = <<>> => Len(KeyAt(buf, o)) = 0
    OBVIOUS
  <2>3. p - o - 1 = 0 <=> p = o + 1
    BY <1>1, <1>2
  <2> QED
    BY <1>1, <1>2, <2>1, <2>2, <2>3
<1>5. p > 1 /\ buf[p - 1] # NUL <=> p # o + 1
  <2>1. CASE p = o + 1
    <3>1. p - 1 = o /\ (o = 0 => ~(p > 1))
      BY <1>1, <2>1
    <3> QED
      BY <1>1, <2>1, <3>1
  <2>2. CASE p # o + 1
    <3>1. p > 1 /\ p - 1 \in (o + 1)..(p - 1)
      BY <1>1, <1>2, <2>2
    <3> QED
      BY <1>2, <2>2, <3>1
  <2> QED
    BY <2>1, <2>2
<1> QED
  BY <1>2, <1>3, <1>4, <1>5 DEF Well, GoodAt

\* The entry at o can be stored, and the next one starts where it ends.
EntryFrom(buf, o) ==
  LET e == EntryAt(buf, o)
      q == o + EntryLength(buf, o)
  IN /\ Codable(e) /\ Placed(e, buf, o) /\ EntryLength(buf, o) = Size(Len(e.key), Len(e.val))
     /\ EntryLength(buf, o) \in Nat \ {0} /\ q <= Len(buf)
     /\ q < Len(buf) => Starts(buf, q)
     /\ \A m \in (o + 1)..q : Well(buf, m)

LEMMA StartsNext ==
  ASSUME NEW buf, Paired(buf), NEW o, Starts(buf, o), GoodAt(buf, o)
  PROVE  EntryFrom(buf, o)
<1>1. AtEntry(buf, o)
  BY DEF Starts
<1>2. PICK p : KeyEnds(buf, o, p) /\ Sequence(KeyAt(buf, o))
  BY <1>1, KeyHere
<1>3. KeyAt(buf, o) # <<>> /\ TypeAt(buf, o) \in KvTypes /\ Well(buf, p)
  BY <1>2, WellIsGood DEF GoodAt
<1>4. PICK q : /\ EntryEnds(buf, o, p, q)
               /\ Codable(EntryAt(buf, o)) /\ Placed(EntryAt(buf, o), buf, o)
               /\ EntryLength(buf, o) = Size(Len(EntryAt(buf, o).key), Len(EntryAt(buf, o).val))
  BY <1>1, <1>2, <1>3, EntryHere
<1>5. /\ Len(buf) \in Nat /\ o \in Nat /\ NulCount(buf, o) % 2 = 0 /\ NulCount(buf, o) \in Nat
  BY <1>1, CountNat DEF Paired, AtEntry, Sequence
<1>6. /\ p \in (o + 1)..Len(buf) /\ \A m \in (o + 1)..(p - 1) : buf[m] # NUL
      /\ NulCount(buf, p) = NulCount(buf, o) + 1
  BY <1>2 DEF KeyEnds, NextNul
<1>7. /\ q \in (p + 1)..Len(buf) /\ buf[q] = NUL /\ \A m \in (p + 1)..(q - 1) : buf[m] # NUL
      /\ NulCount(buf, q) = NulCount(buf, p) + 1 /\ EntryLength(buf, o) = q - o
  BY <1>4 DEF EntryEnds, NextNul
<1>8. NulCount(buf, q) % 2 = 0
  BY <1>5, <1>6, <1>7
<1>9. /\ q = o + EntryLength(buf, o) /\ EntryLength(buf, o) \in Nat \ {0} /\ q <= Len(buf)
      /\ q \in Nat
  BY <1>5, <1>6, <1>7
<1>10. q < Len(buf) => Starts(buf, q)
  BY <1>5, <1>7, <1>8, <1>9 DEF Starts, AtEntry
<1>11. ASSUME NEW m \in (o + 1)..q PROVE Well(buf, m)
  <2>1. m \in (o + 1)..(p - 1) \/ m = p \/ m \in (p + 1)..(q - 1) \/ m = q
    BY <1>5, <1>6, <1>7
  <2>2. CASE m \in (o + 1)..(p - 1) \/ m \in (p + 1)..(q - 1)
    BY <1>6, <1>7, <2>2 DEF Well
  <2>3. CASE m = q
    BY <1>8, <2>3 DEF Well
  <2> QED
    BY <1>3, <2>1, <2>2, <2>3
<1> QED
  BY <1>4, <1>9, <1>10, <1>11 DEF EntryFrom

\* A walk meets nothing but entries, if it stops at none that is bad.
LEMMA StartsAll ==
  ASSUME NEW buf, Paired(buf),
         \A n \in 1..Len(Visits(buf)) :
           Starts(buf, Visits(buf)[n]) => GoodAt(buf, Visits(buf)[n])
  PROVE  \A n \in 1..Len(Visits(buf)) : Starts(buf, Visits(buf)[n]) /\ EntryFrom(buf, Visits(buf)[n])
<1> DEFINE w == Visits(buf)
           N == Len(w)
           T == {n \in Nat : n \in 1..N => Starts(buf, w[n])}
<1>1. buf \in Seq(Range(buf)) /\ Len(buf) \in Nat /\ Len(buf) > 0 /\ buf # <<>>
  BY DEF Paired, Sequence
<1>2. /\ w \in Seq(Nat) /\ N = Len(w) /\ N \in Nat /\ w[1] = 0
      /\ \A n \in 1..(N - 1) : w[n + 1] = BufNext(buf, w[n])
  <2>1. Iteration(buf, w)
    BY <1>1, VisitsStayInside
  <2> HIDE DEF w
  <2> QED
    BY <1>1, <2>1 DEF Iteration
<1>3. \A n \in 1..N : Starts(buf, w[n]) => GoodAt(buf, w[n])
  OBVIOUS
<1> HIDE DEF w, N
<1>4. 0 \in T
  OBVIOUS
<1>5. ASSUME NEW n \in 0..(N - 1), n \in T PROVE n + 1 \in T
  <2>1. n + 1 \in Nat
    OBVIOUS
  <2>2. CASE n = 0
    <3>1. NulCount(buf, 0) = 0
      BY FS_EmptySet DEF NulCount
    <3>2. Starts(buf, 0)
      BY <1>1, <3>1 DEF Starts, AtEntry
    <3> QED
      BY <1>2, <2>1, <2>2, <3>2
  <2>3. CASE n # 0
    <3>1. n \in 1..N /\ n \in 1..(N - 1) /\ n + 1 \in 1..N
      BY <1>2, <2>3
    <3>2. Starts(buf, w[n]) /\ GoodAt(buf, w[n])
      BY <1>3, <1>5, <3>1
    <3>3. EntryFrom(buf, w[n])
      BY <3>2, StartsNext
    <3> DEFINE o == w[n]
               len == EntryLength(buf, o)
    <3>4. o \in Nat /\ w[n + 1] \in Nat /\ w[n + 1] = BufNext(buf, o)
      BY <1>2, <3>1
    <3>5. len \in Nat \ {0} /\ o + len <= Len(buf) /\ (o + len < Len(buf) => Starts(buf, o + len))
      BY <3>3 DEF EntryFrom
    <3> HIDE DEF o, len
    <3>6. BufNext(buf, o) # NULL /\ o # NULL /\ len # Bad
      BY <3>4, <3>5 DEF NULL, Bad
    <3>7. w[n + 1] = o + len /\ o + len # Len(buf)
      BY <1>1, <3>4, <3>6 DEF BufNext, len
    <3>8. Starts(buf, w[n + 1])
      BY <1>1, <3>4, <3>5, <3>7
    <3> QED
      BY <2>1, <3>8
  <2> QED
    BY <2>2, <2>3
<1> HIDE DEF T
<1>6. 0..N \subseteq T
  BY <1>2, <1>4, <1>5, InductionTo
<1>7. ASSUME NEW n \in 1..N PROVE Starts(buf, w[n])
  <2>1. n \in T
    BY <1>2, <1>6
  <2> QED
    BY <2>1 DEF T
<1>8. \A n \in 1..N : EntryFrom(buf, w[n])
  BY <1>3, <1>7, StartsNext
<1> QED
  BY <1>7, <1>8 DEF w, N

\* A buffer holds a kv whose entries begin at the places at.
Holds(buf, kv, at) ==
  /\ Sequence(buf) /\ Storable(kv) /\ Cuts(buf, Len(kv), at)
  /\ \A n \in 1..Len(kv) : Placed(kv[n], buf, at[n])

SizeOf(e) == Size(Len(e.key), Len(e.val))

\* Each place lies behind the entry before it.
Rows(kv, at) ==
  /\ at \in [1..(Len(kv) + 1) -> Nat] /\ at[1] = 0
  /\ \A n \in 1..Len(kv) : at[n + 1] = at[n] + SizeOf(kv[n])

LEMMA SizeRange ==
  ASSUME NEW e, Codable(e)
  PROVE  Len(e.key) \in Nat /\ Len(e.val) \in Nat /\ SizeOf(e) \in Nat \ {0}
<1>1. Len(e.key) \in Nat /\ Len(e.val) \in Nat
  BY DEF Codable, Clean
<1>2. \A k, v \in Nat : k + v + 3 \in Nat \ {0}
  OBVIOUS
<1> QED
  BY <1>1, <1>2 DEF SizeOf, Size

LEMMA HoldsIf ==
  ASSUME NEW buf, Sequence(buf), NEW kv, Storable(kv), NEW at, Rows(kv, at),
         at[Len(kv) + 1] = Len(buf), \A n \in 1..Len(kv) : Placed(kv[n], buf, at[n])
  PROVE  Holds(buf, kv, at)
<1>1. buf \in Seq(Range(buf)) /\ Len(buf) \in Nat
  BY DEF Sequence
<1>2. Len(kv) \in Nat /\ \A n \in 1..Len(kv) : Codable(kv[n])
  BY DEF Storable, Sequence
<1>3. ASSUME NEW n \in 1..Len(kv)
      PROVE  EntryLength(buf, at[n]) \in Nat \ {0} /\ at[n + 1] = at[n] + EntryLength(buf, at[n])
  <2>1. EntryLength(buf, at[n]) = SizeOf(kv[n])
    BY <1>1, <1>2, PlacedIsRead DEF SizeOf
  <2>2. SizeOf(kv[n]) \in Nat \ {0}
    BY <1>2, SizeRange
  <2> QED
    BY <2>1, <2>2 DEF Rows
<1>4. Cuts(buf, Len(kv), at)
  BY <1>1, <1>2, <1>3 DEF Cuts, Rows
<1> QED
  BY <1>4 DEF Holds

LEMMA HoldsMeans ==
  ASSUME NEW buf, NEW kv, NEW at, Holds(buf, kv, at)
  PROVE  /\ buf \in Seq(Range(buf)) /\ Len(buf) \in Nat
         /\ kv \in Seq(Range(kv)) /\ Len(kv) \in Nat /\ \A n \in 1..Len(kv) : Codable(kv[n])
         /\ Rows(kv, at) /\ at[Len(kv) + 1] = Len(buf)
         /\ \A n \in 1..Len(kv) : /\ EntryLength(buf, at[n]) = SizeOf(kv[n])
                                  /\ EntryAt(buf, at[n]) = kv[n]
<1>1. /\ buf \in Seq(Range(buf)) /\ Len(buf) \in Nat
      /\ kv \in Seq(Range(kv)) /\ Len(kv) \in Nat /\ \A n \in 1..Len(kv) : Codable(kv[n])
  BY DEF Holds, Storable, Sequence
<1>2. \A n \in 1..Len(kv) : EntryLength(buf, at[n]) = SizeOf(kv[n]) /\ EntryAt(buf, at[n]) = kv[n]
  BY <1>1, PlacedIsRead DEF Holds, SizeOf
<1>3. Rows(kv, at) /\ at[Len(kv) + 1] = Len(buf)
  BY <1>2 DEF Holds, Cuts, Rows
<1> QED
  BY <1>1, <1>2, <1>3

LEMMA EncodedHolds ==
  ASSUME NEW kv, Storable(kv)
  PROVE  \E at : Holds(KvEncode(kv), kv, at)
<1>1. PICK S, at : /\ KvEncode(kv) \in Seq(S) /\ Cuts(KvEncode(kv), Len(kv), at)
                   /\ \A n \in 1..Len(kv) : Placed(kv[n], KvEncode(kv), at[n])
  BY EncodedIsCut
<1>2. Sequence(KvEncode(kv))
  BY <1>1, SeqOfRange DEF Sequence
<1> QED
  BY <1>1, <1>2 DEF Holds

LEMMA HeldIsRead ==
  ASSUME NEW buf, NEW kv, NEW at, Holds(buf, kv, at)
  PROVE  /\ Entries(buf) = kv /\ Len(Visits(buf)) = Len(kv) /\ DOMAIN Visits(buf) = 1..Len(kv)
         /\ \A n \in 1..Len(kv) : Visits(buf)[n] = at[n]
<1>1. /\ buf \in Seq(Range(buf)) /\ kv \in Seq(Range(kv)) /\ Len(kv) \in Nat
      /\ Cuts(buf, Len(kv), at) /\ \A n \in 1..Len(kv) : EntryAt(buf, at[n]) = kv[n]
  BY HoldsMeans DEF Holds
<1>2. /\ Visits(buf) \in Seq(Int) /\ Len(Visits(buf)) = Len(kv)
      /\ \A n \in 1..Len(kv) : Visits(buf)[n] = at[n]
  BY <1>1, CutsVisited
<1>3. DOMAIN Visits(buf) = 1..Len(kv)
  BY <1>2
<1>4. Entries(buf) = [n \in 1..Len(kv) |-> kv[n]]
  BY <1>1, <1>2, <1>3 DEF Entries
<1> QED
  BY <1>1, <1>2, <1>3, <1>4

\* Every symbol belongs to an entry.
LEMMA InSome ==
  ASSUME NEW buf, NEW N, NEW at, Cuts(buf, N, at), NEW m \in 1..Len(buf)
  PROVE  \E n \in 1..N : at[n] < m /\ m <= at[n + 1]
<1>1. /\ N \in Nat /\ Len(buf) \in Nat /\ at \in [1..(N + 1) -> Nat]
      /\ at[1] = 0 /\ at[N + 1] = Len(buf)
  BY DEF Cuts
<1> DEFINE T == {n \in 1..(N + 1) : m <= at[n]}
<1>2. T \subseteq Nat /\ N + 1 \in T
  BY <1>1
<1>3. PICK n \in T : \A k \in T : n <= k
  <2> HIDE DEF T
  <2> QED
    BY <1>2, LeastNumber
<1>4. n \in 1..(N + 1) /\ m <= at[n] /\ n # 1
  BY <1>1, <1>3
<1>5. n - 1 \in 1..N /\ n - 1 \notin T /\ (n - 1) + 1 = n /\ n - 1 \in 1..(N + 1)
  BY <1>1, <1>3, <1>4
<1>6. at[n - 1] \in Nat /\ ~(m <= at[n - 1])
  BY <1>1, <1>5
<1> QED
  BY <1>4, <1>5, <1>6

\* What is at each symbol of an entry that stands at o.
LEMMA PlacedSame ==
  ASSUME NEW e, NEW a, NEW b, NEW o, Codable(e), Placed(e, a, o), Placed(e, b, o),
         NEW m \in (o + 1)..(o + SizeOf(e))
  PROVE  a[m] = b[m]
<1> DEFINE k == Len(e.key)
           v == Len(e.val)
           j == m - o
<1>1. /\ k \in Nat /\ v \in Nat /\ o \in Nat
      /\ \A n \in 1..k : a[o + n] = b[o + n]
      /\ a[o + k + 1] = b[o + k + 1] /\ a[o + k + 2] = b[o + k + 2]
      /\ \A n \in 1..v : a[o + k + 2 + n] = b[o + k + 2 + n]
      /\ a[o + k + 2 + v + 1] = b[o + k + 2 + v + 1]
  BY DEF Placed
<1>2. m \in Int /\ o < m /\ m <= o + (k + v + 3)
  <2>1. SizeOf(e) = k + v + 3
    BY DEF SizeOf, Size
  <2> HIDE DEF k, v
  <2> QED
    BY <1>1, <2>1
<1> HIDE DEF k, v
<1>3. CASE j <= k
  <2>1. j \in 1..k /\ o + j = m
    BY <1>1, <1>2, <1>3
  <2> QED
    BY <1>1, <2>1
<1>4. CASE j = k + 1 \/ j = k + 2 \/ j = k + 2 + v + 1
  <2>1. m = o + k + 1 \/ m = o + k + 2 \/ m = o + k + 2 + v + 1
    BY <1>1, <1>2, <1>4
  <2> QED
    BY <1>1, <2>1
<1>5. CASE j > k + 2 /\ j <= k + 2 + v
  <2>1. j - k - 2 \in 1..v /\ o + k + 2 + (j - k - 2) = m
    BY <1>1, <1>2, <1>5
  <2> QED
    BY <1>1, <2>1
<1>6. j <= k \/ j = k + 1 \/ j = k + 2 \/ (j > k + 2 /\ j <= k + 2 + v) \/ j = k + 2 + v + 1
  BY <1>1, <1>2
<1> QED
  BY <1>3, <1>4, <1>5, <1>6

\* Only one buffer holds a kv.
LEMMA SameBuffer ==
  ASSUME NEW kv, NEW a, NEW at, Holds(a, kv, at), NEW b, NEW bt, Holds(b, kv, bt)
  PROVE  a = b
<1> DEFINE N == Len(kv)
           T == {n \in Nat : n + 1 \in 1..(N + 1) => at[n + 1] = bt[n + 1]}
<1>1. /\ a \in Seq(Range(a)) /\ Len(a) \in Nat /\ b \in Seq(Range(b)) /\ Len(b) \in Nat
      /\ N \in Nat /\ \A n \in 1..N : Codable(kv[n])
      /\ Rows(kv, at) /\ Rows(kv, bt) /\ at[N + 1] = Len(a) /\ bt[N + 1] = Len(b)
  BY HoldsMeans
<1>2. /\ at \in [1..(N + 1) -> Nat] /\ bt \in [1..(N + 1) -> Nat] /\ at[1] = 0 /\ bt[1] = 0
      /\ \A n \in 1..N : at[n + 1] = at[n] + SizeOf(kv[n]) /\ bt[n + 1] = bt[n] + SizeOf(kv[n])
  BY <1>1 DEF Rows
<1> HIDE DEF N
<1>3. 0 \in T
  BY <1>2
<1>4. ASSUME NEW n \in 0..(N - 1), n \in T PROVE n + 1 \in T
  <2>1. n + 1 \in 1..N /\ n + 1 \in 1..(N + 1)
    BY <1>1
  <2> QED
    BY <1>2, <1>4, <2>1
<1> HIDE DEF T
<1>5. 0..N \subseteq T
  BY <1>1, <1>3, <1>4, InductionTo
<1>6. ASSUME NEW n \in 1..(N + 1) PROVE at[n] = bt[n]
  <2>1. n - 1 \in 0..N /\ (n - 1) + 1 = n
    BY <1>1
  <2>2. n - 1 \in T
    BY <1>5, <2>1
  <2> QED
    BY <2>1, <2>2 DEF T
<1>7. Len(a) = Len(b)
  BY <1>1, <1>6
<1>8. ASSUME NEW m \in 1..Len(a) PROVE a[m] = b[m]
  <2>1. PICK n \in 1..N : at[n] < m /\ m <= at[n + 1]
    BY InSome DEF Holds, N
  <2>2. /\ at[n] = bt[n] /\ at[n] \in Nat /\ at[n + 1] = at[n] + SizeOf(kv[n]) /\ Codable(kv[n])
    BY <1>1, <1>2, <1>6
  <2>3. Placed(kv[n], a, at[n]) /\ Placed(kv[n], b, at[n])
    BY <2>2 DEF Holds, N
  <2>4. SizeOf(kv[n]) \in Nat
    BY <2>2, SizeRange
  <2>5. m \in (at[n] + 1)..(at[n] + SizeOf(kv[n]))
    BY <1>1, <2>1, <2>2, <2>4
  <2> QED
    BY <2>2, <2>3, <2>5, PlacedSame
<1> QED
  BY <1>1, <1>7, <1>8, SameSequence

LEMMA HeldIsEncoded ==
  ASSUME NEW buf, NEW kv, NEW at, Holds(buf, kv, at)
  PROVE  KvEncode(kv) = buf
<1>1. Storable(kv)
  BY DEF Holds
<1>2. PICK bt : Holds(KvEncode(kv), kv, bt)
  BY <1>1, EncodedHolds
<1> QED
  BY <1>2, SameBuffer

\* The check of kv_decode, in terms of places.
LEMMA IntegrityMeans ==
  ASSUME NEW buf, Sequence(buf), buf # <<>>
  PROVE  KvCheckIntegrity(buf) <=>
           Paired(buf) /\ \A n \in 1..Len(Visits(buf)) : GoodAt(buf, Visits(buf)[n])
<1>1. buf \in Seq(Range(buf)) /\ Len(buf) \in Nat /\ Len(buf) > 0 /\ DOMAIN buf = 1..Len(buf)
  BY NotEmpty DEF Sequence
<1>2. DOMAIN Visits(buf) = 1..Len(Visits(buf))
  BY <1>1, VisitsStayInside DEF Iteration
<1> QED
  BY <1>1, <1>2 DEF KvCheckIntegrity, Paired, GoodAt, NulCount, Last

\* A walk over entries only: the buffer holds what is read.
LEMMA WalkHolds ==
  ASSUME NEW buf, Paired(buf), \A n \in 1..Len(Visits(buf)) : EntryFrom(buf, Visits(buf)[n])
  PROVE  \E at : Holds(buf, Entries(buf), at)
<1> DEFINE w  == Visits(buf)
           q  == Entries(buf)
           N  == Len(q)
           at == [n \in 1..(N + 1) |-> IF n <= N THEN w[n] ELSE Len(buf)]
<1>1. buf \in Seq(Range(buf)) /\ Len(buf) \in Nat /\ Len(buf) > 0 /\ buf # <<>> /\ Sequence(buf)
  BY DEF Paired, Sequence
<1>2. /\ Sequence(q) /\ N = Len(w) /\ \A n \in 1..N : q[n] = EntryAt(buf, w[n])
  BY <1>1, EntriesSequence
<1>3. /\ w \in Seq(Nat) /\ w[1] = 0 /\ Len(w) > 0
      /\ \A n \in 1..(Len(w) - 1) : w[n + 1] = BufNext(buf, w[n])
      /\ BufNext(buf, w[Len(w)]) = NULL
  <2>1. Iteration(buf, w)
    BY <1>1, VisitsStayInside
  <2> HIDE DEF w
  <2> QED
    BY <1>1, <2>1 DEF Iteration
<1>4. \A n \in 1..N : EntryFrom(buf, w[n])
  BY <1>2
<1> HIDE DEF w, q, N
<1>5. N \in Nat /\ N > 0 /\ q \in Seq(Range(q)) /\ N = Len(q) /\ \A n \in 1..N : w[n] \in Nat
  BY <1>2, <1>3 DEF Sequence, N
<1>6. /\ at \in [1..(N + 1) -> Nat] /\ at[N + 1] = Len(buf) /\ \A n \in 1..N : at[n] = w[n]
  <2>1. \A n \in 1..N : n \in 1..(N + 1) /\ n <= N
    BY <1>5
  <2>2. N + 1 \in 1..(N + 1) /\ ~(N + 1 <= N)
    BY <1>5
  <2> QED
    BY <1>1, <1>5, <2>1, <2>2
<1> HIDE DEF at
<1>7. ASSUME NEW n \in 1..N
      PROVE  /\ Codable(q[n]) /\ Placed(q[n], buf, at[n]) /\ at[n + 1] = at[n] + SizeOf(q[n])
  <2> DEFINE o   == w[n]
             len == EntryLength(buf, o)
  <2>1. EntryFrom(buf, o) /\ q[n] = EntryAt(buf, o) /\ at[n] = o /\ o \in Nat
    BY <1>2, <1>4, <1>5, <1>6
  <2>2. /\ Codable(q[n]) /\ Placed(q[n], buf, o) /\ len = SizeOf(q[n])
        /\ len \in Nat \ {0} /\ o + len <= Len(buf)
    BY <2>1 DEF EntryFrom, SizeOf
  <2>3. BufNext(buf, o) = IF o + len = Len(buf) THEN NULL ELSE o + len
    <3>1. o # NULL /\ len # Bad
      BY <2>1, <2>2 DEF NULL, Bad
    <3> HIDE DEF o
    <3> QED
      BY <1>1, <3>1 DEF BufNext
  <2> HIDE DEF len
  <2>4. at[n + 1] = o + len
    <3>1. CASE n < N
      <4>1. n \in 1..(N - 1) /\ n + 1 \in 1..N
        BY <1>5, <3>1
      <4>2. w[n + 1] = BufNext(buf, o) /\ w[n + 1] \in Nat /\ at[n + 1] = w[n + 1]
        BY <1>2, <1>3, <1>5, <1>6, <4>1
      <4>3. w[n + 1] # NULL
        BY <4>2 DEF NULL
      <4> QED
        BY <2>3, <4>2, <4>3
    <3>2. CASE ~(n < N)
      <4>1. n = N
        BY <1>5, <3>2
      <4>2. BufNext(buf, o) = NULL
        BY <1>2, <1>3, <4>1
      <4>3. o + len # NULL
        BY <2>1, <2>2 DEF NULL
      <4> QED
        BY <1>6, <2>3, <4>1, <4>2, <4>3
    <3> QED
      BY <3>1, <3>2
  <2> QED
    BY <2>1, <2>2, <2>4
<1>8. Rows(q, at)
  <2>1. at[1] = 0
    <3>1. 1 \in 1..N
      BY <1>5
    <3> QED
      BY <1>3, <1>6, <3>1
  <2> QED
    BY <1>5, <1>6, <1>7, <2>1 DEF Rows
<1>9. Storable(q)
  BY <1>2, <1>5, <1>7 DEF Storable
<1>10. Holds(buf, q, at)
  BY <1>1, <1>5, <1>6, <1>7, <1>8, <1>9, HoldsIf
<1> QED
  BY <1>10 DEF q

\* What kv_decode accepts is what some kv is encoded to: it accepts a buffer whose NULs
\* are in the right places wherever entries begin, and every such buffer, though it
\* only walks over them (kv.c:420-478).
THEOREM IntegrityIsExact ==
  ASSUME NEW buf, Paired(buf)
  PROVE  (\A n \in 1..Len(Visits(buf)) : GoodAt(buf, Visits(buf)[n]))
           <=> \A m \in 1..Len(buf) : Well(buf, m)
<1> DEFINE w == Visits(buf)
           N == Len(w)
<1>0. buf \in Seq(Range(buf)) /\ Len(buf) \in Nat
  BY DEF Paired, Sequence
<1>1. ASSUME \A m \in 1..Len(buf) : Well(buf, m), NEW n \in 1..N PROVE GoodAt(buf, w[n])
  <2>1. ASSUME NEW o, Starts(buf, o) PROVE GoodAt(buf, o)
    <3>1. PICK p : KeyEnds(buf, o, p) /\ Sequence(KeyAt(buf, o))
      BY <2>1, KeyHere DEF Starts
    <3>2. p \in 1..Len(buf)
      <4>1. p \in (o + 1)..Len(buf) /\ o \in 0..(Len(buf) - 1)
        BY <2>1, <3>1 DEF KeyEnds, NextNul, Starts, AtEntry
      <4> QED
        BY <1>0, <4>1
    <3>3. Well(buf, p)
      BY <1>1, <3>2
    <3> QED
      BY <2>1, <3>1, <3>3, WellIsGood
  <2>2. \A l \in 1..N : Starts(buf, w[l])
    BY <2>1, StartsAll
  <2> QED
    BY <1>1, <2>1, <2>2
<1>2. ASSUME \A n \in 1..N : GoodAt(buf, w[n]), NEW m \in 1..Len(buf) PROVE Well(buf, m)
  <2>1. \A n \in 1..N : EntryFrom(buf, w[n])
    BY <1>2, StartsAll
  <2>2. PICK at : Holds(buf, Entries(buf), at)
    BY <2>1, WalkHolds
  <2>3. PICK n \in 1..Len(Entries(buf)) : at[n] < m /\ m <= at[n + 1]
    BY <2>2, InSome DEF Holds
  <2>4. /\ N = Len(Entries(buf)) /\ w[n] = at[n] /\ at[n] \in Nat
        /\ at[n + 1] = at[n] + EntryLength(buf, at[n]) /\ EntryLength(buf, at[n]) \in Nat
    <3>1. /\ Rows(Entries(buf), at) /\ Len(Entries(buf)) \in Nat
          /\ EntryLength(buf, at[n]) = SizeOf(Entries(buf)[n])
      BY <2>2, HoldsMeans
    <3>2. Codable(Entries(buf)[n])
      BY <2>2, HoldsMeans
    <3>3. SizeOf(Entries(buf)[n]) \in Nat
      BY <3>2, SizeRange
    <3>4. at[n] \in Nat /\ at[n + 1] = at[n] + SizeOf(Entries(buf)[n])
      BY <3>1 DEF Rows
    <3> QED
      BY <2>2, <3>1, <3>3, <3>4, HeldIsRead
  <2>5. EntryFrom(buf, at[n])
    BY <2>1, <2>4
  <2>6. m \in (at[n] + 1)..(at[n] + EntryLength(buf, at[n]))
    BY <2>3, <2>4
  <2> QED
    BY <2>5, <2>6 DEF EntryFrom
<1> QED
  BY <1>1, <1>2

\* What kv_decode accepts can be stored, and is what its entries are encoded to.
THEOREM EncodedIsDecoded ==
  ASSUME NEW buf, Sequence(buf), buf # <<>>, KvCheckIntegrity(buf)
  PROVE  /\ \E at : Holds(buf, Entries(buf), at)
         /\ Storable(Entries(buf)) /\ KvEncode(Entries(buf)) = buf
<1>1. Paired(buf) /\ \A n \in 1..Len(Visits(buf)) : GoodAt(buf, Visits(buf)[n])
  BY IntegrityMeans
<1>2. PICK at : Holds(buf, Entries(buf), at)
  BY <1>1, StartsAll, WalkHolds
<1>3. Storable(Entries(buf))
  BY <1>2 DEF Holds
<1> QED
  BY <1>2, <1>3, HeldIsEncoded

\* An entry adds two NULs.
LEMMA PlacedCount ==
  ASSUME NEW e, Codable(e), NEW buf, NEW o, Placed(e, buf, o)
  PROVE  NulCount(buf, o + SizeOf(e)) = NulCount(buf, o) + 2 /\ buf[o + SizeOf(e)] = NUL
<1> DEFINE k == Len(e.key)
           v == Len(e.val)
           p == o + k + 1
           q == o + k + 2 + v + 1
<1>1. /\ k \in Nat /\ v \in Nat /\ o \in Nat
      /\ \A n \in 1..k : buf[o + n] = e.key[n]
      /\ buf[p] = NUL /\ buf[o + k + 2] = e.type
      /\ \A n \in 1..v : buf[o + k + 2 + n] = e.val[n]
      /\ buf[q] = NUL
  BY DEF Placed
<1>2. e.type # NUL /\ (\A n \in 1..k : e.key[n] # NUL) /\ (\A n \in 1..v : e.val[n] # NUL)
  <2>1. Clean(e.key) /\ Clean(e.val) /\ e.type \in KvTypes
    BY DEF Codable
  <2>2. e.type # NUL
    BY <2>1 DEF KvTypes, NUL
  <2> QED
    BY <2>1, <2>2 DEF Clean, Range
<1>3. o + SizeOf(e) = q
  <2>1. SizeOf(e) = k + v + 3
    BY DEF SizeOf, Size
  <2> HIDE DEF k, v
  <2> QED
    BY <1>1, <2>1
<1> HIDE DEF k, v
<1>4. p \in Nat \ {0} /\ p - 1 = o + k /\ q \in Nat \ {0} /\ q - 1 = o + k + 2 + v /\ p <= q - 1
      /\ o <= p - 1 /\ p - 1 \in Nat /\ q - 1 \in Nat
  BY <1>1
<1>5. ASSUME NEW m \in (o + 1)..(p - 1) PROVE buf[m] # NUL
  <2>1. m - o \in 1..k /\ o + (m - o) = m
    BY <1>1
  <2> QED
    BY <1>1, <1>2, <2>1
<1>6. ASSUME NEW m \in (p + 1)..(q - 1) PROVE buf[m] # NUL
  <2>1. CASE m = o + k + 2
    BY <1>1, <1>2, <2>1
  <2>2. CASE m # o + k + 2
    <3>1. m - (o + k + 2) \in 1..v /\ o + k + 2 + (m - (o + k + 2)) = m
      BY <1>1, <2>2
    <3> QED
      BY <1>1, <1>2, <3>1
  <2> QED
    BY <2>1, <2>2
<1> HIDE DEF p, q
<1>7. NulCount(buf, p - 1) = NulCount(buf, o)
  BY <1>1, <1>4, <1>5, CountSame
<1>8. NulCount(buf, p) = NulCount(buf, p - 1) + 1
  BY <1>1, <1>4, CountOne
<1>9. NulCount(buf, q - 1) = NulCount(buf, p)
  <2>1. p \in Nat
    BY <1>4
  <2> QED
    BY <1>4, <1>6, <2>1, CountSame
<1>10. NulCount(buf, q) = NulCount(buf, q - 1) + 1
  BY <1>1, <1>4, CountOne
<1>11. NulCount(buf, o) \in Nat
  BY <1>1, CountNat
<1>12. NulCount(buf, q) = NulCount(buf, o) + 2
  BY <1>7, <1>8, <1>9, <1>10, <1>11
<1> QED
  BY <1>1, <1>3, <1>12

\* What is encoded is accepted.
LEMMA EncodedIsGood ==
  ASSUME NEW buf, NEW kv, NEW at, Holds(buf, kv, at), Len(kv) # 0
  PROVE  buf # <<>> /\ KvCheckIntegrity(buf)
<1> DEFINE N == Len(kv)
           T == {n \in Nat : n \in 1..N => NulCount(buf, at[n + 1]) = 2 * n}
<1>1. /\ buf \in Seq(Range(buf)) /\ Len(buf) \in Nat /\ Sequence(buf)
      /\ N \in Nat /\ \A n \in 1..N : Codable(kv[n])
      /\ at[N + 1] = Len(buf) /\ \A n \in 1..N : EntryAt(buf, at[n]) = kv[n]
  BY HoldsMeans DEF Holds
<1>2. /\ at \in [1..(N + 1) -> Nat] /\ at[1] = 0
      /\ \A n \in 1..N : at[n + 1] = at[n] + SizeOf(kv[n]) /\ Placed(kv[n], buf, at[n])
  BY HoldsMeans DEF Rows, Holds
<1> HIDE DEF N
<1>3. 0 \in T
  OBVIOUS
<1>4. ASSUME NEW n \in 0..(N - 1), n \in T PROVE n + 1 \in T
  <2>1. n + 1 \in 1..N /\ n + 1 \in Nat
    BY <1>1
  <2>2. NulCount(buf, at[n + 1]) = 2 * n
    <3>1. CASE n = 0
      <4>1. NulCount(buf, 0) = 0
        BY FS_EmptySet DEF NulCount
      <4> QED
        BY <1>2, <3>1, <4>1
    <3>2. CASE n # 0
      <4>1. n \in 1..N
        BY <1>1, <3>2
      <4> QED
        BY <1>4, <4>1
    <3> QED
      BY <3>1, <3>2
  <2>3. NulCount(buf, at[(n + 1) + 1]) = NulCount(buf, at[n + 1]) + 2
    BY <1>1, <1>2, <2>1, PlacedCount
  <2>4. NulCount(buf, at[(n + 1) + 1]) = 2 * (n + 1)
    BY <2>2, <2>3
  <2> QED
    BY <2>1, <2>4
<1> HIDE DEF T
<1>5. 0..N \subseteq T
  BY <1>1, <1>3, <1>4, InductionTo
<1>6. NulCount(buf, Len(buf)) = 2 * N
  <2>1. N \in T /\ N \in 1..N
    BY <1>1, <1>5 DEF N
  <2> QED
    BY <1>1, <2>1 DEF T
<1>7. NulCount(buf, Len(buf)) % 2 = 0
  BY <1>1, <1>6
<1>8. buf[Len(buf)] = NUL /\ Len(buf) > 0
  <2>1. N \in 1..N
    BY <1>1 DEF N
  <2>2. buf[at[N] + SizeOf(kv[N])] = NUL /\ at[N + 1] = at[N] + SizeOf(kv[N])
    BY <1>1, <1>2, <2>1, PlacedCount
  <2>3. SizeOf(kv[N]) \in Nat \ {0} /\ at[N] \in Nat
    BY <1>1, <1>2, <2>1, SizeRange
  <2> QED
    BY <1>1, <2>2, <2>3
<1>9. Paired(buf) /\ buf # <<>>
  BY <1>1, <1>7, <1>8 DEF Paired
<1>10. ASSUME NEW n \in 1..Len(Visits(buf)) PROVE GoodAt(buf, Visits(buf)[n])
  <2>1. n \in 1..N /\ Visits(buf)[n] = at[n]
    BY HeldIsRead DEF N
  <2>2. EntryAt(buf, at[n]) = kv[n] /\ Codable(kv[n])
    BY <1>1, <2>1
  <2>3. kv[n].key = KeyAt(buf, at[n]) /\ kv[n].type = TypeAt(buf, at[n])
    BY <2>2 DEF EntryAt, Entry
  <2> QED
    BY <2>1, <2>2, <2>3 DEF GoodAt, Codable
<1> QED
  BY <1>1, <1>9, <1>10, IntegrityMeans

-----------------------------------------------------------------------------
(* What is done to the buffer is what is done to the kv it holds.          *)

\* An entry is moved with all its symbols.
LEMMA PlacedMoves ==
  ASSUME NEW e, Codable(e), NEW a, NEW o, Placed(e, a, o),
         NEW b, Len(b) \in Nat, NEW t \in Nat, t + SizeOf(e) <= Len(b),
         \A j \in 1..SizeOf(e) : b[t + j] = a[o + j]
  PROVE  Placed(e, b, t)
<1> DEFINE k == Len(e.key)
           v == Len(e.val)
<1>1. /\ k \in Nat /\ k > 0 /\ v \in Nat /\ o \in Nat
      /\ \A n \in 1..k : a[o + n] = e.key[n]
      /\ a[o + k + 1] = NUL /\ a[o + k + 2] = e.type
      /\ \A n \in 1..v : a[o + k + 2 + n] = e.val[n]
      /\ a[o + k + 2 + v + 1] = NUL
  BY DEF Placed
<1>2. t + Size(k, v) <= Len(b)
  BY DEF SizeOf
<1>3. SizeOf(e) = k + v + 3
  BY DEF SizeOf, Size
<1> HIDE DEF k, v
<1>4. \A j \in 1..(k + v + 3) : b[t + j] = a[o + j]
  BY <1>3
<1>5. \A n \in 1..k : b[t + n] = e.key[n]
  <2>1. \A n \in 1..k : n \in 1..(k + v + 3)
    BY <1>1
  <2> QED
    BY <1>1, <1>4, <2>1
<1>6. b[t + k + 1] = NUL /\ b[t + k + 2] = e.type /\ b[t + k + 2 + v + 1] = NUL
  <2>1. /\ k + 1 \in 1..(k + v + 3) /\ k + 2 \in 1..(k + v + 3) /\ k + 2 + v + 1 \in 1..(k + v + 3)
        /\ t + (k + 1) = t + k + 1 /\ t + (k + 2) = t + k + 2
        /\ t + (k + 2 + v + 1) = t + k + 2 + v + 1
        /\ o + (k + 1) = o + k + 1 /\ o + (k + 2) = o + k + 2
        /\ o + (k + 2 + v + 1) = o + k + 2 + v + 1
    <3>1. k \in Nat /\ v \in Nat /\ o \in Nat
      BY <1>1
    <3> QED
      BY <3>1
  <2>2. b[t + (k + 1)] = a[o + (k + 1)] /\ b[t + (k + 2)] = a[o + (k + 2)]
        /\ b[t + (k + 2 + v + 1)] = a[o + (k + 2 + v + 1)]
    BY <1>4, <2>1
  <2> QED
    BY <1>1, <2>1, <2>2
<1>7. \A n \in 1..v : b[t + k + 2 + n] = e.val[n]
  <2>1. \A n \in 1..v : /\ k + 2 + n \in 1..(k + v + 3)
                        /\ t + (k + 2 + n) = t + k + 2 + n /\ o + (k + 2 + n) = o + k + 2 + n
    BY <1>1
  <2> QED
    BY <1>1, <1>4, <2>1
<1> QED
  BY <1>1, <1>2, <1>5, <1>6, <1>7 DEF Placed, k, v

\* kv_find: the place of the first entry with the key.
LEMMA FoundIs ==
  ASSUME NEW buf, NEW kv, NEW at, Holds(buf, kv, at), NEW key
  PROVE  BufFind(buf, key) = IF key \in Keys(kv) THEN Visits(buf)[KvFind(kv, key)] ELSE NULL
<1> DEFINE w == Visits(buf)
           N == Len(kv)
           T == {w[n] : n \in DOMAIN w}
           F == {o \in T : KeyAt(buf, o) = key}
           f == KvFind(kv, key)
<1>1. /\ kv \in Seq(Range(kv)) /\ N \in Nat /\ DOMAIN kv = 1..N
      /\ DOMAIN w = 1..N /\ \A n \in 1..N : w[n] = at[n] /\ at[n] \in Nat
      /\ \A n \in 1..N : EntryAt(buf, at[n]) = kv[n]
  <2>1. /\ kv \in Seq(Range(kv)) /\ N \in Nat /\ at \in [1..(N + 1) -> Nat]
        /\ \A n \in 1..N : EntryAt(buf, at[n]) = kv[n]
    BY HoldsMeans DEF Rows
  <2>2. DOMAIN w = 1..N /\ \A n \in 1..N : w[n] = at[n]
    BY HeldIsRead
  <2> HIDE DEF w
  <2>3. DOMAIN kv = 1..N /\ \A n \in 1..N : n \in 1..(N + 1)
    BY <2>1
  <2> QED
    BY <2>1, <2>2, <2>3
<1>2. \A n \in 1..N : KeyAt(buf, w[n]) = kv[n].key
  BY <1>1 DEF EntryAt, Entry
<1>3. BufFind(buf, key) = IF \E o \in T : KeyAt(buf, o) = key THEN Min(F) ELSE NULL
  BY DEF BufFind
<1>4. (\E o \in T : KeyAt(buf, o) = key) <=> key \in Keys(kv)
  BY <1>1, <1>2 DEF Keys
<1>5. ASSUME key \in Keys(kv) PROVE Min(F) = w[f]
  <2>1. f \in 1..N /\ kv[f].key = key /\ \A n \in 1..(f - 1) : kv[n].key # key
    BY <1>1, <1>5, KvFindFirst
  <2> HIDE DEF f
  <2>2. w[f] \in F
    BY <1>1, <1>2, <2>1
  <2>3. ASSUME NEW o \in F PROVE w[f] <= o /\ o \in Nat
    <3>1. PICK n \in 1..N : o = w[n]
      BY <1>1
    <3>2. kv[n].key = key
      BY <1>2, <3>1
    <3>3. ~(n < f)
      BY <1>1, <2>1, <3>2
    <3>4. CASE n = f
      BY <1>1, <2>1, <3>1, <3>4
    <3>5. CASE f < n
      <4>1. f \in 1..(N + 1) /\ n \in 1..(N + 1) /\ Cuts(buf, N, at)
        BY <1>1, <2>1 DEF Holds
      <4>2. at[f] < at[n]
        BY <3>5, <4>1, CutsRise
      <4> QED
        BY <1>1, <2>1, <3>1, <4>2
    <3> QED
      BY <1>1, <2>1, <3>3, <3>4, <3>5
  <2>4. Min(F) = CHOOSE x \in F : \A y \in F : x <= y
    BY DEF Min
  <2> HIDE DEF F, w
  <2>5. \A x \in F : (\A y \in F : x <= y) => x = w[f]
    BY <2>2, <2>3
  <2> QED
    BY <2>2, <2>3, <2>4, <2>5
<1> QED
  BY <1>3, <1>4, <1>5

\* b is buf without the len symbols after the first o.
IsCut(buf, o, len, r, b) ==
  /\ Sequence(b) /\ Len(b) = o + r
  /\ \A j \in 1..o : b[j] = buf[j]
  /\ \A j \in 1..r : b[o + j] = buf[o + len + j]

LEMMA CutOut ==
  ASSUME NEW buf, Sequence(buf), NEW o \in Nat, NEW len \in Nat, NEW r \in Nat,
         o + len + r = Len(buf)
  PROVE  IsCut(buf, o, len, r, SubSeq(buf, 1, o) \o SubSeq(buf, o + len + 1, Len(buf)))
<1> DEFINE x == SubSeq(buf, 1, o)
           y == SubSeq(buf, o + len + 1, Len(buf))
           S == Range(x) \cup Range(y)
<1>1. /\ Sequence(x) /\ Len(x) = o /\ \A j \in 1..o : x[j] = buf[j]
  <2>1. buf \in Seq(Range(buf)) /\ o <= Len(buf) /\ Len(buf) \in Nat
    BY DEF Sequence
  <2> DEFINE U == Range(buf)
  <2> HIDE DEF U
  <2>2. buf \in Seq(U)
    BY <2>1 DEF U
  <2>3. x \in Seq(U) /\ Len(x) = o /\ \A j \in 1..o : x[j] = buf[j]
    BY <2>1, <2>2
  <2> HIDE DEF x
  <2> QED
    BY <2>3, SeqOfRange DEF Sequence
<1>2. /\ Sequence(y) /\ Len(y) = r /\ \A j \in 1..r : y[j] = buf[o + len + j]
  <2> DEFINE a == o + len
  <2>1. a \in Nat /\ a + r = Len(buf) /\ a + r <= Len(buf)
    OBVIOUS
  <2> HIDE DEF a
  <2>2. /\ Sequence(SubSeq(buf, a + 1, a + r)) /\ Len(SubSeq(buf, a + 1, a + r)) = r
        /\ \A j \in 1..r : SubSeq(buf, a + 1, a + r)[j] = buf[a + j]
    BY <2>1, Pieces
  <2> QED
    BY <2>1, <2>2 DEF a
<1> DEFINE b == x \o y
<1>3. SubSeq(buf, 1, o) \o SubSeq(buf, o + len + 1, Len(buf)) = b
  OBVIOUS
<1> HIDE DEF x, y
<1>4. Range(x) \subseteq S /\ Range(y) \subseteq S /\ x \in Seq(Range(x)) /\ y \in Seq(Range(y))
  BY <1>1, <1>2 DEF Sequence
<1> HIDE DEF S
<1>5. x \in Seq(S)
  BY <1>4, SeqMonotonic
<1>6. y \in Seq(S)
  BY <1>4, SeqMonotonic
<1>7. /\ x \o y \in Seq(S) /\ Len(x \o y) = Len(x) + Len(y)
      /\ \A i \in 1..(Len(x) + Len(y)) :
           (x \o y)[i] = IF i <= Len(x) THEN x[i] ELSE y[i - Len(x)]
  BY <1>5, <1>6, ConcatProperties
<1>8. Sequence(b) /\ Len(b) = o + r
  BY <1>1, <1>2, <1>7, SeqOfRange DEF Sequence
<1>9. \A i \in 1..(o + r) : b[i] = IF i <= o THEN x[i] ELSE y[i - o]
  BY <1>1, <1>2, <1>7
<1> HIDE DEF b
<1>10. ASSUME NEW j \in 1..o PROVE b[j] = buf[j]
  <2>1. j \in 1..(o + r) /\ j <= o
    OBVIOUS
  <2> QED
    BY <1>1, <1>9, <2>1
<1>11. ASSUME NEW j \in 1..r PROVE b[o + j] = buf[o + len + j]
  <2>1. o + j \in 1..(o + r) /\ ~(o + j <= o) /\ (o + j) - o = j
    OBVIOUS
  <2> QED
    BY <1>2, <1>9, <2>1
<1> QED
  BY <1>3, <1>8, <1>10, <1>11 DEF IsCut

\* kv_delete: memmove leaves the other entries as they are.
LEMMA DeletedHolds ==
  ASSUME NEW buf, NEW kv, NEW at, Holds(buf, kv, at), NEW key \in Keys(kv)
  PROVE  \E bt : /\ Holds(BufDelete(buf, key), KvDelete(kv, key), bt)
                 /\ \A n \in 1..KvFind(kv, key) : bt[n] = at[n]
<1> DEFINE N == Len(kv)
           f == KvFind(kv, key)
           d == KvDelete(kv, key)
           o == at[f]
           len == SizeOf(kv[f])
           L == Len(buf)
           b == BufDelete(buf, key)
           bt == [n \in 1..N |-> IF n <= f THEN at[n] ELSE at[n + 1] - len]
<1>1. /\ Sequence(buf) /\ L \in Nat /\ kv \in Seq(Range(kv)) /\ N \in Nat
      /\ \A n \in 1..N : Codable(kv[n])
      /\ at \in [1..(N + 1) -> Nat] /\ at[1] = 0 /\ at[N + 1] = L
      /\ \A n \in 1..N : at[n + 1] = at[n] + SizeOf(kv[n])
      /\ \A n \in 1..N : EntryLength(buf, at[n]) = SizeOf(kv[n]) /\ Placed(kv[n], buf, at[n])
  BY HoldsMeans DEF Holds, Rows
<1>2. f \in 1..N
  BY <1>1, KvFindFirst
<1>3. /\ d \in Seq(Range(kv)) /\ Len(d) = N - 1 /\ \A k \in 1..(N - 1) : d[k] = kv[Before(f, k)]
  BY <1>1, Deleted
<1>4. BufFind(buf, key) = o
  BY <1>2, FoundIs, HeldIsRead
<1>5. b = SubSeq(buf, 1, o) \o SubSeq(buf, o + len + 1, L)
  <2>1. o # NULL
    <3>1. o \in Nat
      BY <1>1, <1>2
    <3> QED
      BY <3>1 DEF NULL
  <2> QED
    BY <1>1, <1>2, <1>4, <2>1 DEF BufDelete
<1> HIDE DEF N, f, d, b, L
<1>6. /\ \A n \in 1..(N + 1) : at[n] \in Nat
      /\ \A m, n \in 1..(N + 1) : m <= n => at[m] <= at[n]
  <2>1. \A m, n \in 1..(N + 1) : m < n => at[m] < at[n]
    BY CutsRise DEF Holds, N
  <2>2. ASSUME NEW m \in 1..(N + 1), NEW n \in 1..(N + 1), m <= n PROVE at[m] <= at[n]
    <3>1. at[m] \in Nat /\ at[n] \in Nat
      BY <1>1
    <3>2. CASE m = n
      BY <3>1, <3>2
    <3>3. CASE m # n
      <4>1. m < n
        BY <1>1, <2>2, <3>3
      <4> QED
        BY <2>1, <3>1, <4>1
    <3> QED
      BY <3>2, <3>3
  <2> QED
    BY <1>1, <2>2
<1>7. o \in Nat /\ len \in Nat \ {0} /\ at[f + 1] = o + len /\ o + len <= L
  <2>1. f \in 1..(N + 1) /\ f + 1 \in 1..(N + 1) /\ N + 1 \in 1..(N + 1) /\ f + 1 <= N + 1
    BY <1>1, <1>2
  <2>2. len \in Nat \ {0}
    BY <1>1, <1>2, SizeRange
  <2> QED
    BY <1>1, <1>2, <1>6, <2>1, <2>2
<1> HIDE DEF o, len
<1> DEFINE r == L - o - len
<1>8. r \in Nat /\ o + len + r = L
  BY <1>1, <1>7
<1>9. /\ Sequence(b) /\ Len(b) = o + r
      /\ \A j \in 1..o : b[j] = buf[j]
      /\ \A j \in 1..r : b[o + j] = buf[o + len + j]
  <2> HIDE DEF r
  <2>1. Sequence(buf) /\ o \in Nat /\ len \in Nat /\ r \in Nat /\ o + len + r = Len(buf)
    BY <1>1, <1>7, <1>8 DEF L
  <2>2. IsCut(buf, o, len, r, SubSeq(buf, 1, o) \o SubSeq(buf, o + len + 1, Len(buf)))
    BY <2>1, CutOut
  <2>3. IsCut(buf, o, len, r, b)
    BY <1>5, <2>2 DEF L
  <2> QED
    BY <2>3 DEF IsCut
<1>10. ASSUME NEW n \in 1..N
       PROVE  /\ n <= f => bt[n] = at[n]
              /\ n >= f => bt[n] = at[n + 1] - len
              /\ bt[n] \in Nat
  <2>1. n \in Nat /\ n + 1 \in 1..(N + 1) /\ n \in 1..(N + 1) /\ f \in Nat /\ f + 1 \in 1..(N + 1)
    BY <1>1, <1>2
  <2>2. CASE n <= f
    <3>1. bt[n] = at[n] /\ at[n] \in Nat
      BY <1>6, <2>1, <2>2
    <3>2. n >= f => n = f
      BY <2>1, <2>2
    <3>3. at[f] = at[f + 1] - len
      BY <1>7 DEF o
    <3> QED
      BY <3>1, <3>2, <3>3
  <2>3. CASE ~(n <= f)
    <3>1. bt[n] = at[n + 1] - len
      BY <2>3
    <3>2. at[f + 1] <= at[n + 1] /\ at[n + 1] \in Nat
      BY <1>6, <2>1, <2>3
    <3> QED
      BY <1>7, <2>3, <3>1, <3>2
  <2> QED
    BY <2>2, <2>3
<1>11. bt \in [1..N -> Nat]
  <2>1. bt = [n \in 1..N |-> bt[n]]
    OBVIOUS
  <2> HIDE DEF bt
  <2> QED
    BY <1>10, <2>1
<1> HIDE DEF bt
<1>12. ASSUME NEW n \in 1..(N - 1)
       PROVE  /\ bt[n + 1] = bt[n] + SizeOf(d[n]) /\ Codable(d[n]) /\ Placed(d[n], b, bt[n])
  <2>1. n \in 1..N /\ n + 1 \in 1..N /\ n + 2 \in 1..(N + 1) /\ (n + 1) + 1 = n + 2 /\ f \in 1..N
        /\ n + 1 \in 1..(N + 1) /\ n \in 1..(N + 1) /\ f \in 1..(N + 1) /\ f + 1 \in 1..(N + 1)
        /\ N + 1 \in 1..(N + 1)
    BY <1>1, <1>2
  <2>2. CASE n < f
    <3>1. d[n] = kv[n]
      BY <1>3, <2>2 DEF Before
    <3>2. n <= f /\ n + 1 <= f
      BY <2>1, <2>2
    <3>3. bt[n] = at[n] /\ bt[n + 1] = at[n + 1] /\ at[n + 1] = at[n] + SizeOf(kv[n])
      BY <1>1, <1>10, <2>1, <3>2
    <3>4. /\ SizeOf(kv[n]) \in Nat /\ at[n] \in Nat /\ Codable(kv[n]) /\ Placed(kv[n], buf, at[n])
      BY <1>1, <1>6, <2>1, SizeRange
    <3>5. at[n] + SizeOf(kv[n]) <= o
      BY <1>6, <2>1, <3>2, <3>3 DEF o
    <3> DEFINE t == at[n]
               s == SizeOf(kv[n])
    <3> HIDE DEF t, s
    <3>6. t \in Nat /\ s \in Nat /\ t + s <= o
      BY <3>4, <3>5 DEF t, s
    <3>7. t + s <= Len(b) /\ Len(b) \in Nat
      BY <1>7, <1>8, <1>9, <3>6
    <3>8. ASSUME NEW j \in 1..s PROVE b[t + j] = buf[t + j]
      <4>1. t + j \in 1..o
        BY <1>7, <3>6
      <4> QED
        BY <1>9, <4>1
    <3>9. Placed(kv[n], b, t)
      BY <3>4, <3>6, <3>7, <3>8, PlacedMoves DEF t, s
    <3> QED
      BY <3>1, <3>3, <3>4, <3>9 DEF t
  <2>3. CASE ~(n < f)
    <3>1. d[n] = kv[n + 1]
      BY <1>3, <2>3 DEF Before
    <3>2. n >= f /\ n + 1 >= f /\ f + 1 <= n + 1
      BY <2>1, <2>3
    <3>3. bt[n] = at[n + 1] - len /\ bt[n + 1] = at[n + 2] - len
          /\ at[n + 2] = at[n + 1] + SizeOf(kv[n + 1])
      BY <1>1, <1>10, <2>1, <3>2
    <3>4. /\ SizeOf(kv[n + 1]) \in Nat /\ at[n + 1] \in Nat /\ Codable(kv[n + 1])
          /\ Placed(kv[n + 1], buf, at[n + 1])
      BY <1>1, <1>6, <2>1, SizeRange
    <3>5. at[n + 2] <= L /\ at[f + 1] <= at[n + 1]
      <4>1. n + 2 <= N + 1
        BY <1>1
      <4> QED
        BY <1>1, <1>6, <2>1, <3>2, <4>1
    <3> DEFINE u == at[n + 1]
               t == u - len
               s == SizeOf(kv[n + 1])
    <3> HIDE DEF u, s
    <3>6. u \in Nat /\ s \in Nat /\ u + s <= L /\ o + len <= u
      BY <1>7, <3>3, <3>4, <3>5 DEF u, s
    <3>7. t \in Nat /\ t + s <= Len(b) /\ Len(b) \in Nat /\ t >= o
      BY <1>7, <1>8, <1>9, <3>6
    <3>8. ASSUME NEW j \in 1..s PROVE b[t + j] = buf[u + j]
      <4>1. (t - o) + j \in 1..r /\ o + ((t - o) + j) = t + j /\ o + len + ((t - o) + j) = u + j
        BY <1>1, <1>7, <3>6
      <4> QED
        BY <1>9, <4>1
    <3> HIDE DEF t
    <3>9. Placed(kv[n + 1], b, t)
      BY <3>4, <3>7, <3>8, PlacedMoves DEF u, s
    <3>10. bt[n] = t
      BY <3>3 DEF t, u
    <3>11. bt[n + 1] = bt[n] + SizeOf(kv[n + 1])
      BY <1>7, <3>3, <3>4
    <3> QED
      BY <3>1, <3>4, <3>9, <3>10, <3>11
  <2> QED
    BY <2>2, <2>3
<1>13. Rows(d, bt) /\ bt[Len(d) + 1] = Len(b)
  <2>1. 1 \in 1..N /\ N \in 1..N /\ 1 <= f /\ N >= f /\ Len(d) + 1 = N
    BY <1>1, <1>2, <1>3
  <2>2. bt[1] = 0 /\ bt[N] = L - len
    BY <1>1, <1>10, <2>1
  <2>3. bt[N] = Len(b)
    BY <1>1, <1>7, <1>9, <2>2
  <2> QED
    BY <1>3, <1>11, <1>12, <2>1, <2>2, <2>3 DEF Rows
<1>14. Storable(d) /\ Sequence(d)
  <2>1. Sequence(d) /\ DOMAIN d = 1..(N - 1)
    BY <1>1, <1>2, <1>3, SeqOfRange DEF Sequence
  <2> QED
    BY <1>12, <2>1 DEF Storable
<1>15. Holds(b, d, bt)
  <2>1. \A n \in 1..Len(d) : Placed(d[n], b, bt[n])
    BY <1>3, <1>12
  <2> QED
    BY <1>9, <1>13, <1>14, <2>1, HoldsIf
<1>16. \A n \in 1..f : bt[n] = at[n]
  <2>1. \A n \in 1..f : n \in 1..N /\ n <= f
    BY <1>1, <1>2
  <2> QED
    BY <1>10, <2>1
<1> QED
  BY <1>15, <1>16 DEF b, d, f

LEMMA AnyDeletedHolds ==
  ASSUME NEW buf, NEW kv, NEW at, Holds(buf, kv, at), NEW key
  PROVE  \E bt : Holds(BufDelete(buf, key), KvDelete(kv, key), bt)
<1>1. CASE key \in Keys(kv)
  BY <1>1, DeletedHolds
<1>2. CASE key \notin Keys(kv)
  <2>1. BufDelete(buf, key) = buf /\ KvDelete(kv, key) = kv
    BY <1>2, FoundIs DEF BufDelete, KvDelete
  <2> QED
    BY <2>1
<1> QED
  BY <1>1, <1>2

\* One entry more, at the end.
LEMMA AppendedHolds ==
  ASSUME NEW buf, NEW kv, NEW at, Holds(buf, kv, at), NEW e, Codable(e)
  PROVE  \E bt : Holds(buf \o EntryBuf(e), Append(kv, e), bt)
<1> DEFINE N == Len(kv)
           L == Len(buf)
           x == EntryBuf(e)
           b == buf \o x
           q == Append(kv, e)
           s == SizeOf(e)
           S == Range(buf) \cup Range(x)
           bt == [n \in 1..(N + 2) |-> IF n <= N + 1 THEN at[n] ELSE L + s]
<1>1. /\ buf \in Seq(Range(buf)) /\ L \in Nat /\ Sequence(kv) /\ kv \in Seq(Range(kv)) /\ N \in Nat
      /\ \A n \in 1..N : Codable(kv[n])
      /\ at \in [1..(N + 1) -> Nat] /\ at[1] = 0 /\ at[N + 1] = L
      /\ \A n \in 1..N : at[n + 1] = at[n] + SizeOf(kv[n])
      /\ \A n \in 1..N : Placed(kv[n], buf, at[n])
  BY HoldsMeans DEF Holds, Rows, Storable
<1>2. /\ x \in Seq(Range(x)) /\ Len(x) = s /\ Placed(e, x, 0) /\ s \in Nat
  BY EntryBufIs, SizeRange DEF SizeOf
<1>3. Sequence(q) /\ Len(q) = N + 1 /\ DOMAIN q = 1..(N + 1)
      /\ q[N + 1] = e /\ \A n \in 1..N : q[n] = kv[n]
  <2>1. Sequence(q) /\ Len(q) = N + 1
    BY <1>1, SequenceAppend
  <2>2. DOMAIN q = 1..(N + 1)
    BY <2>1 DEF Sequence
  <2> DEFINE R == Range(kv) \cup {e}
  <2>3. Range(kv) \subseteq R /\ e \in R
    OBVIOUS
  <2> HIDE DEF R
  <2>4. kv \in Seq(R)
    BY <1>1, <2>3, SeqMonotonic
  <2>5. q[N + 1] = e /\ \A n \in 1..N : q[n] = kv[n]
    BY <2>3, <2>4, AppendProperties
  <2> QED
    BY <2>1, <2>2, <2>5
<1>4. b \in Seq(S) /\ Extends(buf, x, b)
  <2>1. Range(buf) \subseteq S /\ Range(x) \subseteq S
    OBVIOUS
  <2> HIDE DEF S, x, b
  <2>2. buf \in Seq(S)
    BY <1>1, <2>1, SeqMonotonic
  <2>3. x \in Seq(S)
    BY <1>2, <2>1, SeqMonotonic
  <2> QED
    BY <2>2, <2>3, Extended DEF b
<1> HIDE DEF x, b, q, S, N, L, s
<1>5. /\ Len(b) \in Nat /\ Len(b) = L + s /\ Sequence(b)
      /\ \A lo, len \in Nat : lo + len <= L => \A k \in 1..len : b[lo + k] = buf[lo + k]
      /\ \A k \in 1..s : b[L + k] = x[k]
  <2>1. Sequence(b)
    BY <1>4, SeqOfRange DEF Sequence
  <2> QED
    BY <1>2, <1>4, <2>1 DEF Extends, L
<1>6. ASSUME NEW n \in 1..N PROVE Placed(kv[n], b, at[n])
  <2> DEFINE t == at[n]
             len == SizeOf(kv[n])
  <2>1. t \in Nat /\ len \in Nat /\ Codable(kv[n]) /\ Placed(kv[n], buf, t)
    BY <1>1, SizeRange
  <2>2. t + len <= L
    BY <2>1 DEF Placed, SizeOf, L
  <2> HIDE DEF t, len
  <2>3. \A j \in 1..len : b[t + j] = buf[t + j]
    BY <1>5, <2>1, <2>2
  <2>4. t + len <= Len(b) /\ Len(b) \in Nat
    <3>1. L \in Nat /\ s \in Nat /\ Len(b) = L + s
      BY <1>1, <1>2, <1>5
    <3> QED
      BY <2>1, <2>2, <3>1
  <2>5. Placed(kv[n], b, t)
    BY <2>1, <2>3, <2>4, PlacedMoves DEF len
  <2> QED
    BY <2>5 DEF t
<1>7. Placed(e, b, L)
  <2> DEFINE z == 0
  <2>1. /\ Len(b) \in Nat /\ L \in Nat /\ L + s <= Len(b) /\ Placed(e, x, z)
        /\ \A j \in 1..s : z + j = j
    BY <1>1, <1>2, <1>5
  <2>2. \A j \in 1..s : b[L + j] = x[z + j]
    BY <1>5, <2>1
  <2> HIDE DEF z
  <2> QED
    BY <2>1, <2>2, PlacedMoves DEF s
<1>8. /\ bt \in [1..(N + 2) -> Nat] /\ bt[1] = 0 /\ bt[N + 1] = L /\ bt[N + 2] = L + s
      /\ \A n \in 1..N : bt[n] = at[n] /\ bt[n + 1] = at[n + 1]
  <2>1. \A n \in 1..(N + 1) : n \in 1..(N + 2) /\ at[n] \in Nat
    BY <1>1
  <2>2. L + s \in Nat /\ N + 2 \in 1..(N + 2) /\ ~(N + 2 <= N + 1)
    BY <1>1, <1>2
  <2>3. \A n \in 1..(N + 1) : bt[n] = at[n]
    BY <2>1
  <2>4. bt \in [1..(N + 2) -> Nat]
    BY <2>1, <2>2
  <2>5. bt[N + 2] = L + s
    BY <2>2
  <2> HIDE DEF bt
  <2>6. 1 \in 1..(N + 1) /\ N + 1 \in 1..(N + 1)
        /\ \A n \in 1..N : n \in 1..(N + 1) /\ n + 1 \in 1..(N + 1)
    BY <1>1
  <2> QED
    BY <1>1, <2>3, <2>4, <2>5, <2>6
<1> HIDE DEF bt
<1>9. ASSUME NEW n \in 1..(N + 1)
      PROVE  /\ Codable(q[n]) /\ Placed(q[n], b, bt[n]) /\ bt[n + 1] = bt[n] + SizeOf(q[n])
  <2>1. CASE n = N + 1
    <3>1. n + 1 = N + 2
      BY <1>1, <2>1
    <3> QED
      BY <1>3, <1>7, <1>8, <2>1, <3>1 DEF s
  <2>2. CASE n # N + 1
    <3>1. n \in 1..N
      BY <1>1, <2>2
    <3> QED
      BY <1>1, <1>3, <1>6, <1>8, <3>1
  <2> QED
    BY <2>1, <2>2
<1>10. Rows(q, bt) /\ Storable(q) /\ bt[Len(q) + 1] = Len(b)
  <2>1. Len(q) + 1 = N + 2
    BY <1>1, <1>3
  <2> QED
    BY <1>3, <1>5, <1>8, <1>9, <2>1 DEF Rows, Storable
<1>11. Holds(b, q, bt)
  BY <1>3, <1>5, <1>9, <1>10, HoldsIf
<1> QED
  BY <1>11 DEF b, q, x

LEMMA PutHolds ==
  ASSUME NEW buf, NEW kv, NEW at, Holds(buf, kv, at), NEW key, NEW type, NEW val,
         Codable(Entry(key, type, val))
  PROVE  \E bt : Holds(BufPut(buf, key, type, val), KvPut(kv, key, type, val), bt)
<1> DEFINE e == Entry(key, type, val)
<1>1. PICK ct : Holds(BufDelete(buf, key), KvDelete(kv, key), ct)
  BY AnyDeletedHolds
<1> HIDE DEF e
<1>2. \E bt : Holds(BufDelete(buf, key) \o EntryBuf(e), Append(KvDelete(kv, key), e), bt)
  BY <1>1, AppendedHolds DEF e
<1> QED
  BY <1>2 DEF BufPut, KvPut, e

\* There is no entry behind the last symbol.
LEMMA EndHasNoNext ==
  ASSUME NEW S, NEW buf \in Seq(S)
  PROVE  BufNext(buf, Len(buf)) = NULL
<1> DEFINE L == Len(buf)
           z == L - L
<1>1. L \in Nat /\ z = 0 /\ z \in Nat
  OBVIOUS
<1>2. L # NULL
  BY <1>1 DEF NULL
<1> HIDE DEF z
<1>3. Strnlen(buf, L, z) = 0
  <2>1. Strnlen(buf, L, z) \in 0..z
    BY <1>1, StrnlenRange
  <2> QED
    BY <1>1, <2>1
<1>4. EntryLength(buf, L) = Bad
  BY <1>3 DEF EntryLength, z
<1> HIDE DEF L
<1>5. BufNext(buf, L) = NULL
  BY <1>2, <1>4 DEF BufNext
<1> QED
  BY <1>5 DEF L

\* kv_next from the place where an entry has been deleted goes to the next entry that
\* is left, or ends.
LEMMA NextAfterDelete ==
  ASSUME NEW buf, NEW kv, NEW at, Holds(buf, kv, at), UniqueKeys(kv), NEW n \in 1..Len(kv)
  PROVE  LET rest == KvDelete(kv, kv[n].key)
             b    == BufDelete(buf, kv[n].key)
             o    == BufNext(b, Visits(buf)[n])
         IN IF KvNext(rest, n) = 0 THEN o = NULL ELSE EntryAt(b, o) = rest[KvNext(rest, n)]
<1> DEFINE N == Len(kv)
           key == kv[n].key
           rest == KvDelete(kv, key)
           b == BufDelete(buf, key)
           o == BufNext(b, Visits(buf)[n])
<1>1. kv \in Seq(Range(kv)) /\ N \in Nat /\ DOMAIN kv = 1..N
  BY HoldsMeans
<1>2. key \in Keys(kv)
  BY <1>1 DEF Keys
<1>3. KvFind(kv, key) = n
  <2>1. KvFind(kv, key) \in 1..N /\ kv[KvFind(kv, key)].key = key
    BY <1>1, <1>2, KvFindFirst
  <2> QED
    BY <1>1, <2>1 DEF UniqueKeys
<1>4. PICK bt : Holds(b, rest, bt) /\ \A m \in 1..n : bt[m] = at[m]
  <2>1. \E bt : Holds(b, rest, bt) /\ \A m \in 1..KvFind(kv, key) : bt[m] = at[m]
    BY <1>2, DeletedHolds
  <2> QED
    BY <1>3, <2>1
<1>5. Visits(buf)[n] = at[n] /\ bt[n] = at[n]
  BY <1>4, HeldIsRead
<1>6. Len(rest) = N - 1
  BY <1>1, <1>2, Deleted
<1> HIDE DEF b, rest
<1>7. /\ b \in Seq(Range(b)) /\ Len(b) \in Nat /\ Rows(rest, bt) /\ bt[Len(rest) + 1] = Len(b)
      /\ Cuts(b, Len(rest), bt) /\ \A m \in 1..Len(rest) : EntryAt(b, bt[m]) = rest[m]
  BY <1>4, HoldsMeans DEF Holds
<1>8. CASE n < N
  <2>1. n \in 1..Len(rest) /\ n + 1 \in 1..(Len(rest) + 1)
    BY <1>1, <1>6, <1>8
  <2>2. b # <<>>
    <3>1. 1 \in 1..(Len(rest) + 1) /\ Len(rest) + 1 \in 1..(Len(rest) + 1) /\ 1 < Len(rest) + 1
      BY <2>1
    <3>2. bt[1] < bt[Len(rest) + 1] /\ bt[1] = 0
      BY <1>7, <3>1, CutsRise DEF Rows
    <3>3. Len(b) # 0
      BY <1>7, <3>2
    <3> QED
      BY <3>3
  <2>3. o = IF n < Len(rest) THEN bt[n + 1] ELSE NULL
    BY <1>5, <1>7, <2>1, <2>2, CutsNext
  <2>4. CASE n < Len(rest)
    <3>1. KvNext(rest, n) = n + 1 /\ n + 1 # 0 /\ n + 1 \in 1..Len(rest)
      BY <1>1, <1>6, <2>1, <2>4 DEF KvNext
    <3> QED
      BY <1>7, <2>3, <2>4, <3>1 DEF b, rest
  <2>5. CASE ~(n < Len(rest))
    <3>1. KvNext(rest, n) = 0
      BY <2>5 DEF KvNext
    <3> QED
      BY <2>3, <2>5, <3>1 DEF b, rest
  <2> QED
    BY <2>4, <2>5
<1>9. CASE ~(n < N)
  <2>1. n = N /\ Len(rest) + 1 = n
    <3>1. N \in Nat /\ n \in 1..N
      BY <1>1
    <3> QED
      BY <1>6, <1>9, <3>1
  <2>2. KvNext(rest, n) = 0
    BY <1>1, <2>1, <1>6 DEF KvNext
  <2>3. Visits(buf)[n] = Len(b)
    BY <1>5, <1>7, <2>1
  <2>4. BufNext(b, Len(b)) = NULL
    BY <1>7, EndHasNoNext
  <2> QED
    BY <2>2, <2>3, <2>4 DEF b, rest
<1> QED
  BY <1>8, <1>9

-----------------------------------------------------------------------------
(* kv_split after kv_join, when a key may come twice.                      *)

\* What is joined to nothing are the entries with the prefix before their keys.
LEMMA JoinedRange ==
  ASSUME NEW K, NEW T, NEW V, NEW kv \in Seq(EntriesOf(K, T, V)), NEW prefix \in Seq(K)
  PROVE  /\ KvJoin(<<>>, kv, prefix) \in Seq(EntriesOf(K, T, V))
         /\ Range(KvJoin(<<>>, kv, prefix)) \subseteq Range(Prefixed(kv, prefix))
<1> DEFINE p == Prefixed(kv, prefix)
           S == EntriesOf(K, T, V)
           none == <<>>
<1>1. KvJoin(none, kv, prefix) = PutEach(none, p, DOMAIN p)
  BY DEF KvJoin, PutAll, Prefixed
<1>2. /\ p \in Seq(S) /\ Len(p) = Len(kv)
      /\ \A n \in 1..Len(kv) : Put(p, n) = p[n]
  BY PrefixedIs
<1> HIDE DEF p
<1>3. /\ Len(p) \in Nat /\ DOMAIN p = 1..Len(p)
      /\ \A n \in DOMAIN p \cap (1..Len(p)) : Put(p, n) \in S /\ Put(p, n) \in Range(p)
  BY <1>2 DEF Range
<1> HIDE DEF S
<1>4. none \in Seq(S) /\ Range(none) = {}
  BY DEF Range
<1> HIDE DEF none
<1>5. /\ PutEach(none, p, DOMAIN p) \in Seq(S)
      /\ Range(PutEach(none, p, DOMAIN p)) \subseteq
           Range(none) \cup {Put(p, n) : n \in DOMAIN p \cap (1..Len(p))}
  BY <1>3, <1>4, PutEachUnique
<1>6. Range(PutEach(none, p, DOMAIN p)) \subseteq Range(p)
  BY <1>3, <1>4, <1>5
<1> QED
  BY <1>1, <1>5, <1>6 DEF p, S, none

\* Each entry of the result is one that was joined, and no key comes twice.
LEMMA SplitOfJoined ==
  ASSUME NEW K, NEW T, NEW V, NEW kv \in Seq(EntriesOf(K, T, V)), NEW prefix \in Seq(K)
  PROVE  /\ UniqueKeys(KvSplit(KvJoin(<<>>, kv, prefix), prefix))
         /\ Range(KvSplit(KvJoin(<<>>, kv, prefix), prefix)) \subseteq Range(kv)
<1> DEFINE S == EntriesOf(K, T, V)
           j == KvJoin(<<>>, kv, prefix)
           entries == [n \in DOMAIN j |-> [j[n] EXCEPT !.key = Stripped(@, prefix)]]
           chosen == {n \in DOMAIN j : IsStrictPrefix(prefix, j[n].key)}
           none == <<>>
<1>1. j \in Seq(S) /\ Range(j) \subseteq Range(Prefixed(kv, prefix))
  BY JoinedRange
<1>2. KvSplit(j, prefix) = PutEach(none, entries, chosen)
  BY DEF KvSplit
<1> HIDE DEF j
<1>3. DOMAIN j = 1..Len(j) /\ Len(j) \in Nat
  BY <1>1
<1>4. Len(entries) = Len(j)
  BY <1>3
<1>5. ASSUME NEW n \in 1..Len(j) PROVE Put(entries, n) \in Range(kv)
  <2>1. j[n] \in Range(Prefixed(kv, prefix))
    BY <1>1, <1>3 DEF Range
  <2>2. PICK m \in 1..Len(kv) : j[n] = Entry(prefix \o kv[m].key, kv[m].type, kv[m].val)
    <3>1. /\ Prefixed(kv, prefix) \in Seq(S) /\ Len(Prefixed(kv, prefix)) = Len(kv)
          /\ \A m \in 1..Len(kv) :
               Prefixed(kv, prefix)[m] = Entry(prefix \o kv[m].key, kv[m].type, kv[m].val)
      BY PrefixedIs
    <3>2. DOMAIN Prefixed(kv, prefix) = 1..Len(kv)
      BY <3>1
    <3> QED
      BY <2>1, <3>1, <3>2 DEF Range
  <2>3. kv[m] \in S /\ kv[m] \in Range(kv)
    BY DEF Range
  <2>4. kv[m] = Entry(kv[m].key, kv[m].type, kv[m].val) /\ kv[m].key \in Seq(K)
    BY <2>3 DEF EntriesOf, Entry
  <2>5. Stripped(prefix \o kv[m].key, prefix) = kv[m].key
    BY <2>4, Stripping
  <2>6. entries[n] = [j[n] EXCEPT !.key = Stripped(@, prefix)]
    BY <1>3
  <2> HIDE DEF entries
  <2>7. entries[n] = Entry(kv[m].key, kv[m].type, kv[m].val)
    BY <2>2, <2>5, <2>6 DEF Entry
  <2>8. Put(entries, n) = kv[m]
    BY <2>4, <2>7 DEF Put, Entry
  <2> QED
    BY <2>3, <2>8
<1> HIDE DEF entries, chosen
<1>6. none \in Seq(Range(kv)) /\ UniqueKeys(none) /\ Range(none) = {}
  BY DEF UniqueKeys, Range
<1> HIDE DEF none
<1>7. /\ Len(entries) \in Nat
      /\ \A n \in chosen \cap (1..Len(entries)) : Put(entries, n) \in Range(kv)
  BY <1>3, <1>4, <1>5
<1>8. /\ UniqueKeys(none) => UniqueKeys(PutEach(none, entries, chosen))
      /\ Range(PutEach(none, entries, chosen)) \subseteq
           Range(none) \cup {Put(entries, n) : n \in chosen \cap (1..Len(entries))}
  BY <1>6, <1>7, PutEachUnique
<1>9. Range(PutEach(none, entries, chosen)) \subseteq Range(kv)
  BY <1>6, <1>7, <1>8
<1> QED
  BY <1>2, <1>6, <1>8, <1>9 DEF j

\* When no key came twice, what is taken out is what was put in, in the same order.
LEMMA SplitOfJoin ==
  ASSUME NEW K, NEW T, NEW V, NEW kv \in Seq(EntriesOf(K, T, V)), NEW prefix \in Seq(K),
         UniqueKeys(kv), \A n \in 1..Len(kv) : kv[n].key # <<>>
  PROVE  KvSplit(KvJoin(<<>>, kv, prefix), prefix) = kv
<1> DEFINE none == <<>>
           p == Prefixed(kv, prefix)
           S == EntriesOf(K, T, V)
<1>1. none \in Seq(S) /\ Keys(none) = {} /\ Len(none) = 0 /\ none = <<>>
  BY DEF Keys
<1>2. p \in Seq(S)
  BY PrefixedIs
<1> HIDE DEF p
<1>3. (none \o p) \o none = none \o p
  <2>1. none \o p \in Seq(S)
    BY <1>1, <1>2, ConcatProperties
  <2> QED
    BY <1>1, <2>1, ConcatEmptySeq
<1> HIDE DEF none
<1>4. KvJoin(none, kv, prefix) = none \o p
  <2>1. /\ none \in Seq(EntriesOf(K, T, V))
        /\ \A n \in 1..Len(kv) : prefix \o kv[n].key \notin Keys(none)
    BY <1>1 DEF S
  <2>2. KvJoin(none, kv, prefix) = none \o Prefixed(kv, prefix)
    BY <2>1, JoinNew
  <2> QED
    BY <2>2 DEF p
<1>5. KvSplit((none \o p) \o none, prefix) = kv
  <2>1. /\ none \in Seq(EntriesOf(K, T, V))
        /\ \A n \in 1..Len(none) : ~IsStrictPrefix(prefix, none[n].key)
    BY <1>1 DEF S
  <2>2. KvSplit((none \o Prefixed(kv, prefix)) \o none, prefix) = kv
    BY <2>1, SplitBlock
  <2> QED
    BY <2>2 DEF p
<1> QED
  BY <1>1, <1>3, <1>4, <1>5

\* What can be stored is a sequence of entries over some alphabet with the prefix.
LEMMA StorableTyped ==
  ASSUME NEW kv, Storable(kv), NEW prefix, Sequence(prefix)
  PROVE  \E K, V : kv \in Seq(EntriesOf(K, KvTypes, V)) /\ prefix \in Seq(K)
<1> DEFINE K == Range(prefix) \cup UNION {Range(kv[n].key) : n \in DOMAIN kv}
           V == {kv[n].val : n \in DOMAIN kv}
<1>1. /\ kv \in Seq(Range(kv)) /\ prefix \in Seq(Range(prefix))
      /\ \A n \in DOMAIN kv : Codable(kv[n])
  BY DEF Storable, Sequence
<1>2. prefix \in Seq(K)
  <2>1. Range(prefix) \subseteq K
    OBVIOUS
  <2> HIDE DEF K
  <2> QED
    BY <1>1, <2>1, SeqMonotonic
<1>3. ASSUME NEW n \in DOMAIN kv PROVE kv[n] \in EntriesOf(K, KvTypes, V)
  <2>1. /\ kv[n] = Entry(kv[n].key, kv[n].type, kv[n].val)
        /\ kv[n].key \in Seq(Range(kv[n].key)) /\ kv[n].type \in KvTypes /\ kv[n].val \in V
    BY <1>1 DEF Codable, Clean
  <2>2. Range(kv[n].key) \subseteq K
    OBVIOUS
  <2> HIDE DEF K, V
  <2>3. kv[n].key \in Seq(K)
    BY <2>1, <2>2, SeqMonotonic
  <2> QED
    BY <2>1, <2>3 DEF Entry, EntriesOf
<1> DEFINE S == EntriesOf(K, KvTypes, V)
<1> HIDE DEF S, K, V
<1>4. Range(kv) \subseteq S
  BY <1>3 DEF Range, S
<1>5. kv \in Seq(S)
  BY <1>1, <1>4, SeqMonotonic
<1> QED
  BY <1>2, <1>5 DEF S

\* The operations of kv.c on its flat buffer are those on the sequence of the entries it
\* holds: find, delete, put, and kv_next from where an entry has been deleted
\* (kv.c:122-207, 264-280).
THEOREM BufferImplementsKv ==
  ASSUME NEW buf, NEW kv, NEW at, Holds(buf, kv, at)
  PROVE  /\ Entries(buf) = kv /\ KvEncode(kv) = buf
         /\ \A key :
              /\ BufFind(buf, key) =
                   IF key \in Keys(kv) THEN Visits(buf)[KvFind(kv, key)] ELSE NULL
              /\ Entries(BufDelete(buf, key)) = KvDelete(kv, key)
         /\ \A key, type, val : Codable(Entry(key, type, val)) =>
              Entries(BufPut(buf, key, type, val)) = KvPut(kv, key, type, val)
         /\ UniqueKeys(kv) => \A n \in 1..Len(kv) :
              LET rest == KvDelete(kv, kv[n].key)
                  b    == BufDelete(buf, kv[n].key)
                  o    == BufNext(b, Visits(buf)[n])
              IN IF KvNext(rest, n) = 0 THEN o = NULL ELSE EntryAt(b, o) = rest[KvNext(rest, n)]
<1>1. Entries(buf) = kv /\ KvEncode(kv) = buf
  BY HeldIsRead, HeldIsEncoded
<1>2. ASSUME NEW key PROVE Entries(BufDelete(buf, key)) = KvDelete(kv, key)
  <2>1. PICK bt : Holds(BufDelete(buf, key), KvDelete(kv, key), bt)
    BY AnyDeletedHolds
  <2> QED
    BY <2>1, HeldIsRead
<1>3. ASSUME NEW key, NEW type, NEW val, Codable(Entry(key, type, val))
      PROVE  Entries(BufPut(buf, key, type, val)) = KvPut(kv, key, type, val)
  <2>1. PICK bt : Holds(BufPut(buf, key, type, val), KvPut(kv, key, type, val), bt)
    BY <1>3, PutHolds
  <2> QED
    BY <2>1, HeldIsRead
<1>4. ASSUME NEW key
      PROVE  BufFind(buf, key) =
               IF key \in Keys(kv) THEN Visits(buf)[KvFind(kv, key)] ELSE NULL
  BY FoundIs
<1>5. ASSUME UniqueKeys(kv), NEW n \in 1..Len(kv)
      PROVE  LET rest == KvDelete(kv, kv[n].key)
                 b    == BufDelete(buf, kv[n].key)
                 o    == BufNext(b, Visits(buf)[n])
             IN IF KvNext(rest, n) = 0 THEN o = NULL ELSE EntryAt(b, o) = rest[KvNext(rest, n)]
  BY <1>5, NextAfterDelete
<1> QED
  BY <1>1, <1>2, <1>3, <1>4, <1>5
=============================================================================
