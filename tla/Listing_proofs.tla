--------------------------- MODULE Listing_proofs ---------------------------
(***************************************************************************)
(* What the proofs about Services need of sequences: going through one     *)
(* step by step, keeping a part of it in order (Within) and sorting it     *)
(* (Ranked); and from that the invariants of the pages of accounts and of  *)
(* activities, of the backups, and of texts with values filled in.         *)
(***************************************************************************)
EXTENDS ActivityListing, Backups, Languages, Templates,
        TLAPS, FiniteSetTheorems, WellFoundedInduction, SequenceTheorems

-----------------------------------------------------------------------------
(* Going through a sequence.                                               *)

\* A set of numbers has a least one.
LEMMA LeastNat ==
    ASSUME NEW S \in SUBSET Nat, S # {}
    PROVE  \E n \in S : \A m \in S : n <= m
<1>1. PICK R : R = {ss \in Nat \X Nat : ss[1] < ss[2]}
  OBVIOUS
<1>2. IsWellFoundedOn(R, Nat)
  BY <1>1, NatLessThanWellFounded DEF OpToRel
<1>3. PICK n \in S : \A m \in S : ~(<<m, n>> \in R)
  BY <1>2, WFMin
<1>4. \A m \in S : ~(m < n)
  BY <1>1, <1>3
<1> QED BY <1>4

\* Of numbers up to n, there is a greatest one, which Max finds.
LEMMA Greatest ==
    ASSUME NEW n \in Nat, NEW s \in SUBSET (1..n), s # {}
    PROVE  Max(s) \in s /\ \A y \in s : y <= Max(s)
<1> DEFINE T == {n - x : x \in s}
<1>1. T \in SUBSET Nat /\ T # {}
  <2>1. \A x \in s : n - x \in Nat
    OBVIOUS
  <2>2. T \subseteq Nat
    BY <2>1
  <2>3. PICK x \in s : TRUE
    OBVIOUS
  <2>4. n - x \in T
    BY <2>3, Zenon
  <2> QED BY <2>2, <2>4
<1>2. PICK t \in T : \A u \in T : t <= u
  BY <1>1, LeastNat
<1>3. PICK x \in s : t = n - x
  BY <1>2
<1>4. \A y \in s : x >= y
  <2> TAKE y \in s
  <2>1. n - x <= n - y
    BY <1>2, <1>3
  <2> QED BY <2>1
<1> QED BY <1>3, <1>4 DEF Max

\* The number last counted is the greatest, and without it the others are left.
LEMMA CountedLast ==
    ASSUME NEW n \in Nat \ {0}
    PROVE  Max(1..n) = n /\ (1..n) \ {n} = 1..(n - 1)
<1>1. 1..n \in SUBSET (1..n) /\ n \in 1..n /\ (1..n) \ {n} = 1..(n - 1)
  OBVIOUS
<1>2. Max(1..n) \in 1..n /\ \A y \in 1..n : y <= Max(1..n)
  BY <1>1, Greatest
<1> QED BY <1>1, <1>2

\* Of a set with the greatest number there may be, that is the greatest.
LEMMA GreatestOf ==
    ASSUME NEW m \in Nat, NEW s \in SUBSET (1..m), m \in s
    PROVE  Max(s) = m /\ s \ {m} \in SUBSET (1..(m - 1)) /\ s \ {m} \in SUBSET (1..m)
<1>1. s # {}
  OBVIOUS
<1>2. Max(s) \in s /\ \A y \in s : y <= Max(s)
  BY <1>1, Greatest
<1>3. m <= Max(s) /\ Max(s) \in 1..m
  BY <1>2
<1> QED BY <1>3

\* f is the table of what step leads to from base, for all sets of numbers up to n, the
\* greatest of which comes last.
IsTable(f, base, n, step) ==
    \A s \in SUBSET (1..n) : f[s] = IF s = {} THEN base ELSE step[Max(s)][f[s \ {Max(s)}]]

\* There is such a table: the next one extends the last.
LEMMA TableExists ==
    ASSUME NEW S, NEW base \in S, NEW n \in Nat, NEW step \in [1..n -> [S -> S]]
    PROVE  \E f \in [SUBSET (1..n) -> S] : IsTable(f, base, n, step)
<1> DEFINE Has(m) == \E f \in [SUBSET (1..m) -> S] : IsTable(f, base, m, step)
           Not == {m \in 0..n : ~Has(m)}
<1> HIDE DEF Has
<1> SUFFICES ASSUME Not # {} PROVE FALSE
  <2>1. n \in 0..n
    OBVIOUS
  <2>2. Not = {} => Has(n)
    BY <2>1
  <2> QED BY <2>2 DEF Has
<1>1. PICK m \in Not : \A k \in Not : m <= k
  <2>1. Not \in SUBSET Nat
    OBVIOUS
  <2> HIDE DEF Not
  <2> QED BY <2>1, LeastNat
<1>2. m # 0
  <2>1. \A s \in SUBSET (1..0) : s = {}
    OBVIOUS
  <2>2. IsTable([s \in SUBSET (1..0) |-> base], base, 0, step)
    BY <2>1 DEF IsTable
  <2>3. Has(0)
    BY <2>2 DEF Has
  <2> QED BY <2>3
<1>3. Has(m - 1)
  <2>1. m - 1 \in 0..n /\ ~(m <= m - 1)
    BY <1>1, <1>2
  <2> QED BY <1>1, <2>1
<1>4. PICK f \in [SUBSET (1..(m - 1)) -> S] : IsTable(f, base, m - 1, step)
  BY <1>3 DEF Has
<1> DEFINE g == [s \in SUBSET (1..m) |-> IF m \in s THEN step[m][f[s \ {m}]] ELSE f[s]]
<1>a. m \in Nat /\ m \in 1..n
  BY <1>1, <1>2
<1>5. \A s \in SUBSET (1..m) : m \notin s => s \in SUBSET (1..(m - 1))
  BY <1>a
<1>6. g \in [SUBSET (1..m) -> S]
  <2> SUFFICES ASSUME NEW s \in SUBSET (1..m) PROVE g[s] \in S
    OBVIOUS
  <2>1. CASE m \in s
    <3>1. s \ {m} \in SUBSET (1..(m - 1))
      BY <1>a, <2>1, GreatestOf
    <3> QED BY <1>a, <2>1, <3>1
  <2>2. CASE m \notin s
    BY <1>5, <2>2
  <2> QED BY <2>1, <2>2
<1>7. IsTable(g, base, m, step)
  <2> SUFFICES ASSUME NEW s \in SUBSET (1..m)
               PROVE g[s] = IF s = {} THEN base ELSE step[Max(s)][g[s \ {Max(s)}]]
    BY DEF IsTable
  <2>1. CASE m \in s
    <3>1. Max(s) = m /\ s \ {m} \in SUBSET (1..m)
      BY <1>a, <2>1, GreatestOf
    <3>2. g[s \ {m}] = f[s \ {m}]
      BY <3>1
    <3> QED BY <2>1, <3>1, <3>2
  <2>2. CASE m \notin s
    <3>1. s \in SUBSET (1..(m - 1)) /\ g[s] = f[s]
      BY <1>5, <2>2
    <3>2. f[s] = IF s = {} THEN base ELSE step[Max(s)][f[s \ {Max(s)}]]
      BY <1>4, <3>1 DEF IsTable
    <3>3. ASSUME s # {} PROVE g[s \ {Max(s)}] = f[s \ {Max(s)}]
      <4>1. s \ {Max(s)} \in SUBSET (1..m) /\ m \notin s \ {Max(s)}
        BY <2>2
      <4> QED BY <4>1
    <3> QED BY <3>1, <3>2, <3>3
  <2> QED BY <2>1, <2>2
<1> HIDE DEF g
<1>8. Has(m)
  BY <1>6, <1>7 DEF Has
<1> QED BY <1>1, <1>8

\* run[k] are those of the first k elements of a sequence that are within a set.
Runs(run, s, set) ==
    /\ run[0] = <<>> /\ run[Len(s)] = Within(s, set)
    /\ \A k \in 1..Len(s) :
           run[k] = IF s[k] \in set THEN Append(run[k - 1], s[k]) ELSE run[k - 1]

\* Step by step, the kept elements grow along the sequence.
LEMMA WithinRuns ==
    ASSUME NEW S, NEW s \in Seq(S), NEW set
    PROVE  \E run : Runs(run, s, set)
<1> DEFINE n == Len(s)
           Grows(kept, x) == IF x \in set THEN Append(kept, x) ELSE kept
           step == [k \in 1..n |-> [x \in Seq(S) |-> Grows(x, s[k])]]
           Table(f) == f = [t \in SUBSET (1..n) |->
                               IF t = {} THEN <<>> ELSE Grows(f[t \ {Max(t)}], s[Max(t)])]
           F == CHOOSE f : Table(f)
<1>1. n \in Nat /\ DOMAIN s = 1..n
  OBVIOUS
<1>2. step \in [1..n -> [Seq(S) -> Seq(S)]]
  <2>1. \A k \in 1..n, x \in Seq(S) : Grows(x, s[k]) \in Seq(S)
    <3> TAKE k \in 1..n, x \in Seq(S)
    <3>1. s[k] \in S
      OBVIOUS
    <3> QED BY <3>1
  <2> QED BY <2>1
<1>3. PICK g \in [SUBSET (1..n) -> Seq(S)] : IsTable(g, <<>>, n, step)
  <2>1. <<>> \in Seq(S)
    OBVIOUS
  <2> HIDE DEF step, n
  <2> QED BY <1>1, <1>2, <2>1, TableExists
<1>4. Table(g)
  <2>1. \A t \in SUBSET (1..n) : t # {} => Max(t) \in 1..n /\ t \ {Max(t)} \in SUBSET (1..n)
    BY <1>1, Greatest
  <2>2. \A t \in SUBSET (1..n) :
            g[t] = IF t = {} THEN <<>> ELSE Grows(g[t \ {Max(t)}], s[Max(t)])
    <3> SUFFICES ASSUME NEW t \in SUBSET (1..n)
                 PROVE  g[t] = IF t = {} THEN <<>> ELSE Grows(g[t \ {Max(t)}], s[Max(t)])
      OBVIOUS
    <3>1. g[t] = IF t = {} THEN <<>> ELSE step[Max(t)][g[t \ {Max(t)}]]
      BY <1>3 DEF IsTable
    <3>2. CASE t = {}
      BY <3>1, <3>2
    <3>3. CASE t # {}
      <4>1. Max(t) \in 1..n /\ g[t \ {Max(t)}] \in Seq(S)
        BY <2>1, <3>3
      <4>2. step[Max(t)][g[t \ {Max(t)}]] = Grows(g[t \ {Max(t)}], s[Max(t)])
        <5> HIDE DEF Grows
        <5> QED BY <4>1
      <4> HIDE DEF step, Grows
      <4> QED BY <3>1, <3>3, <4>2
    <3> QED BY <3>2, <3>3
  <2> HIDE DEF Grows
  <2> QED BY <2>2
<1>5. Table(F)
  BY <1>4
<1>6. Within(s, set) = F[1..n]
  BY <1>1 DEF Within, FoldLeft, MapThenFoldSet
<1> DEFINE run == [k \in 0..n |-> F[1..k]]
<1>7. F[{}] = <<>> /\ \A k \in 1..n : F[1..k] = Grows(F[1..(k - 1)], s[k])
  <2> HIDE DEF F, Grows
  <2>1. F[{}] = <<>>
    BY <1>5
  <2>2. ASSUME NEW k \in 1..n PROVE F[1..k] = Grows(F[1..(k - 1)], s[k])
    <3>1. 1..k \in SUBSET (1..n) /\ 1..k # {}
      <4>1. n \in Nat /\ k \in Nat /\ 1 <= k /\ k <= n
        BY <1>1
      <4> HIDE DEF n
      <4>2. \A j \in 1..k : j \in 1..n
        BY <4>1
      <4>3. 1 \in 1..k
        BY <4>1
      <4> QED BY <4>2, <4>3
    <3>2. Max(1..k) = k /\ (1..k) \ {k} = 1..(k - 1)
      BY CountedLast
    <3>3. F[1..k] = Grows(F[(1..k) \ {Max(1..k)}], s[Max(1..k)])
      BY <1>5, <3>1
    <3> QED BY <3>2, <3>3
  <2> QED BY <2>1, <2>2
<1>8. run[0] = <<>> /\ run[n] = F[1..n] /\ \A k \in 1..n : run[k] = Grows(run[k - 1], s[k])
  <2> HIDE DEF F, Grows
  <2>1. 1..0 = {}
    OBVIOUS
  <2>2. \A k \in 1..n : k - 1 \in 0..n /\ k \in 0..n
    BY <1>1
  <2> QED BY <1>1, <1>7, <2>1, <2>2
<1>9. Runs(run, s, set)
  <2> HIDE DEF run, F
  <2> QED BY <1>6, <1>8 DEF Runs
<1> QED BY <1>9

\* r are the elements within a set of the first k of a sequence: `at` says which they were.
Chosen(s, set, k, r, at) ==
    /\ at \in [DOMAIN r -> 1..k]
    /\ \A i \in DOMAIN r : r[i] = s[at[i]] /\ s[at[i]] \in set
    /\ \A i, j \in DOMAIN r : i < j => at[i] < at[j]
    /\ \A a \in 1..k : s[a] \in set => \E i \in DOMAIN r : at[i] = a

\* Within keeps the order, keeps nothing else and leaves nothing out.
LEMMA WithinIs ==
    ASSUME NEW S, NEW s \in Seq(S), NEW set
    PROVE  /\ Within(s, set) \in Seq(S)
           /\ \E at : Chosen(s, set, Len(s), Within(s, set), at)
<1> DEFINE n == Len(s)
<1> PICK run : Runs(run, s, set)
  BY WithinRuns
<1>1. /\ run[0] = <<>> /\ run[n] = Within(s, set)
      /\ \A k \in 1..n :
            run[k] = IF s[k] \in set THEN Append(run[k - 1], s[k]) ELSE run[k - 1]
  BY DEF Runs
<1> DEFINE Fine(k) == run[k] \in Seq(S) /\ \E at : Chosen(s, set, k, run[k], at)
           Bad == {k \in 0..n : ~Fine(k)}
<1>2. n \in Nat /\ \A k \in 1..n : s[k] \in S
  OBVIOUS
<1>3. Fine(0)
  <2>1. <<>> \in Seq(S) /\ DOMAIN <<>> = {}
    OBVIOUS
  <2>2. Chosen(s, set, 0, <<>>, <<>>)
    BY DEF Chosen
  <2> QED BY <1>1, <2>1, <2>2
<1>4. ASSUME NEW k \in 1..n, Fine(k - 1) PROVE Fine(k)
  <2> PICK old : old = run[k - 1]
    OBVIOUS
  <2> PICK new : new = run[k]
    OBVIOUS
  <2>1. old \in Seq(S) /\ new = IF s[k] \in set THEN Append(old, s[k]) ELSE old
    BY <1>1, <1>4
  <2>2. PICK at : Chosen(s, set, k - 1, old, at)
    BY <1>4
  <2>3. SUFFICES new \in Seq(S) /\ \E bt : Chosen(s, set, k, new, bt)
    OBVIOUS
  <2>4. /\ at \in [DOMAIN old -> 1..(k - 1)]
        /\ \A i \in DOMAIN old : old[i] = s[at[i]] /\ s[at[i]] \in set
        /\ \A i, j \in DOMAIN old : i < j => at[i] < at[j]
        /\ \A a \in 1..(k - 1) : s[a] \in set => \E i \in DOMAIN old : at[i] = a
    BY <2>2 DEF Chosen
  <2>5. k \in Nat /\ k >= 1 /\ s[k] \in S
    BY <1>2
  <2> HIDE DEF n, Fine
  <2>6. CASE s[k] \notin set
    <3>1. new = old
      BY <2>1, <2>6
    <3>2. at \in [DOMAIN old -> 1..k]
      <4>1. \A i \in DOMAIN old : at[i] \in 1..k
        BY <2>4, <2>5
      <4> QED BY <2>4, <4>1
    <3>3. \A a \in 1..k : s[a] \in set => \E i \in DOMAIN old : at[i] = a
      <4> SUFFICES ASSUME NEW a \in 1..k, s[a] \in set PROVE \E i \in DOMAIN old : at[i] = a
        OBVIOUS
      <4>1. a # k
        BY <2>6
      <4>2. a \in 1..(k - 1)
        BY <2>5, <4>1
      <4> QED BY <2>4, <4>2
    <3>4. Chosen(s, set, k, new, at)
      BY <2>4, <3>1, <3>2, <3>3 DEF Chosen
    <3> QED BY <2>1, <3>1, <3>4
  <2>7. CASE s[k] \in set
    <3> DEFINE m == Len(old)
               bt == [i \in 1..(m + 1) |-> IF i = m + 1 THEN k ELSE at[i]]
    <3>1. new = Append(old, s[k])
      BY <2>1, <2>7
    <3>2. /\ new \in Seq(S) /\ DOMAIN new = 1..(m + 1) /\ m \in Nat /\ DOMAIN old = 1..m
          /\ new[m + 1] = s[k] /\ \A i \in 1..m : new[i] = old[i]
      BY <2>1, <2>5, <3>1
    <3> HIDE DEF m
    <3>3. /\ \A i \in 1..m : bt[i] = at[i] /\ at[i] \in 1..(k - 1)
          /\ bt[m + 1] = k
      BY <2>4, <3>2
    <3>4. bt \in [DOMAIN new -> 1..k]
      <4>1. \A i \in 1..(m + 1) : bt[i] \in 1..k
        <5> TAKE i \in 1..(m + 1)
        <5>1. CASE i = m + 1
          BY <2>5, <3>3, <5>1
        <5>2. CASE i \in 1..m
          <6>1. bt[i] \in 1..(k - 1)
            BY <3>3, <5>2
          <6> HIDE DEF bt
          <6> QED BY <2>5, <6>1
        <5> QED BY <3>2, <5>1, <5>2
      <4> QED BY <3>2, <4>1
    <3> HIDE DEF bt
    <3>5. ASSUME NEW i \in DOMAIN new PROVE new[i] = s[bt[i]] /\ s[bt[i]] \in set
      <4>1. CASE i = m + 1
        BY <2>7, <3>2, <3>3, <4>1
      <4>2. CASE i \in 1..m
        <5>1. new[i] = old[i] /\ bt[i] = at[i] /\ i \in DOMAIN old
          BY <3>2, <3>3, <4>2
        <5>2. old[i] = s[at[i]] /\ s[at[i]] \in set
          BY <2>4, <5>1
        <5> QED BY <5>1, <5>2
      <4> QED BY <3>2, <4>1, <4>2
    <3>6. ASSUME NEW i \in DOMAIN new, NEW j \in DOMAIN new, i < j PROVE bt[i] < bt[j]
      <4>1. i \in 1..m
        BY <3>2, <3>6
      <4>2. CASE j = m + 1
        BY <2>5, <3>3, <4>1, <4>2
      <4>3. CASE j \in 1..m
        BY <2>4, <3>2, <3>3, <3>6, <4>1, <4>3
      <4> QED BY <3>2, <4>2, <4>3
    <3>7. ASSUME NEW a \in 1..k, s[a] \in set PROVE \E i \in DOMAIN new : bt[i] = a
      <4>1. CASE a = k
        <5>1. m + 1 \in DOMAIN new
          BY <3>2
        <5> QED BY <3>3, <4>1, <5>1
      <4>2. CASE a \in 1..(k - 1)
        <5>1. PICK i \in DOMAIN old : at[i] = a
          BY <2>4, <3>7, <4>2
        <5>2. i \in DOMAIN new
          BY <3>2
        <5> QED BY <3>2, <3>3, <5>1, <5>2
      <4> QED BY <2>5, <4>1, <4>2
    <3>8. Chosen(s, set, k, new, bt)
      BY <3>4, <3>5, <3>6, <3>7 DEF Chosen
    <3> QED BY <3>2, <3>8
  <2> QED BY <2>6, <2>7
<1> HIDE DEF Fine
<1>5. Bad = {}
  <2> SUFFICES ASSUME Bad # {} PROVE FALSE
    OBVIOUS
  <2>1. Bad \in SUBSET Nat
    OBVIOUS
  <2>2. PICK k \in Bad : \A j \in Bad : k <= j
    <3> HIDE DEF Bad
    <3> QED BY <2>1, LeastNat
  <2>3. k # 0
    BY <1>3
  <2>4. k \in 1..n /\ k - 1 \in 0..n /\ ~(k <= k - 1)
    BY <1>2, <2>3
  <2>5. Fine(k - 1)
    BY <2>2, <2>4
  <2> QED BY <1>4, <2>4, <2>5
<1>6. n \in 0..n
  BY <1>2
<1>7. Fine(n)
  BY <1>5, <1>6
<1> QED BY <1>1, <1>7 DEF Fine

\* Within a set that has all elements, the sequence stays as it is.
LEMMA WithinAll ==
    ASSUME NEW S, NEW s \in Seq(S), NEW set, \A k \in DOMAIN s : s[k] \in set
    PROVE  Within(s, set) = s
<1> DEFINE n == Len(s)
<1> PICK run : Runs(run, s, set)
  BY WithinRuns
<1>1. /\ run[0] = <<>> /\ run[n] = Within(s, set)
      /\ \A k \in 1..n :
            run[k] = IF s[k] \in set THEN Append(run[k - 1], s[k]) ELSE run[k - 1]
  BY DEF Runs
<1>2. n \in Nat /\ DOMAIN s = 1..n /\ \A k \in 1..n : s[k] \in S
  OBVIOUS
<1> DEFINE Fine(k) == run[k] = [i \in 1..k |-> s[i]]
           Bad == {k \in 0..n : ~Fine(k)}
<1>3. Fine(0)
  BY <1>1
<1>4. ASSUME NEW k \in 1..n, Fine(k - 1) PROVE Fine(k)
  <2> PICK old : old = run[k - 1]
    OBVIOUS
  <2>1. run[k] = Append(old, s[k])
    BY <1>1, <1>2
  <2>2. old = [i \in 1..(k - 1) |-> s[i]]
    BY <1>4
  <2>3. k \in Nat /\ k >= 1 /\ \A i \in 1..k : s[i] \in S
    BY <1>2
  <2> HIDE DEF n
  <2>4. old \in Seq(S) /\ Len(old) = k - 1
    <3>1. \A i \in 1..(k - 1) : s[i] \in S
      BY <2>3
    <3> QED BY <2>2, <2>3, <3>1
  <2>5. Append(old, s[k]) = [i \in 1..k |-> s[i]]
    BY <2>2, <2>3, <2>4
  <2> QED BY <2>1, <2>5
<1> HIDE DEF Fine
<1>5. Bad = {}
  <2> SUFFICES ASSUME Bad # {} PROVE FALSE
    OBVIOUS
  <2>1. Bad \in SUBSET Nat
    OBVIOUS
  <2>2. PICK k \in Bad : \A j \in Bad : k <= j
    <3> HIDE DEF Bad
    <3> QED BY <2>1, LeastNat
  <2>3. k # 0
    BY <1>3
  <2>4. k \in 1..n /\ k - 1 \in 0..n /\ ~(k <= k - 1)
    BY <1>2, <2>3
  <2>5. Fine(k - 1)
    BY <2>2, <2>4
  <2> QED BY <1>4, <2>4, <2>5
<1>6. n \in 0..n
  BY <1>2
<1>7. Fine(n)
  BY <1>5, <1>6
<1>8. s = [i \in 1..n |-> s[i]]
  BY <1>2
<1> QED BY <1>1, <1>7, <1>8 DEF Fine

\* The least number of a set, when there is one, is what Min finds.
LEMMA LeastIs ==
    ASSUME NEW S \in SUBSET Int, NEW m \in S, \A y \in S : m <= y
    PROVE  Min(S) = m
<1>1. \A x \in S : (\A y \in S : x <= y) => x = m
  BY m \in Int
<1> QED BY <1>1 DEF Min

\* Of numbers up to n there is a least one, which Min finds.
LEMMA Smallest ==
    ASSUME NEW n \in Nat, NEW s \in SUBSET (1..n), s # {}
    PROVE  Min(s) \in s /\ \A y \in s : Min(s) <= y
<1>1. s \in SUBSET Nat
  OBVIOUS
<1>2. PICK x \in s : \A y \in s : x <= y
  BY <1>1, LeastNat
<1> QED BY <1>2 DEF Min

-----------------------------------------------------------------------------
(* Sorting.                                                                *)

\* A relation puts the elements of a set one after the other.
Orders(before, T) ==
    /\ \A x \in T : <<x, x>> \notin before
    /\ \A x, y \in T : x # y => <<x, y>> \in before \/ <<y, x>> \in before
    /\ \A x, y, z \in T : <<x, y>> \in before /\ <<y, z>> \in before => <<x, z>> \in before

\* r goes through a set once, in that order.
InOrder(r, T, before) ==
    /\ r \in [1..Cardinality(T) -> T]
    /\ \A x \in T : \E i \in DOMAIN r : r[i] = x
    /\ \A i, j \in DOMAIN r : i < j => <<r[i], r[j]>> \in before

\* Counting what comes before each element finds every place, and every element has one.
LEMMA RankedIs ==
    ASSUME NEW T, IsFiniteSet(T), NEW before, Orders(before, T)
    PROVE  InOrder(Ranked(T, before), T, before)
<1> DEFINE N == Cardinality(T)
           P(x) == {y \in T : <<y, x>> \in before}
           c == [x \in T |-> Cardinality(P(x)) + 1]
           r == Ranked(T, before)
<1>1. N \in Nat /\ IsFiniteSet(1..N) /\ Cardinality(1..N) = N
  <2>1. N \in Nat
    BY FS_CardinalityType
  <2> HIDE DEF N
  <2> QED BY <2>1, FS_Interval
<1>2. ASSUME NEW x \in T PROVE IsFiniteSet(P(x)) /\ Cardinality(P(x)) \in Nat /\ c[x] \in 1..N
  <2>1. P(x) \in SUBSET (T \ {x})
    BY DEF Orders
  <2>2. IsFiniteSet(T \ {x}) /\ Cardinality(T \ {x}) = N - 1
    BY FS_RemoveElement
  <2> HIDE DEF P, N
  <2>3. IsFiniteSet(P(x)) /\ Cardinality(P(x)) <= N - 1
    BY <2>1, <2>2, FS_Subset
  <2>4. Cardinality(P(x)) \in Nat
    BY <2>3, FS_CardinalityType
  <2> QED BY <1>1, <2>3, <2>4
<1>3. ASSUME NEW x \in T, NEW y \in T, <<x, y>> \in before PROVE c[x] < c[y]
  <2>1. P(x) \in SUBSET P(y) /\ x \in P(y) /\ x \notin P(x)
    BY <1>3 DEF Orders
  <2>2. IsFiniteSet(P(y)) /\ Cardinality(P(x)) \in Nat /\ Cardinality(P(y)) \in Nat
    BY <1>2
  <2> HIDE DEF P
  <2>3. Cardinality(P(x)) <= Cardinality(P(y)) /\ (Cardinality(P(y)) = Cardinality(P(x)) => P(y) = P(x))
    BY <2>1, <2>2, FS_Subset
  <2>4. Cardinality(P(x)) < Cardinality(P(y))
    BY <2>1, <2>2, <2>3
  <2> QED BY <2>2, <2>4
<1>4. c \in [T -> 1..N]
  BY <1>2
<1>5. \A x, y \in T : c[x] = c[y] => x = y
  <2> SUFFICES ASSUME NEW x \in T, NEW y \in T, c[x] = c[y], x # y PROVE FALSE
    OBVIOUS
  <2>1. c[x] \in 1..N /\ c[y] \in 1..N
    BY <1>4
  <2>2. CASE <<x, y>> \in before
    <3>1. c[x] < c[y]
      BY <1>3, <2>2
    <3> QED BY <2>1, <3>1
  <2>3. CASE <<y, x>> \in before
    <3>1. c[y] < c[x]
      BY <1>3, <2>3
    <3> QED BY <2>1, <3>1
  <2> QED BY <2>2, <2>3 DEF Orders
<1> HIDE DEF N, c
<1>6. c \in Surjection(T, 1..N)
  <2>1. c \in Injection(T, 1..N)
    BY <1>4, <1>5 DEF Injection, IsInjective
  <2> QED BY <1>1, <2>1, FS_Injection DEF N
<1>7. \A n \in 1..N : \E x \in T : c[x] = n
  BY <1>6 DEF Surjection
<1>8. ASSUME NEW n \in 1..N PROVE r[n] \in T /\ c[r[n]] = n
  <2>1. r[n] = CHOOSE x \in T : Cardinality(P(x)) = n - 1
    BY DEF Ranked, N
  <2>2. PICK x \in T : c[x] = n
    BY <1>7
  <2>3. \A y \in T : c[y] = Cardinality(P(y)) + 1 /\ Cardinality(P(y)) \in Nat
    BY <1>2 DEF c
  <2> HIDE DEF P, r
  <2>4. Cardinality(P(x)) = n - 1
    BY <1>1, <2>2, <2>3
  <2>5. r[n] \in T /\ Cardinality(P(r[n])) = n - 1
    BY <2>1, <2>4
  <2>6. c[r[n]] = n - 1 + 1
    BY <2>3, <2>5
  <2> QED BY <1>1, <2>5, <2>6
<1>9. r \in [1..N -> T]
  <2>1. DOMAIN r = 1..N /\ r = [n \in 1..N |-> r[n]]
    <3> DEFINE at(n) == CHOOSE x \in T : Cardinality({y \in T : <<y, x>> \in before}) = n - 1
    <3>1. r = [n \in 1..N |-> at(n)]
      BY DEF Ranked, N
    <3> HIDE DEF r, at
    <3> QED BY <3>1
  <2> HIDE DEF r
  <2> QED BY <1>8, <2>1
<1> HIDE DEF r
<1>10. \A x \in T : \E i \in DOMAIN r : r[i] = x
  <2> TAKE x \in T
  <2>1. c[x] \in 1..N
    BY <1>4
  <2>2. r[c[x]] \in T /\ c[r[c[x]]] = c[x]
    BY <1>8, <2>1
  <2> QED BY <1>5, <1>9, <2>1, <2>2
<1>11. \A i, j \in DOMAIN r : i < j => <<r[i], r[j]>> \in before
  <2> SUFFICES ASSUME NEW i \in 1..N, NEW j \in 1..N, i < j PROVE <<r[i], r[j]>> \in before
    BY <1>9
  <2>1. r[i] \in T /\ r[j] \in T /\ c[r[i]] = i /\ c[r[j]] = j
    BY <1>8
  <2>2. r[i] # r[j]
    BY <1>1, <2>1
  <2>3. ~(<<r[j], r[i]>> \in before)
    <3>1. ~(c[r[j]] < c[r[i]])
      BY <1>1, <2>1
    <3> QED BY <1>3, <2>1, <3>1
  <2> QED BY <2>1, <2>2, <2>3 DEF Orders
<1> QED BY <1>9, <1>10, <1>11 DEF InOrder, r, N

-----------------------------------------------------------------------------
(* The order of texts, which that of times and of names of files is too.   *)

\* At k, where they differ first, a has nothing or less than b.
Under(a, b, k) ==
    /\ k \in Nat \ {0} /\ k - 1 <= Len(a) /\ k <= Len(b)
    /\ \A i \in 1..(k - 1) : a[i] = b[i]
    /\ k <= Len(a) => a[k] < b[k]

Lesser(a, b) == \E k : Under(a, b, k)

\* The place at which two texts differ first, or none.
LEMMA FirstDifference ==
    ASSUME NEW a \in Seq(Int), NEW b \in Seq(Int),
           NEW differ, differ = {i \in DOMAIN a \cap DOMAIN b : a[i] # b[i]}
    PROVE  \/ /\ differ = {}
              /\ (Len(a) = Len(b) <=> a = b)
              /\ Len(a) < Len(b) => Under(a, b, Len(a) + 1)
              /\ Len(b) < Len(a) => Under(b, a, Len(b) + 1)
           \/ /\ differ # {} /\ a # b
              /\ Min(differ) \in DOMAIN a \cap DOMAIN b
              /\ a[Min(differ)] < b[Min(differ)] => Under(a, b, Min(differ))
              /\ b[Min(differ)] < a[Min(differ)] => Under(b, a, Min(differ))
              /\ a[Min(differ)] # b[Min(differ)]
<1>1. /\ Len(a) \in Nat /\ DOMAIN a = 1..Len(a) /\ \A i \in DOMAIN a : a[i] \in Int
      /\ Len(b) \in Nat /\ DOMAIN b = 1..Len(b) /\ \A i \in DOMAIN b : b[i] \in Int
  OBVIOUS
<1>2. CASE differ = {}
  <2>1. \A i \in 1..Len(a) : i \in 1..Len(b) => a[i] = b[i]
    BY <1>1, <1>2
  <2>2. Len(a) = Len(b) => a = b
    BY <1>1, <2>1
  <2>3. Len(a) < Len(b) => Under(a, b, Len(a) + 1)
    BY <1>1, <2>1 DEF Under
  <2>4. Len(b) < Len(a) => Under(b, a, Len(b) + 1)
    BY <1>1, <2>1 DEF Under
  <2> QED BY <1>2, <2>2, <2>3, <2>4
<1>3. CASE differ # {}
  <2>1. differ \in SUBSET (1..Len(a))
    BY <1>1
  <2>2. Min(differ) \in differ /\ \A y \in differ : Min(differ) <= y
    BY <1>1, <1>3, <2>1, Smallest
  <2> PICK m : m = Min(differ)
    OBVIOUS
  <2>3. m \in 1..Len(a) /\ m \in 1..Len(b) /\ a[m] # b[m] /\ \A y \in differ : m <= y
    BY <1>1, <2>2
  <2>4. \A i \in 1..(m - 1) : a[i] = b[i]
    <3> SUFFICES ASSUME NEW i \in 1..(m - 1) PROVE a[i] = b[i]
      OBVIOUS
    <3>1. i \in 1..Len(a) /\ i \in 1..Len(b) /\ ~(m <= i)
      BY <1>1, <2>3
    <3> QED BY <1>1, <2>3, <3>1
  <2>5. a[m] < b[m] => Under(a, b, m)
    BY <1>1, <2>3, <2>4 DEF Under
  <2>6. b[m] < a[m] => Under(b, a, m)
    BY <1>1, <2>3, <2>4 DEF Under
  <2> QED BY <1>1, <1>3, <2>3, <2>5, <2>6
<1> QED BY <1>2, <1>3

\* The order of texts goes on.
LEMMA UnderTransitive ==
    ASSUME NEW a \in Seq(Int), NEW b \in Seq(Int), NEW c \in Seq(Int), Lesser(a, b), Lesser(b, c)
    PROVE  Lesser(a, c)
<1>1. /\ Len(a) \in Nat /\ \A i \in 1..Len(a) : a[i] \in Int
      /\ Len(b) \in Nat /\ \A i \in 1..Len(b) : b[i] \in Int
      /\ Len(c) \in Nat /\ \A i \in 1..Len(c) : c[i] \in Int
  OBVIOUS
<1>2. PICK k : Under(a, b, k)
  BY DEF Lesser
<1>3. PICK m : Under(b, c, m)
  BY DEF Lesser
<1>4. /\ k \in Nat \ {0} /\ k - 1 <= Len(a) /\ k <= Len(b)
      /\ \A i \in 1..(k - 1) : a[i] = b[i]
      /\ k <= Len(a) => a[k] < b[k]
  BY <1>2 DEF Under
<1>5. /\ m \in Nat \ {0} /\ m - 1 <= Len(b) /\ m <= Len(c)
      /\ \A i \in 1..(m - 1) : b[i] = c[i]
      /\ m <= Len(b) => b[m] < c[m]
  BY <1>3 DEF Under
<1>6. CASE k < m
  <2>1. k <= Len(c) /\ \A i \in 1..(k - 1) : a[i] = c[i]
    BY <1>1, <1>4, <1>5, <1>6
  <2>2. k <= Len(a) => a[k] < c[k]
    BY <1>1, <1>4, <1>5, <1>6
  <2> QED BY <1>4, <2>1, <2>2 DEF Under, Lesser
<1>7. CASE k = m
  <2>1. \A i \in 1..(k - 1) : a[i] = c[i]
    BY <1>1, <1>4, <1>5, <1>7
  <2>2. k <= Len(a) => a[k] < c[k]
    <3> SUFFICES ASSUME k <= Len(a) PROVE a[k] < c[k]
      OBVIOUS
    <3>1. k \in 1..Len(a) /\ k \in 1..Len(b) /\ k \in 1..Len(c)
      BY <1>1, <1>4, <1>5, <1>7
    <3> QED BY <1>1, <1>4, <1>5, <1>7, <3>1
  <2> QED BY <1>4, <1>5, <1>7, <2>1, <2>2 DEF Under, Lesser
<1>8. CASE m < k
  <2>1. m - 1 <= Len(a) /\ \A i \in 1..(m - 1) : a[i] = c[i]
    <3>1. \A i \in 1..(m - 1) : i \in 1..(k - 1)
      BY <1>4, <1>5, <1>8
    <3>2. m - 1 <= Len(a)
      BY <1>1, <1>4, <1>5, <1>8
    <3> QED BY <1>4, <1>5, <3>1, <3>2
  <2>2. m \in 1..(k - 1) /\ m \in 1..Len(a) /\ m \in 1..Len(b)
    BY <1>1, <1>4, <1>5, <1>8
  <2>3. a[m] < c[m]
    BY <1>1, <1>4, <1>5, <2>2
  <2> QED BY <1>5, <2>1, <2>3 DEF Under, Lesser
<1> QED BY <1>4, <1>5, <1>6, <1>7, <1>8

\* No text is lower than itself.
LEMMA UnderStrict ==
    ASSUME NEW a \in Seq(Int)
    PROVE  ~Lesser(a, a)
<1> SUFFICES ASSUME NEW k, Under(a, a, k) PROVE FALSE
  BY DEF Lesser
<1>1. k \in 1..Len(a) /\ a[k] < a[k] /\ a[k] \in Int
  BY DEF Under
<1> QED BY <1>1

\* Comparing tells which of two texts is lower, if they are not the same.
LEMMA Compared ==
    ASSUME NEW a \in Seq(Int), NEW b \in Seq(Int)
    PROVE  /\ CompareSeq(a, b) \in {-1, 0, 1}
           /\ CompareSeq(a, b) = 0 <=> a = b
           /\ CompareSeq(a, b) = -1 <=> Lesser(a, b)
           /\ CompareSeq(a, b) = 1 <=> Lesser(b, a)
<1> DEFINE differ == {i \in DOMAIN a \cap DOMAIN b : a[i] # b[i]}
           x == IF differ = {} THEN Len(a) - Len(b) ELSE a[Min(differ)] - b[Min(differ)]
<1> USE DEF Lesser
<1>1. \/ differ = {} /\ (Len(a) = Len(b) <=> a = b)
           /\ (Len(a) < Len(b) => Lesser(a, b)) /\ (Len(b) < Len(a) => Lesser(b, a))
      \/ /\ differ # {} /\ a # b /\ Min(differ) \in DOMAIN a \cap DOMAIN b
         /\ (a[Min(differ)] < b[Min(differ)] => Lesser(a, b))
         /\ (b[Min(differ)] < a[Min(differ)] => Lesser(b, a))
         /\ a[Min(differ)] # b[Min(differ)]
  <2> HIDE DEF differ
  <2> QED BY FirstDifference DEF differ
<1>2. Len(a) \in Nat /\ Len(b) \in Nat /\ (\A i \in DOMAIN a : a[i] \in Int) /\ (\A i \in DOMAIN b : b[i] \in Int)
  OBVIOUS
<1> HIDE DEF differ, Lesser
<1>3. CompareSeq(a, b) = Sign(x)
  BY DEF CompareSeq, differ, Sign
<1>4. x \in Int /\ (x = 0 <=> a = b) /\ (x < 0 => Lesser(a, b)) /\ (x > 0 => Lesser(b, a))
  <2>1. CASE differ = {}
    BY <1>1, <1>2, <2>1
  <2>2. CASE differ # {}
    <3> PICK p, q : p = a[Min(differ)] /\ q = b[Min(differ)]
      OBVIOUS
    <3>1. p \in Int /\ q \in Int /\ p # q /\ (p < q => Lesser(a, b)) /\ (q < p => Lesser(b, a)) /\ a # b
      BY <1>1, <1>2, <2>2
    <3>2. x = p - q
      BY <2>2
    <3> HIDE DEF x
    <3> QED BY <3>1, <3>2
  <2> QED BY <2>1, <2>2
<1> HIDE DEF x
<1>5. ~(Lesser(a, b) /\ Lesser(b, a)) /\ (a = b => ~Lesser(a, b) /\ ~Lesser(b, a))
  BY UnderTransitive, UnderStrict
<1>6. /\ CompareSeq(a, b) \in {-1, 0, 1} /\ (CompareSeq(a, b) = 0 <=> x = 0)
      /\ (CompareSeq(a, b) = -1 <=> x < 0) /\ (CompareSeq(a, b) = 1 <=> x > 0)
  BY <1>3, <1>4 DEF Sign
<1>7. x = 0 \/ x < 0 \/ x > 0
  BY <1>4
<1> QED BY <1>4, <1>5, <1>6, <1>7

\* The names of a directory are read in the same order.
LEMMA BeforeIs ==
    ASSUME NEW f \in Seq(Int), NEW g \in Seq(Int)
    PROVE  Before(f, g) <=> CompareSeq(f, g) = -1
<1> DEFINE differ == {i \in DOMAIN f \cap DOMAIN g : f[i] # g[i]}
<1>1. Len(f) \in Nat /\ Len(g) \in Nat /\ (\A i \in DOMAIN f : f[i] \in Int) /\ (\A i \in DOMAIN g : g[i] \in Int)
  OBVIOUS
<1>2. differ = {} \/ Min(differ) \in DOMAIN f \cap DOMAIN g
  <2> HIDE DEF differ
  <2> QED BY FirstDifference DEF differ
<1>3. Before(f, g) <=> IF differ = {} THEN Len(f) < Len(g) ELSE f[Min(differ)] < g[Min(differ)]
  BY DEF Before
<1>4. CompareSeq(f, g) = Sign(IF differ = {} THEN Len(f) - Len(g) ELSE f[Min(differ)] - g[Min(differ)])
  BY DEF CompareSeq, Sign
<1> HIDE DEF differ
<1>5. CASE differ = {}
  BY <1>1, <1>3, <1>4, <1>5 DEF Sign
<1>6. CASE differ # {}
  <2> PICK p, q : p = f[Min(differ)] /\ q = g[Min(differ)]
    OBVIOUS
  <2>1. p \in Int /\ q \in Int
    BY <1>1, <1>2, <1>6
  <2>2. CompareSeq(f, g) = Sign(p - q) /\ (Before(f, g) <=> p < q)
    BY <1>3, <1>4, <1>6
  <2> QED BY <2>1, <2>2 DEF Sign
<1> QED BY <1>5, <1>6

-----------------------------------------------------------------------------
(* What sorting returns.                                                   *)

\* c compares any two of a set.
Comparing(c, D) ==
    /\ c \in [D \X D -> {-1, 0, 1}]
    /\ \A x \in D : c[<<x, x>>] = 0
    /\ \A x, y \in D : c[<<y, x>>] = -c[<<x, y>>]
    /\ \A x, y, z \in D : c[<<x, y>>] <= 0 /\ c[<<y, z>>] <= 0 =>
           c[<<x, z>>] <= 0 /\ (c[<<x, z>>] = 0 => c[<<x, y>>] = 0)

\* Equal ones stay in the order they have.
Stable(c, D) == {p \in D \X D : c[p] < 0 \/ (c[p] = 0 /\ p[1] < p[2])}

\* Sorting by a comparison and then by place is an order of all places.
LEMMA StableOrders ==
    ASSUME NEW D \in SUBSET Int, NEW c, Comparing(c, D)
    PROVE  Orders(Stable(c, D), D)
<1>1. \A x, y \in D : <<x, y>> \in Stable(c, D) <=> c[<<x, y>>] < 0 \/ (c[<<x, y>>] = 0 /\ x < y)
  BY DEF Stable
<1>2. \A x, y \in D : c[<<x, y>>] \in {-1, 0, 1} /\ x \in Int /\ c[<<x, x>>] = 0 /\ c[<<y, x>>] = -c[<<x, y>>]
  BY DEF Comparing
<1>3. ASSUME NEW x \in D, NEW y \in D, x # y
      PROVE  <<x, y>> \in Stable(c, D) \/ <<y, x>> \in Stable(c, D)
  <2> PICK d, e : d = c[<<x, y>>] /\ e = c[<<y, x>>]
    OBVIOUS
  <2>1. d \in {-1, 0, 1} /\ e = -d /\ x \in Int /\ y \in Int
    BY <1>2
  <2>2. (<<x, y>> \in Stable(c, D) <=> d < 0 \/ (d = 0 /\ x < y)) /\ (<<y, x>> \in Stable(c, D) <=> e < 0 \/ (e = 0 /\ y < x))
    BY <1>1
  <2> QED BY <1>3, <2>1, <2>2
<1>4. ASSUME NEW x \in D, NEW y \in D, NEW z \in D, <<x, y>> \in Stable(c, D), <<y, z>> \in Stable(c, D)
      PROVE  <<x, z>> \in Stable(c, D)
  <2> PICK d, e, f : d = c[<<x, y>>] /\ e = c[<<y, z>>] /\ f = c[<<x, z>>]
    OBVIOUS
  <2>1. d \in {-1, 0, 1} /\ e \in {-1, 0, 1} /\ f \in {-1, 0, 1} /\ x \in Int /\ y \in Int /\ z \in Int
    BY <1>2
  <2>2. (d < 0 \/ (d = 0 /\ x < y)) /\ (e < 0 \/ (e = 0 /\ y < z))
    BY <1>1, <1>4
  <2>3. d <= 0 /\ e <= 0
    BY <2>1, <2>2
  <2>4. f <= 0 /\ (f = 0 => d = 0)
    BY <2>3 DEF Comparing
  <2>5. f = 0 => e = 0
    <3>1. c[<<z, y>>] = -e /\ c[<<y, x>>] = -d /\ c[<<z, x>>] = -f
      BY <1>2
    <3>2. f = 0 => c[<<z, x>>] <= 0
      BY <2>1, <3>1
    <3>3. f = 0 /\ d = 0 => c[<<y, x>>] <= 0 /\ c[<<x, z>>] <= 0
      BY <2>1, <3>1
    <3>4. f = 0 /\ d = 0 => c[<<y, z>>] <= 0 /\ (c[<<y, z>>] = 0 => c[<<y, x>>] = 0)
      BY <3>3 DEF Comparing
    <3>5. f = 0 /\ d = 0 => c[<<x, y>>] <= 0 /\ c[<<z, x>>] <= 0
      BY <3>2, <2>3
    <3>6. f = 0 /\ d = 0 => c[<<z, y>>] <= 0
      BY <3>5 DEF Comparing
    <3> QED BY <2>1, <2>3, <2>4, <3>1, <3>6
  <2>6. f < 0 \/ (f = 0 /\ x < z)
    BY <2>1, <2>2, <2>4, <2>5
  <2> QED BY <1>1, <2>6
<1>5. ASSUME NEW x \in D PROVE <<x, x>> \notin Stable(c, D)
  <2>1. c[<<x, x>>] = 0 /\ x \in Int
    BY <1>2
  <2> QED BY <1>1, <2>1
<1> QED BY <1>3, <1>4, <1>5 DEF Orders

\* There is only one way to go through a set in an order.
LEMMA OneOrder ==
    ASSUME NEW T, IsFiniteSet(T), NEW before, Orders(before, T),
           NEW r, InOrder(r, T, before), NEW t, InOrder(t, T, before)
    PROVE  r = t
<1> PICK n : n = Cardinality(T)
  OBVIOUS
<1>1. /\ n \in Nat /\ r \in [1..n -> T] /\ t \in [1..n -> T]
      /\ \A x \in T : \E i \in 1..n : r[i] = x
      /\ \A x \in T : \E i \in 1..n : t[i] = x
      /\ \A i, j \in 1..n : i < j => <<r[i], r[j]>> \in before
      /\ \A i, j \in 1..n : i < j => <<t[i], t[j]>> \in before
  BY FS_CardinalityType DEF InOrder
<1>2. \A x, y \in T : <<x, x>> \notin before /\ ~(<<x, y>> \in before /\ <<y, x>> \in before)
  BY DEF Orders
<1> DEFINE Bad == {k \in 1..n : r[k] # t[k]}
<1>3. Bad = {}
  <2> SUFFICES ASSUME Bad # {} PROVE FALSE
    OBVIOUS
  <2>1. Bad \in SUBSET Nat
    OBVIOUS
  <2>2. PICK k \in Bad : \A j \in Bad : k <= j
    <3> HIDE DEF Bad
    <3> QED BY <2>1, LeastNat
  <2>3. k \in 1..n /\ r[k] \in T /\ t[k] \in T /\ r[k] # t[k]
    BY <1>1, <2>2
  <2>4. ASSUME NEW j \in 1..n, j < k PROVE r[j] = t[j]
    <3>1. ~(k <= j)
      BY <1>1, <2>3, <2>4
    <3> QED BY <2>2, <3>1
  <2>5. PICK j \in 1..n : t[j] = r[k]
    BY <1>1, <2>3
  <2>6. PICK i \in 1..n : r[i] = t[k]
    BY <1>1, <2>3
  <2>7. ~(j < k)
    <3> SUFFICES ASSUME j < k PROVE FALSE
      OBVIOUS
    <3>1. r[j] = r[k] /\ <<r[j], r[k]>> \in before
      BY <1>1, <2>3, <2>4, <2>5
    <3> QED BY <1>2, <2>3, <3>1
  <2>8. ~(i < k)
    <3> SUFFICES ASSUME i < k PROVE FALSE
      OBVIOUS
    <3>1. t[i] = t[k] /\ <<t[i], t[k]>> \in before
      BY <1>1, <2>3, <2>4, <2>6
    <3> QED BY <1>2, <2>3, <3>1
  <2>9. i > k /\ j > k
    BY <1>1, <2>3, <2>5, <2>6, <2>7, <2>8
  <2>10. <<r[k], r[i]>> \in before /\ <<t[k], t[j]>> \in before
    BY <1>1, <2>3, <2>9
  <2> QED BY <1>2, <2>3, <2>5, <2>6, <2>10
<1>4. \A k \in 1..n : r[k] = t[k]
  BY <1>3
<1> QED BY <1>1, <1>4

\* r has the elements of s in the order of c.
Arranges(r, s, S, c) ==
    /\ r \in Seq(S) /\ Len(r) = Len(s)
    /\ \E at \in [DOMAIN s -> DOMAIN s] :
          /\ \A n \in DOMAIN s : r[n] = s[at[n]]
          /\ \A k \in DOMAIN s : \E n \in DOMAIN s : at[n] = k
          /\ \A i, j \in DOMAIN s : i < j => at[i] # at[j] /\ c[<<at[i], at[j]>>] <= 0

\* Sorting a sequence by what Stable says arranges it, and leaves one alone that was in order.
LEMMA StableSort ==
    ASSUME NEW S, NEW s \in Seq(S), NEW c, Comparing(c, DOMAIN s),
           NEW r, r = [n \in DOMAIN s |-> s[Ranked(DOMAIN s, Stable(c, DOMAIN s))[n]]]
    PROVE  /\ Arranges(r, s, S, c)
           /\ (\A i, j \in DOMAIN s : i < j => c[<<i, j>>] <= 0) => r = s
<1> DEFINE n == Len(s)
           D == DOMAIN s
           at == Ranked(D, Stable(c, D))
<1>1. n \in Nat /\ D = 1..n /\ D \in SUBSET Int /\ IsFiniteSet(D) /\ Cardinality(D) = n /\ \A i \in D : s[i] \in S
  <2>1. n \in Nat /\ D = 1..n /\ \A i \in D : s[i] \in S
    OBVIOUS
  <2> HIDE DEF n, D
  <2>2. IsFiniteSet(D) /\ Cardinality(D) = n
    BY <2>1, FS_Interval
  <2> QED BY <2>1, <2>2
<1>2. r = [k \in D |-> s[at[k]]]
  OBVIOUS
<1> HIDE DEF n, at
<1>3. InOrder(at, D, Stable(c, D)) /\ Orders(Stable(c, D), D)
  BY <1>1, StableOrders, RankedIs DEF at
<1> HIDE DEF D
<1>4. /\ at \in [D -> D] /\ \A x \in D : \E i \in D : at[i] = x
      /\ \A i, j \in D : i < j => <<at[i], at[j]>> \in Stable(c, D)
  BY <1>1, <1>3 DEF InOrder
<1>5. r \in [1..n -> S]
  BY <1>1, <1>2, <1>4
<1>6. r \in Seq(S) /\ Len(r) = n
  BY <1>1, <1>5
<1>7. \A i, j \in D : i < j => at[i] # at[j] /\ c[<<at[i], at[j]>>] <= 0
  <2> TAKE i, j \in D
  <2> HAVE i < j
  <2>1. <<at[i], at[j]>> \in Stable(c, D) /\ at[i] \in D /\ at[j] \in D
    BY <1>4
  <2>2. at[i] # at[j]
    BY <1>3, <2>1 DEF Orders
  <2>3. c[<<at[i], at[j]>>] \in {-1, 0, 1}
    BY <2>1 DEF Comparing, D
  <2>4. c[<<at[i], at[j]>>] < 0 \/ c[<<at[i], at[j]>>] = 0
    BY <2>1 DEF Stable
  <2> QED BY <2>2, <2>3, <2>4
<1>8. ASSUME \A i, j \in D : i < j => c[<<i, j>>] <= 0 PROVE r = s
  <2> DEFINE id == [k \in 1..n |-> k]
  <2>1. id \in [1..n -> D] /\ \A x \in D : \E i \in 1..n : id[i] = x
    BY <1>1
  <2>2. ASSUME NEW i \in 1..n, NEW j \in 1..n, i < j PROVE <<id[i], id[j]>> \in Stable(c, D)
    <3>1. <<i, j>> \in D \X D /\ c[<<i, j>>] \in {-1, 0, 1} /\ c[<<i, j>>] <= 0
      BY <1>1, <1>8, <2>2 DEF Comparing, D
    <3>2. c[<<i, j>>] < 0 \/ c[<<i, j>>] = 0
      BY <3>1
    <3> QED BY <2>2, <3>1, <3>2 DEF Stable
  <2> HIDE DEF id
  <2>3. at = id
    <3>1. \A i, j \in 1..n : i < j => <<id[i], id[j]>> \in Stable(c, D)
      BY <2>2
    <3>2. InOrder(id, D, Stable(c, D))
      BY <1>1, <2>1, <3>1 DEF InOrder
    <3> QED BY <1>1, <1>3, <3>2, OneOrder
  <2>4. \A k \in 1..n : r[k] = s[k]
    BY <1>1, <1>2, <2>3 DEF id
  <2> QED BY <1>1, <1>5, <2>4
<1>9. at \in [D -> D] /\ \A k \in D : r[k] = s[at[k]]
  BY <1>2, <1>4
<1> QED BY <1>4, <1>6, <1>7, <1>8, <1>9 DEF D, n, Arranges

\* Comparing texts, one cannot go around.
LEMMA CompareTurns ==
    ASSUME NEW a \in Seq(Int), NEW b \in Seq(Int)
    PROVE  /\ CompareSeq(a, b) \in {-1, 0, 1} /\ CompareSeq(a, a) = 0
           /\ CompareSeq(b, a) = -CompareSeq(a, b)
<1>1. CompareSeq(a, b) \in {-1, 0, 1} /\ CompareSeq(b, a) \in {-1, 0, 1} /\ CompareSeq(a, a) = 0
  BY Compared
<1>2. /\ CompareSeq(a, b) = 0 <=> CompareSeq(b, a) = 0
      /\ CompareSeq(a, b) = -1 <=> CompareSeq(b, a) = 1
      /\ CompareSeq(a, b) = 1 <=> CompareSeq(b, a) = -1
  BY Compared
<1> QED BY <1>1, <1>2

\* Comparing goes on, and who is as low as the last of three is as low as the middle one.
LEMMA CompareGoesOn ==
    ASSUME NEW a \in Seq(Int), NEW b \in Seq(Int), NEW c \in Seq(Int),
           CompareSeq(a, b) <= 0, CompareSeq(b, c) <= 0
    PROVE  CompareSeq(a, c) <= 0 /\ (CompareSeq(a, c) = 0 => CompareSeq(a, b) = 0)
<1>1. /\ CompareSeq(a, b) \in {-1, 0, 1} /\ CompareSeq(b, c) \in {-1, 0, 1}
      /\ CompareSeq(a, b) = 0 <=> a = b
      /\ CompareSeq(b, c) = 0 <=> b = c
      /\ CompareSeq(a, b) = -1 <=> Lesser(a, b)
      /\ CompareSeq(b, c) = -1 <=> Lesser(b, c)
  BY Compared
<1>2. (a = b \/ Lesser(a, b)) /\ (b = c \/ Lesser(b, c))
  BY <1>1
<1>3. CompareSeq(a, c) \in {-1, 0, 1} /\ (CompareSeq(a, c) = 0 <=> a = c) /\ (CompareSeq(a, c) = -1 <=> Lesser(a, c))
  BY Compared
<1>4. CASE a = b
  BY <1>1, <1>4
<1>5. CASE Lesser(a, b)
  <2>1. Lesser(a, c)
    BY <1>2, <1>5, UnderTransitive
  <2>2. a # c
    BY <2>1, UnderStrict
  <2> QED BY <1>3, <2>1, <2>2
<1> QED BY <1>2, <1>4, <1>5

\* The fields an account may be sorted by.
SortField == TextField \cup FlagField \cup TimeField

\* Lower case is a text of the same length.
LEMMA LowerIsText ==
    ASSUME NEW s \in Seq(Int)
    PROVE  Lower(s) \in Seq(Int) /\ Len(Lower(s)) = Len(s)
<1>1. Len(s) \in Nat /\ DOMAIN s = 1..Len(s) /\ \A i \in 1..Len(s) : s[i] \in Int
  OBVIOUS
<1>2. Lower(s) = [i \in 1..Len(s) |-> IF s[i] > Capital THEN s[i] - Capital ELSE s[i]]
  BY <1>1 DEF Lower
<1>3. \A i \in 1..Len(s) : (IF s[i] > Capital THEN s[i] - Capital ELSE s[i]) \in Int
  BY <1>1 DEF Capital
<1> QED BY <1>1, <1>2, <1>3

\* A field of an account, as it is compared.
Key(field, u) == IF field \in TextField THEN Lower(u[field])
                 ELSE IF field \in FlagField THEN <<bool2int(u[field])>> ELSE u[field]

\* What is compared of an account is a text.
LEMMA KeyIsText ==
    ASSUME NEW field \in SortField, NEW u \in Accounts
    PROVE  Key(field, u) \in Seq(Int)
<1>1. CASE field \in TextField
  BY <1>1, UsersAssumption, LowerIsText DEF Key
<1>2. CASE field \notin TextField /\ field \in FlagField
  <2>1. bool2int(u[field]) \in Int
    BY DEF bool2int
  <2> QED BY <1>2, <2>1 DEF Key
<1>3. CASE field \notin TextField /\ field \notin FlagField
  <2>1. u[field] \in Int \X Int
    BY <1>3, UsersAssumption DEF SortField
  <2>2. PICK x \in Int, y \in Int : u[field] = <<x, y>>
    BY <2>1
  <2> QED BY <1>3, <2>2 DEF Key
<1> QED BY <1>1, <1>2, <1>3

\* Accounts are compared by their keys.
LEMMA ByKey ==
    ASSUME NEW field \in SortField, NEW u \in Accounts, NEW v \in Accounts
    PROVE  SortUsersBy(field, u, v) = CompareSeq(Key(field, u), Key(field, v))
<1>1. TextField \cap FlagField = {} /\ TextField \cap TimeField = {} /\ FlagField \cap TimeField = {}
  BY DEF TextField, FlagField, TimeField
<1>2. CASE field \in TextField
  BY <1>1, <1>2 DEF SortUsersBy, Key
<1>3. CASE field \in FlagField
  <2> PICK x, y : x = bool2int(u[field]) /\ y = bool2int(v[field])
    OBVIOUS
  <2>1. x \in {0, 1} /\ y \in {0, 1}
    BY DEF bool2int
  <2>2. SortUsersBy(field, u, v) = Sign(x - y)
    BY <1>1, <1>3 DEF SortUsersBy
  <2>3. Key(field, u) = <<x>> /\ Key(field, v) = <<y>>
    BY <1>1, <1>3 DEF Key
  <2>4. <<x>> \in Seq(Int) /\ <<y>> \in Seq(Int)
    BY <2>1
  <2>5. x < y => Under(<<x>>, <<y>>, 1)
    BY <2>1 DEF Under
  <2>6. y < x => Under(<<y>>, <<x>>, 1)
    BY <2>1 DEF Under
  <2>7. /\ x = y => CompareSeq(<<x>>, <<y>>) = 0
        /\ x < y => CompareSeq(<<x>>, <<y>>) = -1
        /\ y < x => CompareSeq(<<x>>, <<y>>) = 1
    BY <2>4, <2>5, <2>6, Compared DEF Lesser
  <2>8. (x = y => Sign(x - y) = 0) /\ (x < y => Sign(x - y) = -1) /\ (y < x => Sign(x - y) = 1)
    BY <2>1 DEF Sign
  <2>9. x = y \/ x < y \/ y < x
    BY <2>1
  <2> QED BY <2>2, <2>3, <2>7, <2>8, <2>9
<1>4. CASE field \in TimeField
  BY <1>1, <1>4 DEF SortUsersBy, Key
<1> QED BY <1>2, <1>3, <1>4 DEF SortField

\* The comparison of a list's accounts, by their places.
ByPlace(users, field) ==
    [p \in (DOMAIN users) \X (DOMAIN users) |-> SortUsersBy(field, users[p[1]], users[p[2]])]

\* Accounts compared by their places are compared as StableOrders needs it.
LEMMA PlacesCompare ==
    ASSUME NEW field \in SortField, NEW users \in Seq(Accounts)
    PROVE  Comparing(ByPlace(users, field), DOMAIN users)
<1> DEFINE D == DOMAIN users
           c == ByPlace(users, field)
           K(i) == Key(field, users[i])
<1>1. \A i \in D : users[i] \in Accounts
  OBVIOUS
<1>2. \A i \in D : K(i) \in Seq(Int)
  BY <1>1, KeyIsText
<1>3. ASSUME NEW i \in D, NEW j \in D PROVE c[<<i, j>>] = CompareSeq(K(i), K(j))
  <2>1. <<i, j>> \in D \X D
    OBVIOUS
  <2>2. c[<<i, j>>] = SortUsersBy(field, users[i], users[j])
    BY <2>1 DEF ByPlace
  <2> QED BY <1>1, <2>2, ByKey
<1>4. c = [p \in D \X D |-> c[p]]
  BY DEF ByPlace
<1> HIDE DEF c, D, K
<1>5. ASSUME NEW p \in D \X D PROVE c[p] \in {-1, 0, 1}
  <2>1. PICK i \in D, j \in D : p = <<i, j>>
    OBVIOUS
  <2>2. c[<<i, j>>] \in {-1, 0, 1}
    BY <1>2, <1>3, CompareTurns
  <2> QED BY <2>1, <2>2
<1>6. c \in [D \X D -> {-1, 0, 1}]
  BY <1>4, <1>5
<1>7. \A x \in D : c[<<x, x>>] = 0
  BY <1>2, <1>3, CompareTurns
<1>8. ASSUME NEW x \in D, NEW y \in D PROVE c[<<y, x>>] = -c[<<x, y>>]
  BY <1>2, <1>3, CompareTurns
<1>9. ASSUME NEW x \in D, NEW y \in D, NEW z \in D, c[<<x, y>>] <= 0, c[<<y, z>>] <= 0
      PROVE  c[<<x, z>>] <= 0 /\ (c[<<x, z>>] = 0 => c[<<x, y>>] = 0)
  BY <1>2, <1>3, <1>9, CompareGoesOn
<1> QED BY <1>6, <1>7, <1>8, <1>9 DEF Comparing, D, c

-----------------------------------------------------------------------------
(* The answer to a request for accounts.                                   *)

\* s has every element of a set once.
Lists(s, W) ==
    /\ s \in Seq(W)
    /\ \A x \in W : \E i \in DOMAIN s : s[i] = x
    /\ \A i, j \in DOMAIN s : i # j => s[i] # s[j]

\* A sequence that lists a set has as many elements as the set, and no others.
LEMMA ListsAll ==
    ASSUME NEW W, NEW s, Lists(s, W)
    PROVE  IsFiniteSet(W) /\ Cardinality(W) = Len(s) /\ ToSet(s) = W
<1> DEFINE n == Len(s)
<1>1. n \in Nat /\ DOMAIN s = 1..n /\ s \in [1..n -> W] /\ \A i \in 1..n : s[i] \in W
  BY DEF Lists
<1> HIDE DEF n
<1>2. s \in Bijection(1..n, W)
  <2>1. s \in Injection(1..n, W)
    BY <1>1 DEF Lists, Injection, IsInjective
  <2>2. s \in Surjection(1..n, W)
    BY <1>1 DEF Lists, Surjection
  <2> QED BY <2>1, <2>2 DEF Bijection
<1>3. ExistsBijection(1..n, W)
  BY <1>2 DEF ExistsBijection
<1>4. IsFiniteSet(W) /\ Cardinality(W) = n
  BY <1>1, <1>3, FS_CountingElements, FS_NatBijection
<1>5. ToSet(s) = W
  BY <1>1 DEF Lists, ToSet
<1> QED BY <1>4, <1>5 DEF n

\* Turned round it lists the same, from the other end.
LEMMA ReverseLists ==
    ASSUME NEW W, NEW s, Lists(s, W)
    PROVE  /\ Lists(Reverse(s), W) /\ Len(Reverse(s)) = Len(s) /\ DOMAIN Reverse(s) = DOMAIN s
           /\ \A i \in DOMAIN s : Len(s) - i + 1 \in DOMAIN s /\ Reverse(s)[i] = s[Len(s) - i + 1]
<1> DEFINE n == Len(s)
           r == Reverse(s)
<1>1. n \in Nat /\ DOMAIN s = 1..n /\ s \in Seq(W) /\ \A i \in 1..n : s[i] \in W
  BY DEF Lists
<1>2. r = [i \in 1..n |-> s[(n - i) + 1]]
  BY DEF Reverse
<1> HIDE DEF n, r
<1>3. \A i \in 1..n : (n - i) + 1 \in 1..n /\ (n - ((n - i) + 1)) + 1 = i
  BY <1>1
<1>4. r \in [1..n -> W]
  BY <1>1, <1>2, <1>3
<1>5. r \in Seq(W) /\ Len(r) = n /\ DOMAIN r = 1..n
  BY <1>1, <1>4
<1>6. ASSUME NEW x \in W PROVE \E i \in DOMAIN r : r[i] = x
  <2>1. PICK j \in 1..n : s[j] = x
    BY <1>1 DEF Lists
  <2>2. r[(n - j) + 1] = x
    BY <1>2, <1>3, <2>1
  <2> QED BY <1>3, <1>5, <2>2
<1>7. ASSUME NEW i \in DOMAIN r, NEW j \in DOMAIN r, i # j PROVE r[i] # r[j]
  <2>1. i \in 1..n /\ j \in 1..n /\ (n - i) + 1 # (n - j) + 1
    BY <1>1, <1>5, <1>7
  <2>2. (n - i) + 1 \in DOMAIN s /\ (n - j) + 1 \in DOMAIN s
    BY <1>1, <1>3, <2>1
  <2>3. s[(n - i) + 1] # s[(n - j) + 1]
    BY <2>1, <2>2 DEF Lists
  <2> QED BY <1>2, <2>1, <2>3
<1>8. Lists(r, W)
  BY <1>5, <1>6, <1>7 DEF Lists
<1>9. \A i \in DOMAIN s : n - i + 1 \in DOMAIN s /\ r[i] = s[n - i + 1]
  BY <1>1, <1>2, <1>3
<1> QED BY <1>1, <1>5, <1>8, <1>9 DEF n, r

\* Accounts in the order of a field.
Ascends(s, field, up) ==
    \A i, j \in DOMAIN s : i < j =>
        IF up THEN SortUsersBy(field, s[i], s[j]) <= 0 ELSE SortUsersBy(field, s[i], s[j]) >= 0

\* Two accounts are compared either way.
LEMMA OtherWay ==
    ASSUME NEW field \in SortField, NEW u \in Accounts, NEW v \in Accounts
    PROVE  /\ SortUsersBy(field, u, v) \in {-1, 0, 1}
           /\ SortUsersBy(field, v, u) = -SortUsersBy(field, u, v)
<1>1. Key(field, u) \in Seq(Int) /\ Key(field, v) \in Seq(Int)
  BY KeyIsText
<1>2. /\ SortUsersBy(field, u, v) = CompareSeq(Key(field, u), Key(field, v))
      /\ SortUsersBy(field, v, u) = CompareSeq(Key(field, v), Key(field, u))
  BY ByKey
<1> QED BY <1>1, <1>2, CompareTurns

\* An ascending list of accounts turned round descends.
LEMMA ReverseAscends ==
    ASSUME NEW field \in SortField, NEW W \in SUBSET Accounts, NEW s, Lists(s, W), Ascends(s, field, TRUE)
    PROVE  Ascends(Reverse(s), field, FALSE)
<1> DEFINE n == Len(s)
<1>1. n \in Nat /\ DOMAIN s = 1..n /\ \A i \in 1..n : s[i] \in Accounts
  BY DEF Lists
<1>2. DOMAIN Reverse(s) = 1..n /\ \A i \in 1..n : n - i + 1 \in 1..n /\ Reverse(s)[i] = s[n - i + 1]
  BY <1>1, ReverseLists
<1> HIDE DEF n
<1>3. ASSUME NEW i \in 1..n, NEW j \in 1..n, i < j
      PROVE  SortUsersBy(field, Reverse(s)[i], Reverse(s)[j]) >= 0
  <2> PICK a, b : a = n - i + 1 /\ b = n - j + 1
    OBVIOUS
  <2>1. a \in 1..n /\ b \in 1..n /\ b < a /\ Reverse(s)[i] = s[a] /\ Reverse(s)[j] = s[b]
    BY <1>1, <1>2, <1>3
  <2>2. SortUsersBy(field, s[b], s[a]) <= 0
    BY <1>1, <2>1 DEF Ascends
  <2>3. s[a] \in Accounts /\ s[b] \in Accounts
    BY <1>1, <2>1
  <2> PICK d, e : d = SortUsersBy(field, s[b], s[a]) /\ e = SortUsersBy(field, s[a], s[b])
    OBVIOUS
  <2>4. d \in {-1, 0, 1} /\ e = -d
    BY <2>3, OtherWay
  <2> QED BY <2>1, <2>2, <2>4
<1> QED BY <1>2, <1>3 DEF Ascends

\* Sort keeps all accounts, puts them in order, and leaves those alone that are (usercache.go:636).
LEMMA SortIs ==
    ASSUME NEW field \in SortField, NEW W \in SUBSET Accounts, NEW users, Lists(users, W)
    PROVE  /\ Lists(Sort(users, field, TRUE), W)
           /\ Ascends(Sort(users, field, TRUE), field, TRUE)
           /\ Ascends(users, field, TRUE) => Sort(users, field, TRUE) = users
           /\ Sort(users, field, FALSE) = Reverse(Sort(users, field, TRUE))
<1> DEFINE D == DOMAIN users
           c == ByPlace(users, field)
           up == Sort(users, field, TRUE)
<1>1. users \in Seq(W) /\ users \in Seq(Accounts) /\ \A i \in D : users[i] \in W
  BY DEF Lists
<1>2. Comparing(c, D)
  BY <1>1, PlacesCompare
<1>3. \A p \in D \X D : c[p] = SortUsersBy(field, users[p[1]], users[p[2]])
  BY DEF ByPlace
<1>4. up = [n \in D |-> users[Ranked(D, Stable(c, D))[n]]]
  <2> DEFINE b == {p \in D \X D : \/ SortUsersBy(field, users[p[1]], users[p[2]]) < 0
                                  \/ SortUsersBy(field, users[p[1]], users[p[2]]) = 0 /\ p[1] < p[2]}
  <2>1. up = [n \in D |-> users[Ranked(D, b)[n]]]
    BY DEF Sort, Sorted
  <2> HIDE DEF D, c
  <2>2. b = Stable(c, D)
    BY <1>3 DEF Stable
  <2> QED BY <2>1, <2>2
<1> HIDE DEF c, up
<1>5. /\ up \in Seq(W) /\ Len(up) = Len(users)
      /\ \E at \in [D -> D] :
            /\ \A n \in D : up[n] = users[at[n]]
            /\ \A k \in D : \E n \in D : at[n] = k
            /\ \A i, j \in D : i < j => at[i] # at[j] /\ c[<<at[i], at[j]>>] <= 0
      /\ (\A i, j \in D : i < j => c[<<i, j>>] <= 0) => up = users
  <2> USE DEF D
  <2>1. Arranges(up, users, W, c)
    BY <1>1, <1>2, <1>4, StableSort
  <2>2. (\A i, j \in D : i < j => c[<<i, j>>] <= 0) => up = users
    BY <1>1, <1>2, <1>4, StableSort
  <2> QED BY <2>1, <2>2 DEF Arranges
<1>6. PICK at \in [D -> D] :
            /\ \A n \in D : up[n] = users[at[n]]
            /\ \A k \in D : \E n \in D : at[n] = k
            /\ \A i, j \in D : i < j => at[i] # at[j] /\ c[<<at[i], at[j]>>] <= 0
  BY <1>5
<1>7. DOMAIN up = D /\ D \in SUBSET Int
  BY <1>1, <1>5
<1> HIDE DEF D
<1>8. ASSUME NEW x \in W PROVE \E i \in DOMAIN up : up[i] = x
  <2>1. PICK k \in D : users[k] = x
    BY DEF Lists, D
  <2>2. PICK n \in D : at[n] = k
    BY <1>6
  <2> QED BY <1>6, <1>7, <2>1, <2>2
<1>9. ASSUME NEW i \in D, NEW j \in D, i # j PROVE up[i] # up[j]
  <2>1. at[i] \in D /\ at[j] \in D /\ at[i] # at[j]
    <3>1. i < j \/ j < i
      BY <1>7, <1>9
    <3> QED BY <1>6, <3>1
  <2>2. users[at[i]] # users[at[j]]
    BY <2>1 DEF Lists, D
  <2> QED BY <1>6, <2>2
<1>10. Lists(up, W)
  BY <1>5, <1>7, <1>8, <1>9 DEF Lists
<1>11. Ascends(up, field, TRUE)
  <2> SUFFICES ASSUME NEW i \in D, NEW j \in D, i < j PROVE SortUsersBy(field, up[i], up[j]) <= 0
    BY <1>7 DEF Ascends
  <2>1. at[i] \in D /\ at[j] \in D /\ c[<<at[i], at[j]>>] <= 0 /\ <<at[i], at[j]>> \in D \X D
    BY <1>6
  <2>2. c[<<at[i], at[j]>>] = SortUsersBy(field, users[at[i]], users[at[j]])
    BY <1>3, <2>1
  <2> QED BY <1>6, <2>1, <2>2
<1>12. ASSUME Ascends(users, field, TRUE) PROVE up = users
  <2>1. ASSUME NEW i \in D, NEW j \in D, i < j PROVE c[<<i, j>>] <= 0
    <3>1. <<i, j>> \in D \X D
      OBVIOUS
    <3>2. SortUsersBy(field, users[i], users[j]) <= 0
      BY <1>12, <2>1 DEF Ascends, D
    <3> QED BY <1>3, <3>1, <3>2
  <2> QED BY <1>5, <2>1
<1>13. Sort(users, field, FALSE) = Reverse(up)
  BY DEF Sort, up
<1> QED BY <1>10, <1>11, <1>12, <1>13 DEF up

\* Without ties there is one order only.
LEMMA OneListing ==
    ASSUME NEW field \in SortField, NEW up \in BOOLEAN, NEW W \in SUBSET Accounts,
           \A u, v \in W : u # v => SortUsersBy(field, u, v) # 0,
           NEW s, Lists(s, W), Ascends(s, field, up), NEW t, Lists(t, W), Ascends(t, field, up)
    PROVE  s = t
<1> DEFINE c(u, v) == IF up THEN SortUsersBy(field, u, v) ELSE SortUsersBy(field, v, u)
           before == {p \in W \X W : c(p[1], p[2]) < 0}
<1>1. IsFiniteSet(W) /\ Cardinality(W) = Len(s) /\ Cardinality(W) = Len(t)
  BY ListsAll
<1>2. \A u, v \in W : /\ c(u, v) \in {-1, 0, 1} /\ c(v, u) = -c(u, v)
                      /\ u # v => c(u, v) # 0
  BY OtherWay
<1>3. ASSUME NEW u \in W PROVE c(u, u) = 0
  <2>1. Key(field, u) \in Seq(Int)
    BY KeyIsText
  <2> QED BY <2>1, ByKey, CompareTurns
<1>4. ASSUME NEW u \in W, NEW v \in W, NEW w \in W, c(u, v) < 0, c(v, w) < 0 PROVE c(u, w) < 0
  <2> DEFINE k(x) == Key(field, x)
  <2>1. k(u) \in Seq(Int) /\ k(v) \in Seq(Int) /\ k(w) \in Seq(Int)
    BY KeyIsText
  <2>2. \A x, y \in W : c(x, y) = IF up THEN CompareSeq(k(x), k(y)) ELSE CompareSeq(k(y), k(x))
    BY ByKey
  <2> HIDE DEF k, c
  <2>3. c(u, w) \in {-1, 0, 1} /\ c(u, v) \in {-1, 0, 1} /\ c(v, w) \in {-1, 0, 1}
    BY <1>2
  <2>4. CASE up
    <3>1. CompareSeq(k(u), k(v)) <= 0 /\ CompareSeq(k(v), k(w)) <= 0
      BY <1>4, <2>2, <2>3, <2>4
    <3>2. CompareSeq(k(u), k(w)) <= 0 /\ (CompareSeq(k(u), k(w)) = 0 => CompareSeq(k(u), k(v)) = 0)
      BY <2>1, <3>1, CompareGoesOn
    <3> QED BY <1>4, <2>2, <2>3, <2>4, <3>2
  <2>5. CASE ~up
    <3>1. CompareSeq(k(w), k(v)) <= 0 /\ CompareSeq(k(v), k(u)) <= 0
      BY <1>4, <2>2, <2>3, <2>5
    <3>2. CompareSeq(k(w), k(u)) <= 0 /\ (CompareSeq(k(w), k(u)) = 0 => CompareSeq(k(w), k(v)) = 0)
      BY <2>1, <3>1, CompareGoesOn
    <3> QED BY <1>4, <2>2, <2>3, <2>5, <3>2
  <2> QED BY <2>4, <2>5
<1>5. \A u, v \in W : <<u, v>> \in before <=> c(u, v) < 0
  OBVIOUS
<1>6. ASSUME NEW r, Lists(r, W), Ascends(r, field, up), Cardinality(W) = Len(r)
      PROVE  InOrder(r, W, before)
  <2>1. r \in [1..Cardinality(W) -> W] /\ \A x \in W : \E i \in DOMAIN r : r[i] = x
    BY <1>6 DEF Lists
  <2>2. ASSUME NEW i \in DOMAIN r, NEW j \in DOMAIN r, i < j PROVE <<r[i], r[j]>> \in before
    <3>1. r[i] \in W /\ r[j] \in W /\ r[i] # r[j]
      <4>1. i # j
        BY <1>6, <2>2 DEF Lists
      <4> QED BY <1>6, <2>1, <4>1 DEF Lists
    <3>2. IF up THEN SortUsersBy(field, r[i], r[j]) <= 0 ELSE SortUsersBy(field, r[i], r[j]) >= 0
      BY <1>6, <2>2 DEF Ascends
    <3>3. /\ SortUsersBy(field, r[i], r[j]) \in {-1, 0, 1}
          /\ SortUsersBy(field, r[j], r[i]) = -SortUsersBy(field, r[i], r[j])
      BY <3>1, OtherWay
    <3>4. c(r[i], r[j]) <= 0
      BY <3>2, <3>3
    <3>5. c(r[i], r[j]) \in {-1, 0, 1} /\ c(r[i], r[j]) # 0
      BY <1>2, <3>1
    <3> HIDE DEF c, before
    <3>6. c(r[i], r[j]) < 0
      BY <3>4, <3>5
    <3> QED BY <1>5, <3>1, <3>6
  <2> HIDE DEF before
  <2> QED BY <2>1, <2>2 DEF InOrder
<1> HIDE DEF c, before
<1>7. Orders(before, W)
  <2>1. \A x \in W : <<x, x>> \notin before
    BY <1>3, <1>5
  <2>2. ASSUME NEW x \in W, NEW y \in W, x # y PROVE <<x, y>> \in before \/ <<y, x>> \in before
    <3> PICK d, e : d = c(x, y) /\ e = c(y, x)
      OBVIOUS
    <3>1. d \in {-1, 0, 1} /\ e = -d /\ d # 0
      BY <1>2, <2>2
    <3>2. d < 0 \/ e < 0
      BY <3>1
    <3> QED BY <1>5, <3>2
  <2>3. \A x, y, z \in W : <<x, y>> \in before /\ <<y, z>> \in before => <<x, z>> \in before
    BY <1>4, <1>5
  <2> QED BY <2>1, <2>2, <2>3 DEF Orders
<1>8. InOrder(s, W, before) /\ InOrder(t, W, before)
  BY <1>1, <1>6
<1> QED BY <1>1, <1>7, <1>8, OneOrder

-----------------------------------------------------------------------------
(* The parts of a page.                                                    *)

\* A request's accounts.
AllWanted(req) == {u \in Accounts : Wanted(u, req)}

\* Ids have small letters only, so that an account is found by what it has.
LEMMA MatchesWanted ==
    ASSUME NEW u \in Accounts, NEW req
    PROVE  Wanted(u, req) <=> ((\A t \in req.terms : MatchesSearch(u, t)) /\ (\A q \in req.queries : AsFilter(q, u)))
<1>1. Lower(u.id) = u.id
  <2>1. u.id \in Seq(Int) /\ \A i \in DOMAIN u.id : u.id[i] <= Capital
    BY UsersAssumption DEF TextField
  <2> QED BY <2>1 DEF Lower, Capital
<1>2. ASSUME NEW t
      PROVE  MatchesSearch(u, t) <=> \E f \in SearchField \cup {"id"} : Includes(Lower(u[f]), t)
  <2>1. Includes(u.id, t) <=> Includes(Lower(u["id"]), t)
    BY <1>1
  <2> QED BY <2>1 DEF MatchesSearch
<1> QED BY <1>2 DEF Wanted

\* Filter keeps the accounts a request is for, in the order they have (usercache.go:680).
LEMMA FilterIs ==
    ASSUME NEW req, NEW users, Lists(users, Accounts), NEW field
    PROVE  /\ Lists(Filter(users, req.terms, req.queries), AllWanted(req))
           /\ Ascends(users, field, TRUE) => Ascends(Filter(users, req.terms, req.queries), field, TRUE)
<1> DEFINE W == AllWanted(req)
           set == {u \in ToSet(users) : /\ \A t \in req.terms : MatchesSearch(u, t)
                                        /\ \A q \in req.queries : AsFilter(q, u)}
           kept == Filter(users, req.terms, req.queries)
<1>1. users \in Seq(Accounts) /\ ToSet(users) = Accounts /\ \A i \in DOMAIN users : users[i] \in Accounts
  BY ListsAll DEF Lists
<1>2. set = W
  BY <1>1, MatchesWanted DEF AllWanted
<1>3. kept = Within(users, W)
  BY <1>2 DEF Filter
<1> HIDE DEF set, kept
<1>4. kept \in Seq(Accounts) /\ \E at : Chosen(users, W, Len(users), kept, at)
  BY <1>1, <1>3, WithinIs
<1>5. PICK at : Chosen(users, W, Len(users), kept, at)
  BY <1>4
<1>6. W \in SUBSET Accounts
  BY DEF AllWanted
<1> HIDE DEF W
<1>7. DOMAIN users = 1..Len(users) /\ Len(users) \in Nat /\ DOMAIN kept = 1..Len(kept) /\ Len(kept) \in Nat
  BY <1>1, <1>4
<1>8. /\ at \in [DOMAIN kept -> DOMAIN users]
      /\ \A i \in DOMAIN kept : kept[i] = users[at[i]] /\ kept[i] \in W
      /\ \A i, j \in DOMAIN kept : i < j => at[i] < at[j]
      /\ \A a \in DOMAIN users : users[a] \in W => \E i \in DOMAIN kept : at[i] = a
  BY <1>5, <1>7 DEF Chosen
<1>9. kept \in Seq(W)
  BY <1>4, <1>8
<1>10. ASSUME NEW x \in W PROVE \E i \in DOMAIN kept : kept[i] = x
  <2>1. PICK a \in DOMAIN users : users[a] = x
    BY <1>6 DEF Lists
  <2> QED BY <1>8, <2>1
<1>11. ASSUME NEW i \in DOMAIN kept, NEW j \in DOMAIN kept, i < j PROVE kept[i] # kept[j]
  <2>1. at[i] \in DOMAIN users /\ at[j] \in DOMAIN users /\ at[i] < at[j]
    BY <1>8, <1>11
  <2>2. at[i] # at[j]
    BY <1>7, <2>1
  <2> QED BY <1>8, <2>1, <2>2 DEF Lists
<1>12. \A i, j \in DOMAIN kept : i # j => kept[i] # kept[j]
  <2> TAKE i, j \in DOMAIN kept
  <2>1. i # j => i < j \/ j < i
    BY <1>7
  <2> QED BY <1>11, <2>1
<1>13. Lists(kept, W)
  BY <1>9, <1>10, <1>12 DEF Lists
<1>14. ASSUME Ascends(users, field, TRUE) PROVE Ascends(kept, field, TRUE)
  <2> SUFFICES ASSUME NEW i \in DOMAIN kept, NEW j \in DOMAIN kept, i < j
               PROVE  SortUsersBy(field, kept[i], kept[j]) <= 0
    BY DEF Ascends
  <2>1. at[i] \in DOMAIN users /\ at[j] \in DOMAIN users /\ at[i] < at[j]
    BY <1>8
  <2> QED BY <1>8, <1>14, <2>1 DEF Ascends
<1> QED BY <1>13, <1>14 DEF kept, W

\* What a request is answered from, before it is cut into parts (api-users.go:1105).
Answer(cache, req) ==
    LET byName   == req.field = NameField
        dtos     == GetUserDTOs(cache, byName).list
        filtered == Filter(dtos, req.terms, req.queries)
    IN  IF ~byName THEN Sort(filtered, req.field, req.ascending)
        ELSE IF req.ascending THEN filtered ELSE Reverse(filtered)

\* A cache is as it is said to be.
Cached(cache) ==
    /\ Lists(cache.list, Accounts)
    /\ cache.sorted \in BOOLEAN
    /\ cache.sorted => Ascends(cache.list, NameField, TRUE)

\* A request makes of a cache what depends on the list alone.
LEMMA CachedFrom ==
    ASSUME NEW cache, Cached(cache), NEW sorted \in BOOLEAN
    PROVE  /\ Cached(GetUserDTOs(cache, sorted))
           /\ GetUserDTOs(cache, sorted).list = IF sorted THEN Sort(cache.list, NameField, TRUE) ELSE cache.list
           /\ GetUserDTOs(GetUserDTOs(cache, sorted), sorted) = GetUserDTOs(cache, sorted)
           /\ sorted => Ascends(GetUserDTOs(cache, sorted).list, NameField, TRUE)
<1>1. NameField \in SortField /\ Accounts \in SUBSET Accounts
  BY DEF NameField, SortField, TextField
<1>2. Lists(cache.list, Accounts) /\ cache.sorted \in BOOLEAN
  BY DEF Cached
<1>3. /\ Lists(Sort(cache.list, NameField, TRUE), Accounts)
      /\ Ascends(Sort(cache.list, NameField, TRUE), NameField, TRUE)
      /\ Ascends(cache.list, NameField, TRUE) => Sort(cache.list, NameField, TRUE) = cache.list
  BY <1>1, <1>2, SortIs
<1>4. CASE sorted /\ ~cache.sorted
  <2>1. GetUserDTOs(cache, sorted) = [list |-> Sort(cache.list, NameField, TRUE), sorted |-> TRUE]
    BY <1>4 DEF GetUserDTOs
  <2>2. GetUserDTOs(GetUserDTOs(cache, sorted), sorted) = GetUserDTOs(cache, sorted)
    BY <2>1 DEF GetUserDTOs
  <2>3. Cached(GetUserDTOs(cache, sorted))
    <3> PICK l : l = Sort(cache.list, NameField, TRUE)
      OBVIOUS
    <3> PICK after : after = GetUserDTOs(cache, sorted)
      OBVIOUS
    <3>1. after = [list |-> l, sorted |-> TRUE] /\ Lists(l, Accounts) /\ Ascends(l, NameField, TRUE)
      BY <1>3, <2>1
    <3>2. after.list = l
      BY <3>1
    <3>3. after.sorted = TRUE
      BY <3>1
    <3>4. Cached(after)
      BY <3>1, <3>2, <3>3, Zenon DEF Cached
    <3> QED BY <3>4
  <2>4. GetUserDTOs(cache, sorted).list = Sort(cache.list, NameField, TRUE)
    BY <2>1
  <2> QED BY <1>3, <1>4, <2>2, <2>3, <2>4
<1>5. CASE sorted /\ cache.sorted
  <2>1. GetUserDTOs(cache, sorted) = cache /\ Ascends(cache.list, NameField, TRUE)
    BY <1>5 DEF GetUserDTOs, Cached
  <2> QED BY <1>3, <1>5, <2>1
<1>6. CASE ~sorted
  <2>1. GetUserDTOs(cache, sorted) = cache
    BY <1>6 DEF GetUserDTOs
  <2> QED BY <1>6, <2>1
<1> QED BY <1>2, <1>4, <1>5, <1>6

\* A request is answered with all the accounts it is for, once and in its order.
LEMMA AnswerLists ==
    ASSUME NEW cache, Cached(cache), NEW req \in UserRequests
    PROVE  Lists(Answer(cache, req), AllWanted(req)) /\ Ascends(Answer(cache, req), req.field, req.ascending)
<1> DEFINE W == AllWanted(req)
           byName == req.field = NameField
           dtos == GetUserDTOs(cache, byName).list
           filtered == Filter(dtos, req.terms, req.queries)
<1>1. req.field \in SortField /\ req.ascending \in BOOLEAN /\ W \in SUBSET Accounts /\ byName \in BOOLEAN
  BY UsersAssumption DEF SortField, AllWanted
<1>2. Cached(GetUserDTOs(cache, byName)) /\ (byName => Ascends(dtos, NameField, TRUE))
  <2> HIDE DEF byName
  <2> QED BY <1>1, CachedFrom
<1>3. Lists(filtered, W) /\ (byName => Ascends(filtered, req.field, TRUE))
  <2>1. Lists(dtos, Accounts)
    BY <1>2 DEF Cached
  <2> HIDE DEF dtos
  <2>2. Lists(filtered, W) /\ (Ascends(dtos, NameField, TRUE) => Ascends(filtered, NameField, TRUE))
    BY <2>1, FilterIs
  <2> QED BY <1>2, <2>2
<1>4. Answer(cache, req) = IF ~byName THEN Sort(filtered, req.field, req.ascending)
                           ELSE IF req.ascending THEN filtered ELSE Reverse(filtered)
  BY DEF Answer
<1> HIDE DEF filtered, W
<1>5. PICK up : /\ Lists(up, W) /\ Ascends(up, req.field, TRUE)
                /\ Answer(cache, req) = IF req.ascending THEN up ELSE Reverse(up)
  <2>1. CASE byName
    BY <1>3, <1>4, <2>1
  <2>2. CASE ~byName
    <3>1. /\ Lists(Sort(filtered, req.field, TRUE), W) /\ Ascends(Sort(filtered, req.field, TRUE), req.field, TRUE)
          /\ Sort(filtered, req.field, FALSE) = Reverse(Sort(filtered, req.field, TRUE))
      BY <1>1, <1>3, SortIs
    <3>2. Answer(cache, req) = Sort(filtered, req.field, req.ascending)
      BY <1>4, <2>2
    <3> QED BY <1>1, <3>1, <3>2
  <2> QED BY <2>1, <2>2
<1>6. Lists(Reverse(up), W) /\ Ascends(Reverse(up), req.field, FALSE)
  BY <1>1, <1>5, ReverseLists, ReverseAscends
<1> QED BY <1>1, <1>5, <1>6 DEF W

\* What a part of a page is made of.
LEMMA PartIs ==
    ASSUME NEW shown, NEW last
    PROVE  [shown |-> shown, last |-> last].shown = shown /\ [shown |-> shown, last |-> last].last = last
  OBVIOUS

\* Whatever is cut into parts, a part says whether it is the last one.
LEMMA PartHasFlag ==
    ASSUME NEW s, NEW limit, NEW page
    PROVE  Page(s, page, limit).last \in BOOLEAN
<1> PICK shown : shown = SubSeq(s, page * limit + 1, IF (page + 1) * limit < Len(s) THEN (page + 1) * limit ELSE Len(s))
  OBVIOUS
<1> PICK last \in BOOLEAN : last = (Len(shown) # limit)
  OBVIOUS
<1>1. Page(s, page, limit) = [shown |-> shown, last |-> last]
  BY Zenon DEF Page
<1>2. [shown |-> shown, last |-> last].last = last
  BY PartIs
<1> QED BY <1>1, <1>2, Zenon

\* One part after the other gives the whole, and the last one says so (api-users.go:1147).
LEMMA NextPart ==
    ASSUME NEW S, NEW s \in Seq(S), NEW limit \in Nat \ {0}, NEW page \in Nat, page * limit <= Len(s),
           NEW got, got = SubSeq(s, 1, page * limit)
    PROVE  /\ Page(s, page, limit).last \in BOOLEAN
           /\ Page(s, page, limit).last => got \o Page(s, page, limit).shown = s
           /\ ~Page(s, page, limit).last =>
                 /\ (page + 1) * limit <= Len(s)
                 /\ got \o Page(s, page, limit).shown = SubSeq(s, 1, (page + 1) * limit)
<1>1. page * limit \in Nat /\ (page + 1) * limit = page * limit + limit
  OBVIOUS
<1> PICK k : k = page * limit
  OBVIOUS
<1> PICK n : n = Len(s)
  OBVIOUS
<1> PICK m : m = IF k + limit < n THEN k + limit ELSE n
  OBVIOUS
<1>2. k \in Nat /\ n \in Nat /\ m \in Nat /\ k <= n /\ k <= m /\ m <= n /\ limit \in Nat
  BY <1>1
<1>3. Page(s, page, limit) = [shown |-> SubSeq(s, k + 1, m), last |-> Len(SubSeq(s, k + 1, m)) # limit]
  BY <1>1 DEF Page
<1>4. n = Len(s) /\ \A i \in 1..n : s[i] \in S
  OBVIOUS
<1>5. SubSeq(s, k + 1, m) \in Seq(S) /\ Len(SubSeq(s, k + 1, m)) = m - k
  <2>1. \A i \in (k + 1)..m : s[i] \in S
    BY <1>2, <1>4
  <2>2. /\ SubSeq(s, k + 1, m) \in Seq(S)
        /\ Len(SubSeq(s, k + 1, m)) = IF k + 1 <= m THEN m - (k + 1) + 1 ELSE 0
    BY <1>2, <2>1, SubSeqProperties
  <2>3. CASE k + 1 <= m
    BY <1>2, <2>2, <2>3
  <2>4. CASE ~(k + 1 <= m)
    BY <1>2, <2>2, <2>4
  <2> QED BY <2>3, <2>4
<1>6. got \o SubSeq(s, k + 1, m) = SubSeq(s, 1, m)
  <2>1. 1 \in 1..(n + 1) /\ k \in (1 - 1)..n /\ m \in k..n
    BY <1>2
  <2>2. SubSeq(s, 1, k) \o SubSeq(s, k + 1, m) = SubSeq(s, 1, m)
    BY <1>4, <2>1, ConcatAdjacentSubSeq
  <2> QED BY <2>2
<1>7. SubSeq(s, 1, n) = s
  BY <1>4, SubSeqFull
<1>8. /\ (Page(s, page, limit).last <=> m - k # limit)
      /\ Page(s, page, limit).last \in BOOLEAN
      /\ Page(s, page, limit).shown = SubSeq(s, k + 1, m)
  <2> PICK part : part = Page(s, page, limit)
    OBVIOUS
  <2> PICK shown : shown = SubSeq(s, k + 1, m)
    OBVIOUS
  <2> PICK last \in BOOLEAN : last = (m - k # limit)
    OBVIOUS
  <2>1. part = [shown |-> shown, last |-> last]
    <3>1. (Len(shown) # limit) = last
      BY <1>5
    <3> QED BY <1>3, <3>1
  <2>2. part.shown = shown /\ part.last = last
    <3>1. [shown |-> shown, last |-> last].shown = shown /\ [shown |-> shown, last |-> last].last = last
      BY PartIs
    <3> QED BY <2>1, <3>1, Zenon
  <2> QED BY <2>2, Zenon
<1>9. m - k # limit => m = n
  BY <1>2
<1>10. ~(m - k # limit) => k + limit <= n /\ m = k + limit
  BY <1>2
<1> QED BY <1>1, <1>4, <1>6, <1>7, <1>8, <1>9, <1>10

-----------------------------------------------------------------------------
(* A page of accounts.                                                     *)

\* Accounts that are equal in what the page is sorted by.
Ties == \E u, v \in AllWanted(userRequest) : u # v /\ SortUsersBy(userRequest.field, u, v) = 0

\* What the page has got is the beginning of what it would be answered now, and all of it
\* when it was told so - unless the order has changed and equal ones may have changed places.
UsersInv ==
    /\ userRequest \in UserRequests /\ userPage \in Nat /\ userEnd \in BOOLEAN /\ userMoved \in BOOLEAN
    /\ Cached(userCache)
    /\ userPage = 0 => ~userMoved /\ ~userEnd /\ userGot = <<>>
    /\ (userMoved => ~Ties) =>
          LET s == Answer(userCache, userRequest)
          IN  IF userEnd THEN userGot = s
              ELSE userPage * userRequest.limit <= Len(s) /\ userGot = SubSeq(s, 1, userPage * userRequest.limit)

\* What a request is answered depends on the list alone.
LEMMA AnswerFromList ==
    ASSUME NEW cache, Cached(cache), NEW other, Cached(other), cache.list = other.list, NEW req
    PROVE  Answer(cache, req) = Answer(other, req)
<1>1. ASSUME NEW sorted \in BOOLEAN
      PROVE  GetUserDTOs(cache, sorted).list = GetUserDTOs(other, sorted).list
  <2>1. GetUserDTOs(cache, sorted).list = IF sorted THEN Sort(cache.list, NameField, TRUE) ELSE cache.list
    BY CachedFrom
  <2>2. GetUserDTOs(other, sorted).list = IF sorted THEN Sort(other.list, NameField, TRUE) ELSE other.list
    BY CachedFrom
  <2> QED BY <2>1, <2>2
<1>2. (req.field = NameField) \in BOOLEAN
  OBVIOUS
<1>3. GetUserDTOs(cache, req.field = NameField).list = GetUserDTOs(other, req.field = NameField).list
  BY <1>1, <1>2
<1> QED BY <1>3 DEF Answer

\* At first a page has got nothing.
LEMMA NothingYet ==
    ASSUME NEW cache, Cached(cache), NEW req \in UserRequests
    PROVE  0 * req.limit <= Len(Answer(cache, req)) /\ <<>> = SubSeq(Answer(cache, req), 1, 0 * req.limit)
<1>1. req.limit \in Nat /\ 0 * req.limit = 0
  BY UsersAssumption
<1>2. Len(Answer(cache, req)) \in Nat
  BY AnswerLists DEF Lists
<1>3. SubSeq(Answer(cache, req), 1, 0) = <<>>
  BY SubSeqEmpty
<1> QED BY <1>1, <1>2, <1>3

\* What Jellyfin lists is a list of all accounts, which nobody has sorted.
LEMMA JellyfinLists ==
    ASSUME NEW list \in JellyfinUsers
    PROVE  Cached([list |-> list, sorted |-> FALSE])
<1> PICK cache : cache = [list |-> list, sorted |-> FALSE]
  OBVIOUS
<1>1. cache.list = list
  OBVIOUS
<1>2. cache.sorted = FALSE
  OBVIOUS
<1>3. /\ list \in Seq(Accounts) /\ ToSet(list) = Accounts
      /\ \A i, j \in DOMAIN list : i # j => list[i].id # list[j].id
  BY UsersAssumption
<1>4. \A x \in Accounts : \E i \in DOMAIN list : list[i] = x
  BY <1>3 DEF ToSet
<1>5. Lists(list, Accounts)
  BY <1>3, <1>4 DEF Lists
<1>6. Cached(cache)
  BY <1>1, <1>2, <1>5, Zenon DEF Cached
<1> QED BY <1>6

\* A page that has got nothing is where it should be.
LEMMA UsersStart == UsersInit => UsersInv
<1> SUFFICES ASSUME UsersInit PROVE UsersInv
  OBVIOUS
<1>1. /\ userRequest \in UserRequests /\ userPage = 0 /\ userGot = <<>> /\ userEnd = FALSE /\ userMoved = FALSE
      /\ \E list \in JellyfinUsers, sorted \in BOOLEAN :
             userCache = GetUserDTOs([list |-> list, sorted |-> FALSE], sorted)
  BY DEF UsersInit
<1>2. PICK list \in JellyfinUsers, sorted \in BOOLEAN :
          userCache = GetUserDTOs([list |-> list, sorted |-> FALSE], sorted)
  BY <1>1
<1>3. Cached([list |-> list, sorted |-> FALSE])
  BY JellyfinLists
<1>4. Cached(userCache)
  BY <1>2, <1>3, CachedFrom
<1>5. 0 * userRequest.limit <= Len(Answer(userCache, userRequest))
      /\ <<>> = SubSeq(Answer(userCache, userRequest), 1, 0 * userRequest.limit)
  BY <1>1, <1>4, NothingYet
<1> QED BY <1>1, <1>4, <1>5 DEF UsersInv

\* The next part goes on where the page stopped.
LEMMA UsersAsk == UsersInv /\ AskForUsers => UsersInv'
<1> SUFFICES ASSUME UsersInv, AskForUsers PROVE UsersInv'
  OBVIOUS
<1> DEFINE req == userRequest
           byName == req.field = NameField
           s == Answer(userCache, req)
           part == Page(s, userPage, req.limit)
<1>1. /\ req \in UserRequests /\ userPage \in Nat /\ userMoved \in BOOLEAN /\ Cached(userCache) /\ ~userEnd
      /\ req.limit \in Nat \ {0}
  BY UsersAssumption DEF UsersInv, AskForUsers
<1>2. SearchUsers(userCache, req, userPage) = part
  BY DEF SearchUsers, Answer
<1>3. /\ userGot' = userGot \o part.shown /\ userEnd' = part.last /\ userPage' = userPage + 1
      /\ userCache' = GetUserDTOs(userCache, byName) /\ userRequest' = req /\ userMoved' = userMoved
  BY <1>2 DEF AskForUsers
<1>4. byName \in BOOLEAN
  OBVIOUS
<1>5. Cached(userCache') /\ GetUserDTOs(userCache', byName) = userCache'
  <2> HIDE DEF byName
  <2> QED BY <1>1, <1>3, <1>4, CachedFrom
<1>6. Answer(userCache', req) = s
  <2>1. GetUserDTOs(userCache', req.field = NameField) = GetUserDTOs(userCache, req.field = NameField)
    BY <1>3, <1>5
  <2> QED BY <2>1 DEF Answer
<1>7. s \in Seq(AllWanted(req))
  BY <1>1, AnswerLists DEF Lists
<1>8. Ties' <=> Ties
  BY <1>3 DEF Ties, AllWanted
<1>9. part.last \in BOOLEAN
  BY PartHasFlag
<1>10. ASSUME userMoved => ~Ties
       PROVE  /\ part.last => userGot \o part.shown = s
              /\ ~part.last => /\ (userPage + 1) * req.limit <= Len(s)
                               /\ userGot \o part.shown = SubSeq(s, 1, (userPage + 1) * req.limit)
  <2>1. userPage * req.limit <= Len(s) /\ userGot = SubSeq(s, 1, userPage * req.limit)
    BY <1>1, <1>10 DEF UsersInv
  <2> HIDE DEF s
  <2> QED BY <1>1, <1>7, <2>1, NextPart
<1> HIDE DEF s, part
<1>11. userPage' \in Nat /\ userPage' # 0
  BY <1>1, <1>3
<1>12. (userMoved' => ~Ties') =>
          IF userEnd' THEN userGot' = s
          ELSE userPage' * req.limit <= Len(s) /\ userGot' = SubSeq(s, 1, userPage' * req.limit)
  BY <1>3, <1>8, <1>10
<1> QED BY <1>1, <1>3, <1>5, <1>6, <1>9, <1>11, <1>12 DEF UsersInv

\* Another request leaves the answer as it was, or there is only one order it can have.
LEMMA UsersOthers == UsersInv /\ OtherRequest => UsersInv'
<1> SUFFICES ASSUME UsersInv, OtherRequest PROVE UsersInv'
  OBVIOUS
<1> DEFINE req == userRequest
           s == Answer(userCache, req)
           t == Answer(userCache', req)
<1>1. /\ req \in UserRequests /\ userPage \in Nat /\ userMoved \in BOOLEAN /\ Cached(userCache) /\ ~userEnd
      /\ req.limit \in Nat \ {0} /\ req.field \in SortField /\ req.ascending \in BOOLEAN
  BY UsersAssumption DEF UsersInv, OtherRequest, SortField
<1>2. /\ userRequest' = req /\ userPage' = userPage /\ userGot' = userGot /\ userEnd' = userEnd
      /\ userMoved' = (userMoved \/ (userPage > 0 /\ userCache'.list # userCache.list))
      /\ \/ userCache' = GetUserDTOs(userCache, TRUE)
         \/ \E list \in JellyfinUsers : userCache' = [list |-> list, sorted |-> FALSE]
  BY DEF OtherRequest
<1>3. Cached(userCache')
  BY <1>1, <1>2, CachedFrom, JellyfinLists
<1>4. Ties' <=> Ties
  BY <1>2 DEF Ties, AllWanted
<1>5. userMoved' \in BOOLEAN /\ (userMoved => userMoved')
  BY <1>1, <1>2, Zenon
<1>6. CASE userPage = 0
  <2>1. ~userMoved /\ userGot = <<>>
    BY <1>6 DEF UsersInv
  <2>2. ~userMoved'
    <3>1. ~(userPage > 0)
      BY <1>6
    <3> QED BY <1>2, <2>1, <3>1, Zenon
  <2>3. userPage' * req.limit <= Len(t) /\ userGot' = SubSeq(t, 1, userPage' * req.limit)
    BY <1>1, <1>2, <1>3, <1>6, <2>1, NothingYet
  <2> HIDE DEF t
  <2>4. Answer(userCache', userRequest') = t
    BY <1>2 DEF t
  <2> QED BY <1>1, <1>2, <1>3, <1>5, <1>6, <2>1, <2>2, <2>3, <2>4 DEF UsersInv
<1>7. CASE userPage # 0
  <2>1. ASSUME userMoved' => ~Ties PROVE t = s
    <3>1. CASE userCache'.list = userCache.list
      BY <1>1, <1>3, <3>1, AnswerFromList
    <3>2. CASE userCache'.list # userCache.list
      <4>1. userPage > 0
        BY <1>1, <1>7
      <4>2. ~Ties
        BY <1>2, <2>1, <3>2, <4>1, Zenon
      <4>3. \A u, v \in AllWanted(req) : u # v => SortUsersBy(req.field, u, v) # 0
        BY <4>2 DEF Ties
      <4>4. /\ Lists(s, AllWanted(req)) /\ Ascends(s, req.field, req.ascending)
            /\ Lists(t, AllWanted(req)) /\ Ascends(t, req.field, req.ascending)
        BY <1>1, <1>3, AnswerLists
      <4>5. AllWanted(req) \in SUBSET Accounts
        BY DEF AllWanted
      <4> HIDE DEF s, t
      <4> QED BY <1>1, <4>3, <4>4, <4>5, OneListing
    <3> QED BY <3>1, <3>2
  <2>2. (userMoved => ~Ties) =>
          IF userEnd THEN userGot = s
          ELSE userPage * req.limit <= Len(s) /\ userGot = SubSeq(s, 1, userPage * req.limit)
    BY DEF UsersInv
  <2> HIDE DEF s, t
  <2>3. (userMoved' => ~Ties') =>
          IF userEnd' THEN userGot' = t
          ELSE userPage' * req.limit <= Len(t) /\ userGot' = SubSeq(t, 1, userPage' * req.limit)
    BY <1>2, <1>4, <1>5, <2>1, <2>2
  <2>4. Answer(userCache', userRequest') = t
    BY <1>2 DEF t
  <2> QED BY <1>1, <1>2, <1>3, <1>5, <1>7, <2>3, <2>4 DEF UsersInv
<1> QED BY <1>6, <1>7

\* The pages change nothing that holds for them, and what is promised follows.
LEMMA UsersStep == UsersInv /\ [UsersNext]_userVars => UsersInv'
<1> SUFFICES ASSUME UsersInv, [UsersNext]_userVars PROVE UsersInv'
  OBVIOUS
<1>1. CASE UNCHANGED userVars
  <2>1. Ties' <=> Ties
    BY <1>1 DEF userVars, Ties, AllWanted
  <2>2. Answer(userCache', userRequest') = Answer(userCache, userRequest) /\ Cached(userCache')
    BY <1>1 DEF userVars, UsersInv
  <2> QED BY <1>1, <2>1, <2>2 DEF userVars, UsersInv
<1> QED BY <1>1, UsersAsk, UsersOthers DEF UsersNext

\* The invariant of the pages of accounts has what they promise.
LEMMA UsersPromise == UsersInv => UserPagesComplete
<1> SUFFICES ASSUME UsersInv, userEnd PROVE UserPagesComplete
  BY DEF UserPagesComplete
<1> DEFINE req == userRequest
           W == AllWanted(req)
           s == Answer(userCache, req)
<1>1. req \in UserRequests /\ Cached(userCache) /\ req.field \in SortField /\ req.ascending \in BOOLEAN
  BY UsersAssumption DEF UsersInv, SortField
<1>2. Lists(userCache.list, Accounts) /\ ToSet(userCache.list) = Accounts
  BY <1>1, ListsAll DEF Cached
<1>3. {u \in ToSet(userCache.list) : Wanted(u, req)} = W
  BY <1>2 DEF AllWanted
<1>4. Lists(s, W) /\ Ascends(s, req.field, req.ascending)
  BY <1>1, AnswerLists
<1>5. GetFilteredUserCount(userCache, req) = Cardinality(W)
  <2>1. Lists(Filter(userCache.list, req.terms, req.queries), W)
    BY <1>2, FilterIs
  <2>2. Cardinality(W) = Len(Filter(userCache.list, req.terms, req.queries))
    BY <2>1, ListsAll
  <2> QED BY <2>2 DEF GetFilteredUserCount
<1>6. (userMoved => ~Ties) => userGot = s
  BY DEF UsersInv
<1> HIDE DEF s
<1>7. ToSet(s) = W /\ Len(s) = Cardinality(W)
  BY <1>4, ListsAll
<1>8. Ordered(s, req.field, req.ascending)
  <2>1. Len(s) \in Nat /\ DOMAIN s = 1..Len(s)
    BY <1>4 DEF Lists
  <2>2. ASSUME NEW i \in 1..(Len(s) - 1)
        PROVE  IF req.ascending THEN SortUsersBy(req.field, s[i], s[i + 1]) <= 0
               ELSE SortUsersBy(req.field, s[i], s[i + 1]) >= 0
    <3>1. i \in DOMAIN s /\ i + 1 \in DOMAIN s /\ i < i + 1
      BY <2>1
    <3> QED BY <1>4, <3>1 DEF Ascends
  <2> QED BY <2>2 DEF Ordered
<1>9. Ties <=> \E u, v \in W : u # v /\ SortUsersBy(req.field, u, v) = 0
  BY DEF Ties
<1> HIDE DEF W
<1> QED BY <1>3, <1>5, <1>6, <1>7, <1>8, <1>9 DEF UserPagesComplete

-----------------------------------------------------------------------------
(* A page of activities.                                                   *)

\* Two sets have the same elements of a sequence.
Agree(s, set, more) == \A i \in DOMAIN s : s[i] \in set <=> s[i] \in more

\* One element more is kept or not, after those that were kept.
LEMMA WithinGrows ==
    ASSUME NEW S, NEW s \in Seq(S), NEW x \in S, NEW set, NEW more, Agree(s, set, more)
    PROVE  Within(Append(s, x), more) = IF x \in more THEN Append(Within(s, set), x) ELSE Within(s, set)
<1> DEFINE n == Len(s)
           t == Append(s, x)
<1>1. /\ n \in Nat /\ DOMAIN s = 1..n /\ t \in Seq(S) /\ Len(t) = n + 1 /\ t[n + 1] = x
      /\ \A i \in 1..n : t[i] = s[i]
  OBVIOUS
<1> HIDE DEF t, n
<1> PICK run : Runs(run, s, set)
  BY WithinRuns
<1>2. /\ run[0] = <<>> /\ run[n] = Within(s, set)
      /\ \A k \in 1..n :
            run[k] = IF s[k] \in set THEN Append(run[k - 1], s[k]) ELSE run[k - 1]
  BY DEF Runs, n
<1> PICK on : Runs(on, t, more)
  BY <1>1, WithinRuns
<1> PICK m : m = Len(t)
  OBVIOUS
<1>3. /\ on[0] = <<>> /\ on[m] = Within(t, more)
      /\ \A k \in 1..m :
            on[k] = IF t[k] \in more THEN Append(on[k - 1], t[k]) ELSE on[k - 1]
  BY DEF Runs
<1> DEFINE Bad == {k \in 0..n : run[k] # on[k]}
<1>4. Bad = {}
  <2> SUFFICES ASSUME Bad # {} PROVE FALSE
    OBVIOUS
  <2>1. Bad \in SUBSET Nat
    OBVIOUS
  <2>2. PICK k \in Bad : \A j \in Bad : k <= j
    <3> HIDE DEF Bad
    <3> QED BY <2>1, LeastNat
  <2>3. k # 0
    BY <1>2, <1>3
  <2>4. k \in 1..n /\ k \in 1..m /\ k - 1 \in 0..n /\ ~(k <= k - 1)
    BY <1>1, <2>3
  <2>5. run[k - 1] = on[k - 1]
    BY <2>2, <2>4
  <2>6. t[k] = s[k] /\ (s[k] \in set <=> t[k] \in more)
    BY <1>1, <2>4 DEF Agree
  <2>7. run[k] = IF s[k] \in set THEN Append(run[k - 1], s[k]) ELSE run[k - 1]
    BY <1>2, <2>4
  <2>8. on[k] = IF t[k] \in more THEN Append(on[k - 1], t[k]) ELSE on[k - 1]
    BY <1>3, <2>4
  <2>9. run[k] = on[k]
    BY <2>5, <2>6, <2>7, <2>8
  <2> QED BY <2>9
<1>5. n \in 0..n /\ m \in 1..m /\ m - 1 = n /\ t[m] = x
  BY <1>1
<1>6. on[n] = Within(s, set)
  BY <1>2, <1>4, <1>5
<1>7. on[m] = IF t[m] \in more THEN Append(on[m - 1], t[m]) ELSE on[m - 1]
  BY <1>3, <1>5
<1>8. on[m] = IF x \in more THEN Append(on[n], x) ELSE on[n]
  BY <1>5, <1>7
<1> QED BY <1>3, <1>6, <1>8 DEF t

\* Each activity is later than the one before.
Later(log) == \A i, j \in DOMAIN log : i < j => CompareSeq(log[i].time, log[j].time) < 0

\* What a request selects.
Chooses(req, act) == Selects(UserNames, act, req.terms, req.queries)

\* Times are compared like texts.
LEMMA TimeIsText ==
    ASSUME NEW act \in Activity
    PROVE  act.time \in Seq(Int)
<1>1. act.time \in Int \X Int
  BY ActivitiesAssumption
<1>2. PICK x \in Int, y \in Int : act.time = <<x, y>>
  BY <1>1
<1> QED BY <1>2

\* Activities sorted as a request asks.
ByTime(s, req) == Sorted(s, LAMBDA a, b : CompareSeq(a[req.field], b[req.field]))

\* Activities that are in order are not moved by sorting them by time.
LEMMA SortedByTime ==
    ASSUME NEW s \in Seq(Activity), Later(s), NEW req, req.field = "time"
    PROVE  ByTime(s, req) = s
<1> DEFINE D == DOMAIN s
           c == [p \in D \X D |-> CompareSeq(s[p[1]].time, s[p[2]].time)]
           b == {p \in D \X D : \/ CompareSeq(s[p[1]].time, s[p[2]].time) < 0
                                \/ CompareSeq(s[p[1]].time, s[p[2]].time) = 0 /\ p[1] < p[2]}
           up == ByTime(s, req)
<1>1. up = [n \in D |-> s[Ranked(D, b)[n]]]
  BY DEF ByTime, Sorted
<1>2. \A p \in D \X D : c[p] = CompareSeq(s[p[1]].time, s[p[2]].time)
  OBVIOUS
<1>3. c = [p \in D \X D |-> c[p]]
  OBVIOUS
<1> HIDE DEF c, up
<1>4. b = Stable(c, D)
  <2> HIDE DEF D
  <2> QED BY <1>2 DEF Stable
<1>5. D \in SUBSET Int /\ \A i \in D : s[i].time \in Seq(Int)
  <2>1. D \in SUBSET Int /\ \A i \in D : s[i] \in Activity
    OBVIOUS
  <2> QED BY <2>1, TimeIsText
<1>6. ASSUME NEW i \in D, NEW j \in D PROVE c[<<i, j>>] = CompareSeq(s[i].time, s[j].time)
  <2>1. <<i, j>> \in D \X D
    OBVIOUS
  <2> QED BY <1>2, <2>1
<1>7. \A i, j \in D : i < j => CompareSeq(s[i].time, s[j].time) < 0
  BY DEF Later
<1> USE DEF D
<1> HIDE DEF D
<1>8. ASSUME NEW p \in D \X D PROVE c[p] \in {-1, 0, 1}
  <2>1. PICK i \in D, j \in D : p = <<i, j>>
    OBVIOUS
  <2>2. c[<<i, j>>] \in {-1, 0, 1}
    BY <1>5, <1>6, CompareTurns
  <2> QED BY <2>1, <2>2
<1>9. Comparing(c, D)
  <2>1. c \in [D \X D -> {-1, 0, 1}]
    BY <1>3, <1>8
  <2>2. \A x \in D : c[<<x, x>>] = 0
    BY <1>5, <1>6, CompareTurns
  <2>3. ASSUME NEW x \in D, NEW y \in D PROVE c[<<y, x>>] = -c[<<x, y>>]
    BY <1>5, <1>6, CompareTurns
  <2>4. ASSUME NEW x \in D, NEW y \in D, NEW z \in D, c[<<x, y>>] <= 0, c[<<y, z>>] <= 0
        PROVE  c[<<x, z>>] <= 0 /\ (c[<<x, z>>] = 0 => c[<<x, y>>] = 0)
    <3>1. CompareSeq(s[x].time, s[y].time) <= 0 /\ CompareSeq(s[y].time, s[z].time) <= 0
      BY <1>6, <2>4
    <3>2. /\ CompareSeq(s[x].time, s[z].time) <= 0
          /\ CompareSeq(s[x].time, s[z].time) = 0 => CompareSeq(s[x].time, s[y].time) = 0
      BY <1>5, <3>1, CompareGoesOn
    <3> QED BY <1>6, <3>2
  <2> QED BY <2>1, <2>2, <2>3, <2>4 DEF Comparing
<1>10. \A i, j \in D : i < j => c[<<i, j>>] <= 0
  <2> TAKE i, j \in D
  <2> HAVE i < j
  <2>1. CompareSeq(s[i].time, s[j].time) < 0 /\ CompareSeq(s[i].time, s[j].time) \in {-1, 0, 1}
    BY <1>5, <1>7, CompareTurns
  <2> QED BY <1>6, <2>1
<1>11. up = [n \in D |-> s[Ranked(D, Stable(c, D))[n]]]
  BY <1>1, <1>4
<1> USE DEF D
<1>12. up = s
  BY <1>9, <1>10, <1>11, StableSort
<1> QED BY <1>12 DEF up

\* The log is one that can be.
Logged(log) == log \in Seq(Activity) /\ Later(log) /\ log # <<>>

\* Found has what a request selects of the log, in the order it happened.
LEMMA FoundIs ==
    ASSUME NEW log, Logged(log), NEW req
    PROVE  /\ Found(UserNames, log, req) \in Seq(Activity) /\ Later(Found(UserNames, log, req))
           /\ \A i \in DOMAIN Found(UserNames, log, req) : Chooses(req, Found(UserNames, log, req)[i])
           /\ \A a \in DOMAIN log : Chooses(req, log[a]) =>
                  \E i \in DOMAIN Found(UserNames, log, req) : Found(UserNames, log, req)[i] = log[a]
<1> DEFINE f == Found(UserNames, log, req)
           set == {a \in ToSet(log) : Chooses(req, a)}
<1>1. log \in Seq(Activity) /\ \A i \in DOMAIN log : log[i] \in Activity /\ log[i] \in ToSet(log)
  BY DEF Logged, ToSet
<1>2. f = Within(log, set)
  BY DEF Found, Chooses
<1> HIDE DEF f
<1>3. /\ \A i \in DOMAIN log : log[i] \in set <=> Chooses(req, log[i])
      /\ \A a \in set : Chooses(req, a)
  BY <1>1
<1> HIDE DEF set
<1>4. f \in Seq(Activity) /\ \E at : Chosen(log, set, Len(log), f, at)
  BY <1>1, <1>2, WithinIs
<1>5. PICK at : Chosen(log, set, Len(log), f, at)
  BY <1>4
<1>6. DOMAIN log = 1..Len(log)
  BY <1>1
<1>7. /\ at \in [DOMAIN f -> DOMAIN log]
      /\ \A i \in DOMAIN f : f[i] = log[at[i]] /\ f[i] \in set
      /\ \A i, j \in DOMAIN f : i < j => at[i] < at[j]
      /\ \A a \in DOMAIN log : log[a] \in set => \E i \in DOMAIN f : at[i] = a
  BY <1>5, <1>6 DEF Chosen
<1>8. ASSUME NEW i \in DOMAIN f, NEW j \in DOMAIN f, i < j
      PROVE  CompareSeq(f[i].time, f[j].time) < 0
  <2>1. at[i] \in DOMAIN log /\ at[j] \in DOMAIN log /\ at[i] < at[j]
    BY <1>7, <1>8
  <2> QED BY <1>7, <2>1 DEF Logged, Later
<1>9. \A a \in DOMAIN log : Chooses(req, log[a]) => \E i \in DOMAIN f : f[i] = log[a]
  <2> SUFFICES ASSUME NEW a \in DOMAIN log, Chooses(req, log[a]) PROVE \E i \in DOMAIN f : f[i] = log[a]
    OBVIOUS
  <2>1. PICK i \in DOMAIN f : at[i] = a
    BY <1>3, <1>7
  <2> QED BY <1>7, <2>1
<1> QED BY <1>3, <1>4, <1>7, <1>8, <1>9 DEF Later, f

\* What happens is found after everything that was found, or not at all.
LEMMA FoundGrows ==
    ASSUME NEW log, Logged(log), NEW act \in Activity, NEW req
    PROVE  Found(UserNames, Append(log, act), req) =
               IF Chooses(req, act) THEN Append(Found(UserNames, log, req), act) ELSE Found(UserNames, log, req)
<1> DEFINE set == {a \in ToSet(log) : Chooses(req, a)}
           more == {a \in ToSet(Append(log, act)) : Chooses(req, a)}
<1>1. log \in Seq(Activity)
  BY DEF Logged
<1>2. Found(UserNames, log, req) = Within(log, set) /\ Found(UserNames, Append(log, act), req) = Within(Append(log, act), more)
  BY DEF Found, Chooses
<1>3. \A i \in DOMAIN log : log[i] \in ToSet(log) /\ log[i] \in ToSet(Append(log, act))
  <2>1. \A i \in DOMAIN log : i \in DOMAIN Append(log, act) /\ Append(log, act)[i] = log[i]
    BY <1>1
  <2> QED BY <2>1 DEF ToSet
<1>4. act \in ToSet(Append(log, act))
  <2>1. Len(log) + 1 \in DOMAIN Append(log, act) /\ Append(log, act)[Len(log) + 1] = act
    BY <1>1
  <2> QED BY <2>1 DEF ToSet
<1>5. Agree(log, set, more)
  BY <1>3 DEF Agree
<1>6. act \in more <=> Chooses(req, act)
  BY <1>4
<1> HIDE DEF set, more
<1>7. Within(Append(log, act), more) = IF act \in more THEN Append(Within(log, set), act) ELSE Within(log, set)
  BY <1>1, <1>5, WithinGrows
<1> QED BY <1>2, <1>6, <1>7

\* What has all the terms of a request and satisfies its queries is selected, and without
\* terms nothing else is.
Meets(req, a) ==
    /\ \A q \in req.queries : AsDBQuery(UserNames, a, q)
    /\ \A t \in req.terms : \E f \in SearchedField : Includes(Lower(a[f]), t)

\* What meets all that a request asks is selected; without terms nothing else is.
LEMMA MeetsIsChosen ==
    ASSUME NEW req, NEW a
    PROVE  (Meets(req, a) => Chooses(req, a)) /\ (req.terms = {} /\ Chooses(req, a) => Meets(req, a))
<1> DEFINE all == \A q \in req.queries : AsDBQuery(UserNames, a, q)
<1>1. Chooses(req, a) <=> IF req.terms = {} THEN all
                          ELSE \/ MatchesTerms(a, "id", req.terms) /\ all
                               \/ \E f \in SearchedField \ {"id"} : MatchesTerms(a, f, req.terms)
  BY DEF Chooses, Selects
<1>2. Meets(req, a) <=> (all /\ \A t \in req.terms : \E f \in SearchedField : Includes(Lower(a[f]), t))
  BY DEF Meets
<1> HIDE DEF all
<1>3. CASE req.terms = {}
  BY <1>1, <1>2, <1>3
<1>4. CASE req.terms # {}
  <2> SUFFICES ASSUME Meets(req, a) PROVE Chooses(req, a)
    BY <1>4
  <2>1. PICK t \in req.terms : TRUE
    BY <1>4
  <2>2. PICK f \in SearchedField : Includes(Lower(a[f]), t)
    BY <1>2, <2>1
  <2>3. MatchesTerms(a, f, req.terms)
    BY <2>1, <2>2 DEF MatchesTerms
  <2>4. CASE f = "id"
    BY <1>1, <1>2, <1>4, <2>3, <2>4
  <2>5. CASE f # "id"
    BY <1>1, <1>4, <2>3, <2>5
  <2> QED BY <2>4, <2>5
<1> QED BY <1>3, <1>4

\* By time a request lists what Found finds, the one way or the other.
LEMMA ListedByTime ==
    ASSUME NEW log, Logged(log), NEW req, req.field = "time", NEW page
    PROVE  GetActivities(UserNames, log, req, page) =
               Page(IF req.ascending THEN Found(UserNames, log, req) ELSE Reverse(Found(UserNames, log, req)),
                    page, req.limit)
<1> DEFINE f == Found(UserNames, log, req)
           up == ByTime(f, req)
<1>1. GetActivities(UserNames, log, req, page) =
          Page(IF req.field \notin DBField THEN <<>> ELSE IF req.ascending THEN up ELSE Reverse(up), page, req.limit)
  BY DEF GetActivities, ByTime
<1>2. f \in Seq(Activity) /\ Later(f)
  BY FoundIs
<1>3. req.field \in DBField
  BY DEF DBField
<1> HIDE DEF f
<1>4. up = f
  BY <1>2, SortedByTime
<1> HIDE DEF up
<1> QED BY <1>1, <1>3, <1>4 DEF f

\* What the page asks for and has not got is before what it was shown, or, newest first, in
\* the part of the list that is left.
ActivitiesInv ==
    /\ actRequest \in ActivityRequests /\ actPage \in Nat /\ actEnd \in BOOLEAN
    /\ Logged(activities) /\ atFirst \in 0..Len(activities)
    /\ actRequest.field = "time" =>
          LET f == Found(UserNames, activities, actRequest)
              n == actPage * actRequest.limit
          IN  /\ actGot \in Seq(Activity) /\ \A i \in DOMAIN actGot : Chooses(actRequest, actGot[i])
              /\ actRequest.ascending =>
                    IF actEnd THEN actGot = f ELSE n <= Len(f) /\ actGot = SubSeq(f, 1, n)
              /\ ~actRequest.ascending =>
                    \A a \in 1..atFirst : Chooses(actRequest, activities[a]) =>
                        \/ \E j \in DOMAIN actGot : actGot[j] = activities[a]
                        \/ ~actEnd /\ \E k \in DOMAIN f : k <= Len(f) - n /\ f[k] = activities[a]

\* The pages of activities begin in their invariant.
LEMMA ActivitiesStart == ListingInit => ActivitiesInv
<1> SUFFICES ASSUME ListingInit PROVE ActivitiesInv
  OBVIOUS
<1> DEFINE f == Found(UserNames, activities, actRequest)
<1>1. /\ activities \in Logs /\ atFirst = Len(activities) /\ actRequest \in ActivityRequests
      /\ actPage = 0 /\ actGot = <<>> /\ actEnd = FALSE
  BY DEF ListingInit
<1>2. Logged(activities) /\ Len(activities) \in Nat /\ actRequest.limit \in Nat
  <2>1. Logged(activities)
    BY <1>1, ActivitiesAssumption DEF Logged, Later
  <2>2. actRequest.limit \in Nat
    BY <1>1, ActivitiesAssumption
  <2> QED BY <2>1, <2>2 DEF Logged
<1>3. f \in Seq(Activity) /\ \A a \in DOMAIN activities : Chooses(actRequest, activities[a]) =>
                                  \E i \in DOMAIN f : f[i] = activities[a]
  BY <1>2, FoundIs
<1> HIDE DEF f
<1>4. actPage * actRequest.limit = 0
  BY <1>1, <1>2
<1>5. Len(f) \in Nat /\ DOMAIN f = 1..Len(f) /\ SubSeq(f, 1, 0) = <<>>
  BY <1>3, SubSeqEmpty
<1>6. actGot \in Seq(Activity) /\ DOMAIN actGot = {}
  BY <1>1
<1>7. ASSUME NEW a \in 1..atFirst, Chooses(actRequest, activities[a])
      PROVE  \E k \in DOMAIN f : k <= Len(f) - 0 /\ f[k] = activities[a]
  <2>1. a \in DOMAIN activities
    BY <1>1, <1>2 DEF Logged
  <2>2. PICK k \in DOMAIN f : f[k] = activities[a]
    BY <1>3, <1>7, <2>1
  <2> QED BY <1>5, <2>2
<1>8. atFirst \in 0..Len(activities)
  BY <1>1, <1>2
<1>9. actRequest.ascending => 0 <= Len(f) /\ actGot = SubSeq(f, 1, 0)
  BY <1>1, <1>5
<1> QED BY <1>1, <1>2, <1>4, <1>6, <1>7, <1>8, <1>9 DEF ActivitiesInv, f

\* A part newest first has the end of what is left, or all of it when it is the last.
LEMMA PartFromEnd ==
    ASSUME NEW S, NEW f \in Seq(S), NEW limit \in Nat \ {0}, NEW page \in Nat
    PROVE  LET part == Page(Reverse(f), page, limit)
           IN  /\ part.last \in BOOLEAN
               /\ part.shown \in Seq(S)
               /\ \A j \in DOMAIN part.shown : \E k \in DOMAIN f : part.shown[j] = f[k]
               /\ \A k \in DOMAIN f : k <= Len(f) - page * limit =>
                      \/ \E j \in DOMAIN part.shown : part.shown[j] = f[k]
                      \/ ~part.last /\ k <= Len(f) - (page + 1) * limit
<1>1. PICK r, n, p : r = Reverse(f) /\ n = Len(f) /\ p = page * limit
  OBVIOUS
<1>2. n \in Nat /\ DOMAIN f = 1..n /\ \A i \in 1..n : f[i] \in S
  BY <1>1
<1>3. \A i \in 1..n : (n - i) + 1 \in 1..n /\ (n - ((n - i) + 1)) + 1 = i
  BY <1>2
<1>4. r \in Seq(S) /\ Len(r) = n /\ \A i \in 1..n : r[i] = f[(n - i) + 1] /\ r[i] \in S
  <2>1. r = [i \in 1..n |-> f[(n - i) + 1]]
    BY <1>1 DEF Reverse
  <2>2. r \in [1..n -> S] /\ \A i \in 1..n : r[i] = f[(n - i) + 1]
    BY <1>2, <1>3, <2>1
  <2> QED BY <1>2, <2>2
<1>5. PICK m : m = IF p + limit < n THEN p + limit ELSE n
  OBVIOUS
<1>6. /\ p \in Nat /\ m \in Nat /\ m <= n /\ limit \in Nat /\ limit >= 1
      /\ m <= p + limit /\ (m # n => m = p + limit) /\ (p + limit <= n => m = p + limit)
  <2>1. p \in Nat /\ limit \in Nat /\ limit >= 1
    BY <1>1
  <2>2. CASE p + limit < n
    <3>1. m = p + limit
      BY <1>5, <2>2
    <3> QED BY <1>2, <2>1, <2>2, <3>1
  <2>3. CASE ~(p + limit < n)
    <3>1. m = n
      BY <1>5, <2>3
    <3> QED BY <1>2, <2>1, <2>3, <3>1
  <2> QED BY <2>2, <2>3
<1>7. (page + 1) * limit = p + limit
  BY <1>1
<1>8. PICK shown : shown = SubSeq(r, p + 1, m)
  OBVIOUS
<1>9. PICK last \in BOOLEAN : last = (Len(shown) # limit)
  OBVIOUS
<1>10. Page(r, page, limit).shown = shown /\ Page(r, page, limit).last = last
  <2>1. Page(r, page, limit) = [shown |-> shown, last |-> Len(shown) # limit]
    BY <1>1, <1>4, <1>5, <1>7, <1>8 DEF Page
  <2>2. Page(r, page, limit) = [shown |-> shown, last |-> last]
    BY <1>9, <2>1, Zenon
  <2>3. [shown |-> shown, last |-> last].shown = shown /\ [shown |-> shown, last |-> last].last = last
    BY PartIs
  <2> QED BY <2>2, <2>3, Zenon
<1>11. /\ shown \in Seq(S)
       /\ Len(shown) = IF p + 1 <= m THEN m - (p + 1) + 1 ELSE 0
       /\ \A i \in 1..(m - (p + 1) + 1) : shown[i] = r[p + 1 + i - 1]
  <2>1. \A i \in (p + 1)..m : r[i] \in S
    <3>1. \A i \in (p + 1)..m : i \in 1..n
      BY <1>2, <1>6
    <3> QED BY <1>4, <3>1
  <2>2. p + 1 \in Int /\ m \in Int
    BY <1>6
  <2> QED BY <1>8, <2>1, <2>2, SubSeqProperties
<1>12. /\ \A j \in DOMAIN shown : \E k \in DOMAIN f : shown[j] = f[k]
       /\ \A k \in DOMAIN f : k <= n - p =>
              (\E j \in DOMAIN shown : shown[j] = f[k]) \/ (~last /\ k <= n - (p + limit))
  <2>1. CASE p + 1 <= m
    <3>1. Len(shown) = m - (p + 1) + 1
      BY <1>11, <2>1
    <3>2. DOMAIN shown = 1..(m - p) /\ Len(shown) = m - p /\ m - p \in Nat
      BY <1>6, <1>11, <2>1, <3>1
    <3>3. ASSUME NEW j \in DOMAIN shown
          PROVE  (n - (p + j)) + 1 \in DOMAIN f /\ shown[j] = f[(n - (p + j)) + 1]
      <4>1. j \in 1..(m - p)
        BY <3>2
      <4>2. j \in 1..(m - (p + 1) + 1) /\ p + 1 + j - 1 = p + j /\ p + j \in 1..n
        BY <1>2, <1>6, <4>1
      <4>3. shown[j] = r[p + 1 + j - 1]
        BY <1>11, <4>2
      <4>4. shown[j] = r[p + j]
        BY <4>2, <4>3
      <4> QED BY <1>2, <1>3, <1>4, <4>2, <4>4
    <3>4. ASSUME NEW k \in DOMAIN f, k <= n - p
          PROVE  (\E j \in DOMAIN shown : shown[j] = f[k]) \/ (~last /\ k <= n - (p + limit))
      <4>1. k \in 1..n
        BY <1>2
      <4>2. CASE k <= n - m
        <5>1. m = p + limit
          BY <1>2, <1>6, <4>1, <4>2
        <5>2. Len(shown) = limit
          BY <1>6, <3>2, <5>1
        <5>3. ~last
          BY <1>9, <5>2, Zenon
        <5> QED BY <4>2, <5>1, <5>3
      <4>3. CASE ~(k <= n - m)
        <5>1. PICK j : j = n - p - k + 1
          OBVIOUS
        <5>2. j \in 1..(m - p) /\ (n - (p + j)) + 1 = k
          BY <1>2, <1>6, <3>4, <4>1, <4>3, <5>1
        <5>3. j \in DOMAIN shown
          BY <3>2, <5>2
        <5>4. shown[j] = f[k]
          BY <3>3, <5>2, <5>3
        <5> QED BY <5>3, <5>4
      <4> QED BY <4>2, <4>3
    <3> QED BY <3>3, <3>4
  <2>2. CASE ~(p + 1 <= m)
    <3>1. Len(shown) = 0
      BY <1>11, <2>2
    <3>2. DOMAIN shown = {}
      BY <1>11, <3>1
    <3>3. ASSUME NEW k \in DOMAIN f PROVE ~(k <= n - p)
      BY <1>2, <1>6, <2>2
    <3> QED BY <3>2, <3>3
  <2> QED BY <2>1, <2>2
<1> QED BY <1>1, <1>7, <1>10, <1>11, <1>12, Zenon

\* A later activity may follow in the log.
LEMMA LogGrows ==
    ASSUME NEW log, Logged(log), NEW act \in Activity, CompareSeq(Last(log).time, act.time) < 0
    PROVE  Logged(Append(log, act))
<1> PICK n : n = Len(log)
  OBVIOUS
<1> PICK more : more = Append(log, act)
  OBVIOUS
<1>1. /\ log \in Seq(Activity) /\ n \in Nat /\ n > 0 /\ DOMAIN log = 1..n /\ \A i \in 1..n : log[i] \in Activity
      /\ \A i, j \in 1..n : i < j => CompareSeq(log[i].time, log[j].time) < 0
  BY DEF Logged, Later
<1>2. /\ more \in Seq(Activity) /\ DOMAIN more = 1..(n + 1) /\ more # <<>> /\ more[n + 1] = act
      /\ \A i \in 1..n : more[i] = log[i]
  BY <1>1
<1>3. CompareSeq(log[n].time, act.time) < 0
  BY <1>1 DEF Last
<1>4. ASSUME NEW i \in 1..n PROVE CompareSeq(log[i].time, act.time) < 0
  <2>1. CASE i = n
    BY <1>3, <2>1
  <2>2. CASE i # n
    <3> PICK a, b, c : a = log[i].time /\ b = log[n].time /\ c = act.time
      OBVIOUS
    <3>1. a \in Seq(Int) /\ b \in Seq(Int) /\ c \in Seq(Int)
      BY <1>1, TimeIsText
    <3>2. CompareSeq(a, b) < 0 /\ CompareSeq(b, c) < 0
      BY <1>1, <1>3, <2>2
    <3>3. CompareSeq(a, b) \in {-1, 0, 1} /\ CompareSeq(b, c) \in {-1, 0, 1} /\ CompareSeq(a, c) \in {-1, 0, 1}
      BY <3>1, CompareTurns
    <3>4. CompareSeq(a, b) <= 0 /\ CompareSeq(b, c) <= 0
      BY <3>2, <3>3
    <3>5. CompareSeq(a, c) <= 0 /\ (CompareSeq(a, c) = 0 => CompareSeq(a, b) = 0)
      BY <3>1, <3>4, CompareGoesOn
    <3> QED BY <3>2, <3>3, <3>5
  <2> QED BY <2>1, <2>2
<1>5. ASSUME NEW i \in DOMAIN more, NEW j \in DOMAIN more, i < j
      PROVE  CompareSeq(more[i].time, more[j].time) < 0
  <2>1. i \in 1..n
    BY <1>1, <1>2, <1>5
  <2>2. CASE j \in 1..n
    BY <1>1, <1>2, <1>5, <2>1, <2>2
  <2>3. CASE j = n + 1
    BY <1>2, <1>4, <2>1, <2>3
  <2> QED BY <1>1, <1>2, <2>2, <2>3
<1>6. Later(more)
  BY <1>5 DEF Later
<1> QED BY <1>2, <1>6 DEF Logged

\* The next part of the log goes on where the page stopped, or before it.
LEMMA ActivitiesAsk == ActivitiesInv /\ AskForActivities => ActivitiesInv'
<1> SUFFICES ASSUME ActivitiesInv, AskForActivities PROVE ActivitiesInv'
  OBVIOUS
<1> DEFINE req == actRequest
           f == Found(UserNames, activities, req)
           limit == req.limit
           part == Page(IF req.ascending THEN f ELSE Reverse(f), actPage, limit)
<1>1. /\ req \in ActivityRequests /\ actPage \in Nat /\ ~actEnd /\ Logged(activities)
      /\ atFirst \in 0..Len(activities) /\ limit \in Nat \ {0} /\ req.ascending \in BOOLEAN
  BY ActivitiesAssumption DEF ActivitiesInv, AskForActivities
<1>2. /\ activities' = activities /\ actRequest' = req /\ atFirst' = atFirst /\ actPage' = actPage + 1
      /\ LET got == GetActivities(UserNames, activities, actRequest, actPage)
         IN  actGot' = actGot \o got.shown /\ actEnd' = got.last
  BY DEF AskForActivities
<1>3. f \in Seq(Activity) /\ \A i \in DOMAIN f : Chooses(req, f[i])
  BY <1>1, FoundIs
<1>4. actEnd' \in BOOLEAN
  <2> PICK s : s = IF req.field \notin DBField THEN <<>>
                   ELSE IF req.ascending THEN ByTime(f, req) ELSE Reverse(ByTime(f, req))
    OBVIOUS
  <2>1. GetActivities(UserNames, activities, req, actPage) = Page(s, actPage, limit)
    BY DEF GetActivities, ByTime
  <2>2. Page(s, actPage, limit).last \in BOOLEAN
    BY PartHasFlag
  <2> QED BY <1>2, <2>1, <2>2
<1> HIDE DEF f
<1>5. ASSUME req.field = "time"
      PROVE  /\ actGot' \in Seq(Activity) /\ \A i \in DOMAIN actGot' : Chooses(req, actGot'[i])
             /\ req.ascending =>
                   IF actEnd' THEN actGot' = f
                   ELSE (actPage + 1) * limit <= Len(f) /\ actGot' = SubSeq(f, 1, (actPage + 1) * limit)
             /\ ~req.ascending =>
                   \A a \in 1..atFirst : Chooses(req, activities[a]) =>
                       \/ \E j \in DOMAIN actGot' : actGot'[j] = activities[a]
                       \/ ~actEnd' /\ \E k \in DOMAIN f : k <= Len(f) - (actPage + 1) * limit /\ f[k] = activities[a]
  <2>1. GetActivities(UserNames, activities, req, actPage) = part
    BY <1>1, <1>5, ListedByTime DEF f
  <2>2. actGot' = actGot \o part.shown /\ actEnd' = part.last
    BY <1>2, <2>1
  <2>3. /\ actGot \in Seq(Activity) /\ \A i \in DOMAIN actGot : Chooses(req, actGot[i])
        /\ req.ascending => actPage * limit <= Len(f) /\ actGot = SubSeq(f, 1, actPage * limit)
        /\ ~req.ascending =>
              \A a \in 1..atFirst : Chooses(req, activities[a]) =>
                  \/ \E j \in DOMAIN actGot : actGot[j] = activities[a]
                  \/ \E k \in DOMAIN f : k <= Len(f) - actPage * limit /\ f[k] = activities[a]
    BY <1>1, <1>5 DEF ActivitiesInv, f
  <2>4. CASE req.ascending
    <3>1. part = Page(f, actPage, limit)
      BY <2>4
    <3> HIDE DEF part
    <3>2. /\ part.last => actGot' = f
          /\ ~part.last => /\ (actPage + 1) * limit <= Len(f)
                           /\ actGot' = SubSeq(f, 1, (actPage + 1) * limit)
      <4>1. actPage * limit <= Len(f) /\ actGot = SubSeq(f, 1, actPage * limit)
        BY <2>3, <2>4
      <4>2. /\ part.last => actGot \o part.shown = f
            /\ ~part.last => /\ (actPage + 1) * limit <= Len(f)
                             /\ actGot \o part.shown = SubSeq(f, 1, (actPage + 1) * limit)
        BY <1>1, <1>3, <3>1, <4>1, NextPart
      <4> QED BY <2>2, <4>2
    <3>3. actGot' \in Seq(Activity) /\ \A i \in DOMAIN actGot' : \E k \in DOMAIN f : actGot'[i] = f[k]
      <4>1. CASE part.last
        BY <1>3, <3>2, <4>1
      <4>2. CASE ~part.last
        <5> PICK m : m = (actPage + 1) * limit
          OBVIOUS
        <5>1. m \in Nat /\ m <= Len(f) /\ actGot' = SubSeq(f, 1, m) /\ DOMAIN f = 1..Len(f) /\ Len(f) \in Nat
          BY <1>1, <1>3, <3>2, <4>2
        <5>2. \A i \in 1..m : f[i] \in Activity /\ i \in DOMAIN f
          BY <1>3, <5>1
        <5>3. /\ actGot' \in Seq(Activity) /\ Len(actGot') = IF 1 <= m THEN m - 1 + 1 ELSE 0
              /\ \A i \in 1..(m - 1 + 1) : actGot'[i] = f[1 + i - 1]
          BY <5>1, <5>2, SubSeqProperties
        <5>4. DOMAIN actGot' = 1..m
          BY <5>1, <5>3
        <5> QED BY <5>1, <5>2, <5>3, <5>4
      <4> QED BY <4>1, <4>2
    <3>4. \A i \in DOMAIN actGot' : Chooses(req, actGot'[i])
      BY <1>3, <3>3
    <3> QED BY <2>2, <2>4, <3>2, <3>3, <3>4
  <2>5. CASE ~req.ascending
    <3>1. part = Page(Reverse(f), actPage, limit)
      BY <2>5
    <3> HIDE DEF part
    <3>2. /\ part.shown \in Seq(Activity)
          /\ \A j \in DOMAIN part.shown : \E k \in DOMAIN f : part.shown[j] = f[k]
          /\ \A k \in DOMAIN f : k <= Len(f) - actPage * limit =>
                 \/ \E j \in DOMAIN part.shown : part.shown[j] = f[k]
                 \/ ~part.last /\ k <= Len(f) - (actPage + 1) * limit
      BY <1>1, <1>3, <3>1, PartFromEnd
    <3> PICK shown : shown = part.shown
      OBVIOUS
    <3>3. /\ actGot' \in Seq(Activity) /\ DOMAIN actGot = 1..Len(actGot) /\ DOMAIN shown = 1..Len(shown)
          /\ DOMAIN actGot' = 1..(Len(actGot) + Len(shown)) /\ Len(actGot) \in Nat /\ Len(shown) \in Nat
          /\ \A i \in 1..Len(actGot) : actGot'[i] = actGot[i]
          /\ \A i \in 1..Len(shown) : actGot'[Len(actGot) + i] = shown[i]
      BY <2>2, <2>3, <3>2
    <3>4. \A i \in DOMAIN actGot : i \in DOMAIN actGot' /\ actGot'[i] = actGot[i]
      BY <3>3
    <3>5. \A i \in DOMAIN shown : Len(actGot) + i \in DOMAIN actGot' /\ actGot'[Len(actGot) + i] = shown[i]
      BY <3>3
    <3>6. ASSUME NEW i \in DOMAIN actGot' PROVE Chooses(req, actGot'[i])
      <4>1. CASE i \in DOMAIN actGot
        BY <2>3, <3>4, <4>1
      <4>2. CASE i \notin DOMAIN actGot
        <5>1. i - Len(actGot) \in DOMAIN shown /\ Len(actGot) + (i - Len(actGot)) = i
          BY <3>3, <4>2
        <5>2. actGot'[i] = shown[i - Len(actGot)]
          BY <3>5, <5>1
        <5> QED BY <1>3, <3>2, <5>1, <5>2
      <4> QED BY <4>1, <4>2
    <3>7. ASSUME NEW a \in 1..atFirst, Chooses(req, activities[a])
          PROVE  \/ \E j \in DOMAIN actGot' : actGot'[j] = activities[a]
                 \/ ~actEnd' /\ \E k \in DOMAIN f : k <= Len(f) - (actPage + 1) * limit /\ f[k] = activities[a]
      <4>1. CASE \E j \in DOMAIN actGot : actGot[j] = activities[a]
        BY <3>4, <4>1
      <4>2. CASE \E k \in DOMAIN f : k <= Len(f) - actPage * limit /\ f[k] = activities[a]
        <5> PICK k \in DOMAIN f : k <= Len(f) - actPage * limit /\ f[k] = activities[a]
          BY <4>2
        <5>1. CASE \E j \in DOMAIN part.shown : part.shown[j] = f[k]
          BY <3>5, <5>1
        <5>2. CASE ~part.last /\ k <= Len(f) - (actPage + 1) * limit
          BY <2>2, <5>2
        <5> QED BY <3>2, <5>1, <5>2
      <4> QED BY <2>3, <2>5, <3>7, <4>1, <4>2
    <3> QED BY <2>5, <3>3, <3>6, <3>7
  <2> QED BY <2>4, <2>5
<1> HIDE DEF limit
<1>6. Found(UserNames, activities', actRequest') = f
  BY <1>2 DEF f
<1>7. actPage' \in Nat
  BY <1>1, <1>2
<1>8. limit = actRequest.limit
  BY DEF limit
<1> QED BY <1>1, <1>2, <1>4, <1>5, <1>6, <1>7, <1>8 DEF ActivitiesInv

\* What happens while the page is read comes after what it has got, or before what is left.
LEMMA ActivitiesHappen == ActivitiesInv /\ ActivityHappens => ActivitiesInv'
<1> SUFFICES ASSUME ActivitiesInv, ActivityHappens PROVE ActivitiesInv'
  OBVIOUS
<1> DEFINE req == actRequest
           f == Found(UserNames, activities, req)
           g == Found(UserNames, activities', req)
           n == actPage * req.limit
<1>1. /\ req \in ActivityRequests /\ actPage \in Nat /\ ~actEnd /\ Logged(activities)
      /\ atFirst \in 0..Len(activities) /\ req.limit \in Nat
  BY ActivitiesAssumption DEF ActivitiesInv, ActivityHappens
<1>2. /\ actRequest' = req /\ atFirst' = atFirst /\ actPage' = actPage /\ actGot' = actGot /\ actEnd' = actEnd
      /\ \E act \in LaterActivities :
             CompareSeq(Last(activities).time, act.time) < 0 /\ activities' = Append(activities, act)
  BY DEF ActivityHappens
<1>3. PICK act \in LaterActivities :
          CompareSeq(Last(activities).time, act.time) < 0 /\ activities' = Append(activities, act)
  BY <1>2
<1>4. act \in Activity
  BY DEF Activity
<1>5. Logged(activities')
  BY <1>1, <1>3, <1>4, LogGrows
<1>6. /\ activities \in Seq(Activity) /\ Len(activities) \in Nat /\ Len(activities') = Len(activities) + 1
      /\ \A a \in 1..Len(activities) : activities'[a] = activities[a]
  BY <1>1, <1>3, <1>4 DEF Logged
<1>7. atFirst \in 0..Len(activities') /\ \A a \in 1..atFirst : activities'[a] = activities[a]
  BY <1>1, <1>6
<1>8. f \in Seq(Activity) /\ g = IF Chooses(req, act) THEN Append(f, act) ELSE f
  BY <1>1, <1>3, <1>4, FoundIs, FoundGrows
<1>9. n \in Nat
  BY <1>1
<1> HIDE DEF f, g, n
<1>10. /\ Len(f) \in Nat /\ Len(g) \in Nat /\ Len(f) <= Len(g) /\ DOMAIN f = 1..Len(f) /\ g \in Seq(Activity)
       /\ \A k \in DOMAIN f : k \in DOMAIN g /\ g[k] = f[k]
  <2>1. CASE Chooses(req, act)
    BY <1>4, <1>8, <2>1
  <2>2. CASE ~Chooses(req, act)
    BY <1>8, <2>2
  <2> QED BY <2>1, <2>2
<1>11. ASSUME req.field = "time"
       PROVE  /\ actGot \in Seq(Activity) /\ \A i \in DOMAIN actGot : Chooses(req, actGot[i])
              /\ req.ascending => n <= Len(g) /\ actGot = SubSeq(g, 1, n)
              /\ ~req.ascending =>
                    \A a \in 1..atFirst : Chooses(req, activities[a]) =>
                        \/ \E j \in DOMAIN actGot : actGot[j] = activities[a]
                        \/ \E k \in DOMAIN g : k <= Len(g) - n /\ g[k] = activities[a]
  <2>1. /\ actGot \in Seq(Activity) /\ \A i \in DOMAIN actGot : Chooses(req, actGot[i])
        /\ req.ascending => n <= Len(f) /\ actGot = SubSeq(f, 1, n)
        /\ ~req.ascending =>
              \A a \in 1..atFirst : Chooses(req, activities[a]) =>
                  \/ \E j \in DOMAIN actGot : actGot[j] = activities[a]
                  \/ \E k \in DOMAIN f : k <= Len(f) - n /\ f[k] = activities[a]
    BY <1>1, <1>11 DEF ActivitiesInv, f, n
  <2>2. ASSUME n <= Len(f) PROVE n <= Len(g) /\ SubSeq(f, 1, n) = SubSeq(g, 1, n)
    <3>1. n <= Len(g) /\ \A i \in 1..n : i \in DOMAIN f /\ g[i] = f[i]
      BY <1>9, <1>10, <2>2
    <3>2. SubSeq(f, 1, n) = [i \in 1..n |-> f[i]] /\ SubSeq(g, 1, n) = [i \in 1..n |-> g[i]]
      BY <1>9
    <3> QED BY <3>1, <3>2
  <2>3. ASSUME NEW k \in DOMAIN f, k <= Len(f) - n PROVE k \in DOMAIN g /\ k <= Len(g) - n /\ g[k] = f[k]
    BY <1>9, <1>10, <2>3
  <2> QED BY <2>1, <2>2, <2>3
<1>12. Found(UserNames, activities', actRequest') = g /\ actPage' * actRequest'.limit = n
  BY <1>2 DEF g, n
<1> QED BY <1>1, <1>2, <1>5, <1>7, <1>11, <1>12 DEF ActivitiesInv

\* What the page of activities is promised holds as long as they are read.
LEMMA ActivitiesStep == ActivitiesInv /\ [ListingNext]_actVars => ActivitiesInv'
<1>1. ActivitiesInv /\ UNCHANGED actVars => ActivitiesInv'
  BY DEF ActivitiesInv, actVars
<1> QED BY <1>1, ActivitiesAsk, ActivitiesHappen DEF ListingNext

\* The invariant of the pages of activities has what they promise.
LEMMA ActivitiesPromise == ActivitiesInv => ActivityPagesComplete
<1> SUFFICES ASSUME ActivitiesInv, actEnd, actRequest.field = "time" PROVE ActivityPagesComplete
  BY DEF ActivityPagesComplete
<1> DEFINE req == actRequest
           f == Found(UserNames, activities, req)
<1>1. /\ Logged(activities) /\ atFirst \in 0..Len(activities) /\ req.ascending \in BOOLEAN
      /\ actGot \in Seq(Activity) /\ \A i \in DOMAIN actGot : Chooses(req, actGot[i])
      /\ req.ascending => actGot = f
      /\ ~req.ascending =>
            \A a \in 1..atFirst : Chooses(req, activities[a]) => \E j \in DOMAIN actGot : actGot[j] = activities[a]
  BY ActivitiesAssumption DEF ActivitiesInv
<1>2. /\ Later(f)
      /\ \A a \in DOMAIN activities : Chooses(req, activities[a]) => \E i \in DOMAIN f : f[i] = activities[a]
  BY <1>1, FoundIs
<1>3. GetFilteredActivityCount(UserNames, activities, req) = Len(f)
  BY DEF GetFilteredActivityCount
<1> HIDE DEF f
<1>4. ASSUME NEW a \in 1..atFirst, Meets(req, activities[a]) PROVE activities[a] \in ToSet(actGot)
  <2>1. Chooses(req, activities[a])
    BY <1>4, MeetsIsChosen
  <2>2. a \in DOMAIN activities
    BY <1>1 DEF Logged
  <2>3. \E j \in DOMAIN actGot : actGot[j] = activities[a]
    BY <1>1, <1>2, <2>1, <2>2
  <2> QED BY <2>3 DEF ToSet
<1>5. req.terms = {} => \A i \in DOMAIN actGot : Meets(req, actGot[i])
  BY <1>1, MeetsIsChosen
<1>6. req.ascending => /\ \A i, j \in DOMAIN actGot : i < j => CompareSeq(actGot[i].time, actGot[j].time) < 0
                       /\ GetFilteredActivityCount(UserNames, activities, req) = Len(actGot)
  BY <1>1, <1>2, <1>3 DEF Later
<1> QED BY <1>4, <1>5, <1>6 DEF ActivityPagesComplete, Meets

-----------------------------------------------------------------------------
(* The names of backups.                                                   *)

\* The first token of a name, by itself.
LEMMA FirstToken ==
    ASSUME NEW f \in Seq(Int), Len(f) >= 1
    PROVE  SubSeq(f, 1, 1) = <<f[1]>>
<1> DEFINE r == SubSeq(f, 1, 1)
<1>1. Len(f) \in Nat
  OBVIOUS
<1>2. r \in Seq(Int) /\ Len(r) = 1 /\ r[1] = f[1]
  BY <1>1, SubSeqProperties
<1> HIDE DEF r
<1>3. f[1] \in Int
  BY <1>1
<1>4. \A s \in Seq(Int) : Len(s) = 1 => s = <<s[1]>>
  OBVIOUS
<1>5. r = <<f[1]>>
  BY <1>2, <1>4
<1> QED BY <1>5 DEF r

\* A name starts with a token when that is its first.
LEMMA StartsWith ==
    ASSUME NEW f \in Seq(Int), NEW t \in Int
    PROVE  IsPrefix(<<t>>, f) <=> Len(f) >= 1 /\ f[1] = t
<1>1. Len(f) \in Nat /\ Len(<<t>>) = 1 /\ SubSeq(<<t>>, 1, 1) = <<t>>
  <2>1. <<t>> \in Seq(Int) /\ Len(<<t>>) = 1 /\ <<t>>[1] = t
    OBVIOUS
  <2>2. PICK s : s = <<t>>
    OBVIOUS
  <2>3. s \in Seq(Int) /\ Len(s) = 1 /\ s[1] = t
    BY <2>1, <2>2
  <2>4. SubSeq(s, 1, 1) = <<s[1]>>
    <3>1. Len(s) >= 1
      BY <2>3
    <3> QED BY <2>3, <3>1, FirstToken
  <2> QED BY <2>2, <2>3, <2>4
<1>2. CASE Len(f) >= 1
  <2>1. SubSeq(f, 1, 1) = <<f[1]>>
    BY <1>2, FirstToken
  <2> QED BY <1>1, <1>2, <2>1 DEF IsPrefix
<1>3. CASE ~(Len(f) >= 1)
  BY <1>1, <1>3 DEF IsPrefix
<1> QED BY <1>2, <1>3

\* It ends with one when that is its last.
LEMMA EndsWith ==
    ASSUME NEW f \in Seq(Int), NEW t \in Int, Len(f) >= 1
    PROVE  IsSuffix(<<t>>, f) <=> f[Len(f)] = t
<1> DEFINE r == Reverse(f)
<1>1. Len(f) \in Nat /\ \A i \in 1..Len(f) : f[i] \in Int
  OBVIOUS
<1>2. r = [i \in 1..Len(f) |-> f[(Len(f) - i) + 1]]
  BY DEF Reverse
<1>3. r \in Seq(Int) /\ Len(r) = Len(f) /\ r[1] = f[Len(f)]
  <2>1. \A i \in 1..Len(f) : f[(Len(f) - i) + 1] \in Int
    BY <1>1
  <2> HIDE DEF r
  <2> QED BY <1>1, <1>2, <2>1
<1>4. Reverse(<<t>>) = <<t>>
  BY DEF Reverse
<1> HIDE DEF r
<1>5. IsPrefix(<<t>>, r) <=> Len(r) >= 1 /\ r[1] = t
  BY <1>3, StartsWith
<1> QED BY <1>3, <1>4, <1>5 DEF IsSuffix, r

\* What is left of a name without its first token.
LEMMA WithoutOne ==
    ASSUME NEW f \in Seq(Int), 1 <= Len(f), NEW r, r = SubSeq(f, 2, Len(f))
    PROVE  r \in Seq(Int) /\ Len(r) = Len(f) - 1 /\ \A i \in 1..(Len(f) - 1) : r[i] = f[i + 1]
<1>1. PICK n \in Nat : n = Len(f) /\ n >= 1
  OBVIOUS
<1>2. \A k \in 2..n : f[k] \in Int
  BY <1>1
<1>3. /\ r \in Seq(Int)
      /\ Len(r) = IF 2 <= n THEN n - 2 + 1 ELSE 0
      /\ \A i \in 1..(n - 2 + 1) : r[i] = f[2 + i - 1]
  BY <1>1, <1>2, SubSeqProperties
<1>4. n - 2 + 1 = n - 1 /\ (~(2 <= n) => n - 1 = 0)
  BY <1>1
<1>5. \A i \in 1..(n - 1) : 2 + i - 1 = i + 1
  BY <1>1
<1> QED BY <1>1, <1>3, <1>4, <1>5

\* What is left of it without its first two.
LEMMA WithoutTwo ==
    ASSUME NEW f \in Seq(Int), 2 <= Len(f), NEW r, r = SubSeq(f, 3, Len(f))
    PROVE  r \in Seq(Int) /\ Len(r) = Len(f) - 2 /\ \A i \in 1..(Len(f) - 2) : r[i] = f[i + 2]
<1>1. PICK n \in Nat : n = Len(f) /\ n >= 2
  OBVIOUS
<1>2. \A k \in 3..n : f[k] \in Int
  BY <1>1
<1>3. /\ r \in Seq(Int)
      /\ Len(r) = IF 3 <= n THEN n - 3 + 1 ELSE 0
      /\ \A i \in 1..(n - 3 + 1) : r[i] = f[3 + i - 1]
  BY <1>1, <1>2, SubSeqProperties
<1>4. n - 3 + 1 = n - 2 /\ (~(3 <= n) => n - 2 = 0)
  BY <1>1
<1>5. \A i \in 1..(n - 2) : 3 + i - 1 = i + 2
  BY <1>1
<1> QED BY <1>1, <1>3, <1>4, <1>5

\* A version is read,
LEMMA VersionIsRead ==
    ASSUME NEW st, st.rest \in Seq(Int), Len(st.rest) >= 2, st.rest[1] = COMMIT_PREFIX
    PROVE  Field(st) = [st EXCEPT !.b.commit = st.rest[2], !.rest = SubSeq(st.rest, 3, Len(st.rest))]
<1>1. IsPrefix(<<COMMIT_PREFIX>>, st.rest) /\ ~IsPrefix(<<DATE_PREFIX>>, st.rest)
  BY StartsWith DEF DATE_PREFIX, COMMIT_PREFIX
<1> QED BY <1>1 DEF Field

\* or a date,
LEMMA DateIsRead ==
    ASSUME NEW st, st.rest \in Seq(Int), Len(st.rest) >= 2, st.rest[1] = DATE_PREFIX, IsDate(st.rest[2])
    PROVE  Field(st) = [st EXCEPT !.b.date = st.rest[2], !.bad = FALSE,
                                  !.rest = SubSeq(st.rest, 3, Len(st.rest))]
<1>1. IsPrefix(<<DATE_PREFIX>>, st.rest) /\ ~IsPrefix(<<COMMIT_PREFIX>>, st.rest)
  BY StartsWith DEF DATE_PREFIX, COMMIT_PREFIX
<1>2. ~IsDate(st.rest[2]) = FALSE
  OBVIOUS
<1> QED BY <1>1, <1>2 DEF Field

\* or nothing.
LEMMA NothingIsRead ==
    ASSUME NEW st, st.rest \in Seq(Int), Len(st.rest) >= 1, st.rest[1] = SUFFIX
    PROVE  Field(st) = st
<1>1. ~IsPrefix(<<DATE_PREFIX>>, st.rest) /\ ~IsPrefix(<<COMMIT_PREFIX>>, st.rest)
  BY StartsWith DEF DATE_PREFIX, COMMIT_PREFIX, SUFFIX
<1> QED BY <1>1 DEF Field

\* The names made by makeBackup and by an upload.
IsMadeName(f, d, c) ==
    /\ f \in Seq(Int) /\ Len(f) = 6 /\ f[1] = PREFIX /\ f[2] = COMMIT_PREFIX /\ f[3] = c
    /\ f[4] = DATE_PREFIX /\ f[5] = d /\ f[6] = SUFFIX
IsUploadName(f, d) ==
    /\ f \in Seq(Int) /\ Len(f) = 5 /\ f[1] = UPLOAD_PREFIX /\ f[2] = PREFIX
    /\ f[3] = DATE_PREFIX /\ f[4] = d /\ f[5] = SUFFIX

\* Names are put together token by token.
AreJoined(f, g, h) ==
    /\ h \in Seq(Int) /\ Len(h) = Len(f) + Len(g)
    /\ \A i \in 1..Len(f) : h[i] = f[i]
    /\ \A i \in 1..Len(g) : h[i + Len(f)] = g[i]

\* Joining two sequences does that.
LEMMA Joined ==
    ASSUME NEW f \in Seq(Int), NEW g \in Seq(Int), NEW h, h = f \o g
    PROVE  AreJoined(f, g, h)
BY DEF AreJoined

\* A backup's name has its version and its date.
LEMMA MadeName ==
    ASSUME NEW d \in Int, NEW c \in Int, c # NoCommit,
           NEW b, b = [date |-> d, commit |-> c, upload |-> FALSE]
    PROVE  IsMadeName(String(b), d, c)
<1> DEFINE one == <<PREFIX>>
           two == <<COMMIT_PREFIX, c>>
           three == <<DATE_PREFIX, d, SUFFIX>>
           half == one \o two
           f == half \o three
<1>0. PREFIX \in Int /\ COMMIT_PREFIX \in Int /\ DATE_PREFIX \in Int /\ SUFFIX \in Int
  BY DEF PREFIX, COMMIT_PREFIX, DATE_PREFIX, SUFFIX
<1>1. one \in Seq(Int) /\ Len(one) = 1 /\ one[1] = PREFIX
  BY <1>0
<1>2. two \in Seq(Int) /\ Len(two) = 2 /\ two[1] = COMMIT_PREFIX /\ two[2] = c
  BY <1>0
<1>3. three \in Seq(Int) /\ Len(three) = 3 /\ three[1] = DATE_PREFIX /\ three[2] = d /\ three[3] = SUFFIX
  BY <1>0
<1>4. String(b) = f
  <2>1. <<>> \o one = one
    BY <1>1, ConcatEmptySeq
  <2>2. String(b) = ((<<>> \o one) \o two) \o three
    BY DEF String
  <2> QED BY <2>1, <2>2
<1> HIDE DEF one, two, three
<1>5. half \in Seq(Int) /\ Len(half) = 3 /\ half[1] = PREFIX /\ half[2] = COMMIT_PREFIX /\ half[3] = c
  <2>0. AreJoined(one, two, half)
    BY <1>1, <1>2, Joined
  <2> HIDE DEF half
  <2>1. /\ half \in Seq(Int) /\ Len(half) = Len(one) + Len(two)
        /\ \A i \in 1..Len(one) : half[i] = one[i]
        /\ \A i \in 1..Len(two) : half[i + Len(one)] = two[i]
    BY <2>0 DEF AreJoined
  <2>2. half[1] = one[1] /\ half[1 + 1] = two[1] /\ half[2 + 1] = two[2]
    BY <1>1, <1>2, <2>1
  <2> QED BY <1>1, <1>2, <2>1, <2>2
<1> HIDE DEF half
<1>a. AreJoined(half, three, f)
  BY <1>3, <1>5, Joined
<1> HIDE DEF f
<1>6. /\ f \in Seq(Int) /\ Len(f) = Len(half) + Len(three)
      /\ \A i \in 1..Len(half) : f[i] = half[i]
      /\ \A i \in 1..Len(three) : f[i + Len(half)] = three[i]
  BY <1>a DEF AreJoined
<1>7. /\ f[1] = half[1] /\ f[2] = half[2] /\ f[3] = half[3]
      /\ f[1 + 3] = three[1] /\ f[2 + 3] = three[2] /\ f[3 + 3] = three[3]
  BY <1>3, <1>5, <1>6
<1>8. Len(f) = 6 /\ f[4] = DATE_PREFIX /\ f[5] = d /\ f[6] = SUFFIX
  BY <1>3, <1>5, <1>6, <1>7
<1> QED BY <1>4, <1>5, <1>6, <1>7, <1>8 DEF IsMadeName

\* An uploaded one's has its date.
LEMMA UploadName ==
    ASSUME NEW d \in Int, NEW b, b = [date |-> d, commit |-> NoCommit, upload |-> TRUE]
    PROVE  IsUploadName(String(b), d)
<1> DEFINE one == <<UPLOAD_PREFIX>>
           two == <<PREFIX>>
           three == <<DATE_PREFIX, d, SUFFIX>>
           half == one \o two
           f == half \o three
<1>0. PREFIX \in Int /\ UPLOAD_PREFIX \in Int /\ DATE_PREFIX \in Int /\ SUFFIX \in Int
  BY DEF PREFIX, UPLOAD_PREFIX, DATE_PREFIX, SUFFIX
<1>1. one \in Seq(Int) /\ Len(one) = 1 /\ one[1] = UPLOAD_PREFIX
  BY <1>0
<1>2. two \in Seq(Int) /\ Len(two) = 1 /\ two[1] = PREFIX
  BY <1>0
<1>3. three \in Seq(Int) /\ Len(three) = 3 /\ three[1] = DATE_PREFIX /\ three[2] = d /\ three[3] = SUFFIX
  BY <1>0
<1>5. half \in Seq(Int) /\ Len(half) = 2 /\ half[1] = UPLOAD_PREFIX /\ half[2] = PREFIX
  <2> HIDE DEF one, two
  <2>0. AreJoined(one, two, half)
    BY <1>1, <1>2, Joined
  <2> HIDE DEF half
  <2>1. /\ half \in Seq(Int) /\ Len(half) = Len(one) + Len(two)
        /\ \A i \in 1..Len(one) : half[i] = one[i]
        /\ \A i \in 1..Len(two) : half[i + Len(one)] = two[i]
    BY <2>0 DEF AreJoined
  <2>2. half[1] = one[1] /\ half[1 + 1] = two[1]
    BY <1>1, <1>2, <2>1
  <2> QED BY <1>1, <1>2, <2>1, <2>2
<1>4. String(b) = f
  <2>1. half \o <<>> = half
    BY <1>5, ConcatEmptySeq
  <2>2. String(b) = ((one \o two) \o <<>>) \o three
    BY DEF String
  <2> QED BY <2>1, <2>2
<1> HIDE DEF half, three
<1>a. AreJoined(half, three, f)
  BY <1>3, <1>5, Joined
<1> HIDE DEF f
<1>6. /\ f \in Seq(Int) /\ Len(f) = Len(half) + Len(three)
      /\ \A i \in 1..Len(half) : f[i] = half[i]
      /\ \A i \in 1..Len(three) : f[i + Len(half)] = three[i]
  BY <1>a DEF AreJoined
<1>7. /\ f[1] = half[1] /\ f[2] = half[2]
      /\ f[1 + 2] = three[1] /\ f[2 + 2] = three[2] /\ f[3 + 2] = three[3]
  BY <1>3, <1>5, <1>6
<1>8. Len(f) = 5 /\ f[3] = DATE_PREFIX /\ f[4] = d /\ f[5] = SUFFIX
  BY <1>3, <1>5, <1>6, <1>7
<1> QED BY <1>4, <1>5, <1>6, <1>7, <1>8 DEF IsUploadName

\* What a name says, by the steps of reading it.
LEMMA Reading ==
    ASSUME NEW f, NEW start, start = Without(f, <<UPLOAD_PREFIX>>),
           NEW st, st = [b |-> [Zero EXCEPT !.upload = start # f],
                         rest |-> Without(start, <<PREFIX>>), bad |-> FALSE],
           NEW last, last = Field(Field(st)),
           IsPrefix(<<PREFIX>>, start), IsSuffix(<<SUFFIX>>, f), last.bad = FALSE, last.b.date # NoDate
    PROVE  FromString(f) = last.b
<1>1. FromString(f) = IF ~IsPrefix(<<PREFIX>>, start) \/ ~IsSuffix(<<SUFFIX>>, f) \/ last.bad THEN Zero
                      ELSE IF last.b.date = NoDate THEN FromOldString(f, last.b) ELSE last.b
  BY Zenon DEF FromString
<1>2. ~last.bad
  OBVIOUS
<1> QED BY <1>1, <1>2

\* The name of a backup that was made says when and by which version.
LEMMA MadeIsRead ==
    ASSUME NEW d \in 1..(Commit - 1), NEW c \in Nat \ {0}, NEW f, IsMadeName(f, d, c)
    PROVE  FromString(f) = [date |-> d, commit |-> c, upload |-> FALSE]
<1>0. d \in Int /\ c \in Int /\ IsDate(d) /\ d # NoDate
  BY DEF IsDate, Commit, NoDate
<1>1. /\ f \in Seq(Int) /\ Len(f) = 6 /\ f[1] = PREFIX /\ f[2] = COMMIT_PREFIX /\ f[3] = c
      /\ f[4] = DATE_PREFIX /\ f[5] = d /\ f[6] = SUFFIX
  BY DEF IsMadeName
<1>2. PREFIX \in Int /\ SUFFIX \in Int /\ UPLOAD_PREFIX \in Int /\ PREFIX # UPLOAD_PREFIX
  BY DEF PREFIX, SUFFIX, UPLOAD_PREFIX
<1>3. ~IsPrefix(<<UPLOAD_PREFIX>>, f) /\ IsPrefix(<<PREFIX>>, f) /\ IsSuffix(<<SUFFIX>>, f)
  <2>1. Len(f) >= 1
    BY <1>1
  <2>2. ~IsPrefix(<<UPLOAD_PREFIX>>, f)
    BY <1>1, <1>2, StartsWith
  <2>3. IsPrefix(<<PREFIX>>, f)
    BY <1>1, <1>2, <2>1, StartsWith
  <2>4. IsSuffix(<<SUFFIX>>, f)
    BY <1>1, <1>2, <2>1, EndsWith
  <2> QED BY <2>2, <2>3, <2>4
<1>4. Without(f, <<UPLOAD_PREFIX>>) = f
  BY <1>3 DEF Without
<1>5. PICK r : r = Without(f, <<PREFIX>>)
  OBVIOUS
<1>6. r \in Seq(Int) /\ Len(r) = 5 /\ \A i \in 1..5 : r[i] = f[i + 1]
  <2>1. r = SubSeq(f, 2, Len(f)) /\ 1 <= Len(f)
    <3>1. Len(<<PREFIX>>) + 1 = 2
      OBVIOUS
    <3> QED BY <1>1, <1>3, <1>5, <3>1 DEF Without
  <2>2. r \in Seq(Int) /\ Len(r) = Len(f) - 1 /\ \A i \in 1..(Len(f) - 1) : r[i] = f[i + 1]
    BY <1>1, <2>1, WithoutOne
  <2> QED BY <1>1, <2>2
<1>a. r[1] = COMMIT_PREFIX /\ r[2] = c /\ r[3] = DATE_PREFIX /\ r[4] = d /\ r[5] = SUFFIX
  BY <1>1, <1>6
<1>7. PICK s : s = SubSeq(r, 3, Len(r))
  OBVIOUS
<1>8. s \in Seq(Int) /\ Len(s) = 3 /\ s[1] = r[3] /\ s[2] = r[4] /\ s[3] = r[5]
  <2>1. 2 <= Len(r)
    BY <1>6
  <2>2. s \in Seq(Int) /\ Len(s) = Len(r) - 2 /\ \A i \in 1..(Len(r) - 2) : s[i] = r[i + 2]
    BY <1>6, <1>7, <2>1, WithoutTwo
  <2> QED BY <1>6, <2>2
<1>9. PICK st : st = [b |-> [Zero EXCEPT !.upload = f # f], rest |-> r, bad |-> FALSE]
  OBVIOUS
<1>10. PICK next : next = Field(st)
  OBVIOUS
<1>11. PICK last : last = Field(next)
  OBVIOUS
<1>12. st.rest = r /\ st.b = [date |-> 0, commit |-> 0, upload |-> FALSE]
  <2>1. (f # f) = FALSE
    OBVIOUS
  <2> QED BY <1>9, <2>1 DEF Zero, NoDate, NoCommit
<1>13. next = [st EXCEPT !.b.commit = c, !.rest = s]
  <2>1. Len(st.rest) >= 2 /\ st.rest[1] = COMMIT_PREFIX /\ st.rest[2] = c /\ st.rest \in Seq(Int)
    <3>1. Len(r) >= 2
      BY <1>6
    <3> QED BY <1>6, <1>a, <1>12, <3>1
  <2>2. next = [st EXCEPT !.b.commit = st.rest[2], !.rest = SubSeq(st.rest, 3, Len(st.rest))]
    BY <1>10, <2>1, VersionIsRead
  <2> QED BY <1>7, <1>12, <2>1, <2>2
<1>14. next.rest = s /\ next.b = [date |-> 0, commit |-> c, upload |-> FALSE]
  BY <1>9, <1>12, <1>13
<1>15. last = [next EXCEPT !.b.date = d, !.bad = FALSE, !.rest = SubSeq(s, 3, Len(s))]
  <2>1. Len(next.rest) >= 2 /\ next.rest[1] = DATE_PREFIX /\ next.rest[2] = d /\ next.rest \in Seq(Int)
    <3>1. Len(s) >= 2
      BY <1>8
    <3> QED BY <1>8, <1>a, <1>14, <3>1
  <2>2. IsDate(next.rest[2])
    BY <1>0, <2>1
  <2>3. last = [next EXCEPT !.b.date = next.rest[2], !.bad = FALSE, !.rest = SubSeq(next.rest, 3, Len(next.rest))]
    BY <1>11, <2>1, <2>2, DateIsRead
  <2> QED BY <1>14, <2>1, <2>3
<1>16. last.bad = FALSE /\ last.b = [date |-> d, commit |-> c, upload |-> FALSE]
  BY <1>9, <1>13, <1>14, <1>15
<1>17. last = Field(Field(st)) /\ last.b.date # NoDate
  BY <1>0, <1>10, <1>11, <1>16
<1>18. st = [b |-> [Zero EXCEPT !.upload = f # f], rest |-> Without(f, <<PREFIX>>), bad |-> FALSE]
  BY <1>5, <1>9
<1>19. FromString(f) = last.b
  BY <1>3, <1>4, <1>16, <1>17, <1>18, Reading, Zenon
<1> QED BY <1>16, <1>19

\* The name of an uploaded one says when.
LEMMA UploadIsRead ==
    ASSUME NEW d \in 1..(Commit - 1), NEW f, IsUploadName(f, d)
    PROVE  FromString(f) = [date |-> d, commit |-> NoCommit, upload |-> TRUE]
<1>0. d \in Int /\ IsDate(d) /\ d # NoDate
  BY DEF IsDate, Commit, NoDate
<1>1. /\ f \in Seq(Int) /\ Len(f) = 5 /\ f[1] = UPLOAD_PREFIX /\ f[2] = PREFIX
      /\ f[3] = DATE_PREFIX /\ f[4] = d /\ f[5] = SUFFIX
  BY DEF IsUploadName
<1>2. PREFIX \in Int /\ SUFFIX \in Int /\ UPLOAD_PREFIX \in Int /\ PREFIX # UPLOAD_PREFIX
  BY DEF PREFIX, SUFFIX, UPLOAD_PREFIX
<1>3. IsPrefix(<<UPLOAD_PREFIX>>, f) /\ IsSuffix(<<SUFFIX>>, f)
  <2>1. Len(f) >= 1
    BY <1>1
  <2>2. IsPrefix(<<UPLOAD_PREFIX>>, f)
    BY <1>1, <1>2, <2>1, StartsWith
  <2>3. IsSuffix(<<SUFFIX>>, f)
    BY <1>1, <1>2, <2>1, EndsWith
  <2> QED BY <2>2, <2>3
<1>4. PICK start : start = Without(f, <<UPLOAD_PREFIX>>)
  OBVIOUS
<1>5. start \in Seq(Int) /\ Len(start) = 4 /\ \A i \in 1..4 : start[i] = f[i + 1]
  <2>1. start = SubSeq(f, 2, Len(f)) /\ 1 <= Len(f)
    <3>1. Len(<<UPLOAD_PREFIX>>) + 1 = 2
      OBVIOUS
    <3> QED BY <1>1, <1>3, <1>4, <3>1 DEF Without
  <2>2. start \in Seq(Int) /\ Len(start) = Len(f) - 1 /\ \A i \in 1..(Len(f) - 1) : start[i] = f[i + 1]
    BY <1>1, <2>1, WithoutOne
  <2> QED BY <1>1, <2>2
<1>6. start[1] = PREFIX /\ start[2] = DATE_PREFIX /\ start[3] = d /\ start[4] = SUFFIX
  BY <1>1, <1>5
<1>7. IsPrefix(<<PREFIX>>, start)
  <2>1. Len(start) >= 1
    BY <1>5
  <2> QED BY <1>2, <1>5, <1>6, <2>1, StartsWith
<1>8. PICK r : r = Without(start, <<PREFIX>>)
  OBVIOUS
<1>9. r \in Seq(Int) /\ Len(r) = 3 /\ \A i \in 1..3 : r[i] = start[i + 1]
  <2>1. r = SubSeq(start, 2, Len(start)) /\ 1 <= Len(start)
    <3>1. Len(<<PREFIX>>) + 1 = 2
      OBVIOUS
    <3> QED BY <1>5, <1>7, <1>8, <3>1 DEF Without
  <2>2. r \in Seq(Int) /\ Len(r) = Len(start) - 1 /\ \A i \in 1..(Len(start) - 1) : r[i] = start[i + 1]
    BY <1>5, <2>1, WithoutOne
  <2> QED BY <1>5, <2>2
<1>10. r[1] = DATE_PREFIX /\ r[2] = d /\ r[3] = SUFFIX
  BY <1>6, <1>9
<1>11. PICK s : s = SubSeq(r, 3, Len(r))
  OBVIOUS
<1>12. s \in Seq(Int) /\ Len(s) = 1 /\ s[1] = SUFFIX
  <2>1. 2 <= Len(r)
    BY <1>9
  <2>2. s \in Seq(Int) /\ Len(s) = Len(r) - 2 /\ \A i \in 1..(Len(r) - 2) : s[i] = r[i + 2]
    BY <1>9, <1>11, <2>1, WithoutTwo
  <2> QED BY <1>9, <1>10, <2>2
<1>13. PICK st : st = [b |-> [Zero EXCEPT !.upload = start # f], rest |-> r, bad |-> FALSE]
  OBVIOUS
<1>14. PICK next : next = Field(st)
  OBVIOUS
<1>15. st.rest = r /\ st.b = [date |-> 0, commit |-> NoCommit, upload |-> TRUE]
  <2>1. (start # f) = TRUE
    <3>1. Len(start) # Len(f)
      BY <1>1, <1>5
    <3> QED BY <3>1
  <2> QED BY <1>13, <2>1 DEF Zero, NoDate, NoCommit
<1>16. next = [st EXCEPT !.b.date = d, !.bad = FALSE, !.rest = s]
  <2>1. Len(st.rest) >= 2 /\ st.rest[1] = DATE_PREFIX /\ st.rest[2] = d /\ st.rest \in Seq(Int)
    <3>1. Len(r) >= 2
      BY <1>9
    <3> QED BY <1>9, <1>10, <1>15, <3>1
  <2>2. IsDate(st.rest[2])
    BY <1>0, <2>1
  <2>3. next = [st EXCEPT !.b.date = st.rest[2], !.bad = FALSE, !.rest = SubSeq(st.rest, 3, Len(st.rest))]
    BY <1>14, <2>1, <2>2, DateIsRead
  <2> QED BY <1>11, <1>15, <2>1, <2>3
<1>17. next.rest = s /\ next.bad = FALSE /\ next.b = [date |-> d, commit |-> NoCommit, upload |-> TRUE]
  BY <1>13, <1>15, <1>16
<1>18. Field(next) = next
  <2>1. Len(next.rest) >= 1 /\ next.rest[1] = SUFFIX /\ next.rest \in Seq(Int)
    <3>1. Len(s) >= 1
      BY <1>12
    <3> QED BY <1>12, <1>17, <3>1
  <2> QED BY <2>1, NothingIsRead
<1>19. next = Field(Field(st)) /\ next.b.date # NoDate
  BY <1>0, <1>14, <1>17, <1>18
<1>20. st = [b |-> [Zero EXCEPT !.upload = start # f], rest |-> Without(start, <<PREFIX>>), bad |-> FALSE]
  BY <1>8, <1>13
<1>21. FromString(f) = next.b
  BY <1>3, <1>4, <1>7, <1>17, <1>19, <1>20, Reading, Zenon
<1> QED BY <1>17, <1>21

\* Made and uploaded backups.
MadeType == [date : 1..(Commit - 1), commit : Nat \ {0}, upload : {FALSE}]
UploadType == [date : 1..(Commit - 1), commit : {NoCommit}, upload : {TRUE}]

\* Their names say what they are.
LEMMA NamedAsIs ==
    ASSUME NEW b \in MadeType \cup UploadType
    PROVE  FromString(String(b)) = b /\ String(b) \in Seq(Int) /\ b \in BackupType /\ b # Zero
<1>1. CASE b \in MadeType
  <2>1. PICK d \in 1..(Commit - 1), c \in Nat \ {0} : b = [date |-> d, commit |-> c, upload |-> FALSE]
    BY <1>1 DEF MadeType
  <2>2. d \in Int /\ c \in Int /\ c # NoCommit
    BY DEF NoCommit
  <2>3. IsMadeName(String(b), d, c)
    BY <2>1, <2>2, MadeName
  <2>4. FromString(String(b)) = b
    BY <2>1, <2>3, MadeIsRead
  <2>5. b \in BackupType /\ b # Zero
    BY <1>1, <2>1 DEF MadeType, BackupType, Zero, NoDate
  <2> QED BY <2>3, <2>4, <2>5 DEF IsMadeName
<1>2. CASE b \in UploadType
  <2>1. PICK d \in 1..(Commit - 1) : b = [date |-> d, commit |-> NoCommit, upload |-> TRUE]
    BY <1>2 DEF UploadType
  <2>2. d \in Int
    OBVIOUS
  <2>3. IsUploadName(String(b), d)
    BY <2>1, <2>2, UploadName
  <2>4. FromString(String(b)) = b
    BY <2>1, <2>3, UploadIsRead
  <2>5. b \in BackupType /\ b # Zero
    BY <1>2, <2>1 DEF UploadType, BackupType, Zero, NoDate, NoCommit
  <2> QED BY <2>3, <2>4, <2>5 DEF IsUploadName
<1> QED BY <1>1, <1>2

-----------------------------------------------------------------------------
(* The list of a directory.                                                *)

\* The files that are backups, and what their names say.
BackupFiles(files) == {f \in files : IsBackup(Entry(f))}
Infos(files) == {FromString(f) : f \in BackupFiles(files)}

\* Names that are sequences of tokens; no two backups say the same.
WellNamed(files) ==
    /\ IsFiniteSet(files) /\ \A f \in files : f \in Seq(Int)
    /\ \A f \in BackupFiles(files) : FromString(f) \in BackupType
    /\ \A f, g \in BackupFiles(files) : FromString(f) = FromString(g) => f = g

\* The entries of the list, and their order.
Entries(files) == {Entry(f) : f \in files}
Earlier(d, e) == Less(d, e) \/ (~Less(e, d) /\ Before(d.name, e.name))
Listing(files) == {p \in Entries(files) \X Entries(files) : Earlier(p[1], p[2])}

\* When an entry comes: by its date, or after all dates.
When(e) == IF IsBackup(e) THEN e.info.date ELSE Commit

\* Names are read one before the other.
LEMMA NamesOrdered ==
    ASSUME NEW f \in Seq(Int), NEW g \in Seq(Int), NEW h \in Seq(Int)
    PROVE  /\ ~Before(f, f)
           /\ f # g => Before(f, g) \/ Before(g, f)
           /\ Before(f, g) /\ Before(g, h) => Before(f, h)
<1>1. \A a, b \in Seq(Int) : /\ Before(a, b) <=> CompareSeq(a, b) = -1
                             /\ CompareSeq(a, b) \in {-1, 0, 1}
                             /\ CompareSeq(a, b) = 0 <=> a = b
                             /\ CompareSeq(a, b) = -1 <=> Lesser(a, b)
                             /\ CompareSeq(a, b) = 1 <=> Lesser(b, a)
  BY BeforeIs, Compared
<1>2. \A a, b \in Seq(Int) : (Before(a, b) <=> Lesser(a, b)) /\ (a # b => Lesser(a, b) \/ Lesser(b, a))
  BY <1>1
<1>3. ~Lesser(f, f)
  BY UnderStrict
<1>4. Lesser(f, g) /\ Lesser(g, h) => Lesser(f, h)
  BY UnderTransitive
<1> QED BY <1>2, <1>3, <1>4

\* Entries are dated, and differ in their names.
LEMMA EntryIs ==
    ASSUME NEW files, WellNamed(files), NEW e \in Entries(files)
    PROVE  /\ e = Entry(e.name) /\ e.name \in files /\ e.name \in Seq(Int) /\ e.info = FromString(e.name)
           /\ When(e) \in Nat /\ When(e) <= Commit
           /\ IsBackup(e) <=> When(e) < Commit
           /\ IsBackup(e) => e.name \in BackupFiles(files) /\ e.info.date = When(e)
<1>1. PICK f \in files : e = Entry(f)
  BY DEF Entries
<1>2. e.name = f /\ e.info = FromString(f)
  BY <1>1 DEF Entry
<1>3. IsBackup(e) => f \in BackupFiles(files) /\ e.info \in BackupType
  BY <1>1, <1>2 DEF BackupFiles, WellNamed
<1>4. IsBackup(e) => e.info.date \in 1..(Commit - 1)
  BY <1>3 DEF BackupType
<1>5. Commit \in Nat
  BY DEF Commit
<1>6. f \in Seq(Int)
  BY DEF WellNamed
<1>7. CASE IsBackup(e)
  <2>1. When(e) = e.info.date
    BY <1>7 DEF When
  <2> QED BY <1>1, <1>2, <1>3, <1>4, <1>5, <1>6, <1>7, <2>1
<1>8. CASE ~IsBackup(e)
  <2>1. When(e) = Commit
    BY <1>8 DEF When
  <2> QED BY <1>1, <1>2, <1>5, <1>6, <1>8, <2>1
<1> QED BY <1>7, <1>8

\* An entry is earlier by its date, or else by its name.
LEMMA EarlierIs ==
    ASSUME NEW files, WellNamed(files), NEW d \in Entries(files), NEW e \in Entries(files)
    PROVE  Earlier(d, e) <=> When(d) < When(e) \/ (When(d) = When(e) /\ Before(d.name, e.name))
<1>1. /\ When(d) \in Nat /\ When(d) <= Commit
      /\ IsBackup(d) <=> When(d) < Commit
      /\ IsBackup(d) => d.info.date = When(d)
      /\ When(e) \in Nat /\ When(e) <= Commit
      /\ IsBackup(e) <=> When(e) < Commit
      /\ IsBackup(e) => e.info.date = When(e)
  BY EntryIs
<1>2. Commit \in Nat
  BY DEF Commit
<1>3. Less(d, e) <=> When(d) < When(e)
  BY <1>1, <1>2 DEF Less
<1>4. Less(e, d) <=> When(e) < When(d)
  BY <1>1, <1>2 DEF Less
<1> QED BY <1>1, <1>3, <1>4 DEF Earlier

\* So the list is in an order of all entries.
LEMMA ListingOrders ==
    ASSUME NEW files, WellNamed(files)
    PROVE  Orders(Listing(files), Entries(files))
<1> DEFINE E == Entries(files)
<1>1. \A d, e \in E : <<d, e>> \in Listing(files) <=> Earlier(d, e)
  BY DEF Listing
<1>2. \A d, e \in E : Earlier(d, e) <=> When(d) < When(e) \/ (When(d) = When(e) /\ Before(d.name, e.name))
  BY EarlierIs
<1>3. \A e \in E : When(e) \in Nat /\ e.name \in Seq(Int) /\ e = Entry(e.name)
  BY EntryIs
<1>4. \A d \in E : <<d, d>> \notin Listing(files)
  <2> TAKE d \in E
  <2>1. ~Before(d.name, d.name) /\ ~(When(d) < When(d))
    BY <1>3, NamesOrdered
  <2> QED BY <1>1, <1>2, <2>1
<1>5. ASSUME NEW d \in E, NEW e \in E, d # e
      PROVE  <<d, e>> \in Listing(files) \/ <<e, d>> \in Listing(files)
  <2>1. d.name # e.name
    BY <1>3, <1>5
  <2>2. Before(d.name, e.name) \/ Before(e.name, d.name)
    BY <1>3, <2>1, NamesOrdered
  <2>3. When(d) < When(e) \/ When(e) < When(d) \/ When(d) = When(e)
    BY <1>3
  <2>4. Earlier(d, e) \/ Earlier(e, d)
    BY <1>2, <2>2, <2>3
  <2> QED BY <1>1, <2>4
<1>6. ASSUME NEW c \in E, NEW d \in E, NEW e \in E,
             <<c, d>> \in Listing(files), <<d, e>> \in Listing(files)
      PROVE  <<c, e>> \in Listing(files)
  <2>1. Earlier(c, d) /\ Earlier(d, e)
    BY <1>1, <1>6
  <2>2. Before(c.name, d.name) /\ Before(d.name, e.name) => Before(c.name, e.name)
    BY <1>3, NamesOrdered
  <2>3. When(c) < When(d) \/ (When(c) = When(d) /\ Before(c.name, d.name))
    BY <1>2, <2>1
  <2>4. When(d) < When(e) \/ (When(d) = When(e) /\ Before(d.name, e.name))
    BY <1>2, <2>1
  <2>5. When(c) \in Nat /\ When(d) \in Nat /\ When(e) \in Nat
    BY <1>3
  <2>6. When(c) < When(e) \/ (When(c) = When(e) /\ Before(c.name, e.name))
    BY <2>2, <2>3, <2>4, <2>5
  <2>7. Earlier(c, e)
    BY <1>2, <2>6
  <2> QED BY <1>1, <2>7
<1> HIDE DEF E
<1> QED BY <1>4, <1>5, <1>6, Zenon DEF Orders, E

\* Numbers without gaps are those up to how many they are.
LEMMA Gapless ==
    ASSUME NEW n \in Nat, NEW s \in SUBSET (1..n), \A i \in s : \A j \in 1..i : j \in s
    PROVE  Cardinality(s) \in 0..n /\ s = 1..Cardinality(s)
<1>1. \E m \in 0..n : s = 1..m
  <2>1. CASE s = {}
    <3>1. s = 1..0 /\ 0 \in 0..n
      BY <2>1
    <3> QED BY <3>1
  <2>2. CASE s # {}
    <3>1. PICK m : m = Max(s)
      OBVIOUS
    <3>2. m \in s /\ \A y \in s : y <= m
      BY <2>2, <3>1, Greatest
    <3>3. m \in 1..n /\ m \in 0..n /\ \A y \in s : y \in 1..m
      BY <3>2
    <3>4. \A j \in 1..m : j \in s
      BY <3>2
    <3>5. s = 1..m
      BY <3>3, <3>4
    <3> QED BY <3>3, <3>5
  <2> QED BY <2>1, <2>2
<1>2. PICK m \in 0..n : s = 1..m
  BY <1>1
<1>3. Cardinality(1..m) = m
  BY FS_Interval
<1> QED BY <1>2, <1>3

\* A list has all files, the backups first, by their dates.
BackupOrder(files, list, m) ==
    /\ list \in Seq(Entries(files)) /\ m \in 0..Len(list)
    /\ \A i \in 1..Len(list) : IsBackup(list[i]) <=> i <= m
    /\ \A i \in 1..m : list[i].name \in BackupFiles(files) /\ list[i].info = FromString(list[i].name)
    /\ \A f \in BackupFiles(files) : \E i \in 1..m : list[i].name = f
    /\ \A i, j \in 1..m : i < j => list[i].info.date <= list[j].info.date
    /\ \A i, j \in 1..m : i # j => list[i].name # list[j].name

\* Such is the list that getBackups makes.
LEMMA ListIs ==
    ASSUME NEW files, WellNamed(files), NEW list, list = getBackups(files)
    PROVE  BackupOrder(files, list, Count(list))
<1> DEFINE E == Entries(files)
           N == Cardinality(E)
           m == Count(list)
<1>1. IsFiniteSet(E) /\ N \in Nat
  <2>1. IsFiniteSet(files)
    BY DEF WellNamed
  <2> DEFINE e == [f \in files |-> Entry(f)]
  <2>2. e \in Surjection(files, E)
    BY DEF Entries, Surjection
  <2> HIDE DEF e
  <2>3. IsFiniteSet(E)
    BY <2>1, <2>2, FS_Surjection
  <2> QED BY <2>3, FS_CardinalityType
<1>2. list = Ranked(E, Listing(files))
  BY DEF getBackups, Entries, Listing, Earlier
<1>3. InOrder(list, E, Listing(files))
  <2> HIDE DEF E
  <2>1. Orders(Listing(files), E)
    BY ListingOrders DEF E
  <2> QED BY <1>1, <1>2, <2>1, RankedIs
<1>4. /\ list \in [1..N -> E] /\ DOMAIN list = 1..N
      /\ \A x \in E : \E i \in 1..N : list[i] = x
      /\ \A i, j \in 1..N : i < j => <<list[i], list[j]>> \in Listing(files)
  BY <1>3 DEF InOrder
<1> HIDE DEF N, m
<1>5. list \in Seq(E) /\ Len(list) = N /\ \A i \in 1..N : list[i] \in E
  BY <1>1, <1>4
<1>6. \A i \in 1..N : /\ When(list[i]) \in Nat
                      /\ IsBackup(list[i]) <=> When(list[i]) < Commit
                      /\ list[i] = Entry(list[i].name) /\ list[i].info = FromString(list[i].name)
                      /\ IsBackup(list[i]) => list[i].name \in BackupFiles(files) /\ list[i].info.date = When(list[i])
  BY <1>5, EntryIs
<1>7. \A i, j \in 1..N : i < j => When(list[i]) <= When(list[j]) /\ list[i].name # list[j].name
  <2> SUFFICES ASSUME NEW i \in 1..N, NEW j \in 1..N, i < j
               PROVE  When(list[i]) <= When(list[j]) /\ list[i].name # list[j].name
    OBVIOUS
  <2>1. <<list[i], list[j]>> \in Listing(files)
    BY <1>4
  <2>2. Earlier(list[i], list[j])
    BY <2>1 DEF Listing
  <2>3. list[i] \in Entries(files) /\ list[j] \in Entries(files)
    BY <1>5
  <2>4. When(list[i]) < When(list[j]) \/ (When(list[i]) = When(list[j]) /\ Before(list[i].name, list[j].name))
    BY <2>2, <2>3, EarlierIs
  <2>5. When(list[i]) \in Nat /\ When(list[j]) \in Nat
    BY <1>6
  <2>6. When(list[i]) <= When(list[j])
    BY <2>4, <2>5
  <2>7. ASSUME list[i].name = list[j].name PROVE FALSE
    <3>1. list[i] = list[j]
      BY <1>6, <2>7
    <3>2. <<list[i], list[i]>> \notin Listing(files)
      BY <2>3, ListingOrders DEF Orders
    <3> QED BY <2>1, <3>1, <3>2
  <2> QED BY <2>6, <2>7
<1> DEFINE s == {i \in DOMAIN list : IsBackup(list[i])}
<1>8. s \in SUBSET (1..N) /\ m = Cardinality(s)
  BY <1>4 DEF Count, m
<1>9. m \in 0..N /\ s = 1..m
  <2>1. ASSUME NEW i \in s, NEW j \in 1..i PROVE j \in s
    <3>1. i \in 1..N /\ j \in 1..N /\ (j = i \/ j < i)
      BY <1>1, <1>8
    <3>2. When(list[j]) <= When(list[i]) /\ When(list[i]) < Commit /\ IsBackup(list[i])
      BY <1>6, <1>7, <3>1
    <3>3. When(list[j]) < Commit
      <4>1. When(list[j]) \in Nat /\ When(list[i]) \in Nat /\ Commit \in Nat
        BY <1>6, <3>1 DEF Commit
      <4> QED BY <3>2, <4>1
    <3> QED BY <1>4, <1>6, <3>1, <3>3
  <2> HIDE DEF s
  <2> QED BY <1>1, <1>8, <2>1, Gapless
<1>10. \A i \in 1..N : IsBackup(list[i]) <=> i <= m
  <2>1. \A i \in 1..N : IsBackup(list[i]) <=> i \in 1..m
    BY <1>4, <1>9
  <2>2. \A i \in 1..N : i \in 1..m <=> i <= m
    BY <1>1, <1>9
  <2> QED BY <2>1, <2>2
<1>11. \A i \in 1..m : i \in 1..N /\ IsBackup(list[i])
  BY <1>1, <1>9
<1> HIDE DEF s, E
<1>12. \A i \in 1..m : list[i].name \in BackupFiles(files) /\ list[i].info = FromString(list[i].name)
  BY <1>6, <1>11
<1>13. ASSUME NEW f \in BackupFiles(files) PROVE \E i \in 1..m : list[i].name = f
  <2>1. Entry(f) \in E /\ IsBackup(Entry(f)) /\ Entry(f).name = f
    BY DEF BackupFiles, E, Entries, Entry
  <2>2. PICK i \in 1..N : list[i] = Entry(f)
    BY <1>4, <2>1
  <2>3. i \in 1..m
    <3>1. i <= m
      BY <1>10, <2>1, <2>2
    <3> QED BY <1>1, <1>9, <3>1
  <2> QED BY <2>1, <2>2, <2>3
<1>14. \A i, j \in 1..m : i < j => list[i].info.date <= list[j].info.date
  <2> TAKE i, j \in 1..m
  <2>1. list[i].info.date = When(list[i]) /\ list[j].info.date = When(list[j])
    BY <1>6, <1>11
  <2> QED BY <1>7, <1>11, <2>1
<1>15. \A i, j \in 1..m : i # j => list[i].name # list[j].name
  <2> TAKE i, j \in 1..m
  <2>1. i \in 1..N /\ j \in 1..N /\ (i # j => i < j \/ j < i)
    BY <1>1, <1>11
  <2> QED BY <1>7, <2>1
<1>16. m \in 0..Len(list)
  BY <1>5, <1>9
<1> QED BY <1>5, <1>10, <1>12, <1>13, <1>14, <1>15, <1>16 DEF BackupOrder, E, m

\* What the page shows is what the names say, once each.
LEMMA ShownIs ==
    ASSUME NEW files, WellNamed(files), NEW list, list = getBackups(files), NEW m, m = Count(list)
    PROVE  /\ ToSet(GetBackups(files)) = Infos(files) /\ Len(GetBackups(files)) = m
           /\ m = Cardinality(BackupFiles(files)) /\ m \in Nat
           /\ IsFiniteSet(BackupFiles(files)) /\ IsFiniteSet(Infos(files))
<1>1. BackupOrder(files, list, m)
  BY ListIs
<1>2. m \in Nat
  BY <1>1 DEF BackupOrder
<1> DEFINE s == [i \in 1..m |-> list[i].name]
           shown == [i \in 1..m |-> list[i].info]
<1>3. Lists(s, BackupFiles(files))
  <2>1. s \in Seq(BackupFiles(files)) /\ DOMAIN s = 1..m
    BY <1>1, <1>2 DEF BackupOrder
  <2>2. \A f \in BackupFiles(files) : \E i \in DOMAIN s : s[i] = f
    BY <1>1, <2>1 DEF BackupOrder
  <2>3. \A i, j \in DOMAIN s : i # j => s[i] # s[j]
    BY <1>1, <2>1 DEF BackupOrder
  <2> HIDE DEF s
  <2> QED BY <2>1, <2>2, <2>3 DEF Lists
<1>4. GetBackups(files) = shown
  BY DEF GetBackups
<1>5. DOMAIN shown = 1..m /\ Len(shown) = m /\ \A i \in 1..m : shown[i] = list[i].info
  BY <1>2
<1>6. ToSet(shown) = Infos(files)
  <2>1. ToSet(shown) = {shown[i] : i \in 1..m}
    BY <1>5 DEF ToSet
  <2>2. ASSUME NEW i \in 1..m PROVE shown[i] \in Infos(files)
    BY <1>1, <1>5 DEF BackupOrder, Infos
  <2>3. ASSUME NEW b \in Infos(files) PROVE \E i \in 1..m : shown[i] = b
    <3>1. PICK f \in BackupFiles(files) : b = FromString(f)
      BY DEF Infos
    <3>2. PICK i \in 1..m : list[i].name = f
      BY <1>1 DEF BackupOrder
    <3>3. list[i].info = FromString(list[i].name)
      BY <1>1 DEF BackupOrder
    <3> QED BY <1>5, <3>1, <3>2, <3>3
  <2> HIDE DEF shown
  <2> QED BY <2>1, <2>2, <2>3
<1>7. Len(s) = m
  BY <1>2
<1> HIDE DEF s, shown
<1>8. IsFiniteSet(BackupFiles(files)) /\ Cardinality(BackupFiles(files)) = m
  BY <1>3, <1>7, ListsAll
<1>9. IsFiniteSet(Infos(files))
  <2> DEFINE say == [f \in BackupFiles(files) |-> FromString(f)]
  <2>1. say \in Surjection(BackupFiles(files), Infos(files))
    BY DEF Infos, Surjection
  <2> HIDE DEF say
  <2> QED BY <1>8, <2>1, FS_Surjection
<1> QED BY <1>2, <1>4, <1>5, <1>6, <1>8, <1>9

\* The backups that are no older than one.
Newer(b, all) == {c \in all \ {b} : c.date >= b.date}

\* The later in the list are no older.
LEMMA LaterOnes ==
    ASSUME NEW files, WellNamed(files), NEW list, NEW m, BackupOrder(files, list, m), m \in Nat,
           NEW i \in 1..m, IsFiniteSet(Infos(files))
    PROVE  Cardinality(Newer(list[i].info, Infos(files))) >= m - i
<1> DEFINE b == list[i].info
           T == Newer(b, Infos(files))
           S == (i + 1)..m
           g == [j \in S |-> list[j].info]
<1>1. ASSUME NEW j \in 1..m, NEW k \in 1..m, j # k PROVE list[j].info # list[k].info
  <2>1. list[j].name # list[k].name
    BY <1>1 DEF BackupOrder
  <2>2. list[j].name \in BackupFiles(files) /\ list[j].info = FromString(list[j].name)
    BY DEF BackupOrder
  <2>3. list[k].name \in BackupFiles(files) /\ list[k].info = FromString(list[k].name)
    BY DEF BackupOrder
  <2> QED BY <2>1, <2>2, <2>3 DEF WellNamed
<1>2. ASSUME NEW j \in S PROVE list[j].info \in T
  <2>1. j \in 1..m /\ i < j /\ i # j
    OBVIOUS
  <2>2. list[j].info \in Infos(files) /\ list[j].info # b
    BY <1>1, <2>1 DEF BackupOrder, Infos
  <2>3. list[i].info.date <= list[j].info.date
    BY <2>1 DEF BackupOrder
  <2>4. list[i].info \in BackupType /\ list[j].info \in BackupType
    BY <2>1 DEF BackupOrder, WellNamed
  <2>5. list[i].info.date \in Int /\ list[j].info.date \in Int
    BY <2>4 DEF BackupType
  <2>6. list[j].info.date >= b.date
    BY <2>3, <2>5
  <2> HIDE DEF b
  <2> QED BY <2>2, <2>6 DEF Newer
<1>3. g \in Injection(S, T)
  <2>1. g \in [S -> T]
    BY <1>2
  <2>2. \A j, k \in S : g[j] = g[k] => j = k
    <3>1. \A j \in S : j \in 1..m
      OBVIOUS
    <3> QED BY <1>1, <3>1
  <2> HIDE DEF g, S, T
  <2> QED BY <2>1, <2>2 DEF Injection, IsInjective
<1>4. IsFiniteSet(T)
  <2>1. T \in SUBSET Infos(files)
    BY DEF Newer
  <2> QED BY <2>1, FS_Subset
<1>5. IsFiniteSet(S) /\ Cardinality(S) = m - i
  <2>1. Cardinality(S) = IF i + 1 > m THEN 0 ELSE m - (i + 1) + 1
    BY FS_Interval
  <2>2. (i + 1 > m => m - i = 0) /\ m - (i + 1) + 1 = m - i
    OBVIOUS
  <2>3. IsFiniteSet(S)
    BY FS_Interval
  <2> HIDE DEF S
  <2> QED BY <2>1, <2>2, <2>3
<1> HIDE DEF g, S, T, b
<1>6. Cardinality(S) <= Cardinality(T)
  BY <1>3, <1>4, FS_Injection
<1>7. Cardinality(T) \in Nat
  BY <1>4, FS_CardinalityType
<1> QED BY <1>5, <1>6, <1>7 DEF T, b

-----------------------------------------------------------------------------
(* The deletion of old backups.                                            *)

\* Of the first k backups of a list some are gone, the last gone one after all others.  With
\* the previous versions to be kept each version still has one, and what is not gone is the
\* only one of its version; else all are gone.
Goes(list, m, k, previous, gone) ==
    /\ gone \in Seq({list[i].name : i \in 1..k})
    /\ \A q \in 1..(Len(gone) - 1) : \E i \in 1..(k - 1) : gone[q] = list[i].name
    /\ previous => \A b \in 1..m : \E i \in 1..m : /\ list[i].info.commit = list[b].info.commit
                                                   /\ list[i].name \notin ToSet(gone)
    /\ \A i \in 1..k : list[i].name \notin ToSet(gone) =>
           /\ previous
           /\ \A j \in 1..m : j # i /\ list[j].info.commit = list[i].info.commit => list[j].name \in ToSet(gone)

\* Those of a version that are left.
Left(list, gone, e) == {i \in DOMAIN list : IsBackup(list[i]) /\ list[i].info.commit = e.info.commit
                                            /\ list[i].name \notin ToSet(gone)}

\* At first none is gone,
LEMMA NoneGone ==
    ASSUME NEW list, NEW m \in Nat, NEW previous
    PROVE  Goes(list, m, 0, previous, <<>>)
<1>1. <<>> \in Seq({list[i].name : i \in 1..0}) /\ Len(<<>>) = 0 /\ ToSet(<<>>) = {} /\ 1..0 = {}
  BY DEF ToSet
<1>2. 1..(0 - 1) = {}
  OBVIOUS
<1> QED BY <1>1, <1>2 DEF Goes

\* and so on, one after the other.
LEMMA NextGoes ==
    ASSUME NEW files, NEW list, NEW m, BackupOrder(files, list, m), NEW previous \in BOOLEAN,
           NEW k \in 1..m, NEW gone, Goes(list, m, k - 1, previous, gone),
           NEW next, next = IF previous /\ Cardinality(Left(list, gone, list[k])) <= 1 THEN gone
                            ELSE Append(gone, list[k].name)
    PROVE  Goes(list, m, k, previous, next)
<1> DEFINE Names(n) == {list[i].name : i \in 1..n}
           Same(i, j) == list[i].info.commit = list[j].info.commit
           L == Left(list, gone, list[k])
<1>1. /\ m \in Nat /\ k \in Nat /\ DOMAIN list = 1..Len(list) /\ m <= Len(list) /\ Len(list) \in Nat
      /\ \A i \in 1..Len(list) : IsBackup(list[i]) <=> i <= m
      /\ \A i, j \in 1..m : i # j => list[i].name # list[j].name
  BY DEF BackupOrder
<1>2. gone \in Seq(Names(k - 1)) /\ ToSet(gone) \subseteq Names(k - 1)
  <2>1. gone \in Seq(Names(k - 1))
    BY DEF Goes
  <2>2. ToSet(gone) = {gone[i] : i \in 1..Len(gone)}
    BY <2>1 DEF ToSet
  <2> HIDE DEF Names
  <2> QED BY <2>1, <2>2
<1>3. list[k].name \notin ToSet(gone)
  <2>1. \A i \in 1..(k - 1) : i \in 1..m /\ i # k
    BY <1>1
  <2>2. list[k].name \notin Names(k - 1)
    BY <1>1, <2>1
  <2> QED BY <1>2, <2>2
<1>4. \A i : i \in L <=> i \in 1..m /\ Same(i, k) /\ list[i].name \notin ToSet(gone)
  <2>1. \A i \in 1..m : i \in DOMAIN list /\ IsBackup(list[i])
    BY <1>1
  <2>2. \A i \in DOMAIN list : IsBackup(list[i]) => i \in 1..m
    BY <1>1
  <2> QED BY <2>1, <2>2 DEF Left
<1>5. k \in L /\ IsFiniteSet(L) /\ Cardinality(L) \in Nat
  <2>1. L \in SUBSET (1..m) /\ k \in L
    BY <1>3, <1>4
  <2>2. IsFiniteSet(1..m)
    BY <1>1, FS_Interval
  <2> HIDE DEF L
  <2>3. IsFiniteSet(L)
    BY <2>1, <2>2, FS_Subset
  <2> QED BY <2>1, <2>3, FS_CardinalityType
<1>6. CASE previous /\ Cardinality(L) <= 1
  <2>1. next = gone
    BY <1>6
  <2>2. L = {k}
    <3>1. {k} \in SUBSET L /\ Cardinality({k}) = 1
      BY <1>5, FS_Singleton
    <3> HIDE DEF L
    <3>2. Cardinality({k}) <= Cardinality(L) /\ (Cardinality(L) = Cardinality({k}) => L = {k})
      BY <1>5, <3>1, FS_Subset
    <3> QED BY <1>5, <1>6, <3>1, <3>2
  <2>3. Names(k - 1) \subseteq Names(k) /\ \A i \in 1..(k - 1) : i \in 1..k
    BY <1>1
  <2>4. next \in Seq(Names(k))
    <3> HIDE DEF Names
    <3> QED BY <1>2, <2>1, <2>3
  <2>5. \A q \in 1..(Len(next) - 1) : \E i \in 1..(k - 1) : next[q] = list[i].name
    <3>1. \A q \in 1..(Len(gone) - 1) : \E i \in 1..(k - 1 - 1) : gone[q] = list[i].name
      BY DEF Goes
    <3>2. \A i \in 1..(k - 1 - 1) : i \in 1..(k - 1)
      BY <1>1
    <3> QED BY <2>1, <3>1, <3>2
  <2>6. \A i \in 1..k : list[i].name \notin ToSet(next) =>
            previous /\ \A j \in 1..m : j # i /\ Same(j, i) => list[j].name \in ToSet(next)
    <3> SUFFICES ASSUME NEW i \in 1..k, list[i].name \notin ToSet(gone), NEW j \in 1..m, j # i, Same(j, i)
                 PROVE  list[j].name \in ToSet(gone)
      BY <1>6, <2>1
    <3>1. CASE i = k
      BY <1>4, <2>2, <3>1
    <3>2. CASE i # k
      <4>1. i \in 1..(k - 1)
        BY <1>1, <3>2
      <4> QED BY <4>1 DEF Goes
    <3> QED BY <3>1, <3>2
  <2>7. \A b \in 1..m : \E i \in 1..m : Same(i, b) /\ list[i].name \notin ToSet(next)
    BY <1>6, <2>1 DEF Goes
  <2> QED BY <2>4, <2>5, <2>6, <2>7 DEF Goes
<1>7. CASE ~(previous /\ Cardinality(L) <= 1)
  <2>1. next = Append(gone, list[k].name)
    BY <1>7
  <2>2. /\ Names(k - 1) \subseteq Names(k) /\ list[k].name \in Names(k)
    BY <1>1
  <2>3. /\ next \in Seq(Names(k)) /\ Len(next) = Len(gone) + 1 /\ Len(gone) \in Nat
        /\ \A q \in 1..Len(gone) : next[q] = gone[q] /\ gone[q] \in Names(k - 1)
        /\ next[Len(gone) + 1] = list[k].name
    <3> HIDE DEF Names
    <3>1. gone \in Seq(Names(k))
      BY <1>2, <2>2
    <3> QED BY <1>2, <2>1, <2>2, <3>1
  <2>4. ToSet(next) = ToSet(gone) \cup {list[k].name}
    <3>1. ToSet(next) = {next[q] : q \in 1..Len(next)} /\ ToSet(gone) = {gone[q] : q \in 1..Len(gone)}
      <4> HIDE DEF Names
      <4> QED BY <1>2, <2>3 DEF ToSet
    <3>2. \A q \in 1..Len(next) : q \in 1..Len(gone) \/ q = Len(gone) + 1
      BY <2>3
    <3>3. Len(gone) + 1 \in 1..Len(next) /\ \A q \in 1..Len(gone) : q \in 1..Len(next)
      BY <2>3
    <3> HIDE DEF Names
    <3> QED BY <2>3, <3>1, <3>2, <3>3
  <2>5. \A q \in 1..(Len(next) - 1) : \E i \in 1..(k - 1) : next[q] = list[i].name
    <3> TAKE q \in 1..(Len(next) - 1)
    <3>1. q \in 1..Len(gone)
      BY <2>3
    <3>2. next[q] \in Names(k - 1)
      BY <2>3, <3>1
    <3> QED BY <3>2
  <2>6. \A i \in 1..k : list[i].name \notin ToSet(next) =>
            previous /\ \A j \in 1..m : j # i /\ Same(j, i) => list[j].name \in ToSet(next)
    <3> SUFFICES ASSUME NEW i \in 1..k, list[i].name \notin ToSet(next)
                 PROVE  previous /\ \A j \in 1..m : j # i /\ Same(j, i) => list[j].name \in ToSet(next)
      OBVIOUS
    <3>1. i # k
      BY <2>4
    <3>2. i \in 1..(k - 1) /\ list[i].name \notin ToSet(gone)
      BY <1>1, <2>4, <3>1
    <3>3. previous /\ \A j \in 1..m : j # i /\ Same(j, i) => list[j].name \in ToSet(gone)
      BY <3>2 DEF Goes
    <3> QED BY <2>4, <3>3
  <2>7. ASSUME previous PROVE \A b \in 1..m : \E i \in 1..m : Same(i, b) /\ list[i].name \notin ToSet(next)
    <3>1. PICK j \in L : j # k
      <4>1. L # {k}
        <5>1. Cardinality({k}) = 1
          BY FS_Singleton
        <5> HIDE DEF L
        <5>2. L = {k} => Cardinality(L) = 1
          BY <5>1
        <5>3. ~(Cardinality(L) <= 1)
          BY <1>7, <2>7
        <5> QED BY <5>2, <5>3
      <4> QED BY <1>5, <4>1
    <3>2. j \in 1..m /\ Same(j, k) /\ list[j].name \notin ToSet(gone)
      BY <1>4
    <3>3. list[j].name \notin ToSet(next)
      BY <1>1, <2>4, <3>1, <3>2
    <3> TAKE b \in 1..m
    <3>4. PICK i \in 1..m : Same(i, b) /\ list[i].name \notin ToSet(gone)
      BY <2>7 DEF Goes
    <3>5. CASE i = k
      <4>1. Same(j, b)
        BY <3>2, <3>4, <3>5
      <4> QED BY <3>2, <3>3, <4>1
    <3>6. CASE i # k
      <4>1. list[i].name \notin ToSet(next)
        BY <1>1, <2>4, <3>4, <3>6
      <4> QED BY <3>4, <4>1
    <3> QED BY <3>5, <3>6
  <2> QED BY <2>3, <2>5, <2>6, <2>7 DEF Goes
<1> QED BY <1>6, <1>7

\* What is deleted after each of the first n of the list.
Deletes(run, list, n, set) ==
    /\ run[0] = <<>> /\ run[n] = ToDelete(list, set)
    /\ \A k \in 1..n :
           run[k] = IF set.previous /\ Cardinality(Left(list, run[k - 1], list[k])) <= 1 THEN run[k - 1]
                    ELSE Append(run[k - 1], list[k].name)

\* The loop over the entries to be looked at.
Deleting(list, set, s) ==
    FoldLeft(LAMBDA gone, e : IF set.previous /\ Cardinality(Left(list, gone, e)) <= 1 THEN gone
                              ELSE Append(gone, e.name), <<>>, s)

\* makeBackup deletes one after the other.
LEMMA DeletesRun ==
    ASSUME NEW S, NEW list \in Seq(S), NEW set, NEW n, n = Count(list) + 1 - set.keep,
           n \in Nat, 0 < n, n <= Count(list), n <= Len(list)
    PROVE  \E run : Deletes(run, list, n, set)
<1> DEFINE s == SubSeq(list, 1, n)
           W == {list[i].name : i \in 1..n}
           Grows(gone, e) == IF set.previous /\ Cardinality(Left(list, gone, e)) <= 1 THEN gone
                             ELSE Append(gone, e.name)
           step == [k \in 1..n |-> [x \in Seq(W) |-> Grows(x, s[k])]]
           Table(f) == f = [t \in SUBSET (DOMAIN s) |->
                               IF t = {} THEN <<>> ELSE Grows(f[t \ {Max(t)}], s[Max(t)])]
           F == CHOOSE f : Table(f)
<1>1. DOMAIN s = 1..n /\ \A k \in 1..n : s[k] = list[k]
  <2>1. Len(list) \in Nat /\ \A k \in 1..n : list[k] \in S
    OBVIOUS
  <2>2. /\ s \in Seq(S)
        /\ Len(s) = IF 1 <= n THEN n - 1 + 1 ELSE 0
        /\ \A k \in 1..(n - 1 + 1) : s[k] = list[1 + k - 1]
    BY <2>1, SubSeqProperties
  <2> HIDE DEF s
  <2>3. n - 1 + 1 = n /\ 1 <= n /\ \A k \in 1..n : 1 + k - 1 = k
    OBVIOUS
  <2> QED BY <2>2, <2>3
<1>2. step \in [1..n -> [Seq(W) -> Seq(W)]]
  <2>1. \A k \in 1..n, x \in Seq(W) : Grows(x, s[k]) \in Seq(W)
    <3> TAKE k \in 1..n, x \in Seq(W)
    <3>1. s[k].name \in W
      BY <1>1
    <3> HIDE DEF W, s
    <3>2. Append(x, s[k].name) \in Seq(W)
      BY <3>1
    <3> QED BY <3>2
  <2> HIDE DEF Grows, W, s
  <2> QED BY <2>1
<1>3. PICK g \in [SUBSET (1..n) -> Seq(W)] : IsTable(g, <<>>, n, step)
  <2>1. <<>> \in Seq(W)
    OBVIOUS
  <2> HIDE DEF step, W
  <2> QED BY <1>2, <2>1, TableExists
<1>4. Table(g)
  <2>1. \A t \in SUBSET (1..n) : t # {} => Max(t) \in 1..n /\ t \ {Max(t)} \in SUBSET (1..n)
    BY Greatest
  <2>2. \A t \in SUBSET (1..n) :
            g[t] = IF t = {} THEN <<>> ELSE Grows(g[t \ {Max(t)}], s[Max(t)])
    <3> SUFFICES ASSUME NEW t \in SUBSET (1..n)
                 PROVE  g[t] = IF t = {} THEN <<>> ELSE Grows(g[t \ {Max(t)}], s[Max(t)])
      OBVIOUS
    <3>1. g[t] = IF t = {} THEN <<>> ELSE step[Max(t)][g[t \ {Max(t)}]]
      BY <1>3 DEF IsTable
    <3>2. CASE t = {}
      BY <3>1, <3>2
    <3>3. CASE t # {}
      <4>1. Max(t) \in 1..n /\ g[t \ {Max(t)}] \in Seq(W)
        BY <2>1, <3>3
      <4>2. step[Max(t)][g[t \ {Max(t)}]] = Grows(g[t \ {Max(t)}], s[Max(t)])
        <5> HIDE DEF Grows, W, s
        <5> QED BY <4>1
      <4> HIDE DEF step, Grows, W, s
      <4> QED BY <3>1, <3>3, <4>2
    <3> QED BY <3>2, <3>3
  <2> HIDE DEF Grows, W, s
  <2> QED BY <1>1, <2>2
<1>5. Table(F)
  BY <1>4
<1>6. ToDelete(list, set) = F[DOMAIN s]
  <2>1. 0 < Count(list) + 1 - set.keep /\ Count(list) + 1 - set.keep <= Count(list)
    OBVIOUS
  <2>2. ToDelete(list, set) = Deleting(list, set, SubSeq(list, 1, Count(list) + 1 - set.keep))
    BY <2>1 DEF ToDelete, Deleting, FoldLeft, MapThenFoldSet, Left
  <2>3. Deleting(list, set, s) = F[DOMAIN s]
    <3> HIDE DEF s
    <3> QED BY DEF Deleting, FoldLeft, MapThenFoldSet
  <2> QED BY <2>2, <2>3
<1> DEFINE run == [k \in 0..n |-> F[1..k]]
<1> HIDE DEF F, Grows, s, W
<1>7. F[{}] = <<>> /\ \A k \in 1..n : F[1..k] = Grows(F[1..(k - 1)], s[k])
  <2>1. F[{}] = <<>>
    BY <1>5
  <2>2. ASSUME NEW k \in 1..n PROVE F[1..k] = Grows(F[1..(k - 1)], s[k])
    <3>1. 1..k \in SUBSET (1..n) /\ 1..k # {}
      <4>1. \A j \in 1..k : j \in 1..n
        OBVIOUS
      <4>2. 1 \in 1..k
        OBVIOUS
      <4> QED BY <4>1, <4>2
    <3>2. Max(1..k) = k /\ (1..k) \ {k} = 1..(k - 1)
      BY CountedLast
    <3>3. F[1..k] = Grows(F[(1..k) \ {Max(1..k)}], s[Max(1..k)])
      BY <1>1, <1>5, <3>1
    <3> QED BY <3>2, <3>3
  <2> QED BY <2>1, <2>2
<1>8. run[0] = <<>> /\ run[n] = F[1..n] /\ \A k \in 1..n : run[k] = Grows(run[k - 1], list[k])
  <2>1. 1..0 = {}
    OBVIOUS
  <2>2. \A k \in 1..n : k - 1 \in 0..n /\ k \in 0..n
    OBVIOUS
  <2>3. 0 \in 0..n /\ n \in 0..n
    OBVIOUS
  <2> QED BY <1>1, <1>7, <2>1, <2>2, <2>3
<1>9. Deletes(run, list, n, set)
  <2> HIDE DEF run
  <2> QED BY <1>1, <1>6, <1>8 DEF Deletes, Grows
<1> QED BY <1>9

\* Of a list of backups there go the first, but for the only ones of their versions.
LEMMA ToDeleteIs ==
    ASSUME NEW files, NEW list, BackupOrder(files, list, Count(list)),
           NEW set, set.keep \in Int, set.previous \in BOOLEAN,
           NEW m, m = Count(list), NEW n, n = m + 1 - set.keep
    PROVE  IF 0 < n /\ n <= m THEN Goes(list, m, n, set.previous, ToDelete(list, set))
           ELSE ToDelete(list, set) = <<>>
<1>1. CASE ~(0 < n /\ n <= m)
  BY <1>1 DEF ToDelete
<1>2. CASE 0 < n /\ n <= m
  <2>0. m \in 0..Len(list) /\ list \in Seq(Entries(files)) /\ Len(list) \in Nat
    BY DEF BackupOrder
  <2>1. m \in Nat /\ n \in Nat /\ n <= Len(list)
    BY <1>2, <2>0
  <2>2. PICK run : Deletes(run, list, n, set)
    BY <1>2, <2>0, <2>1, DeletesRun
  <2> DEFINE Not == {k \in 0..n : ~Goes(list, m, k, set.previous, run[k])}
  <2>3. ASSUME Not # {} PROVE FALSE
    <3>1. PICK k \in Not : \A j \in Not : k <= j
      <4>1. Not \in SUBSET Nat
        BY <2>1
      <4> HIDE DEF Not
      <4> QED BY <2>3, <4>1, LeastNat
    <3>2. CASE k = 0
      <4>1. run[0] = <<>>
        BY <2>2 DEF Deletes
      <4>2. Goes(list, m, 0, set.previous, run[0])
        BY <2>1, <4>1, NoneGone
      <4> QED BY <3>1, <3>2, <4>2
    <3>3. CASE k # 0
      <4>1. k \in 1..n /\ k \in 1..m /\ k - 1 \in 0..n /\ ~(k <= k - 1)
        BY <1>2, <2>1, <3>1, <3>3
      <4>2. Goes(list, m, k - 1, set.previous, run[k - 1])
        BY <3>1, <4>1
      <4>3. run[k] = IF set.previous /\ Cardinality(Left(list, run[k - 1], list[k])) <= 1 THEN run[k - 1]
                     ELSE Append(run[k - 1], list[k].name)
        BY <2>2, <4>1 DEF Deletes
      <4>4. Goes(list, m, k, set.previous, run[k])
        <5>1. PICK p \in BOOLEAN : p = set.previous
          OBVIOUS
        <5> QED BY <4>1, <4>2, <4>3, NextGoes
      <4> QED BY <3>1, <4>4
    <3> QED BY <3>2, <3>3
  <2>4. n \in 0..n /\ run[n] = ToDelete(list, set)
    BY <2>1, <2>2 DEF Deletes
  <2>5. Goes(list, m, n, set.previous, run[n])
    BY <2>3, <2>4
  <2> QED BY <1>2, <2>4, <2>5
<1> QED BY <1>1, <1>2

\* The versions of backups.
Versions(all) == {b.commit : b \in all}

\* What makeBackup deletes are backups: of those there are, it keeps the newest, one of each
\* version if so wanted, and of the others at most one of each version.
Rotates(files, set, gone) ==
    /\ gone \in Seq(BackupFiles(files))
    /\ set.keep < 1 => gone = <<>>
    /\ \A f \in ToSet(gone) : Cardinality(Newer(FromString(f), Infos(files))) >= set.keep - 1
    /\ \A q \in 1..(Len(gone) - 1) : Cardinality(Newer(FromString(gone[q]), Infos(files))) >= set.keep
    /\ set.previous => \A b \in Infos(files) : \E f \in BackupFiles(files) \ ToSet(gone) :
                           FromString(f).commit = b.commit
    /\ set.keep >= 1 => Cardinality(BackupFiles(files) \ ToSet(gone)) <= set.keep - 1 + Cardinality(Versions(Infos(files)))

\* The list and the loop over it do that.
LEMMA RotatesFiles ==
    ASSUME NEW files, WellNamed(files), NEW set, set.keep \in Int, set.previous \in BOOLEAN
    PROVE  Rotates(files, set, ToDelete(getBackups(files), set))
<1> DEFINE old == BackupFiles(files)
           V == Versions(Infos(files))
<1>1. PICK list : list = getBackups(files)
  OBVIOUS
<1>2. PICK m : m = Count(list)
  OBVIOUS
<1>3. PICK n : n = m + 1 - set.keep
  OBVIOUS
<1>4. PICK gone : gone = ToDelete(list, set)
  OBVIOUS
<1>5. BackupOrder(files, list, m)
  BY <1>1, <1>2, ListIs
<1>6. m \in Nat /\ m = Cardinality(old) /\ IsFiniteSet(old) /\ IsFiniteSet(Infos(files))
  BY <1>1, <1>2, ShownIs
<1>7. n \in Int /\ set.keep = m + 1 - n
  BY <1>3, <1>6
<1>8. IsFiniteSet(V) /\ Cardinality(V) \in Nat
  <2> DEFINE c == [b \in Infos(files) |-> b.commit]
  <2>1. c \in Surjection(Infos(files), V)
    BY DEF Versions, Surjection
  <2> HIDE DEF c, V
  <2>2. IsFiniteSet(V)
    BY <1>6, <2>1, FS_Surjection
  <2> QED BY <2>2, FS_CardinalityType
<1>9. CASE ~(0 < n /\ n <= m)
  <2>1. gone = <<>>
    BY <1>2, <1>3, <1>4, <1>9 DEF ToDelete
  <2>2. gone \in Seq(old) /\ ToSet(gone) = {} /\ Len(gone) = 0
    BY <2>1 DEF ToSet
  <2>3. ASSUME set.keep >= 1 PROVE Cardinality(old \ ToSet(gone)) <= set.keep - 1 + Cardinality(V)
    <3>1. m <= set.keep - 1
      BY <1>6, <1>7, <1>9, <2>3
    <3>2. old \ ToSet(gone) = old
      BY <2>2
    <3>3. PICK v \in Nat : v = Cardinality(V)
      BY <1>8
    <3>4. m <= set.keep - 1 + v
      BY <1>6, <1>7, <3>1
    <3> HIDE DEF old, V
    <3> QED BY <1>6, <3>2, <3>3, <3>4
  <2>4. \A b \in Infos(files) : \E f \in old \ ToSet(gone) : FromString(f).commit = b.commit
    BY <2>2 DEF Infos
  <2>5. 1..(Len(gone) - 1) = {}
    BY <2>2
  <2> HIDE DEF old, V
  <2> QED BY <1>1, <1>4, <2>1, <2>2, <2>3, <2>4, <2>5 DEF Rotates, old, V
<1>10. CASE 0 < n /\ n <= m
  <2>1. Goes(list, m, n, set.previous, gone)
    BY <1>2, <1>3, <1>4, <1>5, <1>10, ToDeleteIs
  <2>2. n \in 1..m /\ set.keep >= 1
    BY <1>6, <1>7, <1>10
  <2>3. ASSUME NEW i \in 1..m PROVE Cardinality(Newer(FromString(list[i].name), Infos(files))) >= m - i
    <3>1. Cardinality(Newer(list[i].info, Infos(files))) >= m - i
      BY <1>5, <1>6, LaterOnes
    <3>2. list[i].info = FromString(list[i].name)
      BY <1>5 DEF BackupOrder
    <3> QED BY <3>1, <3>2
  <2>4. ASSUME NEW i \in 1..m
        PROVE  IsFiniteSet(Newer(FromString(list[i].name), Infos(files))) /\ Cardinality(Newer(FromString(list[i].name), Infos(files))) \in Nat
    <3>1. Newer(FromString(list[i].name), Infos(files)) \in SUBSET Infos(files)
      BY DEF Newer
    <3>2. IsFiniteSet(Newer(FromString(list[i].name), Infos(files)))
      BY <1>6, <3>1, FS_Subset
    <3> QED BY <3>2, FS_CardinalityType
  <2>5. gone \in Seq(old) /\ \A q \in 1..Len(gone) : \E i \in 1..n : gone[q] = list[i].name
    <3>1. gone \in Seq({list[i].name : i \in 1..n})
      BY <2>1 DEF Goes
    <3>2. \A i \in 1..n : i \in 1..m
      BY <1>6, <2>2
    <3>3. {list[i].name : i \in 1..n} \subseteq old
      BY <1>5, <3>2 DEF BackupOrder
    <3>4. \A q \in 1..Len(gone) : gone[q] \in {list[i].name : i \in 1..n}
      BY <3>1
    <3> HIDE DEF old
    <3>5. gone \in Seq(old)
      BY <3>1, <3>3
    <3> QED BY <3>4, <3>5
  <2>6. ASSUME NEW f \in ToSet(gone) PROVE Cardinality(Newer(FromString(f), Infos(files))) >= set.keep - 1
    <3>1. PICK q \in 1..Len(gone) : f = gone[q]
      BY <2>5 DEF ToSet
    <3>2. PICK i \in 1..n : gone[q] = list[i].name
      BY <2>5
    <3>3. i \in 1..m /\ m - i >= set.keep - 1
      BY <1>6, <1>7, <2>2
    <3>4. PICK c : c = Cardinality(Newer(FromString(f), Infos(files)))
      OBVIOUS
    <3>5. c >= m - i /\ c \in Nat
      BY <2>3, <2>4, <3>1, <3>2, <3>3, <3>4
    <3> QED BY <1>6, <1>7, <3>3, <3>4, <3>5
  <2>7. ASSUME NEW q \in 1..(Len(gone) - 1) PROVE Cardinality(Newer(FromString(gone[q]), Infos(files))) >= set.keep
    <3>1. PICK i \in 1..(n - 1) : gone[q] = list[i].name
      BY <2>1 DEF Goes
    <3>2. i \in 1..m /\ m - i >= set.keep
      BY <1>6, <1>7, <2>2
    <3>3. PICK c : c = Cardinality(Newer(FromString(gone[q]), Infos(files)))
      OBVIOUS
    <3>4. c >= m - i /\ c \in Nat
      BY <2>3, <2>4, <3>1, <3>2, <3>3
    <3> QED BY <1>6, <1>7, <3>2, <3>3, <3>4
  <2>8. ASSUME set.previous, NEW b \in Infos(files)
        PROVE  \E f \in old \ ToSet(gone) : FromString(f).commit = b.commit
    <3>1. PICK g \in old : b = FromString(g)
      BY DEF Infos
    <3>2. PICK k \in 1..m : list[k].name = g
      BY <1>5 DEF BackupOrder
    <3>3. PICK i \in 1..m : list[i].info.commit = list[k].info.commit /\ list[i].name \notin ToSet(gone)
      BY <2>1, <2>8 DEF Goes
    <3>4. list[i].name \in old /\ list[i].info = FromString(list[i].name) /\ list[k].info = FromString(list[k].name)
      BY <1>5 DEF BackupOrder
    <3>5. FromString(list[i].name).commit = b.commit
      BY <3>1, <3>2, <3>3, <3>4
    <3> QED BY <3>3, <3>4, <3>5
  <2> DEFINE R == {i \in 1..n : list[i].name \notin ToSet(gone)}
             later == (n + 1)..m
             name == [i \in R \cup later |-> list[i].name]
             version == [i \in R |-> list[i].info.commit]
  <2>9. IsFiniteSet(R) /\ Cardinality(R) \in Nat /\ Cardinality(R) <= Cardinality(V)
    <3>1. \A i \in R : i \in 1..m
      BY <1>6, <2>2
    <3>2. \A i, j \in R : list[i].info.commit = list[j].info.commit => i = j
      BY <2>1, <3>1 DEF Goes
    <3>3. \A i \in R : list[i].info.commit \in V
      <4>1. \A i \in 1..m : list[i].info \in Infos(files)
        BY <1>5 DEF BackupOrder, Infos
      <4> QED BY <3>1, <4>1 DEF Versions
    <3>4. version \in Injection(R, V)
      <4>1. version \in [R -> V]
        BY <3>3
      <4>2. \A i, j \in R : version[i] = version[j] => i = j
        BY <3>2
      <4> HIDE DEF version, R, V
      <4> QED BY <4>1, <4>2 DEF Injection, IsInjective
    <3> HIDE DEF version, R, V
    <3>5. IsFiniteSet(R) /\ Cardinality(R) <= Cardinality(V)
      BY <1>8, <3>4, FS_Injection
    <3> QED BY <3>5, FS_CardinalityType
  <2>10. IsFiniteSet(later) /\ Cardinality(later) = m - n
    <3>1. IsFiniteSet(later) /\ Cardinality(later) = IF n + 1 > m THEN 0 ELSE m - (n + 1) + 1
      <4>1. n + 1 \in Int /\ m \in Int
        BY <1>6, <1>7
      <4> QED BY <4>1, FS_Interval
    <3>2. (n + 1 > m => m - n = 0) /\ m - (n + 1) + 1 = m - n
      BY <1>6, <2>2
    <3> HIDE DEF later
    <3> QED BY <3>1, <3>2
  <2>11. IsFiniteSet(R \cup later) /\ Cardinality(R \cup later) = Cardinality(R) + (m - n)
    <3>1. R \cap later = {}
      BY <1>6, <2>2
    <3> HIDE DEF R, later
    <3>2. /\ IsFiniteSet(R \cup later)
          /\ Cardinality(R \cup later) = Cardinality(R) + Cardinality(later) - Cardinality(R \cap later)
      BY <2>9, <2>10, FS_Union
    <3>3. Cardinality(R \cap later) = 0
      BY <3>1, FS_EmptySet
    <3>4. m - n \in Int
      BY <1>6, <1>7
    <3> QED BY <2>9, <2>10, <3>2, <3>3, <3>4
  <2>12. ASSUME NEW i \in R \cup later PROVE list[i].name \in old \ ToSet(gone)
    <3>1. i \in 1..m
      BY <1>6, <2>2
    <3>2. list[i].name \in old
      BY <1>5, <3>1 DEF BackupOrder
    <3>3. CASE i \in R
      BY <3>2, <3>3
    <3>4. CASE i \in later
      <4>1. ASSUME list[i].name \in ToSet(gone) PROVE FALSE
        <5>1. PICK q \in 1..Len(gone) : list[i].name = gone[q]
          BY <2>5, <4>1 DEF ToSet
        <5>2. PICK j \in 1..n : gone[q] = list[j].name
          BY <2>5
        <5>3. j \in 1..m /\ j # i
          BY <1>6, <2>2, <3>4
        <5> QED BY <1>5, <3>1, <5>1, <5>2, <5>3 DEF BackupOrder
      <4> QED BY <3>2, <4>1
    <3> QED BY <3>3, <3>4
  <2>13. ASSUME NEW f \in old \ ToSet(gone) PROVE \E i \in R \cup later : list[i].name = f
    <3>1. PICK i \in 1..m : list[i].name = f
      BY <1>5 DEF BackupOrder
    <3>2. i \in 1..n \/ i \in later
      BY <1>6, <2>2
    <3> QED BY <2>13, <3>1, <3>2
  <2>14. Cardinality(old \ ToSet(gone)) <= Cardinality(R \cup later)
    <3>1. name \in Surjection(R \cup later, old \ ToSet(gone))
      <4>1. name \in [R \cup later -> old \ ToSet(gone)]
        BY <2>12
      <4>2. \A f \in old \ ToSet(gone) : \E i \in R \cup later : name[i] = f
        BY <2>13
      <4> HIDE DEF name, R, later, old
      <4> QED BY <4>1, <4>2 DEF Surjection
    <3> HIDE DEF name, R, later, old
    <3> QED BY <2>11, <3>1, FS_Surjection
  <2>15. Cardinality(old \ ToSet(gone)) <= set.keep - 1 + Cardinality(V)
    <3>1. IsFiniteSet(old \ ToSet(gone))
      BY <1>6, FS_Difference
    <3>2. PICK c \in Nat : c = Cardinality(old \ ToSet(gone))
      BY <3>1, FS_CardinalityType
    <3>3. PICK r \in Nat : r = Cardinality(R)
      BY <2>9
    <3>4. PICK v \in Nat : v = Cardinality(V)
      BY <1>8
    <3> HIDE DEF R, later, V, old
    <3>5. c <= r + (m - n) /\ r <= v
      BY <2>9, <2>11, <2>14, <3>2, <3>3, <3>4
    <3>6. c <= set.keep - 1 + v
      BY <1>6, <1>7, <3>5
    <3> QED BY <3>2, <3>4, <3>6
  <2>16. set.keep \in Int /\ ~(set.keep < 1)
    BY <2>2
  <2> HIDE DEF old, V
  <2> QED BY <1>1, <1>4, <2>5, <2>6, <2>7, <2>8, <2>15, <2>16 DEF Rotates, old, V
<1> QED BY <1>9, <1>10

-----------------------------------------------------------------------------
(* The directory, backup by backup.                                        *)

\* What the process has named itself has the name it gives.
NamedByDate(files) ==
    \A f \in BackupFiles(files) : FromString(f).date >= FirstDate => f = String(FromString(f))

\* Without some backups the others are named as well.
LEMMA FewerFiles ==
    ASSUME NEW files, WellNamed(files), NamedByDate(files), NEW D \in SUBSET BackupFiles(files)
    PROVE  /\ WellNamed(files \ D) /\ NamedByDate(files \ D)
           /\ BackupFiles(files \ D) = BackupFiles(files) \ D
           /\ Infos(files \ D) = Infos(files) \ {FromString(f) : f \in D}
<1>1. BackupFiles(files \ D) = BackupFiles(files) \ D
  BY DEF BackupFiles
<1>2. IsFiniteSet(files \ D)
  BY FS_Difference DEF WellNamed
<1>3. WellNamed(files \ D)
  BY <1>1, <1>2 DEF WellNamed
<1>4. NamedByDate(files \ D)
  BY <1>1 DEF NamedByDate
<1>5. Infos(files \ D) = Infos(files) \ {FromString(f) : f \in D}
  <2>1. ASSUME NEW f \in BackupFiles(files) \ D PROVE FromString(f) \notin {FromString(g) : g \in D}
    BY DEF WellNamed
  <2>2. Infos(files \ D) = {FromString(f) : f \in BackupFiles(files) \ D}
    BY <1>1 DEF Infos
  <2>3. Infos(files) = {FromString(f) : f \in BackupFiles(files)}
    BY DEF Infos
  <2> QED BY <2>1, <2>2, <2>3
<1> QED BY <1>1, <1>3, <1>4, <1>5

\* With one more, made or uploaded now, too.
LEMMA OneMoreFile ==
    ASSUME NEW files, WellNamed(files), NamedByDate(files),
           NEW b \in MadeType \cup UploadType, b.date >= FirstDate,
           NEW more, more = files \cup {String(b)}
    PROVE  /\ WellNamed(more) /\ NamedByDate(more)
           /\ BackupFiles(more) = BackupFiles(files) \cup {String(b)}
           /\ Infos(more) = Infos(files) \cup {b}
           /\ b \in Infos(files) <=> String(b) \in files
<1>1. FromString(String(b)) = b /\ String(b) \in Seq(Int) /\ b \in BackupType /\ b # Zero
  BY NamedAsIs
<1>2. IsBackup(Entry(String(b)))
  BY <1>1 DEF IsBackup, Entry
<1>3. BackupFiles(more) = BackupFiles(files) \cup {String(b)}
  BY <1>2 DEF BackupFiles
<1>4. Infos(more) = Infos(files) \cup {b}
  <2>1. Infos(more) \subseteq Infos(files) \cup {b}
    BY <1>1, <1>3 DEF Infos
  <2>2. Infos(files) \subseteq Infos(more)
    BY <1>3 DEF Infos
  <2>3. b \in Infos(more)
    BY <1>1, <1>3 DEF Infos
  <2> QED BY <2>1, <2>2, <2>3
<1>5. \A f \in BackupFiles(files) : FromString(f) = b => f = String(b)
  BY DEF NamedByDate
<1>6. b \in Infos(files) <=> String(b) \in files
  BY <1>1, <1>2, <1>5 DEF Infos, BackupFiles
<1>7. IsFiniteSet(more)
  BY FS_AddElement DEF WellNamed
<1>8. WellNamed(more)
  <2>1. \A f \in more : f \in Seq(Int)
    BY <1>1 DEF WellNamed
  <2>2. \A f \in BackupFiles(more) : FromString(f) \in BackupType
    BY <1>1, <1>3 DEF WellNamed
  <2>3. \A f, g \in BackupFiles(more) : FromString(f) = FromString(g) => f = g
    BY <1>1, <1>3, <1>5 DEF WellNamed
  <2> QED BY <1>7, <2>1, <2>2, <2>3 DEF WellNamed
<1>9. NamedByDate(more)
  BY <1>1, <1>3 DEF NamedByDate
<1> QED BY <1>3, <1>4, <1>6, <1>8, <1>9

\* More backups, more that are newer.
LEMMA NewerGrow ==
    ASSUME NEW more, IsFiniteSet(more), NEW all \in SUBSET more, NEW b
    PROVE  /\ IsFiniteSet(Newer(b, all)) /\ Cardinality(Newer(b, all)) \in Nat
           /\ IsFiniteSet(Newer(b, more)) /\ Cardinality(Newer(b, more)) \in Nat
           /\ Cardinality(Newer(b, all)) <= Cardinality(Newer(b, more))
<1>1. Newer(b, more) \in SUBSET more /\ Newer(b, all) \in SUBSET Newer(b, more)
  BY DEF Newer
<1>2. IsFiniteSet(Newer(b, more))
  BY <1>1, FS_Subset
<1>3. IsFiniteSet(Newer(b, all)) /\ Cardinality(Newer(b, all)) <= Cardinality(Newer(b, more))
  BY <1>1, <1>2, FS_Subset
<1> QED BY <1>2, <1>3, FS_CardinalityType

\* One that is no older adds one.
LEMMA OneNewer ==
    ASSUME NEW more, IsFiniteSet(more), NEW all \in SUBSET more, NEW b,
           NEW x \in more, x \notin all, x # b, x.date >= b.date
    PROVE  Cardinality(Newer(b, more)) >= Cardinality(Newer(b, all)) + 1
<1>1. x \notin Newer(b, all) /\ Newer(b, all) \cup {x} \in SUBSET Newer(b, more)
  BY DEF Newer
<1>2. /\ IsFiniteSet(Newer(b, all)) /\ Cardinality(Newer(b, all)) \in Nat
      /\ IsFiniteSet(Newer(b, more)) /\ Cardinality(Newer(b, more)) \in Nat
  BY NewerGrow
<1>3. Cardinality(Newer(b, all) \cup {x}) = Cardinality(Newer(b, all)) + 1
  BY <1>1, <1>2, FS_AddElement
<1>4. Cardinality(Newer(b, all) \cup {x}) <= Cardinality(Newer(b, more))
  BY <1>1, <1>2, FS_Subset
<1> QED BY <1>2, <1>3, <1>4

\* More backups, more versions.
LEMMA VersionsGrow ==
    ASSUME NEW more, IsFiniteSet(more), NEW all \in SUBSET more
    PROVE  /\ Cardinality(Versions(all)) \in Nat /\ Cardinality(Versions(more)) \in Nat
           /\ Cardinality(Versions(all)) <= Cardinality(Versions(more))
<1> DEFINE c == [b \in more |-> b.commit]
<1>1. c \in Surjection(more, Versions(more))
  BY DEF Versions, Surjection
<1> HIDE DEF c
<1>2. IsFiniteSet(Versions(more))
  BY <1>1, FS_Surjection
<1>3. Versions(all) \in SUBSET Versions(more)
  BY DEF Versions
<1>4. IsFiniteSet(Versions(all)) /\ Cardinality(Versions(all)) <= Cardinality(Versions(more))
  BY <1>2, <1>3, FS_Subset
<1> QED BY <1>2, <1>4, FS_CardinalityType

\* What would be made now.
Now == [date |-> date, commit |-> commit, upload |-> FALSE]

\* How many of the newest there must be.
Kept == IF oneLess THEN settings.keep - 1 ELSE settings.keep

\* The configuration, the clock and the numbers.
BackupsData ==
    /\ settings \in BackupSettings /\ date \in FirstDate..LastDate /\ commit \in Nat \ {0}
    /\ oneLess \in BOOLEAN /\ extra \in Nat

\* The files say what was made, none of it in the future.
FilesOK ==
    /\ WellNamed(dir) /\ NamedByDate(dir)
    /\ IsFiniteSet(made) /\ made \subseteq BackupType /\ Infos(dir) \subseteq made
    /\ \A b \in made : b.date <= date /\ (b.date = date /\ ~b.upload => b.commit <= commit)

\* What is no longer there has enough newer ones.
NewestKept ==
    /\ settings.keep < 1 => made \subseteq Infos(dir)
    /\ \A b \in made \ Infos(dir) : Cardinality(Newer(b, made)) >= Kept
    /\ Now \in made \ Infos(dir) => Cardinality(Newer(Now, made)) >= settings.keep

\* Every version still has one.
VersionsKept == settings.previous => Versions(made) \subseteq Versions(Infos(dir))

\* There are no more than these.
FewKept ==
    settings.keep >= 1 =>
        Cardinality(BackupFiles(dir)) <= settings.keep + Cardinality(Versions(made)) + extra

\* The inductive invariant of the backups.
BackupsInv == BackupsData /\ FilesOK /\ NewestKept /\ VersionsKept /\ FewKept

\* It holds of what is there at first.
LEMMA BackupsStart == BackupsInit => BackupsInv
<1> SUFFICES ASSUME BackupsInit PROVE BackupsInv
  OBVIOUS
<1>1. /\ settings \in BackupSettings /\ dir \in OldFiles /\ date = FirstDate /\ commit = Commit
      /\ made = ToSet(GetBackups(dir)) /\ extra = Cardinality(made) /\ oneLess = FALSE
  BY DEF BackupsInit
<1>2. /\ settings.keep \in Int /\ FirstDate \in 1..(Commit - 1) /\ LastDate \in FirstDate..(Commit - 1)
  BY <1>1, BackupsAssumption
<1>3. /\ IsFiniteSet(dir)
      /\ \A f \in dir : f \in Seq(Int) /\
            (IsBackup(Entry(f)) => FromString(f) \in BackupType /\ FromString(f).date < FirstDate)
      /\ \A f, g \in dir : IsBackup(Entry(f)) /\ FromString(f) = FromString(g) => f = g
  BY <1>1, BackupsAssumption
<1>4. WellNamed(dir)
  BY <1>3 DEF WellNamed, BackupFiles
<1>5. /\ made = Infos(dir) /\ IsFiniteSet(made) /\ IsFiniteSet(BackupFiles(dir))
  BY <1>1, <1>4, ShownIs
<1>6. \A f \in BackupFiles(dir) : /\ FromString(f) \in BackupType /\ FromString(f).date < FirstDate
                                  /\ FromString(f).date \in Nat
  BY <1>3 DEF BackupFiles, BackupType
<1>7. NamedByDate(dir)
  BY <1>2, <1>6 DEF NamedByDate
<1>8. \A b \in made : b \in BackupType /\ b.date < date /\ b.date \in Nat
  BY <1>1, <1>5, <1>6 DEF Infos
<1>9. BackupsData
  <2>1. extra \in Nat
    BY <1>1, <1>5, FS_CardinalityType
  <2>2. FirstDate \in FirstDate..LastDate /\ Commit \in Nat \ {0}
    BY <1>2 DEF Commit
  <2> QED BY <1>1, <2>1, <2>2 DEF BackupsData
<1>10. FilesOK
  <2>1. \A b \in made : b.date <= date /\ b.date # date
    BY <1>1, <1>2, <1>8
  <2> QED BY <1>4, <1>5, <1>7, <1>8, <2>1 DEF FilesOK
<1>11. NewestKept /\ VersionsKept
  BY <1>5 DEF NewestKept, VersionsKept
<1>12. FewKept
  <2> DEFINE say == [f \in BackupFiles(dir) |-> FromString(f)]
  <2>1. say \in Injection(BackupFiles(dir), made)
    <3>1. say \in [BackupFiles(dir) -> made]
      BY <1>5 DEF Infos
    <3>2. \A f, g \in BackupFiles(dir) : say[f] = say[g] => f = g
      BY <1>4 DEF WellNamed
    <3> HIDE DEF say
    <3> QED BY <3>1, <3>2 DEF Injection, IsInjective
  <2> HIDE DEF say
  <2>2. Cardinality(BackupFiles(dir)) <= extra
    BY <1>1, <1>5, <2>1, FS_Injection
  <2>3. Cardinality(BackupFiles(dir)) \in Nat /\ extra \in Nat /\ Cardinality(Versions(made)) \in Nat
    BY <1>1, <1>5, FS_CardinalityType, VersionsGrow
  <2>4. PICK c \in Nat, v \in Nat : c = Cardinality(BackupFiles(dir)) /\ v = Cardinality(Versions(made))
    BY <2>3
  <2>5. c <= extra
    BY <2>2, <2>4
  <2>6. settings.keep >= 1 => c <= settings.keep + v + extra
    BY <1>2, <2>3, <2>5
  <2> QED BY <2>4, <2>6 DEF FewKept
<1> QED BY <1>9, <1>10, <1>11, <1>12 DEF BackupsInv

\* It has what the rotation promises.
LEMMA BackupsPromise == BackupsInv => BackupsKept
<1> SUFFICES ASSUME BackupsInv PROVE BackupsKept
  OBVIOUS
<1>1. WellNamed(dir) /\ IsFiniteSet(made) /\ Infos(dir) \subseteq made
  BY DEF BackupsInv, FilesOK
<1>2. ToSet(GetBackups(dir)) = Infos(dir) /\ Len(GetBackups(dir)) = Cardinality(BackupFiles(dir))
  BY <1>1, ShownIs
<1>3. \A b : {c \in made \ {b} : c.date >= b.date} = Newer(b, made)
  BY DEF Newer
<1>4. {b.commit : b \in made} = Versions(made)
  BY DEF Versions
<1>5. settings.keep \in Int
  BY BackupsAssumption DEF BackupsInv, BackupsData
<1>6. CASE settings.keep < 1
  BY <1>2, <1>6 DEF BackupsInv, NewestKept, BackupsKept
<1>7. CASE ~(settings.keep < 1)
  <2>1. ASSUME NEW b \in made, Cardinality(Newer(b, made)) < (IF oneLess THEN settings.keep - 1 ELSE settings.keep)
        PROVE  b \in Infos(dir)
    <3>1. Cardinality(Newer(b, made)) \in Nat /\ Kept \in Int
      BY <1>1, <1>5, NewerGrow DEF Kept
    <3>2. Cardinality(Newer(b, made)) < Kept
      BY <2>1 DEF Kept
    <3>3. ~(Cardinality(Newer(b, made)) >= Kept)
      BY <3>1, <3>2
    <3> QED BY <3>3 DEF BackupsInv, NewestKept
  <2>2. settings.previous => \A b \in made : \E c \in Infos(dir) : c.commit = b.commit
    BY DEF BackupsInv, VersionsKept, Versions
  <2>3. settings.keep >= 1
    BY <1>5, <1>7
  <2>4. Cardinality(BackupFiles(dir)) <= settings.keep + Cardinality(Versions(made)) + extra
    BY <2>3 DEF BackupsInv, FewKept
  <2> QED BY <1>2, <1>3, <1>4, <1>7, <2>1, <2>2, <2>4 DEF BackupsKept
<1> QED BY <1>6, <1>7

\* What is made or uploaded now has a name of its own.
LEMMA NowIs ==
    ASSUME BackupsData
    PROVE  /\ Now \in MadeType /\ Now.date = date /\ Now.commit = commit /\ Now.upload = FALSE
           /\ [date |-> date, commit |-> NoCommit, upload |-> TRUE] \in UploadType
           /\ date \in Int /\ FirstDate \in Int /\ date >= FirstDate /\ commit \in Int
           /\ settings.keep \in Int /\ settings.previous \in BOOLEAN
<1>1. /\ FirstDate \in 1..(Commit - 1) /\ LastDate \in FirstDate..(Commit - 1) /\ Commit \in Int
      /\ settings.keep \in Int /\ settings.previous \in BOOLEAN
  BY BackupsAssumption DEF BackupsData, Commit
<1>2. date \in 1..(Commit - 1) /\ date \in Int /\ date >= FirstDate
  BY <1>1 DEF BackupsData
<1>3. commit \in Nat \ {0} /\ commit \in Int
  BY DEF BackupsData
<1>4. Now \in MadeType
  BY <1>2, <1>3 DEF Now, MadeType
<1>5. [date |-> date, commit |-> NoCommit, upload |-> TRUE] \in UploadType
  BY <1>2 DEF UploadType
<1> QED BY <1>1, <1>2, <1>3, <1>4, <1>5 DEF Now

\* A backup is made.
LEMMA MakeStep == BackupsInv /\ MakeBackup => BackupsInv'
<1> SUFFICES ASSUME BackupsInv, MakeBackup PROVE BackupsInv'
  OBVIOUS
<1> DEFINE gone == ToDelete(getBackups(dir), settings)
           D == ToSet(gone)
           mid == dir \ D
           keep == settings.keep
<1>1. /\ Now \in MadeType /\ Now.date = date /\ Now.commit = commit /\ Now.upload = FALSE
      /\ date \in Int /\ FirstDate \in Int /\ date >= FirstDate /\ commit \in Int
      /\ keep \in Int /\ settings.previous \in BOOLEAN
  BY NowIs DEF BackupsInv
<1>2. /\ WellNamed(dir) /\ NamedByDate(dir)
      /\ IsFiniteSet(made) /\ made \subseteq BackupType /\ Infos(dir) \subseteq made
      /\ \A b \in made : b.date <= date /\ (b.date = date /\ ~b.upload => b.commit <= commit)
  BY DEF BackupsInv, FilesOK
<1>3. /\ dir' = mid \cup {String(Now)} /\ made' = made \cup {Now}
      /\ extra' = 0 /\ oneLess' = (String(Now) \in dir)
      /\ date' = date /\ commit' = commit /\ settings' = settings
  BY DEF MakeBackup, Now
<1>4. Rotates(dir, settings, gone)
  BY <1>1, <1>2, RotatesFiles
<1>5. D \in SUBSET BackupFiles(dir)
  <2>1. gone \in Seq(BackupFiles(dir))
    BY <1>4 DEF Rotates
  <2> HIDE DEF gone
  <2> QED BY <2>1 DEF ToSet
<1> HIDE DEF gone, D
<1>6. /\ WellNamed(mid) /\ NamedByDate(mid)
      /\ BackupFiles(mid) = BackupFiles(dir) \ D
      /\ Infos(mid) = Infos(dir) \ {FromString(f) : f \in D}
  BY <1>2, <1>5, FewerFiles
<1>7. Now \in MadeType \cup UploadType /\ Now.date >= FirstDate
  BY <1>1
<1>8. /\ WellNamed(dir') /\ NamedByDate(dir')
      /\ BackupFiles(dir') = BackupFiles(mid) \cup {String(Now)}
      /\ Infos(dir') = Infos(mid) \cup {Now}
  <2> HIDE DEF mid
  <2> QED BY <1>3, <1>6, <1>7, OneMoreFile
<1>9. Now \in Infos(dir) <=> String(Now) \in dir
  <2>1. PICK more : more = dir \cup {String(Now)}
    OBVIOUS
  <2> QED BY <1>2, <1>7, <2>1, OneMoreFile
<1> HIDE DEF mid
<1>10. IsFiniteSet(made') /\ made \in SUBSET made' /\ Infos(dir) \in SUBSET made' /\ Now \in made'
  BY <1>2, <1>3, FS_AddElement
<1>11. Now' = Now
  BY <1>3 DEF Now
<1>12. BackupsData'
  BY <1>3 DEF BackupsInv, BackupsData
<1>13. FilesOK'
  <2>1. made' \subseteq BackupType
    BY <1>2, <1>3, <1>7, NamedAsIs
  <2>2. Infos(dir') \subseteq made'
    BY <1>3, <1>6, <1>8, <1>10
  <2>3. \A b \in made' : b.date <= date' /\ (b.date = date' /\ ~b.upload => b.commit <= commit')
    BY <1>1, <1>2, <1>3
  <2> QED BY <1>8, <1>10, <2>1, <2>2, <2>3 DEF FilesOK
<1>14. ASSUME NEW b \in made' \ Infos(dir') PROVE Cardinality(Newer(b, made')) >= Kept'
  <2>1. b \in made /\ b # Now /\ Now.date >= b.date /\ b.date \in Int
    <3>1. b \in made /\ b # Now
      BY <1>3, <1>8
    <3>2. b.date <= date /\ b.date \in Int
      BY <1>2, <3>1 DEF BackupType
    <3> QED BY <1>1, <3>1, <3>2
  <2>2. Kept' = IF Now \in Infos(dir) THEN keep - 1 ELSE keep
    BY <1>3, <1>9 DEF Kept
  <2>3. PICK c : c = Cardinality(Newer(b, made'))
    OBVIOUS
  <2>4. /\ c \in Nat /\ Cardinality(Newer(b, made)) \in Nat /\ Cardinality(Newer(b, made)) <= c
        /\ Cardinality(Newer(b, Infos(dir))) \in Nat /\ Cardinality(Newer(b, Infos(dir))) <= c
    BY <1>10, <2>3, NewerGrow
  <2>5. CASE b \in Infos(dir)
    <3>1. PICK f \in D : b = FromString(f)
      BY <1>6, <1>8, <2>5
    <3>2. Cardinality(Newer(b, Infos(dir))) >= keep - 1
      BY <1>4, <3>1 DEF Rotates, D
    <3>3. CASE Now \in Infos(dir)
      BY <1>1, <2>2, <2>3, <2>4, <3>2, <3>3
    <3>4. CASE Now \notin Infos(dir)
      <4>1. c >= Cardinality(Newer(b, Infos(dir))) + 1
        BY <1>10, <2>1, <2>3, <3>4, OneNewer
      <4>2. c >= keep
        BY <1>1, <2>4, <3>2, <4>1
      <4> QED BY <2>2, <2>3, <3>4, <4>2
    <3> QED BY <3>3, <3>4
  <2>6. CASE b \notin Infos(dir)
    <3>1. Cardinality(Newer(b, made)) >= keep - 1
      <4>1. Cardinality(Newer(b, made)) >= Kept
        BY <2>1, <2>6 DEF BackupsInv, NewestKept
      <4>2. Kept \in Int /\ Kept >= keep - 1
        BY <1>1 DEF Kept
      <4> QED BY <1>1, <2>4, <4>1, <4>2
    <3>2. CASE Now \in Infos(dir)
      BY <1>1, <2>2, <2>3, <2>4, <3>1, <3>2
    <3>3. CASE Now \notin Infos(dir) /\ Now \notin made
      <4>1. c >= Cardinality(Newer(b, made)) + 1
        BY <1>10, <2>1, <2>3, <3>3, OneNewer
      <4>2. c >= keep
        BY <1>1, <2>4, <3>1, <4>1
      <4> QED BY <2>2, <2>3, <3>3, <4>2
    <3>4. CASE Now \notin Infos(dir) /\ Now \in made
      <4> DEFINE N == Newer(Now, made)
      <4>1. Cardinality(N) >= keep
        BY <3>4 DEF BackupsInv, NewestKept
      <4>2. IsFiniteSet(N) /\ Cardinality(N) \in Nat /\ IsFiniteSet(Newer(b, made'))
        BY <1>2, <1>10, NewerGrow
      <4>3. (N \ {b}) \cup {Now} \in SUBSET Newer(b, made')
        <5>1. \A x \in N : x \in made /\ x \in made' /\ x.date >= Now.date /\ x.date \in Int
          <6>1. \A x \in made : x.date \in Int
            BY <1>2 DEF BackupType
          <6> QED BY <1>10, <6>1 DEF Newer
        <5>2. \A x \in N : x.date >= b.date
          BY <1>1, <2>1, <5>1
        <5> HIDE DEF N
        <5> QED BY <1>10, <2>1, <5>1, <5>2 DEF Newer
      <4>4. Now \notin N
        BY DEF Newer
      <4> HIDE DEF N
      <4>5. /\ IsFiniteSet(N \ {b})
            /\ Cardinality(N \ {b}) = IF b \in N THEN Cardinality(N) - 1 ELSE Cardinality(N)
        BY <4>2, FS_RemoveElement
      <4>6. Cardinality((N \ {b}) \cup {Now}) = Cardinality(N \ {b}) + 1
        BY <4>4, <4>5, FS_AddElement
      <4>7. Cardinality((N \ {b}) \cup {Now}) <= c
        BY <2>3, <4>2, <4>3, FS_Subset
      <4>8. c >= keep
        BY <1>1, <2>4, <4>1, <4>2, <4>5, <4>6, <4>7
      <4> QED BY <2>2, <2>3, <3>4, <4>8
    <3> QED BY <3>2, <3>3, <3>4
  <2> QED BY <2>5, <2>6
<1>15. NewestKept'
  <2>1. ASSUME settings.keep < 1 PROVE made' \subseteq Infos(dir')
    <3>1. gone = <<>>
      BY <1>4, <2>1 DEF Rotates
    <3>2. D = {}
      BY <3>1 DEF D, ToSet
    <3>3. made \subseteq Infos(dir)
      BY <2>1 DEF BackupsInv, NewestKept
    <3> QED BY <1>3, <1>6, <1>8, <3>2, <3>3
  <2>2. Now \in Infos(dir')
    BY <1>8
  <2> QED BY <1>3, <1>11, <1>14, <2>1, <2>2 DEF NewestKept
<1>16. VersionsKept'
  <2> SUFFICES ASSUME settings.previous, NEW v \in Versions(made') PROVE v \in Versions(Infos(dir'))
    BY <1>3 DEF VersionsKept
  <2>1. PICK b \in made' : v = b.commit
    BY DEF Versions
  <2>2. CASE b = Now
    BY <1>8, <2>1, <2>2 DEF Versions
  <2>3. CASE b # Now
    <3>1. v \in Versions(made)
      BY <1>3, <2>1, <2>3 DEF Versions
    <3>2. PICK c \in Infos(dir) : v = c.commit
      BY <3>1 DEF BackupsInv, VersionsKept, Versions
    <3>3. PICK f \in BackupFiles(dir) \ D : FromString(f).commit = v
      BY <1>4, <3>2 DEF Rotates, D
    <3>4. FromString(f) \in Infos(dir')
      BY <1>6, <1>8, <3>3 DEF Infos
    <3> QED BY <3>3, <3>4 DEF Versions
  <2> QED BY <2>2, <2>3
<1>17. FewKept'
  <2> SUFFICES ASSUME keep >= 1
               PROVE  Cardinality(BackupFiles(dir')) <= keep + Cardinality(Versions(made')) + 0
    BY <1>3 DEF FewKept
  <2>1. Cardinality(BackupFiles(dir) \ D) <= keep - 1 + Cardinality(Versions(Infos(dir)))
    BY <1>4 DEF Rotates, D
  <2>2. IsFiniteSet(BackupFiles(mid)) /\ Cardinality(BackupFiles(mid)) \in Nat
    BY <1>6, ShownIs
  <2>3. Cardinality(BackupFiles(dir')) \in Nat /\ Cardinality(BackupFiles(dir')) <= Cardinality(BackupFiles(mid)) + 1
    <3>1. Cardinality(BackupFiles(dir')) = IF String(Now) \in BackupFiles(mid) THEN Cardinality(BackupFiles(mid))
                                           ELSE Cardinality(BackupFiles(mid)) + 1
      BY <1>8, <2>2, FS_AddElement
    <3> QED BY <2>2, <3>1
  <2>4. /\ Cardinality(Versions(Infos(dir))) \in Nat /\ Cardinality(Versions(made')) \in Nat
        /\ Cardinality(Versions(Infos(dir))) <= Cardinality(Versions(made'))
    BY <1>10, VersionsGrow
  <2> QED BY <1>1, <1>6, <2>1, <2>2, <2>3, <2>4
<1> QED BY <1>12, <1>13, <1>15, <1>16, <1>17 DEF BackupsInv

\* A file cannot be deleted.
LEMMA FailStep == BackupsInv /\ DeletionFails => BackupsInv'
<1> SUFFICES ASSUME BackupsInv, DeletionFails PROVE BackupsInv'
  OBVIOUS
<1> DEFINE keep == settings.keep
<1>1. PICK gone : gone = ToDelete(getBackups(dir), settings)
  OBVIOUS
<1>2. PICK n \in 0..(Len(gone) - 1) : dir' = dir \ ToSet(SubSeq(gone, 1, n))
  BY <1>1 DEF DeletionFails
<1>3. /\ oneLess' = TRUE /\ date' = date /\ commit' = commit /\ settings' = settings
      /\ made' = made /\ extra' = extra
  BY DEF DeletionFails
<1>4. keep \in Int /\ settings.previous \in BOOLEAN
  BY NowIs DEF BackupsInv
<1>5. /\ WellNamed(dir) /\ NamedByDate(dir)
      /\ IsFiniteSet(made) /\ made \subseteq BackupType /\ Infos(dir) \in SUBSET made
      /\ \A b \in made : b.date <= date /\ (b.date = date /\ ~b.upload => b.commit <= commit)
  BY DEF BackupsInv, FilesOK
<1>6. Rotates(dir, settings, gone)
  BY <1>1, <1>4, <1>5, RotatesFiles
<1>7. gone \in Seq(BackupFiles(dir)) /\ Len(gone) \in Nat
  BY <1>6 DEF Rotates
<1>8. PICK D : D = ToSet(SubSeq(gone, 1, n))
  OBVIOUS
<1>9. \A f \in D : \E q \in 1..(Len(gone) - 1) : f = gone[q]
  <2>1. PICK first : first = SubSeq(gone, 1, n)
    OBVIOUS
  <2>2. n \in Int /\ n <= Len(gone)
    BY <1>2, <1>7
  <2>3. Len(first) = n /\ \A q \in 1..n : first[q] = gone[q]
    <3>1. \A q \in 1..n : first[q] = gone[1 + q - 1] /\ 1 + q - 1 = q
      BY <1>7, <2>1, <2>2, SubSeqProperties
    <3> QED BY <1>7, <2>1, <2>2, <3>1, SubSeqProperties
  <2>4. \A f \in D : \E q \in 1..n : f = first[q]
    BY <1>8, <2>1, <2>3 DEF ToSet
  <2>5. \A q \in 1..n : q \in 1..(Len(gone) - 1)
    BY <1>2, <1>7
  <2> QED BY <2>3, <2>4, <2>5
<1>10. D \in SUBSET BackupFiles(dir) /\ D \subseteq ToSet(gone)
  <2>1. \A q \in 1..(Len(gone) - 1) : q \in 1..Len(gone) /\ gone[q] \in BackupFiles(dir)
    BY <1>7
  <2> QED BY <1>9, <2>1 DEF ToSet
<1>11. /\ WellNamed(dir') /\ NamedByDate(dir')
       /\ BackupFiles(dir') = BackupFiles(dir) \ D
       /\ Infos(dir') = Infos(dir) \ {FromString(f) : f \in D}
  BY <1>2, <1>5, <1>8, <1>10, FewerFiles
<1>12. BackupsData'
  BY <1>3 DEF BackupsInv, BackupsData
<1>13. FilesOK'
  BY <1>3, <1>5, <1>11 DEF FilesOK
<1>14. ~(keep < 1)
  <2>1. ASSUME keep < 1 PROVE FALSE
    <3>1. gone = <<>>
      BY <1>6, <2>1 DEF Rotates
    <3> QED BY <1>2, <3>1
  <2> QED BY <2>1
<1>15. Now' = Now /\ Kept' = keep - 1
  BY <1>3 DEF Now, Kept
<1>16. \A b : Cardinality(Newer(b, made)) \in Nat /\ Cardinality(Newer(b, Infos(dir))) \in Nat
              /\ Cardinality(Newer(b, Infos(dir))) <= Cardinality(Newer(b, made))
  BY <1>5, NewerGrow
<1>17. ASSUME NEW b \in Infos(dir), b \notin Infos(dir') PROVE Cardinality(Newer(b, made)) >= keep
  <2>1. PICK f \in D : b = FromString(f)
    BY <1>11, <1>17
  <2>2. PICK q \in 1..(Len(gone) - 1) : f = gone[q]
    BY <1>9
  <2>3. Cardinality(Newer(b, Infos(dir))) >= keep
    BY <1>6, <2>1, <2>2 DEF Rotates
  <2> QED BY <1>4, <1>16, <2>3
<1>18. NewestKept'
  <2>1. ASSUME NEW b \in made \ Infos(dir') PROVE Cardinality(Newer(b, made)) >= keep - 1
    <3>1. CASE b \in Infos(dir)
      <4>1. Cardinality(Newer(b, made)) >= keep
        BY <1>17, <2>1, <3>1
      <4> QED BY <1>4, <1>16, <4>1
    <3>2. CASE b \notin Infos(dir)
      <4>1. Cardinality(Newer(b, made)) >= Kept
        BY <2>1, <3>2 DEF BackupsInv, NewestKept
      <4>2. Kept \in Int /\ Kept >= keep - 1
        BY <1>4 DEF Kept
      <4> QED BY <1>4, <1>16, <4>1, <4>2
    <3> QED BY <3>1, <3>2
  <2>2. ASSUME Now \in made \ Infos(dir') PROVE Cardinality(Newer(Now, made)) >= keep
    <3>1. CASE Now \in Infos(dir)
      BY <1>17, <2>2, <3>1
    <3>2. CASE Now \notin Infos(dir)
      BY <2>2, <3>2 DEF BackupsInv, NewestKept
    <3> QED BY <3>1, <3>2
  <2> QED BY <1>3, <1>14, <1>15, <2>1, <2>2 DEF NewestKept
<1>19. VersionsKept'
  <2> SUFFICES ASSUME settings.previous, NEW v \in Versions(made) PROVE v \in Versions(Infos(dir'))
    BY <1>3 DEF VersionsKept
  <2>1. PICK c \in Infos(dir) : v = c.commit
    BY DEF BackupsInv, VersionsKept, Versions
  <2>2. PICK f \in BackupFiles(dir) \ ToSet(gone) : FromString(f).commit = v
    BY <1>6, <2>1 DEF Rotates
  <2>3. FromString(f) \in Infos(dir')
    BY <1>10, <1>11, <2>2 DEF Infos
  <2> QED BY <2>2, <2>3 DEF Versions
<1>20. FewKept'
  <2> SUFFICES ASSUME keep >= 1
               PROVE  Cardinality(BackupFiles(dir')) <= keep + Cardinality(Versions(made)) + extra
    BY <1>3 DEF FewKept
  <2>1. IsFiniteSet(BackupFiles(dir)) /\ Cardinality(BackupFiles(dir)) \in Nat
    BY <1>5, ShownIs
  <2>2. Cardinality(BackupFiles(dir')) <= Cardinality(BackupFiles(dir)) /\ Cardinality(BackupFiles(dir')) \in Nat
    BY <1>11, <2>1, FS_Subset, FS_CardinalityType
  <2>3. Cardinality(Versions(made)) \in Nat /\ extra \in Nat
    BY <1>5, VersionsGrow DEF BackupsInv, BackupsData
  <2>4. Cardinality(BackupFiles(dir)) <= keep + Cardinality(Versions(made)) + extra
    BY DEF BackupsInv, FewKept
  <2> QED BY <1>4, <2>1, <2>2, <2>3, <2>4
<1> QED BY <1>12, <1>13, <1>18, <1>19, <1>20 DEF BackupsInv

\* A backup is uploaded.
LEMMA RestoreStep == BackupsInv /\ RestoreBackup => BackupsInv'
<1> SUFFICES ASSUME BackupsInv, RestoreBackup PROVE BackupsInv'
  OBVIOUS
<1> DEFINE keep == settings.keep
<1>1. PICK up : up = [date |-> date, commit |-> NoCommit, upload |-> TRUE]
  OBVIOUS
<1>2. /\ dir' = dir \cup {String(up)} /\ made' = made \cup {up}
      /\ extra' = (IF String(up) \in dir THEN extra ELSE extra + 1)
      /\ date' = date /\ commit' = commit /\ settings' = settings /\ oneLess' = oneLess
  BY <1>1 DEF RestoreBackup
<1>3. /\ up \in UploadType /\ up.date = date /\ up.upload = TRUE
      /\ date \in Int /\ FirstDate \in Int /\ date >= FirstDate /\ keep \in Int
  BY <1>1, NowIs DEF BackupsInv
<1>4. /\ WellNamed(dir) /\ NamedByDate(dir)
      /\ IsFiniteSet(made) /\ made \subseteq BackupType /\ Infos(dir) \subseteq made
      /\ \A b \in made : b.date <= date /\ (b.date = date /\ ~b.upload => b.commit <= commit)
  BY DEF BackupsInv, FilesOK
<1>5. up \in MadeType \cup UploadType /\ up.date >= FirstDate
  BY <1>3
<1>6. /\ WellNamed(dir') /\ NamedByDate(dir')
      /\ BackupFiles(dir') = BackupFiles(dir) \cup {String(up)}
      /\ Infos(dir') = Infos(dir) \cup {up}
  BY <1>2, <1>4, <1>5, OneMoreFile
<1>7. up \in BackupType /\ (String(up) \in dir <=> String(up) \in BackupFiles(dir))
  <2>1. FromString(String(up)) = up /\ up \in BackupType /\ up # Zero
    BY <1>5, NamedAsIs
  <2>2. IsBackup(Entry(String(up)))
    BY <2>1 DEF IsBackup, Entry
  <2> QED BY <2>1, <2>2 DEF BackupFiles
<1>8. IsFiniteSet(made') /\ made \in SUBSET made'
  BY <1>2, <1>4, FS_AddElement
<1>9. Now' = Now /\ Now # up /\ Kept' = Kept
  <2>1. Now.upload = FALSE
    BY DEF Now
  <2> QED BY <1>2, <1>3, <2>1 DEF Now, Kept
<1>10. BackupsData'
  BY <1>2 DEF BackupsInv, BackupsData
<1>11. FilesOK'
  <2>1. made' \subseteq BackupType /\ Infos(dir') \subseteq made'
    BY <1>2, <1>4, <1>6, <1>7
  <2>2. \A b \in made' : b.date <= date' /\ (b.date = date' /\ ~b.upload => b.commit <= commit')
    BY <1>2, <1>3, <1>4
  <2> QED BY <1>6, <1>8, <2>1, <2>2 DEF FilesOK
<1>12. NewestKept'
  <2>1. \A b : Cardinality(Newer(b, made)) \in Nat /\ Cardinality(Newer(b, made')) \in Nat
               /\ Cardinality(Newer(b, made)) <= Cardinality(Newer(b, made'))
    BY <1>8, NewerGrow
  <2>2. Kept \in Int
    BY <1>3 DEF Kept
  <2>3. \A b \in made' \ Infos(dir') : b \in made \ Infos(dir)
    BY <1>2, <1>6
  <2>4. ASSUME NEW b \in made' \ Infos(dir') PROVE Cardinality(Newer(b, made')) >= Kept
    <3>1. Cardinality(Newer(b, made)) >= Kept
      BY <2>3, <2>4 DEF BackupsInv, NewestKept
    <3> QED BY <2>1, <2>2, <3>1
  <2>5. ASSUME Now \in made' \ Infos(dir') PROVE Cardinality(Newer(Now, made')) >= keep
    <3>1. Cardinality(Newer(Now, made)) >= keep
      BY <2>3, <2>5 DEF BackupsInv, NewestKept
    <3> QED BY <1>3, <2>1, <3>1
  <2>6. ASSUME keep < 1 PROVE made' \subseteq Infos(dir')
    BY <1>2, <1>6, <2>6 DEF BackupsInv, NewestKept
  <2> QED BY <1>2, <1>9, <2>4, <2>5, <2>6 DEF NewestKept
<1>13. VersionsKept'
  <2> SUFFICES ASSUME settings.previous, NEW v \in Versions(made') PROVE v \in Versions(Infos(dir'))
    BY <1>2 DEF VersionsKept
  <2>1. PICK b \in made' : v = b.commit
    BY DEF Versions
  <2>2. CASE b = up
    BY <1>6, <2>1, <2>2 DEF Versions
  <2>3. CASE b # up
    <3>1. v \in Versions(made)
      BY <1>2, <2>1, <2>3 DEF Versions
    <3> QED BY <1>6, <3>1 DEF BackupsInv, VersionsKept, Versions
  <2> QED BY <2>2, <2>3
<1>14. FewKept'
  <2> SUFFICES ASSUME keep >= 1
               PROVE  Cardinality(BackupFiles(dir')) <= keep + Cardinality(Versions(made')) + extra'
    BY <1>2 DEF FewKept
  <2>1. IsFiniteSet(BackupFiles(dir))
    BY <1>4, ShownIs
  <2>2. PICK c \in Nat : c = Cardinality(BackupFiles(dir))
    BY <2>1, FS_CardinalityType
  <2>3. Cardinality(BackupFiles(dir')) = IF String(up) \in BackupFiles(dir) THEN c ELSE c + 1
    BY <1>6, <2>1, <2>2, FS_AddElement
  <2>4. /\ Cardinality(Versions(made)) \in Nat /\ Cardinality(Versions(made')) \in Nat
        /\ Cardinality(Versions(made)) <= Cardinality(Versions(made'))
    BY <1>8, VersionsGrow
  <2>5. PICK v \in Nat : v = Cardinality(Versions(made))
    BY <2>4
  <2>6. PICK w \in Nat : w = Cardinality(Versions(made'))
    BY <2>4
  <2>7. c <= keep + v + extra /\ v <= w /\ extra \in Nat
    BY <2>2, <2>4, <2>5, <2>6 DEF BackupsInv, FewKept, BackupsData
  <2>8. CASE String(up) \in dir
    <3>1. Cardinality(BackupFiles(dir')) = c /\ extra' = extra
      BY <1>2, <1>7, <2>3, <2>8
    <3>2. c <= keep + w + extra
      BY <1>3, <2>7
    <3> QED BY <2>6, <3>1, <3>2
  <2>9. CASE String(up) \notin dir
    <3>1. Cardinality(BackupFiles(dir')) = c + 1 /\ extra' = extra + 1
      BY <1>2, <1>7, <2>3, <2>9
    <3>2. c + 1 <= keep + w + (extra + 1)
      BY <1>3, <2>7
    <3> QED BY <2>6, <3>1, <3>2
  <2> QED BY <2>8, <2>9
<1> QED BY <1>10, <1>11, <1>12, <1>13, <1>14 DEF BackupsInv

\* Time passes, or a newer version starts: what would be made next is new.
LEMMA LaterStep == BackupsInv /\ (Second \/ Upgrade) => BackupsInv'
<1> SUFFICES ASSUME BackupsInv, Second \/ Upgrade PROVE BackupsInv'
  OBVIOUS
<1>1. /\ dir' = dir /\ settings' = settings /\ made' = made /\ extra' = extra /\ oneLess' = oneLess
      /\ (date < LastDate /\ date' = date + 1 /\ commit' = commit) \/ (commit' = commit + 1 /\ date' = date)
  BY DEF Second, Upgrade
<1>2. date \in Int /\ commit \in Int /\ LastDate \in Int /\ FirstDate \in Int /\ date \in FirstDate..LastDate
  BY NowIs, BackupsAssumption DEF BackupsInv, BackupsData
<1>3. \A b \in made : /\ b.date <= date /\ (b.date = date /\ ~b.upload => b.commit <= commit)
                      /\ b.date \in Int /\ b.commit \in Int
  BY DEF BackupsInv, FilesOK, BackupType
<1>4. BackupsData'
  <2>1. date' \in FirstDate..LastDate
    BY <1>1, <1>2
  <2>2. commit' \in Nat \ {0}
    BY <1>1 DEF BackupsInv, BackupsData
  <2> QED BY <1>1, <2>1, <2>2 DEF BackupsInv, BackupsData
<1>5. \A b \in made : b.date <= date' /\ (b.date = date' /\ ~b.upload => b.commit <= commit')
  BY <1>1, <1>2, <1>3
<1>6. FilesOK'
  BY <1>1, <1>5 DEF BackupsInv, FilesOK
<1>7. Now' \notin made
  <2>1. Now'.date = date' /\ Now'.commit = commit' /\ ~Now'.upload
    BY DEF Now
  <2> QED BY <1>1, <1>2, <1>3, <2>1
<1>8. Kept' = Kept
  BY <1>1 DEF Kept
<1>9. NewestKept'
  BY <1>1, <1>7, <1>8 DEF BackupsInv, NewestKept
<1>10. VersionsKept' /\ FewKept'
  BY <1>1 DEF BackupsInv, VersionsKept, FewKept
<1> QED BY <1>4, <1>6, <1>9, <1>10 DEF BackupsInv

\* Every step.
LEMMA BackupsStep == BackupsInv /\ [BackupsNext]_backupVars => BackupsInv'
<1> SUFFICES ASSUME BackupsInv, [BackupsNext]_backupVars PROVE BackupsInv'
  OBVIOUS
<1>1. CASE UNCHANGED backupVars
  BY <1>1 DEF backupVars, BackupsInv, BackupsData, FilesOK, NewestKept, VersionsKept, FewKept, Kept, Now
<1>2. CASE MakeBackup
  BY <1>2, MakeStep
<1>3. CASE DeletionFails
  BY <1>3, FailStep
<1>4. CASE RestoreBackup
  BY <1>4, RestoreStep
<1>5. CASE Second \/ Upgrade
  BY <1>5, LaterStep
<1> QED BY <1>1, <1>2, <1>3, <1>4, <1>5 DEF BackupsNext

-----------------------------------------------------------------------------
(* One after the other: files, filesystems, letters and parts of a text.   *)

\* A letter of a text where names in braces are filled in (lang.go:173).
FillName(vals, txt, st, i) ==
    CASE txt[i] = "{" -> Opened(st, i)
      [] txt[i] = "}" /\ st.start # 0 ->
           LET name == SubSeq(txt, st.start + 1, i - 1)
           IN  IF name \notin DOMAIN vals THEN [st EXCEPT !.start = 0]
               ELSE [start |-> 0, end |-> i,
                     out |-> st.out \o SubSeq(txt, st.end + 1, st.start - 1) \o vals[name]]
      [] OTHER -> st

\* A letter of a text where values are filled in one by one (lang.go:211).
FillNext(vals, txt, st, i) ==
    IF st.used < Len(vals) /\ SubSeq(txt, i, i + 2) = <<"{", "n", "}">>
    THEN [used |-> st.used + 1, end |-> i + 2,
          out |-> st.out \o SubSeq(txt, st.end + 1, i - 1) \o vals[st.used + 1]]
    ELSE st

\* One step of each loop.
Turn(what, env, order, k, s) ==
    CASE what = "file"       -> LoadOnce(env, s, order[k])
      [] what = "filesystem" -> LoadFilesystem(env, s, k, order)
      [] what = "name"       -> FillName(env, order, s, k)
      [] what = "next"       -> FillNext(env, order, s, k)
      [] what = "piece"      -> s \o order[k]

\* f is the table of what the steps lead to from st, for all sets of numbers up to n.
TurnTable(f, what, env, order, st, n) ==
    \A s \in SUBSET (1..n) : f[s] = IF s = {} THEN st ELSE Turn(what, env, order, Max(s), f[s \ {Max(s)}])

\* There is one: the next extends the last.
LEMMA TurnTableExists ==
    ASSUME NEW what, NEW env, NEW order, NEW st, NEW n \in Nat
    PROVE  \E f : TurnTable(f, what, env, order, st, n)
<1> DEFINE Has(m) == \E f : TurnTable(f, what, env, order, st, m)
           Not == {m \in 0..n : ~Has(m)}
<1> HIDE DEF Has
<1> SUFFICES ASSUME Not # {} PROVE FALSE
  <2>1. n \in 0..n
    OBVIOUS
  <2>2. Not = {} => Has(n)
    BY <2>1
  <2> QED BY <2>2 DEF Has
<1>1. PICK m \in Not : \A k \in Not : m <= k
  <2>1. Not \in SUBSET Nat
    OBVIOUS
  <2> HIDE DEF Not
  <2> QED BY <2>1, LeastNat
<1>2. m # 0
  <2>1. \A s \in SUBSET (1..0) : s = {}
    OBVIOUS
  <2>2. TurnTable([s \in SUBSET (1..0) |-> st], what, env, order, st, 0)
    BY <2>1 DEF TurnTable
  <2>3. Has(0)
    BY <2>2 DEF Has
  <2> QED BY <2>3
<1>3. Has(m - 1)
  <2>1. m - 1 \in 0..n /\ ~(m <= m - 1)
    BY <1>1, <1>2
  <2> QED BY <1>1, <2>1
<1>4. PICK f : TurnTable(f, what, env, order, st, m - 1)
  BY <1>3 DEF Has
<1> DEFINE Next1(s, k) == Turn(what, env, order, k, s)
           g == [s \in SUBSET (1..m) |-> IF m \in s THEN Next1(f[s \ {m}], m) ELSE f[s]]
<1>a. m \in Nat /\ m \in 1..n
  BY <1>1, <1>2
<1>5. \A s \in SUBSET (1..m) : m \notin s => s \in SUBSET (1..(m - 1))
  BY <1>a
<1>6. TurnTable(g, what, env, order, st, m)
  <2> SUFFICES ASSUME NEW s \in SUBSET (1..m)
               PROVE g[s] = IF s = {} THEN st ELSE Next1(g[s \ {Max(s)}], Max(s))
    BY DEF TurnTable
  <2> HIDE DEF Next1
  <2>1. CASE m \in s
    <3>1. Max(s) = m /\ s \ {m} \in SUBSET (1..m)
      BY <1>a, <2>1, GreatestOf
    <3>2. g[s \ {m}] = f[s \ {m}]
      BY <3>1
    <3> QED BY <2>1, <3>1, <3>2
  <2>2. CASE m \notin s
    <3>1. s \in SUBSET (1..(m - 1)) /\ g[s] = f[s]
      BY <1>5, <2>2
    <3>2. f[s] = IF s = {} THEN st ELSE Next1(f[s \ {Max(s)}], Max(s))
      BY <1>4, <3>1 DEF TurnTable, Next1
    <3>3. ASSUME s # {} PROVE g[s \ {Max(s)}] = f[s \ {Max(s)}]
      <4>1. s \ {Max(s)} \in SUBSET (1..m) /\ m \notin s \ {Max(s)}
        BY <2>2
      <4> QED BY <4>1
    <3> QED BY <3>1, <3>2, <3>3
  <2> QED BY <2>1, <2>2
<1> HIDE DEF g
<1>7. Has(m)
  BY <1>6 DEF Has
<1> QED BY <1>1, <1>7

\* run goes from st to `final` in n such steps.
TurnsLead(run, what, env, order, st, n, final) ==
    /\ run[0] = st /\ run[n] = final
    /\ \A k \in 1..n : run[k] = Turn(what, env, order, k, run[k - 1])

\* A table leads from step to step.
LEMMA TableLeads ==
    ASSUME NEW what, NEW env, NEW order, NEW st, NEW n \in Nat,
           NEW F, TurnTable(F, what, env, order, st, n)
    PROVE  \E run : TurnsLead(run, what, env, order, st, n, F[1..n])
<1> DEFINE run == [k \in 0..n |-> F[1..k]]
<1>1. F[{}] = st
  BY DEF TurnTable
<1>2. ASSUME NEW k \in 1..n PROVE F[1..k] = Turn(what, env, order, k, F[1..(k - 1)])
  <2>1. 1..k \in SUBSET (1..n) /\ 1..k # {}
    OBVIOUS
  <2>2. Max(1..k) = k /\ (1..k) \ {k} = 1..(k - 1)
    BY CountedLast
  <2>3. F[1..k] = Turn(what, env, order, Max(1..k), F[(1..k) \ {Max(1..k)}])
    BY <2>1 DEF TurnTable
  <2> QED BY <2>2, <2>3
<1>3. 1..0 = {} /\ \A k \in 1..n : k - 1 \in 0..n /\ k \in 0..n
  OBVIOUS
<1>4. run[0] = st /\ run[n] = F[1..n] /\ \A k \in 1..n : run[k] = Turn(what, env, order, k, run[k - 1])
  BY <1>1, <1>2, <1>3
<1> HIDE DEF run
<1> QED BY <1>4 DEF TurnsLead

-----------------------------------------------------------------------------
(* Texts put together from pieces.                                         *)

\* flat[k] is what the first k pieces make.
IsFlat(flat, pieces, n) ==
    /\ flat[0] = <<>> /\ \A k \in 1..n : flat[k] = flat[k - 1] \o pieces[k]
    /\ \A k \in 0..n : flat[k] \in Seq(Letters)

\* Flattening goes piece by piece.
LEMMA FlatIs ==
    ASSUME NEW pieces \in Seq(Seq(Letters)), NEW n \in Nat, n = Len(pieces)
    PROVE  \E flat : IsFlat(flat, pieces, n) /\ flat[n] = FlattenSeq(pieces)
<1> DEFINE Flatten(f) == f = [i \in 1..Len(pieces) |-> IF i = 1 THEN pieces[i] ELSE f[i - 1] \o pieces[i]]
           F == CHOOSE f : Flatten(f)
<1>1. /\ \A k \in 1..n : pieces[k] \in Seq(Letters)
      /\ \A k \in 1..n : k # 1 => k - 1 \in 1..n
  OBVIOUS
<1>2. PICK f : TurnTable(f, "piece", <<>>, pieces, <<>>, n)
  BY TurnTableExists
<1>3. PICK run : TurnsLead(run, "piece", <<>>, pieces, <<>>, n, f[1..n])
  BY <1>2, TableLeads
<1>4. run[0] = <<>> /\ \A k \in 1..n : run[k] = run[k - 1] \o pieces[k]
  BY <1>3 DEF TurnsLead, Turn
<1> DEFINE g == [i \in 1..n |-> run[i]]
<1>5. \A k \in 1..n : g[k] = IF k = 1 THEN pieces[k] ELSE g[k - 1] \o pieces[k]
  <2> SUFFICES ASSUME NEW k \in 1..n PROVE g[k] = IF k = 1 THEN pieces[k] ELSE g[k - 1] \o pieces[k]
    OBVIOUS
  <2>1. CASE k = 1
    <3>a. 1 \in 1..n /\ 1 - 1 = 0
      BY <2>1
    <3>b. run[1] = run[1 - 1] \o pieces[1]
      BY <1>4, <3>a
    <3>1. run[1] = <<>> \o pieces[1]
      BY <1>4, <3>a, <3>b
    <3>2. <<>> \o pieces[1] = pieces[1]
      BY <1>1, <2>1, ConcatEmptySeq
    <3> QED BY <2>1, <3>1, <3>2
  <2>2. CASE k # 1
    <3>1. k - 1 \in 1..n
      BY <1>1, <2>2
    <3> QED BY <1>4, <2>2, <3>1
  <2> QED BY <2>1, <2>2
<1>6. Flatten(g)
  <2>1. g = [i \in 1..n |-> g[i]]
    OBVIOUS
  <2> HIDE DEF g
  <2> QED BY <1>5, <2>1
<1>7. Flatten(F)
  <2> HIDE DEF Flatten
  <2> QED BY <1>6
<1> DEFINE flat == [k \in 0..n |-> IF k = 0 THEN <<>> ELSE F[k]]
<1>8. \A k \in 1..n : F[k] = IF k = 1 THEN pieces[k] ELSE F[k - 1] \o pieces[k]
  <2> HIDE DEF F
  <2> QED BY <1>7
<1>9. flat[0] = <<>> /\ \A k \in 1..n : flat[k] = flat[k - 1] \o pieces[k]
  <2> HIDE DEF F
  <2>1. ASSUME NEW k \in 1..n PROVE flat[k] = flat[k - 1] \o pieces[k]
    <3>1. CASE k = 1
      <4>1. flat[0] = <<>> /\ flat[1] = F[1] /\ F[1] = pieces[1] /\ 1 - 1 = 0
        BY <1>8, <3>1
      <4>2. <<>> \o pieces[1] = pieces[1]
        BY <1>1, <3>1, ConcatEmptySeq
      <4> QED BY <3>1, <4>1, <4>2
    <3>2. CASE k # 1
      <4>1. k - 1 \in 0..n /\ k - 1 # 0 /\ k \in 0..n /\ k # 0
        BY <3>2
      <4>2. flat[k - 1] = F[k - 1] /\ flat[k] = F[k]
        BY <4>1
      <4>3. F[k] = F[k - 1] \o pieces[k]
        BY <1>8, <3>2
      <4> QED BY <4>2, <4>3
    <3> QED BY <3>1, <3>2
  <2>2. flat[0] = <<>>
    OBVIOUS
  <2> HIDE DEF flat
  <2> QED BY <2>1, <2>2
<1>10. flat[n] = FlattenSeq(pieces)
  <2>1. CASE n = 0
    <3>1. pieces = <<>>
      BY <2>1, EmptySeq
    <3> QED BY <2>1, <3>1 DEF FlattenSeq
  <2>2. CASE n # 0
    <3>1. FlattenSeq(pieces) = F[Len(pieces)]
      BY <2>2 DEF FlattenSeq
    <3> HIDE DEF F
    <3> QED BY <2>2, <3>1
  <2> QED BY <2>1, <2>2
<1> HIDE DEF flat, F
<1> DEFINE Bad == {k \in 0..n : flat[k] \notin Seq(Letters)}
<1>11. Bad = {}
  <2> SUFFICES ASSUME Bad # {} PROVE FALSE
    OBVIOUS
  <2>1. Bad \in SUBSET Nat
    OBVIOUS
  <2>2. PICK k \in Bad : \A j \in Bad : k <= j
    <3> HIDE DEF Bad
    <3> QED BY <2>1, LeastNat
  <2>3. k # 0
    <3>1. <<>> \in Seq(Letters)
      OBVIOUS
    <3> QED BY <1>9, <3>1
  <2>4. k \in 1..n /\ k - 1 \in 0..n /\ ~(k <= k - 1)
    BY <2>3
  <2>5. flat[k - 1] \in Seq(Letters) /\ pieces[k] \in Seq(Letters)
    BY <1>1, <2>2, <2>4
  <2>6. flat[k] \in Seq(Letters)
    <3>1. flat[k - 1] \o pieces[k] \in Seq(Letters)
      BY <2>5, ConcatProperties
    <3> QED BY <1>9, <2>4, <3>1
  <2> QED BY <2>2, <2>6
<1>12. IsFlat(flat, pieces, n)
  BY <1>9, <1>11 DEF IsFlat
<1> QED BY <1>10, <1>12

\* Texts can be put together in any order.
LEMMA TextsJoin ==
    ASSUME NEW r \in Seq(Letters), NEW s \in Seq(Letters), NEW t \in Seq(Letters)
    PROVE  (r \o s) \o t = r \o (s \o t)
  BY ConcatAssociative

\* Each piece from one place of a text to another is the letter there.
PlainBetween(txt, pieces, flat, a, b) ==
    /\ IsFlat(flat, pieces, Len(txt)) /\ a \in 0..Len(txt) /\ b \in a..Len(txt)
    /\ \A k \in (a + 1)..b : pieces[k] = <<txt[k]>>

\* What is put together up to one place goes on up to another as the text does.
RunsOn(txt, flat, a, b) == flat[b] = flat[a] \o SubSeq(txt, a + 1, b)

\* Where every piece is a letter of a text, they make that part of it.
LEMMA PlainRun ==
    ASSUME NEW txt \in Seq(Letters), NEW pieces, NEW flat, NEW a, NEW b, PlainBetween(txt, pieces, flat, a, b)
    PROVE  RunsOn(txt, flat, a, b)
<1> SUFFICES ASSUME IsFlat(flat, pieces, Len(txt)), a \in 0..Len(txt), b \in a..Len(txt),
                    \A k \in (a + 1)..b : pieces[k] = <<txt[k]>>
             PROVE  flat[b] = flat[a] \o SubSeq(txt, a + 1, b)
  BY DEF PlainBetween, RunsOn
<1> DEFINE Good(k) == flat[k] = flat[a] \o SubSeq(txt, a + 1, k)
           Bad == {k \in a..b : ~Good(k)}
<1>1. Len(txt) \in Nat /\ a \in Nat /\ b \in Nat /\ flat[a] \in Seq(Letters) /\ a <= b /\ b <= Len(txt)
  BY DEF IsFlat
<1> HIDE DEF Good
<1> SUFFICES ASSUME Bad # {} PROVE FALSE
  <2>1. b \in a..b
    BY <1>1
  <2>2. Bad = {} => Good(b)
    BY <2>1
  <2> QED BY <2>2 DEF Good
<1>2. PICK k \in Bad : \A j \in Bad : k <= j
  <2>1. Bad \in SUBSET Nat
    BY <1>1
  <2> HIDE DEF Bad
  <2> QED BY <2>1, LeastNat
<1>3. k # a
  <2>1. SubSeq(txt, a + 1, a) = <<>>
    BY <1>1, SubSeqEmpty
  <2>2. flat[a] \o <<>> = flat[a]
    BY <1>1, ConcatEmptySeq
  <2>3. Good(a)
    BY <2>1, <2>2 DEF Good
  <2> QED BY <2>3
<1>4. k \in Nat /\ k - 1 \in a..b /\ k \in (a + 1)..b /\ k \in 1..Len(txt) /\ ~(k <= k - 1)
  BY <1>1, <1>2, <1>3
<1>5. Good(k - 1)
  BY <1>2, <1>4
<1>6. flat[k] = flat[k - 1] \o <<txt[k]>>
  BY <1>4 DEF IsFlat
<1>7. SubSeq(txt, a + 1, k) = SubSeq(txt, a + 1, k - 1) \o <<txt[k]>>
  <2>1. a + 1 \in 1..Len(txt) /\ k \in (a + 1)..Len(txt)
    BY <1>1, <1>4
  <2> QED BY <2>1, SubSeqRecursiveSecond
<1>8. SubSeq(txt, a + 1, k - 1) \in Seq(Letters) /\ <<txt[k]>> \in Seq(Letters)
  <2>1. \A i \in (a + 1)..(k - 1) : i \in 1..Len(txt)
    BY <1>1, <1>4
  <2>2. \A i \in (a + 1)..(k - 1) : txt[i] \in Letters
    BY <2>1
  <2>3. SubSeq(txt, a + 1, k - 1) \in Seq(Letters)
    BY <1>1, <1>4, <2>2, SubSeqProperties
  <2> QED BY <1>4, <2>3
<1>9. PICK sub, letter : sub = SubSeq(txt, a + 1, k - 1) /\ letter = <<txt[k]>>
  OBVIOUS
<1>10. (flat[a] \o sub) \o letter = flat[a] \o (sub \o letter)
  <2>1. sub \in Seq(Letters) /\ letter \in Seq(Letters)
    BY <1>8, <1>9
  <2>2. PICK before : before = flat[a]
    OBVIOUS
  <2>3. before \in Seq(Letters)
    BY <1>1, <2>2
  <2>4. (before \o sub) \o letter = before \o (sub \o letter)
    BY <2>1, <2>3, TextsJoin
  <2> QED BY <2>2, <2>4
<1>11. Good(k)
  <2>1. flat[k - 1] = flat[a] \o sub
    BY <1>5, <1>9 DEF Good
  <2>2. SubSeq(txt, a + 1, k) = sub \o letter
    BY <1>7, <1>9
  <2> QED BY <1>6, <1>9, <1>10, <2>1, <2>2 DEF Good
<1> QED BY <1>2, <1>11

\* No piece from one place to another has a letter.
EmptyBetween(pieces, n, flat, a, b) ==
    /\ n \in Nat /\ a \in 0..n /\ b \in a..n /\ IsFlat(flat, pieces, n)
    /\ \A k \in (a + 1)..b : pieces[k] = <<>>

\* Empty pieces add nothing.
LEMMA EmptyRun ==
    ASSUME NEW pieces, NEW n, NEW flat, NEW a, NEW b, EmptyBetween(pieces, n, flat, a, b)
    PROVE  flat[b] = flat[a]
<1> USE DEF EmptyBetween
<1> DEFINE Bad == {k \in a..b : flat[k] # flat[a]}
<1> SUFFICES ASSUME Bad # {} PROVE FALSE
  OBVIOUS
<1>2. PICK k \in Bad : \A j \in Bad : k <= j
  <2>1. Bad \in SUBSET Nat
    OBVIOUS
  <2> HIDE DEF Bad
  <2> QED BY <2>1, LeastNat
<1>3. k \in Nat /\ k - 1 \in a..b /\ k \in (a + 1)..b /\ k \in 1..n /\ ~(k <= k - 1) /\ k - 1 \in 0..n
  BY <1>2
<1>4. flat[k] = flat[k - 1] \o <<>> /\ flat[k - 1] \in Seq(Letters)
  BY <1>3 DEF IsFlat
<1>5. flat[k] = flat[k - 1]
  BY <1>4, ConcatEmptySeq
<1> QED BY <1>2, <1>3, <1>5

\* The parts of a text, no two of which share a letter.
AreParts(P, n) ==
    \A p \in P : /\ p = <<p[1], p[2]>> /\ p[1] \in 1..n /\ p[2] \in 1..n /\ p[1] < p[2]
                 /\ \A q \in P : p = q \/ p[2] < q[1] \/ q[2] < p[1]

\* Each part is a piece with its value, every other letter one of its own.
AreFilled(pieces, P, value, n) ==
    /\ \A p \in P : pieces[p[1]] = value[p] /\ \A k \in (p[1] + 1)..p[2] : pieces[k] = <<>>
    /\ \A k \in 1..n : (\A p \in P : k < p[1] \/ p[2] < k) => pieces[k] = <<text[k]>>

\* Pieces chosen by where a part begins.
LEMMA PiecesAreFilled ==
    ASSUME text \in Seq(Letters), NEW P, AreParts(P, Len(text)),
           NEW value, \A p \in P : value[p] \in Seq(Letters), NEW pieces, DOMAIN pieces = DOMAIN text,
           pieces = [k \in DOMAIN text |-> pieces[k]],
           \A k \in 1..Len(text) :
               /\ \A p \in P : p[1] = k => pieces[k] = value[p]
               /\ (~\E p \in P : p[1] = k) =>
                      pieces[k] = IF \E p \in P : p[1] < k /\ k <= p[2] THEN <<>> ELSE <<text[k]>>
    PROVE  /\ pieces \in Seq(Seq(Letters)) /\ Len(pieces) = Len(text)
           /\ AreFilled(pieces, P, value, Len(text))
<1>1. Len(text) \in Nat /\ DOMAIN text = 1..Len(text) /\ \A k \in 1..Len(text) : <<text[k]>> \in Seq(Letters)
  OBVIOUS
<1>2. \A k \in 1..Len(text) : pieces[k] \in Seq(Letters)
  <2> TAKE k \in 1..Len(text)
  <2>1. CASE \E p \in P : p[1] = k
    BY <2>1
  <2>2. CASE ~\E p \in P : p[1] = k
    <3>1. <<>> \in Seq(Letters)
      OBVIOUS
    <3> QED BY <1>1, <2>2, <3>1
  <2> QED BY <2>1, <2>2
<1>3. pieces \in Seq(Seq(Letters)) /\ Len(pieces) = Len(text)
  BY <1>1, <1>2
<1>4. \A p \in P : pieces[p[1]] = value[p]
  BY DEF AreParts
<1>5. ASSUME NEW p \in P, NEW k \in (p[1] + 1)..p[2] PROVE pieces[k] = <<>>
  <2>1. k \in 1..Len(text) /\ p[1] < k /\ k <= p[2] /\ p[1] \in Nat /\ p[2] \in Nat
    BY <1>1, <1>5 DEF AreParts
  <2>2. ~\E q \in P : q[1] = k
    <3> SUFFICES ASSUME NEW q \in P, q[1] = k PROVE FALSE
      OBVIOUS
    <3>1. q[1] \in Nat /\ q[2] \in Nat /\ q[1] < q[2]
      BY DEF AreParts
    <3>2. p = q \/ p[2] < q[1] \/ q[2] < p[1]
      BY DEF AreParts
    <3> QED BY <2>1, <3>1, <3>2
  <2> QED BY <2>1, <2>2
<1>6. ASSUME NEW k \in 1..Len(text), \A p \in P : k < p[1] \/ p[2] < k PROVE pieces[k] = <<text[k]>>
  <2>1. ASSUME NEW p \in P PROVE p[1] # k /\ ~(p[1] < k /\ k <= p[2])
    <3>1. p[1] \in Nat /\ p[2] \in Nat /\ p[1] < p[2] /\ (k < p[1] \/ p[2] < k)
      BY <1>6 DEF AreParts
    <3> QED BY <3>1
  <2> QED BY <2>1
<1> QED BY <1>3, <1>4, <1>5, <1>6 DEF AreFilled

\* Part p, from s to e, comes next in a text that is put together up to a.
ComesNext(P, value, pieces, flat, p, s, e, a) ==
    /\ AreParts(P, Len(text)) /\ AreFilled(pieces, P, value, Len(text)) /\ IsFlat(flat, pieces, Len(text))
    /\ p \in P /\ s = p[1] /\ e = p[2]
    /\ a \in 0..(s - 1) /\ \A q \in P : q[2] <= a \/ s <= q[1]

\* A text up to e is that up to a, plain letters before s, and v.
GoesOn(flat, a, s, e, v) == flat[e] = flat[a] \o SubSeq(text, a + 1, s - 1) \o v

\* Up to its end, a text is what it was before, plain letters and a value.
LEMMA FilledIn ==
    ASSUME text \in Seq(Letters), NEW P, NEW value, NEW pieces, NEW flat, NEW p, NEW s, NEW e, NEW a,
           ComesNext(P, value, pieces, flat, p, s, e, a)
    PROVE  GoesOn(flat, a, s, e, value[p])
<1>0. /\ AreParts(P, Len(text)) /\ AreFilled(pieces, P, value, Len(text)) /\ IsFlat(flat, pieces, Len(text))
      /\ p \in P /\ s = p[1] /\ e = p[2]
      /\ a \in 0..(s - 1) /\ \A q \in P : q[2] <= a \/ s <= q[1]
  BY DEF ComesNext
<1>1. PICK m : m = Len(text)
  OBVIOUS
<1>2. m \in Nat /\ s \in 1..m /\ e \in 1..m /\ s < e /\ a \in Nat /\ a < s
  BY <1>0, <1>1 DEF AreParts
<1>3. flat[s - 1] = flat[a] \o SubSeq(text, a + 1, s - 1)
  <2>1. \A k \in (a + 1)..(s - 1) : pieces[k] = <<text[k]>>
    <3> TAKE k \in (a + 1)..(s - 1)
    <3>1. k \in 1..m /\ a < k /\ k < s
      BY <1>2
    <3>2. ASSUME NEW q \in P PROVE k < q[1] \/ q[2] < k
      <4>1. q[1] \in 1..m /\ q[2] \in 1..m
        BY <1>0, <1>1 DEF AreParts
      <4>2. q[2] <= a \/ s <= q[1]
        BY <1>0
      <4> QED BY <1>2, <3>1, <4>1, <4>2
    <3> QED BY <1>0, <1>1, <3>1, <3>2 DEF AreFilled
  <2>2. PICK b : b = s - 1
    OBVIOUS
  <2>3. a \in 0..Len(text) /\ b \in a..Len(text)
    BY <1>1, <1>2, <2>2
  <2>4. \A k \in (a + 1)..b : pieces[k] = <<text[k]>>
    BY <2>1, <2>2
  <2>5. flat[b] = flat[a] \o SubSeq(text, a + 1, b)
    <3>1. PlainBetween(text, pieces, flat, a, b)
      BY <1>0, <2>3, <2>4 DEF PlainBetween
    <3>2. RunsOn(text, flat, a, b)
      BY <3>1, PlainRun
    <3> QED BY <3>2 DEF RunsOn
  <2> QED BY <2>2, <2>5
<1>4. flat[s] = flat[s - 1] \o value[p]
  BY <1>0, <1>1, <1>2 DEF IsFlat, AreFilled
<1>5. flat[e] = flat[s]
  <2>1. \A k \in (s + 1)..e : pieces[k] = <<>>
    BY <1>0, <1>1 DEF AreFilled
  <2>2. s \in 0..m /\ e \in s..m /\ IsFlat(flat, pieces, m)
    BY <1>0, <1>1, <1>2
  <2>3. EmptyBetween(pieces, m, flat, s, e)
    BY <1>2, <2>1, <2>2 DEF EmptyBetween
  <2> QED BY <2>3, EmptyRun
<1> QED BY <1>3, <1>4, <1>5 DEF GoesOn

\* After the last part, all letters are plain.
LEMMA RestIsPlain ==
    ASSUME text \in Seq(Letters), NEW P, AreParts(P, Len(text)), NEW value, NEW pieces,
           AreFilled(pieces, P, value, Len(text)), NEW flat, IsFlat(flat, pieces, Len(text)),
           NEW a \in 0..Len(text), \A q \in P : q[2] <= a
    PROVE  flat[Len(text)] = flat[a] \o SubSeq(text, a + 1, Len(text))
<1>1. Len(text) \in Nat /\ a \in Nat /\ Len(text) \in a..Len(text)
  OBVIOUS
<1>2. ASSUME NEW k \in (a + 1)..Len(text) PROVE pieces[k] = <<text[k]>>
  <2>1. k \in 1..Len(text) /\ a < k
    BY <1>1
  <2>2. ASSUME NEW q \in P PROVE q[2] < k
    BY <1>1, <2>1 DEF AreParts
  <2> QED BY <2>1, <2>2 DEF AreFilled
<1>3. PlainBetween(text, pieces, flat, a, Len(text))
  BY <1>1, <1>2 DEF PlainBetween
<1>4. RunsOn(text, flat, a, Len(text))
  BY <1>3, PlainRun
<1> QED BY <1>4 DEF RunsOn

-----------------------------------------------------------------------------
(* Names in braces.                                                        *)

\* The names in braces that have a value.
NamedParts ==
    {p \in (DOMAIN text) \X (DOMAIN text) :
        /\ p[1] < p[2] /\ text[p[1]] = "{" /\ text[p[2]] = "}"
        /\ \A k \in (p[1] + 1)..(p[2] - 1) : text[k] \notin {"{", "}"}
        /\ SubSeq(text, p[1] + 1, p[2] - 1) \in DOMAIN NamedValues}

\* A pair of numbers.
LEMMA PairIs ==
    ASSUME NEW n, NEW p \in (1..n) \X (1..n)
    PROVE  p = <<p[1], p[2]>> /\ p[1] \in 1..n /\ p[2] \in 1..n
  OBVIOUS

\* A part in braces that holds no brace.
Braced(p) ==
    /\ p \in (DOMAIN text) \X (DOMAIN text)
    /\ p[1] < p[2] /\ text[p[1]] = "{" /\ text[p[2]] = "}"
    /\ \A k \in (p[1] + 1)..(p[2] - 1) : text[k] \notin {"{", "}"}

\* Nothing between its braces is one.
LEMMA BracedIs ==
    ASSUME text \in Seq(Letters), NEW p, Braced(p)
    PROVE  /\ p = <<p[1], p[2]>> /\ p[1] \in 1..Len(text) /\ p[2] \in 1..Len(text) /\ p[1] < p[2]
           /\ \A k \in Nat : text[k] \in {"{", "}"} => k <= p[1] \/ p[2] <= k
<1>1. Len(text) \in Nat /\ DOMAIN text = 1..Len(text)
  OBVIOUS
<1>2. p \in (1..Len(text)) \X (1..Len(text))
  BY <1>1 DEF Braced
<1>3. p = <<p[1], p[2]>> /\ p[1] \in 1..Len(text) /\ p[2] \in 1..Len(text)
  BY <1>2, PairIs
<1>4. ASSUME NEW k \in Nat, text[k] \in {"{", "}"} PROVE k <= p[1] \/ p[2] <= k
  <2>1. k \notin (p[1] + 1)..(p[2] - 1)
    BY <1>4 DEF Braced
  <2>2. PICK b, e : b = p[1] /\ e = p[2]
    OBVIOUS
  <2>3. b \in Int /\ e \in Int /\ k \notin (b + 1)..(e - 1)
    BY <1>1, <1>3, <2>1, <2>2
  <2>4. k <= b \/ e <= k
    BY ONLY <2>3, k \in Nat
  <2> QED BY <2>2, <2>4
<1> QED BY <1>3, <1>4 DEF Braced

\* Such parts share no letter.
LEMMA BracesApart ==
    ASSUME text \in Seq(Letters), NEW P, \A p \in P : Braced(p)
    PROVE  AreParts(P, Len(text))
<1>1. ASSUME NEW p \in P, NEW q \in P PROVE p = q \/ p[2] < q[1] \/ q[2] < p[1]
  <2>1. PICK a, b, c, d : a = p[1] /\ b = p[2] /\ c = q[1] /\ d = q[2]
    OBVIOUS
  <2>2. Len(text) \in Nat /\ Braced(p) /\ Braced(q)
    OBVIOUS
  <2>3. a \in 1..Len(text) /\ b \in 1..Len(text) /\ c \in 1..Len(text) /\ d \in 1..Len(text) /\ a < b /\ c < d
    BY <2>1, <2>2, BracedIs
  <2>4. a \in Nat /\ b \in Nat /\ c \in Nat /\ d \in Nat
    BY <2>2, <2>3
  <2>5. text[a] = "{" /\ text[b] = "}" /\ text[c] = "{" /\ text[d] = "}"
    BY <2>1, <2>2 DEF Braced
  <2>6. (c <= a \/ b <= c) /\ (d <= a \/ b <= d) /\ (a <= c \/ d <= a) /\ (b <= c \/ d <= b)
    BY <2>1, <2>2, <2>4, <2>5, BracedIs
  <2>7. b # c /\ a # d
    BY <2>5
  <2>8. (a = c /\ b = d) \/ b < c \/ d < a
    BY ONLY <2>3, <2>4, <2>6, <2>7
  <2>9. p = <<a, b>> /\ q = <<c, d>>
    BY <2>1, <2>2, BracedIs
  <2> QED BY <2>1, <2>8, <2>9
<1>2. ASSUME NEW p \in P
      PROVE  p = <<p[1], p[2]>> /\ p[1] \in 1..Len(text) /\ p[2] \in 1..Len(text) /\ p[1] < p[2]
  BY BracedIs
<1> QED BY <1>1, <1>2 DEF AreParts

\* What is known after i letters: the brace that is open, if any, and the text so far.
NamedSoFar(st, flat, i) ==
    /\ st = [start |-> st.start, end |-> st.end, out |-> st.out]
    /\ st.start \in 0..i /\ st.end \in 0..i /\ st.out = flat[st.end]
    /\ st.start # 0 => /\ st.end < st.start /\ text[st.start] = "{"
                       /\ \A k \in (st.start + 1)..i : text[k] \notin {"{", "}"}
    /\ st.start = 0 => \A k \in 1..i : text[k] = "{" => \E j \in (k + 1)..i : text[j] = "}"
    /\ \A p \in NamedParts : p[2] <= i => p[2] <= st.end

\* A part that ends here began at the open brace.
LEMMA EndsHere ==
    ASSUME text \in Seq(Letters), NEW st, NEW flat, NEW i \in 1..Len(text), NamedSoFar(st, flat, i - 1),
           NEW p, Braced(p), p[2] = i
    PROVE  st.start # 0 /\ p = <<st.start, i>>
<1>1. PICK b, s : b = p[1] /\ s = st.start
  OBVIOUS
<1>2. p = <<b, i>> /\ b \in 1..Len(text) /\ b < i
  BY <1>1, BracedIs
<1>3. Len(text) \in Nat /\ i \in Nat /\ b \in 1..(i - 1)
  BY <1>2
<1>4. text[b] = "{"
  BY <1>1 DEF Braced
<1>5. s # 0
  <2> SUFFICES ASSUME s = 0 PROVE FALSE
    OBVIOUS
  <2>1. PICK j \in (b + 1)..(i - 1) : text[j] = "}"
    BY <1>1, <1>3, <1>4 DEF NamedSoFar
  <2>2. j \in Nat /\ b < j /\ j < i
    BY <1>3
  <2>3. j <= b \/ i <= j
    BY <1>1, <2>1, <2>2, BracedIs
  <2> QED BY ONLY <1>3, <2>2, <2>3
<1>6. s \in 0..(i - 1) /\ text[s] = "{" /\ \A k \in (s + 1)..(i - 1) : text[k] \notin {"{", "}"}
  BY <1>1, <1>5 DEF NamedSoFar
<1>7. s \in Nat /\ s < i
  <2>1. s \in 0..(i - 1)
    BY <1>6
  <2> QED BY ONLY <1>3, <2>1
<1>8. s <= b \/ i <= s
  BY <1>1, <1>6, <1>7, BracedIs
<1>9. b \notin (s + 1)..(i - 1)
  BY <1>4, <1>6
<1>10. b = s
  BY ONLY <1>3, <1>7, <1>8, <1>9
<1> QED BY <1>1, <1>2, <1>5, <1>10

\* What is to be known of a state.
LEMMA NamedSoFarIs ==
    ASSUME NEW to, NEW flat, NEW i, NEW a \in 0..i, NEW b \in 0..i,
           to = [start |-> a, end |-> b, out |-> flat[b]],
           a # 0 => b < a /\ text[a] = "{" /\ \A k \in (a + 1)..i : text[k] \notin {"{", "}"},
           a = 0 => \A k \in 1..i : text[k] = "{" => \E j \in (k + 1)..i : text[j] = "}",
           \A p \in NamedParts : p[2] <= i => p[2] <= b
    PROVE  NamedSoFar(to, flat, i)
<1>1. to.start = a /\ to.end = b /\ to.out = flat[b]
  OBVIOUS
<1>2. to = [start |-> to.start, end |-> to.end, out |-> to.out]
  BY <1>1
<1> QED BY <1>1, <1>2 DEF NamedSoFar

\* Another letter of a text with names (templateString, lang.go:173).
LEMMA NameTurn ==
    ASSUME text \in Seq(Letters), NEW value, NEW pieces, AreFilled(pieces, NamedParts, value, Len(text)),
           NEW flat, IsFlat(flat, pieces, Len(text)), AreParts(NamedParts, Len(text)),
           \A p \in NamedParts : value[p] = NamedValues[SubSeq(text, p[1] + 1, p[2] - 1)],
           NEW i \in 1..Len(text), NEW st, NamedSoFar(st, flat, i - 1)
    PROVE  NamedSoFar(FillName(NamedValues, text, st, i), flat, i)
<1> DEFINE name == SubSeq(text, st.start + 1, i - 1)
<1>1. PICK s, e : s = st.start /\ e = st.end
  OBVIOUS
<1>2. Len(text) \in Nat /\ i \in Nat /\ s \in Nat /\ e \in Nat /\ s <= i - 1 /\ e <= i - 1 /\ i <= Len(text)
      /\ s \in 0..(i - 1) /\ e \in 0..(i - 1)
  <2>1. Len(text) \in Nat
    OBVIOUS
  <2>2. s \in 0..(i - 1) /\ e \in 0..(i - 1)
    BY <1>1 DEF NamedSoFar
  <2> QED BY <2>1, <2>2
<1>3. /\ st = [start |-> st.start, end |-> st.end, out |-> st.out] /\ st.out = flat[st.end]
      /\ st.start # 0 => /\ st.end < st.start /\ text[st.start] = "{"
                         /\ \A k \in (st.start + 1)..(i - 1) : text[k] \notin {"{", "}"}
      /\ st.start = 0 => \A k \in 1..(i - 1) : text[k] = "{" => \E j \in (k + 1)..(i - 1) : text[j] = "}"
      /\ \A p \in NamedParts : p[2] <= i - 1 => p[2] <= st.end
  BY DEF NamedSoFar
<1>4. \A p \in NamedParts : Braced(p) /\ p[1] \in Nat /\ p[2] \in Nat /\ text[p[2]] = "}"
  <2> TAKE p \in NamedParts
  <2>1. Braced(p) /\ text[p[2]] = "}"
    BY DEF NamedParts, Braced
  <2>2. PICK b, c : b = p[1] /\ c = p[2]
    OBVIOUS
  <2>3. b \in 1..Len(text) /\ c \in 1..Len(text)
    BY <2>1, <2>2, BracedIs
  <2>4. b \in Nat /\ c \in Nat
    BY ONLY <1>2, <2>3
  <2> QED BY <2>1, <2>2, <2>4
\* No part that is known ends here unless it begins at the open brace.
<1>5. \A p \in NamedParts : p[2] <= i /\ ~(p[2] <= st.end) => st.start # 0 /\ p = <<st.start, i>>
  <2> SUFFICES ASSUME NEW p \in NamedParts, p[2] <= i, ~(p[2] <= st.end)
               PROVE  st.start # 0 /\ p = <<st.start, i>>
    OBVIOUS
  <2>1. PICK d : d = p[2]
    OBVIOUS
  <2>2. d \in Nat /\ d <= i /\ ~(d <= i - 1)
    BY <1>3, <1>4, <2>1
  <2>3. d = i
    BY ONLY <1>2, <2>2
  <2> QED BY <1>4, <2>1, <2>3, EndsHere
\* The braces that are closed stay closed.
<1>6. ASSUME st.start = 0, text[i] # "{", NEW k \in 1..i, text[k] = "{"
      PROVE  \E j \in (k + 1)..i : text[j] = "}"
  <2>1. k \in 1..(i - 1)
    <3>1. k # i
      BY <1>6
    <3> QED BY ONLY <1>2, <3>1, k \in 1..i
  <2>2. PICK j \in (k + 1)..(i - 1) : text[j] = "}"
    BY <1>3, <1>6, <2>1
  <2>3. j \in (k + 1)..i
    BY ONLY <1>2, <2>1, j \in (k + 1)..(i - 1)
  <2> QED BY <2>2, <2>3
<1>7. CASE text[i] = "{"
  <2>1. PICK to : to = FillName(NamedValues, text, st, i)
    OBVIOUS
  <2>2. to = [start |-> i, end |-> st.end, out |-> st.out]
    BY <1>3, <1>7, <2>1 DEF FillName, Opened
  <2>3. \A p \in NamedParts : p[2] <= i => p[2] <= st.end
    <3> SUFFICES ASSUME NEW p \in NamedParts, p[2] <= i, ~(p[2] <= st.end) PROVE FALSE
      OBVIOUS
    <3>1. p = <<st.start, i>>
      BY <1>5
    <3> QED BY <1>4, <1>7, <3>1
  <2>4. i \in 0..i /\ e \in 0..i /\ e < i /\ i # 0 /\ (i + 1)..i = {}
    BY ONLY <1>2, i \in 1..Len(text)
  <2>5. \A k \in (i + 1)..i : text[k] \notin {"{", "}"}
    BY <2>4
  <2>6. to = [start |-> i, end |-> e, out |-> flat[e]]
    BY <1>1, <1>3, <2>2
  <2>7. \A p \in NamedParts : p[2] <= i => p[2] <= e
    BY <1>1, <2>3
  <2>8. NamedSoFar(to, flat, i)
    BY <1>7, <2>4, <2>5, <2>6, <2>7, NamedSoFarIs
  <2> QED BY <2>1, <2>8
<1>8. CASE text[i] = "}" /\ st.start # 0 /\ name \notin DOMAIN NamedValues
  <2>1. PICK to : to = FillName(NamedValues, text, st, i)
    OBVIOUS
  <2>2. to = [start |-> 0, end |-> st.end, out |-> st.out]
    <3>1. to = [st EXCEPT !.start = 0]
      BY <1>8, <2>1 DEF FillName
    <3> QED BY <1>3, <3>1
  <2>3. \A p \in NamedParts : p[2] <= i => p[2] <= st.end
    <3> SUFFICES ASSUME NEW p \in NamedParts, p[2] <= i, ~(p[2] <= st.end) PROVE FALSE
      OBVIOUS
    <3>1. p = <<st.start, i>>
      BY <1>5
    <3>2. p[1] = st.start /\ p[2] = i
      BY <3>1
    <3> QED BY <1>8, <3>2 DEF NamedParts
  <2>4. \A k \in 1..i : text[k] = "{" => \E j \in (k + 1)..i : text[j] = "}"
    <3> SUFFICES ASSUME NEW k \in 1..i, text[k] = "{" PROVE \E j \in (k + 1)..i : text[j] = "}"
      OBVIOUS
    <3>1. k # i
      BY <1>8
    <3>2. i \in (k + 1)..i
      BY ONLY <1>2, <3>1, k \in 1..i
    <3> QED BY <1>8, <3>2
  <2>5. 0 \in 0..i /\ e \in 0..i
    BY ONLY <1>2
  <2>6. to = [start |-> 0, end |-> e, out |-> flat[e]]
    BY <1>1, <1>3, <2>2
  <2>7. \A p \in NamedParts : p[2] <= i => p[2] <= e
    BY <1>1, <2>3
  <2>8. NamedSoFar(to, flat, i)
    BY <2>4, <2>5, <2>6, <2>7, NamedSoFarIs
  <2> QED BY <2>1, <2>8
<1>9. CASE text[i] = "}" /\ st.start # 0 /\ name \in DOMAIN NamedValues
  <2>1. PICK to : to = FillName(NamedValues, text, st, i)
    OBVIOUS
  <2>2. to = [start |-> 0, end |-> i,
              out |-> st.out \o SubSeq(text, st.end + 1, st.start - 1) \o NamedValues[name]]
    BY <1>9, <2>1 DEF FillName
  <2>3. PICK p : p = <<s, i>>
    OBVIOUS
  <2>4. p \in NamedParts
    <3>a. s # 0
      BY <1>1, <1>9
    <3>1. s \in 1..Len(text) /\ s < i
      BY ONLY <1>2, <3>a
    <3>2. p \in (DOMAIN text) \X (DOMAIN text)
      BY <2>3, <3>1
    <3>3. p[1] = s /\ p[2] = i
      BY <2>3
    <3>4. \A k \in (s + 1)..(i - 1) : text[k] \notin {"{", "}"}
      BY <1>1, <1>3, <1>9
    <3> QED BY <1>1, <1>3, <1>9, <3>1, <3>2, <3>3, <3>4 DEF NamedParts
  <2>5. \A q \in NamedParts : q[2] <= e \/ p[1] <= q[1]
    <3> SUFFICES ASSUME NEW q \in NamedParts, ~(q[2] <= e) PROVE p[1] <= q[1]
      OBVIOUS
    <3>1. q = p \/ ~(q[2] <= i)
      BY <1>1, <1>5, <2>3
    <3>2. CASE q = p
      <4>1. p[1] = s
        BY <2>3
      <4> QED BY <1>2, <3>2, <4>1
    <3>3. CASE ~(q[2] <= i)
      <4>1. p = q \/ p[2] < q[1] \/ q[2] < p[1]
        BY <2>4 DEF AreParts
      <4>2. PICK c, d : c = q[1] /\ d = q[2]
        OBVIOUS
      <4>3. c \in Nat /\ d \in Nat
        BY <1>4, <4>2
      <4>4. i < c \/ d < s \/ c = s
        BY <2>3, <4>1, <4>2
      <4>5. s <= c
        BY ONLY <1>2, <3>3, <4>2, <4>3, <4>4
      <4> QED BY <2>3, <4>2, <4>5
    <3> QED BY <3>1, <3>2, <3>3
  <2>6. e \in 0..(s - 1)
    <3>1. e < s
      BY <1>1, <1>3, <1>9
    <3> QED BY ONLY <1>2, <3>1
  <2>7. flat[i] = flat[e] \o SubSeq(text, e + 1, s - 1) \o value[p]
    <3>1. s = p[1] /\ i = p[2]
      BY <2>3
    <3>2. \A q \in NamedParts : q[2] <= e \/ s <= q[1]
      BY <2>5, <3>1
    <3>3. ComesNext(NamedParts, value, pieces, flat, p, s, i, e)
      BY <2>4, <2>6, <3>1, <3>2 DEF ComesNext
    <3>4. GoesOn(flat, e, s, i, value[p])
      BY <3>3, FilledIn
    <3> QED BY <3>4 DEF GoesOn
  <2>8. value[p] = NamedValues[name]
    <3>1. p[1] = st.start /\ p[2] = i
      BY <1>1, <2>3
    <3> QED BY <2>4, <3>1
  <2>9. to = [start |-> 0, end |-> i, out |-> flat[i]]
    BY <1>1, <1>3, <2>2, <2>7, <2>8
  <2>10. \A k \in 1..i : text[k] = "{" => \E j \in (k + 1)..i : text[j] = "}"
    <3> SUFFICES ASSUME NEW k \in 1..i, text[k] = "{" PROVE \E j \in (k + 1)..i : text[j] = "}"
      OBVIOUS
    <3>1. k # i
      BY <1>9
    <3>2. i \in (k + 1)..i
      BY ONLY <1>2, <3>1, k \in 1..i
    <3> QED BY <1>9, <3>2
  <2>11. 0 \in 0..i /\ i \in 0..i
    BY ONLY <1>2
  <2>12. \A q \in NamedParts : q[2] <= i => q[2] <= i
    OBVIOUS
  <2>13. NamedSoFar(to, flat, i)
    BY <2>9, <2>10, <2>11, <2>12, NamedSoFarIs
  <2> QED BY <2>1, <2>13
<1>10. CASE text[i] # "{" /\ ~(text[i] = "}" /\ st.start # 0)
  <2>1. FillName(NamedValues, text, st, i) = st
    BY <1>10 DEF FillName
  <2>2. \A p \in NamedParts : p[2] <= i => p[2] <= st.end
    <3> SUFFICES ASSUME NEW p \in NamedParts, p[2] <= i, ~(p[2] <= st.end) PROVE FALSE
      OBVIOUS
    <3>1. st.start # 0 /\ p = <<st.start, i>>
      BY <1>5
    <3> QED BY <1>4, <1>10, <3>1
  <2>3. s \in 0..i /\ e \in 0..i
    BY ONLY <1>2
  <2>4. ASSUME st.start # 0, NEW k \in (st.start + 1)..i PROVE text[k] \notin {"{", "}"}
    <3>1. CASE k = i
      BY <1>10, <2>4, <3>1
    <3>2. CASE k # i
      <4>1. k \in (s + 1)..(i - 1)
        BY ONLY <1>1, <1>2, <3>2, k \in (st.start + 1)..i
      <4> QED BY <1>1, <1>3, <2>4, <4>1
    <3> QED BY <3>1, <3>2
  <2>5. st.start = 0 => \A k \in 1..i : text[k] = "{" => \E j \in (k + 1)..i : text[j] = "}"
    BY <1>6, <1>10
  <2> QED BY <1>1, <1>3, <2>1, <2>2, <2>3, <2>4, <2>5 DEF NamedSoFar
<1> QED BY <1>7, <1>8, <1>9, <1>10

\* templateString goes from letter to letter.
LEMMA NamesInTurn ==
    ASSUME NEW txt, NEW vals, NEW n \in Nat, DOMAIN txt = 1..n
    PROVE  \E run, final :
              /\ TurnsLead(run, "name", vals, txt, [start |-> 0, end |-> 0, out |-> <<>>], n, final)
              /\ templateString(txt, vals) = final.out \o SubSeq(txt, final.end + 1, Len(txt))
<1> DEFINE st == [start |-> 0, end |-> 0, out |-> <<>>]
           each == [i \in DOMAIN txt |-> i]
           Fill(s, i) ==
               CASE txt[i] = "{" -> Opened(s, i)
                 [] txt[i] = "}" /\ s.start # 0 ->
                      LET name == SubSeq(txt, s.start + 1, i - 1)
                      IN  IF name \notin DOMAIN vals THEN [s EXCEPT !.start = 0]
                          ELSE [start |-> 0, end |-> i,
                                out |-> s.out \o SubSeq(txt, s.end + 1, s.start - 1) \o vals[name]]
                 [] OTHER -> s
           Table(f) == f = [s \in SUBSET (1..n) |->
                               IF s = {} THEN st ELSE Fill(f[s \ {Max(s)}], each[Max(s)])]
           F == CHOOSE f : Table(f)
<1>1. PICK g : TurnTable(g, "name", vals, txt, st, n)
  BY TurnTableExists
<1>2. \A s \in SUBSET (1..n) : s # {} => s \ {Max(s)} \in SUBSET (1..n) /\ each[Max(s)] = Max(s)
  BY Greatest
<1>0. \A x, k : Fill(x, k) = FillName(vals, txt, x, k)
  BY DEF FillName
<1>t. templateString(txt, vals) = F[1..n].out \o SubSeq(txt, F[1..n].end + 1, Len(txt))
  BY DEF templateString, FoldLeft, MapThenFoldSet
<1> HIDE DEF Fill, st
<1>3. \A s \in SUBSET (1..n) :
          g[s] = IF s = {} THEN st ELSE Fill(g[s \ {Max(s)}], Max(s))
  <2>1. \A s \in SUBSET (1..n) :
            g[s] = IF s = {} THEN st ELSE FillName(vals, txt, g[s \ {Max(s)}], Max(s))
    BY <1>1 DEF TurnTable, Turn
  <2> QED BY <1>0, <2>1
<1> DEFINE h == [s \in SUBSET (1..n) |-> g[s]]
<1>4. \A s \in SUBSET (1..n) :
          h[s] = IF s = {} THEN st ELSE Fill(h[s \ {Max(s)}], each[Max(s)])
  <2> HIDE DEF each
  <2> QED BY <1>2, <1>3
<1>5. Table(h)
  <2> HIDE DEF h, each
  <2>1. h = [s \in SUBSET (1..n) |-> h[s]]
    BY DEF h
  <2> QED BY <1>4, <2>1
<1>6. Table(F)
  <2> HIDE DEF Table
  <2> QED BY <1>5
<1>8. TurnTable(F, "name", vals, txt, st, n)
  <2> HIDE DEF F, each
  <2>1. \A s \in SUBSET (1..n) :
            F[s] = IF s = {} THEN st ELSE FillName(vals, txt, F[s \ {Max(s)}], Max(s))
    BY <1>0, <1>2, <1>6
  <2> QED BY <2>1 DEF TurnTable, Turn
<1> HIDE DEF F
<1>9. PICK final : final = F[1..n]
  OBVIOUS
<1>10. \E run : TurnsLead(run, "name", vals, txt, st, n, final)
  BY <1>8, <1>9, TableLeads
<1>11. templateString(txt, vals) = final.out \o SubSeq(txt, final.end + 1, Len(txt))
  BY <1>9, <1>t
<1> QED BY <1>10, <1>11 DEF st

\* format goes from letter to letter but the last two.
LEMMA NextInTurn ==
    ASSUME NEW txt, NEW vals, NEW n \in Nat, DOMAIN [i \in 1..(Len(txt) - 2) |-> i] = 1..n, Len(txt) # 1
    PROVE  \E run, final :
              /\ TurnsLead(run, "next", vals, txt, [used |-> 0, end |-> 0, out |-> <<>>], n, final)
              /\ format(txt, vals) = final.out \o SubSeq(txt, final.end + 1, Len(txt))
<1> DEFINE st == [used |-> 0, end |-> 0, out |-> <<>>]
           each == [i \in 1..(Len(txt) - 2) |-> i]
           Fill(s, i) ==
               IF s.used < Len(vals) /\ SubSeq(txt, i, i + 2) = <<"{", "n", "}">>
               THEN [used |-> s.used + 1, end |-> i + 2,
                     out |-> s.out \o SubSeq(txt, s.end + 1, i - 1) \o vals[s.used + 1]]
               ELSE s
           Table(f) == f = [s \in SUBSET (1..n) |->
                               IF s = {} THEN st ELSE Fill(f[s \ {Max(s)}], each[Max(s)])]
           F == CHOOSE f : Table(f)
<1>1. PICK g : TurnTable(g, "next", vals, txt, st, n)
  BY TurnTableExists
<1>2. \A s \in SUBSET (1..n) : s # {} => s \ {Max(s)} \in SUBSET (1..n) /\ each[Max(s)] = Max(s)
  BY Greatest
<1>0. \A x, k : Fill(x, k) = FillNext(vals, txt, x, k)
  BY DEF FillNext
<1>t. format(txt, vals) = F[1..n].out \o SubSeq(txt, F[1..n].end + 1, Len(txt))
  BY DEF format, FoldLeft, MapThenFoldSet
<1> HIDE DEF Fill, st
<1>3. \A s \in SUBSET (1..n) :
          g[s] = IF s = {} THEN st ELSE Fill(g[s \ {Max(s)}], Max(s))
  <2>1. \A s \in SUBSET (1..n) :
            g[s] = IF s = {} THEN st ELSE FillNext(vals, txt, g[s \ {Max(s)}], Max(s))
    BY <1>1 DEF TurnTable, Turn
  <2> QED BY <1>0, <2>1
<1> DEFINE h == [s \in SUBSET (1..n) |-> g[s]]
<1>4. \A s \in SUBSET (1..n) :
          h[s] = IF s = {} THEN st ELSE Fill(h[s \ {Max(s)}], each[Max(s)])
  <2> HIDE DEF each
  <2> QED BY <1>2, <1>3
<1>5. Table(h)
  <2> HIDE DEF h, each
  <2>1. h = [s \in SUBSET (1..n) |-> h[s]]
    BY DEF h
  <2> QED BY <1>4, <2>1
<1>6. Table(F)
  <2> HIDE DEF Table
  <2> QED BY <1>5
<1>8. TurnTable(F, "next", vals, txt, st, n)
  <2> HIDE DEF F, each
  <2>1. \A s \in SUBSET (1..n) :
            F[s] = IF s = {} THEN st ELSE FillNext(vals, txt, F[s \ {Max(s)}], Max(s))
    BY <1>0, <1>2, <1>6
  <2> QED BY <2>1 DEF TurnTable, Turn
<1> HIDE DEF F
<1>9. PICK final : final = F[1..n]
  OBVIOUS
<1>10. \E run : TurnsLead(run, "next", vals, txt, st, n, final)
  BY <1>8, <1>9, TableLeads
<1>11. format(txt, vals) = final.out \o SubSeq(txt, final.end + 1, Len(txt))
  BY <1>9, <1>t
<1> QED BY <1>10, <1>11 DEF st

\* The pieces of a text with names.
NamedPieces ==
    [k \in DOMAIN text |->
        IF \E p \in NamedParts : p[1] = k
        THEN NamedValues[SubSeq(text, (CHOOSE p \in NamedParts : p[1] = k)[1] + 1,
                                      (CHOOSE p \in NamedParts : p[1] = k)[2] - 1)]
        ELSE IF \E p \in NamedParts : p[1] < k /\ k <= p[2] THEN <<>> ELSE <<text[k]>>]

\* All letters are gone through, from the first on.
LEMMA NamesToEnd ==
    ASSUME text \in Seq(Letters), NEW value, NEW pieces, AreFilled(pieces, NamedParts, value, Len(text)),
           NEW flat, IsFlat(flat, pieces, Len(text)), AreParts(NamedParts, Len(text)),
           \A p \in NamedParts : value[p] = NamedValues[SubSeq(text, p[1] + 1, p[2] - 1)],
           NEW run, NEW final,
           TurnsLead(run, "name", NamedValues, text, [start |-> 0, end |-> 0, out |-> <<>>], Len(text), final)
    PROVE  NamedSoFar(final, flat, Len(text))
<1> DEFINE Bad == {k \in 0..Len(text) : ~NamedSoFar(run[k], flat, k)}
<1>1. Len(text) \in Nat
  OBVIOUS
<1>2. /\ run[0] = [start |-> 0, end |-> 0, out |-> <<>>] /\ run[Len(text)] = final
      /\ \A k \in 1..Len(text) : run[k] = FillName(NamedValues, text, run[k - 1], k)
  BY DEF TurnsLead, Turn
<1>3. NamedSoFar(run[0], flat, 0)
  <2>1. flat[0] = <<>>
    BY DEF IsFlat
  <2>2. \A p \in NamedParts : ~(p[2] <= 0)
    <3> SUFFICES ASSUME NEW p \in NamedParts PROVE ~(p[2] <= 0)
      OBVIOUS
    <3>1. p[2] \in 1..Len(text)
      BY DEF AreParts
    <3> QED BY <3>1
  <2>3. run[0] = [start |-> 0, end |-> 0, out |-> flat[0]]
    BY <1>2, <2>1
  <2>4. 0 \in 0..0 /\ 1..0 = {}
    OBVIOUS
  <2> QED BY <2>2, <2>3, <2>4, NamedSoFarIs
<1> SUFFICES ASSUME Bad # {} PROVE FALSE
  <2>1. Len(text) \in 0..Len(text)
    BY <1>1
  <2>2. Bad = {} => NamedSoFar(run[Len(text)], flat, Len(text))
    BY <2>1
  <2> QED BY <1>2, <2>2
<1>4. PICK k \in Bad : \A j \in Bad : k <= j
  <2>1. Bad \in SUBSET Nat
    OBVIOUS
  <2> HIDE DEF Bad
  <2> QED BY <2>1, LeastNat
<1>5. k # 0
  BY <1>3
<1>6. k \in 1..Len(text) /\ k - 1 \in 0..Len(text) /\ ~(k <= k - 1)
  <2>1. k \in 0..Len(text)
    OBVIOUS
  <2> QED BY ONLY <1>1, <1>5, <2>1
<1>7. NamedSoFar(run[k - 1], flat, k - 1)
  BY <1>4, <1>6
<1>8. NamedSoFar(FillName(NamedValues, text, run[k - 1], k), flat, k)
  BY <1>6, <1>7, NameTurn
<1> QED BY <1>2, <1>4, <1>6, <1>8

\* Every name in braces that has a value is replaced, all else stays (templateString, lang.go:173).
LEMMA NamesFilled ==
    ASSUME text \in Seq(Letters)
    PROVE  templateString(text, NamedValues) = FlattenSeq(NamedPieces)
<1> DEFINE value == [p \in NamedParts |-> NamedValues[SubSeq(text, p[1] + 1, p[2] - 1)]]
           n == Len(text)
<1>1. n \in Nat /\ DOMAIN text = 1..n
  OBVIOUS
<1>2. AreParts(NamedParts, n)
  <2>1. \A p \in NamedParts : Braced(p)
    BY DEF NamedParts, Braced
  <2> QED BY <2>1, BracesApart
<1>3. \A p \in NamedParts : value[p] \in Seq(Letters)
  BY TextsAssumption DEF NamedParts
<1>4. PICK pieces : pieces = NamedPieces
  OBVIOUS
<1>5. DOMAIN pieces = DOMAIN text /\ pieces = [k \in DOMAIN text |-> pieces[k]]
  BY <1>4 DEF NamedPieces
<1>6. ASSUME NEW k \in 1..n, NEW p \in NamedParts, p[1] = k PROVE pieces[k] = value[p]
  <2>1. PICK ch : ch = CHOOSE q \in NamedParts : q[1] = k
    OBVIOUS
  <2>2. ch \in NamedParts /\ ch[1] = k
    BY <1>6, <2>1
  <2>3. ch = p
    <3>1. /\ p[1] \in 1..n /\ p[2] \in 1..n /\ ch[2] \in 1..n /\ p[1] < p[2] /\ ch[1] < ch[2]
          /\ (p = ch \/ p[2] < ch[1] \/ ch[2] < p[1])
      BY <1>2, <2>2 DEF AreParts
    <3>2. PICK b, c : b = p[2] /\ c = ch[2]
      OBVIOUS
    <3>3. ~(b < k) /\ ~(c < k)
      BY <1>1, <1>6, <2>2, <3>1, <3>2
    <3> QED BY <1>6, <2>2, <3>1, <3>2, <3>3
  <2>4. pieces[k] = NamedValues[SubSeq(text, ch[1] + 1, ch[2] - 1)]
    BY <1>1, <1>4, <1>6, <2>1 DEF NamedPieces
  <2> QED BY <2>3, <2>4
<1>7. ASSUME NEW k \in 1..n, ~\E p \in NamedParts : p[1] = k
      PROVE  pieces[k] = IF \E p \in NamedParts : p[1] < k /\ k <= p[2] THEN <<>> ELSE <<text[k]>>
  BY <1>1, <1>4, <1>7 DEF NamedPieces
<1> HIDE DEF value
<1>8. pieces \in Seq(Seq(Letters)) /\ Len(pieces) = n /\ AreFilled(pieces, NamedParts, value, n)
  BY <1>2, <1>3, <1>5, <1>6, <1>7, PiecesAreFilled
<1>9. PICK flat : IsFlat(flat, pieces, n) /\ flat[n] = FlattenSeq(pieces)
  BY <1>1, <1>8, FlatIs
<1>10. PICK run, final :
          /\ TurnsLead(run, "name", NamedValues, text, [start |-> 0, end |-> 0, out |-> <<>>], n, final)
          /\ templateString(text, NamedValues) = final.out \o SubSeq(text, final.end + 1, Len(text))
  BY <1>1, NamesInTurn
<1>11. NamedSoFar(final, flat, n)
  <2>1. \A p \in NamedParts : value[p] = NamedValues[SubSeq(text, p[1] + 1, p[2] - 1)]
    BY DEF value
  <2> QED BY <1>2, <1>8, <1>9, <1>10, <2>1, NamesToEnd
<1>12. PICK e : e = final.end
  OBVIOUS
<1>13. e \in 0..n /\ final.out = flat[e] /\ \A p \in NamedParts : p[2] <= e
  <2>1. ASSUME NEW p \in NamedParts PROVE p[2] <= n
    <3>1. p[2] \in 1..n
      BY <1>2 DEF AreParts
    <3> QED BY ONLY <1>1, <3>1
  <2> QED BY <1>11, <1>12, <2>1 DEF NamedSoFar
<1>14. flat[n] = flat[e] \o SubSeq(text, e + 1, n)
  BY <1>2, <1>8, <1>9, <1>13, RestIsPlain
<1> QED BY <1>4, <1>9, <1>10, <1>12, <1>13, <1>14

-----------------------------------------------------------------------------
(* Values one after the other.                                             *)

\* The {n} of a text, how many there are up to a letter, and those there are values for.
ListedParts ==
    {p \in (DOMAIN text) \X (DOMAIN text) :
        /\ p[1] < p[2] /\ text[p[1]] = "{" /\ text[p[2]] = "}"
        /\ \A k \in (p[1] + 1)..(p[2] - 1) : text[k] \notin {"{", "}"}
        /\ SubSeq(text, p[1] + 1, p[2] - 1) = <<"n">>}
UpTo(i) == {q \in ListedParts : q[1] <= i}
ValuedParts == {p \in ListedParts : Cardinality(UpTo(p[1])) <= Len(ListedValues)}

\* {n} begins at letter i.
IsNext(i) == text[i] = "{" /\ text[i + 1] = "n" /\ text[i + 2] = "}"

\* Part of a text, letter by letter.
LEMMA PartOfText ==
    ASSUME text \in Seq(Letters), NEW a \in Nat, NEW b \in Nat, 1 <= a, b <= Len(text), NEW slice,
           slice = SubSeq(text, a, b)
    PROVE  /\ slice \in Seq(Letters) /\ Len(slice) = (IF a <= b THEN b - a + 1 ELSE 0)
           /\ \A i \in 1..(b - a + 1) : slice[i] = text[a + i - 1]
<1>1. \A i \in a..b : text[i] \in Letters
  OBVIOUS
<1> QED BY <1>1, SubSeqProperties

\* Each is a {n}.
LEMMA ListedIs ==
    ASSUME text \in Seq(Letters), NEW p \in ListedParts
    PROVE  Braced(p) /\ p[1] \in 1..(Len(text) - 2) /\ p = <<p[1], p[1] + 2>> /\ IsNext(p[1])
<1>1. Braced(p) /\ SubSeq(text, p[1] + 1, p[2] - 1) = <<"n">>
  BY DEF ListedParts, Braced
<1>2. PICK b, c : b = p[1] /\ c = p[2]
  OBVIOUS
<1>3. p = <<b, c>> /\ b \in 1..Len(text) /\ c \in 1..Len(text) /\ b < c
  BY <1>1, <1>2, BracedIs
<1>4. Len(text) \in Nat /\ b \in Nat /\ c \in Nat /\ b + 1 \in Nat /\ c - 1 \in Nat /\ 1 <= b + 1
      /\ c - 1 <= Len(text)
  <2>1. Len(text) \in Nat
    OBVIOUS
  <2> QED BY ONLY <1>3, <2>1
<1>5. PICK slice : slice = SubSeq(text, b + 1, c - 1)
  OBVIOUS
<1>6. Len(slice) = (IF b + 1 <= c - 1 THEN c - 1 - (b + 1) + 1 ELSE 0)
      /\ \A i \in 1..(c - 1 - (b + 1) + 1) : slice[i] = text[b + 1 + i - 1]
  BY <1>4, <1>5, PartOfText
<1>7. Len(slice) = 1 /\ slice[1] = "n"
  <2>1. slice = <<"n">>
    BY <1>1, <1>2, <1>5
  <2> QED BY ONLY <2>1
<1>8. c = b + 2
  <2>1. (IF b + 1 <= c - 1 THEN c - 1 - (b + 1) + 1 ELSE 0) = 1
    BY <1>6, <1>7
  <2> QED BY ONLY <1>4, <2>1
<1>9. text[b + 1] = "n"
  <2>1. 1 \in 1..(c - 1 - (b + 1) + 1) /\ b + 1 + 1 - 1 = b + 1
    BY ONLY <1>4, <1>8
  <2> QED BY <1>6, <1>7, <2>1
<1>10. b \in 1..(Len(text) - 2)
  BY ONLY <1>3, <1>4, <1>8
<1> QED BY <1>1, <1>2, <1>3, <1>8, <1>9, <1>10 DEF IsNext, Braced

\* And there is one wherever {n} is read.
LEMMA NextIsListed ==
    ASSUME text \in Seq(Letters), NEW i \in 1..(Len(text) - 2)
    PROVE  /\ SubSeq(text, i, i + 2) = <<"{", "n", "}">> => <<i, i + 2>> \in ListedParts
           /\ <<i, i + 2>> \in ListedParts => SubSeq(text, i, i + 2) = <<"{", "n", "}">>
<1>1. PICK n : n = Len(text)
  OBVIOUS
<1>2. n \in Nat /\ DOMAIN text = 1..n
  BY <1>1
<1>3. i \in Nat /\ i + 2 \in Nat /\ 1 <= i /\ i + 2 <= n /\ i \in 1..n /\ i + 1 \in 1..n /\ i + 2 \in 1..n
      /\ i + 1 \in Nat /\ 1 <= i + 1 /\ i + 1 <= n
  BY ONLY <1>1, <1>2, i \in 1..(Len(text) - 2)
<1>4. PICK slice : slice = SubSeq(text, i, i + 2)
  OBVIOUS
<1>5. slice \in Seq(Letters) /\ Len(slice) = 3 /\ slice[1] = text[i] /\ slice[2] = text[i + 1]
      /\ slice[3] = text[i + 2]
  <2>1. /\ slice \in Seq(Letters) /\ Len(slice) = (IF i <= i + 2 THEN i + 2 - i + 1 ELSE 0)
        /\ \A k \in 1..(i + 2 - i + 1) : slice[k] = text[i + k - 1]
    BY <1>1, <1>3, <1>4, PartOfText
  <2>2. i + 2 - i + 1 = 3 /\ i <= i + 2 /\ i + 1 - 1 = i /\ i + 2 - 1 = i + 1 /\ i + 3 - 1 = i + 2
    BY ONLY <1>3
  <2>3. \A k \in 1..3 : slice[k] = text[i + k - 1]
    BY <2>1, <2>2
  <2>4. 1 \in 1..3 /\ 2 \in 1..3 /\ 3 \in 1..3
    OBVIOUS
  <2>5. slice[1] = text[i + 1 - 1] /\ slice[2] = text[i + 2 - 1] /\ slice[3] = text[i + 3 - 1]
    BY <2>3, <2>4
  <2> QED BY <2>1, <2>2, <2>5
<1>6. slice = <<slice[1], slice[2], slice[3]>>
  BY <1>5
<1>7. PICK p : p = <<i, i + 2>>
  OBVIOUS
<1>8. p \in (DOMAIN text) \X (DOMAIN text) /\ p[1] = i /\ p[2] = i + 2
  BY <1>2, <1>3, <1>7
<1>9. ASSUME slice = <<"{", "n", "}">> PROVE p \in ListedParts
  <2>1. text[i] = "{" /\ text[i + 1] = "n" /\ text[i + 2] = "}"
    BY <1>5, <1>9
  <2>2. \A k \in (i + 1)..(i + 2 - 1) : text[k] \notin {"{", "}"}
    <3> TAKE k \in (i + 1)..(i + 2 - 1)
    <3>1. k = i + 1
      BY ONLY <1>3, k \in (i + 1)..(i + 2 - 1)
    <3> QED BY <2>1, <3>1
  <2>3. SubSeq(text, i + 1, i + 2 - 1) = <<"n">>
    <3>1. PICK one : one = SubSeq(text, i + 1, i + 1)
      OBVIOUS
    <3>2. /\ one \in Seq(Letters) /\ Len(one) = (IF i + 1 <= i + 1 THEN i + 1 - (i + 1) + 1 ELSE 0)
          /\ \A k \in 1..(i + 1 - (i + 1) + 1) : one[k] = text[i + 1 + k - 1]
      BY <1>1, <1>3, <3>1, PartOfText
    <3>3. i + 1 - (i + 1) + 1 = 1 /\ i + 1 <= i + 1 /\ i + 1 + 1 - 1 = i + 1 /\ i + 2 - 1 = i + 1 /\ 1 \in 1..1
      BY ONLY <1>3
    <3>4. Len(one) = 1 /\ one[1] = text[i + 1 + 1 - 1]
      BY <3>2, <3>3
    <3>5. one = <<one[1]>>
      BY <3>2, <3>4
    <3> QED BY <2>1, <3>1, <3>3, <3>4, <3>5
  <2>4. i < i + 2
    BY ONLY <1>3
  <2>5. p[1] < p[2] /\ text[p[1]] = "{" /\ text[p[2]] = "}"
    BY <1>8, <2>1, <2>4
  <2>6. \A k \in (p[1] + 1)..(p[2] - 1) : text[k] \notin {"{", "}"}
    <3>1. p[1] + 1 = i + 1 /\ p[2] - 1 = i + 2 - 1
      BY <1>8
    <3>2. (p[1] + 1)..(p[2] - 1) = (i + 1)..(i + 2 - 1)
      BY ONLY <3>1
    <3> QED BY ONLY <2>2, <3>2
  <2>7. SubSeq(text, p[1] + 1, p[2] - 1) = <<"n">>
    BY <1>8, <2>3
  <2> QED BY <1>8, <2>5, <2>6, <2>7 DEF ListedParts
<1>10. ASSUME p \in ListedParts PROVE slice = <<"{", "n", "}">>
  <2>1. IsNext(i)
    BY <1>8, <1>10, ListedIs
  <2> QED BY <1>5, <1>6, <2>1 DEF IsNext
<1> QED BY <1>4, <1>7, <1>9, <1>10

\* What is known after i letters: how many values are used, and the text so far.
NextSoFar(st, flat, i) ==
    /\ st = [used |-> st.used, end |-> st.end, out |-> st.out]
    /\ st.used \in Nat /\ st.used <= Len(ListedValues)
    /\ Cardinality(UpTo(i)) <= Len(ListedValues) => st.used = Cardinality(UpTo(i))
    /\ Cardinality(UpTo(i)) > Len(ListedValues) => st.used = Len(ListedValues)
    /\ st.end \in 0..Len(text) /\ st.out = flat[st.end]
    /\ \A p \in ValuedParts : IF p[1] <= i THEN p[2] <= st.end ELSE st.end < p[1]

\* There are no more {n} than letters.
LEMMA UpToIs ==
    ASSUME text \in Seq(Letters), NEW i \in Nat
    PROVE  /\ IsFiniteSet(UpTo(i)) /\ Cardinality(UpTo(i)) \in Nat
           /\ i >= 1 => UpTo(i) = UpTo(i - 1) \cup (IF <<i, i + 2>> \in ListedParts THEN {<<i, i + 2>>} ELSE {})
           /\ <<i, i + 2>> \notin UpTo(i - 1)
<1>1. Len(text) \in Nat /\ DOMAIN text = 1..Len(text)
  OBVIOUS
<1>2. IsFiniteSet(UpTo(i)) /\ Cardinality(UpTo(i)) \in Nat
  <2>1. IsFiniteSet((1..Len(text)) \X (1..Len(text)))
    <3>1. IsFiniteSet(1..Len(text))
      BY <1>1, FS_Interval
    <3> QED BY <3>1, FS_Product
  <2>2. UpTo(i) \subseteq (1..Len(text)) \X (1..Len(text))
    BY <1>1 DEF UpTo, ListedParts
  <2>3. IsFiniteSet(UpTo(i))
    BY <2>1, <2>2, FS_Subset
  <2> QED BY <2>3, FS_CardinalityType
<1>3. \A q \in ListedParts : q[1] \in Nat /\ q = <<q[1], q[1] + 2>>
  <2> TAKE q \in ListedParts
  <2>1. q[1] \in 1..(Len(text) - 2) /\ q = <<q[1], q[1] + 2>>
    BY ListedIs
  <2>2. PICK b : b = q[1]
    OBVIOUS
  <2>3. b \in Nat
    BY ONLY <1>1, <2>1, <2>2
  <2> QED BY <2>1, <2>2, <2>3
<1>4. ASSUME i >= 1, NEW q \in ListedParts
      PROVE  q[1] <= i <=> (q[1] <= i - 1 \/ q = <<i, i + 2>>)
  <2>1. PICK b : b = q[1]
    OBVIOUS
  <2>2. b \in Nat /\ q = <<b, b + 2>>
    BY <1>3, <2>1
  <2>3. q = <<i, i + 2>> <=> b = i
    BY <2>2
  <2>4. b <= i <=> (b <= i - 1 \/ b = i)
    BY ONLY <2>2, i \in Nat
  <2> QED BY <2>1, <2>3, <2>4
<1>5. i >= 1 => UpTo(i) = UpTo(i - 1) \cup (IF <<i, i + 2>> \in ListedParts THEN {<<i, i + 2>>} ELSE {})
  BY <1>4 DEF UpTo
<1>6. <<i, i + 2>> \notin UpTo(i - 1)
  <2>1. <<i, i + 2>>[1] = i /\ ~(i <= i - 1)
    OBVIOUS
  <2> QED BY <2>1 DEF UpTo
<1> QED BY <1>2, <1>5, <1>6

\* What is to be known of a state.
LEMMA NextSoFarIs ==
    ASSUME NEW to, NEW flat, NEW i, NEW used \in Nat, NEW e \in 0..Len(text), NEW v, v = flat[e],
           to = [used |-> used, end |-> e, out |-> v], used <= Len(ListedValues),
           Cardinality(UpTo(i)) <= Len(ListedValues) => used = Cardinality(UpTo(i)),
           Cardinality(UpTo(i)) > Len(ListedValues) => used = Len(ListedValues),
           \A p \in ValuedParts : IF p[1] <= i THEN p[2] <= e ELSE e < p[1]
    PROVE  NextSoFar(to, flat, i)
<1>1. to.used = used /\ to.end = e /\ to.out = v
  OBVIOUS
<1>2. to = [used |-> to.used, end |-> to.end, out |-> to.out]
  BY <1>1
<1> QED BY <1>1, <1>2 DEF NextSoFar

\* Another letter of a text with values to come (format, lang.go:207).
LEMMA NextTurn ==
    ASSUME text \in Seq(Letters), NEW value, NEW pieces, AreFilled(pieces, ValuedParts, value, Len(text)),
           NEW flat, IsFlat(flat, pieces, Len(text)), AreParts(ValuedParts, Len(text)),
           \A p \in ValuedParts : value[p] = ListedValues[Cardinality(UpTo(p[1]))],
           NEW i \in 1..(Len(text) - 2), NEW st, NextSoFar(st, flat, i - 1)
    PROVE  NextSoFar(FillNext(ListedValues, text, st, i), flat, i)
<1>1. PICK u, e, has, had, all : /\ u = st.used /\ e = st.end /\ all = Len(ListedValues)
                                 /\ has = Cardinality(UpTo(i)) /\ had = Cardinality(UpTo(i - 1))
  OBVIOUS
<1>2. PICK n : n = Len(text)
  OBVIOUS
<1>3. n \in Nat /\ all \in Nat /\ i \in Nat /\ i >= 1 /\ i <= n - 2 /\ i - 1 \in Nat
  <2>1. n \in Nat /\ i \in 1..(n - 2)
    BY <1>2
  <2>2. all \in Nat
    BY <1>1, TextsAssumption
  <2> QED BY ONLY <2>1, <2>2
<1>4. u \in Nat /\ u <= all /\ (had <= all => u = had) /\ (had > all => u = all) /\ e \in 0..n
  BY <1>1, <1>2 DEF NextSoFar
<1>5. st = [used |-> u, end |-> e, out |-> flat[e]]
  BY <1>1 DEF NextSoFar
<1>6. \A p \in ValuedParts : IF p[1] <= i - 1 THEN p[2] <= e ELSE e < p[1]
  BY <1>1 DEF NextSoFar
<1>7. \A q \in ValuedParts : q \in ListedParts /\ q[1] \in Nat /\ q[2] \in Nat /\ q = <<q[1], q[1] + 2>>
  <2> TAKE q \in ValuedParts
  <2>1. q \in ListedParts
    BY DEF ValuedParts
  <2>2. q[1] \in 1..(n - 2) /\ q = <<q[1], q[1] + 2>>
    BY <1>2, <2>1, ListedIs
  <2>3. PICK b : b = q[1]
    OBVIOUS
  <2>4. b \in Nat /\ b + 2 \in Nat /\ q = <<b, b + 2>>
    BY ONLY <1>3, <2>2, <2>3
  <2>5. q[2] = b + 2
    BY <2>4
  <2> QED BY <2>1, <2>2, <2>3, <2>4, <2>5
<1>8. /\ IsFiniteSet(UpTo(i - 1)) /\ had \in Nat /\ has \in Nat /\ <<i, i + 2>> \notin UpTo(i - 1)
      /\ UpTo(i) = UpTo(i - 1) \cup (IF <<i, i + 2>> \in ListedParts THEN {<<i, i + 2>>} ELSE {})
  BY <1>1, <1>3, UpToIs
<1>9. PICK p : p = <<i, i + 2>>
  OBVIOUS
<1>10. p[1] = i /\ p[2] = i + 2
  BY <1>9
\* Where the part is not one that counts, nothing changes.
<1>11. ASSUME p \notin ValuedParts, has <= all => u = has, has > all => u = all
       PROVE  NextSoFar(st, flat, i)
  <2>1. ASSUME NEW q \in ValuedParts PROVE IF q[1] <= i THEN q[2] <= e ELSE e < q[1]
    <3>1. PICK b : b = q[1]
      OBVIOUS
    <3>2. b \in Nat /\ b # i /\ (IF b <= i - 1 THEN q[2] <= e ELSE e < b)
      BY <1>6, <1>7, <1>9, <1>11, <3>1
    <3>3. b <= i <=> b <= i - 1
      BY ONLY <1>3, <3>2
    <3> QED BY <3>1, <3>2, <3>3
  <2>2. e \in 0..Len(text)
    BY <1>2, <1>4
  <2> QED BY <1>1, <1>4, <1>5, <1>11, <2>1, <2>2, NextSoFarIs
<1>12. CASE p \notin ListedParts
  <2>1. FillNext(ListedValues, text, st, i) = st
    BY <1>9, <1>12, NextIsListed DEF FillNext
  <2>2. has = had
    BY <1>1, <1>8, <1>9, <1>12
  <2>3. p \notin ValuedParts
    BY <1>12 DEF ValuedParts
  <2> QED BY <1>4, <1>11, <2>1, <2>2, <2>3
<1>13. p \in ListedParts => has = had + 1
  <2> SUFFICES ASSUME p \in ListedParts PROVE has = had + 1
    OBVIOUS
  <2>1. UpTo(i) = UpTo(i - 1) \cup {p} /\ p \notin UpTo(i - 1)
    BY <1>8, <1>9
  <2> QED BY <1>1, <1>8, <2>1, FS_AddElement
<1>14. CASE p \in ListedParts /\ ~(u < all)
  <2>1. FillNext(ListedValues, text, st, i) = st
    BY <1>1, <1>14 DEF FillNext
  <2>2. has > all /\ u = all
    <3>1. has = had + 1
      BY <1>13, <1>14
    <3> QED BY ONLY <1>3, <1>4, <1>8, <1>14, <3>1
  <2>3. p \notin ValuedParts
    <3>1. ~(has <= all)
      BY ONLY <1>3, <1>8, <2>2
    <3> QED BY <1>1, <1>10, <3>1 DEF ValuedParts
  <2>4. ~(has <= all)
    BY ONLY <1>3, <1>8, <2>2
  <2> QED BY <1>11, <2>1, <2>2, <2>3, <2>4
<1>15. CASE p \in ListedParts /\ u < all
  <2>1. PICK to : to = FillNext(ListedValues, text, st, i)
    OBVIOUS
  <2>2. to = [used |-> u + 1, end |-> i + 2,
              out |-> st.out \o SubSeq(text, st.end + 1, i - 1) \o ListedValues[st.used + 1]]
    <3>1. SubSeq(text, i, i + 2) = <<"{", "n", "}">>
      BY <1>9, <1>15, NextIsListed
    <3> QED BY <1>1, <1>15, <2>1, <3>1 DEF FillNext
  <2>3. has = u + 1 /\ has <= all
    <3>1. has = had + 1
      BY <1>13, <1>15
    <3> QED BY ONLY <1>3, <1>4, <1>8, <1>15, <3>1
  <2>4. p \in ValuedParts
    BY <1>1, <1>10, <1>15, <2>3 DEF ValuedParts
  <2>5. e \in 0..(i - 1)
    <3>1. ~(i <= i - 1)
      BY ONLY <1>3
    <3>2. e < i
      BY <1>6, <1>10, <2>4, <3>1
    <3> QED BY ONLY <1>3, <1>4, <3>2
  <2>6. ASSUME NEW q \in ValuedParts PROVE q[2] <= e \/ i <= q[1]
    <3>1. PICK b : b = q[1]
      OBVIOUS
    <3>2. b \in Nat /\ (IF b <= i - 1 THEN q[2] <= e ELSE e < b)
      BY <1>6, <1>7, <3>1
    <3>3. b <= i - 1 \/ i <= b
      BY ONLY <1>3, <3>2
    <3> QED BY <3>1, <3>2, <3>3
  <2>7. PICK final : final = i + 2
    OBVIOUS
  <2>8. ComesNext(ValuedParts, value, pieces, flat, p, i, final, e)
    BY <1>10, <2>4, <2>5, <2>6, <2>7 DEF ComesNext
  <2>9. GoesOn(flat, e, i, final, value[p])
    BY <2>8, FilledIn
  <2>10. value[p] = ListedValues[u + 1]
    BY <1>1, <1>10, <2>3, <2>4
  <2>11. flat[final] = st.out \o SubSeq(text, st.end + 1, i - 1) \o ListedValues[st.used + 1]
    <3>1. st.out = flat[e] /\ st.end = e /\ st.used = u
      BY <1>5
    <3> QED BY <2>9, <2>10, <3>1 DEF GoesOn
  <2>12. PICK v : v = flat[final]
    OBVIOUS
  <2>13. to = [used |-> u + 1, end |-> final, out |-> v]
    BY <2>2, <2>7, <2>11, <2>12
  <2>14. ASSUME NEW q \in ValuedParts PROVE IF q[1] <= i THEN q[2] <= final ELSE final < q[1]
    <3>1. p = q \/ p[2] < q[1] \/ q[2] < p[1]
      BY <2>4 DEF AreParts
    <3>2. PICK b, c : b = q[1] /\ c = q[2]
      OBVIOUS
    <3>3. b \in Nat /\ c \in Nat /\ b < c /\ ((b = i /\ c = final) \/ final < b \/ c < i)
      <4>1. b \in Nat /\ c \in Nat
        BY <1>7, <3>2
      <4>2. b < c
        BY <3>2 DEF AreParts
      <4>3. (b = i /\ c = final) \/ final < b \/ c < i
        BY <1>10, <2>7, <3>1, <3>2
      <4> QED BY ONLY <4>1, <4>2, <4>3
    <3>4. IF b <= i THEN c <= final ELSE final < b
      BY ONLY <1>3, <2>7, <3>3
    <3> QED BY <3>2, <3>4
  <2>15. u + 1 \in Nat /\ final \in 0..Len(text) /\ u + 1 <= all /\ ~(has > all)
    BY ONLY <1>2, <1>3, <1>4, <1>8, <2>3, <2>7
  <2>16. NextSoFar(to, flat, i)
    BY <1>1, <2>3, <2>12, <2>13, <2>14, <2>15, NextSoFarIs
  <2> QED BY <2>1, <2>16
<1> QED BY <1>12, <1>14, <1>15

\* The pieces of a text with values to come.
NextPieces ==
    [k \in DOMAIN text |->
        IF \E p \in ValuedParts : p[1] = k
        THEN ListedValues[Cardinality({q \in ListedParts : q[1] <= (CHOOSE p \in ValuedParts : p[1] = k)[1]})]
        ELSE IF \E p \in ValuedParts : p[1] < k /\ k <= p[2] THEN <<>> ELSE <<text[k]>>]

\* All letters but the last two are gone through, from the first on.
LEMMA NextToEnd ==
    ASSUME text \in Seq(Letters), NEW value, NEW pieces, AreFilled(pieces, ValuedParts, value, Len(text)),
           NEW flat, IsFlat(flat, pieces, Len(text)), AreParts(ValuedParts, Len(text)),
           \A p \in ValuedParts : value[p] = ListedValues[Cardinality(UpTo(p[1]))],
           NEW n \in Nat, n = 0 \/ n = Len(text) - 2, NEW run, NEW final,
           TurnsLead(run, "next", ListedValues, text, [used |-> 0, end |-> 0, out |-> <<>>], n, final)
    PROVE  NextSoFar(final, flat, n)
<1> DEFINE Bad == {k \in 0..n : ~NextSoFar(run[k], flat, k)}
<1>1. Len(text) \in Nat
  OBVIOUS
<1>2. /\ run[0] = [used |-> 0, end |-> 0, out |-> <<>>] /\ run[n] = final
      /\ \A k \in 1..n : run[k] = FillNext(ListedValues, text, run[k - 1], k)
  BY DEF TurnsLead, Turn
<1>3. NextSoFar(run[0], flat, 0)
  <2>1. flat[0] = <<>>
    BY DEF IsFlat
  <2>2. \A p \in ValuedParts : p[1] \in Nat /\ ~(p[1] <= 0) /\ 0 < p[1]
    <3> TAKE p \in ValuedParts
    <3>1. PICK b : b = p[1]
      OBVIOUS
    <3>2. b \in 1..Len(text)
      BY <3>1 DEF AreParts
    <3>3. b \in Nat /\ ~(b <= 0) /\ 0 < b
      BY ONLY <1>1, <3>2
    <3> QED BY <3>1, <3>3
  <2>3. run[0] = [used |-> 0, end |-> 0, out |-> flat[0]]
    BY <1>2, <2>1
  <2>4. UpTo(0) = {}
    <3> SUFFICES ASSUME NEW q \in ListedParts PROVE ~(q[1] <= 0)
      BY DEF UpTo
    <3>1. PICK b : b = q[1]
      OBVIOUS
    <3>2. b \in 1..(Len(text) - 2)
      BY <3>1, ListedIs
    <3>3. ~(b <= 0)
      BY ONLY <1>1, <3>2
    <3> QED BY <3>1, <3>3
  <2>5. Cardinality(UpTo(0)) = 0 /\ Len(ListedValues) \in Nat /\ ~(0 > Len(ListedValues)) /\ 0 <= Len(ListedValues)
    <3>1. Len(ListedValues) \in Nat
      BY TextsAssumption
    <3>2. Cardinality(UpTo(0)) = 0
      BY <2>4, FS_EmptySet
    <3>3. ~(0 > Len(ListedValues)) /\ 0 <= Len(ListedValues)
      BY ONLY <3>1
    <3> QED BY <3>1, <3>2, <3>3
  <2>6. 0 \in 0..Len(text) /\ 0 \in Nat
    BY <1>1
  <2>7. PICK v : v = flat[0]
    OBVIOUS
  <2>8. \A p \in ValuedParts : IF p[1] <= 0 THEN p[2] <= 0 ELSE 0 < p[1]
    BY <2>2
  <2>9. run[0] = [used |-> 0, end |-> 0, out |-> v]
    BY <2>3, <2>7
  <2> QED BY <2>5, <2>6, <2>7, <2>8, <2>9, NextSoFarIs
<1> SUFFICES ASSUME Bad # {} PROVE FALSE
  <2>1. n \in 0..n
    OBVIOUS
  <2>2. Bad = {} => NextSoFar(run[n], flat, n)
    BY <2>1
  <2> QED BY <1>2, <2>2
<1>4. PICK k \in Bad : \A j \in Bad : k <= j
  <2>1. Bad \in SUBSET Nat
    OBVIOUS
  <2> HIDE DEF Bad
  <2> QED BY <2>1, LeastNat
<1>5. k # 0
  BY <1>3
<1>6. k \in 1..n /\ k - 1 \in 0..n /\ ~(k <= k - 1) /\ n = Len(text) - 2
  <2>1. k \in 0..n
    OBVIOUS
  <2>2. k \in 1..n /\ k - 1 \in 0..n /\ ~(k <= k - 1) /\ n # 0
    BY ONLY <1>5, <2>1, n \in Nat
  <2> QED BY <2>2
<1>7. NextSoFar(run[k - 1], flat, k - 1)
  BY <1>4, <1>6
<1>8. k \in 1..(Len(text) - 2)
  BY <1>6
<1>9. NextSoFar(FillNext(ListedValues, text, run[k - 1], k), flat, k)
  BY <1>7, <1>8, NextTurn
<1> QED BY <1>2, <1>4, <1>6, <1>9

\* As many {n} are replaced as there are values, all else stays (format, lang.go:207).
LEMMA NextFilled ==
    ASSUME text \in Seq(Letters), Len(text) # 1
    PROVE  format(text, ListedValues) = FlattenSeq(NextPieces)
<1> DEFINE value == [p \in ValuedParts |-> ListedValues[Cardinality(UpTo(p[1]))]]
<1>1. PICK n : n = Len(text)
  OBVIOUS
<1>2. n \in Nat /\ DOMAIN text = 1..n
  BY <1>1
<1>3. \A p \in ValuedParts : p \in ListedParts /\ Braced(p) /\ p = <<p[1], p[1] + 2>> /\ p[1] \in 1..(n - 2)
  <2> TAKE p \in ValuedParts
  <2>1. p \in ListedParts
    BY DEF ValuedParts
  <2> QED BY <1>1, <2>1, ListedIs
<1>4. AreParts(ValuedParts, n)
  BY <1>1, <1>3, BracesApart
<1>5. \A p \in ValuedParts : value[p] \in Seq(Letters)
  <2> TAKE p \in ValuedParts
  <2>1. PICK b, has : b = p[1] /\ has = Cardinality(UpTo(b))
    OBVIOUS
  <2>2. b \in Nat
    <3>1. b \in 1..(n - 2)
      BY <1>3, <2>1
    <3> QED BY ONLY <1>2, <3>1
  <2>3. p \in UpTo(b)
    BY <1>3, <2>1, <2>2 DEF UpTo
  <2>4. IsFiniteSet(UpTo(b)) /\ has \in Nat
    BY <2>1, <2>2, UpToIs
  <2>5. has # 0
    BY <2>1, <2>3, <2>4, FS_EmptySet
  <2>6. has <= Len(ListedValues)
    BY <2>1 DEF ValuedParts
  <2>7. has \in 1..Len(ListedValues)
    <3>1. Len(ListedValues) \in Nat
      BY TextsAssumption
    <3> QED BY ONLY <2>4, <2>5, <2>6, <3>1
  <2>8. ListedValues[has] \in Seq(Letters)
    BY <2>7, TextsAssumption
  <2> QED BY <2>1, <2>8
<1>6. PICK pieces : pieces = NextPieces
  OBVIOUS
<1>7. DOMAIN pieces = DOMAIN text /\ pieces = [k \in DOMAIN text |-> pieces[k]]
  BY <1>6 DEF NextPieces
<1>8. ASSUME NEW k \in 1..n, NEW p \in ValuedParts, p[1] = k PROVE pieces[k] = value[p]
  <2>1. PICK ch : ch = CHOOSE q \in ValuedParts : q[1] = k
    OBVIOUS
  <2>2. ch \in ValuedParts /\ ch[1] = k
    BY <1>8, <2>1
  <2>3. pieces[k] = ListedValues[Cardinality(UpTo(ch[1]))]
    BY <1>2, <1>6, <1>8, <2>1 DEF NextPieces, UpTo
  <2> QED BY <1>8, <2>2, <2>3
<1>9. ASSUME NEW k \in 1..n, ~\E p \in ValuedParts : p[1] = k
      PROVE  pieces[k] = IF \E p \in ValuedParts : p[1] < k /\ k <= p[2] THEN <<>> ELSE <<text[k]>>
  BY <1>2, <1>6, <1>9 DEF NextPieces
<1>v. \A p \in ValuedParts : value[p] = ListedValues[Cardinality(UpTo(p[1]))]
  OBVIOUS
<1> HIDE DEF value
<1>10. pieces \in Seq(Seq(Letters)) /\ Len(pieces) = n /\ AreFilled(pieces, ValuedParts, value, n)
  <2>1. AreParts(ValuedParts, Len(text))
    BY <1>1, <1>4
  <2>2. ASSUME NEW k \in 1..Len(text)
        PROVE  /\ \A p \in ValuedParts : p[1] = k => pieces[k] = value[p]
               /\ (~\E p \in ValuedParts : p[1] = k) =>
                      pieces[k] = IF \E p \in ValuedParts : p[1] < k /\ k <= p[2] THEN <<>> ELSE <<text[k]>>
    BY <1>1, <1>8, <1>9
  <2>3. /\ pieces \in Seq(Seq(Letters)) /\ Len(pieces) = Len(text)
        /\ AreFilled(pieces, ValuedParts, value, Len(text))
    BY <1>5, <1>7, <2>1, <2>2, PiecesAreFilled
  <2> QED BY <1>1, <2>3
<1>11. PICK flat : IsFlat(flat, pieces, n) /\ flat[n] = FlattenSeq(pieces)
  BY <1>2, <1>10, FlatIs
<1>12. PICK m : m = (IF n < 2 THEN 0 ELSE n - 2)
  OBVIOUS
<1>13. m \in Nat /\ (m = 0 \/ m = n - 2) /\ 1..(n - 2) = 1..m
  <2>1. m \in Nat /\ (m = 0 \/ m = n - 2)
    BY ONLY <1>2, <1>12
  <2>2. \A k : k \in 1..(n - 2) <=> k \in 1..m
    BY ONLY <1>2, <1>12
  <2> QED BY <2>1, <2>2
<1>14. DOMAIN [i \in 1..(Len(text) - 2) |-> i] = 1..m
  BY <1>1, <1>13
<1>15. PICK run, final :
          /\ TurnsLead(run, "next", ListedValues, text, [used |-> 0, end |-> 0, out |-> <<>>], m, final)
          /\ format(text, ListedValues) = final.out \o SubSeq(text, final.end + 1, Len(text))
  BY <1>13, <1>14, NextInTurn
<1>16. NextSoFar(final, flat, m)
  BY <1>1, <1>4, <1>10, <1>11, <1>13, <1>15, <1>v, NextToEnd
<1>17. PICK e : e = final.end
  OBVIOUS
<1>18. e \in 0..n /\ final.out = flat[e] /\ \A p \in ValuedParts : p[2] <= e
  <2>1. ASSUME NEW p \in ValuedParts PROVE p[1] <= m
    <3>1. PICK b : b = p[1]
      OBVIOUS
    <3>2. b \in 1..m
      BY <1>3, <1>13, <3>1
    <3>3. b <= m
      BY ONLY <1>13, <3>2
    <3> QED BY <3>1, <3>3
  <2> QED BY <1>1, <1>16, <1>17, <2>1 DEF NextSoFar
<1>19. flat[n] = flat[e] \o SubSeq(text, e + 1, n)
  BY <1>1, <1>4, <1>10, <1>11, <1>18, RestIsPlain
<1> QED BY <1>1, <1>6, <1>11, <1>15, <1>17, <1>18, <1>19

\* Texts are filled in as they should be, whatever they are (lang.go:173).
LEMMA TextsAreFilled == text \in Seq(Letters) => TextsFilled
<1> SUFFICES ASSUME text \in Seq(Letters) PROVE TextsFilled
  OBVIOUS
<1>1. templateString(text, NamedValues) = FlattenSeq(NamedPieces)
  BY NamesFilled
<1>2. Len(text) # 1 => format(text, ListedValues) = FlattenSeq(NextPieces)
  BY NextFilled
<1> QED BY <1>1, <1>2
           DEF TextsFilled, Parts, Replaced, NamedPieces, NextPieces, NamedParts, ListedParts, ValuedParts, UpTo

\* A text stays one of letters as it is written.
LEMMA TextStep == text \in Seq(Letters) /\ [TextNext]_text => text' \in Seq(Letters)
<1>1. ASSUME text \in Seq(Letters), TextNext PROVE text' \in Seq(Letters)
  BY <1>1 DEF TextNext, WriteLetter
<1> QED BY <1>1

=============================================================================
