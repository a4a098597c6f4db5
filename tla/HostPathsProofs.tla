---------------------------- MODULE HostPathsProofs -----------------------------
(***************************************************************************)
(* What the proofs about paths and their walks have in common: numbers,    *)
(* recursive functions, paths one under another, and the kernel's walk.    *)
(***************************************************************************)
EXTENDS HostPaths, SequenceTheorems, WellFoundedInduction, TLAPS

-----------------------------------------------------------------------------
(* Numbers.                                                                *)

(* Every set of naturals has a least element, ...                          *)
LEMMA LeastExists ==
  ASSUME NEW S \in SUBSET Nat, S # {}
  PROVE  \E n \in S : \A m \in S : n <= m
<1> DEFINE less == OpToRel(<, Nat)
<1>1. IsWellFoundedOn(less, Nat)
  BY NatLessThanWellFounded, Zenon
<1>2. less = {pair \in Nat \X Nat : pair[1] < pair[2]}
  BY Zenon DEF OpToRel
<1> HIDE DEF less
<1>3. PICK n \in S : \A m \in S : <<m, n>> \notin less
  BY <1>1, WFMin, Zenon
<1>4. \A m \in S : ~(m < n)
  BY <1>2, <1>3
<1> QED BY <1>4

LEMMA LeastOfIsLeast ==
  ASSUME NEW S \in SUBSET Nat, S # {}
  PROVE  LeastOf(S) \in S /\ \A m \in S : LeastOf(S) <= m
BY LeastExists DEF LeastOf

LEMMA LeastOfUnique ==
  ASSUME NEW S \in SUBSET Nat, NEW n \in S, \A m \in S : n <= m
  PROVE  LeastOf(S) = n
<1>1. LeastOf(S) \in S /\ LeastOf(S) <= n
  BY LeastOfIsLeast
<1>2. n <= LeastOf(S) /\ LeastOf(S) \in Nat
  BY <1>1
<1> QED BY <1>1, <1>2

(* ... so a set that holds 0 and with each number the next has them all.   *)
LEMMA CountUp ==
  ASSUME NEW N \in Nat, NEW S, 0 \in S,
         \A n \in 0..N : n \in S /\ n < N => n + 1 \in S
  PROVE  \A n \in 0..N : n \in S
<1> DEFINE Missing == {n \in 0..N : n \notin S}
<1>1. SUFFICES ASSUME Missing # {} PROVE FALSE
  OBVIOUS
<1>2. PICK n \in Missing : \A m \in Missing : n <= m
  <2>1. Missing \in SUBSET Nat
    OBVIOUS
  <2> HIDE DEF Missing
  <2> QED BY <1>1, <2>1, LeastExists
<1>3. n \in 1..N /\ n - 1 \in 0..N /\ n - 1 < N /\ n = (n - 1) + 1
  BY <1>2
<1>4. n - 1 \in S
  BY <1>2, <1>3
<1> QED BY <1>2, <1>3, <1>4

(* ... and a set of numbers up to N a greatest element.                    *)
LEMMA GreatestExists ==
  ASSUME NEW N \in Nat, NEW S \in SUBSET (1..N), S # {}
  PROVE  \E n \in S : \A m \in S : n >= m
<1> DEFINE from == {N - n : n \in S}
<1>0. \A n \in S : n \in Nat /\ N - n \in Nat
  <2>1. \A n \in S : n \in 1..N
    OBVIOUS
  <2>2. \A n \in 1..N : n \in Nat /\ N - n \in Nat
    OBVIOUS
  <2> QED BY <2>1, <2>2
<1>1. from \in SUBSET Nat /\ from # {}
  BY <1>0
<1>2. PICK k \in from : \A j \in from : k <= j
  <2> HIDE DEF from
  <2> QED BY <1>1, LeastExists
<1>3. PICK n \in S : k = N - n
  BY <1>2
<1>4. ASSUME NEW m \in S PROVE n >= m
  <2>1. N - m \in from
    OBVIOUS
  <2>2. N - n <= N - m
    BY <1>2, <1>3, <2>1
  <2> QED BY <1>0, <2>2
<1> QED BY <1>4

-----------------------------------------------------------------------------
(* Recursive functions.                                                    *)

(* A selection is made name by name.                                       *)
Selects(upTo, s, places) ==
  /\ upTo[0] = <<>>
  /\ \A n \in 1..Len(s) :
       upTo[n] = IF n \in places THEN Append(upTo[n - 1], s[n]) ELSE upTo[n - 1]

LEMMA SelectedRecursion ==
  ASSUME NEW S, NEW s \in Seq(S), NEW places
  PROVE  \E upTo : Selects(upTo, s, places) /\ Selected(s, places) = upTo[Len(s)]
<1>0. PICK L \in Nat : L = Len(s)
  OBVIOUS
<1> DEFINE Add(t, n) == IF n \in places THEN Append(t, s[n]) ELSE t
           Upto(f, N) == f = [n \in 0..N |-> IF n = 0 THEN <<>> ELSE Add(f[n - 1], n)]
           Defined == {N \in 0..L : \E f : Upto(f, N)}
<1>1. 0 \in Defined
  <2> DEFINE f == [n \in 0..0 |-> <<>>]
  <2>1. Upto(f, 0)
    <3> HIDE DEF Add
    <3> QED OBVIOUS
  <2> HIDE DEF Upto, f
  <2> QED BY <2>1
<1>2. ASSUME NEW N \in 0..L, N \in Defined, N < L
      PROVE  N + 1 \in Defined
  <2> HIDE DEF Add
  <2>1. PICK f : Upto(f, N)
    BY <1>2
  <2> DEFINE g == [n \in 0..(N + 1) |-> IF n = N + 1 THEN Add(f[N], N + 1) ELSE f[n]]
  <2>2. \A n \in 0..N : g[n] = f[n]
    OBVIOUS
  <2>3. ASSUME NEW n \in 0..(N + 1)
        PROVE  g[n] = IF n = 0 THEN <<>> ELSE Add(g[n - 1], n)
    <3>1. CASE n = N + 1
      BY <2>2, <3>1
    <3>2. CASE n # N + 1
      <4>1. n \in 0..N /\ (n # 0 => n - 1 \in 0..N)
        BY <3>2
      <4>2. f[n] = IF n = 0 THEN <<>> ELSE Add(f[n - 1], n)
        BY <2>1, <4>1
      <4> QED BY <2>2, <4>1, <4>2
    <3> QED BY <3>1, <3>2
  <2>4. Upto(g, N + 1)
    BY <2>3
  <2>5. N + 1 \in 0..L
    BY <1>2
  <2> HIDE DEF Upto, g
  <2> QED BY <2>4, <2>5
<1>3. L \in Defined
  <2> HIDE DEF Defined
  <2>1. \A n \in 0..L : n \in Defined /\ n < L => n + 1 \in Defined
    BY <1>2
  <2>2. \A n \in 0..L : n \in Defined
    BY <1>1, <2>1, CountUp
  <2> QED BY <2>2
<1> DEFINE upTo == CHOOSE f : Upto(f, L)
<1>4. Upto(upTo, L) /\ Selected(s, places) = upTo[L]
  <2>1. Selected(s, places) = upTo[L]
    BY <1>0 DEF Selected
  <2> HIDE DEF Upto
  <2> QED BY <1>3, <2>1
<1> HIDE DEF upTo
<1>5. /\ upTo[0] = <<>>
      /\ \A n \in 1..L : upTo[n] = Add(upTo[n - 1], n)
  <2> HIDE DEF Add
  <2> QED BY <1>4
<1>6. Selected(s, places) = upTo[L]
  BY <1>4
<1> HIDE DEF Upto
<1>7. Selects(upTo, s, places)
  BY <1>0, <1>5 DEF Selects
<1> QED BY <1>0, <1>6, <1>7

LEMMA SelectedFrom ==
  ASSUME NEW S, NEW s \in Seq(S), NEW places
  PROVE  /\ Selected(s, places) \in Seq(S)
         /\ \E at \in [1..Len(Selected(s, places)) -> 1..Len(s)] :
              /\ \A i, j \in 1..Len(Selected(s, places)) : i < j => at[i] < at[j]
              /\ \A i \in 1..Len(Selected(s, places)) :
                   at[i] \in places /\ Selected(s, places)[i] = s[at[i]]
<1>0. PICK L \in Nat : L = Len(s)
  OBVIOUS
<1> DEFINE Add(t, n) == IF n \in places THEN Append(t, s[n]) ELSE t
<1>4. PICK upTo : Selects(upTo, s, places) /\ Selected(s, places) = upTo[Len(s)]
  BY SelectedRecursion
<1>5. /\ upTo[0] = <<>>
      /\ \A n \in 1..L : upTo[n] = Add(upTo[n - 1], n)
  BY <1>0, <1>4 DEF Selects
<1> DEFINE From(t, n, at) ==
             /\ t \in Seq(S) /\ at \in [1..Len(t) -> 1..n]
             /\ \A i, j \in 1..Len(t) : i < j => at[i] < at[j]
             /\ \A i \in 1..Len(t) : at[i] \in places /\ t[i] = s[at[i]]
           Good == {n \in 0..L : \E at : From(upTo[n], n, at)}
<1>6. 0 \in Good
  <2>1. From(<<>>, 0, <<>>)
    OBVIOUS
  <2> HIDE DEF From
  <2> QED BY <1>5, <2>1
<1>7. ASSUME NEW n \in 0..L, n \in Good, n < L
      PROVE  n + 1 \in Good
  <2>1. PICK at : From(upTo[n], n, at)
    BY <1>7
  <2> DEFINE t == upTo[n]
  <2>2. PICK k \in Nat : k = Len(t)
    BY <2>1
  <2>3. n + 1 \in 1..L /\ (n + 1) - 1 = n /\ upTo[n + 1] = Add(t, n + 1)
    BY <1>5, <1>7
  <2>4. s[n + 1] \in S
    BY <1>0, <2>3
  <2>5. CASE n + 1 \notin places
    <3>1. From(t, n + 1, at)
      <4>1. at \in [1..k -> 1..(n + 1)]
        BY <2>1, <2>2
      <4> QED BY <2>1, <2>2, <4>1
    <3>2. upTo[n + 1] = t
      BY <2>3, <2>5
    <3> HIDE DEF From
    <3> QED BY <2>3, <3>1, <3>2
  <2>6. CASE n + 1 \in places
    <3> DEFINE u == Append(t, s[n + 1])
               more == [i \in 1..(k + 1) |-> IF i = k + 1 THEN n + 1 ELSE at[i]]
    <3>1. /\ u \in Seq(S) /\ Len(u) = k + 1 /\ u[k + 1] = s[n + 1]
          /\ \A i \in 1..k : u[i] = t[i]
      BY <2>1, <2>2, <2>4, AppendProperties
    <3>2. \A i \in 1..k : at[i] \in 1..n
      BY <2>1, <2>2
    <3>3. more \in [1..(k + 1) -> 1..(n + 1)]
      BY <3>2
    <3>4. \A i, j \in 1..(k + 1) : i < j => more[i] < more[j]
      <4> TAKE i, j \in 1..(k + 1)
      <4> HAVE i < j
      <4>1. i \in 1..k /\ more[i] = at[i]
        OBVIOUS
      <4>2. CASE j = k + 1
        BY <3>2, <4>1, <4>2
      <4>3. CASE j # k + 1
        <5>1. j \in 1..k /\ more[j] = at[j]
          BY <4>3
        <5>2. at[i] < at[j]
          BY <2>1, <2>2, <4>1, <5>1
        <5> QED BY <4>1, <5>1, <5>2
      <4> QED BY <4>2, <4>3
    <3>5. \A i \in 1..(k + 1) : more[i] \in places /\ u[i] = s[more[i]]
      <4> TAKE i \in 1..(k + 1)
      <4>1. CASE i = k + 1
        BY <2>6, <3>1, <4>1
      <4>2. CASE i # k + 1
        <5>1. i \in 1..k /\ more[i] = at[i]
          BY <4>2
        <5>2. at[i] \in places /\ t[i] = s[at[i]]
          BY <2>1, <2>2, <5>1
        <5> QED BY <3>1, <5>1, <5>2
      <4> QED BY <4>1, <4>2
    <3>6. upTo[n + 1] = u
      BY <2>3, <2>6
    <3> HIDE DEF u, more
    <3>7. From(u, n + 1, more)
      BY <3>1, <3>3, <3>4, <3>5
    <3> HIDE DEF From
    <3> QED BY <2>3, <3>6, <3>7
  <2> QED BY <2>5, <2>6
<1>8. L \in Good
  <2> HIDE DEF Good
  <2>1. \A n \in 0..L : n \in Good /\ n < L => n + 1 \in Good
    BY <1>7
  <2>2. \A n \in 0..L : n \in Good
    BY <1>6, <2>1, CountUp
  <2> QED BY <2>2
<1>9. PICK at : From(upTo[L], L, at)
  BY <1>8
<1> HIDE DEF Add
<1> QED BY <1>0, <1>4, <1>9

(* What is at one of the places is among what is selected.                 *)
LEMMA SelectedHas ==
  ASSUME NEW S, NEW s \in Seq(S), NEW places, NEW i \in 1..Len(s), i \in places
  PROVE  \E j \in 1..Len(Selected(s, places)) : Selected(s, places)[j] = s[i]
<1>0. PICK L \in Nat : L = Len(s)
  OBVIOUS
<1>1. PICK upTo : Selects(upTo, s, places) /\ Selected(s, places) = upTo[Len(s)]
  BY SelectedRecursion
<1> DEFINE Has(t) == \E j \in 1..Len(t) : t[j] = s[i]
           Good == {n \in 0..L : upTo[n] \in Seq(S) /\ (n >= i => Has(upTo[n]))}
<1>2. 0 \in Good
  <2>1. upTo[0] = <<>> /\ ~(0 >= i) /\ 0 \in 0..L
    BY <1>0, <1>1 DEF Selects
  <2>2. upTo[0] \in Seq(S)
    BY <2>1
  <2> HIDE DEF Has
  <2> QED BY <2>1, <2>2
<1>3. ASSUME NEW n \in 0..L, n \in Good, n < L
      PROVE  n + 1 \in Good
  <2>1. n + 1 \in 1..L /\ (n + 1) - 1 = n /\ s[n + 1] \in S
    BY <1>0, <1>3
  <2>2. PICK t \in Seq(S) : t = upTo[n]
    BY <1>3
  <2>3. PICK a \in Nat : a = Len(t)
    OBVIOUS
  <2>4. upTo[n + 1] = IF n + 1 \in places THEN Append(t, s[n + 1]) ELSE t
    BY <1>0, <1>1, <2>1, <2>2 DEF Selects
  <2>5. CASE n + 1 \notin places
    <3>1. n + 1 >= i => n >= i
      BY <2>5, <1>0
    <3> HIDE DEF Has
    <3> QED BY <1>3, <2>1, <2>2, <2>4, <2>5, <3>1
  <2>6. CASE n + 1 \in places
    <3>1. PICK u : u = Append(t, s[n + 1])
      OBVIOUS
    <3>2. /\ u \in Seq(S) /\ Len(u) = a + 1 /\ u[a + 1] = s[n + 1]
          /\ \A x \in 1..a : u[x] = t[x]
      BY <2>1, <2>3, <3>1, AppendProperties
    <3>3. ASSUME n + 1 >= i PROVE Has(u)
      <4>1. CASE n >= i
        <5>1. PICK x \in 1..a : t[x] = s[i]
          BY <1>3, <2>2, <2>3, <4>1
        <5>2. x \in 1..(a + 1)
          OBVIOUS
        <5> QED BY <3>2, <5>1, <5>2
      <4>2. CASE ~(n >= i)
        <5>1. i = n + 1
          BY <3>3, <4>2, <1>0
        <5>2. a + 1 \in 1..(a + 1)
          OBVIOUS
        <5> QED BY <3>2, <5>1, <5>2
      <4> QED BY <4>1, <4>2
    <3>4. upTo[n + 1] = u
      BY <2>4, <2>6, <3>1
    <3> HIDE DEF Has
    <3> QED BY <2>1, <3>2, <3>3, <3>4
  <2> QED BY <2>5, <2>6
<1>4. L \in Good
  <2> HIDE DEF Good
  <2>1. \A n \in 0..L : n \in Good /\ n < L => n + 1 \in Good
    BY <1>3
  <2>2. \A n \in 0..L : n \in Good
    BY <1>2, <2>1, CountUp
  <2> QED BY <2>2
<1>5. L >= i
  BY <1>0
<1> QED BY <1>0, <1>1, <1>4, <1>5

(* A recursion over 0..N defines its function: here the walk's, ...        *)
LEMMA TrailRecursion ==
  ASSUME NEW p, NEW map
  PROVE  /\ Trail(p, map)[0] = p
         /\ \A n \in 1..MaxFollows :
              LET before == Trail(p, map)[n - 1]
              IN  Trail(p, map)[n] = IF FirstLink(before, map) = 0 THEN before
                                     ELSE Followed(before, map)
<1> DEFINE NextOf(q) == IF FirstLink(q, map) = 0 THEN q ELSE Followed(q, map)
           Upto(f, N) == f = [n \in 0..N |-> IF n = 0 THEN p ELSE NextOf(f[n - 1])]
           Defined == {N \in 0..MaxFollows : \E f : Upto(f, N)}
<1>1. 0 \in Defined
  <2> DEFINE f == [n \in 0..0 |-> p]
  <2>1. Upto(f, 0)
    <3> HIDE DEF NextOf
    <3> QED OBVIOUS
  <2> HIDE DEF Upto, f
  <2> QED BY <2>1, FollowsAssumption
<1>2. ASSUME NEW N \in 0..MaxFollows, N \in Defined, N < MaxFollows
      PROVE  N + 1 \in Defined
  <2> HIDE DEF NextOf
  <2>1. PICK f : Upto(f, N)
    BY <1>2
  <2> DEFINE g == [n \in 0..(N + 1) |-> IF n = N + 1 THEN NextOf(f[N]) ELSE f[n]]
  <2>2. \A n \in 0..N : g[n] = f[n]
    BY FollowsAssumption
  <2>3. ASSUME NEW n \in 0..(N + 1)
        PROVE  g[n] = IF n = 0 THEN p ELSE NextOf(g[n - 1])
    <3>1. CASE n = N + 1
      BY <2>2, <3>1, FollowsAssumption
    <3>2. CASE n # N + 1
      <4>1. n \in 0..N /\ (n # 0 => n - 1 \in 0..N)
        BY <3>2, FollowsAssumption
      <4>2. f[n] = IF n = 0 THEN p ELSE NextOf(f[n - 1])
        BY <2>1, <4>1
      <4> QED BY <2>2, <4>1, <4>2
    <3> QED BY <3>1, <3>2
  <2>4. Upto(g, N + 1)
    BY <2>3
  <2>5. N + 1 \in 0..MaxFollows
    BY <1>2, FollowsAssumption
  <2> HIDE DEF Upto, g
  <2> QED BY <2>4, <2>5
<1>3. MaxFollows \in Defined
  <2> HIDE DEF Defined
  <2> QED BY <1>1, <1>2, CountUp, FollowsAssumption
<1>4. Upto(Trail(p, map), MaxFollows)
  <2>1. Trail(p, map) = CHOOSE f : Upto(f, MaxFollows)
    BY DEF Trail
  <2> HIDE DEF Upto
  <2> QED BY <1>3, <2>1
<1> QED BY <1>4, FollowsAssumption

(* ... and here the record's.                                              *)
LEMMA GatheredRecursion ==
  ASSUME NEW steps
  PROVE  /\ Gathered(steps)[0] = <<>>
         /\ \A n \in 1..MaxFollows :
              Gathered(steps)[n] = Gathered(steps)[n - 1] \o steps[n]
<1> DEFINE Add(met, n) == met \o steps[n]
           Upto(f, N) == f = [n \in 0..N |-> IF n = 0 THEN <<>> ELSE Add(f[n - 1], n)]
           Defined == {N \in 0..MaxFollows : \E f : Upto(f, N)}
<1>1. 0 \in Defined
  <2> DEFINE f == [n \in 0..0 |-> <<>>]
  <2>1. Upto(f, 0)
    OBVIOUS
  <2> HIDE DEF Upto, f
  <2> QED BY <2>1, FollowsAssumption
<1>2. ASSUME NEW N \in 0..MaxFollows, N \in Defined, N < MaxFollows
      PROVE  N + 1 \in Defined
  <2> HIDE DEF Add
  <2>1. PICK f : Upto(f, N)
    BY <1>2
  <2> DEFINE g == [n \in 0..(N + 1) |-> IF n = N + 1 THEN Add(f[N], N + 1) ELSE f[n]]
  <2>2. \A n \in 0..N : g[n] = f[n]
    BY FollowsAssumption
  <2>3. ASSUME NEW n \in 0..(N + 1)
        PROVE  g[n] = IF n = 0 THEN <<>> ELSE Add(g[n - 1], n)
    <3>1. CASE n = N + 1
      BY <2>2, <3>1, FollowsAssumption
    <3>2. CASE n # N + 1
      <4>1. n \in 0..N /\ (n # 0 => n - 1 \in 0..N)
        BY <3>2, FollowsAssumption
      <4>2. f[n] = IF n = 0 THEN <<>> ELSE Add(f[n - 1], n)
        BY <2>1, <4>1
      <4> QED BY <2>2, <4>1, <4>2
    <3> QED BY <3>1, <3>2
  <2>4. Upto(g, N + 1)
    BY <2>3
  <2>5. N + 1 \in 0..MaxFollows
    BY <1>2, FollowsAssumption
  <2> HIDE DEF Upto, g
  <2> QED BY <2>4, <2>5
<1>3. MaxFollows \in Defined
  <2> HIDE DEF Defined
  <2> QED BY <1>1, <1>2, CountUp, FollowsAssumption
<1>4. Upto(Gathered(steps), MaxFollows)
  <2>1. Gathered(steps) = CHOOSE f : Upto(f, MaxFollows)
    BY DEF Gathered
  <2> HIDE DEF Upto
  <2> QED BY <1>3, <2>1
<1> QED BY <1>4, FollowsAssumption

-----------------------------------------------------------------------------
(* Paths, one under another.                                               *)

LEMMA UnderMeans ==
  ASSUME NEW p \in Paths, NEW dir \in Paths
  PROVE  Under(p, dir) <=> Len(dir) <= Len(p) /\ \A i \in 1..Len(dir) : p[i] = dir[i]
<1>1. PICK m \in Nat, n \in Nat : m = Len(p) /\ n = Len(dir)
  BY DEF Paths
<1>2. ASSUME n <= m
      PROVE  SubSeq(dir, 1, n) = SubSeq(p, 1, n) <=> \A i \in 1..n : p[i] = dir[i]
  <2>1. /\ SubSeq(dir, 1, n) \in Paths /\ SubSeq(p, 1, n) \in Paths
        /\ Len(SubSeq(dir, 1, n)) = n /\ Len(SubSeq(p, 1, n)) = n
        /\ \A i \in 1..n : SubSeq(dir, 1, n)[i] = dir[i] /\ SubSeq(p, 1, n)[i] = p[i]
    BY <1>1, <1>2 DEF Paths
  <2>2. ASSUME \A i \in 1..n : p[i] = dir[i]
        PROVE  SubSeq(dir, 1, n) = SubSeq(p, 1, n)
    <3>1. \A i \in 1..n : SubSeq(dir, 1, n)[i] = SubSeq(p, 1, n)[i]
      BY <2>1, <2>2
    <3> QED BY <2>1, <3>1, SeqEqual DEF Paths
  <2>3. ASSUME SubSeq(dir, 1, n) = SubSeq(p, 1, n)
        PROVE  \A i \in 1..n : p[i] = dir[i]
    BY <2>1, <2>3
  <2> QED BY <2>2, <2>3
<1> QED BY <1>1, <1>2 DEF Under, IsPrefix

LEMMA UnderItself ==
  ASSUME NEW p \in Paths
  PROVE  Under(p, p)
BY UnderMeans DEF Paths

LEMMA UnderUnder ==
  ASSUME NEW p \in Paths, NEW q \in Paths, NEW r \in Paths, Under(p, q), Under(q, r)
  PROVE  Under(p, r)
BY UnderMeans DEF Paths

(* Of two directories above a path, one is above the other.                *)
LEMMA OneAbove ==
  ASSUME NEW p \in Paths, NEW q \in Paths, NEW r \in Paths, Under(p, q), Under(p, r)
  PROVE  Under(q, r) \/ Under(r, q)
<1>1. PICK m \in Nat, n \in Nat : m = Len(q) /\ n = Len(r)
  BY DEF Paths
<1>2. /\ \A i \in 1..m : p[i] = q[i]
      /\ \A i \in 1..n : p[i] = r[i]
  BY <1>1, UnderMeans
<1>3. CASE m <= n
  BY <1>1, <1>2, <1>3, UnderMeans
<1>4. CASE n <= m
  BY <1>1, <1>2, <1>4, UnderMeans
<1> QED BY <1>3, <1>4

LEMMA SameLength ==
  ASSUME NEW p \in Paths, NEW q \in Paths, Under(p, q), Len(p) <= Len(q)
  PROVE  p = q
<1>1. PICK m \in Nat, n \in Nat : m = Len(p) /\ n = Len(q)
  BY DEF Paths
<1>2. m = n /\ \A i \in 1..n : p[i] = q[i]
  BY <1>1, UnderMeans
<1> QED BY <1>1, <1>2, SeqEqual DEF Paths

LEMMA PrefixAbove ==
  ASSUME NEW p \in Paths, NEW k \in 0..Len(p)
  PROVE  SubSeq(p, 1, k) \in Paths /\ Len(SubSeq(p, 1, k)) = k /\ Under(p, SubSeq(p, 1, k))
<1>1. PICK m \in Nat : m = Len(p) /\ k <= m /\ k \in Nat
  BY DEF Paths
<1>2. /\ SubSeq(p, 1, k) \in Paths /\ Len(SubSeq(p, 1, k)) = k
      /\ \A i \in 1..k : SubSeq(p, 1, k)[i] = p[i]
  BY <1>1 DEF Paths
<1> QED BY <1>1, <1>2, UnderMeans

(* A name in a directory.                                                  *)
LEMMA WithinIsPath ==
  ASSUME NEW p \in Paths, NEW n \in FileNames
  PROVE  /\ Within(p, n) \in Paths /\ Len(Within(p, n)) = Len(p) + 1
         /\ Under(Within(p, n), p)
<1>1. PICK m \in Nat : m = Len(p)
  BY DEF Paths
<1>2. /\ Within(p, n) \in Paths /\ Len(Within(p, n)) = m + 1
      /\ \A i \in 1..m : Within(p, n)[i] = p[i]
  BY <1>1, AppendProperties DEF Within, Paths
<1>3. Under(Within(p, n), p)
  <2> HIDE DEF Within
  <2> QED BY <1>1, <1>2, UnderMeans
<1> QED BY <1>1, <1>2, <1>3

(* A shorter path above is a prefix.                                       *)
LEMMA AboveIsPrefix ==
  ASSUME NEW p \in Paths, NEW q \in Paths, Under(p, q), NEW k \in 0..Len(q)
  PROVE  SubSeq(p, 1, k) = SubSeq(q, 1, k)
<1>1. PICK m \in Nat, n \in Nat : m = Len(p) /\ n = Len(q) /\ n <= m /\ k <= n /\ k \in Nat
  BY UnderMeans DEF Paths
<1>2. /\ SubSeq(p, 1, k) \in Paths /\ SubSeq(q, 1, k) \in Paths
      /\ Len(SubSeq(p, 1, k)) = k /\ Len(SubSeq(q, 1, k)) = k
      /\ \A i \in 1..k : SubSeq(p, 1, k)[i] = p[i] /\ SubSeq(q, 1, k)[i] = q[i]
  BY <1>1 DEF Paths
<1>3. \A i \in 1..k : i \in 1..n /\ p[i] = q[i]
  BY <1>1, UnderMeans
<1>4. \A i \in 1..k : SubSeq(p, 1, k)[i] = SubSeq(q, 1, k)[i]
  BY <1>2, <1>3
<1> QED BY <1>2, <1>4, SeqEqual DEF Paths

-----------------------------------------------------------------------------
(* The links on a path, and the walk.                                      *)

LEMMA FirstLinkIsFirst ==
  ASSUME NEW p \in Paths, NEW map
  PROVE  /\ FirstLink(p, map) \in 0..Len(p)
         /\ FirstLink(p, map) = 0 <=>
              \A k \in 1..Len(p) : SubSeq(p, 1, k) \notin DOMAIN map
         /\ FirstLink(p, map) # 0 =>
              /\ AtLink(p, map) \in DOMAIN map
              /\ \A k \in 1..(FirstLink(p, map) - 1) : SubSeq(p, 1, k) \notin DOMAIN map
<1> DEFINE at == {k \in 1..Len(p) : SubSeq(p, 1, k) \in DOMAIN map}
<1>1. at \in SUBSET Nat /\ FirstLink(p, map) = IF at = {} THEN 0 ELSE LeastOf(at)
  BY DEF FirstLink, Paths
<1>2. CASE at = {}
  BY <1>1, <1>2 DEF Paths
<1>3. CASE at # {}
  <2>1. LeastOf(at) \in at /\ \A k \in at : LeastOf(at) <= k
    <3> HIDE DEF at
    <3> QED BY <1>1, <1>3, LeastOfIsLeast
  <2>2. FirstLink(p, map) \in at /\ \A k \in at : FirstLink(p, map) <= k
    BY <1>1, <1>3, <2>1
  <2> HIDE DEF FirstLink
  <2>3. \A k \in 1..(FirstLink(p, map) - 1) : k \in 1..Len(p) /\ k \notin at
    BY <2>2 DEF Paths
  <2> QED BY <2>2, <2>3 DEF AtLink, Paths
<1> QED BY <1>2, <1>3

(* A length at which the prefix is a link, with none before it, is it.     *)
LEMMA FirstLinkUnique ==
  ASSUME NEW p \in Paths, NEW map, NEW k \in 1..Len(p),
         SubSeq(p, 1, k) \in DOMAIN map,
         \A j \in 1..(k - 1) : SubSeq(p, 1, j) \notin DOMAIN map
  PROVE  FirstLink(p, map) = k
<1> DEFINE at == {j \in 1..Len(p) : SubSeq(p, 1, j) \in DOMAIN map}
<1>1. at \in SUBSET Nat /\ k \in at /\ \A j \in at : k <= j
  <2>1. \A j \in at : ~(j < k)
    BY DEF Paths
  <2> QED BY <2>1 DEF Paths
<1>2. LeastOf(at) = k
  <2> HIDE DEF at
  <2> QED BY <1>1, LeastOfUnique
<1> QED BY <1>1, <1>2 DEF FirstLink

LEMMA TrailIsPaths ==
  ASSUME NEW p \in Paths, NEW map, \A q \in DOMAIN map : map[q] \in Paths
  PROVE  \A n \in 0..MaxFollows : Trail(p, map)[n] \in Paths
<1> DEFINE Good == {n \in 0..MaxFollows : Trail(p, map)[n] \in Paths}
<1>1. 0 \in Good
  BY TrailRecursion, FollowsAssumption
<1>2. ASSUME NEW n \in 0..MaxFollows, n \in Good, n < MaxFollows
      PROVE  n + 1 \in Good
  <2>1. PICK q \in Paths : q = Trail(p, map)[n]
    BY <1>2
  <2>2. n + 1 \in 1..MaxFollows /\ (n + 1) - 1 = n
    BY <1>2, FollowsAssumption
  <2>3. Trail(p, map)[n + 1] = IF FirstLink(q, map) = 0 THEN q ELSE Followed(q, map)
    BY <2>1, <2>2, TrailRecursion
  <2>4. ASSUME FirstLink(q, map) # 0 PROVE Followed(q, map) \in Paths
    <3>1. PICK k \in Nat : k = FirstLink(q, map) /\ k <= Len(q)
      BY FirstLinkIsFirst DEF Paths
    <3>2. map[AtLink(q, map)] \in Paths
      BY <2>4, FirstLinkIsFirst
    <3>3. SubSeq(q, k + 1, Len(q)) \in Paths
      BY <3>1 DEF Paths
    <3> QED BY <3>1, <3>2, <3>3, ConcatProperties DEF Followed, Paths
  <2>5. Trail(p, map)[n + 1] \in Paths
    BY <2>3, <2>4
  <2> QED BY <2>2, <2>5
<1> HIDE DEF Good
<1>3. \A n \in 0..MaxFollows : n \in Good
  BY <1>1, <1>2, CountUp, FollowsAssumption
<1> QED BY <1>3 DEF Good

(* A path with no link on it stays as it is.                               *)
LEMMA TrailSettled ==
  ASSUME NEW p, NEW map, NEW K \in 0..MaxFollows, FirstLink(Trail(p, map)[K], map) = 0
  PROVE  \A n \in K..MaxFollows : Trail(p, map)[n] = Trail(p, map)[K]
<1> DEFINE Same == {n \in 0..MaxFollows : n >= K => Trail(p, map)[n] = Trail(p, map)[K]}
<1>1. 0 \in Same
  BY FollowsAssumption
<1>2. ASSUME NEW n \in 0..MaxFollows, n \in Same, n < MaxFollows
      PROVE  n + 1 \in Same
  <2>1. n + 1 \in 1..MaxFollows /\ (n + 1) - 1 = n
    BY <1>2, FollowsAssumption
  <2>2. Trail(p, map)[n + 1] = IF FirstLink(Trail(p, map)[n], map) = 0
                               THEN Trail(p, map)[n] ELSE Followed(Trail(p, map)[n], map)
    BY <2>1, TrailRecursion
  <2> QED BY <1>2, <2>1, <2>2
<1>3. \A n \in 0..MaxFollows : n \in Same
  <2> HIDE DEF Same
  <2> QED BY <1>1, <1>2, CountUp, FollowsAssumption
<1> QED BY <1>3, FollowsAssumption

(* Steps that add nothing leave the record as it was.                      *)
LEMMA GatheredSettled ==
  ASSUME NEW steps, NEW S, NEW K \in 0..MaxFollows, Gathered(steps)[K] \in Seq(S),
         \A n \in (K + 1)..MaxFollows : steps[n] = <<>>
  PROVE  Gathered(steps)[MaxFollows] = Gathered(steps)[K]
<1> DEFINE Same == {n \in 0..MaxFollows : n >= K => Gathered(steps)[n] = Gathered(steps)[K]}
<1>1. 0 \in Same
  BY FollowsAssumption
<1>2. ASSUME NEW n \in 0..MaxFollows, n \in Same, n < MaxFollows
      PROVE  n + 1 \in Same
  <2>1. n + 1 \in 1..MaxFollows /\ (n + 1) - 1 = n
    BY <1>2, FollowsAssumption
  <2>2. Gathered(steps)[n + 1] = Gathered(steps)[n] \o steps[n + 1]
    BY <2>1, GatheredRecursion
  <2>3. ASSUME n >= K PROVE Gathered(steps)[n + 1] = Gathered(steps)[K]
    <3>1. Gathered(steps)[n] = Gathered(steps)[K] /\ steps[n + 1] = <<>>
      BY <1>2, <2>1, <2>3
    <3> QED BY <2>2, <3>1, ConcatEmptySeq
  <2> QED BY <2>1, <2>3
<1>3. MaxFollows \in Same
  <2> HIDE DEF Same
  <2> QED BY <1>1, <1>2, CountUp, FollowsAssumption
<1> QED BY <1>3, FollowsAssumption

(* A path with no link on it is where it leads.                            *)
LEMMA NoLinkNoWalk ==
  ASSUME NEW p \in Paths, NEW map,
         \A k \in 1..Len(p) : SubSeq(p, 1, k) \notin DOMAIN map
  PROVE  Landing(p, map) = p
<1> DEFINE Good == {n \in 0..MaxFollows : Trail(p, map)[n] = p}
<1>0. FirstLink(p, map) = 0
  BY FirstLinkIsFirst
<1>1. 0 \in Good
  BY TrailRecursion, FollowsAssumption
<1>2. ASSUME NEW n \in 0..MaxFollows, n \in Good, n < MaxFollows
      PROVE  n + 1 \in Good
  <2>1. n + 1 \in 1..MaxFollows /\ (n + 1) - 1 = n /\ Trail(p, map)[n] = p
    BY <1>2, FollowsAssumption
  <2> QED BY <1>0, <2>1, TrailRecursion
<1> HIDE DEF Good
<1>3. \A n \in 0..MaxFollows : n \in Good /\ n < MaxFollows => n + 1 \in Good
  BY <1>2
<1>4. \A n \in 0..MaxFollows : n \in Good
  BY <1>1, <1>3, CountUp, FollowsAssumption
<1> QED BY <1>4, FollowsAssumption DEF Good, Landing

LEMMA PhysicalIsPath ==
  ASSUME NEW p \in Paths, NEW map, \A q \in DOMAIN map : map[q] \in Paths, Whole(p, map)
  PROVE  PhysicalPath(p, map) \in Paths
<1> DEFINE final == {n \in 0..MaxFollows : AtFinal(Trail(p, map)[n], map)}
<1>1. MaxFollows \in final
  BY FollowsAssumption DEF Whole, Landing, AtFinal
<1>2. final \in SUBSET Nat
  BY FollowsAssumption
<1>3. LeastOf(final) \in final
  <2> HIDE DEF final
  <2> QED BY <1>1, <1>2, LeastExists DEF LeastOf
<1>4. PhysicalPath(p, map) = Trail(p, map)[LeastOf(final)]
  BY DEF PhysicalPath
<1>5. LeastOf(final) \in 0..MaxFollows
  BY <1>3
<1> HIDE DEF final
<1> QED BY <1>4, <1>5, TrailIsPaths

(* The walk of a physical path is at its final name.                       *)
LEMMA PhysicalIsFinal ==
  ASSUME NEW p, NEW map, Whole(p, map)
  PROVE  \E k \in 0..MaxFollows :
           /\ PhysicalPath(p, map) = Trail(p, map)[k]
           /\ AtFinal(PhysicalPath(p, map), map)
           /\ \A m \in 0..MaxFollows : AtFinal(Trail(p, map)[m], map) => k <= m
<1> DEFINE final == {n \in 0..MaxFollows : AtFinal(Trail(p, map)[n], map)}
<1>1. MaxFollows \in final /\ final \in SUBSET Nat
  BY FollowsAssumption DEF Whole, Landing, AtFinal
<1>2. LeastOf(final) \in final /\ \A m \in final : LeastOf(final) <= m
  <2> HIDE DEF final
  <2> QED BY <1>1, LeastOfIsLeast
<1>3. PhysicalPath(p, map) = Trail(p, map)[LeastOf(final)]
  BY DEF PhysicalPath
<1>4. PICK k \in final : k = LeastOf(final)
  BY <1>2
<1>5. k \in 0..MaxFollows /\ AtFinal(Trail(p, map)[k], map)
  OBVIOUS
<1> QED BY <1>2, <1>3, <1>4, <1>5

(* Only a link has hops.                                                   *)
LEMMA NoHops ==
  ASSUME NEW p, NEW map, Whole(p, map), FirstLink(PhysicalPath(p, map), map) = 0
  PROVE  Hops(p, map) = <<>>
<1> DEFINE steps == HopSteps(p, map)
<1>1. PICK k \in 0..MaxFollows :
        /\ PhysicalPath(p, map) = Trail(p, map)[k]
        /\ \A m \in 0..MaxFollows : AtFinal(Trail(p, map)[m], map) => k <= m
  BY PhysicalIsFinal
<1>2. \A n \in k..MaxFollows : Trail(p, map)[n] = Trail(p, map)[k]
  BY <1>1, TrailSettled
<1>3. ASSUME NEW n \in 1..MaxFollows PROVE ~IsHop(p, map, n)
  <2>1. SUFFICES ASSUME NEW m \in 0..(n - 1), AtFinal(Trail(p, map)[m], map)
                 PROVE  FirstLink(Trail(p, map)[n - 1], map) = 0
    BY DEF IsHop
  <2>2. m \in 0..MaxFollows
    BY FollowsAssumption
  <2>3. k <= m
    BY <1>1, <2>1, <2>2
  <2>4. n - 1 \in k..MaxFollows
    BY <2>3, FollowsAssumption
  <2> QED BY <1>1, <1>2, <2>4
<1>4. \A n \in 1..MaxFollows : steps[n] = <<>>
  BY <1>3 DEF HopSteps
<1> HIDE DEF steps
<1>5. Gathered(steps)[0] = <<>> /\ Gathered(steps)[0] \in Seq({})
  <2>1. Gathered(steps)[0] = <<>>
    BY GatheredRecursion
  <2> QED BY <2>1, EmptySeq
<1>6. \A n \in (0 + 1)..MaxFollows : steps[n] = <<>>
  BY <1>4
<1>7. Gathered(steps)[MaxFollows] = Gathered(steps)[0]
  <2>1. 0 \in 0..MaxFollows
    BY FollowsAssumption
  <2> QED BY <1>5, <1>6, <2>1, GatheredSettled
<1> QED BY <1>5, <1>7 DEF Hops, steps

-----------------------------------------------------------------------------
(* What a walk records.                                                    *)

LEMMA GatheredFrom ==
  ASSUME NEW S, NEW steps, \A n \in 1..MaxFollows : steps[n] \in Seq(S)
  PROVE  Gathered(steps)[MaxFollows] \in Seq(S)
<1> DEFINE Good == {n \in 0..MaxFollows : Gathered(steps)[n] \in Seq(S)}
<1>1. 0 \in Good
  <2>1. Gathered(steps)[0] \in Seq(S)
    BY GatheredRecursion, EmptySeq
  <2> QED BY <2>1, FollowsAssumption
<1>2. ASSUME NEW n \in 0..MaxFollows, n \in Good, n < MaxFollows
      PROVE  n + 1 \in Good
  <2>1. n + 1 \in 1..MaxFollows /\ (n + 1) - 1 = n
    BY <1>2, FollowsAssumption
  <2>2. Gathered(steps)[n + 1] = Gathered(steps)[n] \o steps[n + 1]
    BY <2>1, GatheredRecursion
  <2>3. PICK before \in Seq(S), more \in Seq(S) :
          before = Gathered(steps)[n] /\ more = steps[n + 1]
    BY <1>2, <2>1
  <2>4. Gathered(steps)[n + 1] \in Seq(S)
    BY <2>2, <2>3, ConcatProperties
  <2> QED BY <2>1, <2>4
<1>3. MaxFollows \in Good
  <2> HIDE DEF Good
  <2>1. \A n \in 0..MaxFollows : n \in Good /\ n < MaxFollows => n + 1 \in Good
    BY <1>2
  <2>2. \A n \in 0..MaxFollows : n \in Good
    BY <1>1, <2>1, CountUp, FollowsAssumption
  <2> QED BY <2>2, FollowsAssumption
<1> QED BY <1>3

(* The links and the places a walk gathers are paths.                      *)
PathPairs == [path : Paths, to : Paths]

LEMMA LandingIsPath ==
  ASSUME NEW p \in Paths, NEW map, \A q \in DOMAIN map : map[q] \in Paths
  PROVE  Landing(p, map) \in Paths
BY TrailIsPaths, FollowsAssumption DEF Landing

LEMMA ParentStepsArePaths ==
  ASSUME NEW p \in Paths, NEW map, \A q \in DOMAIN map : map[q] \in Paths,
         NEW n \in 1..MaxFollows
  PROVE  ParentSteps(p, map)[n] \in Seq(PathPairs)
<1> DEFINE step == ParentSteps(p, map)[n]
<1>1. PICK q \in Paths : q = Trail(p, map)[n - 1]
  <2>1. n - 1 \in 0..MaxFollows
    BY FollowsAssumption
  <2> QED BY <2>1, TrailIsPaths
<1>2. step = IF AtFinal(q, map) THEN <<>>
             ELSE <<[path |-> AtLink(q, map), to |-> map[AtLink(q, map)]]>>
  BY <1>1 DEF ParentSteps
<1>3. ASSUME ~AtFinal(q, map)
      PROVE  AtLink(q, map) \in Paths /\ map[AtLink(q, map)] \in Paths
  <2>1. FirstLink(q, map) # 0 /\ FirstLink(q, map) \in 0..Len(q)
    BY <1>3, FirstLinkIsFirst DEF AtFinal
  <2>2. AtLink(q, map) \in DOMAIN map
    BY <2>1, FirstLinkIsFirst
  <2>3. AtLink(q, map) \in Paths
    BY <2>1, PrefixAbove DEF AtLink
  <2> QED BY <2>2, <2>3
<1> DEFINE pair == [path |-> AtLink(q, map), to |-> map[AtLink(q, map)]]
<1>4. ~AtFinal(q, map) => pair \in PathPairs
  BY <1>3 DEF PathPairs
<1> HIDE DEF step, pair
<1>5. ~AtFinal(q, map) => <<pair>> \in Seq(PathPairs)
  BY <1>4
<1>6. step \in Seq(PathPairs)
  BY <1>2, <1>5, EmptySeq DEF pair
<1> QED BY <1>6 DEF step

LEMMA ParentLinksArePaths ==
  ASSUME NEW p \in Paths, NEW map, \A q \in DOMAIN map : map[q] \in Paths
  PROVE  ParentLinks(p, map) \in Seq(PathPairs)
BY ParentStepsArePaths, GatheredFrom DEF ParentLinks

LEMMA HopsArePaths ==
  ASSUME NEW p \in Paths, NEW map, \A q \in DOMAIN map : map[q] \in Paths
  PROVE  Hops(p, map) \in Seq(Paths)
<1> DEFINE steps == HopSteps(p, map)
<1>1. ASSUME NEW n \in 1..MaxFollows PROVE steps[n] \in Seq(Paths)
  <2>1. Trail(p, map)[n] \in Paths
    <3>1. n \in 0..MaxFollows
      BY FollowsAssumption
    <3> QED BY <3>1, TrailIsPaths
  <2>2. steps[n] = IF IsHop(p, map, n) THEN <<Trail(p, map)[n]>> ELSE <<>>
    BY DEF HopSteps
  <2> HIDE DEF steps
  <2> QED BY <2>1, <2>2
<1> HIDE DEF steps
<1> QED BY <1>1, GatheredFrom DEF Hops, steps

(* A walk taken up half way goes on as it would have.                      *)
LEMMA TrailAhead ==
  ASSUME NEW p, NEW map, NEW k \in 0..MaxFollows
  PROVE  \A n \in 0..MaxFollows :
           n + k <= MaxFollows => Trail(Trail(p, map)[k], map)[n] = Trail(p, map)[n + k]
<1> DEFINE q == Trail(p, map)[k]
           Ahead == {n \in 0..MaxFollows :
                       n + k <= MaxFollows => Trail(q, map)[n] = Trail(p, map)[n + k]}
<1>1. 0 \in Ahead
  BY TrailRecursion, FollowsAssumption
<1>2. ASSUME NEW n \in 0..MaxFollows, n \in Ahead, n < MaxFollows
      PROVE  n + 1 \in Ahead
  <2>1. n + 1 \in 1..MaxFollows /\ (n + 1) - 1 = n
    BY <1>2, FollowsAssumption
  <2>2. ASSUME (n + 1) + k <= MaxFollows
        PROVE  Trail(q, map)[n + 1] = Trail(p, map)[(n + 1) + k]
    <3>1. (n + 1) + k \in 1..MaxFollows /\ ((n + 1) + k) - 1 = n + k /\ n + k <= MaxFollows
      BY <2>2, FollowsAssumption
    <3>2. Trail(q, map)[n] = Trail(p, map)[n + k]
      BY <1>2, <3>1
    <3> HIDE DEF q
    <3> QED BY <2>1, <3>1, <3>2, TrailRecursion
  <2> QED BY <2>1, <2>2
<1>3. \A n \in 0..MaxFollows : n \in Ahead
  <2> HIDE DEF Ahead
  <2> QED BY <1>1, <1>2, CountUp, FollowsAssumption
<1> QED BY <1>3

(* A whole walk taken up half way ends where it would have, and each of    *)
(* its steps is one of those that were ahead.                              *)
LEMMA WholeAhead ==
  ASSUME NEW p, NEW map, Whole(p, map), NEW k \in 0..MaxFollows
  PROVE  LET q == Trail(p, map)[k]
         IN  /\ Landing(q, map) = Landing(p, map)
             /\ \A n \in 0..MaxFollows :
                  \E m \in k..MaxFollows : Trail(q, map)[n] = Trail(p, map)[m]
<1> DEFINE q == Trail(p, map)[k]
           j == MaxFollows - k
<1>1. j \in 0..MaxFollows /\ j + k = MaxFollows /\ MaxFollows \in j..MaxFollows
      /\ MaxFollows \in k..MaxFollows
  BY FollowsAssumption
<1>2. \A n \in 0..MaxFollows : n + k <= MaxFollows => Trail(q, map)[n] = Trail(p, map)[n + k]
  BY TrailAhead
<1>3. Trail(q, map)[j] = Landing(p, map)
  BY <1>1, <1>2, FollowsAssumption DEF Landing
<1>4. FirstLink(Trail(q, map)[j], map) = 0
  BY <1>3 DEF Whole
<1> HIDE DEF q, j
<1>5. \A n \in j..MaxFollows : Trail(q, map)[n] = Landing(p, map)
  BY <1>1, <1>3, <1>4, TrailSettled
<1>6. ASSUME NEW n \in 0..MaxFollows
      PROVE  \E m \in k..MaxFollows : Trail(q, map)[n] = Trail(p, map)[m]
  <2>1. CASE n + k <= MaxFollows
    <3>1. n + k \in k..MaxFollows
      BY <2>1, FollowsAssumption
    <3> QED BY <1>2, <2>1, <3>1
  <2>2. CASE ~(n + k <= MaxFollows)
    <3>1. n \in j..MaxFollows
      BY <1>1, <2>2, FollowsAssumption
    <3> QED BY <1>1, <1>5, <3>1 DEF Landing
  <2> QED BY <2>1, <2>2
<1>7. Landing(q, map) = Landing(p, map)
  BY <1>1, <1>5 DEF Landing
<1> QED BY <1>6, <1>7 DEF q

(* Leaving the final name as written changes nothing of where a path leads. *)
LEMMA LandingOfPhysical ==
  ASSUME NEW p, NEW map, Whole(p, map)
  PROVE  Landing(PhysicalPath(p, map), map) = Landing(p, map)
BY PhysicalIsFinal, WholeAhead

(* What is in a step is in the record.                                     *)
LEMMA InGathered ==
  ASSUME NEW S, NEW steps, \A n \in 1..MaxFollows : steps[n] \in Seq(S),
         NEW k \in 1..MaxFollows, NEW i \in 1..Len(steps[k])
  PROVE  \E j \in 1..Len(Gathered(steps)[MaxFollows]) :
           Gathered(steps)[MaxFollows][j] = steps[k][i]
<1> DEFINE g == Gathered(steps)
           Has(s) == \E j \in 1..Len(s) : s[j] = steps[k][i]
           Good == {n \in 0..MaxFollows : g[n] \in Seq(S) /\ (n >= k => Has(g[n]))}
<1>1. 0 \in Good
  <2>1. g[0] \in Seq(S)
    BY GatheredRecursion, EmptySeq
  <2> QED BY <2>1, FollowsAssumption
<1>2. ASSUME NEW n \in 0..MaxFollows, n \in Good, n < MaxFollows
      PROVE  n + 1 \in Good
  <2>1. n + 1 \in 1..MaxFollows /\ (n + 1) - 1 = n
    BY <1>2, FollowsAssumption
  <2>2. g[n + 1] = g[n] \o steps[n + 1]
    BY <2>1, GatheredRecursion
  <2>3. PICK q \in Seq(S), r \in Seq(S) : q = g[n] /\ r = steps[n + 1]
    BY <1>2, <2>1
  <2>4. /\ q \o r \in Seq(S) /\ Len(q \o r) = Len(q) + Len(r)
        /\ \A x \in 1..(Len(q) + Len(r)) :
             (q \o r)[x] = IF x <= Len(q) THEN q[x] ELSE r[x - Len(q)]
    BY ConcatProperties
  <2>5. PICK a \in Nat, b \in Nat : a = Len(q) /\ b = Len(r)
    OBVIOUS
  <2>6. PICK t : t = q \o r
    OBVIOUS
  <2>7. /\ t \in Seq(S) /\ Len(t) = a + b
        /\ \A x \in 1..(a + b) : t[x] = IF x <= a THEN q[x] ELSE r[x - a]
    BY <2>4, <2>5, <2>6
  <2>8. \A x \in 1..a : x \in 1..(a + b) /\ t[x] = q[x]
    <3>1. \A x \in 1..a : x \in 1..(a + b) /\ x <= a
      OBVIOUS
    <3> QED BY <2>7, <3>1
  <2>9. \A x \in 1..b : a + x \in 1..(a + b) /\ t[a + x] = r[x]
    <3>1. \A x \in 1..b : a + x \in 1..(a + b) /\ ~(a + x <= a) /\ (a + x) - a = x
      OBVIOUS
    <3> QED BY <2>7, <3>1
  <2>10. ASSUME n + 1 >= k PROVE Has(t)
    <3>1. CASE n >= k
      <4>1. PICK x \in 1..a : q[x] = steps[k][i]
        BY <1>2, <2>3, <2>5, <3>1
      <4> QED BY <2>7, <2>8, <4>1
    <3>2. CASE ~(n >= k)
      <4>1. k = n + 1
        BY <2>10, <3>2, FollowsAssumption
      <4>2. i \in 1..b /\ r[i] = steps[k][i]
        BY <2>3, <2>5, <4>1
      <4> QED BY <2>7, <2>9, <4>2
    <3> QED BY <3>1, <3>2
  <2>11. g[n + 1] = t
    BY <2>2, <2>3, <2>6
  <2> HIDE DEF Has
  <2> QED BY <2>1, <2>7, <2>10, <2>11
<1>3. MaxFollows \in Good
  <2> HIDE DEF Good
  <2>1. \A n \in 0..MaxFollows : n \in Good
    BY <1>1, <1>2, CountUp, FollowsAssumption
  <2> QED BY <2>1, FollowsAssumption
<1> QED BY <1>3, FollowsAssumption

(* What is in the record is from one of the steps.                         *)
LEMMA FromGathered ==
  ASSUME NEW S, NEW steps, \A n \in 1..MaxFollows : steps[n] \in Seq(S),
         NEW j \in 1..Len(Gathered(steps)[MaxFollows])
  PROVE  \E k \in 1..MaxFollows : \E i \in 1..Len(steps[k]) :
           Gathered(steps)[MaxFollows][j] = steps[k][i]
<1> DEFINE g == Gathered(steps)
           Comes(x) == \E k \in 1..MaxFollows : \E i \in 1..Len(steps[k]) : x = steps[k][i]
           Good == {n \in 0..MaxFollows : g[n] \in Seq(S) /\ \A x \in 1..Len(g[n]) : Comes(g[n][x])}
<1>1. 0 \in Good
  <2>1. g[0] = <<>> /\ g[0] \in Seq(S) /\ Len(g[0]) = 0
    BY GatheredRecursion, EmptySeq
  <2>2. \A x \in 1..Len(g[0]) : FALSE
    BY <2>1
  <2>3. 0 \in 0..MaxFollows
    BY FollowsAssumption
  <2> HIDE DEF Comes, g
  <2> QED BY <2>1, <2>2, <2>3
<1>2. ASSUME NEW n \in 0..MaxFollows, n \in Good, n < MaxFollows
      PROVE  n + 1 \in Good
  <2>1. n + 1 \in 1..MaxFollows /\ (n + 1) - 1 = n
    BY <1>2, FollowsAssumption
  <2>2. g[n + 1] = g[n] \o steps[n + 1]
    BY <2>1, GatheredRecursion
  <2>3. PICK q \in Seq(S), r \in Seq(S) : q = g[n] /\ r = steps[n + 1]
    BY <1>2, <2>1
  <2>4. /\ q \o r \in Seq(S) /\ Len(q \o r) = Len(q) + Len(r)
        /\ \A x \in 1..(Len(q) + Len(r)) :
             (q \o r)[x] = IF x <= Len(q) THEN q[x] ELSE r[x - Len(q)]
    BY ConcatProperties
  <2>5. PICK a \in Nat, b \in Nat : a = Len(q) /\ b = Len(r)
    OBVIOUS
  <2>6. PICK t : t = q \o r
    OBVIOUS
  <2>7. /\ t \in Seq(S) /\ Len(t) = a + b
        /\ \A x \in 1..(a + b) : t[x] = IF x <= a THEN q[x] ELSE r[x - a]
    BY <2>4, <2>5, <2>6
  <2>8. ASSUME NEW x \in 1..(a + b) PROVE Comes(t[x])
    <3>1. CASE x <= a
      <4>1. x \in 1..a /\ t[x] = q[x]
        BY <2>7, <3>1
      <4> HIDE DEF Comes
      <4> QED BY <1>2, <2>3, <2>5, <4>1
    <3>2. CASE ~(x <= a)
      <4>1. x - a \in 1..b /\ t[x] = r[x - a]
        BY <2>7, <3>2
      <4> QED BY <2>1, <2>3, <2>5, <4>1
    <3> QED BY <3>1, <3>2
  <2>9. g[n + 1] = t
    BY <2>2, <2>3, <2>6
  <2> HIDE DEF Comes
  <2> QED BY <2>1, <2>7, <2>8, <2>9
<1>3. MaxFollows \in Good
  <2> HIDE DEF Good
  <2>1. \A n \in 0..MaxFollows : n \in Good
    BY <1>1, <1>2, CountUp, FollowsAssumption
  <2> QED BY <2>1, FollowsAssumption
<1> QED BY <1>3

(* A hop is a step of the walk, and a final one.                           *)
LEMMA HopIsStep ==
  ASSUME NEW p \in Paths, NEW map, \A q \in DOMAIN map : map[q] \in Paths,
         NEW j \in 1..Len(Hops(p, map))
  PROVE  \E k \in 1..MaxFollows :
           Hops(p, map)[j] = Trail(p, map)[k] /\ AtFinal(Trail(p, map)[k], map)
<1> DEFINE steps == HopSteps(p, map)
<1>1. \A n \in 1..MaxFollows :
        steps[n] = IF IsHop(p, map, n) THEN <<Trail(p, map)[n]>> ELSE <<>>
  BY DEF HopSteps
<1>2. \A n \in 1..MaxFollows : Trail(p, map)[n] \in Paths
  BY TrailIsPaths, FollowsAssumption
<1> HIDE DEF steps
<1>3. ASSUME NEW n \in 1..MaxFollows PROVE steps[n] \in Seq(Paths)
  <2>1. PICK q \in Paths : q = Trail(p, map)[n]
    BY <1>2
  <2>2. steps[n] = <<q>> \/ steps[n] = <<>>
    BY <1>1, <2>1
  <2>3. <<q>> \in Seq(Paths) /\ <<>> \in Seq(Paths)
    BY EmptySeq
  <2> QED BY <2>2, <2>3, Zenon
<1>4. Hops(p, map) = Gathered(steps)[MaxFollows]
  BY DEF Hops, steps
<1>5. PICK k \in 1..MaxFollows : \E i \in 1..Len(steps[k]) : Hops(p, map)[j] = steps[k][i]
  <2>1. PICK st : st = steps
    OBVIOUS
  <2>2. \A n \in 1..MaxFollows : st[n] \in Seq(Paths)
    BY <1>3, <2>1
  <2>3. j \in 1..Len(Gathered(st)[MaxFollows])
    BY <1>4, <2>1
  <2>4. \E n \in 1..MaxFollows : \E i \in 1..Len(st[n]) :
          Gathered(st)[MaxFollows][j] = st[n][i]
    BY <2>2, <2>3, FromGathered
  <2> QED BY <1>4, <2>1, <2>4
<1>6. IsHop(p, map, k) /\ steps[k] = <<Trail(p, map)[k]>>
  <2>1. steps[k] # <<>>
    BY <1>5
  <2> QED BY <1>1, <2>1
<1>7. Hops(p, map)[j] = Trail(p, map)[k]
  BY <1>5, <1>6
<1> QED BY <1>5, <1>6, <1>7 DEF IsHop

(* Once at its final name, a walk is there again only at hops, or at "/".  *)
LEMMA FinalsAreHops ==
  ASSUME NEW p \in Paths, NEW map, \A q \in DOMAIN map : map[q] \in Paths,
         NEW k \in 0..MaxFollows, AtFinal(Trail(p, map)[k], map),
         NEW n \in k..MaxFollows, AtFinal(Trail(p, map)[n], map)
  PROVE  \/ Trail(p, map)[n] \in {Trail(p, map)[k], <<>>}
         \/ \E j \in 1..Len(Hops(p, map)) : Hops(p, map)[j] = Trail(p, map)[n]
<1> DEFINE steps == HopSteps(p, map)
           at(m) == Trail(p, map)[m]
           Known(q) == q \in {at(k), <<>>} \/ \E j \in 1..Len(Hops(p, map)) : Hops(p, map)[j] = q
           Good == {m \in 0..MaxFollows : m >= k /\ AtFinal(at(m), map) => Known(at(m))}
<1>1. \A m \in 1..MaxFollows :
        steps[m] = IF IsHop(p, map, m) THEN <<at(m)>> ELSE <<>>
  BY DEF HopSteps
<1>2. \A m \in 0..MaxFollows : at(m) \in Paths
  BY TrailIsPaths
<1>3. ASSUME NEW m \in 1..MaxFollows PROVE steps[m] \in Seq(Paths)
  <2>1. m \in 0..MaxFollows
    BY FollowsAssumption
  <2>2. PICK q \in Paths : q = at(m)
    BY <1>2, <2>1
  <2>3. steps[m] = <<q>> \/ steps[m] = <<>>
    BY <1>1, <2>2
  <2>4. <<q>> \in Seq(Paths) /\ <<>> \in Seq(Paths)
    BY EmptySeq
  <2> HIDE DEF steps
  <2> QED BY <2>3, <2>4, Zenon
<1>4. Hops(p, map) = Gathered(steps)[MaxFollows]
  BY DEF Hops
<1>5. ASSUME NEW m \in 1..MaxFollows, IsHop(p, map, m) PROVE Known(at(m))
  <2>1. steps[m] = <<at(m)>>
    BY <1>1, <1>5
  <2> HIDE DEF steps, at
  <2>2. 1 \in 1..Len(steps[m]) /\ steps[m][1] = at(m)
    BY <2>1
  <2> QED BY <1>3, <1>4, <2>2, InGathered
<1>6. 0 \in Good
  <2>1. 0 >= k => k = 0
    BY FollowsAssumption
  <2> QED BY <2>1, FollowsAssumption
<1>7. ASSUME NEW m \in 0..MaxFollows, m \in Good, m < MaxFollows
      PROVE  m + 1 \in Good
  <2>1. m + 1 \in 1..MaxFollows /\ (m + 1) - 1 = m
    BY <1>7, FollowsAssumption
  <2>2. ASSUME m + 1 >= k, AtFinal(at(m + 1), map) PROVE Known(at(m + 1))
    <3>1. CASE m + 1 = k
      BY <3>1
    <3>2. CASE m + 1 # k /\ FirstLink(at(m), map) = 0
      <4>1. m >= k
        BY <2>2, <3>2, FollowsAssumption
      <4>2. at(m + 1) = at(m)
        BY <2>1, <3>2, TrailRecursion
      <4>3. AtFinal(at(m), map)
        BY <2>2, <4>2
      <4> QED BY <1>7, <4>1, <4>2, <4>3
    <3>3. CASE m + 1 # k /\ FirstLink(at(m), map) # 0
      <4>1. k \in 0..((m + 1) - 1)
        BY <2>2, <3>3, FollowsAssumption
      <4>2. IsHop(p, map, m + 1) \/ at(m + 1) = <<>>
        BY <2>1, <2>2, <3>3, <4>1 DEF IsHop
      <4> QED BY <1>5, <2>1, <4>2
    <3> QED BY <3>1, <3>2, <3>3
  <2> QED BY <2>1, <2>2
<1>8. n \in Good
  <2> HIDE DEF Good
  <2>1. \A m \in 0..MaxFollows : m \in Good
    BY <1>6, <1>7, CountUp, FollowsAssumption
  <2> QED BY <2>1, FollowsAssumption
<1> QED BY <1>8

(* The link a walk follows before its final name is in its record.         *)
LEMMA ParentsAreKept ==
  ASSUME NEW p \in Paths, NEW map, \A q \in DOMAIN map : map[q] \in Paths, Whole(p, map),
         NEW n \in 0..MaxFollows, ~AtFinal(Trail(p, map)[n], map)
  PROVE  \E j \in 1..Len(ParentLinks(p, map)) :
           ParentLinks(p, map)[j].path = AtLink(Trail(p, map)[n], map)
<1> DEFINE steps == ParentSteps(p, map)
           q == Trail(p, map)[n]
           link == [path |-> AtLink(q, map), to |-> map[AtLink(q, map)]]
<1>1. n + 1 \in 1..MaxFollows /\ (n + 1) - 1 = n
  <2>1. n # MaxFollows
    BY DEF Whole, Landing, AtFinal
  <2> QED BY <2>1, FollowsAssumption
<1>2. steps[n + 1] = <<link>>
  BY <1>1 DEF ParentSteps
<1>3. \A m \in 1..MaxFollows : steps[m] \in Seq(PathPairs)
  BY ParentStepsArePaths
<1>4. ParentLinks(p, map) = Gathered(steps)[MaxFollows]
  BY DEF ParentLinks
<1> HIDE DEF steps, link
<1>5. 1 \in 1..Len(steps[n + 1]) /\ steps[n + 1][1] = link
  BY <1>2
<1>6. PICK j \in 1..Len(ParentLinks(p, map)) : ParentLinks(p, map)[j] = link
  <2>1. PICK k \in 1..MaxFollows : k = n + 1
    BY <1>1
  <2>2. 1 \in 1..Len(steps[k]) /\ steps[k][1] = link
    BY <1>5, <2>1
  <2>3. \E j \in 1..Len(Gathered(steps)[MaxFollows]) :
          Gathered(steps)[MaxFollows][j] = steps[k][1]
    BY <1>3, <2>2, InGathered
  <2> QED BY <1>4, <2>2, <2>3
<1>7. link.path = AtLink(q, map)
  BY DEF link
<1> QED BY <1>6, <1>7

(* What stands for a name not reached yet is no path.                     *)
LEMMA NoPathIsNone == NoPath \notin Paths
<1>1. NoPath[1] \notin FileNames
  BY NamesAssumption DEF NoPath
<1>2. \A p \in Paths : Len(p) = 1 => p[1] \in FileNames
  BY ElementOfSeq DEF Paths
<1>3. Len(NoPath) = 1
  BY DEF NoPath
<1> QED BY <1>1, <1>2, <1>3

=============================================================================
