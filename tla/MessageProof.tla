---------------------------- MODULE MessageProof ----------------------------
(***************************************************************************)
(* TLAPS proofs about Message, for every text and every width of an int.   *)
(* The induction over texts is first-order: a set of numbers that contains *)
(* 0 and the successor of each of its members is Nat.                      *)
(***************************************************************************)
EXTENDS Message, NaturalsInduction, WellFoundedInduction, SequenceTheorems, TLAPS

-----------------------------------------------------------------------------
(* Induction and recursion over the natural numbers *)

LEMMA Induction ==
    ASSUME NEW P, P \subseteq Nat, 0 \in P, \A n \in P : n + 1 \in P
    PROVE  P = Nat
<1>. SUFFICES ASSUME Nat \ P # {} PROVE FALSE  OBVIOUS
<1>1. IsWellFoundedOn(OpToRel(<, Nat), Nat)
  BY NatLessThanWellFounded
<1>2. PICK m \in Nat \ P : \A n \in Nat \ P : <<n, m>> \notin OpToRel(<, Nat)
  BY <1>1, WFMin
<1>3. \A n \in Nat : n < m => n \in P
  BY <1>2 DEF OpToRel
<1>4. m # 0 /\ m - 1 \in Nat /\ m - 1 < m /\ m - 1 + 1 = m
  OBVIOUS
<1>. QED  BY <1>3, <1>4

LEMMA Least ==
    ASSUME NEW P, P \subseteq Nat, P # {}
    PROVE  Min(P) \in P /\ \A n \in P : Min(P) <= n
<1>1. IsWellFoundedOn(OpToRel(<, Nat), Nat)
  BY NatLessThanWellFounded
<1>2. PICK m \in P : \A n \in P : <<n, m>> \notin OpToRel(<, Nat)
  BY <1>1, WFMin
<1>3. ASSUME NEW n \in P PROVE m <= n
  <2>1. ~(n < m)  BY <1>2 DEF OpToRel
  <2>. QED  BY <2>1
<1>4. \E x \in P : \A y \in P : x =< y
  BY <1>3
<1>. QED  BY <1>4 DEF Min

\* g follows the recursion up to n.
Follows(g, base, step, n) ==
    g[0] = base /\ \A k \in 0 .. n - 1 : g[k + 1] = step[k + 1][g[k]]

LEMMA FollowsUnique ==
    ASSUME NEW base, NEW step, NEW g, NEW h, NEW m \in Nat, NEW n \in Nat,
           Follows(g, base, step, m), Follows(h, base, step, n)
    PROVE  \A k \in Nat : k <= m /\ k <= n => g[k] = h[k]
<1>. DEFINE P == {k \in Nat : k <= m /\ k <= n => g[k] = h[k]}
<1>1. 0 \in P
  BY DEF Follows
<1>2. ASSUME NEW k \in P PROVE k + 1 \in P
  BY DEF Follows
<1>. HIDE DEF P
<1>3. P = Nat
  <2>1. P \subseteq Nat  BY DEF P
  <2>. QED  BY <1>1, <1>2, <2>1, Induction
<1>. QED  BY <1>3 DEF P

\* What is defined by recursion exists.
LEMMA Recursion ==
    ASSUME NEW base \in Int, NEW step \in [Nat -> [Int -> Int]]
    PROVE  \E f \in [Nat -> Int] :
             f[0] = base /\ \A n \in Nat : f[n + 1] = step[n + 1][f[n]]
<1>. DEFINE P == {n \in Nat : \E g \in [Nat -> Int] : Follows(g, base, step, n)}
<1>1. 0 \in P
  <2>. DEFINE g == [k \in Nat |-> base]
  <2>1. g \in [Nat -> Int] /\ Follows(g, base, step, 0)  BY DEF Follows
  <2>. QED  BY <2>1
<1>2. ASSUME NEW n \in P PROVE n + 1 \in P
  <2>1. PICK g \in [Nat -> Int] : Follows(g, base, step, n)  OBVIOUS
  <2>2. step[n + 1][g[n]] \in Int  OBVIOUS
  <2>. DEFINE h == [k \in Nat |-> IF k = n + 1 THEN step[n + 1][g[n]] ELSE g[k]]
  <2>3. h \in [Nat -> Int]  BY <2>2
  <2>4. h[n + 1] = step[n + 1][g[n]] /\ \A k \in 0 .. n : h[k] = g[k]  OBVIOUS
  <2>. HIDE DEF h
  <2>5. Follows(h, base, step, n + 1)
    <3>1. ASSUME NEW k \in 0 .. n PROVE h[k + 1] = step[k + 1][h[k]]
      <4>1. CASE k = n  BY <2>4, <4>1
      <4>2. CASE k # n
        <5>1. k \in 0 .. n - 1 /\ k + 1 \in 0 .. n  BY <4>2
        <5>. QED  BY <2>1, <2>4, <5>1 DEF Follows
      <4>. QED  BY <4>1, <4>2
    <3>2. h[0] = base  BY <2>1, <2>4 DEF Follows
    <3>3. n + 1 - 1 = n  OBVIOUS
    <3>. QED  BY <3>1, <3>2, <3>3 DEF Follows
  <2>6. n + 1 \in Nat  OBVIOUS
  <2>. QED  BY <2>3, <2>5, <2>6
<1>. HIDE DEF P
<1>3. P = Nat
  <2>1. P \subseteq Nat  BY DEF P
  <2>. QED  BY <1>1, <1>2, <2>1, Induction
<1>. DEFINE Till(n) == CHOOSE g \in [Nat -> Int] : Follows(g, base, step, n)
            f == [n \in Nat |-> Till(n)[n]]
<1>4. ASSUME NEW n \in Nat PROVE Till(n) \in [Nat -> Int] /\ Follows(Till(n), base, step, n)
  <2>1. \E g \in [Nat -> Int] : Follows(g, base, step, n)
    BY <1>3 DEF P
  <2>. QED  BY <2>1
<1>. HIDE DEF Till
<1>5. f \in [Nat -> Int]
  BY <1>4
<1>6. f[0] = base
  BY <1>4 DEF Follows
<1>7. ASSUME NEW n \in Nat PROVE f[n + 1] = step[n + 1][f[n]]
  <2>1. Till(n)[n] = Till(n + 1)[n]
    BY <1>4, FollowsUnique
  <2>2. Till(n + 1)[n + 1] = step[n + 1][Till(n + 1)[n]]
    BY <1>4 DEF Follows
  <2>. QED  BY <2>1, <2>2
<1>. HIDE DEF f
<1>. QED  BY <1>5, <1>6, <1>7

-----------------------------------------------------------------------------
(* The recursive functions of Message *)

LEMMA TotalIs ==
    ASSUME NEW F \in [Nat -> Int]
    PROVE  /\ Total(F) \in [Nat -> Int]
           /\ Total(F)[0] = 0
           /\ \A n \in Nat : Total(F)[n + 1] = Total(F)[n] + F[n + 1]
<1>. DEFINE step == [n \in Nat |-> [x \in Int |-> x + F[n]]]
            Is(f) == f = [n \in Nat |-> IF n = 0 THEN 0 ELSE f[n - 1] + F[n]]
<1>1. PICK f \in [Nat -> Int] : f[0] = 0 /\ \A n \in Nat : f[n + 1] = step[n + 1][f[n]]
  <2>1. step \in [Nat -> [Int -> Int]]  OBVIOUS
  <2>. HIDE DEF step
  <2>2. \A b \in Int : \E f \in [Nat -> Int] :
           f[0] = b /\ \A n \in Nat : f[n + 1] = step[n + 1][f[n]]
    BY <2>1, Recursion
  <2>3. 0 \in Int /\ 1 \in Int  OBVIOUS
  <2>. QED  BY <2>2, <2>3, Zenon
<1>2. Is(f)
  <2>1. ASSUME NEW n \in Nat, n # 0 PROVE f[n] = f[n - 1] + F[n]
    <3>1. n - 1 \in Nat /\ n - 1 + 1 = n  BY <2>1
    <3>2. step[n][f[n - 1]] = f[n - 1] + F[n]  BY <3>1
    <3>. HIDE DEF step
    <3>. QED  BY <1>1, <3>1, <3>2
  <2>. QED  BY <1>1, <2>1
<1>3. Is(Total(F))
  BY <1>2 DEF Total
<1>. DEFINE t == Total(F)
<1>4. t = [n \in Nat |-> IF n = 0 THEN 0 ELSE t[n - 1] + F[n]]
  BY <1>3
<1>. HIDE DEF t
<1>5. t[0] = 0 /\ \A n \in Nat : t[n + 1] = t[n] + F[n + 1]
  <2>1. \A n \in Nat : n + 1 \in Nat /\ n + 1 # 0 /\ n + 1 - 1 = n  OBVIOUS
  <2>. QED  BY <1>4, <2>1
<1>6. \A n \in Nat : t[n] \in Int
  <2>. DEFINE P == {n \in Nat : t[n] \in Int}
  <2>1. 0 \in P /\ \A n \in P : n + 1 \in P  BY <1>5
  <2>2. P \subseteq Nat  OBVIOUS
  <2>. HIDE DEF P
  <2>3. P = Nat  BY <2>1, <2>2, Induction
  <2>. QED  BY <2>3 DEF P
<1>7. t \in [Nat -> Int]
  BY <1>4, <1>6
<1>. QED  BY <1>5, <1>7 DEF t

LEMMA TenIs ==
    Ten \in [Nat -> Int] /\ Ten[0] = 1 /\ \A n \in Nat : Ten[n + 1] = 10 * Ten[n]
<1>. DEFINE step == [n \in Nat |-> [x \in Int |-> 10 * x]]
            Is(f) == f = [n \in Nat |-> IF n = 0 THEN 1 ELSE 10 * f[n - 1]]
<1>1. PICK f \in [Nat -> Int] : f[0] = 1 /\ \A n \in Nat : f[n + 1] = step[n + 1][f[n]]
  <2>1. step \in [Nat -> [Int -> Int]]  OBVIOUS
  <2>. HIDE DEF step
  <2>2. \A b \in Int : \E f \in [Nat -> Int] :
           f[0] = b /\ \A n \in Nat : f[n + 1] = step[n + 1][f[n]]
    BY <2>1, Recursion
  <2>3. 0 \in Int /\ 1 \in Int  OBVIOUS
  <2>. QED  BY <2>2, <2>3, Zenon
<1>2. Is(f)
  <2>1. ASSUME NEW n \in Nat, n # 0 PROVE f[n] = 10 * f[n - 1]
    <3>1. n - 1 \in Nat /\ n - 1 + 1 = n  BY <2>1
    <3>2. step[n][f[n - 1]] = 10 * f[n - 1]  BY <3>1
    <3>. HIDE DEF step
    <3>. QED  BY <1>1, <3>1, <3>2
  <2>. QED  BY <1>1, <2>1
<1>3. Is(Ten)
  BY <1>2 DEF Ten
<1>4. Ten = [n \in Nat |-> IF n = 0 THEN 1 ELSE 10 * Ten[n - 1]]
  BY <1>3
<1>5. Ten[0] = 1 /\ \A n \in Nat : Ten[n + 1] = 10 * Ten[n]
  <2>1. \A n \in Nat : n + 1 \in Nat /\ n + 1 # 0 /\ n + 1 - 1 = n  OBVIOUS
  <2>. QED  BY <1>4, <2>1
<1>6. \A n \in Nat : Ten[n] \in Int
  <2>. DEFINE P == {n \in Nat : Ten[n] \in Int}
  <2>1. 0 \in P /\ \A n \in P : n + 1 \in P  BY <1>5
  <2>2. P \subseteq Nat  OBVIOUS
  <2>. HIDE DEF P
  <2>3. P = Nat  BY <2>1, <2>2, Induction
  <2>. QED  BY <2>3 DEF P
<1>. QED  BY <1>4, <1>5, <1>6

LEMMA DigitIs ==
    /\ \A c \in DOMAIN Digit : Digit[c] \in 0 .. 9
    /\ \A c \in Sign : c \notin DOMAIN Digit
    /\ "-" \in Sign
BY DEF Digit, Sign

LEMMA ValueIs ==
    ASSUME NEW s \in Seq(Char), NEW i \in Nat \ {0}
    PROVE  /\ Value(s, i) \in [Nat -> Int]
           /\ \A n \in Nat : n < i => Value(s, i)[n] = 0
           /\ \A n \in Nat : ~IsDigit(s, n) => Value(s, i)[n] = 0
           /\ \A n \in Nat : n + 1 >= i /\ IsDigit(s, n + 1) =>
                Value(s, i)[n + 1] = 10 * Value(s, i)[n] + Digit[s[n + 1]]
<1>. DEFINE Skips(n) == n < i \/ ~IsDigit(s, n)
            step == [n \in Nat |->
                      [x \in Int |-> IF Skips(n) THEN 0 ELSE 10 * x + Digit[s[n]]]]
            Is(f) == f = [k \in Nat |->
                       IF k < i \/ ~IsDigit(s, k) THEN 0 ELSE 10 * f[k - 1] + Digit[s[k]]]
<1>0. \A n \in Nat : ~Skips(n) => Digit[s[n]] \in Int
  BY DigitIs DEF IsDigit
<1>1. PICK f \in [Nat -> Int] : f[0] = 0 /\ \A n \in Nat : f[n + 1] = step[n + 1][f[n]]
  <2>1. step \in [Nat -> [Int -> Int]]  BY <1>0
  <2>. HIDE DEF step
  <2>2. \A b \in Int : \E f \in [Nat -> Int] :
           f[0] = b /\ \A n \in Nat : f[n + 1] = step[n + 1][f[n]]
    BY <2>1, Recursion
  <2>3. 0 \in Int /\ 1 \in Int  OBVIOUS
  <2>. QED  BY <2>2, <2>3, Zenon
<1>2. Is(f)
  <2>1. ASSUME NEW n \in Nat, n # 0
        PROVE  f[n] = IF Skips(n) THEN 0 ELSE 10 * f[n - 1] + Digit[s[n]]
    <3>1. n - 1 \in Nat /\ n - 1 + 1 = n  BY <2>1
    <3>2. step[n][f[n - 1]] = IF Skips(n) THEN 0 ELSE 10 * f[n - 1] + Digit[s[n]]  BY <3>1
    <3>. HIDE DEF step
    <3>. QED  BY <1>1, <3>1, <3>2
  <2>2. Skips(0)  OBVIOUS
  <2>. QED  BY <1>1, <2>1, <2>2
<1>3. Is(Value(s, i))
  BY <1>2 DEF Value
<1>. DEFINE v == Value(s, i)
<1>4. v = [k \in Nat |-> IF Skips(k) THEN 0 ELSE 10 * v[k - 1] + Digit[s[k]]]
  BY <1>3
<1>. HIDE DEF v
<1>5. /\ \A n \in Nat : Skips(n) => v[n] = 0
      /\ \A n \in Nat : ~Skips(n + 1) => v[n + 1] = 10 * v[n] + Digit[s[n + 1]]
  <2>1. \A n \in Nat : n + 1 \in Nat /\ n + 1 - 1 = n  OBVIOUS
  <2>. QED  BY <1>4, <2>1
<1>6. \A n \in Nat : v[n] \in Int
  <2>. DEFINE P == {n \in Nat : v[n] \in Int}
  <2>1. 0 \in P  BY <1>5
  <2>2. ASSUME NEW n \in P PROVE n + 1 \in P
    <3>1. CASE Skips(n + 1)  BY <1>5, <3>1
    <3>2. CASE ~Skips(n + 1)
      <4>1. v[n + 1] = 10 * v[n] + Digit[s[n + 1]] /\ Digit[s[n + 1]] \in Int
        BY <1>0, <1>5, <3>2
      <4>2. \A x, y \in Int : 10 * x + y \in Int  OBVIOUS
      <4>3. v[n] \in Int  OBVIOUS
      <4>. HIDE DEF P
      <4>4. v[n + 1] \in Int  BY <4>1, <4>2, <4>3
      <4>5. n + 1 \in Nat  BY DEF P
      <4>. QED  BY <4>4, <4>5 DEF P
    <3>. QED  BY <3>1, <3>2
  <2>3. P \subseteq Nat  OBVIOUS
  <2>. HIDE DEF P
  <2>4. P = Nat  BY <2>1, <2>2, <2>3, Induction
  <2>. QED  BY <2>4 DEF P
<1>7. v \in [Nat -> Int]
  BY <1>4, <1>6
<1>8. \A n \in Nat : n + 1 >= i /\ IsDigit(s, n + 1) => ~Skips(n + 1)
  OBVIOUS
<1>. QED  BY <1>5, <1>7, <1>8 DEF v

-----------------------------------------------------------------------------
(* The search *)

LEMMA SearchIs ==
    ASSUME NEW s \in Seq(Char), NEW i \in 1 .. Len(s) + 1
    PROVE  /\ Search(s, i) \in i .. Len(s) + 1
           /\ Search(s, i) > Len(s) \/ Begins(s, Search(s, i))
           /\ \A k \in i .. Search(s, i) - 1 : ~Begins(s, k)
<1>. DEFINE P == {k \in i .. Len(s) + 1 : k > Len(s) \/ Begins(s, k)}
<1>1. Len(s) \in Nat
  BY LenProperties
<1>2. P \subseteq Nat /\ Len(s) + 1 \in P
  BY <1>1
<1>3. Min(P) \in P /\ \A k \in P : Min(P) <= k
  <2>. HIDE DEF P
  <2>. QED  BY <1>2, Least
<1>4. Search(s, i) = Min(P)
  BY DEF Search
<1>5. Min(P) \in i .. Len(s) + 1 /\ (Min(P) > Len(s) \/ Begins(s, Min(P)))
  BY <1>3
<1>6. ASSUME NEW k \in i .. Min(P) - 1 PROVE ~Begins(s, k)
  <2>1. k \in i .. Len(s) + 1 /\ ~(Min(P) <= k)
    BY <1>1, <1>5
  <2>. QED  BY <1>3, <2>1
<1>. QED  BY <1>4, <1>5, <1>6

LEMMA RunIs ==
    ASSUME NEW s \in Seq(Char), NEW i \in 1 .. Len(s) + 1
    PROVE  /\ Run(s, i) \in i .. Len(s) + 1
           /\ ~IsDigit(s, Run(s, i))
           /\ \A k \in i .. Run(s, i) - 1 : IsDigit(s, k)
<1>. DEFINE P == {k \in i .. Len(s) + 1 : ~IsDigit(s, k)}
<1>1. Len(s) \in Nat /\ DOMAIN s = 1 .. Len(s)
  BY LenProperties
<1>2. P \subseteq Nat /\ Len(s) + 1 \in P
  BY <1>1 DEF IsDigit
<1>3. Min(P) \in P /\ \A k \in P : Min(P) <= k
  <2>. HIDE DEF P
  <2>. QED  BY <1>2, Least
<1>4. Run(s, i) = Min(P)
  BY DEF Run
<1>5. Min(P) \in i .. Len(s) + 1 /\ ~IsDigit(s, Min(P))
  BY <1>3
<1>6. ASSUME NEW k \in i .. Min(P) - 1 PROVE IsDigit(s, k)
  <2>1. k \in i .. Len(s) + 1 /\ ~(Min(P) <= k)
    BY <1>1, <1>5
  <2>. QED  BY <1>3, <2>1
<1>. QED  BY <1>4, <1>5, <1>6

\* Where the digits of the next match begin.
FirstDigit(s, i) == IF IsSign(s, Search(s, i)) THEN Search(s, i) + 1 ELSE Search(s, i)

\* The match of a search that begins at the start or behind a run is a maximal
\* run of digits, the first there is, together with the sign before it if that
\* is one.
LEMMA MatchIs ==
    ASSUME NEW s \in Seq(Char), NEW i \in 1 .. Len(s) + 1, i # 1 => ~IsDigit(s, i),
           Search(s, i) <= Len(s),
           NEW b, b = Search(s, i), NEW d, d = FirstDigit(s, i), NEW e, e = Run(s, d)
    PROVE  /\ b \in i .. Len(s) /\ d \in b .. Len(s) /\ e \in d + 1 .. Len(s) + 1
           /\ \A k \in i .. d - 1 : ~IsDigit(s, k)
           /\ \A k \in d .. e - 1 : IsDigit(s, k)
           /\ ~IsDigit(s, d - 1) /\ ~IsDigit(s, e)
           /\ s[b] = "-" <=> d - 1 \in DOMAIN s /\ s[d - 1] = "-"
<1>1. Len(s) \in Nat /\ DOMAIN s = 1 .. Len(s)
  BY LenProperties
<1>2. b \in i .. Len(s) /\ Begins(s, b) /\ \A k \in i .. b - 1 : ~Begins(s, k)
  BY <1>1, SearchIs
<1>3. \A k \in DOMAIN s : ~(IsSign(s, k) /\ IsDigit(s, k))
  BY DigitIs DEF IsSign, IsDigit
<1>4. d \in b .. Len(s) /\ IsDigit(s, d) /\ (d = b \/ (d = b + 1 /\ IsSign(s, b)))
  <2>1. CASE IsSign(s, b)
    <3>1. d = b + 1  BY <2>1 DEF FirstDigit
    <3>2. IsDigit(s, b + 1)  BY <1>1, <1>2, <1>3, <2>1 DEF Begins
    <3>. QED  BY <1>1, <1>2, <2>1, <3>1, <3>2 DEF IsDigit
  <2>2. CASE ~IsSign(s, b)
    <3>1. d = b  BY <2>2 DEF FirstDigit
    <3>2. IsDigit(s, b)  BY <1>2, <2>2 DEF Begins
    <3>. QED  BY <1>1, <1>2, <3>1, <3>2
  <2>. QED  BY <2>1, <2>2
<1>5. \A k \in i .. b - 1 : ~IsDigit(s, k)
  BY <1>2 DEF Begins
<1>6. \A k \in i .. d - 1 : ~IsDigit(s, k)
  BY <1>1, <1>2, <1>3, <1>4, <1>5
<1>7. /\ e \in d .. Len(s) + 1 /\ ~IsDigit(s, e)
      /\ \A k \in d .. e - 1 : IsDigit(s, k)
  <2>1. d \in 1 .. Len(s) + 1  BY <1>1, <1>2, <1>4
  <2>. QED  BY <2>1, RunIs
<1>8. e # d
  BY <1>4, <1>7
<1>9. e \in d + 1 .. Len(s) + 1
  BY <1>1, <1>2, <1>4, <1>7, <1>8
<1>10. d = b => b = 1 \/ b - 1 \in i .. b - 1
  <2>1. CASE b = i
    <3>1. d = b => i = 1  BY <1>4, <2>1
    <3>. QED  BY <2>1, <3>1
  <2>2. CASE b # i
    BY <1>2, <2>2
  <2>. QED  BY <2>1, <2>2
<1>11. ~IsDigit(s, d - 1)
  <2>1. CASE d = b
    <3>1. CASE b = 1  BY <1>1, <2>1, <3>1 DEF IsDigit
    <3>2. CASE b - 1 \in i .. b - 1  BY <1>5, <2>1, <3>2
    <3>. QED  BY <1>10, <2>1, <3>1, <3>2
  <2>2. CASE d = b + 1 /\ IsSign(s, b)
    <3>1. d - 1 = b /\ b \in DOMAIN s  BY <1>1, <1>2, <2>2
    <3>. QED  BY <1>3, <2>2, <3>1
  <2>. QED  BY <1>4, <2>1, <2>2
<1>12. s[b] = "-" <=> d - 1 \in DOMAIN s /\ s[d - 1] = "-"
  <2>1. CASE d = b
    <3>1. s[b] # "-"
      BY <1>4, <2>1, DigitIs DEF IsDigit
    <3>2. d - 1 \in DOMAIN s => s[d - 1] # "-"
      <4>1. SUFFICES ASSUME d - 1 \in DOMAIN s, IsSign(s, d - 1) PROVE FALSE
        BY DigitIs DEF IsSign
      <4>2. b - 1 \in i .. b - 1  BY <1>1, <1>10, <2>1, <4>1
      <4>3. b - 1 + 1 = b  BY <1>2
      <4>4. Begins(s, b - 1)  BY <1>4, <2>1, <4>1, <4>3 DEF Begins
      <4>. QED  BY <1>2, <4>2, <4>4
    <3>. QED  BY <3>1, <3>2
  <2>2. CASE d = b + 1 /\ IsSign(s, b)
    <3>1. d - 1 = b /\ b \in DOMAIN s  BY <1>1, <1>2, <2>2
    <3>. QED  BY <3>1
  <2>. QED  BY <1>4, <2>1, <2>2
<1>. QED  BY <1>2, <1>4, <1>6, <1>7, <1>9, <1>11, <1>12

-----------------------------------------------------------------------------
(* Runs and their meaning *)

LEMMA PlacesAre ==
    ASSUME NEW s \in Seq(Char), NEW r \in Runs(s)
    PROVE  /\ Places(s, r) \in [Nat -> Int]
           /\ r[1] \in 1 .. Len(s) /\ r[2] \in 1 .. Len(s) /\ r[1] <= r[2]
           /\ r = <<r[1], r[2]>>
           /\ Meaning(s, r) \in Int
<1>1. Len(s) \in Nat /\ DOMAIN s = 1 .. Len(s)
  BY LenProperties
<1>2. r \in (DOMAIN s) \X (DOMAIN s) /\ r[1] <= r[2] /\ \A k \in r[1] .. r[2] : IsDigit(s, k)
  BY DEF Runs
<1>3. ASSUME NEW k \in r[1] .. r[2] PROVE Digit[s[k]] * Ten[r[2] - k] \in Int
  <2>1. Digit[s[k]] \in Int  BY <1>2, DigitIs DEF IsDigit
  <2>2. r[2] - k \in Nat  BY <1>1, <1>2
  <2>3. Ten[r[2] - k] \in Int  BY <2>2, TenIs
  <2>. QED  BY <2>1, <2>3
<1>4. Places(s, r) \in [Nat -> Int]
  BY <1>3 DEF Places
<1>5. Total(Places(s, r))[r[2]] \in Int
  <2>1. r[2] \in Nat  BY <1>1, <1>2
  <2>. QED  BY <1>4, <2>1, TotalIs
<1>6. Meaning(s, r) \in Int
  BY <1>5 DEF Meaning
<1>. QED  BY <1>1, <1>2, <1>4, <1>6

\* Two runs that touch are one.
LEMMA RunsApart ==
    ASSUME NEW s \in Seq(Char), NEW q \in Runs(s), NEW r \in Runs(s),
           q[2] \in r[1] .. r[2]
    PROVE  q = r
<1>1. /\ q[1] \in Nat /\ q[2] \in Nat /\ q[1] <= q[2] /\ q = <<q[1], q[2]>>
      /\ r[1] \in Nat /\ r[2] \in Nat /\ r[1] <= r[2] /\ r = <<r[1], r[2]>>
  <2>1. \A x \in Runs(s) :
           x[1] \in 1 .. Len(s) /\ x[2] \in 1 .. Len(s) /\ x[1] <= x[2] /\ x = <<x[1], x[2]>>
    BY PlacesAre
  <2>. QED  BY <2>1
<1>2. /\ \A k \in q[1] .. q[2] : IsDigit(s, k)
      /\ ~IsDigit(s, q[1] - 1) /\ ~IsDigit(s, q[2] + 1)
      /\ \A k \in r[1] .. r[2] : IsDigit(s, k)
      /\ ~IsDigit(s, r[1] - 1) /\ ~IsDigit(s, r[2] + 1)
  BY DEF Runs
<1>3. q[2] = r[2]
  <2>1. q[2] + 1 \notin r[1] .. r[2]  BY <1>2
  <2>. QED  BY <1>1, <2>1
<1>4. q[1] = r[1]
  <2>1. q[1] - 1 \notin r[1] .. r[2]  BY <1>2
  <2>2. r[1] - 1 \notin q[1] .. q[2]  BY <1>2
  <2>. QED  BY <1>1, <1>3, <2>1, <2>2
<1>. QED  BY <1>1, <1>3, <1>4

\* Reading from the left and adding up from the right give the same.
LEMMA HornerIs ==
    ASSUME NEW s \in Seq(Char), NEW r \in Runs(s), NEW b \in Nat \ {0},
           b = r[1] \/ (b + 1 = r[1] /\ ~IsDigit(s, b))
    PROVE  Value(s, b)[r[2]] = Total(Places(s, r))[r[2]]
<1>. DEFINE d == r[1]
            z == r[2]
            v == Value(s, b)
            t == Total(Places(s, r))
            Ahead(n) == n < d => t[n] = 0
            Within(n) == d <= n + 1 /\ n <= z => t[n] = v[n] * Ten[z - n]
            P == {n \in Nat : Ahead(n) /\ Within(n)}
<1>1. /\ d \in Nat \ {0} /\ z \in Nat /\ d <= z
      /\ Places(s, r) \in [Nat -> Int]
  BY PlacesAre
<1>2. \A k \in d .. z : IsDigit(s, k)
  BY DEF Runs
<1>3. /\ v \in [Nat -> Int] /\ v[d - 1] = 0
      /\ \A n \in Nat : d <= n + 1 /\ n + 1 <= z => v[n + 1] = 10 * v[n] + Digit[s[n + 1]]
  <2>1. d - 1 \in Nat /\ (d - 1 < b \/ ~IsDigit(s, d - 1))
    <3>1. CASE b = d  BY <1>1, <3>1
    <3>2. CASE b + 1 = d /\ ~IsDigit(s, b)
      <4>1. d - 1 = b  BY <1>1, <3>2
      <4>. QED  BY <3>2, <4>1
    <3>. QED  BY <3>1, <3>2
  <2>2. \A n \in Nat : d <= n + 1 /\ n + 1 <= z => n + 1 >= b /\ IsDigit(s, n + 1)
    BY <1>1, <1>2
  <2>. QED  BY <2>1, <2>2, ValueIs
<1>4. /\ t \in [Nat -> Int] /\ t[0] = 0
      /\ \A n \in Nat : t[n + 1] = t[n] + Places(s, r)[n + 1]
  BY <1>1, TotalIs
<1>5. \A n \in Nat : n + 1 < d => Places(s, r)[n + 1] = 0
  BY <1>1 DEF Places
<1>6. \A n \in Nat : d <= n + 1 /\ n + 1 <= z =>
        Places(s, r)[n + 1] = Digit[s[n + 1]] * Ten[z - (n + 1)]
  BY <1>1 DEF Places
<1>. HIDE DEF d, z, v, t
<1>7. 0 \in P
  <2>1. Ahead(0)  BY <1>4
  <2>2. Within(0)
    <3>1. SUFFICES ASSUME d <= 1 PROVE t[0] = v[0] * Ten[z - 0]  OBVIOUS
    <3>2. d - 1 = 0 /\ z - 0 \in Nat  BY <1>1, <3>1
    <3>3. v[0] = 0 /\ Ten[z - 0] \in Int  BY <1>3, <3>2, TenIs
    <3>4. v[0] * Ten[z - 0] = 0  BY <3>3
    <3>. QED  BY <1>4, <3>4
  <2>. QED  BY <2>1, <2>2
<1>8. ASSUME NEW n \in P PROVE n + 1 \in P
  <2>1. n \in Nat /\ n + 1 \in Nat  OBVIOUS
  <2>2. Ahead(n + 1)
    <3>1. SUFFICES ASSUME n + 1 < d PROVE t[n + 1] = 0  OBVIOUS
    <3>2. t[n] = 0  BY <1>1, <3>1
    <3>3. Places(s, r)[n + 1] = 0  BY <1>5, <2>1, <3>1
    <3>4. t[n + 1] = t[n] + Places(s, r)[n + 1]  BY <1>4, <2>1
    <3>. QED  BY <3>2, <3>3, <3>4
  <2>3. Within(n + 1)
    <3>1. SUFFICES ASSUME d <= n + 1 + 1, n + 1 <= z
                   PROVE  t[n + 1] = v[n + 1] * Ten[z - (n + 1)]
      OBVIOUS
    <3>2. CASE d = n + 1 + 1
      <4>1. t[n + 1] = 0  BY <1>1, <2>1, <2>2, <3>2
      <4>2. d - 1 = n + 1 /\ z - (n + 1) \in Nat  BY <1>1, <2>1, <3>1, <3>2
      <4>3. v[n + 1] = 0 /\ Ten[z - (n + 1)] \in Int  BY <1>3, <4>2, TenIs
      <4>. QED  BY <4>1, <4>3
    <3>3. CASE d <= n + 1
      <4>. DEFINE x == Ten[z - (n + 1)]
                  c == Digit[s[n + 1]]
      <4>1. n <= z /\ z - (n + 1) \in Nat /\ z - n = z - (n + 1) + 1
        BY <1>1, <2>1, <3>1
      <4>2. x \in Int /\ Ten[z - n] = 10 * x
        BY <4>1, TenIs
      <4>3. t[n] = v[n] * (10 * x)
        BY <3>3, <4>1, <4>2
      <4>4. t[n + 1] = t[n] + c * x /\ v[n + 1] = 10 * v[n] + c
        BY <1>3, <1>4, <1>6, <2>1, <3>1, <3>3
      <4>5. v[n] \in Int /\ c \in Int
        <5>1. IsDigit(s, n + 1)  BY <1>2, <2>1, <3>1, <3>3 DEF d, z
        <5>2. c \in Int  BY <5>1, DigitIs DEF IsDigit
        <5>3. v[n] \in Int  BY <1>3, <2>1
        <5>. QED  BY <5>2, <5>3
      <4>. HIDE DEF x, c
      <4>6. \A p, q \in Int : p * (10 * x) + q * x = (10 * p + q) * x
        BY <4>2
      <4>7. t[n + 1] = v[n + 1] * x
        BY <4>3, <4>4, <4>5, <4>6
      <4>. QED  BY <4>7 DEF x
    <3>. QED  BY <1>1, <2>1, <3>1, <3>2, <3>3
  <2>. QED  BY <2>1, <2>2, <2>3
<1>. HIDE DEF P
<1>9. P = Nat
  <2>1. P \subseteq Nat  BY DEF P
  <2>. QED  BY <1>7, <1>8, <2>1, Induction
<1>10. t[z] = v[z] * Ten[z - z]
  <2>1. z \in P  BY <1>1, <1>9
  <2>2. d <= z + 1 /\ z <= z  BY <1>1
  <2>. QED  BY <2>1, <2>2 DEF P
<1>11. t[z] = v[z]
  <2>1. z - z = 0 /\ v[z] \in Int /\ Ten[0] = 1  BY <1>1, <1>3, TenIs
  <2>2. v[z] * 1 = v[z]  BY <2>1
  <2>. QED  BY <1>10, <2>1, <2>2
<1>. QED  BY <1>11 DEF t, v, z

\* What stoi reads in a match is what the run in it means.
LEMMA StoiIs ==
    ASSUME NEW s \in Seq(Char), NEW i \in 1 .. Len(s) + 1, i # 1 => ~IsDigit(s, i),
           Search(s, i) <= Len(s),
           NEW b, b = Search(s, i), NEW d, d = FirstDigit(s, i), NEW e, e = Run(s, d)
    PROVE  /\ <<d, e - 1>> \in Runs(s)
           /\ Stoi(s, b, e) = Meaning(s, <<d, e - 1>>)
<1>1. Len(s) \in Nat /\ DOMAIN s = 1 .. Len(s)
  BY LenProperties
<1>2. /\ b \in i .. Len(s) /\ d \in b .. Len(s) /\ e \in d + 1 .. Len(s) + 1
      /\ \A k \in i .. d - 1 : ~IsDigit(s, k)
      /\ \A k \in d .. e - 1 : IsDigit(s, k)
      /\ ~IsDigit(s, d - 1) /\ ~IsDigit(s, e)
      /\ s[b] = "-" <=> d - 1 \in DOMAIN s /\ s[d - 1] = "-"
  BY MatchIs
<1>. DEFINE r == <<d, e - 1>>
<1>3. d \in DOMAIN s /\ e - 1 \in DOMAIN s /\ d <= e - 1 /\ e - 1 + 1 = e
  BY <1>1, <1>2
<1>4. r \in Runs(s)
  BY <1>2, <1>3 DEF Runs
<1>5. b \in Nat \ {0} /\ (b = d \/ (b + 1 = d /\ ~IsDigit(s, b)))
  <2>1. d = b \/ d = b + 1
    BY DEF FirstDigit
  <2>2. d = b + 1 => b \in i .. d - 1
    BY <1>1, <1>2
  <2>. QED  BY <1>1, <1>2, <2>1, <2>2
<1>6. r[1] = d /\ r[2] = e - 1
  OBVIOUS
<1>. HIDE DEF r
<1>7. Value(s, b)[r[2]] = Total(Places(s, r))[r[2]]
  BY <1>4, <1>5, <1>6, HornerIs
<1>8. Stoi(s, b, e) = Meaning(s, r)
  BY <1>2, <1>6, <1>7 DEF Stoi, Meaning
<1>. QED  BY <1>4, <1>8 DEF r

-----------------------------------------------------------------------------
(* Sums *)

LEMMA TotalFlat ==
    ASSUME NEW F \in [Nat -> Int], NEW p \in Nat, NEW q \in Nat, p <= q,
           \A k \in p + 1 .. q : F[k] = 0
    PROVE  Total(F)[q] = Total(F)[p]
<1>. DEFINE P == {n \in Nat : p <= n /\ n <= q => Total(F)[n] = Total(F)[p]}
<1>1. 0 \in P
  OBVIOUS
<1>2. ASSUME NEW n \in P PROVE n + 1 \in P
  <2>1. n \in Nat /\ n + 1 \in Nat  OBVIOUS
  <2>2. SUFFICES ASSUME p <= n + 1, n + 1 <= q PROVE Total(F)[n + 1] = Total(F)[p]
    BY <2>1
  <2>3. CASE p = n + 1  BY <2>3
  <2>4. CASE p # n + 1
    <3>1. p <= n /\ n <= q /\ n + 1 \in p + 1 .. q  BY <2>1, <2>2, <2>4
    <3>2. Total(F)[n] = Total(F)[p] /\ F[n + 1] = 0  BY <3>1
    <3>3. Total(F)[n + 1] = Total(F)[n] + F[n + 1] /\ Total(F)[n] \in Int
      BY <2>1, TotalIs
    <3>. QED  BY <3>2, <3>3
  <2>. QED  BY <2>3, <2>4
<1>. HIDE DEF P
<1>3. P = Nat
  <2>1. P \subseteq Nat  BY DEF P
  <2>. QED  BY <1>1, <1>2, <2>1, Induction
<1>. QED  BY <1>3 DEF P

LEMMA NumbersAre ==
    ASSUME NEW s \in Seq(Char)
    PROVE  /\ Numbers(s) \in [Nat -> Int]
           /\ \A r \in Runs(s) : Numbers(s)[r[2]] = Meaning(s, r)
           /\ \A k \in Nat : (\A r \in Runs(s) : r[2] # k) => Numbers(s)[k] = 0
<1>. DEFINE RunTo(k) == CHOOSE r \in Runs(s) : r[2] = k
<1>1. ASSUME NEW r \in Runs(s) PROVE r[2] \in Nat /\ RunTo(r[2]) = r
  <2>1. r[2] \in Nat /\ r[2] \in r[1] .. r[2]  BY PlacesAre
  <2>. DEFINE q == RunTo(r[2])
  <2>2. q \in Runs(s) /\ q[2] = r[2]  OBVIOUS
  <2>. HIDE DEF q
  <2>3. q = r  BY <2>1, <2>2, RunsApart
  <2>. QED  BY <2>1, <2>3 DEF q
<1>2. \A r \in Runs(s) : Meaning(s, r) \in Int
  BY PlacesAre
<1>3. ASSUME NEW k \in Nat, \E r \in Runs(s) : r[2] = k PROVE Meaning(s, RunTo(k)) \in Int
  <2>1. PICK r \in Runs(s) : r[2] = k  BY <1>3
  <2>2. RunTo(k) = r  BY <1>1, <2>1
  <2>. QED  BY <1>2, <2>2
<1>4. \A r \in Runs(s) : \E q \in Runs(s) : q[2] = r[2]
  OBVIOUS
<1>5. Numbers(s) = [k \in Nat |-> IF \E r \in Runs(s) : r[2] = k THEN Meaning(s, RunTo(k)) ELSE 0]
  BY DEF Numbers
<1>. HIDE DEF RunTo
<1>6. Numbers(s) \in [Nat -> Int]
  BY <1>3, <1>5
<1>7. ASSUME NEW r \in Runs(s) PROVE Numbers(s)[r[2]] = Meaning(s, r)
  <2>1. Numbers(s)[r[2]] = Meaning(s, RunTo(r[2]))  BY <1>1, <1>4, <1>5
  <2>. QED  BY <1>1, <2>1
<1>8. ASSUME NEW k \in Nat, \A r \in Runs(s) : r[2] # k PROVE Numbers(s)[k] = 0
  BY <1>5, <1>8
<1>. QED  BY <1>6, <1>7, <1>8

\* The sum stays where no run ends, and a run adds what it means.
LEMMA SumStays ==
    ASSUME NEW s \in Seq(Char), NEW p \in Nat, NEW q \in Nat, p <= q,
           \A r \in Runs(s) : r[2] \notin p + 1 .. q
    PROVE  SumTo(s, q) = SumTo(s, p)
<1>1. ASSUME NEW k \in p + 1 .. q PROVE Numbers(s)[k] = 0
  <2>1. k \in Nat /\ \A r \in Runs(s) : r[2] # k  OBVIOUS
  <2>. QED  BY <2>1, NumbersAre
<1>. DEFINE F == Numbers(s)
<1>2. F \in [Nat -> Int] /\ \A k \in p + 1 .. q : F[k] = 0
  BY <1>1, NumbersAre
<1>. HIDE DEF F
<1>3. Total(F)[q] = Total(F)[p]
  BY <1>2, TotalFlat
<1>. QED  BY <1>3 DEF SumTo, F

LEMMA SumIs ==
    ASSUME NEW s \in Seq(Char), NEW n \in Nat
    PROVE  SumTo(s, n) \in Int
BY NumbersAre, TotalIs DEF SumTo

LEMMA SumGrows ==
    ASSUME NEW s \in Seq(Char), NEW i \in 1 .. Len(s) + 1, NEW r \in Runs(s), i <= r[1],
           \A k \in i .. r[1] - 1 : ~IsDigit(s, k)
    PROVE  SumTo(s, r[2]) = SumTo(s, i - 1) + Meaning(s, r)
<1>1. /\ r[1] \in 1 .. Len(s) /\ r[2] \in 1 .. Len(s) /\ r[1] <= r[2] /\ Len(s) \in Nat
      /\ Meaning(s, r) \in Int
  BY PlacesAre, LenProperties
<1>2. i - 1 \in Nat /\ r[2] - 1 \in Nat /\ i - 1 <= r[2] - 1 /\ r[2] - 1 + 1 = r[2] /\ i - 1 + 1 = i
  BY <1>1
<1>3. ASSUME NEW q \in Runs(s) PROVE q[2] \notin i .. r[2] - 1
  <2>1. SUFFICES ASSUME q[2] \in i .. r[2] - 1 PROVE FALSE  OBVIOUS
  <2>2. q[1] \in Nat /\ q[2] \in Nat /\ q[1] <= q[2]
    <3>1. \A x \in Runs(s) : x[1] \in 1 .. Len(s) /\ x[2] \in 1 .. Len(s) /\ x[1] <= x[2]
      BY PlacesAre
    <3>. QED  BY <3>1
  <2>3. IsDigit(s, q[2])  BY <2>2 DEF Runs
  <2>4. q[2] \in r[1] .. r[2]  BY <1>1, <2>1, <2>2, <2>3
  <2>5. q = r  BY <2>4, RunsApart
  <2>. QED  BY <1>1, <2>1, <2>5
<1>4. SumTo(s, r[2] - 1) = SumTo(s, i - 1)
  <2>1. \A q \in Runs(s) : q[2] \notin i - 1 + 1 .. r[2] - 1  BY <1>2, <1>3
  <2>. DEFINE p == i - 1
              z == r[2] - 1
  <2>2. p \in Nat /\ z \in Nat /\ p <= z /\ \A q \in Runs(s) : q[2] \notin p + 1 .. z
    BY <1>2, <2>1
  <2>. HIDE DEF p, z
  <2>3. SumTo(s, z) = SumTo(s, p)  BY <2>2, SumStays
  <2>. QED  BY <2>3 DEF p, z
<1>5. SumTo(s, r[2]) = SumTo(s, r[2] - 1) + Numbers(s)[r[2]]
  <2>. DEFINE F == Numbers(s)
              z == r[2] - 1
  <2>1. F \in [Nat -> Int] /\ z \in Nat  BY <1>2, NumbersAre
  <2>. HIDE DEF F, z
  <2>2. Total(F)[z + 1] = Total(F)[z] + F[z + 1]  BY <2>1, TotalIs
  <2>3. z + 1 = r[2]  BY <1>2 DEF z
  <2>. QED  BY <2>2, <2>3 DEF F, z, SumTo
<1>. QED  BY <1>4, <1>5, NumbersAre

-----------------------------------------------------------------------------
(* The arithmetic of int *)

LEMMA NoMultiple ==
    ASSUME NEW m \in Nat \ {0}, NEW k \in Int, -m < m * k, m * k < m
    PROVE  k = 0
<1>1. k >= 1 => m * k >= m  OBVIOUS
<1>2. k <= -1 => m * k <= -m  OBVIOUS
<1>. QED  BY <1>1, <1>2

LEMMA ModIs ==
    ASSUME NEW m \in Nat \ {0}, NEW x \in Int
    PROVE  (x % m) \in 0 .. m - 1 /\ x \div m \in Int /\ x = m * (x \div m) + (x % m)
OBVIOUS

LEMMA ModAdds ==
    ASSUME NEW m \in Nat \ {0}, NEW x \in Int, NEW y \in Int
    PROVE  ((x % m) + y) % m = (x + y) % m
<1>. DEFINE u == (x % m) + y
            p == x \div m
            q == u \div m
            t == (x + y) \div m
            a == u % m
            b == (x + y) % m
<1>1. (x % m) \in 0 .. m - 1 /\ p \in Int /\ x = m * p + (x % m)
  BY ModIs
<1>2. u \in Int
  BY <1>1
<1>3. a \in 0 .. m - 1 /\ q \in Int /\ u = m * q + a
  <2>. HIDE DEF u
  <2>. QED  BY <1>2, ModIs
<1>4. b \in 0 .. m - 1 /\ t \in Int /\ x + y = m * t + b
  <2>1. x + y \in Int  OBVIOUS
  <2>2. \A w \in Int : (w % m) \in 0 .. m - 1 /\ w \div m \in Int /\ w = m * (w \div m) + (w % m)
    BY ModIs
  <2>. QED  BY <2>1, <2>2
<1>5. m * p + (m * q + a) = m * t + b
  <2>1. m * p + u = x + y
    BY <1>1
  <2>. HIDE DEF u, p, q, t, a, b
  <2>. QED  BY <1>3, <1>4, <2>1
<1>. HIDE DEF u, p, q, t, a, b
<1>6. m * (p + q - t) = b - a
  BY <1>1, <1>3, <1>4, <1>5
<1>7. p + q - t \in Int /\ -m < b - a /\ b - a < m
  BY <1>1, <1>3, <1>4
<1>8. p + q - t = 0
  BY <1>6, <1>7, NoMultiple
<1>9. a = b
  BY <1>1, <1>3, <1>4, <1>5, <1>8
<1>. QED  BY <1>9 DEF a, b, u

LEMMA ToIntIs ==
    /\ \A n \in Int : ToInt(n) \in MinInt .. MaxInt
    /\ \A n, k \in Int : ToInt(ToInt(n) + k) = ToInt(n + k)
    /\ \A n \in MinInt .. MaxInt : ToInt(n) = n
    /\ 0 \in MinInt .. MaxInt
<1>. DEFINE m == 2 * Half
<1>0. Half \in Nat \ {0}
  BY MessageAssumption
<1>1. m \in Nat \ {0} /\ m = Half + Half
  BY <1>0
<1>. HIDE DEF m
<1>2. \A n \in Int : ToInt(n) = ((n + Half) % m) - Half
  BY DEF ToInt, m
<1>3. \A n \in Int : ((n + Half) % m) \in 0 .. m - 1
  <2>1. \A x \in Int : (x % m) \in 0 .. m - 1  BY <1>1, ModIs
  <2>. QED  BY <1>0, <2>1
<1>4. \A n \in Int : ToInt(n) \in MinInt .. MaxInt
  BY <1>0, <1>1, <1>2, <1>3 DEF MinInt, MaxInt
<1>5. ASSUME NEW n \in Int, NEW k \in Int PROVE ToInt(ToInt(n) + k) = ToInt(n + k)
  <2>. DEFINE x == n + Half
  <2>1. x \in Int /\ (x % m) \in Int  BY <1>0, <1>3
  <2>2. ToInt(n) + k + Half = (x % m) + k
    BY <1>0, <1>2, <2>1
  <2>3. ToInt(n) + k \in Int /\ n + k \in Int /\ n + k + Half = x + k
    BY <1>0, <1>2, <2>1
  <2>4. ((x % m) + k) % m = (x + k) % m
    <3>. HIDE DEF x
    <3>. QED  BY <1>1, <2>1, ModAdds
  <2>. QED  BY <1>2, <2>2, <2>3, <2>4
<1>6. ASSUME NEW n \in MinInt .. MaxInt PROVE ToInt(n) = n
  <2>. DEFINE x == n + Half
  <2>1. n \in Int /\ x \in 0 .. m - 1
    BY <1>0, <1>1 DEF MinInt, MaxInt
  <2>2. ToInt(n) = (x % m) - Half  BY <1>2, <2>1
  <2>3. x = n + Half  OBVIOUS
  <2>. HIDE DEF x
  <2>4. (x % m) = x
    <3>0. x \in Int  BY <1>1, <2>1
    <3>1. (x % m) \in 0 .. m - 1 /\ x \div m \in Int /\ x = m * (x \div m) + (x % m)
      BY <1>1, <3>0, ModIs
    <3>2. -m < m * (x \div m) /\ m * (x \div m) < m
      <4>1. ASSUME NEW d \in Int, NEW r \in 0 .. m - 1, x = d + r
            PROVE  -m < d /\ d < m
        BY <1>1, <2>1, <4>1
      <4>2. m * (x \div m) \in Int  BY <1>1, <3>1
      <4>. QED  BY <3>1, <4>1, <4>2
    <3>3. x \div m = 0
      BY <1>1, <3>1, <3>2, NoMultiple
    <3>. QED  BY <1>1, <2>1, <3>1, <3>3
  <2>. QED  BY <1>0, <2>1, <2>2, <2>3, <2>4
<1>7. 0 \in MinInt .. MaxInt  BY <1>0 DEF MinInt, MaxInt
<1>. QED  BY <1>4, <1>5, <1>6, <1>7

-----------------------------------------------------------------------------
(* The loop *)

LEMMA InitLoop == Init => LoopInv
<1>. SUFFICES ASSUME Init PROVE LoopInv  OBVIOUS
<1>1. text \in Seq(Char) /\ Len(text) \in Nat
  BY MessageAssumption, LenProperties DEF Init
<1>2. SumTo(text, 0) = 0
  BY <1>1, NumbersAre, TotalIs DEF SumTo
<1>3. at = 1 /\ value = ToInt(SumTo(text, at - 1))
  BY <1>2, ToIntIs DEF Init
<1>4. ASSUME NEW r \in Runs(text) PROVE ~(r[2] < at)
  <2>1. r[2] \in 1 .. Len(text)  BY <1>1, PlacesAre
  <2>. QED  BY <1>1, <1>3, <2>1
<1>5. TypeOK
  <2>1. 0 \in MinInt .. MaxInt  BY MessageAssumption DEF MinInt, MaxInt
  <2>2. at \in 1 .. Len(text) + 1  BY <1>1 DEF Init
  <2>. QED  BY <2>1, <2>2, Zenon DEF Init, TypeOK
<1>. QED  BY <1>3, <1>4, <1>5 DEF Init, LoopInv

\* The round that finds a match: what it reads is a number of the text, and the
\* numbers before the end of the match are that and those before.
LEMMA MoreIs ==
    ASSUME LoopInv, More, NEW r, r = <<FirstDigit(text, at), End - 1>>
    PROVE  /\ r \in Runs(text) /\ Number = Meaning(text, r) /\ Number \in Int
           /\ End \in 1 .. Len(text) + 1 /\ ~IsDigit(text, End)
           /\ SumTo(text, End - 1) = SumTo(text, at - 1) + Number
           /\ \A q \in Runs(text) : q[2] < End => q[2] < at \/ q = r
<1>1. /\ text \in Seq(Char) /\ Len(text) \in Nat /\ DOMAIN text = 1 .. Len(text)
      /\ at \in 1 .. Len(text) + 1 /\ (at # 1 => ~IsDigit(text, at))
      /\ Search(text, at) <= Len(text)
  BY MessageAssumption, LenProperties DEF LoopInv, TypeOK, More, Begin
<1>. DEFINE b == Begin
            d == FirstDigit(text, at)
            e == End
<1>2. b = Search(text, at) /\ d = FirstDigit(text, at) /\ e = Run(text, d)
  BY DEF Begin, End, FirstDigit
<1>3. r = <<d, e - 1>>
  OBVIOUS
<1>. HIDE DEF b, d, e
<1>4. /\ b \in at .. Len(text) /\ d \in b .. Len(text) /\ e \in d + 1 .. Len(text) + 1
      /\ \A k \in at .. d - 1 : ~IsDigit(text, k)
      /\ ~IsDigit(text, e)
  BY <1>1, <1>2, MatchIs
<1>5. r \in Runs(text) /\ Stoi(text, b, e) = Meaning(text, r)
  BY <1>1, <1>2, <1>3, StoiIs
<1>6. Number = Meaning(text, r) /\ Number \in Int
  BY <1>1, <1>5, PlacesAre DEF Number, b, e
<1>7. r[1] = d /\ r[2] = e - 1
  BY <1>3
<1>8. SumTo(text, r[2]) = SumTo(text, at - 1) + Meaning(text, r)
  <2>1. at <= r[1] /\ \A k \in at .. r[1] - 1 : ~IsDigit(text, k)
    BY <1>1, <1>4, <1>7
  <2>. QED  BY <1>1, <1>5, <2>1, SumGrows
<1>9. ASSUME NEW q \in Runs(text), q[2] < e, ~(q[2] < at) PROVE q = r
  <2>1. q[1] \in Nat /\ q[2] \in Nat /\ q[1] <= q[2]
    <3>1. \A x \in Runs(text) :
            x[1] \in 1 .. Len(text) /\ x[2] \in 1 .. Len(text) /\ x[1] <= x[2]
      BY <1>1, PlacesAre
    <3>. QED  BY <1>1, <3>1
  <2>2. IsDigit(text, q[2])  BY <2>1 DEF Runs
  <2>3. q[2] \in r[1] .. r[2]  BY <1>1, <1>4, <1>7, <1>9, <2>1, <2>2
  <2>. QED  BY <1>1, <1>5, <2>3, RunsApart
<1>10. e \in 1 .. Len(text) + 1
  BY <1>1, <1>4
<1>. QED  BY <1>4, <1>5, <1>6, <1>7, <1>8, <1>9, <1>10 DEF e

LEMMA AddStep ==
    ASSUME LoopInv, Add
    PROVE  LoopInv'
<1>. DEFINE r == <<FirstDigit(text, at), End - 1>>
<1>1. /\ r \in Runs(text) /\ Number = Meaning(text, r) /\ Number \in Int
      /\ End \in 1 .. Len(text) + 1 /\ ~IsDigit(text, End)
      /\ SumTo(text, End - 1) = SumTo(text, at - 1) + Number
      /\ \A q \in Runs(text) : q[2] < End => q[2] < at \/ q = r
  BY MoreIs DEF Add
<1>. HIDE DEF r
<1>2. /\ text' = text /\ at' = End /\ isFound' = TRUE /\ answer' = answer /\ answer = "none"
      /\ value' = ToInt(value + Number)
  BY DEF Add, More
<1>3. value' = ToInt(SumTo(text, End - 1)) /\ value' \in MinInt .. MaxInt
  <2>1. text \in Seq(Char) /\ at - 1 \in Nat
    BY MessageAssumption, LenProperties DEF LoopInv, TypeOK
  <2>2. SumTo(text, at - 1) \in Int  BY <2>1, SumIs
  <2>3. value = ToInt(SumTo(text, at - 1))  BY DEF LoopInv
  <2>4. value' = ToInt(SumTo(text, at - 1) + Number)  BY <1>1, <1>2, <2>2, <2>3, ToIntIs
  <2>5. SumTo(text, at - 1) + Number \in Int  BY <1>1, <2>2
  <2>. QED  BY <1>1, <2>4, <2>5, ToIntIs
<1>4. TypeOK'
  BY <1>1, <1>2, <1>3 DEF TypeOK, LoopInv
<1>5. IsInt(text, r)
  BY <1>1 DEF Add, IsInt
<1>6. \A q \in Runs(text) : q[2] < End => IsInt(text, q)
  BY <1>1, <1>5 DEF LoopInv
<1>. QED  BY <1>1, <1>2, <1>3, <1>4, <1>6 DEF LoopInv

LEMMA ThrowStep ==
    ASSUME LoopInv, Throw
    PROVE  LoopInv'
<1>. DEFINE r == <<FirstDigit(text, at), End - 1>>
<1>1. r \in Runs(text) /\ ~IsInt(text, r)
  <2>1. r \in Runs(text) /\ Number = Meaning(text, r)  BY MoreIs DEF Throw
  <2>. HIDE DEF r
  <2>. QED  BY <2>1 DEF Throw, IsInt
<1>. HIDE DEF r
<1>2. UNCHANGED <<text, at, value>> /\ isFound' = TRUE /\ answer' = "throw"
  BY DEF Throw
<1>3. TypeOK'
  BY <1>2 DEF LoopInv, TypeOK
<1>. QED  BY <1>1, <1>2, <1>3 DEF LoopInv

LEMMA FinishStep ==
    ASSUME LoopInv, Finish
    PROVE  LoopInv'
<1>1. /\ UNCHANGED <<text, at, isFound, value>>
      /\ answer' = IF isFound THEN "sum" ELSE "echo"
  BY DEF Finish
<1>2. Begin > Len(text)
  <2>1. text \in Seq(Char) /\ Len(text) \in Nat /\ at \in 1 .. Len(text) + 1
    BY MessageAssumption, LenProperties DEF LoopInv, TypeOK
  <2>2. Begin \in at .. Len(text) + 1  BY <2>1, SearchIs DEF Begin
  <2>. QED  BY <2>1, <2>2 DEF Finish, More
<1>3. TypeOK'
  BY <1>1 DEF LoopInv, TypeOK
<1>. QED  BY <1>1, <1>2, <1>3 DEF LoopInv, Begin

LEMMA LoopStutter ==
    ASSUME LoopInv, UNCHANGED vars
    PROVE  LoopInv'
BY DEF LoopInv, TypeOK, vars, Begin

\* After every round the numbers before at have been summed in the arithmetic of
\* int, for every text and every width.
THEOREM LoopInvariant == Spec => []LoopInv
<1>1. LoopInv /\ [Next]_vars => LoopInv'
  BY AddStep, ThrowStep, FinishStep, LoopStutter DEF Next
<1>. QED  BY <1>1, InitLoop, PTL DEF Spec

\* Every variable keeps its shape; in particular the sum stays an int.
THEOREM MessageTypes == Spec => []TypeOK
<1>1. LoopInv => TypeOK  BY DEF LoopInv
<1>. QED  BY <1>1, LoopInvariant, PTL

\* When nothing more is found, all numbers are behind.
LEMMA AllBehind ==
    ASSUME LoopInv, Begin > Len(text)
    PROVE  /\ \A r \in Runs(text) : r[2] < at
           /\ Sum(text) = SumTo(text, at - 1)
<1>1. text \in Seq(Char) /\ Len(text) \in Nat /\ at \in 1 .. Len(text) + 1
  BY MessageAssumption, LenProperties DEF LoopInv, TypeOK
<1>2. ASSUME NEW k \in at .. Len(text) PROVE ~IsDigit(text, k)
  <2>1. /\ Search(text, at) \in at .. Len(text) + 1 /\ Search(text, at) > Len(text)
        /\ \A j \in at .. Search(text, at) - 1 : ~Begins(text, j)
    BY <1>1, SearchIs DEF Begin
  <2>2. k \in at .. Search(text, at) - 1  BY <1>1, <2>1
  <2>. QED  BY <2>1, <2>2 DEF Begins
<1>3. ASSUME NEW r \in Runs(text) PROVE r[2] < at
  <2>1. r[1] \in 1 .. Len(text) /\ r[2] \in 1 .. Len(text) /\ r[1] <= r[2]
    BY <1>1, PlacesAre
  <2>2. IsDigit(text, r[2])  BY <2>1 DEF Runs
  <2>. QED  BY <1>1, <1>2, <2>1, <2>2
<1>4. SumTo(text, Len(text)) = SumTo(text, at - 1)
  <2>. DEFINE p == at - 1
  <2>1. /\ p \in Nat /\ p <= Len(text)
        /\ \A r \in Runs(text) : r[2] \notin p + 1 .. Len(text)
    BY <1>1, <1>3
  <2>. HIDE DEF p
  <2>2. SumTo(text, Len(text)) = SumTo(text, p)  BY <1>1, <2>1, SumStays
  <2>. QED  BY <2>2 DEF p
<1>. QED  BY <1>3, <1>4 DEF Sum

LEMMA AnswersFollow ==
    ASSUME LoopInv
    PROVE  SumOfNumbers /\ EchoWithoutNumbers /\ ThrowsOnlyForNoInt
<1>1. text \in Seq(Char) /\ answer \in {"none", "sum", "echo", "throw"}
  BY MessageAssumption DEF LoopInv, TypeOK
<1>2. ASSUME answer \in {"sum", "echo"}
      PROVE  /\ \A r \in Runs(text) : r[2] < at /\ IsInt(text, r)
             /\ Sum(text) = SumTo(text, at - 1)
             /\ answer = "sum" <=> isFound
  <2>1. Begin > Len(text) /\ (answer = "sum" <=> isFound)  BY <1>2 DEF LoopInv
  <2>2. /\ \A r \in Runs(text) : r[2] < at
        /\ Sum(text) = SumTo(text, at - 1)
    BY <2>1, AllBehind
  <2>. QED  BY <2>1, <2>2 DEF LoopInv
<1>3. SumOfNumbers
  <2>. SUFFICES ASSUME answer = "sum", SumsAreInts(text)
                PROVE  Runs(text) # {} /\ value = Sum(text)
    BY DEF SumOfNumbers
  <2>1. Runs(text) # {} /\ value = ToInt(Sum(text))
    BY <1>2 DEF LoopInv
  <2>2. Len(text) \in 0 .. Len(text)  BY <1>1, LenProperties
  <2>3. Sum(text) \in MinInt .. MaxInt  BY <2>2 DEF SumsAreInts, Sum
  <2>. QED  BY <2>1, <2>3, ToIntIs
<1>4. CASE answer = "echo"
  <2>1. at = 1  BY <1>2, <1>4 DEF LoopInv
  <2>2. ASSUME NEW r \in Runs(text) PROVE FALSE
    <3>1. r[2] \in 1 .. Len(text) /\ r[2] < 1  BY <1>1, <1>2, <1>4, <2>1, PlacesAre
    <3>. QED  BY <1>1, <3>1, LenProperties
  <2>. QED  BY <1>3, <1>4, <2>2 DEF EchoWithoutNumbers, ThrowsOnlyForNoInt
<1>5. CASE answer = "sum"
  BY <1>2, <1>3, <1>5 DEF LoopInv, EchoWithoutNumbers, ThrowsOnlyForNoInt
<1>6. CASE answer = "throw"
  BY <1>3, <1>6 DEF LoopInv, EchoWithoutNumbers, ThrowsOnlyForNoInt
<1>7. CASE answer = "none"
  BY <1>3, <1>7 DEF EchoWithoutNumbers, ThrowsOnlyForNoInt
<1>. QED  BY <1>1, <1>4, <1>5, <1>6, <1>7

\* The answer to a text with numbers whose sums are ints is their sum: none is
\* skipped, read twice, cut or joined with its neighbour.
THEOREM AnswerIsTheSum == Spec => []SumOfNumbers
<1>1. LoopInv => SumOfNumbers  BY AnswersFollow
<1>. QED  BY <1>1, LoopInvariant, PTL

\* A text comes back as it is exactly if there is no number in it.
THEOREM EchoIsExact == Spec => []EchoWithoutNumbers
<1>1. LoopInv => EchoWithoutNumbers  BY AnswersFollow
<1>. QED  BY <1>1, LoopInvariant, PTL

\* The exception that ends the server is thrown only for a text with a number that
\* is no int.
THEOREM ThrowIsForNoInt == Spec => []ThrowsOnlyForNoInt
<1>1. LoopInv => ThrowsOnlyForNoInt  BY AnswersFollow
<1>. QED  BY <1>1, LoopInvariant, PTL
=============================================================================
