----------------------------- MODULE Ids_proofs -----------------------------
(***************************************************************************)
(* An id leads back to what it was made for, for words of every width,     *)
(* references of every length and integers of every size.                  *)
(*                                                                         *)
(* The coders are recursive functions, so every fact about one is an       *)
(* induction.  The library states induction and recursion with operators   *)
(* as parameters, which the provers cannot instantiate; here both are      *)
(* stated with sets and functions, from the least element of a set of      *)
(* numbers.  A section per coder follows: its equation (..Def), then what  *)
(* it computes; last, what the bot holds at each step.                     *)
(***************************************************************************)
EXTENDS FileIds, InlineIds, WellFoundedInduction, TLAPS

-----------------------------------------------------------------------------
(***************************************************************************)
(* Induction, for sets: what holds of an element when it holds of those of *)
(* a smaller measure holds of all.                                         *)
(***************************************************************************)
LEMMA LeastNumber ==
  ASSUME NEW T, T \subseteq Nat, T # {}
  PROVE  \E x \in T : \A y \in T : x <= y
<1> DEFINE Less == {p \in Nat \X Nat : p[1] < p[2]}
<1>1. IsWellFoundedOn(Less, Nat)
  BY NatLessThanWellFounded DEF OpToRel
<1>2. PICK x \in T : \A y \in T : ~(<<y, x>> \in Less)
  <2> HIDE DEF Less
  <2> QED BY <1>1, WFMin
<1>3. ASSUME NEW y \in T
      PROVE  x <= y
  <2>1. <<y, x>> \in Nat \X Nat /\ <<y, x>>[1] = y /\ <<y, x>>[2] = x
    OBVIOUS
  <2>2. ~(y < x)
    BY <1>2, <2>1
  <2> QED BY <2>2
<1> QED BY <1>2, <1>3

Inherited(S, m, Good) ==
  \A x \in S : (\A y \in S : m[y] < m[x] => y \in Good) => x \in Good

LEMMA ByMeasure ==
  ASSUME NEW S, NEW m \in [S -> Nat], NEW Good, Inherited(S, m, Good)
  PROVE  S \subseteq Good
<1> DEFINE Bad == {m[x] : x \in S \ Good}
<1> SUFFICES ASSUME Bad # {} PROVE FALSE
  OBVIOUS
<1>1. PICK n \in Bad : \A k \in Bad : n <= k
  <2>1. Bad \subseteq Nat
    OBVIOUS
  <2> HIDE DEF Bad
  <2> QED BY <2>1, LeastNumber
<1>2. PICK x \in S \ Good : n = m[x]
  BY <1>1
<1>3. ASSUME NEW y \in S, m[y] < m[x], y \notin Good
      PROVE  FALSE
  <2>1. m[y] \in Bad /\ m[y] \in Nat /\ m[x] \in Nat
    BY <1>3
  <2>2. n <= m[y]
    BY <1>1, <2>1
  <2> HIDE DEF Bad
  <2> QED BY <1>2, <1>3, <2>1, <2>2
<1> QED BY <1>2, <1>3 DEF Inherited

LEMMA ByNumber ==
  ASSUME NEW Good, \A n \in Nat : (\A k \in Nat : k < n => k \in Good) => n \in Good
  PROVE  Nat \subseteq Good
<1> DEFINE m == [n \in Nat |-> n]
<1>1. m \in [Nat -> Nat]
  OBVIOUS
<1>2. Inherited(Nat, m, Good)
  BY DEF Inherited
<1> HIDE DEF m
<1> QED BY <1>1, <1>2, ByMeasure

LEMMA ByLength ==
  ASSUME NEW T, NEW Good,
         \A b \in Seq(T) : (\A c \in Seq(T) : Len(c) < Len(b) => c \in Good) => b \in Good
  PROVE  Seq(T) \subseteq Good
<1> DEFINE m == [b \in Seq(T) |-> Len(b)]
<1>1. m \in [Seq(T) -> Nat]
  OBVIOUS
<1>2. Inherited(Seq(T), m, Good)
  BY DEF Inherited
<1> HIDE DEF m
<1> QED BY <1>1, <1>2, ByMeasure

-----------------------------------------------------------------------------
(***************************************************************************)
(* Recursion.  A definition that reduces an argument to one of smaller     *)
(* measure defines a function.                                             *)
(***************************************************************************)
Below(S, m, n) == {x \in S : m[x] < n}

Solves(f, X, Base, base, prev, join) ==
  \A x \in X : f[x] = IF x \in Base THEN base[x] ELSE join[<<x, f[prev[x]]>>]

LEMMA SolutionsAgree ==
  ASSUME NEW S, NEW m \in [S -> Nat], NEW Base, NEW base, NEW prev, NEW join,
         \A x \in S \ Base : prev[x] \in S /\ m[prev[x]] < m[x],
         NEW n \in Nat, NEW k \in Nat, NEW f, NEW g,
         Solves(f, Below(S, m, n), Base, base, prev, join),
         Solves(g, Below(S, m, k), Base, base, prev, join),
         n <= k
  PROVE  \A x \in Below(S, m, n) : f[x] = g[x]
<1> DEFINE Good == {x \in S : x \in Below(S, m, n) => f[x] = g[x]}
<1>1. ASSUME NEW x \in S, \A y \in S : m[y] < m[x] => y \in Good
      PROVE  x \in Good
  <2> SUFFICES ASSUME x \in Below(S, m, n) PROVE f[x] = g[x]
    OBVIOUS
  <2>1. x \in Below(S, m, k)
    BY DEF Below
  <2>2. CASE x \in Base
    BY <2>1, <2>2 DEF Solves
  <2>3. CASE x \notin Base
    <3>1. prev[x] \in S /\ m[prev[x]] < m[x] /\ prev[x] \in Below(S, m, n)
      BY <2>3 DEF Below
    <3>2. f[prev[x]] = g[prev[x]]
      BY <1>1, <3>1
    <3> QED BY <2>1, <2>3, <3>2 DEF Solves
  <2> QED BY <2>2, <2>3
<1> HIDE DEF Good
<1>2. S \subseteq Good
  BY <1>1, ByMeasure DEF Inherited
<1> QED BY <1>2 DEF Good, Below

LEMMA RecursionDefines ==
  ASSUME NEW S, NEW T, NEW m \in [S -> Nat], NEW Base,
         NEW base, \A x \in Base : base[x] \in T,
         NEW prev, \A x \in S \ Base : prev[x] \in S /\ m[prev[x]] < m[x],
         NEW join, \A x \in S \ Base : \A y \in T : join[<<x, y>>] \in T
  PROVE  \E f \in [S -> T] : Solves(f, S, Base, base, prev, join)
<1> DEFINE Partial(n, h) == /\ h \in [Below(S, m, n) -> T]
                         /\ Solves(h, Below(S, m, n), Base, base, prev, join)
           Good == {n \in Nat : \E h : Partial(n, h)}
<1>1. ASSUME NEW n \in Nat, \A k \in Nat : k < n => k \in Good
      PROVE  n \in Good
  <2>1. CASE n = 0
    <3> DEFINE h == [x \in {} |-> x]
    <3>1. Below(S, m, 0) = {}
      BY DEF Below
    <3>2. h \in [{} -> T]
      OBVIOUS
    <3>3. Partial(0, h)
      BY <3>1, <3>2 DEF Solves
    <3> QED BY <2>1, <3>3
  <2>2. CASE n # 0
    <3>1. PICK h : Partial(n - 1, h)
      BY <1>1, <2>2
    <3> DEFINE g == [x \in Below(S, m, n) |->
                       IF x \in Base THEN base[x] ELSE join[<<x, h[prev[x]]>>]]
    <3>2. \A x \in Below(S, m, n) \ Base : prev[x] \in Below(S, m, n - 1) /\ prev[x] \in Below(S, m, n)
      BY <2>2 DEF Below
    <3>3. g \in [Below(S, m, n) -> T]
      BY <3>1, <3>2 DEF Below
    <3>4. \A x \in Below(S, m, n - 1) : g[x] = h[x]
      <4>1. \A x \in Below(S, m, n - 1) : x \in Below(S, m, n)
        BY <2>2 DEF Below
      <4> QED BY <3>1, <4>1 DEF Solves
    <3>5. Solves(g, Below(S, m, n), Base, base, prev, join)
      BY <3>2, <3>4 DEF Solves
    <3> QED BY <3>3, <3>5
  <2> QED BY <2>1, <2>2
<1>2. Nat \subseteq Good
  <2> HIDE DEF Good
  <2> QED BY <1>1, ByNumber
<1> DEFINE H(n) == CHOOSE h : Partial(n, h)
           f == [x \in S |-> H(m[x] + 1)[x]]
<1>3. \A n \in Nat : Partial(n, H(n))
  <2> SUFFICES ASSUME NEW n \in Nat PROVE Partial(n, H(n))
    OBVIOUS
  <2>1. \E h : Partial(n, h)
    BY <1>2
  <2> HIDE DEF Part
  <2> QED BY <2>1
<1> HIDE DEF H
<1>4. \A x \in S : m[x] + 1 \in Nat /\ x \in Below(S, m, m[x] + 1)
  BY DEF Below
<1>5. f \in [S -> T]
  BY <1>3, <1>4
<1>6. ASSUME NEW x \in S
      PROVE  f[x] = IF x \in Base THEN base[x] ELSE join[<<x, f[prev[x]]>>]
  <2>1. f[x] = IF x \in Base THEN base[x] ELSE join[<<x, H(m[x] + 1)[prev[x]]>>]
    BY <1>3, <1>4 DEF Solves
  <2>2. CASE x \in Base
    BY <2>1, <2>2
  <2>3. CASE x \notin Base
    <3> DEFINE y == prev[x]
    <3>1. y \in S /\ m[y] + 1 <= m[x] + 1 /\ m[y] \in Nat /\ m[x] \in Nat
      BY <2>3
    <3>2. Solves(H(m[y] + 1), Below(S, m, m[y] + 1), Base, base, prev, join)
      BY <1>3, <3>1
    <3>3. Solves(H(m[x] + 1), Below(S, m, m[x] + 1), Base, base, prev, join)
      BY <1>3, <3>1
    <3>4. H(m[y] + 1)[y] = H(m[x] + 1)[y]
      <4>1. y \in Below(S, m, m[y] + 1)
        BY <1>4, <3>1
      <4> HIDE DEF y
      <4> QED BY <3>1, <3>2, <3>3, <4>1, SolutionsAgree
    <3>5. f[y] = H(m[y] + 1)[y]
      BY <3>1
    <3> QED BY <2>1, <2>3, <3>4, <3>5
  <2> QED BY <2>2, <2>3
<1> QED BY <1>5, <1>6 DEF Solves

-----------------------------------------------------------------------------
(* The recursive functions of the model are what their definitions say.    *)

LEMMA PowerDef ==
  /\ Power \in [Nat -> Nat]
  /\ Power[0] = 1
  /\ \A k \in Nat : Power[k + 1] = Radix * Power[k]
<1> DEFINE m == [k \in Nat |-> k]
           Base == {0}
           base == [k \in Nat |-> 1]
           prev == [k \in Nat |-> k - 1]
           join == [p \in Nat \X Nat |-> Radix * p[2]]
           Is(g) == g = [k \in Nat |-> IF k = 0 THEN 1 ELSE Radix * g[k - 1]]
<1>1. PICK f \in [Nat -> Nat] : Solves(f, Nat, Base, base, prev, join)
  <2>1. /\ m \in [Nat -> Nat]
        /\ \A k \in Base : base[k] \in Nat
        /\ \A k \in Nat \ Base : prev[k] \in Nat /\ m[prev[k]] < m[k]
    OBVIOUS
  <2>2. \A k \in Nat \ Base : \A y \in Nat : join[<<k, y>>] \in Nat
    BY FileIdsAssumption
  <2> HIDE DEF m, Base, base, prev, join
  <2> QED BY <2>1, <2>2, RecursionDefines
<1>2. Is(f)
  <2>1. ASSUME NEW k \in Nat
        PROVE  f[k] = IF k = 0 THEN 1 ELSE Radix * f[k - 1]
    <3>1. CASE k = 0
      BY <1>1, <3>1 DEF Solves
    <3>2. CASE k # 0
      <4>1. f[k] = join[<<k, f[k - 1]>>]
        BY <1>1, <3>2 DEF Solves
      <4> QED BY <3>2, <4>1
    <3> QED BY <3>1, <3>2
  <2> QED BY <2>1
<1>3. Is(Power)
  <2>1. Power = CHOOSE g : Is(g)
    BY DEF Power
  <2> HIDE DEF Is
  <2> QED BY <1>2, <2>1
<1>4. \A k \in Nat : Power[k] = IF k = 0 THEN 1 ELSE Radix * Power[k - 1]
  BY <1>3
<1>5. \A k \in Nat : Power[k] \in Nat
  <2> DEFINE Good == {k \in Nat : Power[k] \in Nat}
  <2>1. ASSUME NEW n \in Nat, \A k \in Nat : k < n => k \in Good
        PROVE  n \in Good
    BY <1>4, <2>1, FileIdsAssumption
  <2> HIDE DEF Good
  <2>2. Nat \subseteq Good
    BY <2>1, ByNumber
  <2> QED BY <2>2 DEF Good
<1>6. Power \in [Nat -> Nat]
  <2>1. Power = [k \in Nat |-> Power[k]]
    BY <1>3
  <2> QED BY <1>5, <2>1
<1>7. \A k \in Nat : Power[k + 1] = Radix * Power[k]
  BY <1>4
<1> QED BY <1>4, <1>6, <1>7

LEMMA TailSeq ==
  ASSUME NEW T, NEW b \in Seq(T), b # <<>>
  PROVE  /\ Len(b) \in Nat \ {0} /\ Head(b) \in T /\ Head(b) = b[1]
         /\ Tail(b) \in Seq(T) /\ Len(Tail(b)) = Len(b) - 1
         /\ \A i \in 1..(Len(b) - 1) : Tail(b)[i] = b[i + 1]
OBVIOUS

LEMMA SameSeq ==
  ASSUME NEW T, NEW s \in Seq(T), NEW t \in Seq(T), Len(s) = Len(t),
         \A i \in 1..Len(s) : s[i] = t[i]
  PROVE  s = t
OBVIOUS

LEMMA TwoLong ==
  ASSUME NEW T, NEW b \in Seq(T), b # <<>>, Len(b) # 1
  PROVE  Len(b) >= 2
<1>1. PICK n \in Nat : n = Len(b)
  OBVIOUS
<1>2. n # 0
  BY <1>1
<1> QED BY <1>1, <1>2

LEMMA RestSeq ==
  ASSUME NEW T, NEW b \in Seq(T), NEW k \in 0..Len(b)
  PROVE  /\ SubSeq(b, k + 1, Len(b)) \in Seq(T)
         /\ Len(SubSeq(b, k + 1, Len(b))) = Len(b) - k
         /\ \A i \in 1..(Len(b) - k) : SubSeq(b, k + 1, Len(b))[i] = b[k + i]
OBVIOUS

LEMMA FrontSeq ==
  ASSUME NEW T, NEW b \in Seq(T), NEW k \in 0..Len(b)
  PROVE  /\ SubSeq(b, 1, k) \in Seq(T)
         /\ Len(SubSeq(b, 1, k)) = k
         /\ \A i \in 1..k : SubSeq(b, 1, k)[i] = b[i]
OBVIOUS

LEMMA ByteTail ==
  ASSUME NEW b \in Seq(Byte), b # <<>>
  PROVE  /\ Len(b) \in Nat \ {0} /\ Head(b) \in Byte /\ Head(b) \in Nat /\ Head(b) = b[1]
         /\ Tail(b) \in Seq(Byte) /\ Len(Tail(b)) = Len(b) - 1 /\ Len(Tail(b)) < Len(b)
         /\ \A i \in 1..(Len(b) - 1) : Tail(b)[i] = b[i + 1]
<1>1. Head(b) \in Byte /\ Tail(b) \in Seq(Byte)
  OBVIOUS
<1>2. Head(b) \in Nat
  BY <1>1 DEF Byte
<1> QED BY <1>1, <1>2, TailSeq

LEMMA ValueDef ==
  /\ \A b \in Seq(Byte) : Value[b] \in Nat
  /\ \A b \in Seq(Byte) : Value[b] = IF b = <<>> THEN 0 ELSE Head(b) + Radix * Value[Tail(b)]
<1> DEFINE m == [b \in Seq(Byte) |-> Len(b)]
           Base == {<<>>}
           base == [b \in Seq(Byte) |-> 0]
           prev == [b \in Seq(Byte) |-> Tail(b)]
           join == [p \in Seq(Byte) \X Nat |-> Head(p[1]) + Radix * p[2]]
           Is(g) == g = [b \in Seq(Byte) |-> IF b = <<>> THEN 0 ELSE Head(b) + Radix * g[Tail(b)]]
<1>1. PICK f \in [Seq(Byte) -> Nat] : Solves(f, Seq(Byte), Base, base, prev, join)
  <2>1. /\ m \in [Seq(Byte) -> Nat]
        /\ \A b \in Base : base[b] \in Nat
    OBVIOUS
  <2>2. \A b \in Seq(Byte) \ Base : prev[b] \in Seq(Byte) /\ m[prev[b]] < m[b]
    BY TailSeq
  <2>3. ASSUME NEW b \in Seq(Byte) \ Base, NEW y \in Nat
        PROVE  join[<<b, y>>] \in Nat
    <3>1. Head(b) \in Nat
      BY ByteTail
    <3>2. Radix * y \in Nat
      BY FileIdsAssumption
    <3>3. join[<<b, y>>] = Head(b) + Radix * y
      OBVIOUS
    <3> QED BY <3>1, <3>2, <3>3
  <2> HIDE DEF m, Base, base, prev, join
  <2> QED BY <2>1, <2>2, <2>3, RecursionDefines
<1>2. Is(f)
  <2>1. ASSUME NEW b \in Seq(Byte)
        PROVE  f[b] = IF b = <<>> THEN 0 ELSE Head(b) + Radix * f[Tail(b)]
    <3>1. CASE b = <<>>
      BY <1>1, <3>1 DEF Solves
    <3>2. CASE b # <<>>
      <4>1. f[b] = join[<<b, f[Tail(b)]>>]
        BY <1>1, <3>2 DEF Solves
      <4>2. f[Tail(b)] \in Nat
        BY <3>2, TailSeq
      <4> QED BY <3>2, <4>1, <4>2
    <3> QED BY <3>1, <3>2
  <2> QED BY <2>1
<1>3. Is(Value)
  <2>1. Value = CHOOSE g : Is(g)
    BY DEF Value
  <2> HIDE DEF Is
  <2> QED BY <1>2, <2>1
<1>4. \A b \in Seq(Byte) : Value[b] = IF b = <<>> THEN 0 ELSE Head(b) + Radix * Value[Tail(b)]
  BY <1>3
<1>5. \A b \in Seq(Byte) : Value[b] \in Nat
  <2> DEFINE Good == {b \in Seq(Byte) : Value[b] \in Nat}
  <2>1. ASSUME NEW b \in Seq(Byte), \A c \in Seq(Byte) : Len(c) < Len(b) => c \in Good
        PROVE  b \in Good
    <3>1. CASE b = <<>>
      <4>1. Value[b] = 0
        BY <1>4, <3>1
      <4> QED BY <4>1
    <3>2. CASE b # <<>>
      <4>1. Value[Tail(b)] \in Nat /\ Head(b) \in Nat
        <5>1. Tail(b) \in Good
          BY <2>1, <3>2, ByteTail
        <5> QED BY <3>2, <5>1, ByteTail
      <4>2. Radix * Value[Tail(b)] \in Nat
        BY <4>1, FileIdsAssumption
      <4> QED BY <1>4, <3>2, <4>1, <4>2
    <3> QED BY <3>1, <3>2
  <2> HIDE DEF Good
  <2>2. Seq(Byte) \subseteq Good
    BY <2>1, ByLength
  <2> QED BY <2>2 DEF Good
<1> QED BY <1>4, <1>5

(* Runs of zeros.                                                          *)
LEMMA ZeroRunIs ==
  ASSUME NEW b \in Seq(Byte), b # <<>>, Head(b) = 0
  PROVE  /\ ZeroRun(b) \in 1..Len(b) /\ ZeroRun(b) < Radix
         /\ \A i \in 1..ZeroRun(b) : b[i] = 0
<1> DEFINE T == {k \in 1..Len(b) : k = Radix - 1 \/ k = Len(b) \/ b[k + 1] # 0}
           Is(k) == /\ k < Radix
                    /\ \A i \in 1..k : b[i] = 0
                    /\ k < Radix - 1 /\ k < Len(b) => b[k + 1] # 0
<1>1. Len(b) \in Nat \ {0} /\ b[1] = 0
  BY TailSeq
<1>2. PICK k \in T : \A j \in T : k <= j
  <2>1. T \subseteq Nat /\ T # {}
    BY <1>1
  <2> HIDE DEF T
  <2> QED BY <2>1, LeastNumber
<1>3. ASSUME NEW i \in 1..k
      PROVE  b[i] = 0
  <2>1. CASE i = 1
    BY <1>1, <2>1
  <2>2. CASE i # 1
    <3>1. i - 1 \in 1..Len(b) /\ i - 1 < k /\ i - 1 # Len(b)
      BY <1>1, <2>2
    <3>2. i - 1 \notin T
      BY <1>2, <3>1
    <3> QED BY <3>1, <3>2
  <2> QED BY <2>1, <2>2
<1>4. k < Radix
  <2> SUFFICES ASSUME k >= Radix PROVE FALSE
    BY FileIdsAssumption
  <2>1. Radix - 1 \in 1..Len(b) /\ ~(k <= Radix - 1)
    BY <1>1, FileIdsAssumption
  <2> QED BY <1>2, <2>1
<1>5. k \in 1..Len(b) /\ Is(k)
  BY <1>2, <1>3, <1>4
<1>6. ZeroRun(b) = CHOOSE j \in 1..Len(b) : Is(j)
  BY DEF ZeroRun
<1>7. ZeroRun(b) \in 1..Len(b) /\ Is(ZeroRun(b))
  <2> HIDE DEF Is
  <2> QED BY <1>5, <1>6
<1> QED BY <1>7

LEMMA ZeroIsByte == 0 \in Byte /\ \A k \in Nat : k < Radix => k \in Byte
BY FileIdsAssumption DEF Byte

(* What rleEncode has left after its next step.                            *)
Rest(b) == IF Head(b) # 0 THEN Tail(b) ELSE SubSeq(b, ZeroRun(b) + 1, Len(b))

LEMMA RestIsShorter ==
  ASSUME NEW b \in Seq(Byte), b # <<>>
  PROVE  Rest(b) \in Seq(Byte) /\ Len(Rest(b)) < Len(b)
<1>1. CASE Head(b) # 0
  BY <1>1, ByteTail DEF Rest
<1>2. CASE Head(b) = 0
  <2>1. ZeroRun(b) \in 0..Len(b) /\ ZeroRun(b) > 0
    BY <1>2, ZeroRunIs
  <2>2. Rest(b) = SubSeq(b, ZeroRun(b) + 1, Len(b))
    BY <1>2 DEF Rest
  <2> QED BY <2>1, <2>2, RestSeq
<1> QED BY <1>1, <1>2

LEMMA rleEncodeDef ==
  /\ \A b \in Seq(Byte) : rleEncode[b] \in Seq(Byte)
  /\ \A b \in Seq(Byte) :
       rleEncode[b] = IF b = <<>> THEN <<>>
                      ELSE IF Head(b) # 0 THEN <<Head(b)>> \o rleEncode[Tail(b)]
                      ELSE <<0, ZeroRun(b)>> \o rleEncode[SubSeq(b, ZeroRun(b) + 1, Len(b))]
<1> DEFINE m == [b \in Seq(Byte) |-> Len(b)]
           Base == {<<>>}
           base == [b \in Seq(Byte) |-> <<>>]
           prev == [b \in Seq(Byte) |-> Rest(b)]
           Begin(b) == IF Head(b) # 0 THEN <<Head(b)>> ELSE <<0, ZeroRun(b)>>
           join == [p \in Seq(Byte) \X Seq(Byte) |-> Begin(p[1]) \o p[2]]
           Body(g, b) == IF b = <<>> THEN <<>>
                         ELSE IF Head(b) # 0 THEN <<Head(b)>> \o g[Tail(b)]
                         ELSE <<0, ZeroRun(b)>> \o g[SubSeq(b, ZeroRun(b) + 1, Len(b))]
           Is(g) == g = [b \in Seq(Byte) |-> Body(g, b)]
<1>1. ASSUME NEW b \in Seq(Byte), b # <<>>
      PROVE  Begin(b) \in Seq(Byte)
  <2>1. CASE Head(b) # 0
    <3>1. Head(b) \in Byte
      BY <1>1, ByteTail
    <3> QED BY <2>1, <3>1
  <2>2. CASE Head(b) = 0
    <3>1. ZeroRun(b) \in Byte /\ 0 \in Byte
      BY <1>1, <2>2, ZeroRunIs, ZeroIsByte
    <3> QED BY <2>2, <3>1
  <2> QED BY <2>1, <2>2
<1>2. \A g : \A b \in Seq(Byte) : b # <<>> => Body(g, b) = Begin(b) \o g[Rest(b)]
  BY DEF Rest
<1>3. PICK f \in [Seq(Byte) -> Seq(Byte)] : Solves(f, Seq(Byte), Base, base, prev, join)
  <2>1. /\ m \in [Seq(Byte) -> Nat]
        /\ \A b \in Base : base[b] \in Seq(Byte)
    OBVIOUS
  <2>2. \A b \in Seq(Byte) \ Base : prev[b] \in Seq(Byte) /\ m[prev[b]] < m[b]
    BY RestIsShorter
  <2>3. ASSUME NEW b \in Seq(Byte) \ Base, NEW y \in Seq(Byte)
        PROVE  join[<<b, y>>] \in Seq(Byte)
    <3>1. Begin(b) \in Seq(Byte)
      BY <1>1
    <3> HIDE DEF Begin
    <3>2. join[<<b, y>>] = Begin(b) \o y
      OBVIOUS
    <3> QED BY <3>1, <3>2
  <2> HIDE DEF m, Base, base, prev, join
  <2> QED BY <2>1, <2>2, <2>3, RecursionDefines
<1>4. Is(f)
  <2>1. ASSUME NEW b \in Seq(Byte)
        PROVE  f[b] = Body(f, b)
    <3>1. CASE b = <<>>
      BY <1>3, <3>1 DEF Solves
    <3>2. CASE b # <<>>
      <4>1. f[b] = join[<<b, f[Rest(b)]>>]
        BY <1>3, <3>2 DEF Solves
      <4>2. f[Rest(b)] \in Seq(Byte)
        BY <3>2, RestIsShorter
      <4>3. Body(f, b) = Begin(b) \o f[Rest(b)]
        BY <1>2, <3>2
      <4> HIDE DEF Begin, Body
      <4> QED BY <4>1, <4>2, <4>3
    <3> QED BY <3>1, <3>2
  <2> HIDE DEF Body
  <2> QED BY <2>1
<1>5. Is(rleEncode)
  <2>1. rleEncode = CHOOSE g : Is(g)
    BY DEF rleEncode
  <2> HIDE DEF Is
  <2> QED BY <1>4, <2>1
<1>6. \A b \in Seq(Byte) : rleEncode[b] = Body(rleEncode, b)
  <2> HIDE DEF Body
  <2> QED BY <1>5
<1>7. \A b \in Seq(Byte) : rleEncode[b] \in Seq(Byte)
  <2> DEFINE Good == {b \in Seq(Byte) : rleEncode[b] \in Seq(Byte)}
  <2>1. ASSUME NEW b \in Seq(Byte), \A c \in Seq(Byte) : Len(c) < Len(b) => c \in Good
        PROVE  b \in Good
    <3>1. CASE b = <<>>
      BY <1>6, <3>1
    <3>2. CASE b # <<>>
      <4>1. Rest(b) \in Good
        BY <2>1, <3>2, RestIsShorter
      <4>2. rleEncode[b] = Begin(b) \o rleEncode[Rest(b)]
        BY <1>2, <1>6, <3>2
      <4>3. Begin(b) \in Seq(Byte)
        BY <1>1, <3>2
      <4>4. rleEncode[Rest(b)] \in Seq(Byte)
        BY <4>1
      <4>5. rleEncode[b] \in Seq(Byte)
        <5> HIDE DEF Begin, Good
        <5> QED BY <4>2, <4>3, <4>4
      <4> QED BY <4>5
    <3> QED BY <3>1, <3>2
  <2> HIDE DEF Good
  <2>2. Seq(Byte) \subseteq Good
    BY <2>1, ByLength
  <2> QED BY <2>2 DEF Good
<1> QED BY <1>6, <1>7

(* What rleDecode has left after its next step.                            *)
Unread(b) == IF Head(b) # 0 THEN Tail(b) ELSE SubSeq(b, 3, Len(b))

LEMMA UnreadIsShorter ==
  ASSUME NEW b \in Seq(Byte), b # <<>>, Head(b) # 0 \/ Len(b) # 1
  PROVE  Unread(b) \in Seq(Byte) /\ Len(Unread(b)) < Len(b)
<1>1. CASE Head(b) # 0
  BY <1>1, ByteTail DEF Unread
<1>2. CASE Head(b) = 0
  <2>1. Len(b) \in Nat /\ Len(b) >= 2
    <3>1. Len(b) # 1
      BY <1>2
    <3> QED BY <3>1, TwoLong
  <2>3. 2 \in 0..Len(b)
    BY <2>1
  <2>2. Unread(b) = SubSeq(b, 2 + 1, Len(b))
    BY <1>2 DEF Unread
  <2> QED BY <2>2, <2>3, RestSeq
<1> QED BY <1>1, <1>2

LEMMA rleDecodeDef ==
  /\ \A b \in Seq(Byte) : rleDecode[b] \in Seq(Byte)
  /\ \A b \in Seq(Byte) :
       rleDecode[b] = IF b = <<>> THEN <<>>
                      ELSE IF Head(b) # 0 THEN <<Head(b)>> \o rleDecode[Tail(b)]
                      ELSE IF Len(b) = 1 THEN <<0>>
                      ELSE [i \in 1..b[2] |-> 0] \o rleDecode[SubSeq(b, 3, Len(b))]
<1> DEFINE m == [b \in Seq(Byte) |-> Len(b)]
           Base == {b \in Seq(Byte) : b = <<>> \/ (Head(b) = 0 /\ Len(b) = 1)}
           base == [b \in Seq(Byte) |-> IF b = <<>> THEN <<>> ELSE <<0>>]
           prev == [b \in Seq(Byte) |-> Unread(b)]
           Begin(b) == IF Head(b) # 0 THEN <<Head(b)>> ELSE [i \in 1..b[2] |-> 0]
           join == [p \in Seq(Byte) \X Seq(Byte) |-> Begin(p[1]) \o p[2]]
           Body(g, b) == IF b = <<>> THEN <<>>
                         ELSE IF Head(b) # 0 THEN <<Head(b)>> \o g[Tail(b)]
                         ELSE IF Len(b) = 1 THEN <<0>>
                         ELSE [i \in 1..b[2] |-> 0] \o g[SubSeq(b, 3, Len(b))]
           Is(g) == g = [b \in Seq(Byte) |-> Body(g, b)]
<1>1. ASSUME NEW b \in Seq(Byte) \ Base
      PROVE  Begin(b) \in Seq(Byte)
  <2>1. CASE Head(b) # 0
    <3>1. Head(b) \in Byte
      BY <1>1, ByteTail
    <3> QED BY <2>1, <3>1
  <2>2. CASE Head(b) = 0
    <3>1. b[2] \in Byte
      <4>1. b # <<>> /\ Len(b) # 1
        BY <1>1, <2>2
      <4>2. Len(b) \in Nat /\ Len(b) >= 2
        BY <4>1, TwoLong
      <4>3. 2 \in 1..Len(b)
        BY <4>2
      <4> QED BY <4>3
    <3>2. b[2] \in Nat
      BY <3>1 DEF Byte
    <3> QED BY <2>2, <3>2, ZeroIsByte
  <2> QED BY <2>1, <2>2
<1>2. /\ \A g : \A b \in Seq(Byte) \ Base : Body(g, b) = Begin(b) \o g[Unread(b)]
      /\ \A g : \A b \in Base : Body(g, b) = base[b]
  BY DEF Unread
<1>3. PICK f \in [Seq(Byte) -> Seq(Byte)] : Solves(f, Seq(Byte), Base, base, prev, join)
  <2>1. /\ m \in [Seq(Byte) -> Nat]
        /\ \A b \in Base : base[b] \in Seq(Byte)
    BY ZeroIsByte
  <2>2. \A b \in Seq(Byte) \ Base : prev[b] \in Seq(Byte) /\ m[prev[b]] < m[b]
    BY UnreadIsShorter
  <2>3. ASSUME NEW b \in Seq(Byte) \ Base, NEW y \in Seq(Byte)
        PROVE  join[<<b, y>>] \in Seq(Byte)
    <3>1. Begin(b) \in Seq(Byte)
      BY <1>1
    <3> HIDE DEF Begin
    <3>2. join[<<b, y>>] = Begin(b) \o y
      OBVIOUS
    <3> QED BY <3>1, <3>2
  <2> HIDE DEF m, Base, base, prev, join
  <2> QED BY <2>1, <2>2, <2>3, RecursionDefines
<1>4. Is(f)
  <2>1. ASSUME NEW b \in Seq(Byte)
        PROVE  f[b] = Body(f, b)
    <3>1. CASE b \in Base
      BY <1>2, <1>3, <3>1 DEF Solves
    <3>2. CASE b \notin Base
      <4>1. f[b] = join[<<b, f[Unread(b)]>>]
        BY <1>3, <3>2 DEF Solves
      <4>2. f[Unread(b)] \in Seq(Byte)
        BY <3>2, UnreadIsShorter
      <4>3. Body(f, b) = Begin(b) \o f[Unread(b)]
        BY <1>2, <3>2
      <4> HIDE DEF Begin, Body
      <4> QED BY <4>1, <4>2, <4>3
    <3> QED BY <3>1, <3>2
  <2> HIDE DEF Body
  <2> QED BY <2>1
<1>5. Is(rleDecode)
  <2>1. rleDecode = CHOOSE g : Is(g)
    BY DEF rleDecode
  <2> HIDE DEF Is
  <2> QED BY <1>4, <2>1
<1>6. \A b \in Seq(Byte) : rleDecode[b] = Body(rleDecode, b)
  <2> HIDE DEF Body
  <2> QED BY <1>5
<1>7. \A b \in Seq(Byte) : rleDecode[b] \in Seq(Byte)
  <2> DEFINE Good == {b \in Seq(Byte) : rleDecode[b] \in Seq(Byte)}
  <2>1. ASSUME NEW b \in Seq(Byte), \A c \in Seq(Byte) : Len(c) < Len(b) => c \in Good
        PROVE  b \in Good
    <3>1. CASE b \in Base
      <4>1. base[b] \in Seq(Byte)
        BY <3>1, ZeroIsByte
      <4>2. rleDecode[b] = base[b]
        BY <1>2, <1>6, <3>1
      <4> HIDE DEF base
      <4> QED BY <4>1, <4>2
    <3>2. CASE b \notin Base
      <4>1. Unread(b) \in Good
        BY <2>1, <3>2, UnreadIsShorter
      <4>2. rleDecode[b] = Begin(b) \o rleDecode[Unread(b)]
        BY <1>2, <1>6, <3>2
      <4>3. Begin(b) \in Seq(Byte)
        BY <1>1, <3>2
      <4>4. rleDecode[Unread(b)] \in Seq(Byte)
        BY <4>1
      <4>5. rleDecode[b] \in Seq(Byte)
        <5> HIDE DEF Begin, Good
        <5> QED BY <4>2, <4>3, <4>4
      <4> QED BY <4>5
    <3> QED BY <3>1, <3>2
  <2> HIDE DEF Good
  <2>2. Seq(Byte) \subseteq Good
    BY <2>1, ByLength
  <2> QED BY <2>2 DEF Good
<1> QED BY <1>6, <1>7

-----------------------------------------------------------------------------
(* Runs of zeros.                                                          *)

LEMMA DecodeByte ==
  ASSUME NEW x \in Byte, x # 0, NEW s \in Seq(Byte)
  PROVE  rleDecode[<<x>> \o s] = <<x>> \o rleDecode[s]
<1>1. <<x>> \o s \in Seq(Byte) /\ <<x>> \o s # <<>> /\ Head(<<x>> \o s) = x /\ Tail(<<x>> \o s) = s
  OBVIOUS
<1> QED BY <1>1, rleDecodeDef

LEMMA DecodeRun ==
  ASSUME NEW k \in Byte, NEW s \in Seq(Byte)
  PROVE  rleDecode[<<0, k>> \o s] = [i \in 1..k |-> 0] \o rleDecode[s]
<1> DEFINE b == <<0, k>> \o s
<1>1. b \in Seq(Byte) /\ b # <<>> /\ Head(b) = 0 /\ Len(b) # 1 /\ b[2] = k
  BY ZeroIsByte
<1>2. SubSeq(b, 3, Len(b)) = s
  BY ZeroIsByte
<1> HIDE DEF b
<1>3. rleDecode[b] = [i \in 1..b[2] |-> 0] \o rleDecode[SubSeq(b, 3, Len(b))]
  BY <1>1, rleDecodeDef
<1> QED BY <1>1, <1>2, <1>3 DEF b

(* Decoding reverses encoding, whatever the runs.                          *)
LEMMA rleReversed == \A b \in Seq(Byte) : rleDecode[rleEncode[b]] = b
<1> DEFINE Good == {b \in Seq(Byte) : rleDecode[rleEncode[b]] = b}
<1>1. ASSUME NEW b \in Seq(Byte), \A c \in Seq(Byte) : Len(c) < Len(b) => c \in Good
      PROVE  b \in Good
  <2>1. CASE b = <<>>
    BY <2>1, rleEncodeDef, rleDecodeDef
  <2>2. CASE b # <<>> /\ Head(b) # 0
    <3>1. rleEncode[b] = <<Head(b)>> \o rleEncode[Tail(b)]
      BY <2>2, rleEncodeDef
    <3>2. rleDecode[rleEncode[Tail(b)]] = Tail(b) /\ rleEncode[Tail(b)] \in Seq(Byte)
      BY <1>1, <2>2, ByteTail, rleEncodeDef
    <3>3. rleDecode[rleEncode[b]] = <<Head(b)>> \o Tail(b)
      <4>1. Head(b) \in Byte
        BY <2>2, ByteTail
      <4> QED BY <2>2, <3>1, <3>2, <4>1, DecodeByte
    <3>4. <<Head(b)>> \o Tail(b) = b
      BY <2>2
    <3> QED BY <3>3, <3>4
  <2>3. CASE b # <<>> /\ Head(b) = 0
    <3> DEFINE k == ZeroRun(b)
               r == SubSeq(b, k + 1, Len(b))
    <3>1. k \in 1..Len(b) /\ k \in Byte /\ \A i \in 1..k : b[i] = 0
      BY <2>3, ZeroRunIs, ZeroIsByte
    <3> HIDE DEF k
    <3>2. k \in 0..Len(b) /\ k > 0 /\ k \in Nat /\ Len(b) \in Nat
      BY <3>1
    <3>3. r \in Seq(Byte) /\ Len(r) = Len(b) - k /\ \A i \in 1..(Len(b) - k) : r[i] = b[k + i]
      BY <3>2, RestSeq
    <3>4. rleEncode[b] = <<0, k>> \o rleEncode[r]
      BY <2>3, rleEncodeDef DEF k
    <3> HIDE DEF r
    <3>5. rleDecode[rleEncode[r]] = r /\ rleEncode[r] \in Seq(Byte)
      <4>1. Len(r) < Len(b)
        BY <3>2, <3>3
      <4> QED BY <1>1, <3>3, <4>1, rleEncodeDef
    <3>6. rleDecode[rleEncode[b]] = [i \in 1..k |-> 0] \o r
      BY <3>1, <3>4, <3>5, DecodeRun
    <3> DEFINE z == [i \in 1..k |-> 0]
    <3>7. z \in Seq(Byte) /\ Len(z) = k /\ \A i \in 1..k : z[i] = 0
      BY <3>2, ZeroIsByte
    <3> HIDE DEF z
    <3>8. z \o r \in Seq(Byte) /\ Len(z \o r) = Len(b)
      BY <3>2, <3>3, <3>7
    <3>9. ASSUME NEW i \in 1..Len(b)
          PROVE  (z \o r)[i] = b[i]
      <4>1. CASE i <= k
        BY <3>1, <3>2, <3>3, <3>7, <4>1
      <4>2. CASE i > k
        <5>1. i - k \in 1..(Len(b) - k) /\ k + (i - k) = i
          BY <3>2, <4>2
        <5>2. (z \o r)[i] = r[i - k]
          BY <3>2, <3>3, <3>7, <4>2
        <5> QED BY <3>3, <5>1, <5>2
      <4>3. i <= k \/ i > k
        BY <3>2
      <4> QED BY <4>1, <4>2, <4>3
    <3>10. z \o r = b
      <4> DEFINE zr == z \o r
      <4>1. zr \in Seq(Byte) /\ Len(zr) = Len(b) /\ \A i \in 1..Len(zr) : zr[i] = b[i]
        BY <3>8, <3>9
      <4> HIDE DEF zr
      <4>2. zr = b
        BY <4>1, SameSeq
      <4> QED BY <4>2 DEF zr
    <3> QED BY <3>6, <3>10 DEF z
  <2> QED BY <2>1, <2>2, <2>3
<1> HIDE DEF Good
<1>2. Seq(Byte) \subseteq Good
  BY <1>1, ByLength
<1> QED BY <1>2 DEF Good

-----------------------------------------------------------------------------
(* Words.                                                                  *)

LEMMA DivMod ==
  ASSUME NEW n \in Nat, NEW R \in Nat, R > 0
  PROVE  n \div R \in Nat /\ n % R \in 0..(R - 1) /\ n = R * (n \div R) + (n % R)
OBVIOUS

LEMMA ModOfLess ==
  ASSUME NEW n \in Nat, NEW R \in Nat, n < R
  PROVE  n % R = n
OBVIOUS

LEMMA DivModUnique ==
  ASSUME NEW q \in Nat, NEW R \in Nat, R > 0, NEW r \in 0..(R - 1)
  PROVE  (R * q + r) \div R = q /\ (R * q + r) % R = r
OBVIOUS

LEMMA DivTwice ==
  ASSUME NEW n \in Nat, NEW R \in Nat, R > 0, NEW P \in Nat, P > 0
  PROVE  n \div (R * P) = (n \div R) \div P
<1> DEFINE a == n \div R
           r == n % R
           c == a \div P
           d == a % P
<1>1. a \in Nat /\ r \in 0..(R - 1) /\ n = R * a + r
  BY DivMod
<1> HIDE DEF a, r
<1>2. c \in Nat /\ d \in 0..(P - 1) /\ a = P * c + d
  BY <1>1, DivMod
<1> HIDE DEF c, d
<1>3. n = (R * P) * c + (R * d + r)
  BY <1>1, <1>2
<1>4. R * d <= R * (P - 1) /\ R * (P - 1) = R * P - R
  BY <1>2
<1>5. R * P \in Nat /\ R * P > 0 /\ R * d \in Nat
  BY <1>2
<1>6. R * d + r \in 0..(R * P - 1)
  BY <1>1, <1>4, <1>5
<1> DEFINE M == R * P
           e == R * d + r
<1>7. M \in Nat /\ M > 0 /\ e \in 0..(M - 1) /\ n = M * c + e
  BY <1>3, <1>5, <1>6
<1> HIDE DEF M, e
<1>8. n \div M = c
  BY <1>2, <1>7, DivModUnique
<1> QED BY <1>8 DEF M, c, a

LEMMA PowerPositive == \A k \in Nat : Power[k] \in Nat /\ Power[k] > 0
<1> DEFINE Good == {k \in Nat : Power[k] > 0}
<1>1. ASSUME NEW n \in Nat, \A k \in Nat : k < n => k \in Good
      PROVE  n \in Good
  <2>1. CASE n = 0
    BY <2>1, PowerDef
  <2>2. CASE n # 0
    <3>1. n - 1 \in Nat /\ n - 1 < n /\ (n - 1) + 1 = n
      BY <2>2
    <3>2. Power[n - 1] \in Nat /\ Power[n - 1] > 0
      BY <1>1, <3>1, PowerDef
    <3>3. Power[n] = Radix * Power[n - 1]
      BY <3>1, PowerDef
    <3> QED BY <3>2, <3>3, FileIdsAssumption
  <2> QED BY <2>1, <2>2
<1> HIDE DEF Good
<1>2. Nat \subseteq Good
  BY <1>1, ByNumber
<1> QED BY <1>2, PowerDef DEF Good

LEMMA WordType ==
  ASSUME NEW n \in Nat, NEW w \in Nat
  PROVE  Word(n, w) \in Seq(Byte) /\ Len(Word(n, w)) = w
<1>1. ASSUME NEW i \in 1..w
      PROVE  (n \div Power[i - 1]) % Radix \in Byte
  <2>1. n \div Power[i - 1] \in Nat
    BY PowerPositive, DivMod
  <2> QED BY <2>1, DivMod, FileIdsAssumption DEF Byte
<1> QED BY <1>1 DEF Word

LEMMA WordTail ==
  ASSUME NEW n \in Nat, NEW w \in Nat
  PROVE  /\ Word(n, w + 1) # <<>> /\ Head(Word(n, w + 1)) = n % Radix
         /\ Tail(Word(n, w + 1)) = Word(n \div Radix, w)
<1> DEFINE b == Word(n, w + 1)
           t == Word(n \div Radix, w)
<1>1. n \div Radix \in Nat /\ n \div 1 = n
  BY DivMod, FileIdsAssumption
<1>2. b \in Seq(Byte) /\ Len(b) = w + 1 /\ t \in Seq(Byte) /\ Len(t) = w
  BY <1>1, WordType
<1>3. b[1] = n % Radix
  BY <1>1, PowerDef DEF Word
<1>4. ASSUME NEW i \in 1..w
      PROVE  b[i + 1] = t[i]
  <2>1. b[i + 1] = (n \div Power[i]) % Radix
    BY DEF Word
  <2>2. t[i] = ((n \div Radix) \div Power[i - 1]) % Radix
    BY DEF Word
  <2>3. Power[i] = Radix * Power[i - 1]
    <3>1. i - 1 \in Nat /\ (i - 1) + 1 = i
      OBVIOUS
    <3> QED BY <3>1, PowerDef
  <2>4. n \div Power[i] = (n \div Radix) \div Power[i - 1]
    <3>1. Power[i - 1] \in Nat /\ Power[i - 1] > 0
      BY PowerPositive
    <3>2. Radix \in Nat /\ Radix > 0
      BY FileIdsAssumption
    <3> QED BY <2>3, <3>1, <3>2, DivTwice
  <2> QED BY <2>1, <2>2, <2>4
<1> HIDE DEF b, t
<1>5. b # <<>> /\ Head(b) = b[1]
  BY <1>2
<1>6. Tail(b) \in Seq(Byte) /\ Len(Tail(b)) = w /\ \A i \in 1..w : Tail(b)[i] = b[i + 1]
  BY <1>2, <1>5, ByteTail
<1>7. Tail(b) = t
  BY <1>2, <1>4, <1>6
<1> QED BY <1>3, <1>5, <1>7 DEF b, t

(* A word is read as the number it was written for, if that fits.          *)
LEMMA WordValue ==
  ASSUME NEW w \in Nat, NEW n \in Nat, n < Power[w]
  PROVE  Value[Word(n, w)] = n
<1> DEFINE Good == {v \in Nat : \A k \in Nat : k < Power[v] => Value[Word(k, v)] = k}
<1>1. ASSUME NEW v \in Nat, \A u \in Nat : u < v => u \in Good
      PROVE  v \in Good
  <2> SUFFICES ASSUME NEW k \in Nat, k < Power[v]
               PROVE  Value[Word(k, v)] = k
    OBVIOUS
  <2>1. CASE v = 0
    <3>1. k = 0
      BY <2>1, PowerDef
    <3>2. Word(k, v) = <<>> /\ Word(k, v) \in Seq(Byte)
      BY <2>1, WordType
    <3> QED BY <3>1, <3>2, ValueDef
  <2>2. CASE v # 0
    <3> DEFINE u == v - 1
               q == k \div Radix
    <3>1. u \in Nat /\ u < v /\ v = u + 1
      BY <2>2
    <3>2. Radix \in Nat /\ Radix > 0 /\ Power[u] \in Nat /\ Power[v] = Radix * Power[u]
      BY <3>1, PowerDef, FileIdsAssumption
    <3>3. q \in Nat /\ k = Radix * q + (k % Radix) /\ k % Radix \in Nat
      BY <3>2, DivMod
    <3>4. q < Power[u]
      BY <3>2
    <3> HIDE DEF u, q
    <3>5. Value[Word(q, u)] = q
      BY <1>1, <3>1, <3>3, <3>4
    <3>6. Word(k, v) \in Seq(Byte)
      BY WordType
    <3>7. Word(k, v) # <<>> /\ Head(Word(k, v)) = k % Radix /\ Tail(Word(k, v)) = Word(q, u)
      BY <3>1, WordTail DEF q
    <3>8. Value[Word(k, v)] = (k % Radix) + Radix * q
      BY <3>5, <3>6, <3>7, ValueDef
    <3> QED BY <3>2, <3>3, <3>8
  <2> QED BY <2>1, <2>2
<1> HIDE DEF Good
<1>2. Nat \subseteq Good
  BY <1>1, ByNumber
<1> QED BY <1>2 DEF Good

LEMMA ValueBelow == \A b \in Seq(Byte) : Value[b] < Power[Len(b)]
<1> DEFINE Good == {b \in Seq(Byte) : Value[b] < Power[Len(b)]}
<1>1. ASSUME NEW b \in Seq(Byte), \A c \in Seq(Byte) : Len(c) < Len(b) => c \in Good
      PROVE  b \in Good
  <2>1. CASE b = <<>>
    <3>1. Value[b] = 0 /\ Len(b) = 0
      BY <2>1, ValueDef
    <3>2. Power[Len(b)] = 1
      BY <3>1, PowerDef
    <3>3. Value[b] < Power[Len(b)]
      BY <3>1, <3>2
    <3> QED BY <3>3
  <2>2. CASE b # <<>>
    <3> DEFINE n == Len(Tail(b))
               t == Value[Tail(b)]
               h == Head(b)
    <3>1. Tail(b) \in Seq(Byte) /\ n \in Nat /\ Len(b) = n + 1 /\ n < Len(b) /\ h \in Byte
      BY <2>2, ByteTail
    <3>2. t \in Nat /\ t < Power[n] /\ Power[n] \in Nat /\ Power[n + 1] = Radix * Power[n]
      BY <1>1, <3>1, ValueDef, PowerDef
    <3>3. Value[b] = h + Radix * t
      BY <2>2, ValueDef
    <3> HIDE DEF n, t, h
    <3>4. h \in 0..(Radix - 1) /\ Radix \in Nat /\ Radix > 0
      BY <3>1, FileIdsAssumption DEF Byte
    <3>5. Radix * t <= Radix * (Power[n] - 1) /\ Radix * (Power[n] - 1) = Radix * Power[n] - Radix
      BY <3>2, <3>4
    <3>6. Radix * t \in Nat /\ Radix * Power[n] \in Nat
      BY <3>2, <3>4
    <3>7. h + Radix * t < Radix * Power[n]
      BY <3>4, <3>5, <3>6
    <3> QED BY <3>1, <3>2, <3>3, <3>7
  <2> QED BY <2>1, <2>2
<1> HIDE DEF Good
<1>2. Seq(Byte) \subseteq Good
  BY <1>1, ByLength
<1> QED BY <1>2 DEF Good

-----------------------------------------------------------------------------
(* Layouts: words and what follows them.                                   *)

LEMMA Concat ==
  ASSUME NEW s \in Seq(Byte), NEW t \in Seq(Byte)
  PROVE  /\ s \o t \in Seq(Byte) /\ Len(s \o t) = Len(s) + Len(t)
         /\ Len(s) \in Nat /\ Len(t) \in Nat
         /\ \A i \in 1..Len(s) : (s \o t)[i] = s[i]
         /\ \A i \in 1..Len(t) : (s \o t)[Len(s) + i] = t[i]
OBVIOUS

LEMMA ConcatTwice ==
  ASSUME NEW r \in Seq(Byte), NEW s \in Seq(Byte), NEW t \in Seq(Byte)
  PROVE  (r \o s) \o t = r \o (s \o t)
OBVIOUS

(* r is s, which is m long, and then t, which is n long.                  *)
Joined(r, s, m, t, n) ==
  /\ r \in Seq(Byte) /\ Len(r) = m + n
  /\ \A i \in 1..m : r[i] = s[i]
  /\ \A i \in 1..n : r[m + i] = t[i]

LEMMA ConcatAt ==
  ASSUME NEW s \in Seq(Byte), NEW t \in Seq(Byte), NEW m, NEW n, m = Len(s), n = Len(t)
  PROVE  Joined(s \o t, s, m, t, n)
BY Concat DEF Joined

LEMMA SliceOf ==
  ASSUME NEW s \in Seq(Byte), NEW k \in Nat, NEW n \in Nat, k + n <= Len(s)
  PROVE  /\ Slice(s, k + 1, n) \in Seq(Byte) /\ Len(Slice(s, k + 1, n)) = n
         /\ \A i \in 1..n : Slice(s, k + 1, n)[i] = s[k + i]
BY DEF Slice

(* t, which is n long, lies in s after k bytes.                            *)
Lies(t, n, s, k) == k + n <= Len(s) /\ \A i \in 1..n : s[k + i] = t[i]

LEMMA SliceIs ==
  ASSUME NEW s \in Seq(Byte), NEW k \in Nat, NEW t \in Seq(Byte), NEW n \in Nat, n = Len(t),
         k + n <= Len(s), \A i \in 1..n : s[k + i] = t[i]
  PROVE  Slice(s, k + 1, n) = t
<1> DEFINE r == Slice(s, k + 1, n)
<1>1. r \in Seq(Byte) /\ Len(r) = n /\ \A i \in 1..n : r[i] = s[k + i]
  BY SliceOf
<1> HIDE DEF r
<1>2. r = t
  BY <1>1, SameSeq
<1> QED BY <1>2 DEF r

LEMMA SliceLies ==
  ASSUME NEW s \in Seq(Byte), NEW t \in Seq(Byte), NEW n, n = Len(t), NEW k \in Nat, Lies(t, n, s, k)
  PROVE  Slice(s, k + 1, n) = t
<1>1. n \in Nat
  OBVIOUS
<1> QED BY <1>1, SliceIs DEF Lies

Sized(s, n) == s \in Seq(Byte) /\ n \in Nat /\ n = Len(s)

(* Where the parts of four sequences and what follows them lie.            *)
Laid(s, a, A, b, B, c, C, d, D, e, E) ==
  /\ Sized(a, A) /\ Sized(b, B) /\ Sized(c, C) /\ Sized(d, D) /\ Sized(e, E)
  /\ s \in Seq(Byte) /\ Len(s) = A + B + C + D + E
  /\ \A i \in 1..A : s[i] = a[i]
  /\ \A i \in 1..B : s[A + i] = b[i]
  /\ \A i \in 1..C : s[A + B + i] = c[i]
  /\ \A i \in 1..D : s[A + B + C + i] = d[i]
  /\ \A i \in 1..E : s[A + B + C + D + i] = e[i]

LEMMA FiveParts ==
  ASSUME NEW a \in Seq(Byte), NEW b \in Seq(Byte), NEW c \in Seq(Byte), NEW d \in Seq(Byte),
         NEW e \in Seq(Byte),
         NEW A \in Nat, NEW B \in Nat, NEW C \in Nat, NEW D \in Nat, NEW E \in Nat,
         A = Len(a), B = Len(b), C = Len(c), D = Len(d), E = Len(e)
  PROVE  Laid(a \o b \o c \o d \o e, a, A, b, B, c, C, d, D, e, E)
<1> DEFINE s == a \o b \o c \o d \o e
<1> DEFINE ab == a \o b
           abc == ab \o c
           abcd == abc \o d
           AB == A + B
           ABC == AB + C
           ABCD == ABC + D
<1>0. AB \in Nat /\ ABC \in Nat /\ ABCD \in Nat /\ s = abcd \o e
  OBVIOUS
<1>1. /\ ab \in Seq(Byte) /\ Len(ab) = AB
      /\ \A i \in 1..A : ab[i] = a[i]
      /\ \A i \in 1..B : ab[A + i] = b[i]
  <2>1. Joined(a \o b, a, A, b, B)
    BY ConcatAt
  <2> QED BY <2>1 DEF Joined
<1> HIDE DEF s, ab, abc, abcd, AB, ABC, ABCD
<1>3. /\ abc \in Seq(Byte) /\ Len(abc) = ABC
      /\ \A i \in 1..AB : abc[i] = ab[i]
      /\ \A i \in 1..C : abc[AB + i] = c[i]
  <2>1. Joined(ab \o c, ab, AB, c, C)
    BY <1>0, <1>1, ConcatAt
  <2> QED BY <2>1 DEF Joined, abc, ABC
<1>4. /\ abcd \in Seq(Byte) /\ Len(abcd) = ABCD
      /\ \A i \in 1..ABC : abcd[i] = abc[i]
      /\ \A i \in 1..D : abcd[ABC + i] = d[i]
  <2>1. Joined(abc \o d, abc, ABC, d, D)
    BY <1>0, <1>3, ConcatAt
  <2> QED BY <2>1 DEF Joined, abcd, ABCD
<1>5. /\ s \in Seq(Byte) /\ Len(s) = ABCD + E
      /\ \A i \in 1..ABCD : s[i] = abcd[i]
      /\ \A i \in 1..E : s[ABCD + i] = e[i]
  <2>1. Joined(abcd \o e, abcd, ABCD, e, E)
    BY <1>0, <1>4, ConcatAt
  <2> QED BY <1>0, <2>1 DEF Joined
<1> USE DEF AB, ABC, ABCD
<1>6. ASSUME NEW i \in 1..A
      PROVE  s[i] = a[i]
  <2>1. i \in 1..(A + B) /\ i \in 1..(A + B + C) /\ i \in 1..(A + B + C + D)
    OBVIOUS
  <2> QED BY <2>1, <1>1, <1>3, <1>4, <1>5
<1>7. ASSUME NEW i \in 1..B
      PROVE  s[A + i] = b[i]
  <2>1. A + i \in 1..(A + B) /\ A + i \in 1..(A + B + C) /\ A + i \in 1..(A + B + C + D)
    OBVIOUS
  <2> QED BY <2>1, <1>1, <1>3, <1>4, <1>5
<1>8. ASSUME NEW i \in 1..C
      PROVE  s[A + B + i] = c[i]
  <2>1. A + B + i \in 1..(A + B + C) /\ A + B + i \in 1..(A + B + C + D)
    OBVIOUS
  <2>2. s[A + B + i] = abcd[A + B + i]
    BY <2>1, <1>5
  <2>3. abcd[A + B + i] = abc[A + B + i]
    BY <2>1, <1>4
  <2> QED BY <2>2, <2>3, <1>3
<1>9. ASSUME NEW i \in 1..D
      PROVE  s[A + B + C + i] = d[i]
  <2>1. A + B + C + i \in 1..(A + B + C + D)
    OBVIOUS
  <2> QED BY <2>1, <1>4, <1>5
<1> QED BY <1>5, <1>6, <1>7, <1>8, <1>9 DEF Laid, Sized, s

(* Where the parts of a concatenation are found again.                     *)
LEMMA PartsFound ==
  ASSUME NEW s, NEW a, NEW A, NEW b, NEW B, NEW c, NEW C, NEW d, NEW D, NEW e, NEW E,
         Laid(s, a, A, b, B, c, C, d, D, e, E)
  PROVE  /\ Slice(s, 1, A) = a /\ Slice(s, A + 1, B) = b
         /\ Slice(s, A + B + 1, C) = c /\ Slice(s, A + B + C + 1, D) = d
<1>1. /\ s \in Seq(Byte) /\ Len(s) = A + B + C + D + E
      /\ a \in Seq(Byte) /\ A \in Nat /\ A = Len(a)
      /\ b \in Seq(Byte) /\ B \in Nat /\ B = Len(b)
      /\ c \in Seq(Byte) /\ C \in Nat /\ C = Len(c)
      /\ d \in Seq(Byte) /\ D \in Nat /\ D = Len(d)
      /\ e \in Seq(Byte) /\ E \in Nat
  BY DEF Laid, Sized
<1>2. Lies(a, A, s, 0) /\ Lies(b, B, s, A) /\ Lies(c, C, s, A + B) /\ Lies(d, D, s, A + B + C)
  BY <1>1 DEF Laid, Lies
<1>3. 0 \in Nat /\ 0 + 1 = 1 /\ A + B \in Nat /\ A + B + C \in Nat
  BY <1>1
<1>4. Slice(s, 0 + 1, A) = a
  BY <1>1, <1>2, <1>3, SliceLies
<1>5. Slice(s, A + 1, B) = b
  BY <1>1, <1>2, SliceLies
<1>6. Slice(s, (A + B) + 1, C) = c
  BY <1>1, <1>2, <1>3, SliceLies
<1>7. Slice(s, (A + B + C) + 1, D) = d
  BY <1>1, <1>2, <1>3, SliceLies
<1> QED BY <1>3, <1>4, <1>5, <1>6, <1>7

LEMMA WordPrefix ==
  ASSUME NEW n \in Nat, NEW w \in Nat, NEW v \in Nat, v <= w
  PROVE  \A i \in 1..v : Word(n, w)[i] = Word(n, v)[i]
BY DEF Word

LEMMA CountedType ==
  ASSUME NEW b \in Seq(Byte)
  PROVE  /\ Counted(b) \in Seq(Byte)
         /\ b = <<>> => Counted(b) = <<>>
         /\ b # <<>> => /\ Len(Counted(b)) = Len(b) + 1 /\ Len(b) > 0
                        /\ Counted(b)[1] = Len(b) % Radix
                        /\ \A i \in 1..Len(b) : Counted(b)[i + 1] = b[i]
<1> DEFINE x == Len(b) % Radix
<1>1. x \in Byte
  BY DivMod, FileIdsAssumption DEF Byte
<1> HIDE DEF x
<1>2. <<x>> \o b \in Seq(Byte) /\ Len(<<x>> \o b) = Len(b) + 1 /\ (<<x>> \o b)[1] = x
      /\ \A i \in 1..Len(b) : (<<x>> \o b)[i + 1] = b[i]
  BY <1>1
<1>3. b # <<>> => Len(b) > 0
  OBVIOUS
<1> QED BY <1>2, <1>3 DEF Counted, x

-----------------------------------------------------------------------------
(* Ids and paths.                                                          *)

(* What fits the fields of an id, and what Decode reads of it.             *)
Fits(i) ==
  /\ i.id \in Nat /\ i.id < Power[Wide] /\ i.hash \in Nat /\ i.hash < Power[Wide]
  /\ i.dc \in Nat /\ i.dc < Power[Narrow]
  /\ i.type \in Nat /\ i.type < Power[Narrow - 1]
  /\ i.ref \in Seq(Byte)

(* What Decode makes of a reference and a size letter.                     *)
RefIn(ref, size) ==
  LET rest == Counted(ref) \o Counted(size)
  IN  IF Len(rest) > 0 /\ rest[1] < Len(rest) THEN Slice(rest, 2, rest[1]) ELSE <<>>

LEMMA HeaderIs ==
  /\ Wide \in Nat /\ Narrow \in Nat /\ Narrow - 1 \in Nat /\ HeaderLen = 2 * Wide + 2 * Narrow
  /\ Power[Narrow - 1] <= Power[Narrow]
<1>1. Narrow - 1 \in Nat /\ (Narrow - 1) + 1 = Narrow
  BY FileIdsAssumption
<1>2. Power[Narrow] = Radix * Power[Narrow - 1] /\ Power[Narrow - 1] \in Nat
  BY <1>1, PowerDef
<1>3. Power[Narrow - 1] <= Power[Narrow]
  BY <1>2, FileIdsAssumption
<1> QED BY <1>1, <1>3, FileIdsAssumption DEF HeaderLen

LEMMA EncodeDecodes ==
  ASSUME NEW i, Fits(i), i.size \in Seq(Byte)
  PROVE  /\ Encode(i) \in Seq(Byte) /\ ~TooShort(Encode(i))
         /\ Decode(Encode(i)) =
              [id |-> i.id, hash |-> i.hash, dc |-> i.dc, type |-> i.type,
               ref |-> RefIn(i.ref, i.size), size |-> <<>>]
<1> DEFINE a == Word(i.id, Wide)
           b == Word(i.hash, Wide)
           c == Word(i.dc, Narrow)
           d == Word(i.type, Narrow)
           rest == Counted(i.ref) \o Counted(i.size)
           e == rest \o Trailer
           raw == a \o b \o c \o d \o e
           W == Wide
           N == Narrow
           R == Len(rest)
<1>1. /\ a \in Seq(Byte) /\ Len(a) = W /\ Value[a] = i.id
      /\ b \in Seq(Byte) /\ Len(b) = W /\ Value[b] = i.hash
      /\ c \in Seq(Byte) /\ Len(c) = N /\ Value[c] = i.dc
      /\ d \in Seq(Byte) /\ Len(d) = N
      /\ W \in Nat /\ N \in Nat
  BY WordType, WordValue, HeaderIs DEF Fits
<1>2. Trailer \in Seq(Byte) /\ Len(Trailer) = 2
  <2>1. 4 \in Byte /\ 30 % Radix \in Byte
    BY DivMod, FileIdsAssumption DEF Byte
  <2> QED BY <2>1 DEF Trailer
<1>3. /\ rest \in Seq(Byte) /\ R \in Nat /\ e \in Seq(Byte) /\ Len(e) = R + 2
      /\ \A k \in 1..R : e[k] = rest[k]
      /\ Counted(i.ref) \in Seq(Byte) /\ Counted(i.size) \in Seq(Byte)
  <2>1. Counted(i.ref) \in Seq(Byte) /\ Counted(i.size) \in Seq(Byte)
    BY CountedType DEF Fits
  <2>2. rest \in Seq(Byte) /\ R \in Nat
    BY <2>1, Concat
  <2> HIDE DEF rest
  <2>3. Joined(e, rest, R, Trailer, 2)
    BY <1>2, <2>2, ConcatAt
  <2> QED BY <2>1, <2>2, <2>3 DEF Joined
<1>4. Encode(i) = rleEncode[raw] /\ raw \in Seq(Byte)
  <2>1. a \o b \o c \o d \in Seq(Byte)
    BY <1>1
  <2> DEFINE h == a \o b \o c \o d
             x == Counted(i.ref)
             y == Counted(i.size)
  <2>2. h \o x \o y \o Trailer = h \o ((x \o y) \o Trailer)
    <3>1. x \in Seq(Byte) /\ y \in Seq(Byte) /\ h \in Seq(Byte)
      BY <1>3, <2>1
    <3> HIDE DEF h, x, y
    <3> DEFINE z == Trailer
    <3>2. z \in Seq(Byte)
      BY <1>2
    <3> HIDE DEF z
    <3> DEFINE xy == x \o y
    <3>3. xy \in Seq(Byte) /\ h \in Seq(Byte) /\ z \in Seq(Byte)
      BY <3>1, <3>2
    <3>4. (h \o x) \o y = h \o xy
      BY <3>1
    <3> HIDE DEF xy
    <3>5. (h \o xy) \o z = h \o (xy \o z)
      BY <3>3
    <3> QED BY <3>4, <3>5 DEF xy, z
  <2>3. raw \in Seq(Byte)
    BY <1>3, <2>1
  <2> QED BY <2>2, <2>3 DEF Encode
<1>5. rleDecode[Encode(i)] = raw /\ Encode(i) \in Seq(Byte)
  <2> HIDE DEF raw
  <2> QED BY <1>4, rleReversed, rleEncodeDef
<1> HIDE DEF a, b, c, d, rest, e, W, N, R
<1>6. Laid(raw, a, W, b, W, c, N, d, N, e, R + 2)
  <2>1. R + 2 \in Nat /\ e \in Seq(Byte) /\ Len(e) = R + 2
    BY <1>3
  <2> QED BY <1>1, <2>1, FiveParts
<1> HIDE DEF raw
<1>7. Slice(raw, 1, W) = a /\ Slice(raw, W + 1, W) = b /\ Slice(raw, 2 * W + 1, N) = c
  <2>1. Slice(raw, 1, W) = a /\ Slice(raw, W + 1, W) = b /\ Slice(raw, W + W + 1, N) = c
    BY <1>6, PartsFound
  <2> QED BY <1>1, <2>1
<1>8. /\ Len(raw) = W + W + N + N + (R + 2)
      /\ \A k \in 1..N : raw[W + W + N + k] = d[k]
      /\ \A k \in 1..(R + 2) : raw[W + W + N + N + k] = e[k]
  BY <1>6 DEF Laid
<1>10. Value[Slice(raw, 2 * W + N + 1, N - 1)] = i.type
  <2> DEFINE t == Word(i.type, N - 1)
  <2>1. N - 1 \in Nat /\ N - 1 <= N /\ i.type \in Nat /\ i.type < Power[N - 1]
    BY HeaderIs, <1>1 DEF N, Fits
  <2>2. t \in Seq(Byte) /\ Len(t) = N - 1 /\ Value[t] = i.type
    BY <2>1, WordType, WordValue
  <2>3. \A k \in 1..(N - 1) : d[k] = t[k]
    BY <1>1, <2>1, WordPrefix DEF d, N
  <2> HIDE DEF t
  <2>4. 2 * W + N \in Nat /\ (2 * W + N) + (N - 1) <= Len(raw) /\ 2 * W + N = W + W + N
    BY <1>1, <1>3, <1>8
  <2>5. \A k \in 1..(N - 1) : k \in 1..N
    BY <1>1
  <2>6. \A k \in 1..(N - 1) : raw[(2 * W + N) + k] = t[k]
    BY <1>8, <2>3, <2>4, <2>5
  <2>7. Slice(raw, (2 * W + N) + 1, N - 1) = t
    BY <1>4, <2>1, <2>2, <2>4, <2>6, SliceIs
  <2> QED BY <2>2, <2>7
<1>11. SubSeq(raw, HeaderLen + 1, Len(raw) - 2) = rest
  <2>1. HeaderLen \in Nat /\ HeaderLen = W + W + N + N
    BY <1>1, HeaderIs DEF W, N
  <2>2. HeaderLen + R <= Len(raw) /\ Len(raw) - 2 = HeaderLen + 1 + R - 1
    BY <1>1, <1>3, <1>8, <2>1
  <2>3. \A k \in 1..R : k \in 1..(R + 2)
    BY <1>3
  <2>4. \A k \in 1..R : raw[HeaderLen + k] = rest[k]
    BY <1>3, <1>8, <2>1, <2>3
  <2>5. Slice(raw, HeaderLen + 1, R) = rest
    <3>1. R = Len(rest) /\ R \in Nat /\ rest \in Seq(Byte) /\ raw \in Seq(Byte)
      BY <1>3, <1>4 DEF R
    <3> DEFINE H == HeaderLen
    <3>2. H \in Nat /\ H + R <= Len(raw) /\ \A k \in 1..R : raw[H + k] = rest[k]
      BY <2>1, <2>2, <2>4
    <3> HIDE DEF H
    <3>3. Slice(raw, H + 1, R) = rest
      BY <3>1, <3>2, SliceIs
    <3> QED BY <3>3 DEF H
  <2> QED BY <2>2, <2>5 DEF Slice
<1>12. ~TooShort(Encode(i))
  <2>1. Len(raw) >= HeaderLen + 2
    BY <1>1, <1>3, <1>8, HeaderIs DEF W, N
  <2>2. HeaderLen \in Nat /\ Len(raw) \in Nat
    BY <1>4, HeaderIs
  <2> QED BY <1>5, <2>1, <2>2 DEF TooShort
<1>13. Decode(Encode(i)) =
         [id |-> i.id, hash |-> i.hash, dc |-> i.dc, type |-> i.type,
          ref |-> IF Len(rest) > 0 /\ rest[1] < Len(rest) THEN Slice(rest, 2, rest[1]) ELSE <<>>,
          size |-> <<>>]
  BY <1>1, <1>5, <1>7, <1>10, <1>11 DEF Decode, W, N
<1> QED BY <1>5, <1>12, <1>13 DEF rest, RefIn

Fields(raw, W, N) ==
  /\ Value[Slice(raw, 1, W)] \in Nat /\ Value[Slice(raw, 1, W)] < Power[W]
  /\ Value[Slice(raw, W + 1, W)] \in Nat /\ Value[Slice(raw, W + 1, W)] < Power[W]
  /\ Value[Slice(raw, 2 * W + 1, N)] \in Nat /\ Value[Slice(raw, 2 * W + 1, N)] < Power[N]
  /\ Value[Slice(raw, 2 * W + N + 1, N - 1)] \in Nat
  /\ Value[Slice(raw, 2 * W + N + 1, N - 1)] < Power[N - 1]

(* Whatever a client passes as an id, what is read of it fits.             *)
LEMMA DecodeFits ==
  ASSUME NEW s \in Seq(Byte), ~TooShort(s)
  PROVE  /\ Fits(Decode(s)) /\ Decode(s).size = <<>>
         /\ Len(Decode(s).ref) \in Nat /\ Len(Decode(s).ref) < Radix
<1> DEFINE raw == rleDecode[s]
           W == Wide
           N == Narrow
           H == HeaderLen
           L == Len(raw)
           rest == SubSeq(raw, H + 1, L - 2)
           ref == IF Len(rest) > 0 /\ rest[1] < Len(rest) THEN Slice(rest, 2, rest[1]) ELSE <<>>
<1>1. raw \in Seq(Byte)
  BY rleDecodeDef
<1>2. W \in Nat /\ N \in Nat /\ N - 1 \in Nat /\ H = 2 * W + 2 * N /\ H \in Nat
  BY HeaderIs
<1>3. L \in Nat /\ L >= H + 2
  BY <1>1, <1>2 DEF TooShort
<1>4. /\ Decode(s).id = Value[Slice(raw, 1, W)] /\ Decode(s).hash = Value[Slice(raw, W + 1, W)]
      /\ Decode(s).dc = Value[Slice(raw, 2 * W + 1, N)]
      /\ Decode(s).type = Value[Slice(raw, 2 * W + N + 1, N - 1)]
      /\ Decode(s).ref = ref /\ Decode(s).size = <<>>
  BY DEF Decode
<1>5. rest \in Seq(Byte)
  <2> DEFINE R == L - 2 - H
  <2>1. R \in Nat /\ H + R <= L /\ L - 2 = H + 1 + R - 1
    <3> HIDE DEF raw, H, L
    <3> QED BY <1>2, <1>3
  <2>2. Slice(raw, H + 1, R) \in Seq(Byte)
    <3> HIDE DEF raw, H, R
    <3> QED BY <1>1, <1>2, <2>1, SliceOf
  <2> QED BY <2>1, <2>2 DEF Slice
<1> HIDE DEF raw, W, N, H, L
<1>6. Fields(raw, W, N)
  <2>1. ASSUME NEW k \in Nat, NEW n \in Nat, k + n <= L
        PROVE  Value[Slice(raw, k + 1, n)] \in Nat /\ Value[Slice(raw, k + 1, n)] < Power[n]
    <3>1. Slice(raw, k + 1, n) \in Seq(Byte) /\ Len(Slice(raw, k + 1, n)) = n
      BY <1>1, <2>1, SliceOf DEF L
    <3> QED BY <3>1, ValueDef, ValueBelow
  <2>2. 0 + W <= L /\ W + W <= L /\ 2 * W + N <= L /\ (2 * W + N) + (N - 1) <= L
        /\ 2 * W \in Nat /\ 2 * W + N \in Nat /\ 0 + 1 = 1
    BY <1>2, <1>3
  <2>3. Value[Slice(raw, 0 + 1, W)] \in Nat /\ Value[Slice(raw, 0 + 1, W)] < Power[W]
    BY <1>2, <2>1, <2>2
  <2>4. Value[Slice(raw, W + 1, W)] \in Nat /\ Value[Slice(raw, W + 1, W)] < Power[W]
    BY <1>2, <2>1, <2>2
  <2>5. Value[Slice(raw, 2 * W + 1, N)] \in Nat /\ Value[Slice(raw, 2 * W + 1, N)] < Power[N]
    BY <1>2, <2>1, <2>2
  <2>6. /\ Value[Slice(raw, 2 * W + N + 1, N - 1)] \in Nat
        /\ Value[Slice(raw, 2 * W + N + 1, N - 1)] < Power[N - 1]
    BY <1>2, <2>1, <2>2
  <2> QED BY <2>2, <2>3, <2>4, <2>5, <2>6 DEF Fields
<1>7. ref \in Seq(Byte) /\ Len(ref) \in Nat /\ Len(ref) < Radix
  <2> HIDE DEF rest
  <2>1. Len(rest) \in Nat
    BY <1>5
  <2>2. CASE Len(rest) > 0 /\ rest[1] < Len(rest)
    <3> DEFINE n == rest[1]
    <3>1. n \in Byte
      BY <1>5, <2>1, <2>2
    <3>2. n \in Nat /\ n < Radix
      BY <3>1, FileIdsAssumption DEF Byte
    <3>3. 1 + n <= Len(rest) /\ 1 \in Nat /\ 1 + 1 = 2
      BY <2>1, <2>2, <3>2
    <3>4. ref = Slice(rest, 2, n)
      BY <2>2
    <3> HIDE DEF n
    <3>5. Slice(rest, 1 + 1, n) \in Seq(Byte) /\ Len(Slice(rest, 1 + 1, n)) = n
      BY <1>5, <3>2, <3>3, SliceOf
    <3> QED BY <3>2, <3>3, <3>4, <3>5
  <2>3. CASE ~(Len(rest) > 0 /\ rest[1] < Len(rest))
    <3>1. ref = <<>>
      BY <2>3
    <3> HIDE DEF ref
    <3>2. ref \in Seq(Byte) /\ Len(ref) = 0
      BY <3>1
    <3> QED BY <3>2, FileIdsAssumption
  <2> QED BY <2>2, <2>3
<1> HIDE DEF ref
<1> QED BY <1>4, <1>6, <1>7 DEF Fits, Fields, W, N

(* A path gives back the id it was signed for.                             *)
LEMMA PayloadReads ==
  ASSUME NEW i, Fits(i), Len(i.ref) < Radix
  PROVE  FromPayload(Payload(i)) =
           [dc |-> i.dc, type |-> i.type, id |-> i.id, hash |-> i.hash, ref |-> i.ref, size |-> <<>>]
<1> DEFINE a == Word(i.dc, Narrow)
           b == Word(i.type, Narrow)
           c == Word(i.id, Wide)
           d == Word(i.hash, Wide)
           R == Len(i.ref)
           one == <<R % Radix>>
           e == one \o i.ref
           p == a \o b \o c \o d \o e
           W == Wide
           N == Narrow
<1>1. i.type < Power[Narrow]
  <2>1. /\ Power[Narrow - 1] \in Nat /\ Power[Narrow] \in Nat /\ Power[Narrow - 1] <= Power[Narrow]
    BY HeaderIs, PowerDef
  <2> QED BY <2>1 DEF Fits
<1>2. /\ a \in Seq(Byte) /\ Len(a) = N /\ Value[a] = i.dc
      /\ b \in Seq(Byte) /\ Len(b) = N /\ Value[b] = i.type
      /\ c \in Seq(Byte) /\ Len(c) = W /\ Value[c] = i.id
      /\ d \in Seq(Byte) /\ Len(d) = W /\ Value[d] = i.hash
      /\ W \in Nat /\ N \in Nat
  BY <1>1, WordType, WordValue, HeaderIs DEF Fits
<1>3. R \in Nat /\ R < Radix /\ R % Radix = R /\ i.ref \in Seq(Byte) /\ R \in Byte
  <2>1. R \in Nat /\ R < Radix /\ i.ref \in Seq(Byte) /\ Radix \in Nat
    BY FileIdsAssumption DEF Fits
  <2> HIDE DEF R
  <2>2. R % Radix = R
    BY <2>1
  <2> QED BY <2>1, <2>2 DEF Byte
<1>4. one \in Seq(Byte) /\ Len(one) = 1 /\ one[1] = R
  BY <1>3
<1>5. /\ e \in Seq(Byte) /\ Len(e) = R + 1 /\ e[1] = R
      /\ \A k \in 1..R : e[1 + k] = i.ref[k]
  <2> HIDE DEF one
  <2>1. Joined(e, one, 1, i.ref, R)
    BY <1>3, <1>4, ConcatAt
  <2> QED BY <1>3, <1>4, <2>1 DEF Joined
<1>6. Payload(i) = p
  <2> DEFINE h == a \o b \o c \o d
  <2>1. h \in Seq(Byte)
    BY <1>2
  <2>2. h \o one \o i.ref = h \o (one \o i.ref)
    <3> HIDE DEF h, one
    <3> QED BY <1>3, <1>4, <2>1, ConcatTwice
  <2> QED BY <2>2 DEF Payload
<1> HIDE DEF a, b, c, d, e, W, N
<1>7. Laid(p, a, N, b, N, c, W, d, W, e, R + 1)
  <2>1. R + 1 \in Nat
    BY <1>3
  <2> QED BY <1>2, <1>5, <2>1, FiveParts
<1> HIDE DEF p, R
<1>8. /\ Slice(p, 1, N) = a /\ Slice(p, N + 1, N) = b
      /\ Slice(p, N + N + 1, W) = c /\ Slice(p, N + N + W + 1, W) = d
  BY <1>7, PartsFound
<1>9. HeaderLen = N + N + W + W /\ HeaderLen \in Nat /\ 2 * N = N + N
  BY <1>2, HeaderIs DEF W, N
<1>10. /\ p \in Seq(Byte) /\ Len(p) = HeaderLen + (R + 1)
       /\ \A k \in 1..(R + 1) : p[HeaderLen + k] = e[k]
  BY <1>7, <1>9 DEF Laid
<1>11. p[HeaderLen + 1] = R
  BY <1>3, <1>5, <1>10
<1>12. Slice(p, HeaderLen + 2, R) = i.ref
  <2> DEFINE H == HeaderLen + 1
  <2>1. H \in Nat /\ H + R <= Len(p) /\ H + 1 = HeaderLen + 2
    BY <1>3, <1>9, <1>10
  <2>2. ASSUME NEW k \in 1..R
        PROVE  p[H + k] = i.ref[k]
    <3>1. 1 + k \in 1..(R + 1) /\ H + k = HeaderLen + (1 + k)
      BY <1>3, <1>9
    <3> QED BY <1>5, <1>10, <3>1
  <2> HIDE DEF H
  <2>3. Slice(p, H + 1, R) = i.ref
    BY <1>3, <1>10, <2>1, <2>2, SliceIs DEF R
  <2> QED BY <2>1, <2>3
<1>13. Len(p) >= HeaderLen + 1 + R
  BY <1>3, <1>9, <1>10
<1>14. FromPayload(p) =
         [dc |-> Value[a], type |-> Value[b], id |-> Value[c], hash |-> Value[d],
          ref |-> i.ref, size |-> <<>>]
  BY <1>8, <1>9, <1>11, <1>12, <1>13 DEF FromPayload, W, N
<1> QED BY <1>2, <1>6, <1>14

(* The length byte and the references Decode can and cannot read.          *)
LEMMA RefRead ==
  ASSUME NEW ref \in Seq(Byte), NEW size \in Seq(Byte)
  PROVE  /\ Len(ref) \in 1..(Radix - 1) => RefIn(ref, size) = ref
         /\ ref = <<>> /\ size = <<>> => RefIn(ref, size) = ref
         /\ ref # <<>> => RefIn(ref, size) \in Prefixes(ref)
<1> DEFINE rest == Counted(ref) \o Counted(size)
           got == RefIn(ref, size)
<1>0. /\ rest = Counted(ref) \o Counted(size)
      /\ got = IF Len(rest) > 0 /\ rest[1] < Len(rest) THEN Slice(rest, 2, rest[1]) ELSE <<>>
  BY DEF RefIn
<1> HIDE DEF rest, got
<1>1. Counted(ref) \in Seq(Byte) /\ Counted(size) \in Seq(Byte)
  BY CountedType
<1>2. ASSUME ref = <<>>, size = <<>>
      PROVE  got = ref
  <2>1. Counted(ref) = <<>> /\ Counted(size) = <<>>
    BY <1>2 DEF Counted
  <2>2. rest = <<>>
    BY <1>0, <2>1
  <2> QED BY <1>0, <1>2, <2>2
<1>3. ASSUME ref # <<>>
      PROVE  /\ got \in Prefixes(ref)
             /\ Len(ref) < Radix => got = ref
  <2> DEFINE n == Len(ref)
             x == n % Radix
             s == Counted(ref)
             m == Len(Counted(size))
  <2>1. n \in Nat /\ n > 0 /\ m \in Nat
    BY <1>1, <1>3
  <2>2. s \in Seq(Byte) /\ Len(s) = n + 1 /\ s[1] = x /\ \A i \in 1..n : s[i + 1] = ref[i]
    BY <1>3, CountedType
  <2>3. x \in Nat /\ x <= n /\ x < Radix /\ (n < Radix => x = n)
    <3> HIDE DEF n
    <3>1. Radix \in Nat /\ Radix > 0 /\ n \in Nat
      BY <2>1, FileIdsAssumption
    <3>2. n % Radix \in 0..(Radix - 1) /\ n \div Radix \in Nat /\ n = Radix * (n \div Radix) + (n % Radix)
      BY <3>1, DivMod
    <3>3. Radix * (n \div Radix) >= 0
      BY <3>1, <3>2
    <3>4. n < Radix => n % Radix = n
      BY <3>1, ModOfLess
    <3> QED BY <3>1, <3>2, <3>3, <3>4
  <2> HIDE DEF n, x, s, m
  <2>4. Joined(rest, s, n + 1, Counted(size), m)
    BY <1>0, <1>1, <2>2, ConcatAt DEF m, s
  <2>5. rest \in Seq(Byte) /\ Len(rest) = n + 1 + m /\ rest[1] = x /\ \A i \in 1..n : rest[1 + i] = ref[i]
    <3>1. 1 \in 1..(n + 1) /\ \A i \in 1..n : 1 + i \in 1..(n + 1) /\ 1 + i = i + 1
      BY <2>1
    <3> QED BY <2>2, <2>4, <3>1 DEF Joined
  <2>6. got = Slice(rest, 2, x)
    BY <1>0, <2>1, <2>3, <2>5
  <2> DEFINE p == SubSeq(ref, 1, x)
  <2>7. p \in Seq(Byte) /\ Len(p) = x /\ \A i \in 1..x : p[i] = ref[i]
    <3>1. x \in 0..Len(ref)
      BY <2>1, <2>3 DEF n
    <3> QED BY <3>1, FrontSeq
  <2> HIDE DEF p
  <2>8. Lies(p, x, rest, 1)
    <3>1. 1 + x <= Len(rest)
      BY <2>1, <2>3, <2>5
    <3>2. ASSUME NEW i \in 1..x
          PROVE  rest[1 + i] = p[i]
      <4>1. i \in 1..n
        BY <2>1, <2>3
      <4> QED BY <2>5, <2>7, <4>1
    <3> QED BY <3>1, <3>2 DEF Lies
  <2>9. Slice(rest, 1 + 1, x) = p
    BY <2>5, <2>7, <2>8, SliceLies
  <2>10. got = p
    BY <2>6, <2>9
  <2>11. got \in Prefixes(ref)
    <3>1. x \in 0..Len(ref) /\ got = SubSeq(ref, 1, x)
      BY <2>1, <2>3, <2>10 DEF p, n
    <3> QED BY <3>1 DEF Prefixes
  <2>12. ASSUME n < Radix
         PROVE  p = ref
    BY <2>3, <2>7, <2>12, SameSeq DEF n
  <2> QED BY <2>10, <2>11, <2>12 DEF n
<1>4. Len(ref) \in 1..(Radix - 1) => ref # <<>> /\ Len(ref) < Radix
  BY FileIdsAssumption
<1> QED BY <1>2, <1>3, <1>4 DEF got

-----------------------------------------------------------------------------
(* What a document is.                                                     *)

LEMMA FirstOfIs ==
  ASSUME NEW cases, DOMAIN cases = 1..6, NEW attrs, NEW default,
         NEW k \in 1..6, cases[k][1] \in attrs, \A j \in 1..(k - 1) : cases[j][1] \notin attrs
  PROVE  FirstOf(cases, attrs, default) = cases[k][2]
<1> DEFINE Is(j) == cases[j][1] \in attrs /\ \A i \in 1..(j - 1) : cases[i][1] \notin attrs
           c == CHOOSE j \in DOMAIN cases : Is(j)
<1>1. c \in 1..6 /\ Is(c)
  <2>1. k \in DOMAIN cases /\ Is(k)
    OBVIOUS
  <2> HIDE DEF Is
  <2> QED BY <2>1
<1>2. c = k
  <2>1. ~(c < k)
    BY <1>1
  <2>2. ~(k < c)
    BY <1>1
  <2> HIDE DEF c
  <2> QED BY <1>1, <2>1, <2>2
<1>3. FirstOf(cases, attrs, default) = cases[c][2]
  BY DEF FirstOf
<1> QED BY <1>2, <1>3

(* The type in the id of a document and the field it is shown in.          *)
Kinds == {<<FT.voice, "voice">>, <<FT.video_note, "video_note">>, <<FT.sticker, "sticker">>,
          <<FT.animation, "animation">>, <<FT.video, "video">>, <<FT.audio, "audio">>,
          <<FT.document, "document">>}

LEMMA DocumentKinds ==
  ASSUME NEW attrs
  PROVE  <<DocumentType(attrs), DocumentField(attrs)>> \in Kinds
<1> DEFINE types == <<<<"voice", FT.voice>>, <<"round", FT.video_note>>, <<"sticker", FT.sticker>>,
                      <<"animated", FT.animation>>, <<"video", FT.video>>, <<"audio", FT.audio>>>>
           fields == <<<<"voice", "voice">>, <<"round", "video_note">>, <<"sticker", "sticker">>,
                       <<"animated", "animation">>, <<"video", "video">>, <<"audio", "audio">>>>
           Has(k) == types[k][1] \in attrs
<1>1. DOMAIN types = 1..6 /\ DOMAIN fields = 1..6 /\ \A k \in 1..6 : types[k][1] = fields[k][1]
  OBVIOUS
<1>2. \A k \in 1..6 : <<types[k][2], fields[k][2]>> \in Kinds
  BY DEF Kinds
<1>3. CASE \E k \in 1..6 : Has(k)
  <2> DEFINE T == {k \in 1..6 : Has(k)}
  <2>1. PICK k \in T : \A j \in T : k <= j
    <3>1. T \subseteq Nat /\ T # {}
      BY <1>3
    <3> HIDE DEF T
    <3> QED BY <3>1, LeastNumber
  <2>2. k \in 1..6 /\ Has(k) /\ \A j \in 1..(k - 1) : ~Has(j)
    <3>1. k \in 1..6 /\ Has(k)
      OBVIOUS
    <3>2. ASSUME NEW j \in 1..(k - 1), Has(j)
          PROVE  FALSE
      <4>1. j \in T /\ j < k
        BY <3>1, <3>2
      <4> QED BY <2>1, <3>1, <4>1
    <3> QED BY <3>1, <3>2
  <2>3. \A j \in 1..(k - 1) : j \in 1..6
    BY <2>2
  <2> HIDE DEF types, fields
  <2>4. FirstOf(types, attrs, FT.document) = types[k][2]
    BY <1>1, <2>2, FirstOfIs
  <2>5. FirstOf(fields, attrs, "document") = fields[k][2]
    BY <1>1, <2>2, <2>3, FirstOfIs
  <2>6. DocumentType(attrs) = types[k][2] /\ DocumentField(attrs) = fields[k][2]
    BY <2>4, <2>5 DEF DocumentType, DocumentField, types, fields
  <2> QED BY <1>2, <2>2, <2>6
<1>4. CASE ~\E k \in 1..6 : Has(k)
  <2>1. DocumentType(attrs) = FT.document /\ DocumentField(attrs) = "document"
    <3>1. FirstOf(types, attrs, FT.document) = FT.document
      <4> HIDE DEF types
      <4> QED BY <1>1, <1>4 DEF FirstOf
    <3>2. FirstOf(fields, attrs, "document") = "document"
      <4> HIDE DEF types, fields
      <4> QED BY <1>1, <1>4 DEF FirstOf
    <3> QED BY <3>1, <3>2 DEF DocumentType, DocumentField
  <2> QED BY <2>1 DEF Kinds
<1> QED BY <1>3, <1>4

LEMMA KindsServed ==
  ASSUME NEW t, NEW field, <<t, field>> \in Kinds
  PROVE  /\ t \in {FT[k] : k \in DOMAIN FT} /\ t \in Nat
         /\ t \notin PhotoTypes /\ ContentType(t) = Served(field)
BY DEF Kinds, FT, PhotoTypes, ContentType, Served

-----------------------------------------------------------------------------
(* What the bot holds at each step, and where it comes from.               *)
FilesInv ==
  /\ file \in Files \cup {Nothing}
  /\ step \in {"sent", "held", "pathed", "refused", "served", "as_text", "resent"}
  /\ step # "sent" /\ file # Nothing => fid = Encode(Info(file)) /\ uid = UniqueID(Info(file))
  /\ step # "sent" /\ file = Nothing => fid \in Foreign
  /\ step = "sent" => file \in Files
  /\ step \in {"pathed", "served"} =>
       fileUid = UniqueID(Decode(fid)) /\ \E b \in Bots : path = SignedPath(Decode(fid), b)
  /\ step \in {"pathed", "served", "resent"} => ~TooShort(fid)
  /\ step = "served" =>
       /\ GoodSignature(path, found.by)
       /\ found.place = Place(FromPayload(path.payload))
       /\ found.content = ContentType(FromPayload(path.payload).type)
  /\ step = "resent" => found.place = Place(Decode(fid))

LEMMA FilesStart == FilesInit => FilesInv
<1> SUFFICES ASSUME FilesInit PROVE FilesInv
  OBVIOUS
<1>1. \A f \in Files : f # Nothing
  BY FilesAssumption DEF File, Nothing
<1> QED BY <1>1 DEF FilesInit, FilesInv

LEMMA FilesStep ==
  ASSUME FilesInv, [FilesNext]_fileVars
  PROVE  FilesInv'
<1>1. CASE Show
  <2>1. file \in Files /\ file # Nothing
    BY <1>1, FilesAssumption DEF Show, FilesInv, File, Nothing
  <2> QED BY <1>1, <2>1 DEF Show, FilesInv
<1>2. CASE Resend
  BY <1>2 DEF Resend, FilesInv
<1>3. ASSUME NEW b \in Bots, GetFile(b)
      PROVE  FilesInv'
  BY <1>3 DEF GetFile, FilesInv
<1>4. ASSUME NEW b \in Bots, Download(b)
      PROVE  FilesInv'
  BY <1>4 DEF Download, FilesInv
<1>5. CASE UNCHANGED fileVars
  BY <1>5 DEF fileVars, FilesInv
<1> QED BY <1>1, <1>2, <1>3, <1>4, <1>5 DEF FilesNext

LEMMA FilesKeep == FilesSpec => []FilesInv
<1> QED BY FilesStart, FilesStep, PTL DEF FilesSpec

(* The id Telegram's file gets is read back as that file.                  *)
LEMMA InfoReads ==
  ASSUME NEW f \in Files
  PROVE  /\ Fits(Info(f)) /\ f.size \in Seq(Byte) /\ Info(f).size = f.size
         /\ Info(f).id = f.id /\ Info(f).hash = f.hash /\ Info(f).ref = f.ref
         /\ Encode(Info(f)) \in Seq(Byte) /\ ~TooShort(Encode(Info(f)))
         /\ Decode(Encode(Info(f))).id = f.id /\ Decode(Encode(Info(f))).hash = f.hash
         /\ Decode(Encode(Info(f))).type = Info(f).type
         /\ Decode(Encode(Info(f))).size = <<>>
         /\ ReadableRef(f) => Decode(Encode(Info(f))).ref = f.ref
         /\ f.ref # <<>> => Decode(Encode(Info(f))).ref \in Prefixes(f.ref)
<1> DEFINE i == Info(f)
           got == RefIn(i.ref, i.size)
<1>1. File(f)
  BY FilesAssumption
<1>2. i.type \in Nat /\ i.type < Power[Narrow - 1]
  <2>1. i.type \in {FT[k] : k \in DOMAIN FT} /\ i.type \in Nat
    <3>1. CASE f.class = "photo"
      BY <3>1 DEF Info, FT
    <3>2. CASE f.class = "thumbnail"
      BY <3>2 DEF Info, FT
    <3>3. CASE f.class = "document"
      BY <3>3, DocumentKinds, KindsServed DEF Info
    <3> QED BY <1>1, <3>1, <3>2, <3>3 DEF File
  <2> QED BY <2>1, FilesAssumption
<1>3. /\ i.id = f.id /\ i.hash = f.hash /\ i.ref = f.ref /\ i.size = f.size /\ i.dc = f.dc
      /\ f.id \in Nat /\ f.id < Power[Wide] /\ f.hash \in Nat /\ f.hash < Power[Wide]
      /\ f.dc \in Nat /\ f.dc < Power[Narrow]
      /\ f.ref \in Seq(Byte) /\ f.size \in Seq(Byte) /\ Len(f.size) < 2
  <2>1. Power[Wide] \in Nat /\ Power[Narrow] \in Nat
    BY PowerDef, FileIdsAssumption
  <2> QED BY <1>1, <2>1 DEF File, Info
<1> HIDE DEF i
<1>4. Fits(i)
  BY <1>2, <1>3 DEF Fits
<1>5. /\ Encode(i) \in Seq(Byte) /\ ~TooShort(Encode(i))
      /\ Decode(Encode(i)) =
           [id |-> i.id, hash |-> i.hash, dc |-> i.dc, type |-> i.type, ref |-> got, size |-> <<>>]
  BY <1>3, <1>4, EncodeDecodes
<1> HIDE DEF got
<1>6. /\ Len(i.ref) \in 1..(Radix - 1) => got = i.ref
      /\ i.ref = <<>> /\ i.size = <<>> => got = i.ref
      /\ i.ref # <<>> => got \in Prefixes(i.ref)
  <2>1. i.ref \in Seq(Byte) /\ i.size \in Seq(Byte)
    BY <1>3
  <2> QED BY <2>1, RefRead DEF got
<1> QED BY <1>3, <1>4, <1>5, <1>6 DEF i, ReadableRef

(* What the client holds is a string; a path leads where its id leads.     *)
LEMMA HeldIsRead ==
  ASSUME FilesInv, step # "sent"
  PROVE  /\ fid \in Seq(Byte)
         /\ step \in {"pathed", "served"} =>
              /\ path.payload = Payload(Decode(fid))
              /\ FromPayload(path.payload) =
                   [dc |-> Decode(fid).dc, type |-> Decode(fid).type, id |-> Decode(fid).id,
                    hash |-> Decode(fid).hash, ref |-> Decode(fid).ref, size |-> <<>>]
<1>1. fid \in Seq(Byte)
  <2>1. CASE file = Nothing
    BY <2>1, FilesAssumption DEF FilesInv
  <2>2. CASE file # Nothing
    <3>1. file \in Files /\ fid = Encode(Info(file))
      BY <2>2 DEF FilesInv
    <3> QED BY <3>1, InfoReads
  <2> QED BY <2>1, <2>2
<1>2. ASSUME step \in {"pathed", "served"}
      PROVE  /\ path.payload = Payload(Decode(fid))
             /\ FromPayload(path.payload) =
                  [dc |-> Decode(fid).dc, type |-> Decode(fid).type, id |-> Decode(fid).id,
                   hash |-> Decode(fid).hash, ref |-> Decode(fid).ref, size |-> <<>>]
  <2>1. ~TooShort(fid) /\ path.payload = Payload(Decode(fid))
    BY <1>2 DEF FilesInv, SignedPath
  <2>2. Fits(Decode(fid)) /\ Len(Decode(fid).ref) < Radix
    BY <1>1, <2>1, DecodeFits
  <2> DEFINE i == Decode(fid)
  <2> HIDE DEF i
  <2>3. FromPayload(Payload(i)) =
          [dc |-> i.dc, type |-> i.type, id |-> i.id, hash |-> i.hash, ref |-> i.ref, size |-> <<>>]
    BY <2>2, PayloadReads DEF i
  <2> QED BY <2>1, <2>3 DEF i
<1> QED BY <1>1, <1>2

(* Where an arrived file was found is what sending its id would send.      *)
LEMMA ArrivedAtId ==
  ASSUME FilesInv, Arrived
  PROVE  /\ found.place = Place(Decode(fid))
         /\ step = "served" => found.content = ContentType(Decode(fid).type)
<1>1. CASE step = "resent"
  BY <1>1 DEF FilesInv
<1>2. CASE step = "served"
  <2> DEFINE i == Decode(fid)
             j == FromPayload(path.payload)
  <2>1. j.type = i.type /\ j.id = i.id /\ j.hash = i.hash /\ j.ref = i.ref
    <3>1. j = [dc |-> i.dc, type |-> i.type, id |-> i.id, hash |-> i.hash, ref |-> i.ref, size |-> <<>>]
      BY <1>2, HeldIsRead
    <3> HIDE DEF i, j
    <3> QED BY <3>1
  <2>2. found.place = Place(j) /\ found.content = ContentType(j.type)
    BY <1>2 DEF FilesInv
  <2> HIDE DEF i, j
  <2>3. Place(j) = Place(i)
    BY <2>1 DEF Place
  <2> QED BY <2>1, <2>2, <2>3 DEF i
<1> QED BY <1>1, <1>2 DEF Arrived

LEMMA LeadBack == FilesInv => FileIdsLeadBack
<1> SUFFICES ASSUME FilesInv, Arrived, file # Nothing, file.class # "thumbnail"
             PROVE  /\ <<found.place.kind, found.place.id, found.place.hash>>
                         = <<file.class, file.id, file.hash>>
                    /\ ReadableRef(file) => found.place.ref = file.ref
                    /\ file.ref # <<>> => found.place.ref \in Prefixes(file.ref)
  BY DEF FileIdsLeadBack
<1> DEFINE i == Decode(fid)
<1>1. file \in Files /\ fid = Encode(Info(file)) /\ File(file)
  BY FilesAssumption DEF FilesInv, Arrived
<1>2. /\ i.id = file.id /\ i.hash = file.hash /\ i.type = Info(file).type
      /\ ReadableRef(file) => i.ref = file.ref
      /\ file.ref # <<>> => i.ref \in Prefixes(file.ref)
  BY <1>1, InfoReads
<1>3. found.place = Place(i)
  BY ArrivedAtId
<1>4. i.type \in PhotoTypes <=> file.class = "photo"
  <2>1. CASE file.class = "photo"
    BY <1>2, <2>1 DEF Info, PhotoTypes
  <2>2. CASE file.class = "document"
    <3>1. i.type = DocumentType(file.attrs)
      BY <1>2, <2>2 DEF Info
    <3> QED BY <2>2, <3>1, DocumentKinds, KindsServed
  <2> QED BY <1>1, <2>1, <2>2 DEF File
<1>5. file.class \in {"photo", "document"}
  BY <1>1 DEF File
<1> HIDE DEF i
<1> QED BY <1>2, <1>3, <1>4, <1>5 DEF Place

LEMMA PathsServe == FilesInv => PathsServeTheId
<1> SUFFICES ASSUME FilesInv, step = "served"
             PROVE  /\ found.place = Place(Decode(fid))
                    /\ GoodSignature(path, found.by)
                    /\ file # Nothing => found.content = Served(Shown(file))
  BY DEF PathsServeTheId
<1>1. found.place = Place(Decode(fid)) /\ found.content = ContentType(Decode(fid).type)
  BY ArrivedAtId DEF Arrived
<1>2. GoodSignature(path, found.by)
  BY DEF FilesInv
<1>3. ASSUME file # Nothing
      PROVE  found.content = Served(Shown(file))
  <2>1. file \in Files /\ fid = Encode(Info(file)) /\ File(file)
    BY <1>3, FilesAssumption DEF FilesInv
  <2>2. Decode(fid).type = Info(file).type
    BY <2>1, InfoReads
  <2>3. CASE file.class = "document"
    <3>1. Info(file).type = DocumentType(file.attrs) /\ Shown(file) = DocumentField(file.attrs)
      BY <2>3 DEF Info, Shown
    <3> QED BY <1>1, <2>2, <3>1, DocumentKinds, KindsServed
  <2>4. CASE file.class = "photo" \/ file.class = "thumbnail"
    <3>1. Info(file).type \in PhotoTypes /\ Shown(file) = "photo"
      BY <2>4 DEF Info, Shown, PhotoTypes
    <3>2. found.content = "image/jpeg"
      BY <1>1, <2>2, <3>1 DEF ContentType, PhotoTypes, FT
    <3>3. Served("photo") = "image/jpeg"
      BY DEF Served
    <3> QED BY <3>1, <3>2, <3>3
  <2> QED BY <2>1, <2>3, <2>4 DEF File
<1> QED BY <1>1, <1>2, <1>3

(* A size letter, or none, is told by what is written of it.               *)
LEMMA CountedTells ==
  ASSUME NEW s \in Seq(Byte), NEW t \in Seq(Byte), Counted(s) = Counted(t)
  PROVE  s = t
<1>1. CASE s = <<>> \/ t = <<>>
  <2>1. Len(<<>>) = 0
    OBVIOUS
  <2>2. s = <<>> /\ t = <<>>
    BY <1>1, <2>1, CountedType
  <2> QED BY <2>2
<1>2. CASE s # <<>> /\ t # <<>>
  <2> DEFINE n == Len(s)
             c == Counted(s)
  <2>1. c \in Seq(Byte) /\ Len(c) = n + 1 /\ n \in Nat /\ \A i \in 1..n : c[i + 1] = s[i]
    BY <1>2, CountedType
  <2>2. c = Counted(t) /\ Len(c) = Len(t) + 1 /\ Len(t) \in Nat /\ \A i \in 1..Len(t) : c[i + 1] = t[i]
    BY <1>2, CountedType
  <2> HIDE DEF c
  <2>3. Len(t) = n
    BY <2>1, <2>2
  <2>4. \A i \in 1..n : s[i] = t[i]
    BY <2>1, <2>2, <2>3
  <2> QED BY <2>3, <2>4, SameSeq
<1> QED BY <1>1, <1>2

(* The three fields of a file_unique_id, wherever one is read.             *)
LEMMA UniqueIDParts ==
  ASSUME NEW i, i.type \in Nat, i.type < Power[Narrow], i.id \in Nat, i.id < Power[Wide],
         i.size \in Seq(Byte)
  PROVE  /\ i.type = Value[Slice(UniqueID(i), 1, Narrow)]
         /\ i.id = Value[Slice(UniqueID(i), Narrow + 1, Wide)]
         /\ Counted(i.size) = Slice(UniqueID(i), Narrow + Wide + 1, Len(UniqueID(i)) - Narrow - Wide)
<1> DEFINE a == Word(i.type, Narrow)
           b == Word(i.id, Wide)
           c == Counted(i.size)
           ab == a \o b
           u == ab \o c
           N == Narrow
           W == Wide
           C == Len(c)
           NW == N + W
<1>1. /\ a \in Seq(Byte) /\ Len(a) = N /\ Value[a] = i.type
      /\ b \in Seq(Byte) /\ Len(b) = W /\ Value[b] = i.id
      /\ c \in Seq(Byte) /\ C \in Nat /\ N \in Nat /\ W \in Nat /\ NW \in Nat
  <2>1. N \in Nat /\ W \in Nat
    BY HeaderIs
  <2>2. /\ a \in Seq(Byte) /\ Len(a) = N /\ Value[a] = i.type
        /\ b \in Seq(Byte) /\ Len(b) = W /\ Value[b] = i.id
    BY <2>1, WordType, WordValue
  <2>3. c \in Seq(Byte)
    BY CountedType
  <2> HIDE DEF c
  <2>4. C \in Nat
    BY <2>3
  <2> QED BY <2>1, <2>2, <2>3, <2>4
<1>2. UniqueID(i) = u
  BY DEF UniqueID
<1> HIDE DEF a, b, c, N, W
<1>3. Joined(ab, a, N, b, W)
  BY <1>1, ConcatAt
<1> HIDE DEF ab
<1>4. ab \in Seq(Byte) /\ Len(ab) = NW
  BY <1>3 DEF Joined
<1> HIDE DEF NW, C
<1>5. Joined(u, ab, NW, c, C)
  BY <1>1, <1>4, ConcatAt DEF C
<1> HIDE DEF u
<1>6. u \in Seq(Byte) /\ Len(u) = NW + C /\ NW = N + W
  BY <1>5 DEF Joined, NW
<1>7. Lies(a, N, u, 0)
  <2>1. ASSUME NEW k \in 1..N
        PROVE  u[0 + k] = a[k]
    <3>1. k \in 1..NW /\ 0 + k = k
      BY <1>1, <1>6
    <3> QED BY <1>3, <1>5, <3>1 DEF Joined
  <2>2. 0 + N <= Len(u)
    BY <1>1, <1>6
  <2> QED BY <2>1, <2>2 DEF Lies
<1>8. Lies(b, W, u, N)
  <2>1. ASSUME NEW k \in 1..W
        PROVE  u[N + k] = b[k]
    <3>1. N + k \in 1..NW
      BY <1>1, <1>6
    <3> QED BY <1>3, <1>5, <3>1 DEF Joined
  <2>2. N + W <= Len(u)
    BY <1>1, <1>6
  <2> QED BY <2>1, <2>2 DEF Lies
<1>9. Lies(c, C, u, NW)
  BY <1>5, <1>6 DEF Joined, Lies
<1>10. Slice(u, 0 + 1, N) = a
  BY <1>1, <1>6, <1>7, SliceLies
<1>11. Slice(u, N + 1, W) = b
  BY <1>1, <1>6, <1>8, SliceLies
<1>12. Slice(u, NW + 1, C) = c
  BY <1>1, <1>6, <1>9, SliceLies DEF C
<1>13. Len(u) - N - W = C
  BY <1>1, <1>6
<1> QED BY <1>1, <1>2, <1>6, <1>10, <1>11, <1>12, <1>13 DEF N, W, c

LEMMA UniqueIDTells ==
  ASSUME NEW f \in Files, NEW g \in Files, UniqueID(Info(f)) = UniqueID(Info(g))
  PROVE  SameFile(f, g)
<1> DEFINE i == Info(f)
           j == Info(g)
           u == UniqueID(i)
<1>1. /\ i.type \in Nat /\ i.type < Power[Narrow] /\ i.id \in Nat /\ i.id < Power[Wide]
      /\ i.size \in Seq(Byte) /\ i.id = f.id /\ i.size = f.size
  <2>1. Power[Narrow - 1] \in Nat /\ Power[Narrow] \in Nat /\ Power[Narrow - 1] <= Power[Narrow]
    BY HeaderIs, PowerDef
  <2> HIDE DEF i
  <2>2. Fits(i) /\ f.size \in Seq(Byte) /\ i.size = f.size /\ i.id = f.id
    BY InfoReads DEF i
  <2> QED BY <2>1, <2>2 DEF Fits
<1>2. /\ j.type \in Nat /\ j.type < Power[Narrow] /\ j.id \in Nat /\ j.id < Power[Wide]
      /\ j.size \in Seq(Byte) /\ j.id = g.id /\ j.size = g.size
  <2>1. Power[Narrow - 1] \in Nat /\ Power[Narrow] \in Nat /\ Power[Narrow - 1] <= Power[Narrow]
    BY HeaderIs, PowerDef
  <2> HIDE DEF j
  <2>2. Fits(j) /\ g.size \in Seq(Byte) /\ j.size = g.size /\ j.id = g.id
    BY InfoReads DEF j
  <2> QED BY <2>1, <2>2 DEF Fits
<1> HIDE DEF i, j
<1>3. /\ i.type = Value[Slice(u, 1, Narrow)] /\ i.id = Value[Slice(u, Narrow + 1, Wide)]
      /\ Counted(i.size) = Slice(u, Narrow + Wide + 1, Len(u) - Narrow - Wide)
  BY <1>1, UniqueIDParts
<1>4. /\ j.type = Value[Slice(u, 1, Narrow)] /\ j.id = Value[Slice(u, Narrow + 1, Wide)]
      /\ Counted(j.size) = Slice(u, Narrow + Wide + 1, Len(u) - Narrow - Wide)
  <2>1. u = UniqueID(j)
    BY DEF i, j
  <2> HIDE DEF u
  <2> QED BY <1>2, <2>1, UniqueIDParts
<1>5. i.size = j.size
  BY <1>1, <1>2, <1>3, <1>4, CountedTells
<1> QED BY <1>1, <1>2, <1>3, <1>4, <1>5 DEF SameFile, i, j

LEMMA TellApart == FilesInv => UniqueIdsTellApart
<1> SUFFICES ASSUME FilesInv, file # Nothing, step # "sent"
             PROVE  /\ \A g \in Files : UniqueID(Info(g)) = uid <=> SameFile(file, g)
                    /\ file.class = "document" /\ step \in {"pathed", "served"} => fileUid = uid
  BY DEF UniqueIdsTellApart
<1>1. file \in Files /\ fid = Encode(Info(file)) /\ uid = UniqueID(Info(file)) /\ File(file)
  BY FilesAssumption DEF FilesInv
<1>2. ASSUME NEW g \in Files
      PROVE  UniqueID(Info(g)) = uid <=> SameFile(file, g)
  <2>1. ASSUME UniqueID(Info(g)) = uid
        PROVE  SameFile(file, g)
    BY <1>1, <2>1, UniqueIDTells
  <2>2. ASSUME SameFile(file, g)
        PROVE  UniqueID(Info(g)) = uid
    <3>1. Info(g).type = Info(file).type /\ Info(g).id = Info(file).id /\ Info(g).size = Info(file).size
      BY <2>2, InfoReads, <1>1 DEF SameFile
    <3> QED BY <1>1, <3>1 DEF UniqueID
  <2> QED BY <2>1, <2>2
<1>3. ASSUME file.class = "document", step \in {"pathed", "served"}
      PROVE  fileUid = uid
  <2>1. fileUid = UniqueID(Decode(fid))
    BY <1>3 DEF FilesInv
  <2>2. /\ Decode(fid).type = Info(file).type /\ Decode(fid).id = Info(file).id
        /\ Decode(fid).size = Info(file).size
    <3>1. Info(file).size = <<>>
      BY <1>1, <1>3, InfoReads DEF File
    <3> QED BY <1>1, <3>1, InfoReads
  <2> QED BY <1>1, <2>1, <2>2 DEF UniqueID
<1> QED BY <1>2, <1>3

(***************************************************************************)
(* For words of every width and every file an id leads back to the file it *)
(* was shown for, with its reference if that can be read and else a piece  *)
(* of it: what fileid.go encodes it decodes, and what getFile signs into a *)
(* path the download reads back.                                           *)
(***************************************************************************)
THEOREM FilesLeadBack == FilesSpec => []FileIdsLeadBack
<1> QED BY FilesKeep, LeadBack, PTL

(***************************************************************************)
(* Whatever string a client passes as an id, a path that is served serves  *)
(* what sending the string would send, to the bot it was signed for.       *)
(***************************************************************************)
THEOREM FilesPathsServe == FilesSpec => []PathsServeTheId
<1> QED BY FilesKeep, PathsServe, PTL

(***************************************************************************)
(* file_unique_ids are equal for the same file only, and getFile gives a   *)
(* document the one it was shown with.                                     *)
(***************************************************************************)
THEOREM FilesToldApart == FilesSpec => []UniqueIdsTellApart
<1> QED BY FilesKeep, TellApart, PTL

-----------------------------------------------------------------------------
(* The decimal digits of inline_message_ids.                               *)

LEMMA DigitsOfDef ==
  /\ \A n \in Nat : DigitsOf[n] \in Seq(Digit)
  /\ \A n \in Nat : DigitsOf[n] = IF n < 10 THEN <<n>> ELSE Append(DigitsOf[n \div 10], n % 10)
<1> DEFINE m == [n \in Nat |-> n]
           Base == 0..9
           base == [n \in Nat |-> <<n>>]
           prev == [n \in Nat |-> n \div 10]
           join == [p \in Nat \X Seq(Digit) |-> Append(p[2], p[1] % 10)]
           Is(g) == g = [n \in Nat |-> IF n < 10 THEN <<n>> ELSE Append(g[n \div 10], n % 10)]
<1>1. PICK f \in [Nat -> Seq(Digit)] : Solves(f, Nat, Base, base, prev, join)
  <2>1. /\ m \in [Nat -> Nat]
        /\ \A n \in Base : base[n] \in Seq(Digit)
    BY DEF Digit
  <2>2. \A n \in Nat \ Base : prev[n] \in Nat /\ m[prev[n]] < m[n]
    OBVIOUS
  <2>3. \A n \in Nat \ Base : \A y \in Seq(Digit) : join[<<n, y>>] \in Seq(Digit)
    BY DEF Digit
  <2> HIDE DEF m, Base, base, prev, join
  <2> QED BY <2>1, <2>2, <2>3, RecursionDefines
<1>2. Is(f)
  <2>1. ASSUME NEW n \in Nat
        PROVE  f[n] = IF n < 10 THEN <<n>> ELSE Append(f[n \div 10], n % 10)
    <3>1. f[n] = IF n \in Base THEN base[n] ELSE join[<<n, f[prev[n]]>>]
      <4> HIDE DEF m, Base, base, prev, join
      <4> QED BY <1>1 DEF Solves
    <3>2. n \div 10 \in Nat /\ prev[n] = n \div 10 /\ (n \in Base <=> n < 10) /\ base[n] = <<n>>
      OBVIOUS
    <3>3. join[<<n, f[n \div 10]>>] = Append(f[n \div 10], n % 10)
      <4> DEFINE d == f[n \div 10]
      <4>1. d \in Seq(Digit)
        BY <3>2
      <4> HIDE DEF d
      <4>2. <<n, d>> \in Nat \X Seq(Digit) /\ <<n, d>>[1] = n /\ <<n, d>>[2] = d
        BY <4>1
      <4>3. join[<<n, d>>] = Append(<<n, d>>[2], <<n, d>>[1] % 10)
        BY <4>2
      <4> QED BY <4>2, <4>3 DEF d
    <3> HIDE DEF m, Base, base, prev, join
    <3> QED BY <3>1, <3>2, <3>3
  <2> QED BY <2>1
<1>3. Is(DigitsOf)
  <2>1. DigitsOf = CHOOSE g : Is(g)
    BY DEF DigitsOf
  <2> HIDE DEF Is
  <2> QED BY <1>2, <2>1
<1>4. \A n \in Nat : DigitsOf[n] = IF n < 10 THEN <<n>> ELSE Append(DigitsOf[n \div 10], n % 10)
  BY <1>3
<1>5. \A n \in Nat : DigitsOf[n] \in Seq(Digit)
  <2> DEFINE Good == {n \in Nat : DigitsOf[n] \in Seq(Digit)}
  <2>1. ASSUME NEW n \in Nat, \A k \in Nat : k < n => k \in Good
        PROVE  n \in Good
    <3>1. CASE n < 10
      <4>1. n \in Digit
        BY <3>1 DEF Digit
      <4>2. <<n>> \in Seq(Digit)
        BY <4>1
      <4>3. DigitsOf[n] = <<n>>
        BY <1>4, <3>1
      <4> QED BY <4>2, <4>3
    <3>2. CASE ~(n < 10)
      <4> DEFINE q == n \div 10
                 r == n % 10
      <4>1. q \in Nat /\ q < n /\ r \in Digit
        BY <3>2 DEF Digit
      <4>2. DigitsOf[n] = Append(DigitsOf[q], r)
        BY <1>4, <3>2
      <4> HIDE DEF q, r
      <4>3. DigitsOf[q] \in Seq(Digit)
        BY <2>1, <4>1
      <4>4. Append(DigitsOf[q], r) \in Seq(Digit)
        BY <4>1, <4>3
      <4> QED BY <4>2, <4>4
    <3> QED BY <3>1, <3>2
  <2> HIDE DEF Good
  <2>2. Nat \subseteq Good
    BY <2>1, ByNumber
  <2> QED BY <2>2 DEF Good
<1> QED BY <1>4, <1>5

LEMMA FrontLast ==
  ASSUME NEW T, NEW b \in Seq(T), b # <<>>
  PROVE  /\ SubSeq(b, 1, Len(b) - 1) \in Seq(T) /\ Len(SubSeq(b, 1, Len(b) - 1)) < Len(b)
         /\ Len(b) \in Nat \ {0} /\ b[Len(b)] \in T
OBVIOUS

LEMMA FrontOfAppend ==
  ASSUME NEW T, NEW b \in Seq(T), NEW x \in T
  PROVE  /\ Append(b, x) \in Seq(T) /\ Append(b, x) # <<>>
         /\ SubSeq(Append(b, x), 1, Len(Append(b, x)) - 1) = b
         /\ Append(b, x)[Len(Append(b, x))] = x
OBVIOUS

(* The digit before the last and those before it.                          *)
Before(b) == SubSeq(b, 1, Len(b) - 1)

LEMMA BeforeIsShorter ==
  ASSUME NEW b \in Seq(Digit), b # <<>>
  PROVE  /\ Before(b) \in Seq(Digit) /\ Len(Before(b)) < Len(b)
         /\ b[Len(b)] \in Nat /\ b[Len(b)] \in Digit
BY FrontLast DEF Before, Digit

LEMMA NumberDef ==
  /\ \A b \in Seq(Digit) : Number[b] \in Nat
  /\ \A b \in Seq(Digit) : Number[b] = IF b = <<>> THEN 0 ELSE 10 * Number[Before(b)] + b[Len(b)]
<1> DEFINE m == [b \in Seq(Digit) |-> Len(b)]
           Base == {<<>>}
           base == [b \in Seq(Digit) |-> 0]
           prev == [b \in Seq(Digit) |-> Before(b)]
           join == [p \in Seq(Digit) \X Nat |-> 10 * p[2] + p[1][Len(p[1])]]
           Is(g) == g = [b \in Seq(Digit) |-> IF b = <<>> THEN 0 ELSE 10 * g[Before(b)] + b[Len(b)]]
<1>1. PICK f \in [Seq(Digit) -> Nat] : Solves(f, Seq(Digit), Base, base, prev, join)
  <2>1. /\ m \in [Seq(Digit) -> Nat]
        /\ \A b \in Base : base[b] \in Nat
    OBVIOUS
  <2>2. \A b \in Seq(Digit) \ Base : prev[b] \in Seq(Digit) /\ m[prev[b]] < m[b]
    BY BeforeIsShorter
  <2>3. \A b \in Seq(Digit) \ Base : \A y \in Nat : join[<<b, y>>] \in Nat
    BY BeforeIsShorter
  <2> HIDE DEF m, Base, base, prev, join
  <2> QED BY <2>1, <2>2, <2>3, RecursionDefines
<1>2. Is(f)
  <2>1. ASSUME NEW b \in Seq(Digit)
        PROVE  f[b] = IF b = <<>> THEN 0 ELSE 10 * f[Before(b)] + b[Len(b)]
    <3>1. CASE b = <<>>
      BY <1>1, <3>1 DEF Solves
    <3>2. CASE b # <<>>
      <4>1. Before(b) \in Seq(Digit)
        BY <3>2, BeforeIsShorter
      <4>2. f[b] = join[<<b, f[Before(b)]>>]
        BY <1>1, <3>2 DEF Solves
      <4> QED BY <3>2, <4>1, <4>2
    <3> QED BY <3>1, <3>2
  <2> QED BY <2>1
<1>3. Is(Number)
  <2>1. Number = CHOOSE g : Is(g)
    BY DEF Number, Before
  <2> HIDE DEF Is
  <2> QED BY <1>2, <2>1
<1>4. \A b \in Seq(Digit) : Number[b] = IF b = <<>> THEN 0 ELSE 10 * Number[Before(b)] + b[Len(b)]
  BY <1>3
<1>5. \A b \in Seq(Digit) : Number[b] \in Nat
  <2> DEFINE Good == {b \in Seq(Digit) : Number[b] \in Nat}
  <2>1. ASSUME NEW b \in Seq(Digit), \A c \in Seq(Digit) : Len(c) < Len(b) => c \in Good
        PROVE  b \in Good
    <3>1. CASE b = <<>>
      <4>1. Number[b] = 0
        BY <1>4, <3>1
      <4> QED BY <4>1
    <3>2. CASE b # <<>>
      <4>1. Before(b) \in Seq(Digit) /\ Len(Before(b)) < Len(b) /\ b[Len(b)] \in Nat
        BY <3>2, BeforeIsShorter
      <4>2. Number[Before(b)] \in Nat
        BY <2>1, <4>1
      <4>3. Number[b] = 10 * Number[Before(b)] + b[Len(b)]
        BY <1>4, <3>2
      <4>4. Number[b] \in Nat
        BY <4>1, <4>2, <4>3
      <4> QED BY <4>4
    <3> QED BY <3>1, <3>2
  <2> HIDE DEF Good
  <2>2. Seq(Digit) \subseteq Good
    BY <2>1, ByLength
  <2> QED BY <2>2 DEF Good
<1> QED BY <1>4, <1>5

(* The digits written for a number are those that spell it.                *)
LEMMA DigitsSpell == \A n \in Nat : Number[DigitsOf[n]] = n /\ DigitsOf[n] # <<>>
<1> DEFINE Good == {n \in Nat : Number[DigitsOf[n]] = n /\ DigitsOf[n] # <<>>}
<1>1. ASSUME NEW n \in Nat, \A k \in Nat : k < n => k \in Good
      PROVE  n \in Good
  <2>1. CASE n < 10
    <3> DEFINE b == <<n>>
    <3>1. b \in Seq(Digit) /\ b # <<>> /\ Before(b) = <<>> /\ b[Len(b)] = n /\ <<>> \in Seq(Digit)
      BY <2>1 DEF Digit, Before
    <3>2. DigitsOf[n] = b
      BY <2>1, DigitsOfDef
    <3> HIDE DEF b
    <3>3. Number[<<>>] = 0
      BY <3>1, NumberDef
    <3>4. Number[b] = 10 * Number[<<>>] + n
      BY <3>1, NumberDef
    <3> QED BY <3>1, <3>2, <3>3, <3>4
  <2>2. CASE ~(n < 10)
    <3> DEFINE q == n \div 10
               r == n % 10
               d == DigitsOf[q]
               b == Append(d, r)
    <3>1. q \in Nat /\ q < n /\ r \in Digit /\ n = 10 * q + r
      BY <2>2 DEF Digit
    <3>2. DigitsOf[n] = b
      BY <2>2, DigitsOfDef
    <3> HIDE DEF q, r
    <3>3. d \in Seq(Digit) /\ Number[d] = q
      BY <1>1, <3>1, DigitsOfDef
    <3> HIDE DEF d
    <3>4. b \in Seq(Digit) /\ b # <<>> /\ Before(b) = d /\ b[Len(b)] = r
      BY <3>1, <3>3, FrontOfAppend DEF Before
    <3> HIDE DEF b
    <3>5. Number[b] = 10 * q + r
      BY <3>3, <3>4, NumberDef
    <3> QED BY <3>1, <3>2, <3>4, <3>5
  <2> QED BY <2>1, <2>2
<1> HIDE DEF Good
<1>2. Nat \subseteq Good
  BY <1>1, ByNumber
<1> QED BY <1>2 DEF Good

-----------------------------------------------------------------------------
(* Integers of a width.                                                    *)

LEMMA WrapIs ==
  ASSUME NEW h \in Nat, h > 0, NEW n \in Int
  PROVE  /\ Wrap(n, h) \in Ints(h) /\ Wrap(n, h) \in Int
         /\ \E q \in Int : n = Wrap(n, h) + (2 * h) * q
<1> DEFINE M == 2 * h
           a == n + h
           r == a % M
           q == a \div M
<1>1. M \in Nat /\ M > 0 /\ a \in Int /\ M = h + h
  OBVIOUS
<1> HIDE DEF M, a
<1>2. r \in 0..(M - 1) /\ q \in Int /\ a = M * q + r
  BY <1>1
<1>3. Wrap(n, h) = r - h
  BY DEF Wrap, r, a, M
<1> HIDE DEF r, q
<1>4. n = (r - h) + M * q
  <2>1. a = n + h
    BY DEF a
  <2> QED BY <1>1, <1>2, <2>1
<1> QED BY <1>1, <1>2, <1>3, <1>4 DEF Ints, M

(* Of the numbers that differ by multiples of the range, one is in it.     *)
LEMMA WrapUnique ==
  ASSUME NEW h \in Nat, h > 0, NEW r \in Ints(h), NEW q \in Int, NEW n, n = r + (2 * h) * q
  PROVE  Wrap(n, h) = r
<1> DEFINE M == 2 * h
           e == r + h
<1>1. M \in Nat /\ M > 0 /\ M = h + h /\ r \in Int /\ e \in 0..(M - 1)
  BY DEF Ints
<1>2. n + h = M * q + e
  BY <1>1
<1> HIDE DEF e, M
<1>3. (M * q + e) % M = e
  BY <1>1
<1>4. Wrap(n, h) = e - h
  BY <1>2, <1>3 DEF Wrap, M
<1> QED BY <1>1, <1>4 DEF e

LEMMA WrapSame ==
  ASSUME NEW h \in Nat, h > 0, NEW n \in Ints(h)
  PROVE  Wrap(n, h) = n
<1>1. 0 \in Int /\ n \in Int /\ n = n + (2 * h) * 0
  BY DEF Ints
<1> QED BY <1>1, WrapUnique

Differ(n, r, M) == \E q \in Int : n = r + M * q

(* Sums and products may be wrapped before or after.                       *)
LEMMA WrapStep ==
  ASSUME NEW h \in Nat, h > 0, NEW n \in Int, NEW d \in Int, NEW k \in Int
  PROVE  Wrap(k * Wrap(n, h) + d, h) = Wrap(k * n + d, h)
<1> DEFINE w == Wrap(n, h)
           x == k * w + d
           y == Wrap(x, h)
           M == 2 * h
<1>1. w \in Int /\ Differ(n, w, M)
  BY WrapIs DEF Differ
<1> HIDE DEF w
<1>2. PICK q \in Int : n = w + M * q
  BY <1>1 DEF Differ
<1>3. x \in Int /\ M \in Int
  BY <1>1
<1>4. y \in Ints(h) /\ y \in Int /\ Differ(x, y, M)
  <2> HIDE DEF x
  <2> QED BY <1>3, WrapIs DEF Differ
<1> HIDE DEF y
<1>5. PICK p \in Int : x = y + M * p
  BY <1>4 DEF Differ
<1> HIDE DEF M
<1>6. k * n + d = y + M * (p + k * q)
  <2>1. k * n = k * w + k * (M * q)
    BY <1>1, <1>2, <1>3
  <2>2. k * (M * q) = M * (k * q)
    BY <1>3
  <2>3. M * (p + k * q) = M * p + M * (k * q)
    BY <1>3
  <2> QED BY <1>1, <1>3, <1>4, <1>5, <2>1, <2>2, <2>3
<1> DEFINE z == k * n + d
           j == p + k * q
<1>7. j \in Int /\ z = y + M * j
  BY <1>6
<1> HIDE DEF z, j
<1>8. Wrap(z, h) = y
  BY <1>4, <1>7, WrapUnique DEF M
<1> QED BY <1>8 DEF z, y, x, w

LEMMA LongPositive == Long \in Nat /\ Long > 0 /\ Short \in Nat /\ Short > 0 /\ Short <= Long
BY InlineIdsAssumption

LEMMA AccumulatedDef ==
  /\ \A b \in Seq(Digit) : Accumulated[b] \in Int
  /\ \A b \in Seq(Digit) :
       Accumulated[b] = IF b = <<>> THEN 0 ELSE Wrap(10 * Accumulated[Before(b)] + b[Len(b)], Long)
<1> DEFINE m == [b \in Seq(Digit) |-> Len(b)]
           Base == {<<>>}
           base == [b \in Seq(Digit) |-> 0]
           prev == [b \in Seq(Digit) |-> Before(b)]
           join == [p \in Seq(Digit) \X Int |-> Wrap(10 * p[2] + p[1][Len(p[1])], Long)]
           Is(g) == g = [b \in Seq(Digit) |->
                           IF b = <<>> THEN 0 ELSE Wrap(10 * g[Before(b)] + b[Len(b)], Long)]
<1>0. ASSUME NEW b \in Seq(Digit), b # <<>>, NEW y \in Int
      PROVE  Wrap(10 * y + b[Len(b)], Long) \in Int
  <2> DEFINE x == 10 * y + b[Len(b)]
  <2>1. x \in Int
    BY <1>0, BeforeIsShorter
  <2> HIDE DEF x
  <2>2. Wrap(x, Long) \in Int
    BY <2>1, WrapIs, LongPositive
  <2> QED BY <2>2 DEF x
<1>1. PICK f \in [Seq(Digit) -> Int] : Solves(f, Seq(Digit), Base, base, prev, join)
  <2>1. /\ m \in [Seq(Digit) -> Nat]
        /\ \A b \in Base : base[b] \in Int
    OBVIOUS
  <2>2. \A b \in Seq(Digit) \ Base : prev[b] \in Seq(Digit) /\ m[prev[b]] < m[b]
    BY BeforeIsShorter
  <2>3. \A b \in Seq(Digit) \ Base : \A y \in Int : join[<<b, y>>] \in Int
    BY <1>0
  <2> HIDE DEF m, Base, base, prev, join
  <2> QED BY <2>1, <2>2, <2>3, RecursionDefines
<1>2. Is(f)
  <2>1. ASSUME NEW b \in Seq(Digit)
        PROVE  f[b] = IF b = <<>> THEN 0 ELSE Wrap(10 * f[Before(b)] + b[Len(b)], Long)
    <3>1. CASE b = <<>>
      BY <1>1, <3>1 DEF Solves
    <3>2. CASE b # <<>>
      <4>1. Before(b) \in Seq(Digit)
        BY <3>2, BeforeIsShorter
      <4>2. f[b] = join[<<b, f[Before(b)]>>]
        BY <1>1, <3>2 DEF Solves
      <4> QED BY <3>2, <4>1, <4>2
    <3> QED BY <3>1, <3>2
  <2> QED BY <2>1
<1>3. Is(Accumulated)
  <2>1. Accumulated = CHOOSE g : Is(g)
    BY DEF Accumulated, Before
  <2> HIDE DEF Is
  <2> QED BY <1>2, <2>1
<1>4. \A b \in Seq(Digit) :
        Accumulated[b] = IF b = <<>> THEN 0 ELSE Wrap(10 * Accumulated[Before(b)] + b[Len(b)], Long)
  BY <1>3
<1>5. \A b \in Seq(Digit) : Accumulated[b] \in Int
  <2> DEFINE Good == {b \in Seq(Digit) : Accumulated[b] \in Int}
  <2>1. ASSUME NEW b \in Seq(Digit), \A c \in Seq(Digit) : Len(c) < Len(b) => c \in Good
        PROVE  b \in Good
    <3>1. CASE b = <<>>
      <4>1. Accumulated[b] = 0
        BY <1>4, <3>1
      <4> QED BY <4>1
    <3>2. CASE b # <<>>
      <4>1. Before(b) \in Seq(Digit) /\ Len(Before(b)) < Len(b)
        BY <3>2, BeforeIsShorter
      <4>2. Accumulated[Before(b)] \in Int
        BY <2>1, <4>1
      <4>3. Accumulated[b] = Wrap(10 * Accumulated[Before(b)] + b[Len(b)], Long)
        BY <1>4, <3>2
      <4>4. Accumulated[b] \in Int
        BY <1>0, <3>2, <4>2, <4>3
      <4> QED BY <4>4
    <3> QED BY <3>1, <3>2
  <2> HIDE DEF Good
  <2>2. Seq(Digit) \subseteq Good
    BY <2>1, ByLength
  <2> QED BY <2>2 DEF Good
<1> QED BY <1>4, <1>5

(* Without a test for overflow, what is read is what was spelled, wrapped. *)
LEMMA AccumulatedWraps == \A b \in Seq(Digit) : Accumulated[b] = Wrap(Number[b], Long)
<1> DEFINE Good == {b \in Seq(Digit) : Accumulated[b] = Wrap(Number[b], Long)}
<1>1. ASSUME NEW b \in Seq(Digit), \A c \in Seq(Digit) : Len(c) < Len(b) => c \in Good
      PROVE  b \in Good
  <2>1. CASE b = <<>>
    <3>1. Accumulated[b] = 0 /\ Number[b] = 0
      BY <2>1, AccumulatedDef, NumberDef
    <3>2. 0 \in Ints(Long)
      BY LongPositive DEF Ints
    <3>3. Wrap(0, Long) = 0
      BY <3>2, LongPositive, WrapSame
    <3> QED BY <3>1, <3>3
  <2>2. CASE b # <<>>
    <3> DEFINE n == Number[Before(b)]
               d == b[Len(b)]
    <3>1. Before(b) \in Seq(Digit) /\ Len(Before(b)) < Len(b) /\ d \in Int
      BY <2>2, BeforeIsShorter
    <3>2. n \in Int /\ Number[b] = 10 * n + d
      BY <2>2, <3>1, NumberDef
    <3>3. Accumulated[Before(b)] = Wrap(n, Long)
      BY <1>1, <3>1
    <3>4. Accumulated[b] = Wrap(10 * Wrap(n, Long) + d, Long)
      BY <2>2, <3>3, AccumulatedDef
    <3> HIDE DEF n, d
    <3>5. Wrap(10 * Wrap(n, Long) + d, Long) = Wrap(10 * n + d, Long)
      <4>1. 10 \in Int
        OBVIOUS
      <4> QED BY <3>1, <3>2, <4>1, LongPositive, WrapStep
    <3> QED BY <3>2, <3>4, <3>5
  <2> QED BY <2>1, <2>2
<1> HIDE DEF Good
<1>2. Seq(Digit) \subseteq Good
  BY <1>1, ByLength
<1> QED BY <1>2 DEF Good

LEMMA ParseWraps ==
  ASSUME NEW part, part.digits \in Seq(Digit)
  PROVE  Spelled(part) \in Int /\ jsonParseInt(part) = Wrap(Spelled(part), Long)
<1> DEFINE n == Number[part.digits]
           a == Accumulated[part.digits]
<1>1. n \in Int /\ a = Wrap(n, Long)
  BY NumberDef, AccumulatedWraps
<1> HIDE DEF n, a
<1>2. CASE part.sign = "-"
  <2>1. Spelled(part) = -n /\ jsonParseInt(part) = Wrap(-a, Long)
    BY <1>2 DEF Spelled, jsonParseInt, n, a
  <2>2. Wrap((-1) * Wrap(n, Long) + 0, Long) = Wrap((-1) * n + 0, Long)
    <3>1. -1 \in Int /\ 0 \in Int
      OBVIOUS
    <3> QED BY <1>1, <3>1, LongPositive, WrapStep
  <2>3. a \in Int
    BY <1>1, LongPositive, WrapIs
  <2>4. (-1) * a + 0 = -a /\ (-1) * n + 0 = -n /\ -n \in Int
    BY <1>1, <2>3
  <2> QED BY <1>1, <2>1, <2>2, <2>4
<1>3. CASE part.sign # "-"
  BY <1>1, <1>3 DEF Spelled, jsonParseInt, n, a
<1> QED BY <1>2, <1>3

(* A number that has a place in a field is read as what it is.             *)
LEMMA FieldRead ==
  ASSUME NEW part, part.digits \in Seq(Digit), NEW w \in {Short, Long}, Spelled(part) \in Ints(w)
  PROVE  Wrap(jsonParseInt(part), w) = Spelled(part)
<1>1. w \in Nat /\ w > 0 /\ w <= Long
  BY LongPositive
<1>2. Spelled(part) \in Ints(Long)
  BY <1>1, LongPositive DEF Ints
<1>3. jsonParseInt(part) = Spelled(part)
  BY <1>2, LongPositive, ParseWraps, WrapSame
<1> QED BY <1>1, <1>3, WrapSame

LEMMA WidthsAre ==
  ASSUME NEW n \in {3, 4}, NEW k \in 1..n
  PROVE  Widths(n)[k] \in {Short, Long}
BY DEF Widths

LEMMA PartsAreDigits ==
  ASSUME NEW part \in Part, WellFormed(part)
  PROVE  part.digits \in Seq(Digit)
<1> DEFINE d == part.digits
<1>1. d \in Seq(Digit \cup {NoDigit})
  BY DEF Part
<1>2. \A k \in DOMAIN d : d[k] \in Digit
  BY DEF WellFormed
<1> HIDE DEF d
<1>3. d = [k \in 1..Len(d) |-> d[k]] /\ DOMAIN d = 1..Len(d) /\ Len(d) \in Nat
  BY <1>1
<1>4. [k \in 1..Len(d) |-> d[k]] \in Seq(Digit)
  BY <1>2, <1>3
<1> QED BY <1>3, <1>4 DEF d

LEMMA DigitsForm ==
  ASSUME NEW part, part.digits \in Seq(Digit), part.digits # <<>>
  PROVE  WellFormed(part)
<1> DEFINE d == part.digits
<1>1. d \in Seq(Digit) /\ d # <<>>
  OBVIOUS
<1> HIDE DEF d
<1>2. \A k \in DOMAIN d : d[k] \in Digit
  BY <1>1
<1> QED BY <1>1, <1>2 DEF WellFormed, d

LEMMA WrittenSpells ==
  ASSUME NEW n \in Int
  PROVE  /\ WellFormed(itoa64(n)) /\ itoa64(n).digits \in Seq(Digit)
         /\ Spelled(itoa64(n)) = n
<1>1. CASE n < 0
  <2>1. -n \in Nat /\ -(-n) = n
    BY <1>1
  <2>2. itoa64(n).digits = DigitsOf[-n] /\ itoa64(n).sign = "-"
    BY <1>1 DEF itoa64
  <2>3. DigitsOf[-n] \in Seq(Digit) /\ DigitsOf[-n] # <<>> /\ Number[DigitsOf[-n]] = -n
    BY <2>1, DigitsOfDef, DigitsSpell
  <2>4. Spelled(itoa64(n)) = n
    BY <2>1, <2>2, <2>3 DEF Spelled
  <2>5. WellFormed(itoa64(n))
    BY <2>2, <2>3, DigitsForm
  <2> QED BY <2>2, <2>3, <2>4, <2>5
<1>2. CASE ~(n < 0)
  <2>1. n \in Nat
    BY <1>2
  <2>2. itoa64(n).digits = DigitsOf[n] /\ itoa64(n).sign = ""
    BY <1>2 DEF itoa64
  <2>3. DigitsOf[n] \in Seq(Digit) /\ DigitsOf[n] # <<>> /\ Number[DigitsOf[n]] = n
    BY <2>1, DigitsOfDef, DigitsSpell
  <2>4. Spelled(itoa64(n)) = n
    BY <2>2, <2>3 DEF Spelled
  <2>5. WellFormed(itoa64(n))
    BY <2>2, <2>3, DigitsForm
  <2> QED BY <2>2, <2>3, <2>4, <2>5
<1> QED BY <1>1, <1>2

-----------------------------------------------------------------------------
(* What the bot holds and what is read of it.                              *)
InlineInv ==
  /\ inlineID \in InlineIDs \cup {<<>>}
  /\ istep \in {"sent", "held", "read", "refused"}
  /\ istep = "sent" => inlineID \in InlineIDs
  /\ istep # "sent" /\ inlineID # <<>> => itext = inlineMsgID(inlineID)
  /\ istep # "sent" /\ inlineID = <<>> => itext \in ForeignTexts
  /\ istep = "read" => Accepted(itext) /\ decoded = decodeInlineMessageID(itext)
  /\ istep = "refused" => ~Accepted(itext)

LEMMA InlineStart == InlineInit => InlineInv
<1> SUFFICES ASSUME InlineInit PROVE InlineInv
  OBVIOUS
<1> QED BY DEF InlineInit, InlineInv

LEMMA InlineStep ==
  ASSUME InlineInv, [InlineNext]_inlineVars
  PROVE  InlineInv'
<1>1. CASE Write
  <2>1. inlineID # <<>>
    <3>1. inlineID \in InlineIDs
      BY <1>1 DEF Write, InlineInv
    <3>2. Len(inlineID) \in {3, 4}
      BY <3>1, TextsAssumption DEF InlineID
    <3>3. Len(<<>>) = 0
      OBVIOUS
    <3> QED BY <3>2, <3>3
  <2> QED BY <1>1, <2>1 DEF Write, InlineInv
<1>2. CASE EditInline
  BY <1>2 DEF EditInline, InlineInv
<1>3. CASE UNCHANGED inlineVars
  BY <1>3 DEF inlineVars, InlineInv
<1> QED BY <1>1, <1>2, <1>3 DEF InlineNext

LEMMA InlineKeep == InlineSpec => []InlineInv
<1> QED BY InlineStart, InlineStep, PTL DEF InlineSpec

LEMMA FunctionSeq ==
  ASSUME NEW T, NEW n \in Nat, NEW f \in [1..n -> T]
  PROVE  f \in Seq(T) /\ Len(f) = n /\ DOMAIN f = 1..n
OBVIOUS

(* The text of an id spells its fields, each of which has its place.       *)
LEMMA TextSpells ==
  ASSUME NEW fields \in InlineIDs
  PROVE  LET text == inlineMsgID(fields)
         IN  /\ Accepted(text) /\ Len(text) = Len(fields) /\ Len(text) \in {3, 4}
             /\ DOMAIN text = 1..Len(text) /\ fields = [k \in 1..Len(text) |-> fields[k]]
             /\ \A k \in 1..Len(text) :
                  /\ text[k].digits \in Seq(Digit) /\ Spelled(text[k]) = fields[k]
                  /\ fields[k] \in Ints(Widths(Len(text))[k])
<1> DEFINE n == Len(fields)
           text == inlineMsgID(fields)
<1>1. /\ fields \in Seq(Int) /\ n \in {3, 4} /\ DOMAIN fields = 1..n /\ n \in Nat
      /\ fields = [k \in 1..n |-> fields[k]]
      /\ \A k \in 1..n : fields[k] \in Int /\ fields[k] \in Ints(Widths(n)[k])
  <2>1. fields \in Seq(Int) /\ InlineID(fields)
    BY TextsAssumption
  <2>2. fields \in Seq(Int) /\ n \in Nat /\ DOMAIN fields = 1..n
        /\ fields = [k \in 1..n |-> fields[k]] /\ \A k \in 1..n : fields[k] \in Int
    BY <2>1
  <2> QED BY <2>1, <2>2 DEF InlineID
<1> HIDE DEF n
<1>2. text = [k \in 1..n |-> itoa64(fields[k])]
  BY <1>1 DEF inlineMsgID
<1> HIDE DEF text
<1>3. DOMAIN text = 1..n /\ Len(text) = n
  <2> DEFINE T == {itoa64(fields[k]) : k \in 1..n}
  <2>0. \A k \in 1..n : itoa64(fields[k]) \in T
    OBVIOUS
  <2> HIDE DEF T
  <2>1. text \in [1..n -> T]
    BY <1>2, <2>0
  <2>2. n \in Nat
    BY <1>1
  <2> QED BY <2>1, <2>2, FunctionSeq
<1>4. ASSUME NEW k \in 1..n
      PROVE  /\ WellFormed(text[k]) /\ text[k].digits \in Seq(Digit)
             /\ Spelled(text[k]) = fields[k]
  <2>1. text[k] = itoa64(fields[k]) /\ fields[k] \in Int
    BY <1>1, <1>2
  <2> QED BY <2>1, WrittenSpells
<1>5. Accepted(text)
  BY <1>1, <1>3, <1>4 DEF Accepted
<1> QED BY <1>1, <1>3, <1>4, <1>5 DEF n, text

LEMMA ReadBack == InlineInv => InlineIdsReadBack
<1> SUFFICES ASSUME InlineInv PROVE InlineIdsReadBack
  OBVIOUS
<1>1. ASSUME istep = "read", inlineID # <<>>
      PROVE  decoded = inlineID
  <2>1. inlineID \in InlineIDs /\ itext = inlineMsgID(inlineID) /\ decoded = decodeInlineMessageID(itext)
    BY <1>1 DEF InlineInv
  <2> DEFINE n == Len(itext)
  <2>2. /\ n \in {3, 4} /\ DOMAIN itext = 1..n /\ inlineID = [k \in 1..n |-> inlineID[k]]
        /\ \A k \in 1..n : /\ itext[k].digits \in Seq(Digit) /\ Spelled(itext[k]) = inlineID[k]
                           /\ inlineID[k] \in Ints(Widths(n)[k])
    BY <2>1, TextSpells
  <2>3. decoded = [k \in 1..n |-> Wrap(jsonParseInt(itext[k]), Widths(n)[k])]
    BY <2>1, <2>2 DEF decodeInlineMessageID
  <2> HIDE DEF n
  <2>4. ASSUME NEW k \in 1..n
        PROVE  Wrap(jsonParseInt(itext[k]), Widths(n)[k]) = inlineID[k]
    <3> DEFINE w == Widths(n)[k]
               part == itext[k]
    <3>1. w \in {Short, Long} /\ part.digits \in Seq(Digit) /\ Spelled(part) \in Ints(w)
          /\ Spelled(part) = inlineID[k]
      BY <2>2, WidthsAre
    <3> HIDE DEF w, part
    <3>2. Wrap(jsonParseInt(part), w) = Spelled(part)
      BY <3>1, FieldRead
    <3> QED BY <3>1, <3>2 DEF w, part
  <2> QED BY <2>2, <2>3, <2>4
<1>2. ASSUME istep = "read", InRange(itext), NEW k \in DOMAIN itext
      PROVE  decoded[k] = Spelled(itext[k])
  <2>1. CASE inlineID = <<>>
    <3> DEFINE n == Len(itext)
               w == Widths(n)[k]
               part == itext[k]
    <3>1. itext \in Seq(Part) /\ n \in {3, 4} /\ WellFormed(part) /\ decoded = decodeInlineMessageID(itext)
      <4>1. itext \in ForeignTexts /\ Accepted(itext) /\ decoded = decodeInlineMessageID(itext)
        BY <1>2, <2>1 DEF InlineInv
      <4> QED BY <1>2, <4>1, TextsAssumption DEF Accepted
    <3>2. k \in 1..n /\ part \in Part
      BY <1>2, <3>1
    <3>3. decoded[k] = Wrap(jsonParseInt(part), w) /\ Spelled(part) \in Ints(w)
      BY <1>2, <3>1 DEF decodeInlineMessageID, InRange
    <3> HIDE DEF part
    <3>4. part.digits \in Seq(Digit)
      BY <3>1, <3>2, PartsAreDigits
    <3>5. w \in {Short, Long}
      BY <3>1, <3>2, WidthsAre
    <3> HIDE DEF w
    <3>6. Wrap(jsonParseInt(part), w) = Spelled(part)
      BY <3>3, <3>4, <3>5, FieldRead
    <3> QED BY <3>3, <3>6 DEF part
  <2>2. CASE inlineID # <<>>
    <3>1. decoded = inlineID /\ inlineID \in InlineIDs /\ itext = inlineMsgID(inlineID)
      BY <1>1, <1>2, <2>2 DEF InlineInv
    <3>2. DOMAIN itext = 1..Len(itext) /\ \A j \in 1..Len(itext) : Spelled(itext[j]) = inlineID[j]
      BY <3>1, TextSpells
    <3> QED BY <1>2, <3>1, <3>2
  <2> QED BY <2>1, <2>2
<1>3. ASSUME istep = "refused"
      PROVE  inlineID = <<>>
  <2> SUFFICES ASSUME inlineID # <<>> PROVE FALSE
    OBVIOUS
  <2>1. inlineID \in InlineIDs /\ itext = inlineMsgID(inlineID) /\ ~Accepted(itext)
    BY <1>3 DEF InlineInv
  <2> QED BY <2>1, TextSpells
<1> QED BY <1>1, <1>2, <1>3 DEF InlineIdsReadBack

(***************************************************************************)
(* "decodeInlineMessageID reverses tlate.inlineMsgID" for every id of two  *)
(* widths of integers, and a text from elsewhere is read as the integers   *)
(* it spells whenever they have a place in its fields.                     *)
(***************************************************************************)
THEOREM InlineReadBack == InlineSpec => []InlineIdsReadBack
<1> QED BY InlineKeep, ReadBack, PTL
=============================================================================
