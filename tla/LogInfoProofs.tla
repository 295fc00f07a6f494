--------------------------- MODULE LogInfoProofs ---------------------------
(***************************************************************************)
(* That a power.loginfo arrives as it was set, for every name, every block *)
(* and every base of the varints.                                          *)
(*                                                                         *)
(* A varint is defined by recursion.  What it is for every number is       *)
(* proved by the least number for which it would not be so (LeastNat),     *)
(* which is how the library's well-founded relations can be used without   *)
(* an operator as a parameter.  What the server reads follows from where   *)
(* the parts of the stream lie (Holds), and BlockInv says how far the block *)
(* has come.                                                               *)
(***************************************************************************)
EXTENDS LogInfo, WellFoundedInduction, TLAPS

\* A set of numbers that is not empty has a least one.  What all numbers have is proved
\* from it: the least number that has it not would follow from smaller ones that do.
LEMMA LeastNat ==
  ASSUME NEW T \in SUBSET Nat, T # {}
  PROVE  \E x \in T : \A y \in T : x <= y
  <1> DEFINE R == OpToRel(<, Nat)
  <1>1. \E x \in T : \A y \in T : ~ (<<y, x>> \in R)
    <2> HIDE DEF R
    <2>1. IsWellFoundedOn(R, Nat)
      BY NatLessThanWellFounded DEF R
    <2> QED
      BY <2>1, WFMin
  <1>2. \A x, y \in Nat : y < x => <<y, x>> \in R
    BY DEF OpToRel
  <1> HIDE DEF R
  <1>3. PICK x \in T : \A y \in T : ~ (<<y, x>> \in R)
    BY <1>1
  <1>4. ASSUME NEW y \in T PROVE x <= y
    <2>1. x \in Nat /\ y \in Nat
      OBVIOUS
    <2>2. ~ (y < x)
      BY <2>1, <1>2, <1>3
    <2> QED
      BY <2>1, <2>2
  <1> QED
    BY <1>4

\* The base of a varint is a number of at least two.
LEMMA BaseType == Base \in Nat /\ Base > 1
  BY LogInfoConstants

\* What dividing by the base gives, as the proofs below need it.
Division(n) ==
  /\ n \div Base \in Nat
  /\ n % Base \in 0 .. Base - 1
  /\ n = Base * (n \div Base) + (n % Base)
  /\ (n % Base) % Base = n % Base
  /\ ((n % Base) + Base) % Base = n % Base
  /\ n < Base => n \div Base = 0 /\ n % Base = n
  /\ n >= Base => n \div Base < n /\ n \div Base >= 1
  /\ \A m \in Nat : n < Base * m <=> n \div Base < m

\* It gives that for every natural number.
LEMMA DivisionHolds == ASSUME NEW n \in Nat PROVE Division(n)
  <1> USE BaseType DEF Division
  <1>1. n \div Base \in Nat
    OBVIOUS
  <1>2. n % Base \in 0 .. Base - 1
    OBVIOUS
  <1>3. n = Base * (n \div Base) + (n % Base)
    OBVIOUS
  <1>4. n < Base => n \div Base = 0 /\ n % Base = n
    OBVIOUS
  <1>5. n >= Base => n \div Base < n /\ n \div Base >= 1
    OBVIOUS
  <1>6. \A m \in Nat : n < Base * m <=> n \div Base < m
    OBVIOUS
  <1>7. (n % Base) % Base = n % Base
    OBVIOUS
  <1>8. ((n % Base) + Base) % Base = n % Base
    OBVIOUS
  <1> QED
    BY <1>1, <1>2, <1>3, <1>4, <1>5, <1>6, <1>7, <1>8

\* What the loop of a varint writes for n, if f is what it writes for the rest.
Written(f, n) ==
  IF n < Base THEN <<n>> ELSE <<(n % Base) + Base>> \o f[n \div Base]

\* f is what Digits should be, up to n.
UpTo(n) == {f \in [Nat -> Seq(Nat)] : \A m \in 0 .. n : f[m] = Written(f, m)}

\* What is written for n is a sequence of numbers, ...
LEMMA WrittenType ==
  ASSUME NEW f \in [Nat -> Seq(Nat)], NEW n \in Nat
  PROVE  Written(f, n) \in Seq(Nat)
  <1>1. Division(n)
    BY DivisionHolds
  <1>2. n \div Base \in Nat /\ (n % Base) + Base \in Nat
    BY <1>1, BaseType DEF Division
  <1>3. f[n \div Base] \in Seq(Nat)
    BY <1>2
  <1>4. <<(n % Base) + Base>> \in Seq(Nat) /\ <<n>> \in Seq(Nat)
    BY <1>2
  <1>5. <<(n % Base) + Base>> \o f[n \div Base] \in Seq(Nat)
    BY <1>3, <1>4
  <1> QED
    BY <1>4, <1>5, Zenon DEF Written

\* ... and depends on f only at smaller numbers.
LEMMA WrittenLocal ==
  ASSUME NEW f, NEW g, NEW n \in Nat,
         \A m \in 0 .. n - 1 : f[m] = g[m]
  PROVE  Written(f, n) = Written(g, n)
  <1>1. CASE n < Base
    BY <1>1 DEF Written
  <1>2. CASE ~ (n < Base)
    <2>1. Division(n)
      BY DivisionHolds
    <2>2. n \div Base \in 0 .. n - 1
      BY <1>2, <2>1, BaseType DEF Division
    <2>3. f[n \div Base] = g[n \div Base]
      BY <2>2
    <2> QED
      BY <1>2, <2>3, Zenon DEF Written
  <1> QED
    BY <1>1, <1>2

\* There is such an f up to every number, ...
LEMMA UpToExists == ASSUME NEW n \in Nat PROVE UpTo(n) # {}
  <1> DEFINE T == {m \in Nat : UpTo(m) = {}}
  <1>1. SUFFICES ASSUME T # {} PROVE FALSE
    OBVIOUS
  <1>2. PICK x \in T : \A y \in T : x <= y
    <2> T \in SUBSET Nat
      OBVIOUS
    <2> HIDE DEF T
    <2> QED
      BY <1>1, LeastNat
  <1>3. x \in Nat /\ UpTo(x) = {}
    OBVIOUS
  <1>4. PICK f \in [Nat -> Seq(Nat)] : \A m \in 0 .. x - 1 : f[m] = Written(f, m)
    <2>1. CASE x = 0
      <3> DEFINE z == [m \in Nat |-> <<>>]
      <3>1. z \in [Nat -> Seq(Nat)]
        OBVIOUS
      <3>2. 0 .. x - 1 = {}
        BY <2>1
      <3> HIDE DEF z
      <3> QED
        BY <3>1, <3>2
    <2>2. CASE x # 0
      <3>1. x - 1 \in Nat /\ ~ (x <= x - 1)
        BY <1>3, <2>2
      <3>2. x - 1 \notin T
        BY <1>2, <3>1
      <3>3. UpTo(x - 1) # {}
        BY <3>1, <3>2
      <3> QED
        BY <3>3 DEF UpTo
    <2> QED
      BY <2>1, <2>2
  <1> DEFINE g == [f EXCEPT ![x] = Written(f, x)]
  <1>5. g \in [Nat -> Seq(Nat)]
    BY <1>3, WrittenType
  <1>6. \A m \in 0 .. x - 1 : g[m] = f[m]
    BY <1>3
  <1>7. g[x] = Written(f, x)
    BY <1>3
  <1>8. ASSUME NEW m \in 0 .. x PROVE g[m] = Written(g, m)
    <2> HIDE DEF g
    <2>1. m \in Nat /\ \A k \in 0 .. m - 1 : k \in 0 .. x - 1
      BY <1>3
    <2>2. Written(f, m) = Written(g, m)
      <3>1. \A k \in 0 .. m - 1 : f[k] = g[k]
        BY <1>6, <2>1
      <3> QED
        BY <2>1, <3>1, WrittenLocal
    <2>3. CASE m = x
      BY <1>7, <2>2, <2>3
    <2>4. CASE m # x
      <3>1. m \in 0 .. x - 1
        BY <1>3, <2>4
      <3> QED
        BY <1>4, <1>6, <2>2, <3>1
    <2> QED
      BY <2>3, <2>4
  <1>9. g \in UpTo(x)
    BY <1>5, <1>8 DEF UpTo
  <1> QED
    BY <1>3, <1>9

\* ... and two of them agree as far as both go.
LEMMA UpToUnique ==
  ASSUME NEW n \in Nat, NEW k \in Nat, NEW f \in UpTo(n), NEW g \in UpTo(k),
         NEW m \in Nat, m <= n, m <= k
  PROVE  f[m] = g[m]
  <1> DEFINE T == {i \in Nat : i <= n /\ i <= k /\ f[i] # g[i]}
  <1>1. SUFFICES ASSUME T # {} PROVE FALSE
    OBVIOUS
  <1>2. PICK x \in T : \A y \in T : x <= y
    <2> T \in SUBSET Nat
      OBVIOUS
    <2> HIDE DEF T
    <2> QED
      BY <1>1, LeastNat
  <1>3. x \in Nat /\ x <= n /\ x <= k /\ f[x] # g[x]
    OBVIOUS
  <1>4. ASSUME NEW i \in 0 .. x - 1 PROVE f[i] = g[i]
    <2>1. i \in Nat /\ ~ (x <= i) /\ i <= n /\ i <= k
      BY <1>3
    <2>2. i \notin T
      BY <1>2, <2>1
    <2> QED
      BY <2>1, <2>2
  <1>5. Written(f, x) = Written(g, x)
    BY <1>3, <1>4, WrittenLocal
  <1>6. f[x] = Written(f, x) /\ g[x] = Written(g, x)
    BY <1>3 DEF UpTo
  <1> QED
    BY <1>3, <1>5, <1>6

\* So the recursive definition of Digits defines what it says: the equation has a
\* solution, and Digits is one.
LEMMA DigitsIs ==
  /\ Digits \in [Nat -> Seq(Nat)]
  /\ \A n \in Nat : Digits[n] = Written(Digits, n)
  <1> DEFINE Is(f) == f = [n \in Nat |-> Written(f, n)]
             A(n) == CHOOSE f \in UpTo(n) : TRUE
             F == [n \in Nat |-> A(n)[n]]
  <1>1. ASSUME NEW n \in Nat PROVE A(n) \in UpTo(n)
    BY UpToExists
  <1>2. ASSUME NEW n \in Nat, NEW m \in 0 .. n PROVE F[m] = A(n)[m]
    <2> HIDE DEF A
    <2>1. m \in Nat /\ m <= n /\ m <= m
      OBVIOUS
    <2>2. A(m)[m] = A(n)[m]
      BY <1>1, <2>1, UpToUnique
    <2> QED
      BY <2>1, <2>2
  <1>3. F \in [Nat -> Seq(Nat)]
    <2> HIDE DEF A
    <2> SUFFICES ASSUME NEW n \in Nat PROVE A(n)[n] \in Seq(Nat)
      OBVIOUS
    <2> QED
      BY <1>1 DEF UpTo
  <1>4. ASSUME NEW n \in Nat PROVE F[n] = Written(F, n)
    <2> HIDE DEF A, F
    <2>1. n \in 0 .. n /\ \A m \in 0 .. n - 1 : m \in 0 .. n
      OBVIOUS
    <2>2. A(n)[n] = Written(A(n), n)
      BY <1>1, <2>1 DEF UpTo
    <2>3. \A m \in 0 .. n - 1 : A(n)[m] = F[m]
      BY <1>2, <2>1
    <2>4. Written(A(n), n) = Written(F, n)
      BY <2>3, WrittenLocal
    <2> QED
      BY <1>2, <2>1, <2>2, <2>4
  <1>5. Is(F)
    <2>1. F = [n \in Nat |-> F[n]]
      BY <1>3
    <2> HIDE DEF F
    <2> QED
      BY <1>4, <2>1
  <1>6. Digits = CHOOSE f : Is(f)
    BY DEF Digits, Written
  <1>7. Is(Digits)
    <2> HIDE DEF Is, F
    <2> QED
      BY <1>5, <1>6
  <1>8. \A n \in Nat : Digits[n] = Written(Digits, n)
    BY <1>7
  <1>9. \A n \in Nat : Digits[n] = F[n]
    <2> DEFINE T == {i \in Nat : Digits[i] # F[i]}
    <2>1. SUFFICES ASSUME T # {} PROVE FALSE
      OBVIOUS
    <2>2. PICK x \in T : \A y \in T : x <= y
      <3> T \in SUBSET Nat
        OBVIOUS
      <3> HIDE DEF T
      <3> QED
        BY <2>1, LeastNat
    <2> HIDE DEF F, A
    <2>3. x \in Nat /\ Digits[x] # F[x]
      OBVIOUS
    <2>4. ASSUME NEW i \in 0 .. x - 1 PROVE Digits[i] = F[i]
      <3>1. i \in Nat /\ ~ (x <= i)
        BY <2>3
      <3>2. i \notin T
        BY <2>2, <3>1
      <3> QED
        BY <3>1, <3>2
    <2>5. Written(Digits, x) = Written(F, x)
      BY <2>3, <2>4, WrittenLocal
    <2> QED
      BY <1>4, <1>8, <2>3, <2>5
  <1>10. Digits = [n \in Nat |-> Digits[n]]
    BY <1>7
  <1> QED
    <2> HIDE DEF F, A, Is
    <2> QED
      BY <1>3, <1>8, <1>9, <1>10

-----------------------------------------------------------------------------
(* Numbers as varints.                                                     *)

\* A varint is one digit, or a digit with a mark before the varint of the rest.
LEMMA VarintIs ==
  ASSUME NEW n \in Nat
  PROVE  /\ n < Base => Varint(n) = <<n>>
         /\ n >= Base => Varint(n) = <<(n % Base) + Base>> \o Varint(n \div Base)
  <1>1. Digits[n] = Written(Digits, n)
    BY DigitsIs
  <1>2. n < Base \/ n >= Base
    BY BaseType
  <1>3. n >= Base => ~ (n < Base)
    BY BaseType
  <1> QED
    BY <1>1, <1>2, <1>3, Zenon DEF Written, Varint

\* A varint is a sequence of numbers.
LEMMA VarintType == ASSUME NEW n \in Nat PROVE Varint(n) \in Seq(Nat)
  BY DigitsIs DEF Varint

\* One element before a sequence.
LEMMA Prepend ==
  ASSUME NEW x \in Nat, NEW s \in Seq(Nat)
  PROVE  /\ <<x>> \o s \in Seq(Nat)
         /\ Len(<<x>> \o s) = Len(s) + 1
         /\ (<<x>> \o s)[1] = x
         /\ \A i \in 1 .. Len(s) : (<<x>> \o s)[i + 1] = s[i]
  OBVIOUS

\* The varint of n is that of the rest with one digit before it.
Longer(n) ==
  LET v == Varint(n)
      w == Varint(n \div Base)
  IN  /\ Len(v) = Len(w) + 1
      /\ v[1] = (n % Base) + Base
      /\ \A i \in 1 .. Len(w) : v[i + 1] = w[i]

\* That is so when n has more than one digit.
LEMMA VarintLonger ==
  ASSUME NEW n \in Nat, n >= Base
  PROVE  Longer(n)
  <1>1. Division(n)
    BY DivisionHolds
  <1>2. (n % Base) + Base \in Nat /\ n \div Base \in Nat
    BY <1>1, BaseType DEF Division
  <1>3. Varint(n \div Base) \in Seq(Nat)
    BY <1>2, VarintType
  <1> DEFINE x == (n % Base) + Base
             w == Varint(n \div Base)
             v == Varint(n)
  <1>4. v = <<x>> \o w
    BY VarintIs
  <1>5. x \in Nat /\ w \in Seq(Nat)
    BY <1>2, <1>3
  <1>6. /\ Len(v) = Len(w) + 1
        /\ v[1] = x
        /\ \A i \in 1 .. Len(w) : v[i + 1] = w[i]
    <2> HIDE DEF x, w, v
    <2> QED
      BY <1>4, <1>5, Prepend
  <1> QED
    BY <1>6 DEF Longer

\* All elements but the last have the mark.
WellFormed(v) ==
  /\ v \in Seq(Nat)
  /\ Len(v) >= 1
  /\ v[Len(v)] < Base
  /\ \A i \in 1 .. Len(v) - 1 : v[i] >= Base

\* A number below the base is its own varint.
LEMMA VarintShort == ASSUME NEW n \in Nat, n < Base PROVE Varint(n) = <<n>>
  BY VarintIs

\* Every varint shows where it ends: its last element alone has no mark.
LEMMA VarintWellFormed == ASSUME NEW n \in Nat PROVE WellFormed(Varint(n))
  <1> DEFINE T == {m \in Nat : ~ WellFormed(Varint(m))}
  <1>1. SUFFICES ASSUME T # {} PROVE FALSE
    OBVIOUS
  <1>2. PICK x \in T : \A y \in T : x <= y
    <2> T \in SUBSET Nat
      OBVIOUS
    <2> HIDE DEF T
    <2> QED
      BY <1>1, LeastNat
  <1>3. x \in Nat /\ ~ WellFormed(Varint(x))
    OBVIOUS
  <1>4. CASE x < Base
    <2>1. Varint(x) = <<x>>
      BY <1>3, <1>4, VarintShort
    <2>2. WellFormed(<<x>>)
      BY <1>3, <1>4, BaseType DEF WellFormed
    <2> QED
      BY <1>3, <2>1, <2>2
  <1>5. CASE ~ (x < Base)
    <2>1. x >= Base
      BY <1>3, <1>5, BaseType
    <2>2. Division(x)
      BY <1>3, DivisionHolds
    <2>3. x \div Base \in Nat /\ ~ (x <= x \div Base) /\ (x % Base) + Base >= Base
      BY <1>3, <2>1, <2>2, BaseType DEF Division
    <2>4. x \div Base \notin T
      BY <1>2, <2>3
    <2> DEFINE v == Varint(x)
               w == Varint(x \div Base)
    <2>5. WellFormed(w)
      BY <2>3, <2>4
    <2>6. Longer(x)
      BY <1>3, <2>1, VarintLonger
    <2>7. /\ Len(v) = Len(w) + 1
          /\ v[1] >= Base
          /\ \A i \in 1 .. Len(w) : v[i + 1] = w[i]
      <3>1. /\ Len(v) = Len(w) + 1
            /\ v[1] = (x % Base) + Base
            /\ \A i \in 1 .. Len(w) : v[i + 1] = w[i]
        BY <2>6, Zenon DEF Longer
      <3> QED
        BY <3>1, <2>3
    <2>8. v \in Seq(Nat)
      BY <1>3, VarintType
    <2> HIDE DEF v, w
    <2>9. w \in Seq(Nat) /\ Len(w) \in Nat /\ Len(w) >= 1
      BY <2>5 DEF WellFormed
    <2>10. v[Len(v)] < Base
      BY <2>5, <2>7, <2>9 DEF WellFormed
    <2>11. ASSUME NEW i \in 1 .. Len(v) - 1 PROVE v[i] >= Base
      <3>1. CASE i = 1
        BY <2>7, <3>1
      <3>2. CASE i # 1
        <4>1. i - 1 \in 1 .. Len(w) - 1 /\ i - 1 \in 1 .. Len(w) /\ (i - 1) + 1 = i
          BY <2>7, <2>9, <3>2
        <4>2. v[(i - 1) + 1] = w[i - 1]
          BY <2>7, <4>1
        <4> QED
          BY <4>1, <4>2, <2>5 DEF WellFormed
      <3> QED
        BY <3>1, <3>2
    <2>12. WellFormed(v)
      BY <2>7, <2>8, <2>9, <2>10, <2>11 DEF WellFormed
    <2> QED
      BY <1>3, <2>12 DEF v
  <1> QED
    BY <1>4, <1>5

\* Digit i of n, zero behind the last.
Place(n, i) == IF i <= Len(Varint(n)) THEN Varint(n)[i] % Base ELSE 0

\* The first digit is the remainder of n, ...
LEMMA FirstPlace == ASSUME NEW n \in Nat PROVE Place(n, 1) = n % Base
  <1>1. Division(n)
    BY DivisionHolds
  <1>2. WellFormed(Varint(n))
    BY VarintWellFormed
  <1>3. Place(n, 1) = Varint(n)[1] % Base
    BY <1>2, Zenon DEF Place, WellFormed
  <1>4. CASE n < Base
    <2>1. Varint(n)[1] = n
      BY <1>4, VarintShort
    <2> QED
      BY <1>3, <2>1
  <1>5. CASE ~ (n < Base)
    <2>1. n >= Base
      BY <1>5, BaseType
    <2>2. Varint(n)[1] = (n % Base) + Base
      BY <2>1, VarintLonger DEF Longer
    <2> QED
      BY <1>1, <1>3, <2>2 DEF Division
  <1> QED
    BY <1>4, <1>5

\* ... and the others are the digits of what is left.
LEMMA NextPlace ==
  ASSUME NEW n \in Nat, NEW i \in Nat \ {0}
  PROVE  Place(n, i + 1) = Place(n \div Base, i)
  <1>1. Division(n)
    BY DivisionHolds
  <1>2. n \div Base \in Nat
    BY <1>1 DEF Division
  <1>3. CASE n < Base
    <2>1. Varint(n) = <<n>> /\ ~ (i + 1 <= 1)
      BY <1>3, VarintShort
    <2>2. Place(n, i + 1) = 0
      BY <2>1 DEF Place
    <2>3. n \div Base = 0
      BY <1>1, <1>3 DEF Division
    <2>4. Varint(0) = <<0>>
      BY VarintShort, BaseType
    <2>5. Place(0, i) = 0
      <3>1. CASE i = 1
        <4>1. Division(0)
          BY DivisionHolds
        <4>2. 0 % Base = 0
          BY <4>1, BaseType DEF Division
        <4> QED
          BY <2>4, <3>1, <4>2 DEF Place
      <3>2. CASE i # 1
        BY <2>4, <3>2 DEF Place
      <3> QED
        BY <3>1, <3>2
    <2> QED
      BY <2>2, <2>3, <2>5
  <1>4. CASE ~ (n < Base)
    <2> DEFINE v == Varint(n)
               w == Varint(n \div Base)
    <2>1. n >= Base
      BY <1>4, BaseType
    <2>2. /\ Len(v) = Len(w) + 1
          /\ \A j \in 1 .. Len(w) : v[j + 1] = w[j]
      BY <2>1, VarintLonger, Zenon DEF Longer
    <2>3. w \in Seq(Nat)
      BY <1>2, VarintType
    <2>4. /\ Place(n, i + 1) = IF i + 1 <= Len(v) THEN v[i + 1] % Base ELSE 0
          /\ Place(n \div Base, i) = IF i <= Len(w) THEN w[i] % Base ELSE 0
      BY Zenon DEF Place
    <2> HIDE DEF v, w
    <2>5. Len(w) \in Nat
      BY <2>3
    <2>6. CASE i <= Len(w)
      <3>1. i \in 1 .. Len(w) /\ i + 1 <= Len(v)
        BY <2>2, <2>5, <2>6
      <3>2. v[i + 1] = w[i]
        BY <2>2, <3>1
      <3> QED
        BY <2>4, <2>6, <3>1, <3>2, Zenon
    <2>7. CASE ~ (i <= Len(w))
      <3>1. ~ (i + 1 <= Len(v))
        BY <2>2, <2>5, <2>7
      <3> QED
        BY <2>4, <2>7, <3>1, Zenon
    <2> QED
      BY <2>6, <2>7
  <1> QED
    BY <1>3, <1>4

\* Every power is the base times the one before.
LEMMA PowersGrow ==
  /\ \A k \in 1 .. 5 : Powers[k] \in Nat /\ Powers[k] >= Base
  /\ Powers[1] = Base
  /\ \A k \in 1 .. 4 : Powers[k + 1] = Base * Powers[k]
  <1>1. /\ Powers[1] = Base
        /\ Powers[2] = Powers[1] * Base
        /\ Powers[3] = Powers[2] * Base
        /\ Powers[4] = Powers[3] * Base
        /\ Powers[5] = Powers[4] * Base
    BY BaseType DEF Powers
  <1>2. ASSUME NEW p \in Nat, p >= Base
        PROVE  p * Base \in Nat /\ p * Base >= Base /\ p * Base = Base * p
    BY BaseType, <1>2
  <1>3. Powers[1] \in Nat /\ Powers[1] >= Base
    BY <1>1, BaseType
  <1>4. Powers[2] \in Nat /\ Powers[2] >= Base /\ Powers[2] = Base * Powers[1]
    BY <1>1, <1>2, <1>3, Zenon
  <1>5. Powers[3] \in Nat /\ Powers[3] >= Base /\ Powers[3] = Base * Powers[2]
    BY <1>1, <1>2, <1>4, Zenon
  <1>6. Powers[4] \in Nat /\ Powers[4] >= Base /\ Powers[4] = Base * Powers[3]
    BY <1>1, <1>2, <1>5, Zenon
  <1>7. Powers[5] \in Nat /\ Powers[5] >= Base /\ Powers[5] = Base * Powers[4]
    BY <1>1, <1>2, <1>6, Zenon
  <1>8. ASSUME NEW k \in 1 .. 5 PROVE Powers[k] \in Nat /\ Powers[k] >= Base
    <2>1. k = 1 \/ k = 2 \/ k = 3 \/ k = 4 \/ k = 5
      OBVIOUS
    <2> QED
      BY <2>1, <1>3, <1>4, <1>5, <1>6, <1>7, Zenon
  <1>9. ASSUME NEW k \in 1 .. 4 PROVE Powers[k + 1] = Base * Powers[k]
    <2>1. \/ k = 1 /\ k + 1 = 2
          \/ k = 2 /\ k + 1 = 3
          \/ k = 3 /\ k + 1 = 4
          \/ k = 4 /\ k + 1 = 5
      OBVIOUS
    <2> QED
      BY <2>1, <1>4, <1>5, <1>6, <1>7, Zenon
  <1> QED
    BY <1>1, <1>8, <1>9

\* n has k digits.
HasDigits(n, k) == n < Powers[k] /\ (k = 1 \/ n >= Powers[k - 1])

\* A number of k + 1 digits has one more than what is left of it.
LEMMA OneMoreDigit ==
  ASSUME NEW k \in 1 .. 4,
         \A m \in Nat : HasDigits(m, k) => Len(Varint(m)) = k,
         NEW n \in Nat, HasDigits(n, k + 1)
  PROVE  Len(Varint(n)) = k + 1
  <1>1. /\ Powers[k] \in Nat
        /\ Powers[k] >= Base
        /\ Powers[k + 1] = Base * Powers[k]
        /\ k # 1 => Powers[k - 1] \in Nat /\ Powers[k] = Base * Powers[k - 1]
    <2>1. k \in 1 .. 5
      OBVIOUS
    <2>2. Powers[k] \in Nat /\ Powers[k] >= Base /\ Powers[k + 1] = Base * Powers[k]
      BY <2>1, PowersGrow
    <2>3. ASSUME k # 1 PROVE Powers[k - 1] \in Nat /\ Powers[k] = Base * Powers[k - 1]
      <3>1. k - 1 \in 1 .. 5 /\ k - 1 \in 1 .. 4 /\ (k - 1) + 1 = k
        BY <2>3
      <3>2. Powers[(k - 1) + 1] = Base * Powers[k - 1]
        BY <3>1, PowersGrow
      <3> QED
        BY <3>1, <3>2, PowersGrow
    <2> QED
      BY <2>2, <2>3
  <1>2. n < Base * Powers[k] /\ n >= Powers[k]
    <2>1. (k + 1) - 1 = k /\ k + 1 # 1
      OBVIOUS
    <2> QED
      BY <1>1, <2>1 DEF HasDigits
  <1>3. n >= Base
    BY <1>1, <1>2, BaseType
  <1>4. Division(n)
    BY DivisionHolds
  <1> DEFINE h == n \div Base
  <1>5. h \in Nat /\ \A m \in Nat : n < Base * m <=> h < m
    BY <1>4 DEF Division
  <1>6. h < Powers[k]
    BY <1>1, <1>2, <1>5, Zenon
  <1>7. k # 1 => h >= Powers[k - 1]
    <2> HIDE DEF h
    <2>1. SUFFICES ASSUME k # 1 PROVE h >= Powers[k - 1]
      OBVIOUS
    <2> DEFINE p == Powers[k - 1]
    <2>2. p \in Nat /\ Powers[k] = Base * p
      BY <1>1, <2>1
    <2>3. ~ (h < p)
      <3>1. ~ (n < Base * p)
        BY <1>1, <1>2, <2>2
      <3> QED
        BY <1>5, <2>2, <3>1
    <2> HIDE DEF p
    <2>4. h >= p
      BY <1>5, <2>2, <2>3
    <2> QED
      BY <2>4 DEF p
  <1>8. Len(Varint(h)) = k
    <2> HIDE DEF h
    <2> QED
      BY <1>5, <1>6, <1>7 DEF HasDigits
  <1>9. Len(Varint(n)) = Len(Varint(h)) + 1
    BY <1>3, VarintLonger, Zenon DEF Longer
  <1> QED
    BY <1>8, <1>9

\* The varint of a number of k digits has the length k.
LEMMA LengthOf ==
  \A k \in 1 .. 5 : \A n \in Nat : HasDigits(n, k) => Len(Varint(n)) = k
  <1> DEFINE L(k) == \A n \in Nat : HasDigits(n, k) => Len(Varint(n)) = k
  <1>1. L(1)
    <2>1. ASSUME NEW n \in Nat, HasDigits(n, 1) PROVE Len(Varint(n)) = 1
      <3>1. n < Base
        BY <2>1, PowersGrow DEF HasDigits
      <3>2. Varint(n) = <<n>>
        BY <3>1, VarintShort
      <3> QED
        BY <3>2
    <2> QED
      BY <2>1
  <1>2. ASSUME NEW k \in 1 .. 4, L(k) PROVE L(k + 1)
    BY <1>2, OneMoreDigit
  <1> HIDE DEF L
  <1>3. L(2)
    <2> 1 \in 1 .. 4 /\ 1 + 1 = 2
      OBVIOUS
    <2> QED
      BY <1>1, <1>2
  <1>4. L(3)
    <2> 2 \in 1 .. 4 /\ 2 + 1 = 3
      OBVIOUS
    <2> QED
      BY <1>3, <1>2
  <1>5. L(4)
    <2> 3 \in 1 .. 4 /\ 3 + 1 = 4
      OBVIOUS
    <2> QED
      BY <1>4, <1>2
  <1>6. L(5)
    <2> 4 \in 1 .. 4 /\ 4 + 1 = 5
      OBVIOUS
    <2> QED
      BY <1>5, <1>2
  <1>7. \A k \in 1 .. 5 : k = 1 \/ k = 2 \/ k = 3 \/ k = 4 \/ k = 5
    OBVIOUS
  <1>8. \A k \in 1 .. 5 : L(k)
    BY <1>1, <1>3, <1>4, <1>5, <1>6, <1>7, Zenon
  <1> QED
    BY <1>8 DEF L

\* VarintSize, which ByteSize adds up before anything is written, is the length of what
\* is written.
LEMMA SizeIsLength ==
  ASSUME NEW n \in Nat, n < Powers[5]
  PROVE  VarintSize(n) = Len(Varint(n)) /\ Len(Varint(n)) \in 1 .. 5
  <1> DEFINE C(k) == (k = 5 \/ n < Powers[k]) /\ (k = 1 \/ n >= Powers[k - 1])
  <1>1. \E k \in 1 .. 5 : C(k)
    <2>1. \A k \in 1 .. 5 : Powers[k] \in Nat
      BY PowersGrow
    <2>2. 2 - 1 = 1 /\ 3 - 1 = 2 /\ 4 - 1 = 3 /\ 5 - 1 = 4
      OBVIOUS
    <2>3. CASE n < Powers[1]
      BY <2>3
    <2>4. CASE n >= Powers[1] /\ n < Powers[2]
      BY <2>2, <2>4
    <2>5. CASE n >= Powers[2] /\ n < Powers[3]
      BY <2>2, <2>5
    <2>6. CASE n >= Powers[3] /\ n < Powers[4]
      BY <2>2, <2>6
    <2>7. CASE n >= Powers[4]
      BY <2>2, <2>7
    <2>8. Powers[1] \in Nat /\ Powers[2] \in Nat /\ Powers[3] \in Nat /\ Powers[4] \in Nat
      BY <2>1
    <2> QED
      BY <2>3, <2>4, <2>5, <2>6, <2>7, <2>8
  <1>2. VarintSize(n) = CHOOSE k \in 1 .. 5 : C(k)
    BY DEF VarintSize
  <1> DEFINE z == VarintSize(n)
  <1>3. z \in 1 .. 5 /\ C(z)
    <2> HIDE DEF C
    <2> QED
      BY <1>1, <1>2
  <1>4. HasDigits(n, z)
    BY <1>3 DEF HasDigits
  <1> QED
    BY <1>3, <1>4, LengthOf

\* A number of at most five digits is the sum that ReadVarint32 forms of them.
LEMMA FiveDigits ==
  ASSUME NEW n \in Nat, n < Powers[5]
  PROVE  n = Place(n, 1) + Base * (Place(n, 2) + Base * (Place(n, 3)
             + Base * (Place(n, 4) + Base * Place(n, 5))))
  <1> DEFINE a == n \div Base
             b == a \div Base
             c == b \div Base
             d == c \div Base
             e == d \div Base
  <1>0. ASSUME NEW m \in Nat
        PROVE  /\ m \div Base \in Nat
               /\ m = Place(m, 1) + Base * (m \div Base)
               /\ \A p \in Nat : m < Base * p => m \div Base < p
               /\ \A i \in Nat \ {0} : Place(m, i + 1) = Place(m \div Base, i)
    <2>1. Division(m)
      BY DivisionHolds
    <2>2. Place(m, 1) = m % Base
      BY FirstPlace
    <2>3. m \div Base \in Nat /\ m % Base \in Nat /\ m = Base * (m \div Base) + (m % Base)
      BY <2>1 DEF Division
    <2>4. m = (m % Base) + Base * (m \div Base)
      BY <2>3, BaseType
    <2>5. \A p \in Nat : m < Base * p => m \div Base < p
      BY <2>1 DEF Division
    <2> QED
      BY <2>2, <2>3, <2>4, <2>5, NextPlace
  <1>1. a \in Nat /\ b \in Nat /\ c \in Nat /\ d \in Nat /\ e \in Nat
    BY <1>0
  <1> HIDE DEF a, b, c, d, e
  <1>2. /\ n = Place(n, 1) + Base * a
        /\ a = Place(a, 1) + Base * b
        /\ b = Place(b, 1) + Base * c
        /\ c = Place(c, 1) + Base * d
        /\ d = Place(d, 1) + Base * e
    BY <1>0, <1>1 DEF a, b, c, d, e
  <1>3. ASSUME NEW i \in Nat \ {0}
        PROVE  /\ Place(n, i + 1) = Place(a, i)
               /\ Place(a, i + 1) = Place(b, i)
               /\ Place(b, i + 1) = Place(c, i)
               /\ Place(c, i + 1) = Place(d, i)
    BY <1>0, <1>1 DEF a, b, c, d, e
  <1>4. 1 + 1 = 2 /\ 2 + 1 = 3 /\ 3 + 1 = 4 /\ 4 + 1 = 5 /\ {1, 2, 3, 4} \subseteq Nat \ {0}
    OBVIOUS
  <1>5. /\ Place(n, 2) = Place(a, 1)
        /\ Place(n, 3) = Place(b, 1)
        /\ Place(n, 4) = Place(c, 1)
        /\ Place(n, 5) = Place(d, 1)
    <2>1. /\ Place(n, 2) = Place(a, 1)
          /\ Place(n, 3) = Place(a, 2)
          /\ Place(n, 4) = Place(a, 3)
          /\ Place(n, 5) = Place(a, 4)
      BY <1>3, <1>4
    <2>2. /\ Place(a, 2) = Place(b, 1)
          /\ Place(a, 3) = Place(b, 2)
          /\ Place(a, 4) = Place(b, 3)
      BY <1>3, <1>4
    <2>3. Place(b, 2) = Place(c, 1) /\ Place(b, 3) = Place(c, 2) /\ Place(c, 2) = Place(d, 1)
      BY <1>3, <1>4
    <2> QED
      BY <2>1, <2>2, <2>3
  <1>6. e = 0
    <2>1. \A k \in 1 .. 5 : Powers[k] \in Nat
      BY PowersGrow
    <2>2. /\ Powers[1] \in Nat
          /\ Powers[2] \in Nat
          /\ Powers[3] \in Nat
          /\ Powers[4] \in Nat
      BY <2>1
    <2>3. /\ Powers[2] = Base * Powers[1]
          /\ Powers[3] = Base * Powers[2]
          /\ Powers[4] = Base * Powers[3]
          /\ Powers[5] = Base * Powers[4]
      BY PowersGrow, <1>4
    <2>4. Powers[1] = Base * 1
      BY PowersGrow, BaseType
    <2>5. a < Powers[4]
      BY <1>0, <2>2, <2>3 DEF a
    <2>6. b < Powers[3]
      BY <1>0, <1>1, <2>2, <2>3, <2>5 DEF b
    <2>7. c < Powers[2]
      BY <1>0, <1>1, <2>2, <2>3, <2>6 DEF c
    <2>8. d < Powers[1]
      BY <1>0, <1>1, <2>2, <2>3, <2>7 DEF d
    <2>9. e < 1
      BY <1>0, <1>1, <2>4, <2>8 DEF e
    <2> QED
      BY <1>1, <2>9
  <1>7. Place(d, 1) \in Nat /\ d = Place(d, 1)
    <2>1. Place(d, 1) = d % Base
      BY <1>1, FirstPlace
    <2>2. Division(d)
      BY <1>1, DivisionHolds
    <2>3. Place(d, 1) \in Nat
      BY <2>1, <2>2 DEF Division
    <2> QED
      BY <1>2, <1>6, <2>3, BaseType
  <1>8. n = Place(n, 1) + Base * (Place(a, 1) + Base * (Place(b, 1)
              + Base * (Place(c, 1) + Base * Place(d, 1))))
    BY <1>2, <1>7, Zenon
  <1> QED
    BY <1>5, <1>8, Zenon

-----------------------------------------------------------------------------
(* Parts of a sequence of bytes.                                           *)

\* Behind its first p bytes, s holds t.
Holds(s, p, t) ==
  /\ s \in Seq(Bytes)
  /\ t \in Seq(Bytes)
  /\ p + Len(t) <= Len(s)
  /\ \A i \in 1 .. Len(t) : s[p + i] = t[i]

\* A concatenation holds both its parts.
LEMMA Concat ==
  ASSUME NEW s \in Seq(Bytes), NEW t \in Seq(Bytes)
  PROVE  /\ s \o t \in Seq(Bytes)
         /\ Len(s \o t) = Len(s) + Len(t)
         /\ Holds(s \o t, 0, s)
         /\ Holds(s \o t, Len(s), t)
  <1>1. s \o t \in Seq(Bytes) /\ Len(s \o t) = Len(s) + Len(t)
    OBVIOUS
  <1>2. Holds(s \o t, 0, s)
    BY <1>1 DEF Holds
  <1>3. Holds(s \o t, Len(s), t)
    BY <1>1 DEF Holds
  <1> QED
    BY <1>1, <1>2, <1>3

\* What is held by a part is held by the whole, so much further on.
LEMMA HoldsWithin ==
  ASSUME NEW s, NEW t, NEW u, NEW p \in Nat, NEW q \in Nat,
         Holds(s, p, t), Holds(t, q, u)
  PROVE  Holds(s, p + q, u)
  <1>1. Len(s) \in Nat /\ Len(t) \in Nat /\ Len(u) \in Nat
    BY DEF Holds
  <1>2. (p + q) + Len(u) <= Len(s)
    BY <1>1 DEF Holds
  <1>3. ASSUME NEW i \in 1 .. Len(u) PROVE s[(p + q) + i] = u[i]
    <2>1. q + i \in 1 .. Len(t) /\ (p + q) + i = p + (q + i)
      BY <1>1 DEF Holds
    <2>2. s[p + (q + i)] = t[q + i] /\ t[q + i] = u[i]
      BY <2>1 DEF Holds
    <2> QED
      BY <2>1, <2>2
  <1> QED
    BY <1>2, <1>3 DEF Holds

\* What is held is what SubSeq cuts out.
LEMMA CutOut ==
  ASSUME NEW s, NEW p \in Nat, NEW t, Holds(s, p, t)
  PROVE  SubSeq(s, p + 1, p + Len(t)) = t
  <1>1. s \in Seq(Bytes) /\ t \in Seq(Bytes) /\ p + Len(t) <= Len(s)
    BY DEF Holds
  <1> DEFINE u == SubSeq(s, p + 1, p + Len(t))
  <1>2. u \in Seq(Bytes) /\ Len(u) = Len(t) /\ \A i \in 1 .. Len(t) : u[i] = s[p + i]
    BY <1>1
  <1>3. \A i \in 1 .. Len(t) : u[i] = t[i]
    BY <1>2 DEF Holds
  <1> HIDE DEF u
  <1>4. u = t
    BY <1>1, <1>2, <1>3
  <1> QED
    BY <1>4 DEF u

\* A varint consists of bytes.
LEMMA VarintBytes == ASSUME NEW n \in Nat PROVE Varint(n) \in Seq(Bytes)
  <1>1. Varint(n) \in Seq(Nat)
    BY VarintType
  <1>2. ASSUME NEW v \in Seq(Nat) PROVE v \in Seq(Bytes)
    BY DEF Bytes
  <1> QED
    BY <1>1, <1>2

\* The reader finds the end of a varint, whatever follows it ...
LEMMA EndFound ==
  ASSUME NEW s, NEW p \in Nat, NEW n \in Nat, Holds(s, p, Varint(n))
  PROVE  VarintEnd(s, p) = p + Len(Varint(n))
  <1> DEFINE v == Varint(n)
             Is(e) == s[e] < Base /\ \A i \in p + 1 .. e - 1 : s[i] >= Base
             E == p + Len(v)
  <1>1. WellFormed(v)
    BY VarintWellFormed
  <1>2. Holds(s, p, v)
    OBVIOUS
  <1> HIDE DEF v
  <1>3. Len(v) \in Nat /\ Len(v) >= 1 /\ Len(s) \in Nat /\ p + Len(v) <= Len(s)
    BY <1>1, <1>2 DEF WellFormed, Holds
  <1>4. \A i \in 1 .. Len(v) : s[p + i] = v[i] /\ v[i] \in Nat
    <2>1. \A i \in 1 .. Len(v) : s[p + i] = v[i]
      BY <1>2, Zenon DEF Holds
    <2>2. v \in Seq(Nat)
      BY <1>1, Zenon DEF WellFormed
    <2> QED
      BY <2>1, <2>2
  <1>5. E \in p + 1 .. Len(s)
    BY <1>3
  <1>6. s[E] < Base /\ s[E] \in Nat
    <2>1. Len(v) \in 1 .. Len(v)
      BY <1>3
    <2>2. v[Len(v)] < Base
      BY <1>1, Zenon DEF WellFormed
    <2> QED
      BY <1>4, <2>1, <2>2
  <1>7. ASSUME NEW i \in p + 1 .. E - 1 PROVE s[i] >= Base /\ s[i] \in Nat
    <2>1. i - p \in 1 .. Len(v) - 1 /\ i - p \in 1 .. Len(v) /\ p + (i - p) = i
      BY <1>3
    <2>2. v[i - p] >= Base
      BY <1>1, <2>1 DEF WellFormed
    <2>3. s[p + (i - p)] = v[i - p] /\ v[i - p] \in Nat
      BY <1>4, <2>1
    <2> QED
      BY <2>1, <2>2, <2>3
  <1>8. Is(E)
    BY <1>6, <1>7
  <1>9. ASSUME NEW e \in p + 1 .. Len(s), Is(e) PROVE e = E
    <2>1. CASE e < E
      <3>1. e \in p + 1 .. E - 1
        BY <1>3, <2>1
      <3>2. s[e] >= Base /\ s[e] \in Nat
        BY <1>7, <3>1
      <3>3. s[e] < Base
        BY <1>9
      <3> QED
        BY <3>2, <3>3, BaseType
    <2>2. CASE e > E
      <3>1. E \in p + 1 .. e - 1
        BY <1>3, <2>2
      <3>2. s[E] >= Base
        BY <1>9, <3>1
      <3> QED
        BY <1>6, <3>2, BaseType
    <2> QED
      BY <1>3, <2>1, <2>2
  <1>10. VarintEnd(s, p) = CHOOSE e \in p + 1 .. Len(s) : Is(e)
    BY DEF VarintEnd
  <1>11. VarintEnd(s, p) = E
    <2> HIDE DEF Is, E
    <2> QED
      BY <1>5, <1>8, <1>9, <1>10
  <1> QED
    BY <1>11 DEF v

\* ... and the number it stands for.
LEMMA NumberFound ==
  ASSUME NEW s, NEW p \in Nat, NEW n \in Nat, n < Powers[5], Holds(s, p, Varint(n))
  PROVE  VarintAt(s, p) = n
  <1> DEFINE D(i) == IF p + i <= VarintEnd(s, p) THEN s[p + i] % Base ELSE 0
             v == Varint(n)
  <1>1. VarintEnd(s, p) = p + Len(v)
    BY EndFound
  <1>2. Len(v) \in Nat
    BY VarintType
  <1>3. ASSUME NEW i \in 1 .. 5 PROVE D(i) = Place(n, i)
    <2>1. p + i <= p + Len(v) <=> i <= Len(v)
      BY <1>2
    <2>2. i <= Len(v) => s[p + i] = v[i]
      BY <1>2 DEF Holds
    <2> QED
      BY <1>1, <2>1, <2>2, Zenon DEF Place
  <1>4. VarintAt(s, p) = D(1) + Base * (D(2) + Base * (D(3) + Base * (D(4) + Base * D(5))))
    BY DEF VarintAt
  <1>5. /\ D(1) = Place(n, 1)
        /\ D(2) = Place(n, 2)
        /\ D(3) = Place(n, 3)
        /\ D(4) = Place(n, 4)
        /\ D(5) = Place(n, 5)
    <2> HIDE DEF D
    <2> QED
      BY <1>3
  <1> HIDE DEF D
  <1>6. VarintAt(s, p) = Place(n, 1) + Base * (Place(n, 2) + Base * (Place(n, 3)
                           + Base * (Place(n, 4) + Base * Place(n, 5))))
    BY <1>4, <1>5, Zenon
  <1> QED
    BY <1>6, FiveDigits

\* htonl gives four bytes.
LEMMA NetBytes ==
  ASSUME NEW n \in Nat
  PROVE  ToNet(n) \in Seq(Bytes) /\ Len(ToNet(n)) = 4
  <1>1. /\ n \div (Byte * Byte * Byte) \in Nat
        /\ (n \div (Byte * Byte)) % Byte \in Nat
        /\ (n \div Byte) % Byte \in Nat
        /\ n % Byte \in Nat
    BY DEF Byte
  <1> QED
    BY <1>1 DEF ToNet, Bytes

\* ntohl gives back what htonl took.
LEMMA HostOfNet ==
  ASSUME NEW n \in Nat, n <= MaxInt, NEW b, \A i \in 1 .. 4 : b[i] = ToNet(n)[i]
  PROVE  ToHost(b) = n
  <1>1. b[1] = ToNet(n)[1] /\ b[2] = ToNet(n)[2] /\ b[3] = ToNet(n)[3] /\ b[4] = ToNet(n)[4]
    OBVIOUS
  <1> DEFINE x == n \div Byte
             y == x \div Byte
             z == y \div Byte
  <1>2. ASSUME NEW m \in Nat
        PROVE  /\ m \div Byte \in Nat
               /\ m % Byte \in Nat
               /\ m = (m \div Byte) * Byte + (m % Byte)
    BY DEF Byte
  <1>3. n \div (Byte * Byte) = y
    BY SMT DEF Byte
  <1>4. n \div (Byte * Byte * Byte) = z
    BY SMT DEF Byte
  <1>5. b[1] = z /\ b[2] = y % Byte /\ b[3] = x % Byte /\ b[4] = n % Byte
    <2> HIDE DEF x, y, z
    <2> QED
      BY <1>1, <1>3, <1>4 DEF ToNet, x
  <1>6. x \in Nat /\ y \in Nat
    BY <1>2
  <1>7. n = x * Byte + (n % Byte) /\ x = y * Byte + (x % Byte) /\ y = z * Byte + (y % Byte)
    BY <1>2, <1>6
  <1> HIDE DEF x, y, z
  <1> QED
    BY <1>5, <1>7, Zenon DEF ToHost

\* What is taken from memory ends before the first Nul of it.
LEMMA FirstNul ==
  ASSUME NEW memory \in Seq(Bytes), NEW j \in 1 .. Len(memory), memory[j] = Nul
  PROVE  /\ CString(memory) \in Seq(Bytes)
         /\ Len(CString(memory)) < j
         /\ memory[Len(CString(memory)) + 1] = Nul
         /\ \A i \in 1 .. Len(CString(memory)) : CString(memory)[i] = memory[i]
  <1> DEFINE I == {i \in 1 .. Len(memory) : memory[i] = Nul}
  <1>1. j \in I /\ I \in SUBSET Nat
    OBVIOUS
  <1>3. Min(I) \in I /\ \A y \in I : Min(I) <= y
    <2> HIDE DEF I
    <2>1. \E x \in I : \A y \in I : x <= y
      BY <1>1, LeastNat
    <2> QED
      BY <2>1 DEF Min
  <1> DEFINE k == Min(I)
  <1>4. k \in 1 .. Len(memory) /\ memory[k] = Nul /\ k <= j
    BY <1>1, <1>3
  <1>5. CString(memory) = SubSeq(memory, 1, k - 1)
    BY DEF CString
  <1> HIDE DEF k
  <1>6. /\ SubSeq(memory, 1, k - 1) \in Seq(Bytes)
        /\ Len(SubSeq(memory, 1, k - 1)) = k - 1
        /\ \A i \in 1 .. k - 1 : SubSeq(memory, 1, k - 1)[i] = memory[i]
    BY <1>4
  <1> QED
    BY <1>4, <1>5, <1>6

-----------------------------------------------------------------------------
(* Fields and messages.                                                    *)

\* A text on the wire is its tag, its length and itself.
LEMMA StringWritten ==
  ASSUME NEW tag \in Nat, NEW x \in Seq(Bytes)
  PROVE  /\ WriteString(tag, x) \in Seq(Bytes)
         /\ Len(WriteString(tag, x)) = 1 + Len(Varint(Len(x))) + Len(x)
         /\ WriteString(tag, x)[1] = tag
         /\ Holds(WriteString(tag, x), 1, Varint(Len(x)))
         /\ Holds(WriteString(tag, x), 1 + Len(Varint(Len(x))), x)
  <1> DEFINE v == Varint(Len(x))
             h == <<tag>> \o v
             t == h \o x
  <1>1. v \in Seq(Bytes) /\ Len(v) \in Nat
    BY VarintBytes
  <1>2. t = WriteString(tag, x)
    BY DEF WriteString
  <1> HIDE DEF v
  <1>3. <<tag>> \in Seq(Bytes) /\ Len(<<tag>>) = 1 /\ <<tag>>[1] = tag
    BY DEF Bytes
  <1>4. h \in Seq(Bytes) /\ Len(h) = 1 + Len(v) /\ Holds(h, 1, v) /\ Holds(h, 0, <<tag>>)
    BY <1>1, <1>3, Concat
  <1> HIDE DEF h
  <1>5. t \in Seq(Bytes) /\ Len(t) = Len(h) + Len(x) /\ Holds(t, 0, h) /\ Holds(t, Len(h), x)
    BY <1>4, Concat
  <1> HIDE DEF t
  <1>6. Holds(t, 0 + 1, v) /\ Holds(t, 0 + 0, <<tag>>)
    BY <1>4, <1>5, HoldsWithin
  <1>7. Holds(t, 1, v) /\ Holds(t, 0, <<tag>>)
    BY <1>6
  <1>8. t[1] = tag
    <2>1. t[0 + 1] = <<tag>>[1]
      BY <1>3, <1>7 DEF Holds
    <2> QED
      BY <2>1
  <1> QED
    BY <1>2, <1>4, <1>5, <1>7, <1>8 DEF v

\* What the reader of a text needs: its tag, its length, where it ends and itself.
TextAt(s, p, tag, x) ==
  /\ s[p + 1] = tag
  /\ VarintAt(s, p + 1) = Len(x)
  /\ VarintEnd(s, p + 1) + Len(x) = p + Len(WriteString(tag, x))
  /\ SubSeq(s, VarintEnd(s, p + 1) + 1, VarintEnd(s, p + 1) + Len(x)) = x

\* It finds them where a text was written.
LEMMA TextFound ==
  ASSUME NEW s, NEW p \in Nat, NEW tag \in Nat, NEW x \in Seq(Bytes), Len(x) < Powers[5],
         Holds(s, p, WriteString(tag, x))
  PROVE  TextAt(s, p, tag, x)
  <1> DEFINE v == Varint(Len(x))
             t == WriteString(tag, x)
             e == VarintEnd(s, p + 1)
  <1>1. /\ t \in Seq(Bytes)
        /\ Len(t) = 1 + Len(v) + Len(x)
        /\ t[1] = tag
        /\ Holds(t, 1, v)
        /\ Holds(t, 1 + Len(v), x)
    BY StringWritten
  <1>2. Len(v) \in Nat /\ Len(x) \in Nat
    <2>1. Len(x) \in Nat
      OBVIOUS
    <2> QED
      BY <2>1, VarintType
  <1>3. Holds(s, p + 1, v) /\ Holds(s, p + (1 + Len(v)), x)
    <2>1. Holds(s, p, t) /\ 1 \in Nat /\ 1 + Len(v) \in Nat
      BY <1>2
    <2> HIDE DEF v, t
    <2>2. Holds(s, p + 1, v)
      BY <1>1, <2>1, HoldsWithin
    <2>3. Holds(s, p + (1 + Len(v)), x)
      BY <1>1, <2>1, HoldsWithin
    <2> QED
      BY <2>2, <2>3
  <1>4. s[p + 1] = tag
    <2>1. 1 \in 1 .. Len(t)
      BY <1>1, <1>2
    <2>2. s[p + 1] = t[1]
      BY <2>1 DEF Holds
    <2> QED
      BY <1>1, <2>2
  <1>5. VarintAt(s, p + 1) = Len(x) /\ e = (p + 1) + Len(v)
    BY <1>2, <1>3, NumberFound, EndFound
  <1> HIDE DEF v, t, e
  <1>6. e = p + (1 + Len(v)) /\ e \in Nat
    BY <1>2, <1>5
  <1>7. SubSeq(s, e + 1, e + Len(x)) = x
    BY <1>3, <1>6, CutOut
  <1>8. e + Len(x) = p + Len(t)
    BY <1>1, <1>2, <1>6
  <1> QED
    BY <1>4, <1>5, <1>7, <1>8, Zenon DEF e, t, TextAt

\* What the serialization writes for log_len.
WriteNumber(n) == <<24>> \o Varint(n)

\* A log_len on the wire is its tag and its varint.
LEMMA NumberWritten ==
  ASSUME NEW n \in Nat
  PROVE  /\ WriteNumber(n) \in Seq(Bytes)
         /\ Len(WriteNumber(n)) = 1 + Len(Varint(n))
         /\ WriteNumber(n)[1] = 24
         /\ Holds(WriteNumber(n), 1, Varint(n))
  <1> DEFINE v == Varint(n)
             t == <<24>> \o v
  <1>1. v \in Seq(Bytes) /\ Len(v) \in Nat
    BY VarintBytes
  <1> HIDE DEF v
  <1>2. <<24>> \in Seq(Bytes) /\ Len(<<24>>) = 1 /\ <<24>>[1] = 24
    BY DEF Bytes
  <1>3. t \in Seq(Bytes) /\ Len(t) = 1 + Len(v) /\ Holds(t, 1, v) /\ Holds(t, 0, <<24>>)
    BY <1>1, <1>2, Concat
  <1> HIDE DEF t
  <1>4. t[0 + 1] = <<24>>[1]
    BY <1>2, <1>3 DEF Holds
  <1>5. t[1] = 24
    BY <1>4
  <1> QED
    BY <1>3, <1>5 DEF t, v, WriteNumber

\* What the reader of a log_len needs: its tag, the number and where it ends.
NumberAt(s, p, n) ==
  /\ s[p + 1] = 24
  /\ VarintAt(s, p + 1) = n
  /\ VarintEnd(s, p + 1) = p + Len(WriteNumber(n))

\* It finds them where a log_len was written.
LEMMA LengthFound ==
  ASSUME NEW s, NEW p \in Nat, NEW n \in Nat, n < Powers[5], Holds(s, p, WriteNumber(n))
  PROVE  NumberAt(s, p, n)
  <1> DEFINE v == Varint(n)
             t == WriteNumber(n)
  <1>1. t \in Seq(Bytes) /\ Len(t) = 1 + Len(v) /\ t[1] = 24 /\ Holds(t, 1, v)
    BY NumberWritten
  <1>2. Len(v) \in Nat
    BY VarintType
  <1>3. Holds(s, p + 1, v)
    <2> HIDE DEF v, t
    <2> Holds(s, p, t)
      BY DEF t
    <2> QED
      BY <1>1, HoldsWithin
  <1>4. s[p + 1] = 24
    <2>1. 1 \in 1 .. Len(t)
      BY <1>1, <1>2
    <2>2. s[p + 1] = t[1]
      BY <2>1 DEF Holds
    <2> QED
      BY <1>1, <2>2
  <1>5. VarintAt(s, p + 1) = n /\ VarintEnd(s, p + 1) = (p + 1) + Len(v)
    BY <1>3, NumberFound, EndFound
  <1>6. (p + 1) + Len(v) = p + Len(t)
    BY <1>1, <1>2
  <1> QED
    BY <1>4, <1>5, <1>6, Zenon DEF NumberAt

\* A message with its first field, its first two and all three.
NameMsg(nm) == Set(Empty, "log_name", nm)
TextMsg(nm, ct) == Set(NameMsg(nm), "log_content", ct)
WholeMsg(nm, ct, l) == Set(TextMsg(nm, ct), "log_len", l)

\* What is written of a message, and where its fields end.
Body(nm, ct, l) == SerializeWithCachedSizes(WholeMsg(nm, ct, l))

NameEnd(nm) == Len(WriteString(10, nm))
TextEnd(nm, ct) == NameEnd(nm) + Len(WriteString(18, ct))
BodyEnd(nm, ct, l) == TextEnd(nm, ct) + Len(WriteNumber(l))

\* The lengths are such that a varint of five digits holds them and an int the whole.
Fits(nm, ct, l) ==
  /\ nm \in Seq(Bytes) /\ Len(nm) < Powers[5]
  /\ ct \in Seq(Bytes) /\ Len(ct) < Powers[5]
  /\ l \in Nat /\ l < Powers[5]
  /\ Len(nm) + Len(ct) + Room <= MaxInt

\* A message has its type, and a field without its bit has its default.
Typed(msg) == msg \in Message /\ \A f \in Fields \ msg.has : msg[f] = Default(f)

\* Set changes one field and its bit, and leaves the others: the name, ...
LEMMA SetName ==
  ASSUME NEW m \in Message, NEW x \in Seq(Bytes)
  PROVE  /\ Set(m, "log_name", x) \in Message
         /\ Set(m, "log_name", x).has = m.has \cup {"log_name"}
         /\ Set(m, "log_name", x).log_name = x
         /\ Set(m, "log_name", x).log_content = m.log_content
         /\ Set(m, "log_name", x).log_len = m.log_len
  BY DEF Message, Set, Fields

\* ... the content ...
LEMMA SetContent ==
  ASSUME NEW m \in Message, NEW x \in Seq(Bytes)
  PROVE  /\ Set(m, "log_content", x) \in Message
         /\ Set(m, "log_content", x).has = m.has \cup {"log_content"}
         /\ Set(m, "log_content", x).log_name = m.log_name
         /\ Set(m, "log_content", x).log_content = x
         /\ Set(m, "log_content", x).log_len = m.log_len
  BY DEF Message, Set, Fields

\* ... and the length.
LEMMA SetLength ==
  ASSUME NEW m \in Message, NEW n \in Nat
  PROVE  /\ Set(m, "log_len", n) \in Message
         /\ Set(m, "log_len", n).has = m.has \cup {"log_len"}
         /\ Set(m, "log_len", n).log_name = m.log_name
         /\ Set(m, "log_len", n).log_content = m.log_content
         /\ Set(m, "log_len", n).log_len = n
  BY DEF Message, Set, Fields

\* The messages have their types; only the last has all bits, and it has the values set.
LEMMA MessagesAre ==
  ASSUME NEW nm \in Seq(Bytes), NEW ct \in Seq(Bytes), NEW l \in Nat
  PROVE  /\ Typed(Empty)
         /\ Typed(NameMsg(nm))
         /\ Typed(TextMsg(nm, ct))
         /\ Typed(WholeMsg(nm, ct, l))
         /\ WholeMsg(nm, ct, l).has = Fields
         /\ WholeMsg(nm, ct, l).log_name = nm
         /\ WholeMsg(nm, ct, l).log_content = ct
         /\ WholeMsg(nm, ct, l).log_len = l
         /\ Empty.has # Fields /\ NameMsg(nm).has # Fields /\ TextMsg(nm, ct).has # Fields
  <1> DEFINE a == NameMsg(nm)
             b == TextMsg(nm, ct)
             c == WholeMsg(nm, ct, l)
  <1>1. /\ Empty \in Message
        /\ Empty.has = {}
        /\ Empty.log_name = <<>>
        /\ Empty.log_content = <<>>
        /\ Empty.log_len = 0
    BY DEF Message, Empty
  <1>2. /\ a \in Message
        /\ a.has = {"log_name"}
        /\ a.log_name = nm
        /\ a.log_content = <<>>
        /\ a.log_len = 0
    <2>1. a.has = Empty.has \cup {"log_name"}
      BY <1>1, SetName DEF NameMsg
    <2>2. /\ a \in Message
          /\ a.log_name = nm
          /\ a.log_content = Empty.log_content
          /\ a.log_len = Empty.log_len
      BY <1>1, SetName DEF NameMsg
    <2> QED
      BY <1>1, <2>1, <2>2
  <1> HIDE DEF a
  <1>3. b = Set(a, "log_content", ct)
    BY DEF a, TextMsg
  <1>4. /\ b \in Message
        /\ b.has = {"log_name", "log_content"}
        /\ b.log_name = nm
        /\ b.log_content = ct
        /\ b.log_len = 0
    <2>1. {"log_name"} \cup {"log_content"} = {"log_name", "log_content"}
      OBVIOUS
    <2> HIDE DEF b
    <2>2. /\ b \in Message
          /\ b.has = a.has \cup {"log_content"}
          /\ b.log_name = a.log_name
          /\ b.log_content = ct
          /\ b.log_len = a.log_len
      BY <1>2, <1>3, SetContent
    <2> QED
      BY <1>2, <2>1, <2>2
  <1> HIDE DEF b
  <1>5. c = Set(b, "log_len", l)
    BY DEF b, WholeMsg
  <1>6. /\ c \in Message
        /\ c.has = Fields
        /\ c.log_name = nm
        /\ c.log_content = ct
        /\ c.log_len = l
    <2>1. {"log_name", "log_content"} \cup {"log_len"} = Fields
      BY DEF Fields
    <2>2. b.has \cup {"log_len"} = Fields
      BY <1>4, <2>1
    <2> HIDE DEF c
    <2>3. /\ c \in Message
          /\ c.has = b.has \cup {"log_len"}
          /\ c.log_name = b.log_name
          /\ c.log_content = b.log_content
          /\ c.log_len = l
      BY <1>4, <1>5, SetLength
    <2> QED
      BY <1>4, <2>2, <2>3
  <1> HIDE DEF c
  <1>7. ASSUME NEW m \in Message,
               "log_name" \notin m.has => m.log_name = <<>>,
               "log_content" \notin m.has => m.log_content = <<>>,
               "log_len" \notin m.has => m.log_len = 0
        PROVE  Typed(m)
    <2>1. ASSUME NEW f \in Fields \ m.has PROVE m[f] = Default(f)
      <3>1. f = "log_name" \/ f = "log_content" \/ f = "log_len"
        BY DEF Fields
      <3> QED
        BY <1>7, <3>1 DEF Default
    <2> QED
      BY <2>1 DEF Typed
  <1>8. Typed(Empty) /\ Typed(a) /\ Typed(b) /\ Typed(c)
    <2>1. Typed(Empty)
      BY <1>1, <1>7
    <2>2. Typed(a)
      BY <1>2, <1>7
    <2>3. Typed(b)
      BY <1>4, <1>7
    <2>4. Typed(c)
      BY <1>6, <1>7 DEF Fields
    <2> QED
      BY <2>1, <2>2, <2>3, <2>4
  <1>9. Empty.has # Fields /\ a.has # Fields /\ b.has # Fields
    <2>1. {} # Fields /\ {"log_name"} # Fields /\ {"log_name", "log_content"} # Fields
      <3>1. "log_len" \in Fields
        BY DEF Fields
      <3>2. "log_len" \notin {} /\ "log_len" \notin {"log_name"}
            /\ "log_len" \notin {"log_name", "log_content"}
        OBVIOUS
      <3> QED
        BY <3>1, <3>2, Zenon
    <2> QED
      BY <1>1, <1>2, <1>4, <2>1
  <1> QED
    BY <1>6, <1>8, <1>9 DEF a, b, c

\* The body holds the three fields one behind the other, and nothing else.
LEMMA BodyHolds ==
  ASSUME NEW nm, NEW ct, NEW l, Fits(nm, ct, l)
  PROVE  /\ Body(nm, ct, l) \in Seq(Bytes)
         /\ Holds(Body(nm, ct, l), 0, WriteString(10, nm))
         /\ Holds(Body(nm, ct, l), NameEnd(nm), WriteString(18, ct))
         /\ Holds(Body(nm, ct, l), TextEnd(nm, ct), WriteNumber(l))
         /\ Len(Body(nm, ct, l)) = BodyEnd(nm, ct, l)
  <1> DEFINE a == WriteString(10, nm)
             b == WriteString(18, ct)
             c == WriteNumber(l)
             ab == a \o b
             t == ab \o c
  <1>1. a \in Seq(Bytes) /\ b \in Seq(Bytes) /\ c \in Seq(Bytes)
    BY StringWritten, NumberWritten DEF Fits
  <1>2. Body(nm, ct, l) = t
    <2> DEFINE m == WholeMsg(nm, ct, l)
    <2>1. m.has = Fields /\ m.log_name = nm /\ m.log_content = ct /\ m.log_len = l
      BY MessagesAre DEF Fits
    <2> HIDE DEF m
    <2>2. "log_name" \in Fields /\ "log_content" \in Fields /\ "log_len" \in Fields
      BY DEF Fields
    <2> QED
      BY <2>1, <2>2 DEF Body, SerializeWithCachedSizes, WriteNumber, m
  <1> HIDE DEF a, b, c
  <1>3. /\ ab \in Seq(Bytes)
        /\ Len(ab) = Len(a) + Len(b)
        /\ Holds(ab, 0, a)
        /\ Holds(ab, Len(a), b)
    BY <1>1, Concat
  <1> HIDE DEF ab
  <1>4. /\ t \in Seq(Bytes)
        /\ Len(t) = Len(ab) + Len(c)
        /\ Holds(t, 0, ab)
        /\ Holds(t, Len(ab), c)
    BY <1>1, <1>3, Concat
  <1> HIDE DEF t
  <1>5. Len(a) \in Nat /\ Len(ab) \in Nat
    BY <1>1, <1>3
  <1>6. Holds(t, 0 + 0, a) /\ Holds(t, 0 + Len(a), b)
    BY <1>3, <1>4, <1>5, HoldsWithin
  <1>7. Holds(t, 0, a) /\ Holds(t, Len(a), b)
    BY <1>5, <1>6
  <1> QED
    BY <1>2, <1>3, <1>4, <1>7 DEF a, b, c, NameEnd, TextEnd, BodyEnd

\* The fields are not empty, the whole is an int, and ByteSize is its length.
LEMMA SizesAre ==
  ASSUME NEW nm, NEW ct, NEW l, Fits(nm, ct, l)
  PROVE  /\ NameEnd(nm) \in Nat \ {0}
         /\ TextEnd(nm, ct) \in Nat /\ TextEnd(nm, ct) > NameEnd(nm)
         /\ BodyEnd(nm, ct, l) \in Nat /\ BodyEnd(nm, ct, l) > TextEnd(nm, ct)
         /\ BodyEnd(nm, ct, l) <= MaxInt
         /\ ByteSize(WholeMsg(nm, ct, l)) = BodyEnd(nm, ct, l)
  <1>1. Len(nm) \in Nat /\ Len(ct) \in Nat /\ l \in Nat
    BY DEF Fits
  <1>2. /\ Len(nm) < Powers[5] /\ Len(ct) < Powers[5] /\ l < Powers[5]
        /\ Len(nm) + Len(ct) + Room <= MaxInt
    BY DEF Fits
  <1> DEFINE x == Len(Varint(Len(nm)))
             y == Len(Varint(Len(ct)))
             z == Len(Varint(l))
  <1>3. /\ x \in 1 .. 5 /\ VarintSize(Len(nm)) = x
        /\ y \in 1 .. 5 /\ VarintSize(Len(ct)) = y
        /\ z \in 1 .. 5 /\ VarintSize(l) = z
    BY <1>1, <1>2, SizeIsLength
  <1>4. /\ Len(WriteString(10, nm)) = 1 + x + Len(nm)
        /\ Len(WriteString(18, ct)) = 1 + y + Len(ct)
        /\ Len(WriteNumber(l)) = 1 + z
    BY StringWritten, NumberWritten DEF Fits
  <1>5. ByteSize(WholeMsg(nm, ct, l))
          = (1 + (VarintSize(Len(nm)) + Len(nm))) + (1 + (VarintSize(Len(ct)) + Len(ct)))
            + (1 + VarintSize(l))
    <2> DEFINE m == WholeMsg(nm, ct, l)
    <2>1. m.has = Fields /\ m.log_name = nm /\ m.log_content = ct /\ m.log_len = l
      BY MessagesAre DEF Fits
    <2> HIDE DEF m
    <2>2. "log_name" \in Fields /\ "log_content" \in Fields /\ "log_len" \in Fields
      BY DEF Fields
    <2> QED
      BY <2>1, <2>2 DEF ByteSize, StringSize, m
  <1> HIDE DEF x, y, z
  <1>6. /\ NameEnd(nm) = 1 + x + Len(nm)
        /\ TextEnd(nm, ct) = (1 + x + Len(nm)) + (1 + y + Len(ct))
        /\ BodyEnd(nm, ct, l) = ((1 + x + Len(nm)) + (1 + y + Len(ct))) + (1 + z)
    BY <1>4 DEF NameEnd, TextEnd, BodyEnd
  <1>7. ByteSize(WholeMsg(nm, ct, l))
          = (1 + (x + Len(nm))) + (1 + (y + Len(ct))) + (1 + z)
    BY <1>3, <1>5
  <1>8. x \in 1 .. 5 /\ y \in 1 .. 5 /\ z \in 1 .. 5
    BY <1>3
  <1> QED
    BY <1>1, <1>2, <1>6, <1>7, <1>8, SMT DEF Room, MaxInt

-----------------------------------------------------------------------------
(* The way of a block.                                                     *)

\* What the client sends of a block.
Stream(nm, ct, l) == ToNet(Border) \o ToNet(BodyEnd(nm, ct, l)) \o Body(nm, ct, l)

\* The server takes the length and the body out of it where the client put them.
LEMMA StreamCut ==
  ASSUME NEW nm, NEW ct, NEW l, Fits(nm, ct, l)
  PROVE  /\ Stream(nm, ct, l) \in Seq(Bytes)
         /\ Len(Stream(nm, ct, l)) = 8 + BodyEnd(nm, ct, l)
         /\ ToHost(SubSeq(Stream(nm, ct, l), 5, 8)) = BodyEnd(nm, ct, l)
         /\ SubSeq(Stream(nm, ct, l), 9, 8 + BodyEnd(nm, ct, l)) = Body(nm, ct, l)
  <1> DEFINE n == BodyEnd(nm, ct, l)
             a == ToNet(Border)
             b == ToNet(n)
             c == Body(nm, ct, l)
             h == a \o b
             s == h \o c
  <1>1. n \in Nat /\ n <= MaxInt /\ c \in Seq(Bytes) /\ Len(c) = n
    BY SizesAre, BodyHolds
  <1>2. Border \in Nat
    BY SMT DEF Border
  <1>3. /\ a \in Seq(Bytes) /\ Len(a) = 4
        /\ b \in Seq(Bytes) /\ Len(b) = 4
    BY <1>1, <1>2, NetBytes
  <1>4. s = Stream(nm, ct, l)
    BY Zenon DEF Stream
  <1>5. b = ToNet(n)
    OBVIOUS
  <1> HIDE DEF a, b, c, n
  <1>6. h \in Seq(Bytes) /\ Len(h) = 8 /\ Holds(h, 4, b)
    <2>1. h \in Seq(Bytes) /\ Len(h) = Len(a) + Len(b) /\ Holds(h, Len(a), b)
      BY <1>3, Concat
    <2> HIDE DEF h
    <2> QED
      BY <1>3, <2>1
  <1> HIDE DEF h
  <1>7. s \in Seq(Bytes) /\ Len(s) = 8 + n /\ Holds(s, 0, h) /\ Holds(s, 8, c)
    BY <1>1, <1>6, Concat
  <1> HIDE DEF s
  <1>8. Holds(s, 4, b)
    <2>1. Holds(s, 0 + 4, b)
      BY <1>6, <1>7, HoldsWithin
    <2> QED
      BY <2>1
  <1>9. SubSeq(s, 5, 8) = b
    <2>1. SubSeq(s, 4 + 1, 4 + Len(b)) = b
      BY <1>8, CutOut
    <2> QED
      BY <1>3, <2>1
  <1>10. SubSeq(s, 9, 8 + n) = c
    <2>1. SubSeq(s, 8 + 1, 8 + Len(c)) = c
      BY <1>7, CutOut
    <2> QED
      BY <1>1, <2>1
  <1>11. ToHost(SubSeq(s, 5, 8)) = n
    BY <1>1, <1>5, <1>9, HostOfNet, Zenon
  <1> QED
    BY <1>4, <1>7, <1>9, <1>10, <1>11 DEF n, c

\* Name and block are short enough for that, whatever lies behind the block: this is what
\* LengthsAreInts is for.
LEMMA InputFits ==
  ASSUME NEW name \in Names, NEW b \in Seq(Nat), NEW y \in Seq({Junk}),
         Len(b) \in BlockLens, Len(y) <= MaxBeyond
  PROVE  Fits(CString(name \o <<Nul>>), CString(b \o y \o <<Nul>>), Len(b))
  <1> DEFINE m1 == name \o <<Nul>>
             m2 == (b \o y) \o <<Nul>>
             nm == CString(m1)
             ct == CString(m2)
  <1>1. /\ Len(name) < Powers[5]
        /\ Len(b) + MaxBeyond < Powers[5]
        /\ Len(name) + Len(b) + MaxBeyond + Room <= MaxInt
    BY LengthsAreInts
  <1>2. name \in Seq(Nat \ {0}) /\ MaxBeyond \in Nat
    BY LogInfoConstants
  <1>3. name \in Seq(Bytes) /\ b \in Seq(Bytes) /\ y \in Seq(Bytes) /\ <<Nul>> \in Seq(Bytes)
    <2>1. /\ Nat \ {0} \subseteq Bytes /\ Nat \subseteq Bytes
          /\ {Junk} \subseteq Bytes /\ Nul \in Bytes
      BY DEF Bytes, Nul
    <2>2. ASSUME NEW S, NEW s \in Seq(S), S \subseteq Bytes PROVE s \in Seq(Bytes)
      BY <2>2
    <2> QED
      BY <1>2, <2>1, <2>2
  <1>4. m1 \in Seq(Bytes) /\ Len(m1) = Len(name) + 1 /\ m1[Len(name) + 1] = Nul
    BY <1>3
  <1>5. m2 \in Seq(Bytes) /\ Len(m2) = (Len(b) + Len(y)) + 1 /\ m2[(Len(b) + Len(y)) + 1] = Nul
    BY <1>3
  <1>6. Len(name) \in Nat /\ Len(b) \in Nat /\ Len(y) \in Nat
    BY <1>3
  <1> HIDE DEF m1, m2
  <1>7. nm \in Seq(Bytes) /\ Len(nm) < Len(name) + 1
    <2>1. Len(name) + 1 \in 1 .. Len(m1)
      BY <1>4, <1>6
    <2> QED
      BY <1>4, <2>1, FirstNul
  <1>8. ct \in Seq(Bytes) /\ Len(ct) < (Len(b) + Len(y)) + 1
    <2>1. (Len(b) + Len(y)) + 1 \in 1 .. Len(m2)
      BY <1>5, <1>6
    <2> QED
      BY <1>5, <2>1, FirstNul
  <1> HIDE DEF nm, ct
  <1>9. /\ Len(nm) \in Nat /\ Len(nm) <= Len(name)
        /\ Len(ct) \in Nat /\ Len(ct) <= Len(b) + MaxBeyond
    BY <1>2, <1>6, <1>7, <1>8
  <1>10. Powers[5] \in Nat /\ Room \in Nat /\ MaxInt \in Nat
    BY PowersGrow, SMT DEF Room, MaxInt
  <1>11. Len(nm) < Powers[5] /\ Len(ct) < Powers[5] /\ Len(b) < Powers[5]
    BY <1>1, <1>2, <1>6, <1>9, <1>10
  <1>12. Len(nm) + Len(ct) + Room <= MaxInt
    BY <1>1, <1>2, <1>6, <1>9, <1>10
  <1>13. Fits(nm, ct, Len(b))
    BY <1>6, <1>7, <1>8, <1>11, <1>12 DEF Fits
  <1> QED
    BY <1>13 DEF nm, ct, m1, m2

\* fwrite appends as many bytes as it is told to.
LEMMA FileTyped ==
  ASSUME NEW ct \in Seq(Bytes), NEW n \in Nat
  PROVE  Fwrite(ct, n) \in Seq(Bytes) /\ Len(Fwrite(ct, n)) = n
  <1>1. \A i \in 1 .. n : i <= Len(ct) => ct[i] \in Bytes
    OBVIOUS
  <1>2. Nul \in Bytes /\ Junk \in Bytes
    BY DEF Nul, Bytes
  <1>3. Fwrite(ct, n) \in [1 .. n -> Bytes]
    BY <1>1, <1>2 DEF Fwrite
  <1> QED
    BY <1>3

\* Reading a text sets its field and moves behind it.
LEMMA TextRead ==
  ASSUME NEW tag \in Nat, NEW x \in Seq(Bytes), Len(x) < Powers[5], NEW field,
         pos \in Nat, Holds(content_buf, pos, WriteString(tag, x)), ReadText(field)
  PROVE  /\ parsed' = Set(parsed, field, x)
         /\ pos' = pos + Len(WriteString(tag, x))
  <1> DEFINE e == VarintEnd(content_buf, pos + 1)
             n == VarintAt(content_buf, pos + 1)
  <1>1. /\ n = Len(x)
        /\ e + Len(x) = pos + Len(WriteString(tag, x))
        /\ SubSeq(content_buf, e + 1, e + Len(x)) = x
    <2>1. TextAt(content_buf, pos, tag, x)
      BY TextFound
    <2> QED
      BY <2>1, Zenon DEF TextAt
  <1>2. parsed' = Set(parsed, field, SubSeq(content_buf, e + 1, e + n)) /\ pos' = e + n
    BY Zenon DEF ReadText
  <1> HIDE DEF e, n
  <1> QED
    BY <1>1, <1>2, Zenon

\* So does reading a number.
LEMMA NumberRead ==
  ASSUME NEW n \in Nat, n < Powers[5], NEW field,
         pos \in Nat, Holds(content_buf, pos, WriteNumber(n)), ReadNumber(field)
  PROVE  /\ parsed' = Set(parsed, field, n)
         /\ pos' = pos + Len(WriteNumber(n))
  <1> DEFINE e == VarintEnd(content_buf, pos + 1)
             x == VarintAt(content_buf, pos + 1)
  <1>1. x = n /\ e = pos + Len(WriteNumber(n))
    <2>1. NumberAt(content_buf, pos, n)
      BY LengthFound
    <2> QED
      BY <2>1, Zenon DEF NumberAt
  <1>2. parsed' = Set(parsed, field, x) /\ pos' = e
    BY Zenon DEF ReadNumber
  <1> HIDE DEF e, x
  <1> QED
    BY <1>1, <1>2, Zenon

\* What the header and the body are while the server parses.
LEMMA Received ==
  ASSUME NEW nm, NEW ct, NEW l, Fits(nm, ct, l), send_buf = Stream(nm, ct, l)
  PROVE  content_len = BodyEnd(nm, ct, l) /\ content_buf = Body(nm, ct, l)
  <1>1. content_len = BodyEnd(nm, ct, l)
    BY StreamCut, Zenon DEF content_len
  <1>2. content_buf = Body(nm, ct, l)
    BY <1>1, StreamCut, Zenon DEF content_buf
  <1> QED
    BY <1>1, <1>2

\* The parser is before a field or behind the last, and has set the fields before it.
ReadingOf(nm, ct, l) ==
  \/ pos = 0 /\ parsed = Empty
  \/ pos = NameEnd(nm) /\ parsed = NameMsg(nm)
  \/ pos = TextEnd(nm, ct) /\ parsed = TextMsg(nm, ct)
  \/ pos = BodyEnd(nm, ct, l) /\ parsed = WholeMsg(nm, ct, l)

\* Each round of the parser's loop reads the next field (power.loginfo.pb.cpp:188-262).
LEMMA FieldParsed ==
  ASSUME NEW nm, NEW ct, NEW l, Fits(nm, ct, l), send_buf = Stream(nm, ct, l),
         ReadingOf(nm, ct, l), ParseField
  PROVE  ReadingOf(nm, ct, l)'
  <1>1. content_len = BodyEnd(nm, ct, l) /\ content_buf = Body(nm, ct, l)
    BY Received
  <1> DEFINE tag == content_buf[pos + 1]
  <1>2. /\ pos < content_len
        /\ \/ tag = 10 /\ ReadText("log_name")
           \/ tag = 18 /\ ReadText("log_content")
           \/ tag = 24 /\ ReadNumber("log_len")
    BY Zenon DEF ParseField
  <1>3. /\ nm \in Seq(Bytes) /\ Len(nm) < Powers[5]
        /\ ct \in Seq(Bytes) /\ Len(ct) < Powers[5]
        /\ l \in Nat /\ l < Powers[5]
    BY DEF Fits
  <1>4. /\ NameEnd(nm) \in Nat
        /\ TextEnd(nm, ct) \in Nat
        /\ BodyEnd(nm, ct, l) \in Nat
    BY SizesAre
  <1>5. /\ Holds(content_buf, 0, WriteString(10, nm))
        /\ Holds(content_buf, NameEnd(nm), WriteString(18, ct))
        /\ Holds(content_buf, TextEnd(nm, ct), WriteNumber(l))
    BY <1>1, BodyHolds
  <1>6. CASE pos = 0 /\ parsed = Empty
    <2>1. pos \in Nat /\ Holds(content_buf, pos, WriteString(10, nm))
      BY <1>5, <1>6
    <2>2. tag = 10
      <3>1. TextAt(content_buf, pos, 10, nm)
        BY <1>3, <2>1, TextFound
      <3> QED
        BY <3>1, Zenon DEF TextAt
    <2>3. ReadText("log_name")
      BY <1>2, <2>2
    <2>4. parsed' = Set(parsed, "log_name", nm) /\ pos' = pos + Len(WriteString(10, nm))
      BY <1>3, <2>1, <2>3, TextRead
    <2>5. parsed' = NameMsg(nm)
      BY <1>6, <2>4 DEF NameMsg
    <2>6. pos' = NameEnd(nm)
      BY <1>4, <1>6, <2>4 DEF NameEnd
    <2> QED
      BY <2>5, <2>6 DEF ReadingOf
  <1>7. CASE pos = NameEnd(nm) /\ parsed = NameMsg(nm)
    <2>1. pos \in Nat /\ Holds(content_buf, pos, WriteString(18, ct))
      BY <1>4, <1>5, <1>7
    <2>2. tag = 18
      <3>1. TextAt(content_buf, pos, 18, ct)
        BY <1>3, <2>1, TextFound
      <3> QED
        BY <3>1, Zenon DEF TextAt
    <2>3. ReadText("log_content")
      BY <1>2, <2>2
    <2>4. parsed' = Set(parsed, "log_content", ct) /\ pos' = pos + Len(WriteString(18, ct))
      BY <1>3, <2>1, <2>3, TextRead
    <2>5. parsed' = TextMsg(nm, ct)
      BY <1>7, <2>4 DEF TextMsg
    <2>6. pos' = TextEnd(nm, ct)
      BY <1>7, <2>4 DEF TextEnd
    <2> QED
      BY <2>5, <2>6 DEF ReadingOf
  <1>8. CASE pos = TextEnd(nm, ct) /\ parsed = TextMsg(nm, ct)
    <2>1. pos \in Nat /\ Holds(content_buf, pos, WriteNumber(l))
      BY <1>4, <1>5, <1>8
    <2>2. tag = 24
      <3>1. NumberAt(content_buf, pos, l)
        BY <1>3, <2>1, LengthFound
      <3> QED
        BY <3>1, Zenon DEF NumberAt
    <2>3. ReadNumber("log_len")
      BY <1>2, <2>2
    <2>4. parsed' = Set(parsed, "log_len", l) /\ pos' = pos + Len(WriteNumber(l))
      BY <1>3, <2>1, <2>3, NumberRead
    <2>5. parsed' = WholeMsg(nm, ct, l)
      BY <1>8, <2>4 DEF WholeMsg
    <2>6. pos' = BodyEnd(nm, ct, l)
      BY <1>8, <2>4 DEF BodyEnd
    <2> QED
      BY <2>5, <2>6 DEF ReadingOf
  <1>9. CASE pos = BodyEnd(nm, ct, l)
    BY <1>1, <1>2, <1>4, <1>9
  <1> QED
    BY <1>6, <1>7, <1>8, <1>9 DEF ReadingOf

\* What is read from memory as a name and as a block.
Name    == CString(log_name \o <<Nul>>)
Content == CString(buf \o beyond \o <<Nul>>)
Whole   == WholeMsg(Name, Content, LogLen)

Sent == Stream(Name, Content, LogLen)

\* What Init chooses, and no step changes.
InputOK ==
  /\ log_name \in Names
  /\ buf \in Seq(Nat) /\ Len(buf) \in BlockLens
  /\ beyond \in Seq({Junk}) /\ Len(beyond) <= MaxBeyond

\* The inductive invariant: info is what the memory holds, what is sent is its
\* serialization, the parser has read the fields before pos, and the file is what is
\* written of them.
BlockInv ==
  /\ InputOK
  /\ step \in {"set", "serialize", "parse", "written"}
  /\ info = IF step = "set" THEN Empty ELSE Whole
  /\ IF step \in {"set", "serialize"}
       THEN send_buf = <<>> /\ pos = 0 /\ parsed = Empty
       ELSE send_buf = Sent /\ ReadingOf(Name, Content, LogLen)
  /\ IF step = "written"
       THEN parsed = Whole /\ file = Fwrite(Content, LogLen)
       ELSE file = <<>>

\* The lengths of a block and its name fit.
LEMMA BlockFits ==
  ASSUME InputOK
  PROVE  Fits(Name, Content, LogLen)
  BY InputFits DEF InputOK, Name, Content, LogLen

\* The invariant holds initially.
LEMMA BlockInit == ASSUME Init PROVE BlockInv
  <1>1. PICK n \in BlockLens, nul \in Nat :
          buf = [i \in 1 .. n |-> IF i = nul THEN Nul ELSE i]
    <2>1. \A n \in BlockLens : n \in Nat /\ 0 .. n \subseteq Nat
      BY LogInfoConstants
    <2> QED
      BY <2>1 DEF Init
  <1>2. PICK m \in 0 .. MaxBeyond : beyond = [i \in 1 .. m |-> Junk]
    BY DEF Init
  <1>3. n \in Nat /\ m \in Nat /\ m <= MaxBeyond
    BY <1>1, <1>2, LogInfoConstants
  <1>4. buf \in Seq(Nat) /\ Len(buf) = n
    BY <1>1, <1>3 DEF Nul
  <1>5. beyond \in Seq({Junk}) /\ Len(beyond) = m
    BY <1>2, <1>3
  <1>6. InputOK
    BY <1>1, <1>3, <1>4, <1>5 DEF InputOK, Init
  <1> QED
    BY <1>6, Zenon DEF BlockInv, Init

\* Every step keeps it.
LEMMA BlockNext == ASSUME BlockInv, [Next]_vars PROVE BlockInv'
  <1>1. InputOK /\ Fits(Name, Content, LogLen)
    BY BlockFits DEF BlockInv
  <1>2. log_name' = log_name /\ buf' = buf /\ beyond' = beyond
    BY Zenon DEF Next, vars, SetFields, Serialize, ParseField, WriteToFile, Done
  <1>3. /\ Name' = Name /\ Content' = Content /\ LogLen' = LogLen
        /\ Whole' = Whole /\ Sent' = Sent /\ InputOK'
    BY <1>1, <1>2, Zenon DEF Name, Content, LogLen, Whole, Sent, InputOK
  <1>4. CASE SetFields
    <2>1. step = "set" /\ step' = "serialize" /\ UNCHANGED <<send_buf, pos, parsed, file>>
      BY <1>4 DEF SetFields
    <2>2. info' = Whole
      BY <1>4, Zenon DEF SetFields, Whole, WholeMsg, TextMsg, NameMsg, Name, Content
    <2> QED
      BY <1>3, <2>1, <2>2 DEF BlockInv
  <1>5. CASE Serialize
    <2>1. step = "serialize" /\ step' = "parse" /\ UNCHANGED <<info, pos, parsed, file>>
      BY <1>5 DEF Serialize
    <2>2. info = Whole /\ pos = 0 /\ parsed = Empty /\ file = <<>>
      BY <2>1 DEF BlockInv
    <2>3. ByteSize(Whole) = BodyEnd(Name, Content, LogLen)
      BY <1>1, SizesAre DEF Whole
    <2>4. send_buf' = ToNet(Border) \o ToNet(ByteSize(Whole))
                      \o SerializeWithCachedSizes(Whole)
      BY <1>5, <2>2 DEF Serialize
    <2>5. send_buf' = Sent
      BY <2>3, <2>4, Zenon DEF Sent, Stream, Body, Whole
    <2>6. ReadingOf(Name, Content, LogLen)'
      BY <2>1, <2>2 DEF ReadingOf
    <2> QED
      BY <1>3, <2>1, <2>2, <2>5, <2>6 DEF BlockInv
  <1>6. CASE ParseField
    <2>1. step = "parse" /\ UNCHANGED <<step, info, send_buf, file>>
      BY <1>6 DEF ParseField
    <2>2. info = Whole /\ send_buf = Sent /\ ReadingOf(Name, Content, LogLen) /\ file = <<>>
      BY <2>1 DEF BlockInv
    <2>3. PICK a, b, c : a = Name /\ b = Content /\ c = LogLen
      OBVIOUS
    <2>4. ReadingOf(a, b, c)'
      BY <1>1, <1>6, <2>2, <2>3, FieldParsed DEF Sent
    <2>5. ReadingOf(Name, Content, LogLen)'
      BY <1>3, <2>3, <2>4 DEF ReadingOf
    <2> QED
      BY <1>3, <2>1, <2>2, <2>5 DEF BlockInv
  <1>7. CASE WriteToFile
    <2>1. /\ step = "parse" /\ step' = "written" /\ UNCHANGED <<info, send_buf, pos, parsed>>
          /\ parsed.has = Fields
          /\ file' = Fwrite(parsed.log_content, parsed.log_len)
      BY <1>7 DEF WriteToFile, IsInitialized
    <2>2. info = Whole /\ send_buf = Sent /\ ReadingOf(Name, Content, LogLen)
      BY <2>1 DEF BlockInv
    <2>3. parsed = Whole
      BY <1>1, <2>1, <2>2, MessagesAre DEF ReadingOf, Whole, Fits
    <2>4. Whole.log_content = Content /\ Whole.log_len = LogLen
      BY <1>1, MessagesAre DEF Whole, Fits
    <2>5. file' = Fwrite(Content, LogLen)
      BY <2>1, <2>3, <2>4
    <2>6. ReadingOf(Name, Content, LogLen)'
      BY <1>3, <2>1, <2>2 DEF ReadingOf
    <2> QED
      BY <1>3, <2>1, <2>2, <2>3, <2>5, <2>6 DEF BlockInv
  <1>8. CASE UNCHANGED vars
    <2>1. UNCHANGED <<step, info, send_buf, pos, parsed, file>>
      BY <1>8 DEF vars
    <2>2. ReadingOf(Name, Content, LogLen) => ReadingOf(Name, Content, LogLen)'
      BY <1>3, <2>1 DEF ReadingOf
    <2> QED
      BY <1>3, <2>1, <2>2, Zenon DEF BlockInv
  <1> QED
    BY <1>4, <1>5, <1>6, <1>7, <1>8 DEF Next, Done

\* The invariant holds in every state: a block goes through SendToServer, the generated
\* code and WriteToFile as BlockInv says (tcp_client.cpp:141-163, process_task.cpp:206-226).
THEOREM BlockInvCorrect == Spec => []BlockInv
  <1>1. Init => BlockInv
    BY BlockInit
  <1>2. BlockInv /\ [Next]_vars => BlockInv'
    BY BlockNext
  <1> QED
    BY <1>1, <1>2, PTL DEF Spec

\* The invariant gives the types, ...
LEMMA BlockTyped == ASSUME BlockInv PROVE TypeOK
  <1>1. InputOK /\ Fits(Name, Content, LogLen)
    BY BlockFits DEF BlockInv
  <1>2. Name \in Seq(Bytes) /\ Content \in Seq(Bytes) /\ LogLen \in Nat
    BY <1>1 DEF Fits
  <1>3. /\ Typed(Empty) /\ Typed(NameMsg(Name))
        /\ Typed(TextMsg(Name, Content)) /\ Typed(Whole)
    BY <1>2, MessagesAre DEF Whole
  <1>4. /\ NameEnd(Name) \in Nat
        /\ TextEnd(Name, Content) \in Nat
        /\ BodyEnd(Name, Content, LogLen) \in Nat
    BY <1>1, SizesAre
  <1>5. Typed(info)
    BY <1>3 DEF BlockInv
  <1>6. pos \in Nat /\ Typed(parsed)
    BY <1>3, <1>4 DEF BlockInv, ReadingOf, Whole
  <1>7. send_buf \in Seq(Bytes)
    <2>1. Sent \in Seq(Bytes) /\ <<>> \in Seq(Bytes)
      BY <1>1, StreamCut DEF Sent
    <2>2. send_buf = Sent \/ send_buf = <<>>
      BY Zenon DEF BlockInv
    <2> QED
      BY <2>1, <2>2, Zenon
  <1>8. file \in Seq(Bytes)
    <2>1. Fwrite(Content, LogLen) \in Seq(Bytes) /\ <<>> \in Seq(Bytes)
      BY <1>2, FileTyped
    <2>2. file = Fwrite(Content, LogLen) \/ file = <<>>
      BY Zenon DEF BlockInv
    <2> QED
      BY <2>1, <2>2, Zenon
  <1> QED
    BY <1>1, <1>5, <1>6, <1>7, <1>8 DEF TypeOK, BlockInv, InputOK, Typed

\* ... that the fields arrive ...
LEMMA BlockArrives == ASSUME BlockInv PROVE FieldsArrive
  <1>1. Fits(Name, Content, LogLen)
    BY BlockFits DEF BlockInv
  <1>2. ASSUME send_buf # <<>> PROVE Len(send_buf) = 8 + content_len
    <2>1. send_buf = Stream(Name, Content, LogLen)
      BY <1>2 DEF BlockInv, Sent
    <2> QED
      BY <1>1, <2>1, StreamCut, Received
  <1>3. ASSUME step = "written" PROVE parsed = info
    BY <1>3 DEF BlockInv
  <1> QED
    BY <1>2, <1>3 DEF FieldsArrive

\* ... and that the file holds the text of the block.
LEMMA BlockHoldsText == ASSUME BlockInv PROVE LogHoldsText
  <1> SUFFICES ASSUME step = "written"
               PROVE  /\ Len(file) = Len(buf)
                      /\ \A n \in DOMAIN buf :
                           (\A i \in 1 .. n - 1 : buf[i] # Nul) => file[n] = buf[n]
    BY DEF LogHoldsText
  <1>1. InputOK /\ file = Fwrite(Content, LogLen)
    BY DEF BlockInv
  <1>2. /\ buf \in Seq(Nat) /\ Len(buf) \in Nat
        /\ beyond \in Seq({Junk}) /\ Len(beyond) \in Nat
    BY <1>1 DEF InputOK
  <1> DEFINE m == (buf \o beyond) \o <<Nul>>
             z == (Len(buf) + Len(beyond)) + 1
  <1>3. buf \in Seq(Bytes) /\ beyond \in Seq(Bytes) /\ <<Nul>> \in Seq(Bytes)
    BY <1>2 DEF Bytes, Nul
  <1>4. m \in Seq(Bytes) /\ z \in 1 .. Len(m) /\ m[z] = Nul
    BY <1>3
  <1>5. \A i \in 1 .. Len(buf) : m[i] = buf[i]
    BY <1>3
  <1>6. Content = CString(m)
    BY DEF Content
  <1> HIDE DEF m, z
  <1>7. /\ Content \in Seq(Bytes)
        /\ m[Len(Content) + 1] = Nul
        /\ \A i \in 1 .. Len(Content) : Content[i] = m[i]
    BY <1>4, <1>6, FirstNul
  <1>8. Len(file) = Len(buf)
    BY <1>1, <1>2, <1>7, FileTyped DEF LogLen
  <1>9. ASSUME NEW n \in DOMAIN buf, \A i \in 1 .. n - 1 : buf[i] # Nul
        PROVE  file[n] = buf[n]
    <2>1. n \in 1 .. Len(buf) /\ Len(Content) \in Nat
      BY <1>2, <1>7
    <2>2. file[n] = CASE n <= Len(Content) -> Content[n]
                      [] n = Len(Content) + 1 -> Nul
                      [] OTHER -> Junk
      BY <1>1, <2>1 DEF Fwrite, LogLen
    <2>3. CASE n <= Len(Content)
      BY <1>5, <1>7, <2>1, <2>2, <2>3
    <2>4. CASE n = Len(Content) + 1
      BY <1>5, <1>7, <2>1, <2>2, <2>4
    <2>5. CASE n > Len(Content) + 1
      <3>1. Len(Content) + 1 \in 1 .. n - 1 /\ Len(Content) + 1 \in 1 .. Len(buf)
        BY <2>1, <2>5
      <3>2. buf[Len(Content) + 1] = Nul
        BY <1>5, <1>7, <3>1
      <3> QED
        BY <1>9, <3>1, <3>2
    <2> QED
      BY <2>1, <2>3, <2>4, <2>5
  <1> QED
    BY <1>8, <1>9

\* Every variable has its type, and a field without its bit has its default.
THEOREM TypeCorrect == Spec => []TypeOK
  <1>1. BlockInv => TypeOK
    BY BlockTyped
  <1> QED
    BY <1>1, BlockInvCorrect, PTL

\* For every name, block and base, the length in the header is that of the body that
\* follows, and the server reads the fields as the client set them
\* (power.loginfo.pb.cpp:188-364, process_task.cpp:341-361).
THEOREM FieldsArriveCorrect == Spec => []FieldsArrive
  <1>1. BlockInv => FieldsArrive
    BY BlockArrives
  <1> QED
    BY <1>1, BlockInvCorrect, PTL

\* The server appends as many bytes as the client had in its block, and those up to the
\* first Nul are the block's (tcp_client.cpp:147-150, process_task.cpp:226).
THEOREM LogHoldsTextCorrect == Spec => []LogHoldsText
  <1>1. BlockInv => LogHoldsText
    BY BlockHoldsText
  <1> QED
    BY <1>1, BlockInvCorrect, PTL

\* A log keeps its name.
NameArrives == step = "written" => parsed.log_name = log_name

\* A block without a Nul is appended as it was read.
TextArrives == step = "written" /\ (\A i \in DOMAIN buf : buf[i] # Nul) => file = buf

\* The invariant gives that a name, which has no Nul, arrives whole ...
LEMMA BlockNamed == ASSUME BlockInv PROVE NameArrives
  <1> SUFFICES ASSUME step = "written" PROVE parsed.log_name = log_name
    BY DEF NameArrives
  <1>1. InputOK /\ parsed = Whole /\ Fits(Name, Content, LogLen)
    BY BlockFits DEF BlockInv
  <1>2. Whole.log_name = Name
    BY <1>1, MessagesAre DEF Whole, Fits
  <1>3. log_name \in Seq(Nat \ {0})
    BY <1>1, LogInfoConstants DEF InputOK
  <1> DEFINE m == log_name \o <<Nul>>
             z == Len(log_name) + 1
  <1>4. /\ m \in Seq(Bytes) /\ z \in 1 .. Len(m) /\ m[z] = Nul
        /\ Len(m) = z
        /\ \A i \in 1 .. Len(log_name) : m[i] = log_name[i] /\ m[i] # Nul
    <2>1. log_name \in Seq(Bytes) /\ <<Nul>> \in Seq(Bytes)
      BY <1>3 DEF Bytes, Nul
    <2>2. \A i \in 1 .. Len(log_name) : log_name[i] # Nul
      BY <1>3 DEF Nul
    <2> QED
      BY <2>1, <2>2
  <1>5. Name = CString(m)
    BY DEF Name
  <1> HIDE DEF m
  <1>6. /\ Name \in Seq(Bytes)
        /\ Len(Name) < z
        /\ m[Len(Name) + 1] = Nul
        /\ \A i \in 1 .. Len(Name) : Name[i] = m[i]
    BY <1>4, <1>5, FirstNul
  <1>7. Len(Name) \in Nat /\ Len(log_name) \in Nat
    BY <1>3, <1>6
  <1>8. Len(Name) = Len(log_name)
    <2>1. SUFFICES ASSUME Len(Name) < Len(log_name) PROVE FALSE
      BY <1>6, <1>7
    <2>2. Len(Name) + 1 \in 1 .. Len(log_name)
      BY <1>7, <2>1
    <2> QED
      BY <1>4, <1>6, <2>2
  <1>9. \A i \in 1 .. Len(Name) : Name[i] = log_name[i]
    BY <1>4, <1>6, <1>8
  <1>10. Name = log_name
    <2>1. log_name \in Seq(Bytes)
      BY <1>3 DEF Bytes
    <2>2. ASSUME NEW s \in Seq(Bytes), NEW t \in Seq(Bytes), Len(s) = Len(t),
                 \A i \in 1 .. Len(s) : s[i] = t[i]
          PROVE  s = t
      BY <2>2
    <2> QED
      BY <1>6, <1>8, <1>9, <2>1, <2>2
  <1> QED
    BY <1>1, <1>2, <1>10

\* ... and that a block without one is appended whole.
LEMMA BlockUnchanged == ASSUME BlockInv PROVE TextArrives
  <1> SUFFICES ASSUME step = "written", \A i \in DOMAIN buf : buf[i] # Nul PROVE file = buf
    BY DEF TextArrives
  <1>1. LogHoldsText
    BY BlockHoldsText
  <1>2. InputOK /\ Fits(Name, Content, LogLen) /\ file = Fwrite(Content, LogLen)
    BY BlockFits DEF BlockInv
  <1>3. buf \in Seq(Nat) /\ file \in Seq(Bytes)
    <2>1. buf \in Seq(Nat) /\ Content \in Seq(Bytes) /\ LogLen \in Nat
      BY <1>2 DEF InputOK, Fits
    <2> QED
      BY <1>2, <2>1, FileTyped
  <1>4. Len(file) = Len(buf)
    BY <1>1 DEF LogHoldsText
  <1>5. ASSUME NEW n \in 1 .. Len(buf) PROVE file[n] = buf[n]
    <2>1. n \in DOMAIN buf /\ \A i \in 1 .. n - 1 : i \in DOMAIN buf
      BY <1>3
    <2>2. \A i \in 1 .. n - 1 : buf[i] # Nul
      BY <2>1
    <2> QED
      BY <1>1, <2>1, <2>2 DEF LogHoldsText
  <1> QED
    BY <1>3, <1>4, <1>5

\* A block without a Nul is appended to the file of its own name as it was read: only a
\* Nul makes the difference that LogHoldsBlock shows (tcp_client.cpp:147-150).
THEOREM TextArrivesCorrect == Spec => [](NameArrives /\ TextArrives)
  <1>1. BlockInv => NameArrives /\ TextArrives
    BY BlockNamed, BlockUnchanged
  <1> QED
    BY <1>1, BlockInvCorrect, PTL
=============================================================================
