------------------------------ MODULE AppProofs ------------------------------
(***************************************************************************)
(* Theorems about App and Prestige for any seeds, colonies, limits of the  *)
(* counters and faults of the store: the payout's square root is exact,    *)
(* and the ledger, the credits, the promises and the live view keep their  *)
(* properties in every reachable state.                                    *)
(***************************************************************************)
EXTENDS App, Totals

-----------------------------------------------------------------------------
(* The square root *)

\* The registers of integer_sqrt.
RootStates == [bit : Nat, remainder : Int, result : Nat]

\* The roots of the powers of four.
Doubling(p) == p[0] = 1 /\ \A i \in 1 .. Digits : p[i] = 2 * p[i - 1]
PowerOfTwo == CHOOSE p \in [0 .. Digits -> Nat] : Doubling(p)

\* They are there, double from one to the next, and none passes the last.
LEMMA PowersOfTwo ==
  /\ PowerOfTwo \in [0 .. Digits -> Nat] /\ PowerOfTwo[0] = 1
  /\ \A i \in 1 .. Digits : PowerOfTwo[i] = 2 * PowerOfTwo[i - 1]
  /\ \A i \in 0 .. Digits : PowerOfTwo[i] > 0
  /\ \A i \in 0 .. Digits - 1 : 2 * PowerOfTwo[i] <= PowerOfTwo[Digits]
<1> DEFINE next == [p \in Steps(Digits, Nat) |-> 2 * p[2]]
<1>1. next \in [Steps(Digits, Nat) -> Nat]
  BY DEF Steps
<1>2. PICK f \in [0 .. Digits -> Nat] : Passed(f, 1, next, Digits)
  <2> HIDE DEF next
  <2> QED BY <1>1, Iterated, PrestigeAssumption
<1>3. Doubling(f)
  <2>1. ASSUME NEW i \in 1 .. Digits PROVE f[i] = 2 * f[i - 1]
    <3>1. i - 1 \in 0 .. Digits
      BY PrestigeAssumption
    <3>2. <<i, f[i - 1]>> \in Steps(Digits, Nat)
      BY <3>1 DEF Steps
    <3>3. f[i] = next[<<i, f[i - 1]>>]
      BY <1>2 DEF Passed
    <3> QED BY <3>2, <3>3
  <2> QED BY <1>2, <2>1 DEF Passed, Doubling
<1>4. PowerOfTwo \in [0 .. Digits -> Nat] /\ Doubling(PowerOfTwo)
  BY <1>3 DEF PowerOfTwo
<1> DEFINE p == PowerOfTwo
           Low == {i \in 0 .. Digits : ~(p[i] > 0)}
           High == {m \in 0 .. Digits : \E i \in 0 .. m : p[i] > p[m]}
<1>5. p[0] = 1 /\ \A i \in 1 .. Digits : p[i] = 2 * p[i - 1] /\ p[i - 1] \in Nat /\ p[i] \in Nat
  BY SMTT(30), <1>4, PrestigeAssumption DEF Doubling
<1> HIDE DEF p
<1>6. Low = {}
  <2>1. ASSUME NEW i \in Low PROVE \E m \in Low : m < i
    <3>1. i \in 1 .. Digits
      BY <1>5, PrestigeAssumption
    <3>2. i - 1 \in Low
      BY SMTT(30), <1>5, <3>1, PrestigeAssumption
    <3> QED BY <3>1, <3>2
  <2>2. Low \in SUBSET (0 .. Digits) /\ Digits \in Nat
    BY PrestigeAssumption
  <2> HIDE DEF Low
  <2> QED BY ONLY <2>1, <2>2, NoneBadUpTo
<1>7. High = {}
  <2>1. ASSUME NEW m \in High PROVE \E n \in High : n < m
    <3>1. PICK i \in 0 .. m : p[i] > p[m]
      OBVIOUS
    <3>2. m \in 0 .. Digits /\ p[m] \in Nat /\ p[i] \in Nat
      BY <1>4, PrestigeAssumption DEF p
    <3>3. i # m /\ m \in 1 .. Digits
      BY <3>1, <3>2
    <3>4. i \in 0 .. m - 1 /\ m - 1 \in 0 .. Digits
      BY <3>2, <3>3, PrestigeAssumption
    <3>5. p[m] = 2 * p[m - 1] /\ p[m - 1] \in Nat
      BY <1>5, <3>3
    <3>6. p[i] > p[m - 1]
      BY <3>1, <3>2, <3>5
    <3> QED BY <3>3, <3>4, <3>6, PrestigeAssumption
  <2>2. High \in SUBSET (0 .. Digits) /\ Digits \in Nat
    BY PrestigeAssumption
  <2> HIDE DEF High
  <2> QED BY ONLY <2>1, <2>2, NoneBadUpTo
<1>8. ASSUME NEW i \in 0 .. Digits - 1 PROVE 2 * p[i] <= p[Digits]
  <2>1. i + 1 \in 1 .. Digits /\ i + 1 \in 0 .. Digits /\ Digits \in 0 .. Digits /\ i + 1 - 1 = i
    BY PrestigeAssumption
  <2>2. p[i + 1] = 2 * p[i] /\ p[i + 1] \in Nat
    BY <1>5, <2>1
  <2>3. p[Digits] \in Nat /\ ~(p[i + 1] > p[Digits])
    BY <1>4, <1>7, <2>1 DEF p
  <2> QED BY <2>2, <2>3
<1> QED BY <1>4, <1>5, <1>6, <1>8 DEF p

\* A power of four is the square of one of them.
LEMMA Squares ==
  /\ \A i \in 0 .. Digits : PowerOfFour[i] = PowerOfTwo[i] * PowerOfTwo[i]
  /\ TopBit = PowerOfTwo[Digits - 1] * PowerOfTwo[Digits - 1]
  /\ Register = PowerOfTwo[Digits] * PowerOfTwo[Digits] /\ Register = 4 * TopBit
  /\ TopBit \in Nat /\ Register \in Nat /\ Register > 0
<1> DEFINE p == PowerOfTwo
           A(f) == [i \in 0 .. Digits |-> IF i = 0 THEN 1 ELSE 4 * f[i - 1]]
           sq == [i \in 0 .. Digits |-> p[i] * p[i]]
<1>1. /\ p \in [0 .. Digits -> Nat] /\ p[0] = 1 /\ \A i \in 1 .. Digits : p[i] = 2 * p[i - 1]
      /\ \A i \in 0 .. Digits : p[i] > 0
  BY PowersOfTwo
<1> HIDE DEF p
<1>2. ASSUME NEW i \in 1 .. Digits PROVE sq[i] = 4 * sq[i - 1]
  <2>1. i - 1 \in 0 .. Digits /\ i \in 0 .. Digits
    BY PrestigeAssumption
  <2>2. p[i] = 2 * p[i - 1] /\ p[i - 1] \in Nat
    BY <1>1, <2>1
  <2>3. (2 * p[i - 1]) * (2 * p[i - 1]) = 4 * (p[i - 1] * p[i - 1])
    BY <2>2
  <2> QED BY <2>1, <2>2, <2>3
<1>3. sq = A(sq)
  <2>1. ASSUME NEW i \in 0 .. Digits PROVE sq[i] = A(sq)[i]
    <3>1. CASE i = 0
      BY <1>1, <3>1
    <3>2. CASE i # 0
      <4>1. i \in 1 .. Digits
        BY <3>2, PrestigeAssumption
      <4>2. sq[i] = 4 * sq[i - 1]
        BY <1>2, <4>1
      <4> HIDE DEF sq
      <4> QED BY <3>2, <4>2
    <3> QED BY <3>1, <3>2
  <2>2. sq = [i \in 0 .. Digits |-> sq[i]] /\ A(sq) = [i \in 0 .. Digits |-> A(sq)[i]]
    OBVIOUS
  <2> HIDE DEF A, sq
  <2> QED BY ONLY <2>1, <2>2
<1>4. PowerOfFour = CHOOSE f : f = A(f)
  BY DEF PowerOfFour
<1>5. PowerOfFour = A(PowerOfFour)
  <2> HIDE DEF A, sq
  <2> QED BY <1>3, <1>4
<1> DEFINE four == PowerOfFour
<1> HIDE DEF four
<1>6. four[0] = 1 /\ \A i \in 1 .. Digits : four[i] = 4 * four[i - 1]
  <2>1. \A i \in 0 .. Digits : four[i] = A(four)[i]
    BY <1>5 DEF four
  <2> QED BY <2>1, PrestigeAssumption
<1> DEFINE Bad == {i \in 0 .. Digits : four[i] # p[i] * p[i]}
<1>7. Bad = {}
  <2>1. ASSUME NEW i \in Bad PROVE \E m \in Bad : m < i
    <3>1. i \in 1 .. Digits
      <4>1. p[0] * p[0] = 1
        BY <1>1
      <4>2. i \in 0 .. Digits /\ four[i] # p[i] * p[i]
        OBVIOUS
      <4>3. i # 0
        BY <1>6, <4>1, <4>2
      <4> QED BY <4>2, <4>3, PrestigeAssumption
    <3>2. four[i] = 4 * four[i - 1] /\ p[i] * p[i] = 4 * (p[i - 1] * p[i - 1])
      <4>1. i \in 0 .. Digits /\ i - 1 \in 0 .. Digits
        BY <3>1, PrestigeAssumption
      <4>2. sq[i] = p[i] * p[i] /\ sq[i - 1] = p[i - 1] * p[i - 1]
        BY <4>1
      <4> HIDE DEF sq
      <4> QED BY <1>2, <1>6, <3>1, <4>2
    <3>3. i - 1 \in Bad
      BY <3>1, <3>2, PrestigeAssumption
    <3> QED BY <3>1, <3>3
  <2>2. Bad \in SUBSET (0 .. Digits) /\ Digits \in Nat
    BY PrestigeAssumption
  <2> HIDE DEF Bad
  <2> QED BY ONLY <2>1, <2>2, NoneBadUpTo
<1>8. \A i \in 0 .. Digits : four[i] = p[i] * p[i]
  BY <1>7
<1>9. /\ Digits \in 1 .. Digits /\ Digits \in 0 .. Digits /\ Digits - 1 \in 0 .. Digits
  BY PrestigeAssumption
<1>10. four[Digits] = 4 * four[Digits - 1]
  BY <1>6, <1>9
<1>11. p[Digits - 1] * p[Digits - 1] \in Nat /\ p[Digits] * p[Digits] \in Nat
       /\ p[Digits] * p[Digits] > 0
  BY <1>1, <1>9
<1> QED BY <1>8, <1>9, <1>10, <1>11 DEF TopBit, Register, four, p

\* A digit keeps the registers numbers.
LEMMA DigitType ==
  ASSUME NEW s \in RootStates
  PROVE  RootDigit(s) \in RootStates
<1> DEFINE b == s.bit
           r == s.result
           m == s.remainder
           t == (r + b) % Register
           u == (r \div 2 + b) % Register
<1>1. b \in Nat /\ r \in Nat /\ m \in Int
  BY DEF RootStates
<1>2. Register \in Nat /\ 0 < Register
  BY Squares
<1>3. /\ t \in Int /\ u \in Nat /\ b \div 4 \in Nat /\ r \div 2 \in Nat
  BY <1>1, <1>2
<1>4. RootDigit(s) = IF b = 0 THEN s
                     ELSE IF m >= t
                     THEN [bit |-> b \div 4, remainder |-> m - t, result |-> u]
                     ELSE [bit |-> b \div 4, remainder |-> m, result |-> r \div 2]
  BY DEF RootDigit
<1> HIDE DEF t, u
<1> QED BY <1>1, <1>3, <1>4 DEF RootStates

\* The two loops, as sequences of steps.
Alignment(f, value) ==
  /\ f \in [0 .. Digits -> Nat] /\ f[0] = TopBit
  /\ \A i \in 1 .. Digits : f[i] = IF f[i - 1] > value THEN f[i - 1] \div 4 ELSE f[i - 1]
Rooting(g, bit, value) ==
  /\ g \in [0 .. Digits -> RootStates] /\ g[0] = [bit |-> bit, remainder |-> value, result |-> 0]
  /\ \A i \in 1 .. Digits : g[i] = RootDigit(g[i - 1])

\* integer_sqrt runs them one after the other.
LEMMA RootLoops ==
  ASSUME NEW value \in Nat, value >= 2
  PROVE  \E f, g : /\ Alignment(f, value) /\ Rooting(g, f[Digits], value)
                   /\ IntegerSqrt(value) = g[Digits].result
<1> DEFINE A(f) == [i \in 0 .. Digits |->
                      IF i = 0 THEN TopBit
                      ELSE IF f[i - 1] > value THEN f[i - 1] \div 4 ELSE f[i - 1]]
           aligned == CHOOSE f : f = A(f)
           B(g) == [i \in 0 .. Digits |->
                      IF i = 0 THEN [bit |-> aligned[Digits], remainder |-> value, result |-> 0]
                      ELSE RootDigit(g[i - 1])]
           root == CHOOSE g : g = B(g)
<1>1. Digits \in Nat /\ TopBit \in Nat /\ Digits \in 0 .. Digits
  BY Squares, PrestigeAssumption
<1>2. IntegerSqrt(value) = root[Digits].result
  BY DEF IntegerSqrt
<1>3. Alignment(aligned, value)
  <2> DEFINE S == Nat
             next == [p \in Steps(Digits, S) |-> IF p[2] > value THEN p[2] \div 4 ELSE p[2]]
  <2>1. next \in [Steps(Digits, S) -> S]
    BY DEF Steps
  <2>2. PICK f \in [0 .. Digits -> S] : Passed(f, TopBit, next, Digits)
    <3> HIDE DEF next
    <3> QED BY <1>1, <2>1, Iterated
  <2>3. \A i \in 1 .. Digits : f[i] = IF f[i - 1] > value THEN f[i - 1] \div 4 ELSE f[i - 1]
    <3> SUFFICES ASSUME NEW i \in 1 .. Digits
                 PROVE  f[i] = IF f[i - 1] > value THEN f[i - 1] \div 4 ELSE f[i - 1]
      OBVIOUS
    <3>1. i - 1 \in 0 .. Digits /\ f[i - 1] \in Nat
      BY <1>1
    <3>2. <<i, f[i - 1]>> \in Steps(Digits, S)
      BY <3>1 DEF Steps
    <3>3. f[i] = next[<<i, f[i - 1]>>]
      BY <2>2 DEF Passed
    <3> QED BY <3>2, <3>3
  <2>4. f[0] = TopBit
    BY <2>2 DEF Passed
  <2>5. f = A(f)
    <3>1. ASSUME NEW i \in 0 .. Digits PROVE f[i] = A(f)[i]
      <4>1. CASE i = 0
        BY <2>4, <4>1
      <4>2. CASE i # 0
        <5>1. i \in 1 .. Digits
          BY <1>1, <4>2
        <5> QED BY <2>3, <4>2, <5>1
      <4> QED BY <4>1, <4>2
    <3>2. f = [i \in 0 .. Digits |-> f[i]] /\ A(f) = [i \in 0 .. Digits |-> A(f)[i]]
      OBVIOUS
    <3> HIDE DEF A
    <3> QED BY ONLY <3>1, <3>2
  <2>6. aligned = A(aligned)
    <3> HIDE DEF A
    <3> QED BY <2>5
  <2> HIDE DEF aligned
  <2>7. /\ aligned[0] = TopBit
        /\ \A i \in 1 .. Digits :
             aligned[i] = IF aligned[i - 1] > value THEN aligned[i - 1] \div 4 ELSE aligned[i - 1]
    <3>1. \A i \in 0 .. Digits : aligned[i] = A(aligned)[i]
      BY <2>6
    <3> QED BY <1>1, <3>1
  <2>8. \A i \in 0 .. Digits : aligned[i] = f[i]
    <3> DEFINE Bad == {i \in 0 .. Digits : aligned[i] # f[i]}
    <3>1. ASSUME NEW i \in Bad PROVE \E j \in Bad : j < i
      <4>1. i \in 1 .. Digits
        BY <1>1, <2>4, <2>7
      <4>2. aligned[i - 1] # f[i - 1]
        BY <2>3, <2>7, <4>1
      <4> QED BY <1>1, <4>1, <4>2
    <3>2. Bad \in SUBSET (0 .. Digits)
      OBVIOUS
    <3> HIDE DEF Bad
    <3>3. Bad = {}
      BY ONLY <1>1, <3>1, <3>2, NoneBadUpTo
    <3> QED BY <3>3 DEF Bad
  <2>9. aligned = [i \in 0 .. Digits |-> aligned[i]]
    BY <2>6
  <2> QED BY <2>7, <2>8, <2>9 DEF Alignment
<1>4. aligned[Digits] \in Nat
  <2> HIDE DEF aligned
  <2> QED BY <1>1, <1>3 DEF Alignment
<1> DEFINE first == [bit |-> aligned[Digits], remainder |-> value, result |-> 0]
<1>5. first \in RootStates
  <2> HIDE DEF aligned
  <2> QED BY <1>4 DEF RootStates
<1> HIDE DEF aligned
<1>6. Rooting(root, aligned[Digits], value)
  <2> DEFINE S == RootStates
             next == [p \in Steps(Digits, S) |-> RootDigit(p[2])]
  <2>1. next \in [Steps(Digits, S) -> S]
    BY DigitType DEF Steps
  <2>2. PICK f \in [0 .. Digits -> S] : Passed(f, first, next, Digits)
    <3> HIDE DEF next, first
    <3> QED BY <1>1, <1>5, <2>1, Iterated
  <2>3. \A i \in 1 .. Digits : f[i] = RootDigit(f[i - 1])
    <3> SUFFICES ASSUME NEW i \in 1 .. Digits PROVE f[i] = RootDigit(f[i - 1])
      OBVIOUS
    <3>1. i - 1 \in 0 .. Digits /\ f[i - 1] \in S
      BY <1>1
    <3>2. <<i, f[i - 1]>> \in Steps(Digits, S)
      BY <3>1 DEF Steps
    <3>3. f[i] = next[<<i, f[i - 1]>>]
      BY <2>2 DEF Passed
    <3> QED BY <3>2, <3>3
  <2>4. f[0] = first
    BY <2>2 DEF Passed
  <2>5. f = B(f)
    <3>1. ASSUME NEW i \in 0 .. Digits PROVE f[i] = B(f)[i]
      <4>1. CASE i = 0
        BY <2>4, <4>1
      <4>2. CASE i # 0
        <5>1. i \in 1 .. Digits
          BY <1>1, <4>2
        <5> QED BY <2>3, <4>2, <5>1
      <4> QED BY <4>1, <4>2
    <3>2. f = [i \in 0 .. Digits |-> f[i]] /\ B(f) = [i \in 0 .. Digits |-> B(f)[i]]
      OBVIOUS
    <3> HIDE DEF B
    <3> QED BY ONLY <3>1, <3>2
  <2>6. root = B(root)
    <3> HIDE DEF B
    <3> QED BY <2>5
  <2> HIDE DEF root
  <2>7. root[0] = first /\ \A i \in 1 .. Digits : root[i] = RootDigit(root[i - 1])
    <3>1. \A i \in 0 .. Digits : root[i] = B(root)[i]
      BY <2>6
    <3> QED BY <1>1, <3>1
  <2>8. \A i \in 0 .. Digits : root[i] = f[i]
    <3> DEFINE Bad == {i \in 0 .. Digits : root[i] # f[i]}
    <3>1. ASSUME NEW i \in Bad PROVE \E j \in Bad : j < i
      <4>1. i \in 1 .. Digits
        BY <1>1, <2>4, <2>7
      <4>2. root[i - 1] # f[i - 1]
        BY <2>3, <2>7, <4>1
      <4> QED BY <1>1, <4>1, <4>2
    <3>2. Bad \in SUBSET (0 .. Digits)
      OBVIOUS
    <3> HIDE DEF Bad
    <3>3. Bad = {}
      BY ONLY <1>1, <3>1, <3>2, NoneBadUpTo
    <3> QED BY <3>3 DEF Bad
  <2>9. root = [i \in 0 .. Digits |-> root[i]]
    BY <2>6
  <2> QED BY <2>7, <2>8, <2>9 DEF Rooting
<1> HIDE DEF root
<1> QED BY <1>2, <1>3, <1>6

\* The digits found so far make a; the next one weighs PowerOfTwo[j].
Rooted(s, j, v) ==
  LET h == PowerOfTwo[j]
  IN  \E a \in Nat : /\ s = [bit |-> h * h, remainder |-> v - a * a, result |-> 2 * a * h]
                     /\ a * a <= v /\ v < (a + 2 * h) * (a + 2 * h)
                     /\ a + 2 * h <= PowerOfTwo[Digits]

IsRoot(r, v) == r \in Nat /\ r * r <= v /\ v < (r + 1) * (r + 1)

Finished(s, v) == s.bit = 0 /\ IsRoot(s.result, v)

\* One turn settles one digit: it belongs to the root exactly when its square still fits.
LEMMA DigitSettles ==
  ASSUME NEW v \in Nat, NEW j \in 0 .. Digits, NEW s, Rooted(s, j, v), NEW h, h = PowerOfTwo[j]
  PROVE  \E b \in Nat :
           /\ RootDigit(s) = [bit |-> (h * h) \div 4, remainder |-> v - b * b, result |-> b * h]
           /\ b * b <= v /\ v < (b + h) * (b + h) /\ b + h <= PowerOfTwo[Digits]
<1> DEFINE R == PowerOfTwo[Digits]
<1>1. h \in Nat \ {0} /\ R \in Nat \ {0} /\ Register = R * R
  <2>1. Digits \in 0 .. Digits
    BY PrestigeAssumption
  <2>2. h \in Nat /\ h > 0 /\ R \in Nat /\ R > 0
    BY <2>1, PowersOfTwo
  <2>3. Register = R * R
    BY Squares
  <2> HIDE DEF R
  <2> QED BY <2>2, <2>3
<1>2. PICK a \in Nat : /\ s = [bit |-> h * h, remainder |-> v - a * a, result |-> 2 * a * h]
                       /\ a * a <= v /\ v < (a + 2 * h) * (a + 2 * h)
                       /\ a + 2 * h <= R
  BY DEF Rooted
<1> HIDE DEF R
<1> DEFINE A == a * a
           X == a * h
           Q == h * h
<1>3. A \in Nat /\ X \in Nat /\ Q \in Nat /\ Q > 0
  BY <1>1
<1>4. /\ 2 * a * h = 2 * X /\ (a + h) * (a + h) = A + 2 * X + Q
      /\ (a + 2 * h) * (a + 2 * h) = A + 4 * X + 4 * Q
      /\ (a + h + h) * (a + h + h) = A + 4 * X + 4 * Q
      /\ (a + h) * h = X + Q
  BY <1>1
<1>5. (a + 2 * h) * (a + 2 * h) <= R * R
  <2>1. \A x, y \in Nat : x <= y => x * x <= y * y
    OBVIOUS
  <2> QED BY <1>1, <1>2, <2>1
<1>6. R * R \in Nat
  BY <1>1
<1>7. 2 * X + Q < Register /\ X + Q < Register /\ Register \in Nat
  <2> HIDE DEF A, X, Q
  <2> QED BY <1>1, <1>3, <1>4, <1>5, <1>6
<1>8. s = [bit |-> Q, remainder |-> v - A, result |-> 2 * X]
  BY <1>2, <1>4
<1>9. RootDigit(s) = IF v - A >= 2 * X + Q
                     THEN [bit |-> Q \div 4, remainder |-> v - A - (2 * X + Q),
                           result |-> X + Q]
                     ELSE [bit |-> Q \div 4, remainder |-> v - A, result |-> X]
  <2> HIDE DEF A, X, Q
  <2>1. (2 * X + Q) % Register = 2 * X + Q
    BY <1>3, <1>7
  <2>2. (2 * X) \div 2 = X
    BY <1>3
  <2>3. (X + Q) % Register = X + Q
    BY <1>3, <1>7
  <2> QED BY <1>3, <1>8, <2>1, <2>2, <2>3 DEF RootDigit
<1>10. CASE v - A >= 2 * X + Q
  <2>1. RootDigit(s) = [bit |-> Q \div 4, remainder |-> v - (a + h) * (a + h),
                        result |-> (a + h) * h]
    <3>1. v - A - (2 * X + Q) = v - (a + h) * (a + h)
      <4> HIDE DEF A, X, Q
      <4> QED BY <1>3, <1>4
    <3> QED BY <1>4, <1>9, <1>10, <3>1
  <2>2. /\ (a + h) * (a + h) <= v /\ v < (a + h + h) * (a + h + h) /\ a + h + h <= R
        /\ a + h \in Nat
    <3>1. a + h + h = a + 2 * h /\ a + h \in Nat
      BY <1>1
    <3> HIDE DEF A, X, Q
    <3> QED BY <1>2, <1>3, <1>4, <1>10, <3>1
  <2> QED BY <2>1, <2>2 DEF Q, R
<1>11. CASE ~(v - A >= 2 * X + Q)
  <2>1. v < (a + h) * (a + h) /\ a + h <= R
    <3>1. a + h <= a + 2 * h
      BY <1>1
    <3> HIDE DEF A, X, Q
    <3>2. a + h <= R
      BY <1>1, <1>2, <3>1
    <3> QED BY <1>3, <1>4, <1>11, <3>2
  <2>2. RootDigit(s) = [bit |-> Q \div 4, remainder |-> v - A, result |-> X]
    BY <1>9, <1>11
  <2> QED BY <1>2, <2>1, <2>2 DEF A, X, Q, R
<1> QED BY <1>10, <1>11

\* A turn goes from one weight to the half of it.
LEMMA NextDigit ==
  ASSUME NEW v \in Nat, NEW j \in 1 .. Digits, NEW s, Rooted(s, j, v)
  PROVE  Rooted(RootDigit(s), j - 1, v)
<1> DEFINE h == PowerOfTwo[j]
           k == PowerOfTwo[j - 1]
<1>1. h = 2 * k /\ k \in Nat
  BY PowersOfTwo, PrestigeAssumption
<1>2. PICK b \in Nat :
        /\ RootDigit(s) = [bit |-> (h * h) \div 4, remainder |-> v - b * b, result |-> b * h]
        /\ b * b <= v /\ v < (b + h) * (b + h) /\ b + h <= PowerOfTwo[Digits]
  BY DigitSettles, PrestigeAssumption
<1> HIDE DEF h, k
<1>3. h * h = 4 * (k * k) /\ k * k \in Nat /\ b * h = 2 * b * k
  BY <1>1
<1>4. (h * h) \div 4 = k * k
  <2> DEFINE q == k * k
  <2>1. h * h = 4 * q /\ q \in Nat
    BY <1>3
  <2> HIDE DEF q
  <2>2. (h * h) \div 4 = q
    BY <2>1
  <2> QED BY <2>2 DEF q
<1>5. (b + h) * (b + h) = (b + 2 * k) * (b + 2 * k) /\ b + h = b + 2 * k
  BY <1>1
<1>6. \E a \in Nat : /\ RootDigit(s) = [bit |-> k * k, remainder |-> v - a * a,
                                        result |-> 2 * a * k]
                     /\ a * a <= v /\ v < (a + 2 * k) * (a + 2 * k)
                     /\ a + 2 * k <= PowerOfTwo[Digits]
  BY <1>2, <1>3, <1>4, <1>5
<1> QED BY <1>6 DEF k, Rooted

\* The last digit leaves the floor of the root.
LEMMA LastDigit ==
  ASSUME NEW v \in Nat, NEW s, Rooted(s, 0, v)
  PROVE  Finished(RootDigit(s), v)
<1>1. 0 \in 0 .. Digits /\ PowerOfTwo[0] = 1
  BY PowersOfTwo, PrestigeAssumption
<1>2. PICK b \in Nat :
        /\ RootDigit(s) = [bit |-> (1 * 1) \div 4, remainder |-> v - b * b, result |-> b * 1]
        /\ b * b <= v /\ v < (b + 1) * (b + 1) /\ b + 1 <= PowerOfTwo[Digits]
  BY <1>1, DigitSettles
<1>3. (1 * 1) \div 4 = 0 /\ b * 1 = b
  OBVIOUS
<1> QED BY <1>2, <1>3 DEF Finished, IsRoot

\* Turns after the last change nothing.
LEMMA NoDigitLeft ==
  ASSUME NEW v, NEW s, Finished(s, v)
  PROVE  Finished(RootDigit(s), v)
BY DEF Finished, RootDigit

\* The bit stops at a power of four whose next the value does not reach.
LEMMA BitAligned ==
  ASSUME NEW v \in Nat, v >= 2, v < Register, NEW f, Alignment(f, v)
  PROVE  \E k \in 0 .. Digits - 1 :
           f[Digits] = PowerOfTwo[k] * PowerOfTwo[k] /\ v < 4 * f[Digits]
<1> DEFINE P(i) == \E k \in 0 .. Digits - 1 :
                      f[i] = PowerOfTwo[k] * PowerOfTwo[k] /\ v < 4 * f[i]
           Bad == {i \in 0 .. Digits : ~P(i)}
<1>1. P(0)
  <2>1. /\ f[0] = PowerOfTwo[Digits - 1] * PowerOfTwo[Digits - 1]
        /\ Digits - 1 \in 0 .. Digits - 1 /\ Register = 4 * f[0]
    BY Squares, PrestigeAssumption DEF Alignment
  <2> QED BY <2>1
<1>2. ASSUME NEW i \in 1 .. Digits, P(i - 1) PROVE P(i)
  <2>1. PICK k \in 0 .. Digits - 1 :
          f[i - 1] = PowerOfTwo[k] * PowerOfTwo[k] /\ v < 4 * f[i - 1]
    BY <1>2
  <2>2. f[i] = IF f[i - 1] > v THEN f[i - 1] \div 4 ELSE f[i - 1]
    BY DEF Alignment
  <2>3. CASE f[i - 1] > v
    <3>1. k # 0
      <4>1. CASE k = 0
        <5>1. f[i - 1] = 1 * 1
          BY <2>1, <4>1, PowersOfTwo
        <5> QED BY <2>3, <5>1
      <4> QED BY <4>1
    <3> DEFINE h == PowerOfTwo[k - 1]
    <3>2. k \in 1 .. Digits /\ k - 1 \in 0 .. Digits
      BY <3>1, PrestigeAssumption
    <3>3. h \in Nat /\ PowerOfTwo[k] = 2 * h
      BY <3>2, PowersOfTwo
    <3>4. k - 1 \in 0 .. Digits - 1
      BY <3>1, PrestigeAssumption
    <3> HIDE DEF h
    <3> DEFINE q == h * h
    <3>5. q \in Nat /\ f[i - 1] = 4 * q
      BY <2>1, <3>3
    <3> HIDE DEF q
    <3>6. f[i] = q /\ v < 4 * q
      BY <2>2, <2>3, <3>5
    <3> QED BY <3>4, <3>6 DEF q, h
  <2>4. CASE ~(f[i - 1] > v)
    BY <2>1, <2>2, <2>4
  <2> QED BY <2>3, <2>4
<1>3. ASSUME NEW i \in Bad PROVE \E m \in Bad : m < i
  <2> HIDE DEF P
  <2>1. i \in 1 .. Digits
    BY <1>1, PrestigeAssumption
  <2>2. i - 1 \in Bad
    BY <1>2, <2>1, PrestigeAssumption
  <2> QED BY <2>1, <2>2
<1>4. Bad \in SUBSET (0 .. Digits) /\ Digits \in Nat /\ Digits \in 0 .. Digits
  BY PrestigeAssumption
<1>5. Bad = {}
  <2> HIDE DEF Bad
  <2> QED BY ONLY <1>3, <1>4, NoneBadUpTo
<1> QED BY <1>4, <1>5

\* The register has as many digits as there are turns: from any bit of it the root is finished.
LEMMA DigitsSuffice ==
  ASSUME NEW v \in Nat, NEW k \in 0 .. Digits - 1, NEW bit,
         bit = PowerOfTwo[k] * PowerOfTwo[k], v < 4 * bit, NEW g, Rooting(g, bit, v)
  PROVE  IsRoot(g[Digits].result, v)
<1> DEFINE F(i) == Finished(g[i], v)
           P(i, j) == Rooted(g[i], j, v)
           Due(i) == F(i) \/ \E j \in 0 .. Digits - 1 - i : P(i, j)
           Bad == {i \in 0 .. Digits : ~Due(i)}
<1>1. P(0, k)
  <2> DEFINE h == PowerOfTwo[k]
  <2>1. h \in Nat /\ 2 * h <= PowerOfTwo[Digits]
    BY PowersOfTwo, PrestigeAssumption
  <2>2. g[0] = [bit |-> h * h, remainder |-> v, result |-> 0] /\ v < 4 * (h * h)
    BY DEF Rooting
  <2> HIDE DEF h
  <2>3. /\ v - 0 * 0 = v /\ 2 * 0 * h = 0 /\ 0 * 0 <= v
        /\ (0 + 2 * h) * (0 + 2 * h) = 4 * (h * h) /\ 0 + 2 * h <= PowerOfTwo[Digits]
    BY <2>1
  <2>4. \E a \in Nat : /\ g[0] = [bit |-> h * h, remainder |-> v - a * a, result |-> 2 * a * h]
                       /\ a * a <= v /\ v < (a + 2 * h) * (a + 2 * h)
                       /\ a + 2 * h <= PowerOfTwo[Digits]
    <3> WITNESS 0 \in Nat
    <3> QED BY <2>2, <2>3
  <2> QED BY <2>4 DEF h, Rooted
<1>2. Due(0)
  <2>1. k \in 0 .. Digits - 1 - 0
    BY PrestigeAssumption
  <2> HIDE DEF P, F
  <2> QED BY <1>1, <2>1
<1>3. ASSUME NEW i \in 1 .. Digits, Due(i - 1) PROVE Due(i)
  <2>1. g[i] = RootDigit(g[i - 1])
    BY DEF Rooting
  <2>2. CASE F(i - 1)
    BY <2>1, <2>2, NoDigitLeft
  <2>3. ASSUME NEW j \in 0 .. Digits - 1 - (i - 1), P(i - 1, j) PROVE Due(i)
    <3>1. CASE j = 0
      <4>1. F(i)
        BY <2>1, <2>3, <3>1, LastDigit
      <4> QED BY <4>1
    <3>2. CASE j # 0
      <4>1. j \in 1 .. Digits /\ j - 1 \in 0 .. Digits - 1 - i
        BY <3>2, PrestigeAssumption
      <4>2. P(i, j - 1)
        BY <2>1, <2>3, <4>1, NextDigit
      <4> HIDE DEF P, F
      <4> QED BY <4>1, <4>2
    <3> QED BY <3>1, <3>2
  <2> HIDE DEF P
  <2> QED BY <1>3, <2>2, <2>3
<1>4. ASSUME NEW i \in Bad PROVE \E m \in Bad : m < i
  <2> HIDE DEF Due
  <2>1. i \in 1 .. Digits
    BY <1>2, PrestigeAssumption
  <2>2. i - 1 \in Bad
    BY <1>3, <2>1, PrestigeAssumption
  <2> QED BY <2>1, <2>2
<1>5. Bad \in SUBSET (0 .. Digits) /\ Digits \in Nat /\ Digits \in 0 .. Digits
  BY PrestigeAssumption
<1>6. Bad = {}
  <2> HIDE DEF Bad
  <2> QED BY ONLY <1>4, <1>5, NoneBadUpTo
<1>7. Due(Digits)
  <2> HIDE DEF Due
  <2> QED BY <1>5, <1>6
<1>8. F(Digits)
  <2> HIDE DEF P, F
  <2> QED BY <1>7, PrestigeAssumption
<1> QED BY <1>8 DEF Finished

\* No payout step is missed or given early: integer_sqrt returns the exact floor of the root of
\* every value of a register of any width, the 64 bits of the code among them, the first and the
\* last bit included (prestige.cpp:28-45).
THEOREM RootIsExact ==
  \A v \in 0 .. Register - 1 :
    LET root == IntegerSqrt(v) IN root * root <= v /\ v < (root + 1) * (root + 1)
<1> SUFFICES ASSUME NEW v \in 0 .. Register - 1 PROVE IsRoot(IntegerSqrt(v), v)
  BY DEF IsRoot
<1>1. v \in Nat /\ v < Register
  BY Squares
<1>2. CASE v < 2
  <2>1. IntegerSqrt(v) = v
    BY <1>2 DEF IntegerSqrt
  <2>2. v = 0 \/ v = 1
    BY <1>1, <1>2
  <2> QED BY <1>1, <2>1, <2>2 DEF IsRoot
<1>3. CASE v >= 2
  <2>1. PICK f, g : /\ Alignment(f, v) /\ Rooting(g, f[Digits], v)
                    /\ IntegerSqrt(v) = g[Digits].result
    BY <1>1, <1>3, RootLoops
  <2>2. PICK k \in 0 .. Digits - 1 :
          f[Digits] = PowerOfTwo[k] * PowerOfTwo[k] /\ v < 4 * f[Digits]
    BY <1>1, <1>3, <2>1, BitAligned
  <2>3. IsRoot(g[Digits].result, v)
    BY <1>1, <2>1, <2>2, DigitsSuffice
  <2> QED BY <2>1, <2>3
<1> QED BY <1>1, <1>2, <1>3

\* Beyond the register too the root is a number.
LEMMA RootType ==
  ASSUME NEW v \in Nat
  PROVE  IntegerSqrt(v) \in Nat
<1>1. CASE v < 2
  BY <1>1 DEF IntegerSqrt
<1>2. CASE v >= 2
  <2>1. PICK f, g : /\ Alignment(f, v) /\ Rooting(g, f[Digits], v)
                    /\ IntegerSqrt(v) = g[Digits].result
    BY <1>2, RootLoops
  <2>2. g[Digits] \in RootStates
    BY <2>1, PrestigeAssumption DEF Rooting
  <2> QED BY <2>1, <2>2 DEF RootStates
<1> QED BY <1>1, <1>2

\* A flight earns something.
LEMMA PayoutType ==
  ASSUME NEW births \in Nat, NEW winged \in Nat
  PROVE  FlightPayout(births, winged) \in Nat /\ FlightPayout(births, winged) >= 2
<1>1. births \div kBirthStep \in Nat
  BY DEF kBirthStep
<1>2. IntegerSqrt(births \div kBirthStep) \in Nat
  BY <1>1, RootType
<1>3. QueenBonus(winged) \in Nat
  BY DEF QueenBonus, kMaxCountedQueens, kQueenStep
<1> QED BY <1>2, <1>3 DEF FlightPayout

-----------------------------------------------------------------------------
(* The inductive invariant *)

Ids == Nat \X Nat
Receipts == [id : Ids, payout : Nat]
Runs == [id : Ids, session : Sessions]
Flown == [colony : Nat, payout : Nat, births : Nat, winged : Nat, helped : BOOLEAN]
Histories == [founded : Nat, ids : SUBSET Ids, flown : SUBSET Flown]
Phases == {"ActiveRun", "BetweenRuns"}

Profiles == [revision : 0 .. MaxRevision, phase : Phases, meta : Metas, receipt : Receipts,
             run : Runs \cup {NoRun}, history : Histories]

Identities == [runId : Ids, meta : Metas, revision : 0 .. MaxRevision, receipt : Receipts,
               history : Histories]

\* The balances are those of the history.
Balanced(m, h) ==
  /\ m.wallet = m.earned - m.spent
  /\ m.spent = Total([b \in TraitBranch |-> SpentOnTier(m.tier[b])])
  /\ m.earned = Total([f \in h.flown |-> f.payout])
  /\ m.flights = Cardinality(h.flown)

\* A generation founds one colony, and each colony flies once, without help.
Lineage(m, h) ==
  /\ IsFiniteSet(h.flown) /\ IsFiniteSet(h.ids)
  /\ Cardinality(h.ids) = h.founded /\ h.founded = m.generation
  /\ m.flights <= m.generation
  /\ \A id \in h.ids : id[2] <= m.generation
  /\ \A x \in h.flown : x.colony \in 1 .. h.founded /\ ~x.helped
  /\ \A x, y \in h.flown : x.colony = y.colony => x = y

\* The running colony is the lineage's, has not flown, and has the owned tiers.
Running(r, m, h, receipt) ==
  /\ r.id[2] \in 1 .. m.generation
  /\ receipt = NoReceipt \/ receipt.id # r.id
  /\ r.session.colony \in 1 .. h.founded
  /\ \A x \in h.flown : x.colony # r.session.colony
  /\ r.session.traits = TraitModifiers(m)
  /\ r.session.helped => r.session.assisted
  /\ m.flights < m.generation

GoodProfile(p) ==
  /\ p \in Profiles
  /\ Balanced(p.meta, p.history) /\ Lineage(p.meta, p.history)
  /\ p.receipt.id[2] <= p.meta.generation
  /\ (p.run = NoRun) <=> (p.phase = "BetweenRuns")
  /\ p.run # NoRun => Running(p.run, p.meta, p.history, p.receipt)

\* What a file holds.
Stored(f) == Readable(f) => GoodProfile(f) /\ f.revision >= 1

\* What the process would write now.
Mine == Offered(betweenRuns)

Flags == /\ alive \in BOOLEAN /\ saving \in BOOLEAN /\ prompt \in BOOLEAN
         /\ betweenRuns \in BOOLEAN /\ drifted \in BOOLEAN /\ seed \in Nat

Memory == session \in Sessions /\ identity \in Identities

FilesGood == Stored(current) /\ Stored(backup) /\ (offered # Absent => GoodProfile(offered))

MineGood == alive => GoodProfile(Mine) /\ (prompt => identity.receipt = NoReceipt)

Promised == /\ told \subseteq 1 .. MaxGeneration
            /\ (alive /\ prompt) => told = {}
            /\ (alive /\ saving /\ ~prompt) =>
                 told \subseteq {x.colony : x \in identity.history.flown}

AppInv == /\ Flags /\ Memory /\ FilesGood /\ MineGood /\ Promised /\ PromiseKept
          /\ ViewMatchesStore

-----------------------------------------------------------------------------
(* Sums of the ledger *)

\* The model's totals are the sums of Totals.
LEMMA AppTotalIsSum == \A f : Total(f) = SumOf(f, DOMAIN f)
BY DEF Total, SumOf

\* Types of the constants.
LEMMA Limits ==
  /\ MaxLegacy \in Nat /\ MaxGeneration \in Nat \ {0} /\ MaxRevision \in Nat \ {0}
  /\ Seeds \subseteq Nat /\ DebugTools \in BOOLEAN
  /\ Colonies \subseteq [births : Nat, winged : Nat, mature : BOOLEAN, queen : BOOLEAN]
BY PrestigeAssumption, AppAssumption

\* What the owned tiers of a branch cost grows by the price of the next one.
LEMMA TierPrices ==
  /\ \A t \in 0 .. kMaxTraitTier : SpentOnTier(t) \in Nat
  /\ SpentOnTier(0) = 0
  /\ \A t \in 0 .. kMaxTraitTier - 1 :
       SpentOnTier(t + 1) = SpentOnTier(t) + TraitCost(t) /\ TraitCost(t) \in Nat
<1> DEFINE f(t) == [k \in 1 .. t |-> kTraitCosts[k]]
<1>1. \A k \in 1 .. 4 : kTraitCosts[k] \in Nat
  BY DEF kTraitCosts
<1>2. \A t \in 0 .. 4 : SpentOnTier(t) = SumOf(f(t), 1 .. t)
  BY AppTotalIsSum DEF SpentOnTier
<1>3. \A t \in 0 .. 4 : IsFiniteSet(1 .. t) /\ \A k \in 1 .. t : f(t)[k] \in Nat
  <2>1. \A t \in 0 .. 4 : IsFiniteSet(1 .. t)
    BY FS_Interval
  <2>2. ASSUME NEW t \in 0 .. 4, NEW k \in 1 .. t PROVE f(t)[k] \in Nat
    <3>1. k \in 1 .. 4
      OBVIOUS
    <3> QED BY <1>1, <3>1
  <2> HIDE DEF f
  <2> QED BY <2>1, <2>2
<1>4. \A t \in 0 .. 4 : SpentOnTier(t) \in Nat
  <2> HIDE DEF f
  <2> QED BY <1>2, <1>3, SumNat
<1>5. SpentOnTier(0) = 0
  <2>1. 1 .. 0 = {}
    OBVIOUS
  <2> QED BY <1>2, <2>1, SumEmpty
<1>6. ASSUME NEW t \in 0 .. 3
      PROVE  SpentOnTier(t + 1) = SpentOnTier(t) + TraitCost(t) /\ TraitCost(t) \in Nat
  <2>1. /\ t + 1 \in 1 .. 4 /\ t \in 0 .. 4 /\ t + 1 \in 0 .. 4 /\ t + 1 \notin 1 .. t
        /\ 1 .. (t + 1) = (1 .. t) \cup {t + 1}
    OBVIOUS
  <2>2. f(t + 1)[t + 1] = TraitCost(t) /\ TraitCost(t) \in Nat
    BY <1>1, <2>1 DEF TraitCost
  <2>3. \A k \in 1 .. t : f(t)[k] \in Int /\ f(t)[k] = f(t + 1)[k]
    BY <1>3, <2>1
  <2> HIDE DEF f
  <2>4. SumOf(f(t), 1 .. t) = SumOf(f(t + 1), 1 .. t)
    BY <1>3, <2>1, <2>3, SumAgree
  <2>5. SumOf(f(t + 1), (1 .. t) \cup {t + 1}) = SumOf(f(t + 1), 1 .. t) + f(t + 1)[t + 1]
    <3>1. IsFiniteSet(1 .. t) /\ f(t + 1)[t + 1] \in Int /\ \A k \in 1 .. t : f(t + 1)[k] \in Int
      <4>1. IsFiniteSet(1 .. t)
        BY <1>3, <2>1
      <4>2. \A k \in 1 .. t : f(t + 1)[k] \in Int
        BY <2>3
      <4> QED BY <2>2, <4>1, <4>2
    <3> QED BY <2>1, <3>1, SumAdd
  <2> QED BY <1>2, <2>1, <2>2, <2>4, <2>5
<1> QED BY <1>4, <1>5, <1>6 DEF kMaxTraitTier

Prices(tier) == [b \in TraitBranch |-> SpentOnTier(tier[b])]

\* A tier bought in one branch costs its price.
LEMMA TierBought ==
  ASSUME NEW tier \in [TraitBranch -> 0 .. kMaxTraitTier], NEW b \in TraitBranch,
         tier[b] < kMaxTraitTier
  PROVE  /\ TraitCost(tier[b]) \in Nat
         /\ [tier EXCEPT ![b] = @ + 1] \in [TraitBranch -> 0 .. kMaxTraitTier]
         /\ Total(Prices([tier EXCEPT ![b] = @ + 1])) = Total(Prices(tier)) + TraitCost(tier[b])
<1> DEFINE next == [tier EXCEPT ![b] = @ + 1]
           old == Prices(tier)
           new == Prices(next)
<1>1. /\ next \in [TraitBranch -> 0 .. kMaxTraitTier] /\ next[b] = tier[b] + 1
      /\ \A c \in TraitBranch : c # b => next[c] = tier[c]
      /\ tier[b] \in 0 .. kMaxTraitTier - 1
  BY DEF kMaxTraitTier
<1> HIDE DEF next
<1>2. IsFiniteSet(TraitBranch)
  <2>1. TraitBranch = {"vigor"} \cup {"industry"}
    BY DEF TraitBranch
  <2> QED BY <2>1, FS_Singleton, FS_Union
<1>3. old \in [TraitBranch -> Int] /\ new \in [TraitBranch -> Int]
  BY <1>1, TierPrices DEF Prices
<1>4. SameBut(old, new, TraitBranch, b)
  BY <1>1 DEF SameBut, Prices
<1>5. new[b] = old[b] + TraitCost(tier[b]) /\ TraitCost(tier[b]) \in Nat
  BY <1>1, TierPrices DEF Prices
<1>6. Total(old) = SumOf(old, TraitBranch) /\ Total(new) = SumOf(new, TraitBranch)
  BY AppTotalIsSum DEF Prices
<1>7. SumOf(old, TraitBranch) \in Int /\ old[b] \in Int
  BY <1>2, <1>3, SumType
<1> HIDE DEF old, new
<1>8. SumOf(new, TraitBranch) = SumOf(old, TraitBranch) - old[b] + new[b]
  BY <1>2, <1>3, <1>4, SumChange
<1>9. Total(new) = Total(old) + TraitCost(tier[b])
  BY <1>5, <1>6, <1>7, <1>8
<1> QED BY <1>1, <1>5, <1>9 DEF next, old, new

\* Nothing is spent on no tiers.
LEMMA NothingSpent == Total([b \in TraitBranch |-> SpentOnTier(FreshMeta.tier[b])]) = 0
<1> DEFINE f == [b \in TraitBranch |-> SpentOnTier(FreshMeta.tier[b])]
<1>1. \A b \in TraitBranch : f[b] = 0
  BY TierPrices DEF FreshMeta
<1>2. TraitBranch = ({} \cup {"vigor"}) \cup {"industry"} /\ "vigor" # "industry"
  BY DEF TraitBranch
<1>3. Total(f) = SumOf(f, TraitBranch)
  BY AppTotalIsSum
<1>4. f["vigor"] = 0 /\ f["industry"] = 0
  BY <1>1 DEF TraitBranch
<1> HIDE DEF f
<1>5. SumOf(f, {}) = 0
  BY SumEmpty
<1>6. SumOf(f, {} \cup {"vigor"}) = 0 + 0
  <2>1. IsFiniteSet({}) /\ "vigor" \notin {} /\ \A y \in {} : f[y] \in Int
    BY FS_EmptySet
  <2>2. SumOf(f, {} \cup {"vigor"}) = SumOf(f, {}) + f["vigor"]
    BY <1>4, <2>1, SumAdd
  <2> QED BY <1>4, <1>5, <2>2
<1>7. SumOf(f, ({} \cup {"vigor"}) \cup {"industry"}) = 0 + 0
  <2>1. IsFiniteSet({} \cup {"vigor"})
    <3>1. {} \cup {"vigor"} = {"vigor"}
      OBVIOUS
    <3> QED BY <3>1, FS_Singleton
  <2>2. "industry" \notin {} \cup {"vigor"} /\ \A y \in {} \cup {"vigor"} : f[y] \in Int
    BY <1>2, <1>4
  <2> QED BY <1>4, <1>6, <2>1, <2>2, SumAdd
<1> QED BY <1>2, <1>3, <1>7 DEF f

Payouts(flown) == [x \in flown |-> x.payout]

\* A flight adds its payout to what was earned and one to the flights.
LEMMA FlightAdded ==
  ASSUME NEW flown \in SUBSET Flown, IsFiniteSet(flown), NEW x \in Flown, x \notin flown
  PROVE  /\ IsFiniteSet(flown \cup {x})
         /\ Cardinality(flown \cup {x}) = Cardinality(flown) + 1
         /\ Total(Payouts(flown \cup {x})) = Total(Payouts(flown)) + x.payout
<1> DEFINE old == Payouts(flown)
           new == Payouts(flown \cup {x})
<1>1. /\ \A y \in flown : old[y] \in Int /\ old[y] = new[y]
      /\ new[x] = x.payout /\ x.payout \in Int
  BY DEF Payouts, Flown
<1>2. Total(old) = SumOf(old, flown) /\ Total(new) = SumOf(new, flown \cup {x})
  BY AppTotalIsSum DEF Payouts
<1>3. \A y \in flown : new[y] \in Int
  BY <1>1
<1> HIDE DEF old, new
<1>4. SumOf(old, flown) = SumOf(new, flown)
  BY <1>1, SumAgree
<1>5. SumOf(new, flown \cup {x}) = SumOf(new, flown) + new[x]
  BY <1>1, <1>3, SumAdd
<1>6. Total(new) = Total(old) + x.payout
  BY <1>1, <1>2, <1>4, <1>5
<1>7. IsFiniteSet(flown \cup {x}) /\ Cardinality(flown \cup {x}) = Cardinality(flown) + 1
  BY FS_AddElement
<1> QED BY <1>6, <1>7 DEF old, new

\* A lineage begins with one colony and an empty ledger.
LEMMA NewLineage ==
  ASSUME NEW id \in Ids, id[2] = 1
  PROVE  /\ FreshMeta \in Metas /\ FreshHistory(id) \in Histories
         /\ Balanced(FreshMeta, FreshHistory(id)) /\ Lineage(FreshMeta, FreshHistory(id))
<1>1. FreshMeta \in Metas
  BY Limits DEF FreshMeta, Metas, kMaxTraitTier
<1>2. FreshHistory(id) \in Histories
  BY DEF FreshHistory, Histories
<1>3. Total([f \in {} |-> f.payout]) = 0
  BY AppTotalIsSum, SumEmpty
<1>4. Cardinality({}) = 0 /\ IsFiniteSet({})
  BY FS_EmptySet
<1>5. Cardinality({id}) = 1 /\ IsFiniteSet({id})
  BY FS_Singleton
<1>6. Balanced(FreshMeta, FreshHistory(id))
  <2>1. Total([f \in FreshHistory(id).flown |-> f.payout]) = 0
    BY <1>3 DEF FreshHistory
  <2>2. /\ FreshMeta.wallet = 0 /\ FreshMeta.earned = 0 /\ FreshMeta.spent = 0
        /\ FreshMeta.flights = 0 /\ FreshHistory(id).flown = {}
    BY DEF FreshMeta, FreshHistory
  <2> QED BY <1>4, <2>1, <2>2, NothingSpent DEF Balanced
<1>7. Lineage(FreshMeta, FreshHistory(id))
  BY <1>4, <1>5 DEF Lineage, FreshMeta, FreshHistory
<1> QED BY <1>1, <1>2, <1>6, <1>7

-----------------------------------------------------------------------------
(* The candidates of the durable actions are good profiles *)

\* A revision says nothing of the ledger.
LEMMA RevisedIsGood ==
  ASSUME NEW p, GoodProfile(p), NEW r \in 0 .. MaxRevision
  PROVE  /\ GoodProfile([p EXCEPT !.revision = r])
         /\ [p EXCEPT !.revision = r].revision = r
<1>1. p \in Profiles
  BY DEF GoodProfile
<1>2. LET q == [p EXCEPT !.revision = r]
      IN /\ q \in Profiles /\ q.revision = r /\ q.phase = p.phase /\ q.meta = p.meta
         /\ q.receipt = p.receipt /\ q.run = p.run /\ q.history = p.history
  BY <1>1 DEF Profiles
<1> QED BY <1>2 DEF GoodProfile

\* A run that is there is one of Runs, and has its own id.
LEMMA RunIsThere ==
  ASSUME NEW p, GoodProfile(p), p.run # NoRun
  PROVE  /\ p.run \in Runs /\ p.run.session \in Sessions /\ p.phase = "ActiveRun"
         /\ Running(p.run, p.meta, p.history, p.receipt)
BY DEF GoodProfile, Profiles, Runs, Phases

\* A run of a generation is a run.
LEMMA RunIsNotNone ==
  ASSUME NEW r \in Runs, r.id[2] >= 1
  PROVE  r # NoRun
<1>1. NoRun.id[2] = 0
  BY DEF NoRun
<1> QED BY <1>1

\* The flight: the payout enters the wallet once, and the colony is gone.
LEMMA FlyIsGood ==
  ASSUME NEW p, GoodProfile(p), NEW s, NEW run, NEW revision,
         CanFly(p, s, run, revision), p.run.session = s
  PROVE  /\ GoodProfile(Fly(p, s)) /\ Fly(p, s).run = NoRun
         /\ Fly(p, s).history.flown \subseteq Flown
         /\ {x.colony : x \in Fly(p, s).history.flown}
              = {x.colony : x \in p.history.flown} \cup {s.colony}
<1> DEFINE pay == FlightPayout(s.births, s.winged)
           q == Fly(p, s)
           x == [colony |-> s.colony, payout |-> pay, births |-> s.births,
                 winged |-> s.winged, helped |-> s.helped]
<1>1. p \in Profiles /\ p.run # NoRun /\ p.meta \in Metas /\ p.history \in Histories
  BY DEF GoodProfile, CanFly, Profiles
<1>2. /\ p.run \in Runs /\ s \in Sessions
      /\ Running(p.run, p.meta, p.history, p.receipt)
  BY <1>1, RunIsThere
<1>3. pay \in Nat
  BY <1>2, PayoutType DEF Sessions
<1>4. ~s.helped /\ s.colony \in 1 .. p.history.founded /\ s.helped \in BOOLEAN
  BY <1>2 DEF Running, CanFly, FlightEligible, Sessions
<1>5. x \in Flown
  <2>1. s.colony \in Nat /\ s.births \in Nat /\ s.winged \in Nat /\ s.helped \in BOOLEAN
    BY <1>2, Limits DEF Sessions
  <2> HIDE DEF pay
  <2> QED BY <1>3, <2>1 DEF Flown
<1>6. pay + p.meta.earned <= MaxLegacy /\ pay + p.meta.wallet <= MaxLegacy
  BY DEF CanFly
<1>7. x \notin p.history.flown
  BY <1>2 DEF Running
<1> DEFINE m == [p.meta EXCEPT !.wallet = @ + pay, !.earned = @ + pay, !.flights = @ + 1]
           h == [p.history EXCEPT !.flown = @ \cup {x}]
           receipt == [id |-> p.run.id, payout |-> pay]
<1>8. /\ m.wallet = p.meta.wallet + pay /\ m.earned = p.meta.earned + pay
      /\ m.flights = p.meta.flights + 1 /\ m.spent = p.meta.spent /\ m.tier = p.meta.tier
      /\ m.generation = p.meta.generation
  BY <1>1 DEF Metas
<1>9. /\ h.founded = p.history.founded /\ h.ids = p.history.ids
      /\ h.flown = p.history.flown \cup {x}
  BY <1>1 DEF Histories
<1>10. q = [p EXCEPT !.meta = m, !.receipt = receipt, !.phase = "BetweenRuns", !.run = NoRun,
                     !.history = h]
  BY ZenonT(40), <1>1 DEF Fly, Profiles, Metas, Histories
<1>11. /\ q.revision = p.revision /\ q.phase = "BetweenRuns" /\ q.meta = m
       /\ q.receipt = receipt /\ q.run = NoRun /\ q.history = h
  <2> HIDE DEF m, h, receipt, q
  <2> QED BY <1>1, <1>10 DEF Profiles
<1>12. /\ Balanced(p.meta, p.history) /\ Lineage(p.meta, p.history)
       /\ p.history.flown \in SUBSET Flown
  BY <1>1 DEF GoodProfile, Histories
<1>13. /\ IsFiniteSet(h.flown) /\ Cardinality(h.flown) = Cardinality(p.history.flown) + 1
       /\ Total(Payouts(h.flown)) = Total(Payouts(p.history.flown)) + pay
  <2>1. x.payout = pay /\ IsFiniteSet(p.history.flown)
    BY <1>12 DEF Lineage
  <2> HIDE DEF x, pay, h
  <2> QED BY <1>5, <1>7, <1>9, <1>12, <2>1, FlightAdded
<1>14. m \in Metas
  <2>1. /\ p.meta.wallet \in 0 .. MaxLegacy /\ p.meta.earned \in 0 .. MaxLegacy
        /\ p.meta.flights \in 0 .. MaxGeneration /\ p.meta.flights < p.meta.generation
        /\ p.meta.generation \in 1 .. MaxGeneration
    BY <1>1, <1>2 DEF Metas, Running
  <2>2. /\ p.meta.wallet + pay \in 0 .. MaxLegacy /\ p.meta.earned + pay \in 0 .. MaxLegacy
        /\ p.meta.flights + 1 \in 0 .. MaxGeneration
    <3> HIDE DEF pay
    <3> QED BY <1>3, <1>6, <2>1, Limits
  <2> HIDE DEF pay
  <2> QED BY <1>1, <2>2 DEF Metas
<1>15. h \in Histories
  <2> HIDE DEF x, pay
  <2> QED BY <1>1, <1>5 DEF Histories
<1>16. receipt \in Receipts /\ receipt.id = p.run.id
  <2> HIDE DEF pay
  <2> QED BY <1>2, <1>3 DEF Receipts, Runs
<1>17. Balanced(m, h)
  <2>1. /\ p.meta.wallet \in Int /\ p.meta.earned \in Int /\ p.meta.spent \in Int
        /\ p.meta.flights \in Int
    BY <1>1, Limits DEF Metas
  <2>2. p.meta.earned = Total(Payouts(p.history.flown))
    BY <1>12 DEF Balanced, Payouts
  <2>3. m.earned = Total([f \in h.flown |-> f.payout])
    <3>1. Total([f \in h.flown |-> f.payout]) = Total(Payouts(h.flown))
      BY DEF Payouts
    <3> HIDE DEF m, h, pay
    <3> QED BY <1>8, <1>13, <2>2, <3>1
  <2>4. m.spent = Total([b \in TraitBranch |-> SpentOnTier(m.tier[b])])
    <3> HIDE DEF m
    <3> QED BY <1>8, <1>12 DEF Balanced
  <2>5. m.wallet = m.earned - m.spent /\ m.flights = Cardinality(h.flown)
    <3> HIDE DEF m, h, pay
    <3> QED BY <1>3, <1>8, <1>12, <1>13, <2>1 DEF Balanced
  <2> HIDE DEF m, h
  <2> QED BY <2>3, <2>4, <2>5 DEF Balanced
<1>18. Lineage(m, h)
  <2>1. m.flights <= m.generation
    <3>1. p.meta.flights \in Int /\ p.meta.generation \in Int
      BY <1>1, Limits DEF Metas
    <3> HIDE DEF m
    <3> QED BY <1>2, <1>8, <3>1 DEF Running
  <2>2. \A y \in h.flown : y.colony \in 1 .. h.founded /\ ~y.helped
    <3>1. x.colony = s.colony /\ x.helped = s.helped
      OBVIOUS
    <3> HIDE DEF h, x
    <3> QED BY <1>4, <1>9, <1>12, <3>1 DEF Lineage
  <2>3. \A y, z \in h.flown : y.colony = z.colony => y = z
    <3>1. x.colony = s.colony /\ \A y \in p.history.flown : y.colony # s.colony
      BY <1>2 DEF Running
    <3> HIDE DEF h, x
    <3> QED BY <1>9, <1>12, <3>1 DEF Lineage
  <2> HIDE DEF m, h
  <2> QED BY <1>8, <1>9, <1>12, <1>13, <2>1, <2>2, <2>3 DEF Lineage
<1>19. q \in Profiles
  <2> HIDE DEF m, h, receipt, q
  <2> QED BY <1>1, <1>10, <1>14, <1>15, <1>16 DEF Profiles, Phases
<1>20. receipt.id[2] <= m.generation
  <2>1. p.run.id[2] <= p.meta.generation
    BY <1>2 DEF Running
  <2> HIDE DEF m, receipt
  <2> QED BY <1>8, <1>16, <2>1
<1>21. GoodProfile(q)
  <2> HIDE DEF m, h, receipt, q
  <2> QED BY <1>11, <1>17, <1>18, <1>19, <1>20 DEF GoodProfile
<1>22. {y.colony : y \in h.flown} = {y.colony : y \in p.history.flown} \cup {s.colony}
  <2>1. x.colony = s.colony
    OBVIOUS
  <2> HIDE DEF h, x
  <2> QED BY <1>9, <2>1
<1>23. q.history.flown \subseteq Flown
  <2> HIDE DEF h, q, x
  <2> QED BY <1>5, <1>9, <1>11, <1>12
<1> HIDE DEF q, h
<1> QED BY <1>11, <1>21, <1>22, <1>23 DEF q

\* A tier is paid from the wallet at its own price.
LEMMA BuyIsGood ==
  ASSUME NEW p, GoodProfile(p), NEW b \in TraitBranch, NEW revision, p.run = NoRun,
         CanBuyTrait(p, b, revision)
  PROVE  /\ GoodProfile(BuyTrait(p, b)) /\ BuyTrait(p, b).run = NoRun
         /\ BuyTrait(p, b).history = p.history
<1> DEFINE cost == TraitCost(p.meta.tier[b])
           q == BuyTrait(p, b)
           m == [p.meta EXCEPT !.wallet = @ - cost, !.spent = @ + cost, !.tier[b] = @ + 1]
<1>1. /\ p \in Profiles /\ p.meta \in Metas
      /\ p.meta.tier \in [TraitBranch -> 0 .. kMaxTraitTier]
  BY DEF GoodProfile, Profiles, Metas
<1> DEFINE tier == [p.meta.tier EXCEPT ![b] = @ + 1]
<1>2. p.meta.tier[b] < kMaxTraitTier /\ p.meta.wallet >= cost
  BY DEF CanBuyTrait
<1>3. /\ cost \in Nat /\ tier \in [TraitBranch -> 0 .. kMaxTraitTier]
      /\ Total(Prices(tier)) = Total(Prices(p.meta.tier)) + cost
  BY <1>1, <1>2, TierBought
<1>4. /\ m.wallet = p.meta.wallet - cost /\ m.spent = p.meta.spent + cost
      /\ m.tier = tier /\ m.earned = p.meta.earned /\ m.flights = p.meta.flights
      /\ m.generation = p.meta.generation
  BY <1>1 DEF Metas
<1>5. q = [p EXCEPT !.meta = m]
  BY <1>1 DEF BuyTrait, Profiles, Metas
<1>6. /\ q.revision = p.revision /\ q.phase = p.phase /\ q.meta = m
      /\ q.receipt = p.receipt /\ q.run = p.run /\ q.history = p.history
  <2> HIDE DEF m, q
  <2> QED BY <1>1, <1>5 DEF Profiles
<1>7. Balanced(p.meta, p.history) /\ Lineage(p.meta, p.history)
  BY DEF GoodProfile
<1>8. p.meta.wallet \in 0 .. MaxLegacy /\ p.meta.earned \in 0 .. MaxLegacy
      /\ p.meta.spent \in 0 .. MaxLegacy
  BY <1>1 DEF Metas
<1>9. /\ p.meta.wallet - cost \in 0 .. MaxLegacy /\ p.meta.spent + cost \in 0 .. MaxLegacy
      /\ p.meta.wallet - cost = p.meta.earned - (p.meta.spent + cost)
  <2>1. p.meta.wallet = p.meta.earned - p.meta.spent
    BY <1>7 DEF Balanced
  <2> HIDE DEF cost
  <2> QED BY <1>2, <1>3, <1>8, <2>1, Limits
<1> HIDE DEF cost, tier
<1>10. m \in Metas
  BY <1>1, <1>3, <1>4, <1>9 DEF Metas, tier
<1>11. Balanced(m, p.history)
  <2>1. p.meta.spent = Total(Prices(p.meta.tier))
    BY <1>7 DEF Balanced, Prices
  <2>2. m.spent = Total(Prices(m.tier))
    <3> HIDE DEF m
    <3> QED BY <1>3, <1>4, <2>1
  <2> HIDE DEF m
  <2> QED BY <1>4, <1>7, <1>9, <2>2 DEF Balanced, Prices
<1> HIDE DEF m, q
<1>12. Lineage(m, p.history)
  BY <1>4, <1>7 DEF Lineage
<1>13. q \in Profiles
  BY <1>1, <1>5, <1>10 DEF Profiles
<1>14. GoodProfile(q)
  BY <1>4, <1>6, <1>11, <1>12, <1>13 DEF GoodProfile
<1> QED BY <1>6, <1>14 DEF q

\* An abandoned colony leaves the ledger as it was.
LEMMA AbandonIsGood ==
  ASSUME NEW p, GoodProfile(p)
  PROVE  /\ GoodProfile(Abandon(p)) /\ Abandon(p).run = NoRun
         /\ Abandon(p).history = p.history
<1> DEFINE q == Abandon(p)
<1>1. p \in Profiles
  BY DEF GoodProfile
<1>2. /\ q.revision = p.revision /\ q.phase = "BetweenRuns" /\ q.meta = p.meta
      /\ q.receipt = p.receipt /\ q.run = NoRun /\ q.history = p.history /\ q \in Profiles
  BY <1>1 DEF Abandon, Profiles, Phases
<1> HIDE DEF q
<1>3. GoodProfile(q)
  BY <1>2 DEF GoodProfile
<1> QED BY <1>2, <1>3 DEF q

\* The new colony has the next generation, an id of its own, and the owned tiers.
LEMMA FoundIsGood ==
  ASSUME NEW p, GoodProfile(p), NEW s \in Nat, NEW revision, CanFoundRun(p, revision)
  PROVE  /\ GoodProfile(FoundRun(p, s)) /\ FoundRun(p, s).run # NoRun
         /\ FoundRun(p, s).history.flown = p.history.flown
         /\ FoundRun(p, s).run.session \in Sessions
<1> DEFINE g == p.meta.generation + 1
           c == p.history.founded + 1
           q == FoundRun(p, s)
           m == [p.meta EXCEPT !.generation = g]
           session0 == FreshSession(TraitModifiers(p.meta), c)
           r == [id |-> RunId(s, g), session |-> session0]
           h == [p.history EXCEPT !.founded = c, !.ids = @ \cup {RunId(s, g)}]
<1>1. /\ p \in Profiles /\ p.meta \in Metas /\ p.history \in Histories
      /\ p.meta.tier \in [TraitBranch -> 0 .. kMaxTraitTier]
  BY DEF GoodProfile, Profiles, Metas
<1>2. /\ Balanced(p.meta, p.history) /\ Lineage(p.meta, p.history)
      /\ p.receipt.id[2] <= p.meta.generation /\ p.receipt \in Receipts
  BY <1>1 DEF GoodProfile, Profiles
<1>3. /\ p.meta.generation \in 1 .. MaxGeneration /\ p.meta.generation < MaxGeneration
      /\ p.history.founded = p.meta.generation
  BY <1>1, <1>2 DEF Metas, CanFoundRun, Lineage
<1>4. g \in 1 .. MaxGeneration /\ g \in Nat /\ c = g /\ p.meta.generation < g
      /\ p.meta.generation \in Nat
  BY <1>3, Limits
<1>5. /\ m.wallet = p.meta.wallet /\ m.spent = p.meta.spent /\ m.earned = p.meta.earned
      /\ m.tier = p.meta.tier /\ m.flights = p.meta.flights /\ m.generation = g
  BY <1>1 DEF Metas
<1>6. /\ h.founded = c /\ h.flown = p.history.flown
      /\ h.ids = p.history.ids \cup {RunId(s, g)}
  BY <1>1 DEF Histories
<1>7. q = [p EXCEPT !.meta = m, !.phase = "ActiveRun", !.run = r, !.history = h]
  BY <1>1 DEF FoundRun, Profiles, Metas, Histories
<1>8. /\ q.revision = p.revision /\ q.phase = "ActiveRun" /\ q.meta = m
      /\ q.receipt = p.receipt /\ q.run = r /\ q.history = h
  <2> HIDE DEF m, r, h, q
  <2> QED BY <1>1, <1>7 DEF Profiles
<1>9. /\ session0.traits = TraitModifiers(p.meta) /\ session0.colony = c
      /\ session0.helped = FALSE /\ session0 \in Sessions
  <2>1. TraitModifiers(p.meta) \in [TraitBranch -> 0 .. kMaxTraitTier]
    BY <1>1 DEF TraitModifiers
  <2>2. c \in 0 .. MaxGeneration
    BY <1>4, Limits
  <2> HIDE DEF c
  <2> QED BY <2>1, <2>2 DEF FreshSession, Sessions
<1> HIDE DEF g, c, session0
<1>10. RunId(s, g) \in Ids /\ RunId(s, g)[2] = g
  BY <1>4 DEF RunId, Ids
<1>11. r \in Runs /\ r.id = RunId(s, g) /\ r.session = session0
  BY <1>9, <1>10 DEF Runs
<1>12. r # NoRun
  <2> HIDE DEF r
  <2> QED BY <1>4, <1>10, <1>11, RunIsNotNone
<1>13. m \in Metas
  BY <1>1, <1>4, <1>5 DEF Metas
<1>14. h \in Histories
  BY <1>1, <1>4, <1>10 DEF Histories
<1> HIDE DEF m, h, r, q
<1>15. Balanced(m, h)
  BY <1>2, <1>5, <1>6 DEF Balanced
<1>16. /\ p.meta.flights \in Nat /\ m.flights < m.generation
  <2>1. p.meta.flights \in Nat /\ p.meta.flights <= p.meta.generation
    BY <1>1, <1>2, Limits DEF Metas, Lineage
  <2> QED BY <1>4, <1>5, <2>1
<1>17. /\ IsFiniteSet(h.ids) /\ Cardinality(h.ids) = h.founded
       /\ \A id \in h.ids : id[2] <= m.generation
  <2>1. RunId(s, g) \notin p.history.ids
    BY <1>2, <1>4, <1>10 DEF Lineage
  <2>2. /\ IsFiniteSet(p.history.ids) /\ Cardinality(p.history.ids) = p.history.founded
        /\ \A id \in p.history.ids : id[2] <= p.meta.generation
    BY <1>2 DEF Lineage
  <2>3. IsFiniteSet(h.ids) /\ Cardinality(h.ids) = p.history.founded + 1
    <3> DEFINE ids == p.history.ids
    <3>1. IsFiniteSet(ids \cup {RunId(s, g)})
          /\ Cardinality(ids \cup {RunId(s, g)}) = Cardinality(ids) + 1
      <4> HIDE DEF ids
      <4> QED BY <2>1, <2>2, FS_AddElement DEF ids
    <3> QED BY <1>6, <2>2, <3>1
  <2>4. \A id \in p.history.ids : id[2] \in Nat
    BY <1>1 DEF Histories, Ids
  <2>5. \A id \in h.ids : id[2] <= g
    BY <1>4, <1>6, <1>10, <2>2, <2>4
  <2> QED BY <1>5, <1>6, <2>3, <2>5 DEF c
<1>18. Lineage(m, h)
  <2>1. \A x \in h.flown : x.colony \in 1 .. h.founded /\ ~x.helped
    <3>1. \A x \in h.flown : x.colony \in 1 .. p.history.founded /\ ~x.helped
      BY <1>2, <1>6 DEF Lineage
    <3>2. 1 .. p.history.founded \subseteq 1 .. h.founded
      BY <1>3, <1>4, <1>6
    <3> QED BY <3>1, <3>2
  <2>2. m.flights <= m.generation /\ h.founded = m.generation
    BY <1>4, <1>5, <1>6, <1>16
  <2>3. IsFiniteSet(h.flown) /\ \A x, y \in h.flown : x.colony = y.colony => x = y
    BY <1>2, <1>6 DEF Lineage
  <2> QED BY <1>17, <2>1, <2>2, <2>3 DEF Lineage
<1>19. Running(r, m, h, p.receipt)
  <2>1. r.id[2] \in 1 .. m.generation
    BY <1>4, <1>5, <1>10, <1>11
  <2>2. p.receipt.id # r.id
    <3>1. p.receipt.id[2] \in Nat
      BY <1>2 DEF Receipts, Ids
    <3> QED BY <1>2, <1>4, <1>10, <1>11, <3>1
  <2>3. r.session.colony \in 1 .. h.founded
    BY <1>4, <1>6, <1>9, <1>11
  <2>4. \A x \in h.flown : x.colony # r.session.colony
    <3>1. \A x \in h.flown : x.colony \in 1 .. p.history.founded
      BY <1>2, <1>6 DEF Lineage
    <3> QED BY <1>3, <1>4, <1>9, <1>11, <3>1
  <2>5. r.session.traits = TraitModifiers(m)
    BY <1>5, <1>9, <1>11 DEF TraitModifiers
  <2> QED BY <1>9, <1>11, <1>16, <2>1, <2>2, <2>3, <2>4, <2>5 DEF Running
<1>20. q \in Profiles
  BY <1>1, <1>7, <1>11, <1>13, <1>14 DEF Profiles, Phases
<1>21. p.receipt.id[2] <= m.generation
  <2>1. p.receipt.id[2] \in Nat
    BY <1>2 DEF Receipts, Ids
  <2> QED BY <1>2, <1>4, <1>5, <2>1
<1>22. GoodProfile(q)
  BY <1>8, <1>12, <1>15, <1>18, <1>19, <1>20, <1>21 DEF GoodProfile
<1> QED BY <1>6, <1>8, <1>9, <1>11, <1>12, <1>22 DEF q

-----------------------------------------------------------------------------
(* What the process carries and what a commit leaves *)

\* build_candidate at a revision.
Would(id, s, between) == [BuildCandidate(id, s, between) EXCEPT !.revision = id.revision]

\* What the process offers, in terms of what it carries.
LEMMA MineIsWould == \A between : Offered(between) = Would(identity, session, between)
BY DEF Offered, Would

\* What a candidate holds besides its revision.
LEMMA WouldFields ==
  ASSUME NEW id, NEW s, NEW between
  PROVE  LET p == Would(id, s, between)
         IN  /\ p = [revision |-> p.revision, phase |-> p.phase, meta |-> p.meta,
                     receipt |-> p.receipt, run |-> p.run, history |-> p.history]
             /\ p.revision = id.revision /\ p.meta = id.meta /\ p.receipt = id.receipt
             /\ p.history = id.history
             /\ p.phase = IF between THEN "BetweenRuns" ELSE "ActiveRun"
             /\ p.run = IF between THEN NoRun ELSE [id |-> id.runId, session |-> s]
BY DEF Would, BuildCandidate

\* A process that adopts a profile would write the same profile.
LEMMA AdoptedIsMine ==
  ASSUME NEW p, GoodProfile(p), NEW id \in Identities, NEW s, NEW between \in BOOLEAN,
         between <=> (p.run = NoRun), p.run # NoRun => s = p.run.session
  PROVE  /\ Would(Adopt(id, p), s, between) = p /\ Adopt(id, p) \in Identities
         /\ Adopt(id, p).history = p.history /\ Adopt(id, p).meta = p.meta
         /\ p.run # NoRun => Adopt(id, p).runId = p.run.id
<1> DEFINE a == Adopt(id, p)
<1>1. p \in Profiles /\ ((p.run = NoRun) <=> (p.phase = "BetweenRuns"))
  BY DEF GoodProfile
<1>2. /\ p.meta \in Metas /\ p.revision \in 0 .. MaxRevision /\ p.receipt \in Receipts
      /\ p.history \in Histories /\ p.phase \in Phases
  BY <1>1 DEF Profiles
<1>3. p.run # NoRun => p.run.id \in Ids /\ p.run = [id |-> p.run.id, session |-> p.run.session]
  BY <1>1 DEF Profiles, Runs
<1>4. /\ a.meta = p.meta /\ a.revision = p.revision /\ a.receipt = p.receipt
      /\ a.history = p.history
      /\ a.runId = (IF p.run = NoRun THEN id.runId ELSE p.run.id)
  BY DEF Adopt, Identities
<1>5. a \in Identities
  BY <1>2, <1>3 DEF Adopt, Identities
<1> HIDE DEF a
<1>6. (IF between THEN "BetweenRuns" ELSE "ActiveRun") = p.phase
  BY <1>1, <1>2 DEF Phases
<1>7. (IF between THEN NoRun ELSE [id |-> a.runId, session |-> s]) = p.run
  BY <1>3, <1>4
<1>8. Would(a, s, between) = [revision |-> p.revision, phase |-> p.phase, meta |-> p.meta,
                              receipt |-> p.receipt, run |-> p.run, history |-> p.history]
  BY <1>4, <1>6, <1>7, WouldFields
<1>9. p = [revision |-> p.revision, phase |-> p.phase, meta |-> p.meta,
           receipt |-> p.receipt, run |-> p.run, history |-> p.history]
  BY <1>1 DEF Profiles
<1> QED BY <1>4, <1>5, <1>8, <1>9 DEF a

\* f is the candidate at a revision of its own.
Written(f, p) == \E r \in 1 .. MaxRevision : f = [p EXCEPT !.revision = r]

\* What was written is the candidate but for its revision.
LEMMA WrittenFacts ==
  ASSUME NEW p, GoodProfile(p), NEW f, Written(f, p)
  PROVE  /\ GoodProfile(f) /\ f.revision >= 1 /\ Readable(f)
         /\ f.meta = p.meta /\ f.history = p.history /\ f.run = p.run
<1>1. PICK r \in 1 .. MaxRevision : f = [p EXCEPT !.revision = r]
  BY DEF Written
<1>2. r \in 0 .. MaxRevision /\ r \in Nat /\ r >= 1
  BY Limits
<1>3. GoodProfile(f) /\ f.revision = r
  BY <1>1, <1>2, RevisedIsGood
<1>4. p \in Profiles
  BY DEF GoodProfile
<1>5. f.meta = p.meta /\ f.history = p.history /\ f.run = p.run
  BY <1>1, <1>4 DEF Profiles
<1>6. Absent.revision = 0 /\ Unreadable.revision = 0
  BY DEF Absent, Unreadable
<1>7. Readable(f)
  BY <1>2, <1>3, <1>6 DEF Readable
<1> QED BY <1>2, <1>3, <1>5, <1>7

\* What a commit of p may leave: good files, the candidate whenever it says so.
Leaves(o, cur, p) ==
  /\ o.committed \in BOOLEAN
  /\ Stored(o.current) /\ Stored(o.backup)
  /\ o.committed => Written(o.current, p)
  /\ o.current = cur \/ Written(o.current, p)

\* Every outcome of SaveService::commit, from any readable or unreadable file.
LEMMA CommitLeaves ==
  ASSUME NEW cur, NEW bak, Stored(cur), Stored(bak), NEW p, GoodProfile(p),
         NEW o \in CommitOutcomes(cur, bak, p)
  PROVE  Leaves(o, cur, p)
<1> DEFINE next == [p EXCEPT !.revision = cur.revision + 1]
           kept == IF cur = Absent THEN bak ELSE cur
<1>1. CASE cur = Unreadable \/ cur.revision = MaxRevision
  <2>1. o = Outcome(cur, bak, FALSE)
    BY <1>1 DEF CommitOutcomes
  <2> QED BY <2>1 DEF Outcome, Leaves
<1>2. CASE ~(cur = Unreadable \/ cur.revision = MaxRevision)
  <2>1. o \in {Outcome(cur, bak, FALSE), Outcome(cur, kept, FALSE), Outcome(next, kept, FALSE),
               Outcome(next, kept, TRUE)}
    BY <1>2 DEF CommitOutcomes
  <2>2. cur.revision + 1 \in 1 .. MaxRevision
    <3>1. cur.revision \in 0 .. MaxRevision
      <4>1. CASE cur = Absent
        BY <4>1, Limits DEF Absent
      <4>2. CASE cur # Absent
        <5>1. GoodProfile(cur)
          BY <1>2, <4>2 DEF Stored, Readable
        <5> QED BY <5>1 DEF GoodProfile, Profiles
      <4> QED BY <4>1, <4>2
    <3> QED BY <1>2, <3>1, Limits
  <2>3. Written(next, p)
    BY <2>2 DEF Written
  <2>4. Stored(next)
    <3> HIDE DEF next
    <3> QED BY <2>3, WrittenFacts DEF Stored
  <2>5. Stored(kept)
    OBVIOUS
  <2> HIDE DEF next, kept
  <2>6. ASSUME NEW now, NEW old, NEW said \in BOOLEAN, o = Outcome(now, old, said),
               Stored(now), Stored(old), now = cur \/ Written(now, p), said => Written(now, p)
        PROVE  Leaves(o, cur, p)
    <3>1. o.current = now /\ o.backup = old /\ o.committed = said
      BY <2>6 DEF Outcome
    <3> QED BY <2>6, <3>1 DEF Leaves
  <2>7. TRUE \in BOOLEAN /\ FALSE \in BOOLEAN
    OBVIOUS
  <2>8. CASE o = Outcome(cur, bak, FALSE)
    BY ONLY <2>6, <2>7, <2>8, Stored(cur), Stored(bak)
  <2>9. CASE o = Outcome(cur, kept, FALSE)
    BY ONLY <2>5, <2>6, <2>7, <2>9, Stored(cur)
  <2>10. CASE o = Outcome(next, kept, FALSE)
    BY ONLY <2>3, <2>4, <2>5, <2>6, <2>7, <2>10
  <2>11. CASE o = Outcome(next, kept, TRUE)
    BY ONLY <2>3, <2>4, <2>5, <2>6, <2>7, <2>11
  <2> QED BY <2>1, <2>8, <2>9, <2>10, <2>11
<1> QED BY <1>1, <1>2

\* replace_unreadable may leave no current file besides.
LEMMA ReplaceLeaves ==
  ASSUME NEW cur, NEW bak, Stored(cur), Stored(bak), NEW p, GoodProfile(p),
         NEW o \in ReplaceOutcomes(cur, bak, p)
  PROVE  Leaves(o, cur, p) \/ Leaves(o, Absent, p)
<1>1. Stored(Absent)
  BY DEF Stored, Readable
<1>2. CASE o = Outcome(cur, bak, FALSE)
  BY <1>2 DEF Outcome, Leaves
<1>3. CASE o \in CommitOutcomes(Absent, bak, p)
  BY <1>1, <1>3, CommitLeaves
<1> QED BY <1>2, <1>3 DEF ReplaceOutcomes

-----------------------------------------------------------------------------
(* Steps *)

Flights(h) == {x.colony : x \in h.flown}

\* The view of the store, as a relation of two profiles' parts.
Shown(file, id, s, between) ==
  /\ file.meta = id.meta /\ file.history = id.history
  /\ (file.run = NoRun) <=> between
  /\ ~between => file.run.id = id.runId /\ file.run.session.colony = s.colony

\* The view in terms of Shown.
LEMMA ViewIsShown ==
  ViewMatchesStore <=> ((alive /\ saving /\ ~prompt /\ ~drifted /\ Readable(current)) =>
                          Shown(current, identity, session, betweenRuns))
BY DEF ViewMatchesStore, Shown

\* The same after a step.
LEMMA ViewStaysShown ==
  ASSUME (alive' /\ saving' /\ ~prompt' /\ ~drifted' /\ Readable(current')) =>
           Shown(current', identity', session', betweenRuns')
  PROVE  ViewMatchesStore'
BY DEF ViewMatchesStore, Shown

\* An adopted profile is shown.
LEMMA AdoptedIsShown ==
  ASSUME NEW p, GoodProfile(p), NEW id \in Identities, NEW s, NEW between \in BOOLEAN,
         between <=> (p.run = NoRun), p.run # NoRun => s = p.run.session
  PROVE  Shown(p, Adopt(id, p), s, between)
BY AdoptedIsMine DEF Shown

\* A commit outside the prompt: what is written holds every promised flight, and what the
\* process takes over is what was written.
LEMMA CommitKeeps ==
  ASSUME AppInv, alive, saving, ~prompt,
         NEW p, GoodProfile(p), Flights(identity.history) \subseteq Flights(p.history),
         NEW o \in CommitOutcomes(current, backup, p),
         CommitTransaction(o),
         UNCHANGED <<alive, saving, prompt, offered, seed>>,
         session' \in Sessions, betweenRuns' \in BOOLEAN,
         told' \subseteq 1 .. MaxGeneration,
         IF o.committed
         THEN /\ betweenRuns' <=> (p.run = NoRun)
              /\ p.run # NoRun => session' = p.run.session
              /\ told' \subseteq told \cup Flights(p.history)
         ELSE betweenRuns' = betweenRuns /\ session' = session /\ told' = told
  PROVE  AppInv'
<1>1. Leaves(o, current, p)
  BY CommitLeaves DEF AppInv, FilesGood
<1>2. /\ current' = o.current /\ backup' = o.backup
      /\ drifted' = (IF o.committed THEN FALSE ELSE drifted \/ Installs(o, current))
      /\ identity' = IF o.committed THEN Adopt(identity, o.current) ELSE identity
  BY DEF CommitTransaction, Settle
<1>3. /\ identity \in Identities /\ session \in Sessions /\ GoodProfile(Mine)
      /\ Flags
  BY DEF AppInv, Memory, MineGood
<1>4. ASSUME o.committed
      PROVE  /\ GoodProfile(o.current) /\ Readable(o.current)
             /\ o.current.history = p.history /\ o.current.run = p.run
             /\ identity' = Adopt(identity, o.current)
             /\ Would(identity', session', betweenRuns') = o.current
             /\ identity' \in Identities /\ identity'.history = p.history
             /\ Shown(o.current, identity', session', betweenRuns')
  <2>1. Written(o.current, p)
    BY <1>1, <1>4 DEF Leaves
  <2>2. /\ GoodProfile(o.current) /\ Readable(o.current)
        /\ o.current.history = p.history /\ o.current.run = p.run
    BY <2>1, WrittenFacts
  <2>3. identity' = Adopt(identity, o.current)
    BY <1>2, <1>4
  <2>4. /\ betweenRuns' <=> (o.current.run = NoRun)
        /\ o.current.run # NoRun => session' = o.current.run.session
    BY <1>4, <2>2
  <2>5. /\ Would(identity', session', betweenRuns') = o.current
        /\ identity' \in Identities /\ identity'.history = p.history
    BY <1>3, <2>2, <2>3, <2>4, AdoptedIsMine
  <2>6. Shown(o.current, identity', session', betweenRuns')
    BY <1>3, <2>2, <2>3, <2>4, AdoptedIsShown
  <2> QED BY <2>2, <2>3, <2>5, <2>6
<1>5. Flags'
  <2>1. drifted' \in BOOLEAN
    BY <1>2, <1>3 DEF Flags, Installs
  <2> QED BY <1>3, <2>1 DEF Flags
<1>6. Memory'
  BY <1>2, <1>3, <1>4 DEF Memory
<1>7. FilesGood'
  <2>1. Stored(current') /\ Stored(backup')
    BY <1>1, <1>2 DEF Leaves
  <2>2. offered' # Absent => GoodProfile(offered')
    BY DEF AppInv, FilesGood
  <2> QED BY <2>1, <2>2 DEF FilesGood
<1>8. GoodProfile(Mine)'
  <2>1. CASE o.committed
    <3>1. GoodProfile(Would(identity', session', betweenRuns'))
      BY <1>4, <2>1
    <3> QED BY <3>1 DEF Mine, Offered, Would
  <2>2. CASE ~o.committed
    <3>1. identity' = identity /\ session' = session /\ betweenRuns' = betweenRuns
      BY <1>2, <2>2
    <3> QED BY <1>3, <3>1 DEF Mine, Offered
  <2> QED BY <2>1, <2>2
<1>9. MineGood'
  BY <1>8 DEF MineGood
<1>10. Promised'
  <2>1. told' \subseteq Flights(identity'.history)
    <3>1. told \subseteq Flights(identity.history)
      BY DEF AppInv, Promised, Flights
    <3>2. CASE o.committed
      BY <1>4, <3>1, <3>2
    <3>3. CASE ~o.committed
      BY <1>2, <3>1, <3>3
    <3> QED BY <3>2, <3>3
  <2> QED BY <2>1 DEF Promised, Flights
<1>11. PromiseKept'
  <2>1. told # {} => Readable(current) /\ told \subseteq Flights(current.history)
    BY DEF AppInv, PromiseKept, Flights
  <2>2. told \subseteq Flights(identity.history)
    BY DEF AppInv, Promised, Flights
  <2>3. CASE o.committed
    <3>1. told' \subseteq Flights(current'.history) /\ Readable(current')
      BY <1>2, <1>4, <2>2, <2>3
    <3> QED BY <3>1 DEF PromiseKept, Flights
  <2>4. CASE ~o.committed /\ o.current = current
    <3>1. told' # {} => Readable(current') /\ told' \subseteq Flights(current'.history)
      BY <1>2, <2>1, <2>4
    <3> QED BY <3>1 DEF PromiseKept, Flights
  <2>5. CASE ~o.committed /\ Written(o.current, p)
    <3>1. Readable(o.current) /\ o.current.history = p.history
      BY <2>5, WrittenFacts
    <3>2. Readable(current') /\ told' \subseteq Flights(current'.history)
      BY <1>2, <2>2, <2>5, <3>1
    <3> QED BY <3>2 DEF PromiseKept, Flights
  <2> QED BY <1>1, <2>3, <2>4, <2>5 DEF Leaves
<1>12. ViewMatchesStore'
  <2>1. CASE o.committed
    BY <1>2, <1>4, <2>1, ViewStaysShown
  <2>2. CASE ~o.committed /\ o.current = current
    <3>1. /\ current' = current /\ identity' = identity /\ session' = session
          /\ betweenRuns' = betweenRuns /\ (~drifted' => ~drifted)
      BY <1>2, <2>2
    <3>2. (~drifted /\ Readable(current)) =>
            Shown(current, identity, session, betweenRuns)
      BY ViewIsShown DEF AppInv
    <3> QED BY <3>1, <3>2, ViewStaysShown
  <2>3. CASE ~o.committed /\ o.current # current /\ Written(o.current, p)
    <3>1. o.current # Absent
      BY <2>3, WrittenFacts DEF Readable
    <3>2. drifted'
      BY <1>2, <2>3, <3>1 DEF Installs
    <3> QED BY <3>2, ViewStaysShown
  <2> QED BY <1>1, <2>1, <2>2, <2>3 DEF Leaves
<1> QED BY <1>5, <1>6, <1>7, <1>9, <1>10, <1>11, <1>12 DEF AppInv

\* What the invariant says of a living process.
LEMMA LivingFacts ==
  ASSUME AppInv, alive
  PROVE  /\ GoodProfile(Mine) /\ identity \in Identities /\ session \in Sessions
         /\ betweenRuns \in BOOLEAN /\ seed \in Nat /\ drifted \in BOOLEAN
         /\ Mine = Would(identity, session, betweenRuns)
         /\ Mine.history = identity.history /\ Mine.meta = identity.meta
         /\ Mine.run = (IF betweenRuns THEN NoRun ELSE [id |-> identity.runId, session |-> session])
         /\ betweenRuns <=> (Mine.run = NoRun)
         /\ identity.meta \in Metas /\ identity.history \in Histories
         /\ told \subseteq 1 .. MaxGeneration
<1>1. /\ GoodProfile(Mine) /\ identity \in Identities /\ session \in Sessions
      /\ betweenRuns \in BOOLEAN /\ seed \in Nat /\ drifted \in BOOLEAN
      /\ told \subseteq 1 .. MaxGeneration
  BY DEF AppInv, MineGood, Memory, Flags, Promised
<1>2. Mine = Would(identity, session, betweenRuns)
  BY DEF Mine, Offered, Would
<1>3. /\ Mine.history = identity.history /\ Mine.meta = identity.meta
      /\ Mine.run = (IF betweenRuns THEN NoRun ELSE [id |-> identity.runId, session |-> session])
      /\ Mine.phase = (IF betweenRuns THEN "BetweenRuns" ELSE "ActiveRun")
  BY <1>2, WouldFields
<1>4. betweenRuns <=> (Mine.run = NoRun)
  BY <1>1, <1>3 DEF GoodProfile
<1>5. identity.meta \in Metas /\ identity.history \in Histories
  BY <1>1 DEF Identities
<1> QED BY <1>1, <1>2, <1>3, <1>4, <1>5

\* The candidate of a save is what the process would write, at revision zero.
LEMMA SavedIsGood ==
  ASSUME AppInv, alive
  PROVE  LET p == BuildCandidate(identity, session, betweenRuns)
         IN  GoodProfile(p) /\ p.history = identity.history /\ p.run = Mine.run
<1> DEFINE p == BuildCandidate(identity, session, betweenRuns)
<1>1. p = [Mine EXCEPT !.revision = 0]
  <2>1. /\ p = [revision |-> p.revision, phase |-> p.phase, meta |-> p.meta,
                receipt |-> p.receipt, run |-> p.run, history |-> p.history]
        /\ p.revision = 0 /\ Mine = [p EXCEPT !.revision = identity.revision]
    BY DEF BuildCandidate, Mine, Offered
  <2> HIDE DEF p
  <2> QED BY <2>1
<1>2. 0 \in 0 .. MaxRevision
  BY Limits
<1>3. GoodProfile(p)
  <2> HIDE DEF p
  <2> QED BY <1>1, <1>2, LivingFacts, RevisedIsGood
<1>4. p.history = identity.history /\ p.run = Mine.run
  BY LivingFacts DEF BuildCandidate
<1> QED BY <1>3, <1>4

\* Autosave and manual save.
LEMMA SaveKeeps ==
  ASSUME AppInv, Save
  PROVE  AppInv'
<1> DEFINE p == BuildCandidate(identity, session, betweenRuns)
<1>1. PICK o \in CommitOutcomes(current, backup, p) : CommitTransaction(o)
  BY DEF Save
<1>2. /\ alive /\ saving /\ ~prompt /\ UNCHANGED <<alive, saving, prompt, offered, seed>>
      /\ betweenRuns' = betweenRuns /\ session' = session /\ told' = told
  BY DEF Save, Durably
<1>3. /\ GoodProfile(p) /\ p.history = identity.history /\ p.run = Mine.run
  BY <1>2, SavedIsGood
<1>4. /\ session' \in Sessions /\ betweenRuns' \in BOOLEAN /\ told' \subseteq 1 .. MaxGeneration
      /\ betweenRuns' <=> (p.run = NoRun)
      /\ p.run # NoRun => session' = p.run.session
  BY <1>2, <1>3, LivingFacts
<1>5. Flights(identity.history) \subseteq Flights(p.history)
  BY <1>3
<1> HIDE DEF p
<1> QED BY <1>1, <1>2, <1>3, <1>4, <1>5, CommitKeeps

\* A flight: what the player is told is in what was written.
LEMMA RequestFlightKeeps ==
  ASSUME AppInv, RequestFlight
  PROVE  AppInv'
<1> DEFINE p == Fly(Offered(FALSE), session)
<1>1. PICK o \in CommitOutcomes(current, backup, p) :
        /\ CommitTransaction(o)
        /\ betweenRuns' = o.committed
        /\ told' = IF o.committed THEN told \cup {session.colony} ELSE told
  BY DEF RequestFlight
<1>2. /\ alive /\ saving /\ ~prompt /\ UNCHANGED <<alive, saving, prompt, offered, seed>>
      /\ session' = session /\ ~betweenRuns
      /\ CanFly(Offered(FALSE), session, identity.runId, identity.revision)
  BY DEF RequestFlight, Durably
<1>3. /\ Offered(FALSE) = Mine /\ Mine.run.session = session /\ Mine.run # NoRun
      /\ GoodProfile(Mine) /\ session \in Sessions
  <2>1. betweenRuns = FALSE
    BY <1>2, LivingFacts
  <2>2. Offered(FALSE) = Mine
    BY <2>1 DEF Mine
  <2>3. Mine.run = [id |-> identity.runId, session |-> session]
    BY <1>2, LivingFacts
  <2>4. Mine.run.session = session
    BY <2>3
  <2>5. Mine.run # NoRun /\ GoodProfile(Mine) /\ session \in Sessions
    BY <1>2, LivingFacts
  <2> QED BY <2>2, <2>4, <2>5
<1>4. /\ GoodProfile(p) /\ p.run = NoRun
      /\ {x.colony : x \in p.history.flown}
           = {x.colony : x \in Mine.history.flown} \cup {session.colony}
  BY <1>2, <1>3, FlyIsGood
<1> HIDE DEF p
<1>5. Flights(p.history) = Flights(identity.history) \cup {session.colony}
  BY <1>2, <1>4, LivingFacts DEF Flights
<1>6. session.colony \in 1 .. MaxGeneration
  <2>1. session.colony \in 1 .. identity.history.founded
    BY <1>2, <1>3, RunIsThere, LivingFacts DEF Running
  <2>2. /\ identity.history.founded = identity.meta.generation
        /\ identity.meta.generation \in 1 .. MaxGeneration
    BY <1>2, LivingFacts DEF GoodProfile, Lineage, Metas
  <2> QED BY <2>1, <2>2, Limits
<1>7. o.committed \in BOOLEAN
  BY <1>4, CommitLeaves DEF AppInv, FilesGood, Leaves
<1>8. told' \subseteq 1 .. MaxGeneration
  BY <1>1, <1>2, <1>6, LivingFacts
<1>9. betweenRuns' \in BOOLEAN
  BY <1>1, <1>7
<1>10. IF o.committed
       THEN /\ betweenRuns' <=> (p.run = NoRun)
            /\ p.run # NoRun => session' = p.run.session
            /\ told' \subseteq told \cup Flights(p.history)
       ELSE betweenRuns' = betweenRuns /\ session' = session /\ told' = told
  <2>1. betweenRuns \in BOOLEAN
    BY <1>2, LivingFacts
  <2> QED BY <1>1, <1>2, <1>4, <1>5, <1>7, <2>1
<1>11. Flights(identity.history) \subseteq Flights(p.history) /\ session' \in Sessions
  BY <1>2, <1>3, <1>5
<1> QED BY <1>1, <1>2, <1>4, <1>8, <1>9, <1>10, <1>11, CommitKeeps

\* A purchase in the shop.
LEMMA RequestTraitKeeps ==
  ASSUME AppInv, RequestTrait
  PROVE  AppInv'
<1>1. PICK b \in TraitBranch :
        /\ CanBuyTrait(Offered(TRUE), b, identity.revision)
        /\ \E o \in CommitOutcomes(current, backup, BuyTrait(Offered(TRUE), b)) :
             CommitTransaction(o)
  BY DEF RequestTrait
<1> DEFINE p == BuyTrait(Offered(TRUE), b)
<1>2. PICK o \in CommitOutcomes(current, backup, p) : CommitTransaction(o)
  BY <1>1
<1>3. /\ alive /\ saving /\ ~prompt /\ UNCHANGED <<alive, saving, prompt, offered, seed>>
      /\ session' = session /\ betweenRuns /\ betweenRuns' = betweenRuns /\ told' = told
  BY DEF RequestTrait, Durably
<1>4. /\ Offered(TRUE) = Mine /\ Mine.run = NoRun /\ GoodProfile(Mine)
  <2>1. betweenRuns = TRUE
    BY <1>3, LivingFacts
  <2>2. Offered(TRUE) = Mine
    BY <2>1 DEF Mine
  <2> QED BY <1>3, <2>2, LivingFacts
<1>5. GoodProfile(p) /\ p.run = NoRun /\ p.history = identity.history
  BY <1>1, <1>3, <1>4, BuyIsGood, LivingFacts
<1> HIDE DEF p
<1>6. /\ Flights(identity.history) \subseteq Flights(p.history)
      /\ session' \in Sessions /\ betweenRuns' \in BOOLEAN /\ told' \subseteq 1 .. MaxGeneration
  BY <1>3, <1>5, LivingFacts
<1> QED BY <1>2, <1>3, <1>5, <1>6, CommitKeeps

\* An abandoned colony: its flights, if any, stay.
LEMMA RequestAbandonKeeps ==
  ASSUME AppInv, RequestAbandon
  PROVE  AppInv'
<1> DEFINE p == Abandon(Offered(FALSE))
<1>1. PICK o \in CommitOutcomes(current, backup, p) :
        CommitTransaction(o) /\ betweenRuns' = o.committed
  BY DEF RequestAbandon
<1>2. /\ alive /\ saving /\ ~prompt /\ UNCHANGED <<alive, saving, prompt, offered, seed>>
      /\ session' = session /\ ~betweenRuns /\ told' = told
  BY DEF RequestAbandon, Durably
<1>3. Offered(FALSE) = Mine /\ GoodProfile(Mine)
  <2>1. betweenRuns = FALSE
    BY <1>2, LivingFacts
  <2> QED BY <1>2, <2>1, LivingFacts DEF Mine
<1>4. GoodProfile(p) /\ p.run = NoRun /\ p.history = identity.history
  BY <1>2, <1>3, AbandonIsGood, LivingFacts
<1> HIDE DEF p
<1>5. o.committed \in BOOLEAN
  BY <1>4, CommitLeaves DEF AppInv, FilesGood, Leaves
<1>6. /\ Flights(identity.history) \subseteq Flights(p.history)
      /\ session' \in Sessions /\ betweenRuns' \in BOOLEAN /\ told' \subseteq 1 .. MaxGeneration
      /\ betweenRuns \in BOOLEAN
  BY <1>1, <1>2, <1>4, <1>5, LivingFacts
<1>7. IF o.committed
      THEN /\ betweenRuns' <=> (p.run = NoRun)
           /\ p.run # NoRun => session' = p.run.session
           /\ told' \subseteq told \cup Flights(p.history)
      ELSE betweenRuns' = betweenRuns /\ session' = session /\ told' = told
  BY <1>1, <1>2, <1>4, <1>5, <1>6
<1> QED BY <1>1, <1>2, <1>4, <1>6, <1>7, CommitKeeps

\* A new colony of the next generation.
LEMMA RequestNewRunKeeps ==
  ASSUME AppInv, RequestNewRun
  PROVE  AppInv'
<1> DEFINE p == FoundRun(Offered(TRUE), seed + identity.meta.generation)
<1>1. PICK o \in CommitOutcomes(current, backup, p) :
        /\ CommitTransaction(o)
        /\ session' = IF o.committed THEN Restored(o.current.run) ELSE session
        /\ betweenRuns' = ~o.committed
  BY DEF RequestNewRun
<1>2. /\ alive /\ saving /\ ~prompt /\ UNCHANGED <<alive, saving, prompt, offered, seed>>
      /\ betweenRuns /\ told' = told /\ CanFoundRun(Offered(TRUE), identity.revision)
  BY DEF RequestNewRun, Durably
<1>3. Offered(TRUE) = Mine /\ GoodProfile(Mine)
  <2>1. betweenRuns = TRUE
    BY <1>2, LivingFacts
  <2> QED BY <1>2, <2>1, LivingFacts DEF Mine
<1>4. seed + identity.meta.generation \in Nat
  <2>1. seed \in Nat /\ identity.meta.generation \in 1 .. MaxGeneration
    BY <1>2, LivingFacts DEF Metas
  <2> QED BY <2>1, Limits
<1>5. /\ GoodProfile(p) /\ p.run # NoRun /\ p.history.flown = identity.history.flown
      /\ p.run.session \in Sessions
  BY <1>2, <1>3, <1>4, FoundIsGood, LivingFacts
<1> HIDE DEF p
<1>6. Leaves(o, current, p)
  BY <1>5, CommitLeaves DEF AppInv, FilesGood
<1>7. o.committed \in BOOLEAN /\ (o.committed => o.current.run = p.run)
  BY <1>5, <1>6, WrittenFacts DEF Leaves
<1>8. /\ Flights(identity.history) \subseteq Flights(p.history)
      /\ session' \in Sessions /\ betweenRuns' \in BOOLEAN /\ told' \subseteq 1 .. MaxGeneration
      /\ betweenRuns \in BOOLEAN
  BY <1>1, <1>2, <1>5, <1>7, LivingFacts DEF Restored, Flights
<1>9. IF o.committed
      THEN /\ betweenRuns' <=> (p.run = NoRun)
           /\ p.run # NoRun => session' = p.run.session
           /\ told' \subseteq told \cup Flights(p.history)
      ELSE betweenRuns' = betweenRuns /\ session' = session /\ told' = told
  BY <1>1, <1>2, <1>5, <1>7, <1>8 DEF Restored
<1> QED BY <1>1, <1>2, <1>5, <1>8, <1>9, CommitKeeps

\* A session that changes nothing of what its profile knows of it.
LEMMA GrownIsGood ==
  ASSUME NEW id \in Identities, NEW s \in Sessions, NEW between \in BOOLEAN,
         GoodProfile(Would(id, s, between)),
         NEW t \in Sessions, t.colony = s.colony, t.traits = s.traits,
         between \/ (t.helped => t.assisted)
  PROVE  GoodProfile(Would(id, t, between))
<1>1. CASE between
  <2>1. Would(id, t, between) = Would(id, s, between)
    BY <1>1 DEF Would, BuildCandidate
  <2> QED BY <2>1
<1>2. CASE ~between
  <2> DEFINE p == Would(id, s, between)
             q == Would(id, t, between)
             r == [id |-> id.runId, session |-> s]
             n == [id |-> id.runId, session |-> t]
  <2>1. /\ q.meta = p.meta /\ q.history = p.history /\ q.receipt = p.receipt
        /\ p.run = r /\ q.run = n /\ p.meta = id.meta /\ p.receipt = id.receipt
    BY <1>2, WouldFields
  <2>2. q = [p EXCEPT !.run = n]
    <3>1. /\ q = [revision |-> q.revision, phase |-> q.phase, meta |-> q.meta,
                  receipt |-> q.receipt, run |-> q.run, history |-> q.history]
          /\ q.revision = id.revision /\ q.phase = "ActiveRun" /\ q.meta = id.meta
          /\ q.receipt = id.receipt /\ q.history = id.history /\ q.run = n
      BY <1>2 DEF Would, BuildCandidate
    <3>2. /\ p = [revision |-> p.revision, phase |-> p.phase, meta |-> p.meta,
                  receipt |-> p.receipt, run |-> p.run, history |-> p.history]
          /\ p.revision = id.revision /\ p.phase = "ActiveRun" /\ p.meta = id.meta
          /\ p.receipt = id.receipt /\ p.history = id.history
      BY <1>2 DEF Would, BuildCandidate
    <3> HIDE DEF p, q, n
    <3> QED BY <3>1, <3>2
  <2>3. n \in Runs /\ n.id = id.runId /\ n.session = t /\ r.session = s /\ r.id = id.runId
    BY DEF Runs, Identities
  <2>4. p.run # NoRun /\ p \in Profiles
    <3>1. p.phase = "ActiveRun" /\ p \in Profiles
      BY <1>2, WouldFields DEF GoodProfile
    <3> QED BY <3>1 DEF GoodProfile
  <2> HIDE DEF p, q, r, n
  <2>5. Running(r, p.meta, p.history, p.receipt)
    BY <2>1, <2>4, RunIsThere DEF p
  <2>6. Running(n, q.meta, q.history, q.receipt)
    BY <1>2, <2>1, <2>3, <2>5 DEF Running
  <2>7. q \in Profiles /\ q.phase = p.phase /\ q.run = n
    BY <2>2, <2>3, <2>4 DEF Profiles
  <2>8. n # NoRun
    <3>1. p.meta.generation \in Nat /\ n.id[2] \in 1 .. p.meta.generation
      BY <2>1, <2>4, <2>6, Limits DEF Running, Profiles, Metas
    <3> QED BY <2>3, <3>1, RunIsNotNone
  <2>9. GoodProfile(q)
    BY <2>1, <2>4, <2>6, <2>7, <2>8 DEF GoodProfile, p
  <2> QED BY <2>9 DEF q
<1> QED BY <1>1, <1>2

\* A newborn lineage is good, whether its colony is shown or not.
LEMMA NewbornIsGood ==
  ASSUME NEW id \in Identities, id.meta = FreshMeta, id.history = FreshHistory(id.runId),
         id.runId[2] = 1, id.receipt = NoReceipt, NEW between \in BOOLEAN
  PROVE  LET s == FreshSession([b \in TraitBranch |-> 0], 1)
         IN  s \in Sessions /\ GoodProfile(Would(id, s, between))
<1> DEFINE s == FreshSession([b \in TraitBranch |-> 0], 1)
           p == Would(id, s, between)
           r == [id |-> id.runId, session |-> s]
<1>1. /\ s.traits = [b \in TraitBranch |-> 0] /\ s.colony = 1 /\ s.helped = FALSE
      /\ s \in Sessions
  <2>1. [b \in TraitBranch |-> 0] \in [TraitBranch -> 0 .. kMaxTraitTier]
    BY DEF kMaxTraitTier
  <2>2. 1 \in 0 .. MaxGeneration
    BY Limits
  <2> QED BY <2>1, <2>2 DEF FreshSession, Sessions
<1> HIDE DEF s
<1>2. id.runId \in Ids /\ id.revision \in 0 .. MaxRevision
  BY DEF Identities
<1>3. r \in Runs /\ r # NoRun /\ r.id = id.runId /\ r.session = s
  <2>1. r \in Runs /\ r.id = id.runId /\ r.session = s
    BY <1>1, <1>2 DEF Runs
  <2> HIDE DEF r
  <2> QED BY <2>1, RunIsNotNone
<1>4. /\ p.revision = id.revision /\ p.meta = FreshMeta /\ p.receipt = NoReceipt
      /\ p.phase = (IF between THEN "BetweenRuns" ELSE "ActiveRun")
      /\ p.run = (IF between THEN NoRun ELSE r)
      /\ p.history = FreshHistory(id.runId)
      /\ p = [revision |-> p.revision, phase |-> p.phase, meta |-> p.meta,
              receipt |-> p.receipt, run |-> p.run, history |-> p.history]
  BY WouldFields
<1> HIDE DEF p, r
<1>5. /\ FreshMeta \in Metas /\ FreshHistory(id.runId) \in Histories
      /\ Balanced(FreshMeta, FreshHistory(id.runId))
      /\ Lineage(FreshMeta, FreshHistory(id.runId))
  BY <1>2, NewLineage
<1>6. NoReceipt \in Receipts /\ NoReceipt.id[2] = 0
  BY DEF NoReceipt, Receipts, Ids
<1>7. p \in Profiles
  BY <1>2, <1>3, <1>4, <1>5, <1>6 DEF Profiles, Phases
<1>8. /\ FreshMeta.generation = 1 /\ FreshMeta.flights = 0
      /\ FreshMeta.tier = [b \in TraitBranch |-> 0]
      /\ FreshHistory(id.runId).founded = 1 /\ FreshHistory(id.runId).flown = {}
  BY DEF FreshMeta, FreshHistory
<1>9. TraitModifiers(FreshMeta) = [b \in TraitBranch |-> 0]
  BY <1>8 DEF TraitModifiers
<1>10. Running(r, FreshMeta, FreshHistory(id.runId), NoReceipt)
  BY <1>1, <1>3, <1>8, <1>9 DEF Running
<1>11. (p.run = NoRun) <=> (p.phase = "BetweenRuns")
  BY <1>3, <1>4
<1>12. GoodProfile(p)
  BY <1>4, <1>5, <1>6, <1>7, <1>8, <1>10, <1>11 DEF GoodProfile
<1> QED BY <1>1, <1>12 DEF s, p

\* Only the live session changes.
LEMMA SessionGrows ==
  ASSUME AppInv, alive, session' \in Sessions,
         session'.colony = session.colony, session'.traits = session.traits,
         betweenRuns \/ (session'.helped => session'.assisted),
         UNCHANGED <<disk, alive, saving, prompt, offered, betweenRuns, identity, seed, told,
                     drifted>>
  PROVE  AppInv'
<1>1. /\ current' = current /\ backup' = backup /\ alive' = alive /\ saving' = saving
      /\ prompt' = prompt /\ offered' = offered /\ betweenRuns' = betweenRuns
      /\ identity' = identity /\ seed' = seed /\ told' = told /\ drifted' = drifted
  BY DEF disk
<1>2. /\ GoodProfile(Would(identity, session, betweenRuns)) /\ identity \in Identities
      /\ session \in Sessions /\ betweenRuns \in BOOLEAN
  BY LivingFacts
<1>3. GoodProfile(Would(identity, session', betweenRuns))
  BY <1>2, GrownIsGood
<1>4. GoodProfile(Mine)'
  BY <1>1, <1>3 DEF Mine, Offered, Would
<1>5. Flags' /\ Memory' /\ FilesGood' /\ Promised' /\ PromiseKept'
  BY <1>1 DEF AppInv, Flags, Memory, FilesGood, Promised, PromiseKept
<1>6. MineGood'
  BY <1>1, <1>4 DEF AppInv, MineGood
<1>7. ViewMatchesStore'
  <2>1. (alive /\ saving /\ ~prompt /\ ~drifted /\ Readable(current)) =>
          Shown(current, identity, session, betweenRuns)
    BY ViewIsShown DEF AppInv
  <2>2. Shown(current, identity, session, betweenRuns) =>
          Shown(current, identity, session', betweenRuns)
    BY DEF Shown
  <2> QED BY <1>1, <2>1, <2>2, ViewStaysShown
<1> QED BY <1>5, <1>6, <1>7 DEF AppInv

\* The simulation changes what a flight is judged by, and nothing a profile relates.
LEMMA GrowKeeps ==
  ASSUME AppInv, Grow
  PROVE  AppInv'
<1>1. PICK c \in Colonies :
        session' = [session EXCEPT !.births = c.births, !.winged = c.winged,
                                   !.mature = c.mature, !.queen = c.queen]
  BY DEF Grow
<1>2. alive /\ ~betweenRuns
  BY DEF Grow
<1>3. session \in Sessions
  BY DEF AppInv, Memory
<1>4. c \in [births : Nat, winged : Nat, mature : BOOLEAN, queen : BOOLEAN]
  BY Limits
<1>5. /\ session' \in Sessions /\ session'.colony = session.colony
      /\ session'.traits = session.traits /\ session'.helped = session.helped
      /\ session'.assisted = session.assisted
  BY <1>1, <1>3, <1>4 DEF Sessions
<1>6. session.helped => session.assisted
  <2>1. Mine.run = [id |-> identity.runId, session |-> session] /\ Mine.run # NoRun
        /\ GoodProfile(Mine)
    BY <1>2, LivingFacts
  <2>2. Running(Mine.run, Mine.meta, Mine.history, Mine.receipt)
    BY <2>1, RunIsThere
  <2> QED BY <2>1, <2>2 DEF Running
<1> QED BY <1>2, <1>5, <1>6, SessionGrows DEF Grow

\* Help marks the session.
LEMMA DebugKeeps ==
  ASSUME AppInv, DebugGrantWork
  PROVE  AppInv'
<1>1. alive /\ session' = [session EXCEPT !.assisted = TRUE, !.helped = TRUE]
  BY DEF DebugGrantWork
<1>2. session \in Sessions
  BY DEF AppInv, Memory
<1>3. /\ session' \in Sessions /\ session'.colony = session.colony
      /\ session'.traits = session.traits /\ session'.assisted
  BY <1>1, <1>2 DEF Sessions
<1> QED BY <1>1, <1>3, SessionGrows DEF DebugGrantWork

\* The session a profile is shown with.
LEMMA SessionOfType ==
  ASSUME NEW p, GoodProfile(p)
  PROVE  /\ SessionOf(p) \in Sessions
         /\ p.run # NoRun => SessionOf(p) = p.run.session
<1>1. CASE p.run = NoRun
  <2>1. p.meta.tier \in [TraitBranch -> 0 .. kMaxTraitTier]
    BY DEF GoodProfile, Profiles, Metas
  <2>2. TraitModifiers(p.meta) \in [TraitBranch -> 0 .. kMaxTraitTier]
    BY <2>1 DEF TraitModifiers
  <2>3. SessionOf(p) = FreshSession(TraitModifiers(p.meta), 0)
    BY <1>1 DEF SessionOf
  <2>4. 0 \in 0 .. MaxGeneration
    BY Limits
  <2> QED BY <1>1, <2>2, <2>3, <2>4 DEF FreshSession, Sessions
<1>2. CASE p.run # NoRun
  BY <1>2, RunIsThere DEF SessionOf, Restored
<1> QED BY <1>1, <1>2

\* The identity before any file is read.
LEMMA NoIdentityType == NoIdentity \in Identities /\ NoIdentity.receipt = NoReceipt
<1>1. NoRun.id = <<0, 0>> /\ NoReceipt \in Receipts /\ <<0, 0>> \in Ids
  BY DEF NoRun, NoReceipt, Receipts, Ids
<1>2. FreshHistory(NoRun.id) \in Histories
  BY <1>1 DEF FreshHistory, Histories
<1>3. FreshMeta \in Metas
  BY Limits DEF FreshMeta, Metas, kMaxTraitTier
<1>4. 0 \in 0 .. MaxRevision
  BY Limits
<1> QED BY <1>1, <1>2, <1>3, <1>4 DEF NoIdentity, Identities

\* The identity of a first colony.
LEMMA NewIdentityType ==
  ASSUME NEW s \in Nat
  PROVE  LET id == NewIdentity(s)
         IN  /\ id \in Identities /\ id.meta = FreshMeta /\ id.history = FreshHistory(id.runId)
             /\ id.runId = RunId(s, 1) /\ id.runId[2] = 1 /\ id.receipt = NoReceipt
<1>1. RunId(s, 1) \in Ids /\ RunId(s, 1)[2] = 1
  BY DEF RunId, Ids
<1>2. FreshHistory(RunId(s, 1)) \in Histories
  BY <1>1 DEF FreshHistory, Histories
<1>3. NoIdentity.meta = FreshMeta
  BY DEF NoIdentity
<1> QED BY <1>1, <1>2, <1>3, NoIdentityType DEF NewIdentity, Identities

\* A start resumes what is readable, and begins anew when nothing is.
LEMMA StartKeeps ==
  ASSUME AppInv, Start
  PROVE  AppInv'
<1>1. /\ alive' = TRUE /\ saving' \in BOOLEAN /\ seed' \in Seeds /\ drifted' = FALSE
      /\ current' = current /\ backup' = backup /\ told' = told
  BY DEF Start, disk
<1>2. seed' \in Nat
  BY <1>1, Limits
<1>3. Stored(current) /\ Stored(backup)
  BY DEF AppInv, FilesGood
<1>4. told \subseteq 1 .. MaxGeneration
  BY DEF AppInv, Promised
<1>5. told # {} => Readable(current) /\ told \subseteq Flights(current.history)
  BY DEF AppInv, PromiseKept, Flights
<1>6. PromiseKept'
  BY <1>1 DEF AppInv, PromiseKept
<1>7. CASE saving' /\ Readable(current)
  <2>1. /\ identity' = Adopt(NoIdentity, current) /\ session' = SessionOf(current)
        /\ betweenRuns' = (current.run = NoRun) /\ prompt' = FALSE /\ offered' = Absent
    BY <1>7 DEF Start
  <2>2. GoodProfile(current)
    BY <1>3, <1>7 DEF Stored
  <2>3. session' \in Sessions /\ (current.run # NoRun => session' = current.run.session)
    BY <2>1, <2>2, SessionOfType
  <2>4. betweenRuns' \in BOOLEAN /\ (betweenRuns' <=> (current.run = NoRun))
    BY <2>1
  <2>5. /\ Would(identity', session', betweenRuns') = current /\ identity' \in Identities
        /\ identity'.history = current.history
    BY ZenonT(40), <2>1, <2>2, <2>3, <2>4, AdoptedIsMine, NoIdentityType
  <2>6. Shown(current', identity', session', betweenRuns')
    BY <1>1, <2>1, <2>2, <2>3, <2>4, AdoptedIsShown, NoIdentityType
  <2>7. Mine' = Would(identity', session', betweenRuns')
    BY DEF Mine, Offered, Would
  <2>8. Flags' /\ Memory'
    BY <1>1, <1>2, <2>1, <2>3, <2>4, <2>5 DEF Flags, Memory
  <2>9. FilesGood' /\ MineGood'
    BY <1>1, <1>3, <2>1, <2>2, <2>5, <2>7 DEF FilesGood, MineGood
  <2>10. Promised'
    BY <1>1, <1>4, <1>5, <2>1, <2>5 DEF Promised, Flights
  <2> QED BY <1>6, <2>6, <2>8, <2>9, <2>10, ViewStaysShown DEF AppInv
<1>8. CASE ~(saving' /\ Readable(current))
  <2>1. /\ NewColony(seed') /\ prompt' = (saving' /\ current = Unreadable)
        /\ offered' = IF prompt' /\ Readable(backup) THEN backup ELSE Absent
    BY <1>8 DEF Start
  <2>2. /\ session' = FreshSession([b \in TraitBranch |-> 0], 1)
        /\ identity' = NewIdentity(seed') /\ betweenRuns' = FALSE
    BY <2>1 DEF NewColony
  <2>3. /\ identity' \in Identities /\ identity'.meta = FreshMeta
        /\ identity'.history = FreshHistory(identity'.runId)
        /\ identity'.runId[2] = 1 /\ identity'.receipt = NoReceipt
    BY <1>2, <2>2, NewIdentityType
  <2>4. session' \in Sessions /\ GoodProfile(Would(identity', session', betweenRuns'))
    BY <2>2, <2>3, NewbornIsGood
  <2>5. Mine' = Would(identity', session', betweenRuns')
    BY DEF Mine, Offered, Would
  <2>6. Flags' /\ Memory'
    BY <1>1, <1>2, <2>1, <2>2, <2>3, <2>4 DEF Flags, Memory
  <2>7. FilesGood'
    <3>1. offered' # Absent => GoodProfile(offered')
      BY <1>3, <2>1 DEF Stored
    <3> QED BY <1>1, <1>3, <3>1 DEF FilesGood
  <2>8. MineGood'
    BY <2>3, <2>4, <2>5 DEF MineGood
  <2>9. saving' => ~Readable(current) /\ told = {}
    BY <1>5, <1>8
  <2>10. Promised'
    BY <1>1, <1>4, <2>1, <2>9 DEF Promised
  <2>11. ViewMatchesStore'
    BY <1>1, <2>9 DEF ViewMatchesStore
  <2> QED BY <1>6, <2>6, <2>7, <2>8, <2>10, <2>11 DEF AppInv
<1> QED BY <1>7, <1>8

\* Death leaves the files.
LEMMA CrashKeeps ==
  ASSUME AppInv, Crash
  PROVE  AppInv'
<1>1. /\ alive' = FALSE /\ current' = current /\ backup' = backup /\ saving' = saving
      /\ prompt' = prompt /\ offered' = offered /\ betweenRuns' = betweenRuns
      /\ session' = session /\ identity' = identity /\ seed' = seed /\ told' = told
      /\ drifted' = drifted
  BY DEF Crash, disk, memory
<1>2. Flags' /\ Memory' /\ FilesGood' /\ PromiseKept'
  BY <1>1 DEF AppInv, Flags, Memory, FilesGood, PromiseKept
<1>3. MineGood' /\ Promised' /\ ViewMatchesStore'
  BY <1>1 DEF AppInv, MineGood, Promised, ViewMatchesStore
<1> QED BY <1>2, <1>3 DEF AppInv

\* Damage makes the file unreadable; nothing is promised of it any more.
LEMMA DamageKeeps ==
  ASSUME AppInv, Damage
  PROVE  AppInv'
<1>1. /\ alive' = alive /\ current' = Unreadable /\ backup' = backup /\ saving' = saving
      /\ prompt' = prompt /\ offered' = offered /\ betweenRuns' = betweenRuns
      /\ session' = session /\ identity' = identity /\ seed' = seed /\ told' = {}
      /\ drifted' = drifted
  BY DEF Damage, disk, memory
<1>2. ~Readable(current')
  BY <1>1 DEF Readable
<1>3. Flags' /\ Memory'
  BY <1>1 DEF AppInv, Flags, Memory
<1>4. FilesGood'
  BY <1>1, <1>2 DEF AppInv, FilesGood, Stored
<1>5. PromiseKept' /\ Promised' /\ ViewMatchesStore'
  BY <1>1, <1>2 DEF PromiseKept, Promised, ViewMatchesStore
<1>6. MineGood'
  <2>1. Mine' = Mine
    BY <1>1 DEF Mine, Offered
  <2> QED BY <1>1, <2>1 DEF AppInv, MineGood
<1> QED BY <1>3, <1>4, <1>5, <1>6 DEF AppInv

\* The save at the exit outlives the process: the promises are in what it wrote.
LEMMA ExitSaveKeeps ==
  ASSUME AppInv, ExitSave
  PROVE  AppInv'
<1> DEFINE p == BuildCandidate(identity, session, betweenRuns)
<1>1. PICK o \in CommitOutcomes(current, backup, p) : Settle(o)
  BY DEF ExitSave
<1>2. /\ alive /\ saving /\ ~prompt /\ alive' = FALSE /\ saving' = saving /\ prompt' = prompt
      /\ offered' = offered /\ betweenRuns' = betweenRuns /\ session' = session
      /\ identity' = identity /\ seed' = seed /\ told' = told
  BY DEF ExitSave, Durably, memory
<1>3. GoodProfile(p) /\ p.history = identity.history
  BY <1>2, SavedIsGood
<1> HIDE DEF p
<1>4. Leaves(o, current, p)
  BY <1>3, CommitLeaves DEF AppInv, FilesGood
<1>5. /\ current' = o.current /\ backup' = o.backup
      /\ drifted' = (IF o.committed THEN FALSE ELSE drifted \/ Installs(o, current))
  BY <1>1 DEF Settle
<1>6. Flags' /\ Memory'
  <2>1. drifted' \in BOOLEAN
    BY <1>5 DEF AppInv, Flags, Installs
  <2> QED BY <1>2, <2>1 DEF AppInv, Flags, Memory
<1>7. FilesGood'
  BY <1>2, <1>4, <1>5 DEF AppInv, FilesGood, Leaves
<1>8. MineGood' /\ Promised' /\ ViewMatchesStore'
  BY <1>2 DEF AppInv, MineGood, Promised, ViewMatchesStore
<1>9. PromiseKept'
  <2>1. told # {} => Readable(current) /\ told \subseteq Flights(current.history)
    BY DEF AppInv, PromiseKept, Flights
  <2>2. told \subseteq Flights(identity.history)
    BY <1>2 DEF AppInv, Promised, Flights
  <2>3. CASE o.current = current
    BY <1>2, <1>5, <2>1, <2>3 DEF PromiseKept, Flights
  <2>4. CASE Written(o.current, p)
    <3>1. Readable(o.current) /\ o.current.history = p.history
      BY <1>3, <2>4, WrittenFacts
    <3> QED BY <1>2, <1>3, <1>5, <2>2, <3>1 DEF PromiseKept, Flights
  <2> QED BY <1>4, <2>3, <2>4 DEF Leaves
<1> QED BY <1>6, <1>7, <1>8, <1>9 DEF AppInv

\* In the prompt nothing is promised: what is written need only be good, and be taken over.
LEMMA PromptKeeps ==
  ASSUME AppInv, alive, saving, prompt,
         NEW p, GoodProfile(p),
         NEW o \in ReplaceOutcomes(current, backup, p), Settle(o),
         UNCHANGED <<alive, saving, seed, told>>,
         NEW id \in Identities, session' \in Sessions, betweenRuns' \in BOOLEAN,
         id.receipt = NoReceipt,
         IF o.committed
         THEN /\ identity' = Adopt(id, o.current) /\ prompt' = FALSE /\ offered' = Absent
              /\ betweenRuns' <=> (p.run = NoRun)
              /\ p.run # NoRun => session' = p.run.session
         ELSE /\ identity' = id /\ prompt' = prompt /\ offered' = offered
              /\ GoodProfile(Would(id, session', betweenRuns'))
  PROVE  AppInv'
<1>1. Leaves(o, current, p) \/ Leaves(o, Absent, p)
  BY ReplaceLeaves DEF AppInv, FilesGood
<1>2. /\ o.committed \in BOOLEAN /\ Stored(o.current) /\ Stored(o.backup)
      /\ o.committed => Written(o.current, p)
  BY <1>1 DEF Leaves
<1>3. /\ current' = o.current /\ backup' = o.backup
      /\ drifted' = (IF o.committed THEN FALSE ELSE drifted \/ Installs(o, current))
  BY DEF Settle
<1>4. told' = {} /\ alive' /\ saving'
  BY DEF AppInv, Promised
<1>5. Flags'
  <2>1. drifted' \in BOOLEAN
    BY <1>3 DEF AppInv, Flags, Installs
  <2>2. prompt' \in BOOLEAN
    BY <1>2 DEF AppInv, Flags
  <2> QED BY <2>1, <2>2 DEF AppInv, Flags
<1>6. PromiseKept' /\ Promised'
  BY <1>4 DEF PromiseKept, Promised
<1>7. Mine' = Would(identity', session', betweenRuns')
  BY DEF Mine, Offered, Would
<1>8. CASE o.committed
  <2>1. GoodProfile(o.current) /\ o.current.run = p.run
    BY <1>2, <1>8, WrittenFacts
  <2>2. /\ identity' = Adopt(id, o.current) /\ prompt' = FALSE /\ offered' = Absent
        /\ betweenRuns' <=> (o.current.run = NoRun)
        /\ o.current.run # NoRun => session' = o.current.run.session
    BY <1>8, <2>1
  <2>3. Would(identity', session', betweenRuns') = o.current /\ identity' \in Identities
    BY <2>1, <2>2, AdoptedIsMine
  <2>4. Shown(current', identity', session', betweenRuns')
    BY <1>3, <2>1, <2>2, AdoptedIsShown
  <2>5. Memory' /\ FilesGood' /\ MineGood'
    BY <1>2, <1>3, <1>7, <2>1, <2>2, <2>3 DEF Memory, FilesGood, MineGood
  <2> QED BY <1>5, <1>6, <2>4, <2>5, ViewStaysShown DEF AppInv
<1>9. CASE ~o.committed
  <2>1. /\ identity' = id /\ prompt' /\ offered' = offered
        /\ GoodProfile(Would(id, session', betweenRuns'))
    BY <1>9
  <2>2. Memory' /\ FilesGood' /\ MineGood'
    BY <1>2, <1>3, <1>7, <2>1 DEF AppInv, Memory, FilesGood, MineGood
  <2>3. ViewMatchesStore'
    BY <2>1 DEF ViewMatchesStore
  <2> QED BY <1>5, <1>6, <2>2, <2>3 DEF AppInv
<1> QED BY <1>2, <1>8, <1>9

\* Recovery: the backup becomes the profile, and the process takes it over.
LEMMA RequestRecoverKeeps ==
  ASSUME AppInv, RequestRecover
  PROVE  AppInv'
<1>1. alive /\ saving /\ prompt /\ offered # Absent /\ UNCHANGED <<alive, saving, seed, told>>
  BY DEF RequestRecover
<1>2. PICK o \in ReplaceOutcomes(current, backup, offered) :
        /\ Settle(o)
        /\ IF o.committed
           THEN /\ identity' = Adopt(identity, o.current)
                /\ betweenRuns' = (o.current.run = NoRun)
                /\ session' = SessionOf(o.current)
                /\ prompt' = FALSE /\ offered' = Absent
           ELSE UNCHANGED memory
  BY DEF RequestRecover
<1>3. /\ GoodProfile(offered) /\ identity \in Identities /\ identity.receipt = NoReceipt
      /\ session \in Sessions /\ betweenRuns \in BOOLEAN
      /\ GoodProfile(Would(identity, session, betweenRuns))
  BY <1>1, LivingFacts DEF AppInv, FilesGood, MineGood
<1>4. Leaves(o, current, offered) \/ Leaves(o, Absent, offered)
  BY <1>3, ReplaceLeaves DEF AppInv, FilesGood
<1>5. o.committed \in BOOLEAN /\ (o.committed => Written(o.current, offered))
  BY <1>4 DEF Leaves
<1>6. CASE o.committed
  <2>1. GoodProfile(o.current) /\ o.current.run = offered.run
    BY <1>3, <1>5, <1>6, WrittenFacts
  <2>2. /\ identity' = Adopt(identity, o.current) /\ prompt' = FALSE /\ offered' = Absent
        /\ betweenRuns' = (offered.run = NoRun) /\ session' = SessionOf(o.current)
    BY <1>2, <1>6, <2>1
  <2>3. session' \in Sessions /\ (offered.run # NoRun => session' = offered.run.session)
    BY <2>1, <2>2, SessionOfType
  <2>4. betweenRuns' \in BOOLEAN /\ (betweenRuns' <=> (offered.run = NoRun))
    BY <2>2
  <2> QED BY <1>1, <1>2, <1>3, <1>6, <2>2, <2>3, <2>4, PromptKeeps
<1>7. CASE ~o.committed
  <2>1. /\ identity' = identity /\ prompt' = prompt /\ offered' = offered
        /\ session' = session /\ betweenRuns' = betweenRuns
    BY <1>2, <1>7 DEF memory
  <2>2. GoodProfile(Would(identity, session', betweenRuns'))
    BY <1>3, <2>1
  <2> QED BY <1>1, <1>2, <1>3, <1>7, <2>1, <2>2, PromptKeeps
<1> QED BY <1>5, <1>6, <1>7

\* A fresh start from the prompt.
LEMMA RequestNewColonyKeeps ==
  ASSUME AppInv, RequestNewColony
  PROVE  AppInv'
<1> DEFINE id == [identity EXCEPT !.runId = RunId(seed, 1), !.meta = FreshMeta,
                                  !.history = FreshHistory(RunId(seed, 1))]
           s == FreshSession([b \in TraitBranch |-> 0], 1)
           p == BuildCandidate(id, s, FALSE)
<1>1. /\ alive /\ saving /\ prompt /\ UNCHANGED <<alive, saving, seed, told>>
      /\ session' = s
  BY DEF RequestNewColony
<1>2. PICK o \in ReplaceOutcomes(current, backup, p) :
        /\ Settle(o)
        /\ IF o.committed
           THEN /\ identity' = Adopt(id, o.current)
                /\ betweenRuns' = FALSE
                /\ prompt' = FALSE /\ offered' = Absent
           ELSE /\ identity' = id
                /\ UNCHANGED <<betweenRuns, prompt, offered>>
  BY DEF RequestNewColony
<1>3. /\ identity \in Identities /\ identity.receipt = NoReceipt /\ seed \in Nat
      /\ betweenRuns \in BOOLEAN
  BY <1>1, LivingFacts DEF AppInv, MineGood
<1>4. RunId(seed, 1) \in Ids /\ RunId(seed, 1)[2] = 1
  BY <1>3 DEF RunId, Ids
<1>5. FreshMeta \in Metas /\ FreshHistory(RunId(seed, 1)) \in Histories
  BY <1>4, NewLineage
<1>6. /\ id \in Identities /\ id.meta = FreshMeta /\ id.history = FreshHistory(id.runId)
      /\ id.runId[2] = 1 /\ id.receipt = NoReceipt
  BY <1>3, <1>4, <1>5 DEF Identities
<1> HIDE DEF id
<1>7. /\ s \in Sessions /\ GoodProfile(Would(id, s, FALSE))
      /\ GoodProfile(Would(id, s, betweenRuns))
  BY <1>3, <1>6, NewbornIsGood
<1> HIDE DEF s
<1>8. GoodProfile(p) /\ p.run = [id |-> id.runId, session |-> s]
  <2>1. p = [Would(id, s, FALSE) EXCEPT !.revision = 0]
    <3> DEFINE w == Would(id, s, FALSE)
    <3>1. /\ p = [revision |-> p.revision, phase |-> p.phase, meta |-> p.meta,
                  receipt |-> p.receipt, run |-> p.run, history |-> p.history]
          /\ p.revision = 0 /\ w = [p EXCEPT !.revision = id.revision]
      BY DEF BuildCandidate, Would
    <3> HIDE DEF p, w
    <3>2. p = [w EXCEPT !.revision = 0]
      BY <3>1
    <3> QED BY <3>2 DEF w
  <2>2. 0 \in 0 .. MaxRevision
    BY Limits
  <2>3. p.run = [id |-> id.runId, session |-> s]
    BY DEF BuildCandidate
  <2> HIDE DEF p
  <2> QED BY <1>7, <2>1, <2>2, <2>3, RevisedIsGood
<1>9. p.run # NoRun /\ p.run.session = s
  <2> DEFINE r == [id |-> id.runId, session |-> s]
             w == Would(id, s, FALSE)
  <2>1. w.run = r /\ w.phase = "ActiveRun"
    BY DEF Would, BuildCandidate
  <2>2. w.run # NoRun
    <3> HIDE DEF w, r
    <3> QED BY <1>7, <2>1 DEF GoodProfile, w
  <2>3. p.run = r /\ r.session = s
    BY <1>8
  <2> HIDE DEF r, w, p
  <2> QED BY <2>1, <2>2, <2>3
<1> HIDE DEF p
<1>10. o.committed \in BOOLEAN
  <2>1. Leaves(o, current, p) \/ Leaves(o, Absent, p)
    BY <1>8, ReplaceLeaves DEF AppInv, FilesGood
  <2> QED BY <2>1 DEF Leaves
<1>11. CASE o.committed
  <2>1. /\ identity' = Adopt(id, o.current) /\ prompt' = FALSE /\ offered' = Absent
        /\ betweenRuns' = FALSE
    BY <1>2, <1>11
  <2>2. /\ session' \in Sessions /\ betweenRuns' \in BOOLEAN
        /\ betweenRuns' <=> (p.run = NoRun)
        /\ p.run # NoRun => session' = p.run.session
    BY <1>1, <1>7, <1>9, <2>1
  <2> QED BY <1>1, <1>2, <1>6, <1>8, <1>11, <2>1, <2>2, PromptKeeps
<1>12. CASE ~o.committed
  <2>1. /\ identity' = id /\ prompt' = prompt /\ offered' = offered
        /\ betweenRuns' = betweenRuns
    BY <1>2, <1>12
  <2>2. /\ session' \in Sessions /\ betweenRuns' \in BOOLEAN
        /\ GoodProfile(Would(id, session', betweenRuns'))
    BY <1>1, <1>3, <1>7, <2>1
  <2> QED BY <1>1, <1>2, <1>6, <1>8, <1>12, <2>1, <2>2, PromptKeeps
<1> QED BY <1>10, <1>11, <1>12

-----------------------------------------------------------------------------
(* The theorems *)

\* Before the first start there is nothing.
LEMMA InitApp == Init => AppInv
<1> SUFFICES ASSUME Init PROVE AppInv
  OBVIOUS
<1>1. /\ current = Absent /\ backup = Absent /\ alive = FALSE /\ saving = FALSE
      /\ prompt = FALSE /\ offered = Absent /\ betweenRuns = FALSE
      /\ session = FreshSession([b \in TraitBranch |-> 0], 0) /\ identity = NoIdentity
      /\ seed \in Seeds /\ told = {} /\ drifted = FALSE
  BY DEF Init
<1>2. Flags
  BY <1>1, Limits DEF Flags
<1>3. session \in Sessions
  <2>1. [b \in TraitBranch |-> 0] \in [TraitBranch -> 0 .. kMaxTraitTier]
    BY DEF kMaxTraitTier
  <2>2. 0 \in 0 .. MaxGeneration
    BY Limits
  <2> QED BY <1>1, <2>1, <2>2 DEF FreshSession, Sessions
<1>4. Memory
  BY <1>1, <1>3, NoIdentityType DEF Memory
<1>5. FilesGood
  BY <1>1 DEF FilesGood, Stored, Readable
<1>6. MineGood /\ Promised /\ PromiseKept /\ ViewMatchesStore
  BY <1>1 DEF MineGood, Promised, PromiseKept, ViewMatchesStore
<1> QED BY <1>2, <1>4, <1>5, <1>6 DEF AppInv

\* A stutter.
LEMMA NothingChanges ==
  ASSUME AppInv, UNCHANGED vars
  PROVE  AppInv'
<1>1. /\ current' = current /\ backup' = backup /\ alive' = alive /\ saving' = saving
      /\ prompt' = prompt /\ offered' = offered /\ betweenRuns' = betweenRuns
      /\ session' = session /\ identity' = identity /\ seed' = seed /\ told' = told
      /\ drifted' = drifted
  BY DEF vars, disk, memory
<1>2. Flags' /\ Memory' /\ FilesGood' /\ Promised' /\ PromiseKept' /\ ViewMatchesStore'
  BY <1>1 DEF AppInv, Flags, Memory, FilesGood, Promised, PromiseKept, ViewMatchesStore
<1>3. MineGood'
  BY <1>1 DEF AppInv, MineGood, Mine, Offered
<1> QED BY <1>2, <1>3 DEF AppInv

\* Every step of the application, with every outcome of the store, keeps the invariant.
LEMMA AppStep == AppInv /\ [Next]_vars => AppInv'
<1> SUFFICES ASSUME AppInv, [Next]_vars PROVE AppInv'
  OBVIOUS
<1>1. CASE Start  BY <1>1, StartKeeps
<1>2. CASE Crash  BY <1>2, CrashKeeps
<1>3. CASE Damage  BY <1>3, DamageKeeps
<1>4. CASE Grow  BY <1>4, GrowKeeps
<1>5. CASE DebugGrantWork  BY <1>5, DebugKeeps
<1>6. CASE Save  BY <1>6, SaveKeeps
<1>7. CASE ExitSave  BY <1>7, ExitSaveKeeps
<1>8. CASE RequestFlight  BY <1>8, RequestFlightKeeps
<1>9. CASE RequestTrait  BY <1>9, RequestTraitKeeps
<1>10. CASE RequestAbandon  BY <1>10, RequestAbandonKeeps
<1>11. CASE RequestNewRun  BY <1>11, RequestNewRunKeeps
<1>12. CASE RequestRecover  BY <1>12, RequestRecoverKeeps
<1>13. CASE RequestNewColony  BY <1>13, RequestNewColonyKeeps
<1>14. CASE UNCHANGED vars  BY <1>14, NothingChanges
<1> QED
  BY <1>1, <1>2, <1>3, <1>4, <1>5, <1>6, <1>7, <1>8, <1>9, <1>10, <1>11, <1>12, <1>13, <1>14
  DEF Next

\* The loop's inductive invariant: what it would write now, and both files, are good profiles,
\* and promises and view agree with them, in every reachable state (main.cpp:232-461).
THEOREM AppInvariance == Spec => []AppInv
BY InitApp, AppStep, PTL DEF Spec

\* Every ledger is one of a good profile.
LEMMA LedgersAreGood ==
  ASSUME AppInv, NEW l \in Ledgers
  PROVE  Balanced(l.meta, l.history) /\ Lineage(l.meta, l.history)
<1>1. ASSUME NEW p, GoodProfile(p) PROVE Balanced(p.meta, p.history) /\ Lineage(p.meta, p.history)
  BY <1>1 DEF GoodProfile
<1>2. CASE l \in {[meta |-> f.meta, history |-> f.history] : f \in Files}
  <2>1. PICK f \in Files : l = [meta |-> f.meta, history |-> f.history]
    BY <1>2
  <2>2. GoodProfile(f)
    BY DEF AppInv, FilesGood, Files, Stored
  <2>3. l.meta = f.meta /\ l.history = f.history
    BY <2>1
  <2> QED BY <1>1, <2>2, <2>3
<1>3. CASE alive /\ l = [meta |-> identity.meta, history |-> identity.history]
  <2>1. GoodProfile(Mine) /\ Mine.meta = identity.meta /\ Mine.history = identity.history
    BY <1>3, LivingFacts
  <2>2. l.meta = Mine.meta /\ l.history = Mine.history
    BY <1>3, <2>1
  <2> QED BY <1>1, <2>1, <2>2
<1> QED BY <1>2, <1>3 DEF Ledgers

\* What a readable file holds.
LEMMA FilesAreGood ==
  ASSUME AppInv, NEW f \in Files
  PROVE  /\ GoodProfile(f) /\ f.revision >= 1
         /\ Balanced(f.meta, f.history) /\ Lineage(f.meta, f.history)
         /\ f.run # NoRun => /\ f.run.session \in Sessions
                             /\ Running(f.run, f.meta, f.history, f.receipt)
<1>1. GoodProfile(f) /\ f.revision >= 1
  BY DEF AppInv, FilesGood, Files, Stored
<1> QED BY <1>1, RunIsThere DEF GoodProfile

\* The types are part of the invariant.
LEMMA AppTypes == AppInv => TypeOK
<1> SUFFICES ASSUME AppInv PROVE TypeOK
  OBVIOUS
<1>1. /\ alive \in BOOLEAN /\ saving \in BOOLEAN /\ prompt \in BOOLEAN
      /\ betweenRuns \in BOOLEAN /\ drifted \in BOOLEAN
      /\ session \in Sessions /\ identity.meta \in Metas
      /\ identity.revision \in 0..MaxRevision /\ told \subseteq 1..MaxGeneration
  BY DEF AppInv, Flags, Memory, Identities, Promised
<1>2. ASSUME NEW f \in Files
      PROVE  /\ f.meta \in Metas
             /\ f.revision \in 1..MaxRevision
             /\ (f.run = NoRun) <=> (f.phase = "BetweenRuns")
             /\ f.run # NoRun => f.run.session \in Sessions
  <2>1. GoodProfile(f) /\ f.revision >= 1 /\ (f.run # NoRun => f.run.session \in Sessions)
    BY FilesAreGood
  <2>2. f.meta \in Metas /\ f.revision \in 0 .. MaxRevision
        /\ ((f.run = NoRun) <=> (f.phase = "BetweenRuns"))
    BY <2>1 DEF GoodProfile, Profiles
  <2>3. f.revision \in 1 .. MaxRevision
    BY <2>1, <2>2, Limits
  <2> QED BY <2>1, <2>2, <2>3
<1> QED BY <1>1, <1>2 DEF TypeOK

\* The wallet is what flights earned less what the owned tiers cost, in memory and in both
\* files, for any prices of flights and any failures (prestige.cpp:118-124,159-166).
THEOREM LedgersBalance == Spec => []LedgerBalances
<1>1. ASSUME AppInv PROVE LedgerBalances
  <2>1. \A l \in Ledgers : Balanced(l.meta, l.history)
    BY <1>1, LedgersAreGood
  <2>2. TypeOK
    BY <1>1, AppTypes
  <2> QED BY <2>1, <2>2 DEF LedgerBalances, Balanced
<1> QED BY <1>1, AppInvariance, PTL

\* A colony is paid for once, in every lineage of profiles (prestige.cpp:98-106,122-124).
THEOREM OneCreditEach == Spec => []CreditedOnce
<1>1. ASSUME AppInv PROVE CreditedOnce
  <2>1. ASSUME NEW f \in Files
        PROVE  /\ \A x, y \in f.history.flown : x.colony = y.colony => x = y
               /\ f.run # NoRun => f.run.session.colony \notin {x.colony : x \in f.history.flown}
    BY <1>1, FilesAreGood DEF Lineage, Running
  <2> QED BY <2>1 DEF CreditedOnce
<1> QED BY <1>1, AppInvariance, PTL

\* Run ids are as many as the colonies founded, and no receipt blocks another colony's flight
\* (prestige.cpp:103-106,178-188).
THEOREM FreshIds == Spec => []RunIdsAreFresh
<1>1. ASSUME AppInv PROVE RunIdsAreFresh
  <2>1. \A l \in Ledgers : Cardinality(l.history.ids) = l.history.founded
    BY <1>1, LedgersAreGood DEF Lineage
  <2>2. \A f \in Files : f.run # NoRun => NotCredited(f)
    BY <1>1, FilesAreGood DEF Running, NotCredited
  <2> QED BY <2>1, <2>2 DEF RunIdsAreFresh
<1> QED BY <1>1, AppInvariance, PTL

\* A flight the player was told of is in profile.json through crashes and failed commits
\* (main.cpp:309-321).
THEOREM FlightsTold == Spec => []PromiseKept
<1>1. ASSUME AppInv PROVE PromiseKept
  BY <1>1 DEF AppInv
<1> QED BY <1>1, AppInvariance, PTL

\* The shop, the identity and the colony on screen are those of profile.json unless a commit
\* was installed and reported as failed (main.cpp:305-321,404-432).
THEOREM ViewIsStore == Spec => []ViewMatchesStore
<1>1. ASSUME AppInv PROVE ViewMatchesStore
  BY <1>1 DEF AppInv
<1> QED BY <1>1, AppInvariance, PTL

\* A running colony has exactly the tiers owned (prestige.cpp:149-151,184; session.cpp:13-19).
THEOREM TraitsAreOwned == Spec => []TraitsAppliedOnce
<1>1. ASSUME AppInv PROVE TraitsAppliedOnce
  <2>1. \A f \in Files : f.run # NoRun => f.run.session.traits = TraitModifiers(f.meta)
    BY <1>1, FilesAreGood DEF Running
  <2>2. ASSUME alive, ~betweenRuns PROVE session.traits = TraitModifiers(identity.meta)
    <3>1. /\ GoodProfile(Mine) /\ Mine.run = [id |-> identity.runId, session |-> session]
          /\ Mine.run # NoRun /\ Mine.meta = identity.meta
      BY <1>1, <2>2, LivingFacts
    <3>2. Running(Mine.run, Mine.meta, Mine.history, Mine.receipt)
      BY <3>1, RunIsThere
    <3> QED BY <3>1, <3>2 DEF Running
  <2> QED BY <2>1, <2>2 DEF TraitsAppliedOnce
<1> QED BY <1>1, AppInvariance, PTL

\* A colony that had help never flies, across saves and restarts (prestige.cpp:88).
THEOREM NoHelpedFlight == Spec => []HelpedNeverFlies
<1>1. ASSUME AppInv PROVE HelpedNeverFlies
  BY <1>1, LedgersAreGood DEF HelpedNeverFlies, Lineage
<1> QED BY <1>1, AppInvariance, PTL
==============================================================================
