-------------------------- MODULE ReportFile_proofs --------------------------
(***************************************************************************)
(* What cov report makes of a file, for every input and not only the small *)
(* ones: its percentages, the runs its lines are packed into and read      *)
(* from, the text that is verified against the one the filter measured,    *)
(* and its functions. The loops of the code are recursive functions here;  *)
(* what they compute is shown with DataInduction.                          *)
(***************************************************************************)
EXTENDS CoverageView, SequenceTheorems, DataInduction

(***************************************************************************)
(* Percentages: powers of ten, the quotient that is rounded, the units in  *)
(* which two of them are compared.                                         *)
(***************************************************************************)
(* The function inside Pow10.                                                *)
Times(value, digits) ==
    LET times[n \in 0..digits] == IF n = 0 THEN value ELSE 10 * times[n - 1]
    IN  times

(* It is the one its recursion says: multiply by ten, digits times.          *)
LEMMA TimesIs ==
  ASSUME NEW v \in Int, NEW d \in Nat
  PROVE  /\ Times(v, d) \in [0..d -> Int]
         /\ Times(v, d)[0] = v
         /\ \A n \in 1..d : Times(v, d)[n] = 10 * Times(v, d)[n - 1]
<1> DEFINE step == [p \in Int \X (1..d) |-> 10 * p[1]]
           back == [i \in 1..d |-> i - 1]
<1>1. PICK g \in [0..d -> Int] : Follows(g, d, v, step, back)
  <2>1. step \in [Int \X (1..d) -> Int]
    OBVIOUS
  <2>2. back \in [1..d -> Nat] /\ \A i \in 1..d : back[i] < i
    OBVIOUS
  <2> HIDE DEF step, back
  <2> QED
    BY <2>1, <2>2, Recursion
<1>2. g[0] = v /\ \A n \in 1..d : g[n] = 10 * g[n - 1]
  <2>1. g[0] = v
    BY <1>1 DEF Follows
  <2>2. ASSUME NEW n \in 1..d PROVE g[n] = 10 * g[n - 1]
    <3>1. g[n] = step[<<g[back[n]], n>>] /\ back[n] = n - 1
      BY <1>1 DEF Follows
    <3>2. <<g[n - 1], n>> \in Int \X (1..d)
      BY <1>1
    <3> QED
      BY <3>1, <3>2
  <2> QED
    BY <2>1, <2>2
<1>3. g = [n \in 0..d |-> IF n = 0 THEN v ELSE 10 * g[n - 1]]
  BY <1>2
<1>4. Times(v, d) = [n \in 0..d |-> IF n = 0 THEN v ELSE 10 * Times(v, d)[n - 1]]
  BY <1>3 DEF Times
<1>5. PICK t : t = Times(v, d)
  OBVIOUS
<1>6. t[0] = v /\ \A n \in 1..d : t[n] = 10 * t[n - 1]
  BY <1>4, <1>5
<1>7. \A n \in 0..d : t[n] \in Int
  <2>1. t[0] \in Int /\ \A n \in 1..d : t[n - 1] \in Int => t[n] \in Int
    BY <1>6
  <2> QED
    BY <2>1, StaysIn
<1>8. t = [n \in 0..d |-> t[n]]
  BY <1>4, <1>5
<1>9. t \in [0..d -> Int]
  BY <1>7, <1>8
<1> QED
  BY <1>5, <1>6, <1>9

(* So Pow10 of one more digit is ten times as much.                          *)
LEMMA PowStep ==
  ASSUME NEW v \in Int, NEW d \in Nat
  PROVE  /\ Pow10(v, 0) = v /\ Pow10(v, d) \in Int
         /\ Pow10(v, d + 1) = 10 * Pow10(v, d)
<1>1. PICK t, u : t = Times(v, d + 1) /\ u = Times(v, d)
  OBVIOUS
<1>2. /\ t \in [0..d + 1 -> Int] /\ t[0] = v
      /\ \A n \in 1..d + 1 : t[n] = 10 * t[n - 1]
  <2>1. d + 1 \in Nat
    OBVIOUS
  <2> QED
    BY <1>1, <2>1, TimesIs
<1>3. u \in [0..d -> Int] /\ u[0] = v /\ \A n \in 1..d : u[n] = 10 * u[n - 1]
  BY <1>1, TimesIs
<1>4. \A n \in 0..d : t[n] = u[n]
  <2> DEFINE S == {n \in 0..d : t[n] = u[n]}
  <2>1. 0 \in S
    BY <1>2, <1>3
  <2>2. ASSUME NEW n \in 1..d, n - 1 \in S PROVE n \in S
    BY <1>2, <1>3, <2>2
  <2>3. \A n \in 0..d : n \in S
    <3> HIDE DEF S
    <3> QED
      BY <2>1, <2>2, UpTo
  <2> QED
    BY <2>3
<1>5. Pow10(v, d + 1) = t[d + 1] /\ Pow10(v, d) = u[d]
  BY <1>1 DEF Pow10, Times
<1>6. Pow10(v, 0) = v
  <2>1. Times(v, 0)[0] = v
    BY TimesIs
  <2> QED
    BY <2>1 DEF Pow10, Times
<1>7. t[d + 1] = 10 * t[d] /\ t[d] = u[d] /\ u[d] \in Int
  <2>1. d + 1 \in 1..d + 1 /\ (d + 1) - 1 = d /\ d \in 0..d
    OBVIOUS
  <2> QED
    BY <1>2, <1>3, <1>4, <2>1
<1> QED
  BY <1>5, <1>6, <1>7

Ten(d) == Pow10(1, d)

(* A power of ten is positive, and Pow10 multiplies by it.                   *)
LEMMA TenPower ==
  ASSUME NEW v \in Int, NEW d \in Nat
  PROVE  Ten(0) = 1 /\ Ten(d) \in Nat \ {0} /\ Ten(d + 1) = 10 * Ten(d) /\ Pow10(v, d) = v * Ten(d)
<1> DEFINE S == {n \in Nat : Ten(n) \in Nat \ {0} /\ Pow10(v, n) = v * Ten(n)}
<1>1. Ten(0) = 1 /\ \A n \in Nat : Ten(n + 1) = 10 * Ten(n)
  BY PowStep DEF Ten
<1>2. 0 \in S
  <2>1. Pow10(v, 0) = v /\ v * 1 = v
    BY PowStep
  <2> QED
    BY <1>1, <2>1
<1>3. ASSUME NEW n \in 1..d, n - 1 \in S PROVE n \in S
  <2>1. PICK m \in Nat : m = n - 1
    OBVIOUS
  <2>2. n = m + 1 /\ Ten(m) \in Nat \ {0} /\ Pow10(v, m) = v * Ten(m)
    BY <1>3, <2>1
  <2>3. Ten(m + 1) = 10 * Ten(m) /\ Pow10(v, m + 1) = 10 * Pow10(v, m)
    BY <1>1, PowStep
  <2>4. 10 * (v * Ten(m)) = v * (10 * Ten(m))
    BY <2>2
  <2>5. Ten(m + 1) \in Nat \ {0} /\ Pow10(v, m + 1) = v * Ten(m + 1)
    BY <2>2, <2>3, <2>4
  <2> QED
    BY <2>2, <2>5
<1>4. \A n \in 0..d : n \in S
  <2> HIDE DEF S
  <2> QED
    BY <1>2, <1>3, UpTo
<1> QED
  BY <1>1, <1>4

(* Powers add up: bringing a fraction to more digits, in two steps or one.   *)
LEMMA TenSum ==
  ASSUME NEW a \in Nat, NEW b \in Nat
  PROVE  Ten(a + b) = Ten(a) * Ten(b)
<1> DEFINE S == {n \in Nat : Ten(a + n) = Ten(a) * Ten(n)}
<1>1. Ten(0) = 1 /\ \A n \in Nat : Ten(n + 1) = 10 * Ten(n) /\ Ten(n) \in Nat
  BY TenPower
<1>2. 0 \in S
  BY <1>1
<1>3. ASSUME NEW n \in 1..b, n - 1 \in S PROVE n \in S
  <2>1. PICK m \in Nat : m = n - 1
    OBVIOUS
  <2>2. n = m + 1 /\ Ten(a + m) = Ten(a) * Ten(m)
    BY <1>3, <2>1
  <2>3. Ten(m + 1) = 10 * Ten(m) /\ Ten((a + m) + 1) = 10 * Ten(a + m) /\ (a + m) + 1 = a + n
    BY <1>1, <2>2
  <2>4. 10 * (Ten(a) * Ten(m)) = Ten(a) * (10 * Ten(m))
    BY <1>1
  <2>5. Ten(a + n) = Ten(a) * Ten(n)
    BY <2>2, <2>3, <2>4
  <2> QED
    BY <2>5
<1>4. \A n \in 0..b : n \in S
  <2> HIDE DEF S
  <2> QED
    BY <1>2, <1>3, UpTo
<1> QED
  BY <1>4

(* Division of natural numbers with its remainder.                           *)
LEMMA Quotient ==
  ASSUME NEW x \in Nat, NEW m \in Nat \ {0}
  PROVE  x \div m \in Nat /\ x % m \in 0..m - 1 /\ x = (x \div m) * m + (x % m)
  OBVIOUS

(* The statistics for which stats::calc is right: no more visited than       *)
(* relevant, and a hundred times the visited still one 32-bit number.        *)
Words == {s \in [relevant : 0..MaxU32, visited : 0..MaxU32] :
            s.visited <= s.relevant /\ s.visited * 100 < U32}
(* A percentage of d digits, and its value in units of its last one.         *)
IsRatio(r, d) == r.digits = d /\ r.whole \in Nat /\ r.fraction \in 0..Ten(d) - 1
Exact(r) == r.whole * Ten(r.digits) + r.fraction

(* All that the proofs use of the widths.                                    *)
LEMMA WidthFacts == U32 \in Nat \ {0} /\ MaxU32 \in Nat \ {0} /\ MaxU31 \in Nat \ {0, 1}
  BY BitsAssumption DEF U32, MaxU32, MaxU31

(* Rounding to the nearest: n is a whole multiple of 100 * Ten(d).            *)
(* Adding half of the divisor rounds to the nearest.                         *)
LEMMA Rounded ==
  ASSUME NEW n \in Nat, NEW m \in Nat \ {0}, NEW out, out = (n + (m \div 2)) \div m
  PROVE  out \in Nat /\ 2 * (out * m - n) \in -m..m
<1>1. PICK h, a, b : h = m \div 2 /\ a = (n + h) \div m /\ b = (n + h) % m
  OBVIOUS
<1>2. h \in Nat /\ 2 * h <= m /\ m <= 2 * h + 1
  BY <1>1
<1>3. a \in Nat /\ b \in 0..m - 1 /\ n + h = a * m + b
  <2>1. n + h \in Nat
    BY <1>2
  <2> QED
    BY <1>1, <2>1, Quotient
<1>4. PICK c : c = a * m
  OBVIOUS
<1>5. c \in Int
  BY <1>3, <1>4
<1>6. 2 * (c - n) \in -m..m
  BY <1>2, <1>3, <1>4, <1>5
<1> QED
  BY <1>1, <1>3, <1>4, <1>6

(* stats::calc: the nearest percentage of its digits.                        *)
LEMMA CalcIs ==
  ASSUME NEW s \in Words, NEW d \in Nat
  PROVE  /\ IsRatio(Calc(s, d), d)
         /\ 2 * (Exact(Calc(s, d)) * s.relevant - s.visited * 100 * Ten(d)) \in -s.relevant..s.relevant
<1>1. PICK v, m, T, r : v = s.visited /\ m = s.relevant /\ T = Ten(d) /\ r = Calc(s, d)
  OBVIOUS
<1>2. T \in Nat \ {0}
  BY <1>1, TenPower
<1>3. v \in Nat /\ m \in Nat /\ v <= m /\ v * 100 < U32 /\ (v * 100) % U32 = v * 100
  <2>1. v \in Nat /\ m \in Nat /\ v <= m /\ v * 100 < U32
    BY <1>1, WidthFacts DEF Words
  <2> QED
    BY <2>1, WidthFacts
<1>4. CASE m = 0
  <2>1. r = [whole |-> 0, fraction |-> 0, digits |-> d]
    BY <1>1, <1>4 DEF Calc
  <2>2. v = 0 /\ 0 * T = 0 /\ Exact(r) = 0 /\ v * 100 * T = 0 /\ Exact(r) * m = 0
    BY <1>1, <1>2, <1>3, <1>4, <2>1 DEF Exact
  <2>3. IsRatio(r, d)
    BY <1>1, <1>2, <2>1 DEF IsRatio
  <2> QED
    BY <1>1, <1>4, <2>2, <2>3
<1>5. CASE m # 0
  <2>1. PICK n, out : n = (v * 100) * T /\ out = (n + (m \div 2)) \div m
    OBVIOUS
  <2>2. n \in Nat
    BY <1>2, <1>3, <2>1
  <2>3. out \in Nat /\ 2 * (out * m - n) \in -m..m
    BY <1>3, <1>5, <2>1, <2>2, Rounded
  <2>4. r = [whole |-> out \div T, fraction |-> out % T, digits |-> d]
    BY <1>1, <1>3, <1>5, <2>1 DEF Calc, Ten
  <2>5. out \div T \in Nat /\ out % T \in 0..T - 1 /\ out = (out \div T) * T + (out % T)
    BY <1>2, <2>3, Quotient
  <2>6. IsRatio(r, d) /\ Exact(r) = out
    BY <1>1, <2>4, <2>5 DEF IsRatio, Exact
  <2> QED
    BY <1>1, <2>1, <2>3, <2>6
<1> QED
  BY <1>4, <1>5

(* A ratio in the units of one with more digits.                             *)
(* More digits: whole part and fraction are scaled by the same factor.       *)
LEMMA Scaled ==
  ASSUME NEW w \in Nat, NEW a \in Nat \ {0}, NEW b \in Nat \ {0}, NEW f \in 0..a - 1
  PROVE  (w * a + f) * b = w * (a * b) + f * b /\ f * b \in 0..(a * b) - 1 /\ a * b \in Nat \ {0}
<1>1. (w * a + f) * b = w * (a * b) + f * b
  OBVIOUS
<1>2. f * b \in Nat /\ a * b \in Nat \ {0} /\ f + 1 <= a
  OBVIOUS
<1>3. (f + 1) * b <= a * b
  BY <1>2
<1>4. (f + 1) * b = f * b + b
  OBVIOUS
<1> QED
  BY <1>1, <1>2, <1>3, <1>4

(* Whole parts decide before fractions do, since no fraction is as much as   *)
(* one.                                                                      *)
LEMMA Ordered ==
  ASSUME NEW M \in Nat \ {0}, NEW v \in Nat, NEW w \in Nat, NEW f \in 0..M - 1, NEW g \in 0..M - 1
  PROVE  /\ v < w => v * M + f < w * M + g
         /\ v = w => v * M = w * M
<1>1. ASSUME v < w PROVE v * M + f < w * M + g
  <2>1. PICK x, y : x = v * M /\ y = w * M
    OBVIOUS
  <2>2. x \in Nat /\ y \in Nat
    BY <2>1
  <2>3. (v + 1) * M = x + M /\ (v + 1) * M <= y
    BY <1>1, <2>1
  <2> QED
    BY <2>1, <2>2, <2>3
<1> QED
  BY <1>1

(* The more precise digits of two percentages, and a percentage in their     *)
(* units.                                                                    *)
MaxDigits(r, t) == IF r.digits > t.digits THEN r.digits ELSE t.digits
InUnits(r, D) == Exact(r) * Ten(D - r.digits)

(* Every number of DiffRatio and of the comparisons, in the same units.      *)
LEMMA RatioUnits ==
  ASSUME NEW d \in Nat, NEW D \in Nat, d <= D, NEW r, IsRatio(r, d)
  PROVE  /\ InUnits(r, D) = r.whole * Ten(D) + r.fraction * Ten(D - d)
         /\ r.fraction * Ten(D - d) \in 0..Ten(D) - 1
         /\ InUnits(r, D) \in Nat /\ Exact(r) \in Nat
         /\ Pow10(Pow10(r.whole, d) + r.fraction, D - d) = InUnits(r, D)
<1>1. PICK w, f, a, b : w = r.whole /\ f = r.fraction /\ a = Ten(d) /\ b = Ten(D - d)
  OBVIOUS
<1>2. D - d \in Nat /\ d + (D - d) = D
  OBVIOUS
<1>3. a \in Nat \ {0} /\ b \in Nat \ {0} /\ Ten(D) = a * b
  BY <1>1, <1>2, TenPower, TenSum
<1>4. w \in Nat /\ f \in 0..a - 1 /\ r.digits = d
  BY <1>1 DEF IsRatio
<1>5. (w * a + f) * b = w * (a * b) + f * b /\ f * b \in 0..(a * b) - 1 /\ a * b \in Nat
  BY <1>3, <1>4, Scaled
<1>6. Exact(r) = w * a + f /\ InUnits(r, D) = (w * a + f) * b
  BY <1>1, <1>4 DEF Exact, InUnits
<1>7. w * a + f \in Nat /\ (w * a + f) * b \in Nat
  <2>1. PICK e : e = w * a + f
    OBVIOUS
  <2>2. e \in Nat
    BY <1>3, <1>4, <2>1
  <2>3. e * b \in Nat
    BY <1>3, <2>2
  <2> QED
    BY <2>1, <2>2, <2>3
<1>8. Pow10(w, d) = w * a
  <2>1. w \in Int
    BY <1>4
  <2> QED
    BY <1>1, <2>1, TenPower
<1>9. Pow10(w * a + f, D - d) = (w * a + f) * b
  BY <1>1, <1>2, <1>7, TenPower
<1> QED
  BY <1>1, <1>3, <1>5, <1>6, <1>7, <1>8, <1>9

(* Percentages compare as their values do, whatever their digits.            *)
LEMMA RatioOrder ==
  ASSUME NEW d \in Nat, NEW e \in Nat, NEW r, NEW t, IsRatio(r, d), IsRatio(t, e)
  PROVE  /\ RatioLess(r, t) <=> InUnits(r, MaxDigits(r, t)) < InUnits(t, MaxDigits(r, t))
         /\ RatioEqual(r, t) <=> InUnits(r, MaxDigits(r, t)) = InUnits(t, MaxDigits(r, t))
<1>1. PICK D, M, v, w : D = MaxDigits(r, t) /\ M = Ten(D) /\ v = r.whole /\ w = t.whole
  OBVIOUS
<1>2. D \in Nat /\ d <= D /\ e <= D /\ M \in Nat \ {0} /\ r.digits = d /\ t.digits = e
  <2>1. r.digits = d /\ t.digits = e
    BY DEF IsRatio
  <2>2. D \in Nat /\ d <= D /\ e <= D
    BY <1>1, <2>1 DEF MaxDigits
  <2> QED
    BY <1>1, <2>1, <2>2, TenPower
<1>3. PICK f, g : f = r.fraction * Ten(D - d) /\ g = t.fraction * Ten(D - e)
  OBVIOUS
<1>4. f \in 0..M - 1 /\ g \in 0..M - 1 /\ InUnits(r, D) = v * M + f /\ InUnits(t, D) = w * M + g
  BY <1>1, <1>2, <1>3, RatioUnits
<1>5. v \in Nat /\ w \in Nat /\ r.fraction \in Nat /\ t.fraction \in Nat
  BY <1>1 DEF IsRatio
<1>6. Fractions(r, t).left = f /\ Fractions(r, t).right = g
  BY <1>1, <1>2, <1>3 DEF Fractions, MaxDigits, Ten
<1>7. (RatioLess(r, t) <=> IF v # w THEN v < w ELSE f < g) /\ (RatioEqual(r, t) <=> v = w /\ f = g)
  <2>1. ~(r.fraction < 0) /\ ~(t.fraction < 0)
    BY <1>5
  <2> QED
    BY <1>1, <1>6, <2>1 DEF RatioLess, RatioEqual
<1>8. /\ v < w => v * M + f < w * M + g
      /\ w < v => w * M + g < v * M + f
      /\ v = w => v * M = w * M
  BY <1>2, <1>4, <1>5, Ordered
<1>9. v * M \in Nat /\ w * M \in Nat
  BY <1>2, <1>5
<1> QED
  BY <1>1, <1>4, <1>5, <1>7, <1>8, <1>9

None == [whole |-> 0, fraction |-> 0, digits |-> 0]

(* The difference of two percentages is that of their values, although its   *)
(* sign is kept with the whole part, or with the fraction when the whole     *)
(* part is 0.                                                                *)
LEMMA DiffIs ==
  ASSUME NEW d \in Nat, NEW e \in Nat, NEW r, NEW t, IsRatio(r, d), IsRatio(t, e)
  PROVE  LET D == MaxDigits(r, t)
             c == DiffRatio(r, t)
         IN  /\ c.digits = D
             /\ ValueOf(c) = InUnits(r, D) - InUnits(t, D)
             /\ RatioLess(c, None) <=> ValueOf(c) < 0
             /\ RatioLess(None, c) <=> ValueOf(c) > 0
<1>1. PICK D, M, x, y, c : /\ D = MaxDigits(r, t) /\ M = Ten(D) /\ c = DiffRatio(r, t)
                           /\ x = InUnits(r, D) /\ y = InUnits(t, D)
  OBVIOUS
<1>2. D \in Nat /\ d <= D /\ e <= D /\ M \in Nat \ {0} /\ r.digits = d /\ t.digits = e
  <2>1. r.digits = d /\ t.digits = e
    BY DEF IsRatio
  <2>2. D \in Nat /\ d <= D /\ e <= D
    BY <1>1, <2>1 DEF MaxDigits
  <2> QED
    BY <1>1, <2>1, <2>2, TenPower
<1>3. /\ x \in Nat /\ Pow10(Pow10(r.whole, d) + r.fraction, D - d) = x
      /\ y \in Nat /\ Pow10(Pow10(t.whole, e) + t.fraction, D - e) = y
  BY <1>1, <1>2, RatioUnits
<1>4. PICK abs : abs = IF x < y THEN y - x ELSE x - y
  OBVIOUS
<1>5. PICK w, f : w = abs \div M /\ f = abs % M
  OBVIOUS
<1>6. abs \in Nat /\ w \in Nat /\ f \in 0..M - 1 /\ abs = w * M + f
  <2>1. abs \in Nat
    BY <1>3, <1>4
  <2> QED
    BY <1>2, <1>5, <2>1, Quotient
<1>7. c = [whole |-> IF x < y THEN -w ELSE w, fraction |-> IF x < y /\ w = 0 THEN -f ELSE f, digits |-> D]
  BY <1>1, <1>2, <1>3, <1>4, <1>5 DEF DiffRatio, MaxDigits, Ten
<1>8. /\ x < y /\ w = 0 => c.whole = 0 /\ c.fraction = -f
      /\ x < y /\ w # 0 => c.whole = -w /\ c.fraction = f
      /\ y <= x => c.whole = w /\ c.fraction = f
  <2>1. c.whole = (IF x < y THEN -w ELSE w) /\ c.fraction = (IF x < y /\ w = 0 THEN -f ELSE f)
    BY <1>7
  <2>2. (w = 0 => -w = 0) /\ (y <= x => ~(x < y))
    BY <1>3, <1>6
  <2> QED
    BY <2>1, <2>2
<1>9. ValueOf(c) = c.whole * M + (IF c.whole < 0 THEN -c.fraction ELSE c.fraction)
  BY <1>1, <1>7 DEF ValueOf, Ten
<1>10. PICK p : p = w * M
  OBVIOUS
<1>11. p \in Nat /\ (-w) * M = -p /\ (w = 0 => p = 0) /\ (w # 0 => p >= M) /\ 0 * M = 0
  BY <1>2, <1>6, <1>10
<1>12. ValueOf(c) = IF x < y THEN -abs ELSE abs
  <2>1. CASE y <= x
    <3>1. c.whole = w /\ c.fraction = f
      BY <1>8, <2>1
    <3> QED
      BY <1>3, <1>6, <1>9, <1>10, <2>1, <3>1
  <2>2. CASE x < y /\ w = 0
    <3>1. c.whole = 0 /\ c.fraction = -f
      BY <1>6, <1>8, <2>2
    <3> QED
      BY <1>6, <1>9, <1>10, <1>11, <2>2, <3>1
  <2>3. CASE x < y /\ w # 0
    <3>1. c.whole = -w /\ c.fraction = f /\ c.whole < 0
      BY <1>6, <1>8, <2>3
    <3>2. ValueOf(c) = -p - f
      BY <1>6, <1>9, <1>11, <3>1
    <3> QED
      BY <1>6, <1>10, <1>11, <2>3, <3>2
  <2> QED
    BY <1>3, <2>1, <2>2, <2>3
<1>13. ValueOf(c) = x - y
  BY <1>3, <1>4, <1>12
<1>14. /\ Fractions(c, None).left = c.fraction * Ten(0) /\ Fractions(c, None).right = 0 * Ten(D)
       /\ Fractions(None, c).left = 0 * Ten(D) /\ Fractions(None, c).right = c.fraction * Ten(0)
  BY <1>2, <1>7 DEF Fractions, None, Ten
<1>15. c.fraction \in Int /\ c.whole \in Int /\ Ten(0) = 1 /\ Ten(D) \in Nat
  <2>1. c.fraction \in Int /\ c.whole \in Int
    BY <1>3, <1>6, <1>8
  <2> QED
    BY <1>2, <2>1, TenPower
<1>16. /\ Fractions(c, None).left = c.fraction /\ Fractions(c, None).right = 0
       /\ Fractions(None, c).left = 0 /\ Fractions(None, c).right = c.fraction
  BY <1>14, <1>15
<1>17. /\ RatioLess(c, None) <=> c.whole < 0 \/ (c.whole = 0 /\ c.fraction < 0)
       /\ RatioLess(None, c) <=> c.whole > 0 \/ (c.whole = 0 /\ c.fraction > 0)
  BY <1>15, <1>16 DEF RatioLess, None
<1>18. /\ (c.whole < 0 \/ (c.whole = 0 /\ c.fraction < 0)) <=> (x < y)
       /\ (c.whole > 0 \/ (c.whole = 0 /\ c.fraction > 0)) <=> (y <= x /\ abs > 0)
  <2>1. abs = p + f /\ (x < y => abs > 0)
    BY <1>3, <1>4, <1>6, <1>10
  <2>2. CASE y <= x
    <3>1. c.whole = w /\ c.fraction = f
      BY <1>8, <2>2
    <3> QED
      BY <1>2, <1>3, <1>6, <1>11, <2>1, <2>2, <3>1
  <2>3. CASE x < y /\ w = 0
    <3>1. c.whole = 0 /\ c.fraction = -f
      BY <1>6, <1>8, <2>3
    <3> QED
      BY <1>3, <1>6, <1>11, <2>1, <2>3, <3>1
  <2>4. CASE x < y /\ w # 0
    <3>1. c.whole = -w
      BY <1>8, <2>4
    <3> QED
      BY <1>3, <1>6, <2>1, <2>4, <3>1
  <2> QED
    BY <1>3, <2>2, <2>3, <2>4
<1>19. (RatioLess(c, None) <=> x - y < 0) /\ (RatioLess(None, c) <=> x - y > 0)
  BY <1>3, <1>4, <1>17, <1>18
<1> QED
  BY <1>1, <1>7, <1>13, <1>19

(* The statistics of two reports and the digits asked for.                   *)
AnyStats ==
    \E newer, older \in Words, d, e \in Nat :
        subject = [part |-> "stats", newer |-> newer, older |-> older, digits |-> <<d, e>>]

(* RatiosCorrect: for all statistics of 32 bits whose visited count, times a *)
(* hundred, is still one of 32 bits, and for all digits, stats::calc gives   *)
(* the nearest percentage, and the difference of two percentages and their   *)
(* order are those of their values. The products in uintmax_t that follow    *)
(* the first one have no width here; the code asks for at most two digits,   *)
(* where they are far from theirs.                                           *)
THEOREM RatiosCorrect == AnyStats => RatiosExact
<1> SUFFICES ASSUME NEW s \in Words, NEW t \in Words, NEW d \in Nat, NEW e \in Nat,
                    subject = [part |-> "stats", newer |-> s, older |-> t, digits |-> <<d, e>>]
             PROVE  RatiosExact
  BY DEF AnyStats
<1>1. PICK q, r, c, D : q = Calc(s, d) /\ r = Calc(t, e) /\ c = DiffRatio(q, r) /\ D = MaxDigits(q, r)
  OBVIOUS
<1>2. /\ IsRatio(q, d) /\ IsRatio(r, e)
      /\ 2 * (Exact(q) * s.relevant - s.visited * 100 * Ten(d)) \in -s.relevant..s.relevant
  BY <1>1, CalcIs
<1>3. /\ c.digits = D /\ ValueOf(c) = InUnits(q, D) - InUnits(r, D)
      /\ RatioLess(c, None) <=> ValueOf(c) < 0
      /\ RatioLess(None, c) <=> ValueOf(c) > 0
  BY <1>1, <1>2, DiffIs
<1>4. ValueOf(q) = Exact(q) /\ ValueOf(r) = Exact(r) /\ q.digits = d /\ r.digits = e
  BY <1>2 DEF ValueOf, Exact, Ten, IsRatio
<1>5. /\ RatioLess(q, r) <=> InUnits(q, D) < InUnits(r, D)
      /\ RatioEqual(q, r) <=> InUnits(q, D) = InUnits(r, D)
  BY <1>1, <1>2, RatioOrder
<1>6. InUnits(q, D) \in Nat /\ InUnits(r, D) \in Nat
  <2>1. D \in Nat /\ d <= D /\ e <= D
    BY <1>1, <1>4 DEF MaxDigits
  <2> QED
    BY <1>2, <2>1, RatioUnits
<1>7. (RatioLess(q, r) <=> ValueOf(c) < 0) /\ (RatioEqual(q, r) <=> ValueOf(c) = 0)
  BY <1>3, <1>5, <1>6
<1>8. InUnits(q, D) = ValueOf(q) * Pow10(1, c.digits - q.digits) /\ InUnits(r, D) = ValueOf(r) * Pow10(1, c.digits - r.digits)
  BY <1>3, <1>4 DEF InUnits, Ten
<1>9. subject.newer = s /\ subject.older = t /\ subject.digits[1] = d /\ subject.digits[2] = e
  OBVIOUS
<1>10. 2 * (ValueOf(q) * s.relevant - s.visited * 100 * Pow10(1, q.digits)) \in -s.relevant..s.relevant
  BY <1>2, <1>4 DEF Ten
<1> HIDE DEF None
<1> QED
  BY <1>1, <1>3, <1>7, <1>8, <1>9, <1>10 DEF RatiosExact, None

(***************************************************************************)
(* Runs of null lines: a run holds 31 bits, so a longer gap takes more     *)
(* than one (report.cc, expand_coverage).                                  *)
(***************************************************************************)
(* A run, one of n null lines, the longest first run of n, and the function  *)
(* inside NullRuns.                                                          *)
Run == [value : 0..MaxU31, is_null : BOOLEAN]
Null(n) == [value |-> n, is_null |-> TRUE]
Chunk(n) == IF n < MaxU31 THEN n ELSE MaxU31
Runs ==
    LET runs[n \in 0..MaxU32] ==
          IF n = 0 THEN <<>>
          ELSE LET chunk == IF n < MaxU31 THEN n ELSE MaxU31
               IN  <<[value |-> chunk, is_null |-> TRUE]>> \o runs[n - chunk]
    IN  runs

(* The first run is never empty and never too long.                          *)
LEMMA ChunkIs ==
  ASSUME NEW n \in Nat \ {0}
  PROVE  Chunk(n) \in 1..n /\ Chunk(n) \in 0..MaxU31 /\ n - Chunk(n) \in 0..n - 1 /\ Null(Chunk(n)) \in Run
  BY WidthFacts DEF Chunk, Null, Run

(* NullRuns is what its recursion says, which goes back by a whole run at a  *)
(* time.                                                                     *)
LEMMA RunsIs ==
  /\ NullRuns(0) = <<>>
  /\ \A n \in 0..MaxU32 : NullRuns(n) \in Seq(Run)
  /\ \A n \in 1..MaxU32 : NullRuns(n) = <<Null(Chunk(n))>> \o NullRuns(n - Chunk(n))
<1> DEFINE V == Seq(Run)
           step == [p \in V \X (1..MaxU32) |-> <<Null(Chunk(p[2]))>> \o p[1]]
           back == [i \in 1..MaxU32 |-> i - Chunk(i)]
<1>1. MaxU32 \in Nat
  BY WidthFacts
<1>2. ASSUME NEW n \in 1..MaxU32, NEW s \in V PROVE <<Null(Chunk(n))>> \o s \in V
  <2>1. <<Null(Chunk(n))>> \in Seq(Run)
    BY ChunkIs
  <2> QED
    BY <2>1, ConcatProperties
<1>3. ASSUME NEW n \in 1..MaxU32 PROVE back[n] = n - Chunk(n) /\ back[n] \in 0..n - 1
  BY ChunkIs
<1>4. PICK g \in [0..MaxU32 -> V] : Follows(g, MaxU32, <<>>, step, back)
  <2>1. step \in [V \X (1..MaxU32) -> V]
    <3>1. ASSUME NEW p \in V \X (1..MaxU32) PROVE <<Null(Chunk(p[2]))>> \o p[1] \in V
      <4>1. p[1] \in V /\ p[2] \in 1..MaxU32
        OBVIOUS
      <4> QED
        BY <1>2, <4>1
    <3> QED
      BY <3>1
  <2>2. back \in [1..MaxU32 -> Nat] /\ \A i \in 1..MaxU32 : back[i] < i
    BY <1>3
  <2>3. <<>> \in V
    OBVIOUS
  <2> HIDE DEF step, back, V
  <2> QED
    BY <1>1, <2>1, <2>2, <2>3, Recursion
<1>5. g[0] = <<>> /\ \A n \in 1..MaxU32 : g[n] = <<Null(Chunk(n))>> \o g[n - Chunk(n)]
  <2>1. g[0] = <<>>
    BY <1>4 DEF Follows
  <2>2. ASSUME NEW n \in 1..MaxU32 PROVE g[n] = <<Null(Chunk(n))>> \o g[n - Chunk(n)]
    <3>1. g[n] = step[<<g[back[n]], n>>] /\ back[n] = n - Chunk(n)
      BY <1>3, <1>4 DEF Follows
    <3>2. <<g[back[n]], n>> \in V \X (1..MaxU32)
      <4>1. back[n] \in 0..MaxU32
        BY <1>1, <1>3
      <4> HIDE DEF V, back
      <4>2. g[back[n]] \in V
        BY <1>4, <4>1
      <4> QED
        BY <4>2
    <3>3. step[<<g[back[n]], n>>] = <<Null(Chunk(n))>> \o g[back[n]]
      <4>1. PICK q : q = <<g[back[n]], n>>
        OBVIOUS
      <4>2. q \in V \X (1..MaxU32) /\ q[1] = g[back[n]] /\ q[2] = n
        BY <3>2, <4>1
      <4> HIDE DEF V, back
      <4>3. step[q] = <<Null(Chunk(q[2]))>> \o q[1]
        BY <4>2, Zenon
      <4> QED
        BY <4>1, <4>2, <4>3
    <3> QED
      BY <3>1, <3>3
  <2> QED
    BY <2>1, <2>2
<1>6. g = [n \in 0..MaxU32 |-> IF n = 0 THEN <<>> ELSE <<Null(Chunk(n))>> \o g[n - Chunk(n)]]
  <2>1. g = [n \in 0..MaxU32 |-> g[n]]
    BY <1>4, Zenon
  <2>2. ASSUME NEW n \in 0..MaxU32
        PROVE  g[n] = IF n = 0 THEN <<>> ELSE <<Null(Chunk(n))>> \o g[n - Chunk(n)]
    <3>1. n = 0 \/ n \in 1..MaxU32
      BY <1>1
    <3>2. \A k \in 1..MaxU32 : k # 0
      BY <1>1
    <3> QED
      BY <1>5, <3>1, <3>2, Zenon
  <2> QED
    BY <2>1, <2>2, Zenon
<1>7. Runs = [n \in 0..MaxU32 |-> IF n = 0 THEN <<>> ELSE <<Null(Chunk(n))>> \o Runs[n - Chunk(n)]]
  BY <1>6, Zenon DEF Runs, Null, Chunk
<1>8. \A n \in 0..MaxU32 : NullRuns(n) = Runs[n]
  BY DEF NullRuns, Runs
<1>9. Runs[0] = <<>> /\ \A n \in 1..MaxU32 : Runs[n] = <<Null(Chunk(n))>> \o Runs[n - Chunk(n)]
  <2>1. 0 \in 0..MaxU32
    BY <1>1
  <2>2. Runs[0] = <<>>
    BY <1>7, <2>1, Zenon
  <2>3. ASSUME NEW n \in 1..MaxU32 PROVE Runs[n] = <<Null(Chunk(n))>> \o Runs[n - Chunk(n)]
    <3>1. n \in 0..MaxU32 /\ n # 0
      BY <1>1
    <3> QED
      BY <1>7, <3>1, Zenon
  <2> QED
    BY <2>2, <2>3
<1>10. \A n \in 0..MaxU32 : Runs[n] \in V
  <2> DEFINE S == {n \in 0..MaxU32 : Runs[n] \in V}
  <2>1. ASSUME NEW n \in 0..MaxU32, \A k \in 0..n - 1 : k \in S PROVE n \in S
    <3>1. CASE n = 0
      <4>1. <<>> \in Seq(Run)
        BY EmptySeq
      <4> QED
        BY <1>9, <3>1, <4>1
    <3>2. CASE n # 0
      <4>1. n \in 1..MaxU32
        BY <3>2
      <4>2. n - Chunk(n) \in 0..n - 1
        BY <4>1, ChunkIs
      <4>3. Runs[n - Chunk(n)] \in V
        BY <2>1, <4>2
      <4>4. Runs[n] \in V
        BY <1>2, <1>9, <4>1, <4>3
      <4> QED
        BY <4>4
    <3> QED
      BY <3>1, <3>2
  <2>2. \A n \in 0..MaxU32 : n \in S
    <3> HIDE DEF S
    <3> QED
      BY <1>1, <2>1, AllBelow
  <2> QED
    BY <2>2
<1>11. ASSUME NEW n \in 1..MaxU32 PROVE NullRuns(n) = <<Null(Chunk(n))>> \o NullRuns(n - Chunk(n))
  <2>1. n \in Nat \ {0} /\ n \in 0..MaxU32
    BY <1>1
  <2>2. n - Chunk(n) \in 0..n - 1
    BY <2>1, ChunkIs
  <2>3. PICK m : m = n - Chunk(n)
    OBVIOUS
  <2>4. m \in 0..MaxU32
    BY <1>1, <2>2, <2>3
  <2>5. NullRuns(n) = Runs[n] /\ NullRuns(m) = Runs[m]
    BY <1>8, <2>1, <2>4
  <2>6. Runs[n] = <<Null(Chunk(n))>> \o Runs[m]
    BY <1>9, <2>3
  <2> QED
    BY <2>3, <2>5, <2>6
<1>12. NullRuns(0) = <<>>
  <2>1. 0 \in 0..MaxU32
    BY <1>1
  <2> QED
    BY <1>8, <1>9, <2>1
<1> QED
  BY <1>8, <1>10, <1>11, <1>12

(***************************************************************************)
(* The reader, cvg_info::from_coverage: a line number that wraps, and the  *)
(* lines found.                                                            *)
(***************************************************************************)
(* Its state, its first one, the function inside FromCoverage and its last   *)
(* state.                                                                    *)
Lines == UNION {[D -> 0..MaxU31] : D \in SUBSET (0..MaxU32)}
Reader == [line : 0..MaxU32, lines : Lines]
Nothing == [line |-> 0, lines |-> [l \in {} |-> 0]]
After(coverage) ==
    LET after[i \in 0..Len(coverage)] ==
          IF i = 0 THEN [line |-> 0, lines |-> [l \in {} |-> 0]]
          ELSE ReadRun(after[i - 1], coverage[i])
    IN  after
Read(coverage) == After(coverage)[Len(coverage)]

(* Reading a run keeps the line number within its width and the lines well   *)
(* formed.                                                                   *)
LEMMA ReadRunIs ==
  ASSUME NEW acc \in Reader, NEW c \in Run
  PROVE  ReadRun(acc, c) \in Reader
<1>1. acc.line \in 0..MaxU32 /\ acc.lines \in Lines
  BY DEF Reader
<1>2. c.value \in 0..MaxU31
  BY DEF Run
<1>3. PICK line : line = (acc.line + 1) % U32
  OBVIOUS
<1>4. line \in 0..MaxU32 /\ (acc.line + c.value) % U32 \in 0..MaxU32
  BY <1>1, <1>2, <1>3, WidthFacts DEF MaxU32
<1>5. CASE c.is_null
  <2>1. ReadRun(acc, c) = [acc EXCEPT !.line = (acc.line + c.value) % U32]
    BY <1>5 DEF ReadRun
  <2>2. [acc EXCEPT !.line = (acc.line + c.value) % U32] \in Reader
    BY <1>4 DEF Reader
  <2> QED
    BY <2>1, <2>2
<1>6. CASE ~c.is_null
  <2> DEFINE new == [l \in DOMAIN acc.lines \cup {line} |-> IF l = line THEN c.value ELSE acc.lines[l]]
  <2>1. PICK D \in SUBSET (0..MaxU32) : acc.lines \in [D -> 0..MaxU31]
    BY <1>1 DEF Lines
  <2>2. new \in [D \cup {line} -> 0..MaxU31]
    BY <2>1, <1>2
  <2>3. D \cup {line} \in SUBSET (0..MaxU32)
    BY <1>4
  <2>4. new \in Lines
    BY <2>2, <2>3 DEF Lines
  <2>5. ReadRun(acc, c) = [line |-> line, lines |-> new]
    BY <1>3, <1>6 DEF ReadRun
  <2> HIDE DEF new
  <2> QED
    BY <1>4, <2>4, <2>5 DEF Reader
<1> QED
  BY <1>5, <1>6

(* The first state is one.                                                   *)
LEMMA NothingRead == Nothing \in Reader
<1>1. [l \in {} |-> 0] \in [{} -> 0..MaxU31] /\ {} \in SUBSET (0..MaxU32)
  OBVIOUS
<1>2. [l \in {} |-> 0] \in Lines
  BY <1>1 DEF Lines
<1>3. 0 \in 0..MaxU32
  BY WidthFacts
<1> QED
  BY <1>2, <1>3 DEF Nothing, Reader

(* The reader goes from run to run.                                          *)
LEMMA AfterIs ==
  ASSUME NEW s \in Seq(Run)
  PROVE  /\ After(s)[0] = Nothing
         /\ \A i \in 1..Len(s) : After(s)[i] = ReadRun(After(s)[i - 1], s[i])
         /\ \A i \in 0..Len(s) : After(s)[i] \in Reader
<1> DEFINE N == Len(s)
           step == [p \in Reader \X (1..N) |-> ReadRun(p[1], s[p[2]])]
           back == [i \in 1..N |-> i - 1]
<1>1. N \in Nat /\ \A i \in 1..N : s[i] \in Run
  OBVIOUS
<1> HIDE DEF N
<1>2. PICK g \in [0..N -> Reader] : Follows(g, N, Nothing, step, back)
  <2>1. step \in [Reader \X (1..N) -> Reader]
    <3>1. ASSUME NEW p \in Reader \X (1..N) PROVE ReadRun(p[1], s[p[2]]) \in Reader
      <4>1. p[1] \in Reader /\ s[p[2]] \in Run
        BY <1>1
      <4> QED
        BY <4>1, ReadRunIs
    <3> QED
      BY <3>1
  <2>2. back \in [1..N -> Nat] /\ \A i \in 1..N : back[i] < i
    BY <1>1
  <2> HIDE DEF step, back
  <2> QED
    BY <1>1, <2>1, <2>2, NothingRead, Recursion
<1>3. g[0] = Nothing
  BY <1>2 DEF Follows
<1>4. ASSUME NEW i \in 1..N PROVE g[i] = ReadRun(g[i - 1], s[i])
  <2>1. g[i] = step[<<g[back[i]], i>>] /\ back[i] = i - 1
    BY <1>2 DEF Follows
  <2>2. i - 1 \in 0..N
    BY <1>1
  <2>3. g[i - 1] \in Reader
    BY <1>2, <2>2
  <2>4. <<g[i - 1], i>> \in Reader \X (1..N)
    BY <2>3
  <2>5. step[<<g[i - 1], i>>] = ReadRun(g[i - 1], s[i])
    BY <2>4
  <2> QED
    BY <2>1, <2>5
<1>5. g = [i \in 0..N |-> IF i = 0 THEN Nothing ELSE ReadRun(g[i - 1], s[i])]
  <2>1. ASSUME NEW i \in 0..N PROVE g[i] = IF i = 0 THEN Nothing ELSE ReadRun(g[i - 1], s[i])
    <3>1. i = 0 \/ i \in 1..N
      BY <1>1
    <3> QED
      BY <1>3, <1>4, <3>1
  <2> QED
    BY <1>2, <2>1
<1>6. After(s) = [i \in 0..N |-> IF i = 0 THEN Nothing ELSE ReadRun(After(s)[i - 1], s[i])]
  BY <1>5 DEF After, Nothing, N
<1>7. 0 \in 0..N /\ \A i \in 1..N : i \in 0..N /\ i # 0
  BY <1>1
<1>8. After(s)[0] = Nothing
  BY <1>6, <1>7, Zenon
<1>9. ASSUME NEW i \in 1..N PROVE After(s)[i] = ReadRun(After(s)[i - 1], s[i])
  BY <1>6, <1>7, Zenon
<1>10. \A i \in 0..N : After(s)[i] \in Reader
  <2>1. After(s)[0] \in Reader
    BY <1>8, NothingRead
  <2>2. ASSUME NEW i \in 1..N, After(s)[i - 1] \in Reader PROVE After(s)[i] \in Reader
    BY <1>1, <1>9, <2>2, ReadRunIs
  <2>3. PICK f : f = After(s)
    OBVIOUS
  <2>4. f[0] \in Reader /\ \A i \in 1..N : f[i - 1] \in Reader => f[i] \in Reader
    BY <2>1, <2>2, <2>3
  <2>5. \A i \in 0..N : f[i] \in Reader
    BY <1>1, <2>4, StaysIn
  <2> QED
    BY <2>3, <2>5
<1> QED
  BY <1>8, <1>9, <1>10 DEF N

(* Reading one more run is a step from what was read before it.              *)
LEMMA ReadNext ==
  ASSUME NEW s \in Seq(Run), NEW c \in Run
  PROVE  Read(s \o <<c>>) = ReadRun(Read(s), c)
<1>1. PICK t, N : t = s \o <<c>> /\ N = Len(s)
  OBVIOUS
<1>2. <<c>> \in Seq(Run) /\ Len(<<c>>) = 1 /\ <<c>>[1] = c
  OBVIOUS
<1>3. /\ t \in Seq(Run) /\ Len(t) = N + 1 /\ N \in Nat
      /\ \A i \in 1..N : t[i] = s[i]
      /\ t[N + 1] = c
  <2>1. t \in Seq(Run) /\ Len(t) = N + 1 /\ N \in Nat
    BY <1>1, <1>2, ConcatProperties
  <2>2. \A i \in 1..N + 1 : t[i] = IF i <= N THEN s[i] ELSE <<c>>[i - N]
    BY <1>1, <1>2, ConcatProperties
  <2> QED
    BY <1>2, <2>1, <2>2
<1>4. PICK f, g : f = After(s) /\ g = After(t)
  OBVIOUS
<1>5. f[0] = Nothing /\ \A i \in 1..N : f[i] = ReadRun(f[i - 1], s[i])
  BY <1>1, <1>4, AfterIs
<1>6. g[0] = Nothing /\ \A i \in 1..N + 1 : g[i] = ReadRun(g[i - 1], t[i])
  BY <1>3, <1>4, AfterIs
<1> DEFINE S == {i \in 0..N : g[i] = f[i]}
<1>7. 0 \in S
  BY <1>3, <1>5, <1>6
<1>8. ASSUME NEW i \in 1..N, i - 1 \in S PROVE i \in S
  <2>1. g[i - 1] = f[i - 1] /\ t[i] = s[i] /\ i \in 1..N + 1 /\ i \in 0..N
    BY <1>3, <1>8
  <2> QED
    BY <1>5, <1>6, <2>1
<1>9. N \in S
  <2> HIDE DEF S
  <2>1. \A i \in 0..N : i \in S
    BY <1>3, <1>7, <1>8, UpTo
  <2> QED
    BY <1>3, <2>1
<1>10. g[N + 1] = ReadRun(g[N], c)
  <2>1. N + 1 \in 1..N + 1 /\ N + 1 - 1 = N
    BY <1>3
  <2> QED
    BY <1>3, <1>6, <2>1
<1> QED
  BY <1>1, <1>3, <1>4, <1>9, <1>10 DEF Read

(* FromCoverage gives the lines of the last state.                           *)
LEMMA ReadTyped == \A s \in Seq(Run) : Read(s) \in Reader /\ FromCoverage(s) = Read(s).lines
<1> SUFFICES ASSUME NEW s \in Seq(Run) PROVE Read(s) \in Reader /\ FromCoverage(s) = Read(s).lines
  OBVIOUS
<1>1. Len(s) \in 0..Len(s)
  OBVIOUS
<1> QED
  BY <1>1, AfterIs DEF Read, FromCoverage, After

(* Word arithmetic never wraps more than once. *)
(* What a 32-bit sum or difference is.                                       *)
LEMMA Wraps ==
  ASSUME NEW x \in Int, 0 <= x + U32, x < U32 + U32
  PROVE  x % U32 = IF x < 0 THEN x + U32 ELSE IF x < U32 THEN x ELSE x - U32
<1>1. PICK U : U = U32
  OBVIOUS
<1>2. U \in Nat \ {0}
  BY <1>1, WidthFacts
<1>3. PICK q, r : q = x \div U /\ r = x % U
  OBVIOUS
<1>4. q \in Int /\ r \in 0..U - 1 /\ x = q * U + r
  BY <1>2, <1>3
<1>5. PICK p : p = q * U
  OBVIOUS
<1>6. p \in Int /\ x = p + r
  BY <1>2, <1>4, <1>5
<1>7. q \in {-1, 0, 1}
  <2>1. CASE q >= 2
    <3>1. p >= U + U
      BY <1>2, <1>4, <1>5, <2>1
    <3> QED
      BY <1>1, <1>2, <1>4, <1>6, <3>1
  <2>2. CASE q <= -2
    <3>1. p <= -(U + U)
      BY <1>2, <1>4, <1>5, <2>2
    <3> QED
      BY <1>1, <1>2, <1>4, <1>6, <3>1
  <2> QED
    BY <1>4, <2>1, <2>2
<1>8. p \in {-U, 0, U}
  BY <1>2, <1>5, <1>7
<1> QED
  BY <1>1, <1>2, <1>3, <1>4, <1>6, <1>8

(* Two steps over null lines are one, wrapped or not.                        *)
LEMMA WrapSum ==
  ASSUME NEW a \in 0..MaxU32, NEW k \in 0..MaxU32, NEW c \in 0..k
  PROVE  (((a + c) % U32) + (k - c)) % U32 = (a + k) % U32
<1>1. MaxU32 \in Nat /\ U32 \in Nat /\ U32 = MaxU32 + 1
  BY WidthFacts DEF MaxU32
<1>2. PICK x, y : x = a + c /\ y = a + k
  OBVIOUS
<1>3. x \in Int /\ 0 <= x /\ x <= y /\ y \in Int /\ y < U32 + U32
  BY <1>1, <1>2
<1>4. x % U32 = (IF x < U32 THEN x ELSE x - U32) /\ y % U32 = IF y < U32 THEN y ELSE y - U32
  <2>1. 0 <= x + U32 /\ 0 <= y + U32 /\ x < U32 + U32 /\ ~(x < 0) /\ ~(y < 0)
    BY <1>1, <1>3
  <2>2. x % U32 = IF x < 0 THEN x + U32 ELSE IF x < U32 THEN x ELSE x - U32
    BY <1>3, <2>1, Wraps
  <2>3. y % U32 = IF y < 0 THEN y + U32 ELSE IF y < U32 THEN y ELSE y - U32
    BY <1>3, <2>1, Wraps
  <2> QED
    BY <2>1, <2>2, <2>3
<1>5. PICK z : z = (x % U32) + (k - c)
  OBVIOUS
<1>6. z \in Int /\ z = IF x < U32 THEN y ELSE y - U32
  BY <1>1, <1>2, <1>3, <1>4, <1>5
<1>7. 0 <= z /\ z < U32 + U32
  BY <1>1, <1>3, <1>6
<1>8. z % U32 = IF z < U32 THEN z ELSE z - U32
  <2>1. 0 <= z + U32 /\ ~(z < 0)
    BY <1>1, <1>6, <1>7
  <2>2. z % U32 = IF z < 0 THEN z + U32 ELSE IF z < U32 THEN z ELSE z - U32
    BY <1>6, <1>7, <2>1, Wraps
  <2> QED
    BY <2>1, <2>2
<1>9. z % U32 = y % U32
  BY <1>1, <1>3, <1>4, <1>6, <1>8
<1> QED
  BY <1>2, <1>5, <1>9

(* Null runs, however many they take, move the reader over that many lines   *)
(* and leave what it found alone.                                            *)
LEMMA ReadNulls ==
  ASSUME NEW n \in 0..MaxU32
  PROVE  \A s \in Seq(Run) :
            Read(s \o NullRuns(n)) = [line |-> (Read(s).line + n) % U32, lines |-> Read(s).lines]
<1> DEFINE Skip(s, k) == [line |-> (Read(s).line + k) % U32, lines |-> Read(s).lines]
           S == {k \in 0..MaxU32 : \A s \in Seq(Run) : Read(s \o NullRuns(k)) = Skip(s, k)}
<1>1. MaxU32 \in Nat /\ U32 \in Nat /\ U32 = MaxU32 + 1
  BY WidthFacts DEF MaxU32
<1>2. ASSUME NEW k \in 0..MaxU32, \A j \in 0..k - 1 : j \in S PROVE k \in S
  <2> SUFFICES ASSUME NEW s \in Seq(Run) PROVE Read(s \o NullRuns(k)) = Skip(s, k)
    OBVIOUS
  <2>1. Read(s) \in Reader
    BY ReadTyped
  <2>2. PICK a, l : a = Read(s).line /\ l = Read(s).lines
    OBVIOUS
  <2>3. a \in 0..MaxU32 /\ Read(s) = [line |-> a, lines |-> l]
    BY <2>1, <2>2 DEF Reader
  <2>4. CASE k = 0
    <3>1. s \o NullRuns(k) = s
      BY <2>4, RunsIs, ConcatEmptySeq
    <3>2. a % U32 = a /\ a + 0 = a
      BY <1>1, <2>3, Wraps
    <3> QED
      BY <2>2, <2>3, <2>4, <3>1, <3>2
  <2>5. CASE k # 0
    <3>1. k \in 1..MaxU32 /\ k \in Nat \ {0}
      BY <2>5
    <3>2. PICK c, m : c = Chunk(k) /\ m = k - c
      OBVIOUS
    <3>3. c \in 1..k /\ c \in 0..MaxU31 /\ m \in 0..k - 1 /\ Null(c) \in Run /\ m \in 0..MaxU32
      BY <1>1, <3>1, <3>2, ChunkIs
    <3>4. NullRuns(k) = <<Null(c)>> \o NullRuns(m) /\ NullRuns(m) \in Seq(Run)
      BY <3>1, <3>2, <3>3, RunsIs
    <3>5. PICK t : t = s \o <<Null(c)>>
      OBVIOUS
    <3>6. <<Null(c)>> \in Seq(Run)
      BY <3>3
    <3>7. t \in Seq(Run) /\ s \o NullRuns(k) = t \o NullRuns(m)
      <4>1. t \in Seq(Run)
        BY <3>5, <3>6, ConcatProperties
      <4>2. (s \o <<Null(c)>>) \o NullRuns(m) = s \o (<<Null(c)>> \o NullRuns(m))
        BY <3>4, <3>6, ConcatAssociative
      <4> QED
        BY <3>4, <3>5, <4>1, <4>2
    <3>8. Read(t) = [line |-> (a + c) % U32, lines |-> l]
      <4>1. Read(t) = ReadRun(Read(s), Null(c))
        BY <3>3, <3>5, ReadNext
      <4>2. ReadRun([line |-> a, lines |-> l], Null(c)) = [line |-> (a + c) % U32, lines |-> l]
        BY DEF ReadRun, Null
      <4> QED
        BY <2>3, <4>1, <4>2
    <3>9. Read(t \o NullRuns(m)) = [line |-> (((a + c) % U32) + m) % U32, lines |-> l]
      <4>1. m \in S
        BY <1>2, <3>3
      <4>2. Read(t \o NullRuns(m)) = Skip(t, m)
        BY <4>1, <3>7
      <4> QED
        BY <3>8, <4>2
    <3>10. (((a + c) % U32) + m) % U32 = (a + k) % U32
      <4>1. c \in 0..k
        BY <3>1, <3>3
      <4>2. (((a + c) % U32) + (k - c)) % U32 = (a + k) % U32
        BY <2>3, <4>1, WrapSum
      <4> QED
        BY <3>2, <4>2
    <3> QED
      BY <2>2, <3>7, <3>9, <3>10
  <2> QED
    BY <2>4, <2>5
<1>3. n \in S
  <2> HIDE DEF S
  <2> QED
    BY <1>1, <1>2, AllBelow
<1> QED
  BY <1>3

(***************************************************************************)
(* Elements in order, as a std::map gives them: an element's rank is the   *)
(* number of smaller ones.  The order is a set of pairs here.              *)
(***************************************************************************)
StrictOrder(R, S) ==
    /\ \A x \in S : <<x, x>> \notin R
    /\ \A x, y, z \in S : <<x, y>> \in R /\ <<y, z>> \in R => <<x, z>> \in R
    /\ \A x, y \in S : x = y \/ <<x, y>> \in R \/ <<y, x>> \in R
Rank(S, R, x) == Cardinality({y \in S : <<y, x>> \in R})

(* Ranks are below the number of elements, and grow with the elements.       *)
LEMMA RankIs ==
  ASSUME NEW S, NEW R, IsFiniteSet(S), StrictOrder(R, S), NEW x \in S
  PROVE  /\ Rank(S, R, x) \in 0..Cardinality(S) - 1
         /\ \A y \in S : <<x, y>> \in R => Rank(S, R, x) < Rank(S, R, y)
<1> DEFINE Below(z) == {y \in S : <<y, z>> \in R}
<1>1. ASSUME NEW z \in S PROVE IsFiniteSet(Below(z)) /\ Cardinality(Below(z)) \in Nat
  BY FS_Subset, FS_CardinalityType
<1>2. Cardinality(Below(x)) < Cardinality(S)
  <2>1. Below(x) \in SUBSET S /\ x \in S /\ x \notin Below(x)
    BY DEF StrictOrder
  <2>2. Cardinality(Below(x)) <= Cardinality(S) /\ Cardinality(Below(x)) # Cardinality(S)
    <3> HIDE DEF Below
    <3> QED
      BY <2>1, FS_Subset
  <2>3. Cardinality(S) \in Nat
    BY FS_CardinalityType
  <2> QED
    BY <1>1, <2>2, <2>3
<1>3. ASSUME NEW y \in S, <<x, y>> \in R PROVE Cardinality(Below(x)) < Cardinality(Below(y))
  <2>1. Below(x) \in SUBSET Below(y) /\ x \in Below(y) /\ x \notin Below(x)
    BY <1>3 DEF StrictOrder
  <2>2. /\ Cardinality(Below(x)) <= Cardinality(Below(y))
        /\ Cardinality(Below(x)) # Cardinality(Below(y))
    <3>1. IsFiniteSet(Below(y))
      BY <1>1
    <3> HIDE DEF Below
    <3> QED
      BY <2>1, <3>1, FS_Subset
  <2> QED
    BY <1>1, <2>2
<1>4. Cardinality(S) \in Nat
  BY FS_CardinalityType
<1>5. Rank(S, R, x) \in 0..Cardinality(S) - 1
  <2> HIDE DEF Below
  <2>1. Rank(S, R, x) = Cardinality(Below(x))
    BY DEF Rank, Below
  <2> QED
    BY <1>1, <1>2, <1>4, <2>1
<1>6. ASSUME NEW y \in S, <<x, y>> \in R PROVE Rank(S, R, x) < Rank(S, R, y)
  BY <1>3, <1>6 DEF Rank
<1> QED
  BY <1>5, <1>6

(* So each place has its element, and each element a place of its own.       *)
EachPlace(S, R) == \A i \in 1..Cardinality(S) : \E x \in S : Rank(S, R, x) = i - 1

LEMMA Placed ==
  ASSUME NEW S, NEW R, IsFiniteSet(S), StrictOrder(R, S)
  PROVE  /\ Cardinality(S) \in Nat
         /\ EachPlace(S, R)
         /\ \A x, y \in S : Rank(S, R, x) = Rank(S, R, y) => x = y
<1> DEFINE rank(x) == Rank(S, R, x)
<1>1. PICK N : N = Cardinality(S)
  OBVIOUS
<1>2. N \in Nat
  BY <1>1, FS_CardinalityType
<1>3. \A x \in S : rank(x) \in 0..N - 1
  BY <1>1, RankIs
<1>4. ASSUME NEW x \in S, NEW y \in S, <<x, y>> \in R PROVE rank(x) < rank(y)
  BY <1>4, RankIs
<1> HIDE DEF rank
<1>5. ASSUME NEW x \in S, NEW y \in S, rank(x) = rank(y) PROVE x = y
  <2>1. rank(x) \in Int /\ rank(y) \in Int
    BY <1>3
  <2>2. <<x, y>> \notin R /\ <<y, x>> \notin R
    BY <1>4, <1>5, <2>1
  <2> QED
    BY <2>2 DEF StrictOrder
<1>6. ASSUME NEW i \in 1..N PROVE \E x \in S : rank(x) = i - 1
  <2> DEFINE f == [x \in S |-> rank(x)]
  <2>1. f \in [S -> 0..N - 1]
    BY <1>3
  <2>2. f \in Injection(S, 0..N - 1)
    BY <2>1, <1>5 DEF Injection, IsInjective
  <2>3. IsFiniteSet(0..N - 1) /\ Cardinality(0..N - 1) = N
    BY <1>2, FS_Interval
  <2>4. f \in Surjection(S, 0..N - 1)
    <3> HIDE DEF f
    <3> QED
      BY <1>1, <2>2, <2>3, FS_Injection
  <2>5. i - 1 \in 0..N - 1
    BY <1>2
  <2>6. PICK x \in S : f[x] = i - 1
    BY <2>4, <2>5 DEF Surjection
  <2> QED
    BY <2>6
<1> QED
  BY <1>1, <1>2, <1>5, <1>6 DEF rank, EachPlace

(* A list with each element at its place is in order, and has them all.      *)
EachAtRank(S, R, L) ==
    /\ L \in [1..Cardinality(S) -> S]
    /\ \A i \in 1..Cardinality(S) : Rank(S, R, L[i]) = i - 1
AllInOrder(S, R, L) ==
    /\ L \in Seq(S) /\ Len(L) = Cardinality(S) /\ Cardinality(S) \in Nat
    /\ \A i, j \in 1..Cardinality(S) : i < j => <<L[i], L[j]>> \in R
    /\ \A x \in S : \E i \in 1..Cardinality(S) : L[i] = x

LEMMA InPlace ==
  ASSUME NEW S, NEW R, IsFiniteSet(S), StrictOrder(R, S), NEW L, EachAtRank(S, R, L)
  PROVE  AllInOrder(S, R, L)
<1> DEFINE rank(x) == Rank(S, R, x)
<1>1. PICK N : N = Cardinality(S)
  OBVIOUS
<1>2. N \in Nat /\ \A x, y \in S : rank(x) = rank(y) => x = y
  BY <1>1, Placed
<1>3. \A x \in S : rank(x) \in 0..N - 1
  BY <1>1, RankIs
<1>4. ASSUME NEW x \in S, NEW y \in S, <<x, y>> \in R PROVE rank(x) < rank(y)
  BY <1>4, RankIs
<1>5. ASSUME NEW i \in 1..N PROVE L[i] \in S /\ rank(L[i]) = i - 1
  BY <1>1 DEF EachAtRank
<1> HIDE DEF rank
<1>6. L \in Seq(S) /\ Len(L) = N
  BY <1>1, <1>2 DEF EachAtRank
<1>7. ASSUME NEW i \in 1..N, NEW j \in 1..N, i < j PROVE <<L[i], L[j]>> \in R
  <2>1. L[i] \in S /\ L[j] \in S /\ rank(L[i]) = i - 1 /\ rank(L[j]) = j - 1
    BY <1>5
  <2>2. ~(rank(L[j]) < rank(L[i])) /\ rank(L[i]) # rank(L[j])
    BY <1>7, <2>1
  <2> QED
    BY <1>4, <2>1, <2>2 DEF StrictOrder
<1>8. ASSUME NEW x \in S PROVE \E i \in 1..N : L[i] = x
  <2>1. PICK i : i = rank(x) + 1
    OBVIOUS
  <2>2. i \in 1..N /\ i - 1 = rank(x)
    BY <1>2, <1>3, <2>1
  <2> QED
    BY <1>2, <1>5, <2>2
<1> QED
  BY <1>1, <1>2, <1>6, <1>7, <1>8 DEF AllInOrder

(* Numbers: Sorted gives each line once, in increasing order.                *)
InOrder(D) == Sorted(D, LAMBDA a, b : a < b)

LEMMA InOrderIs ==
  ASSUME NEW D \in SUBSET Int, IsFiniteSet(D)
  PROVE  /\ InOrder(D) \in Seq(D) /\ Len(InOrder(D)) = Cardinality(D) /\ Cardinality(D) \in Nat
         /\ \A i, j \in 1..Cardinality(D) : i < j => InOrder(D)[i] < InOrder(D)[j]
         /\ \A x \in D : \E i \in 1..Cardinality(D) : InOrder(D)[i] = x
<1> DEFINE R == {p \in D \X D : p[1] < p[2]}
<1>1. \A x, y \in D : <<x, y>> \in R <=> x < y
  OBVIOUS
<1>2. StrictOrder(R, D)
  <2> HIDE DEF R
  <2> QED
    BY <1>1 DEF StrictOrder
<1>3. /\ InOrder(D) \in [1..Cardinality(D) -> D]
      /\ \A i \in 1..Cardinality(D) : Rank(D, R, InOrder(D)[i]) = i - 1
  <2>1. ASSUME NEW x \in D PROVE Rank(D, R, x) = Cardinality({y \in D : y < x})
    <3>1. {y \in D : y < x} = {y \in D : <<y, x>> \in R}
      BY <1>1
    <3> HIDE DEF R
    <3> QED
      BY <3>1 DEF Rank
  <2>2. \A i \in 1..Cardinality(D) : \E x \in D : Rank(D, R, x) = i - 1
    <3>1. PICK r : r = R
      OBVIOUS
    <3> HIDE DEF R
    <3>2. StrictOrder(r, D)
      BY <1>2, <3>1, Zenon
    <3>3. EachPlace(D, r)
      BY <3>2, Placed, Zenon
    <3> QED
      BY <3>1, <3>3, Zenon DEF EachPlace
  <2> DEFINE below(x) == Cardinality({y \in D : y < x})
  <2>3. InOrder(D) = [i \in 1..Cardinality(D) |-> CHOOSE x \in D : below(x) = i - 1]
    BY DEF InOrder, Sorted
  <2> HIDE DEF R, below
  <2>4. \A x \in D : Rank(D, R, x) = below(x)
    BY <2>1 DEF below
  <2> QED
    BY <2>2, <2>3, <2>4
<1>4. AllInOrder(D, R, InOrder(D))
  <2>1. EachAtRank(D, R, InOrder(D))
    BY <1>3 DEF EachAtRank
  <2> HIDE DEF R
  <2> QED
    BY <1>2, <2>1, InPlace
<1>5. /\ InOrder(D) \in Seq(D) /\ Len(InOrder(D)) = Cardinality(D) /\ Cardinality(D) \in Nat
      /\ \A i, j \in 1..Cardinality(D) : i < j => <<InOrder(D)[i], InOrder(D)[j]>> \in R
      /\ \A x \in D : \E i \in 1..Cardinality(D) : InOrder(D)[i] = x
  BY <1>4 DEF AllInOrder
<1>6. \A i \in 1..Cardinality(D) : InOrder(D)[i] \in D
  BY <1>5
<1> QED
  BY <1>1, <1>5, <1>6

(* Tuples of one length, compared member by member: a strict order too.      *)
TuplesInOrder(S) == Sorted(S, TupleLess)

LEMMA TuplesInOrderIs ==
  ASSUME NEW n \in Nat, NEW S \in SUBSET [1..n -> Int], IsFiniteSet(S)
  PROVE  /\ TuplesInOrder(S) \in Seq(S) /\ Len(TuplesInOrder(S)) = Cardinality(S)
         /\ Cardinality(S) \in Nat
         /\ \A i, j \in 1..Cardinality(S) : i # j => TuplesInOrder(S)[i] # TuplesInOrder(S)[j]
         /\ \A x \in S : \E i \in 1..Cardinality(S) : TuplesInOrder(S)[i] = x
<1> DEFINE Less(a, b) == \E i \in 1..n : a[i] < b[i] /\ \A j \in 1..i - 1 : a[j] = b[j]
           R == {p \in S \X S : Less(p[1], p[2])}
<1>1. ASSUME NEW a \in S, NEW b \in S PROVE TupleLess(a, b) <=> Less(a, b)
  <2>1. Len(a) = n /\ Len(b) = n
    OBVIOUS
  <2>2. TupleLess(a, b) <=>
          \E i \in 1..n : /\ i <= n + 1
                          /\ \A j \in 1..i - 1 : a[j] = b[j]
                          /\ i <= n => a[i] < b[i]
    BY <2>1 DEF TupleLess
  <2>3. \A i \in 1..n : i <= n + 1 /\ i <= n
    OBVIOUS
  <2> QED
    BY <2>2, <2>3
<1>2. \A a \in S : \A i \in 1..n : a[i] \in Int
  OBVIOUS
<1>3. ASSUME NEW a \in S PROVE ~Less(a, a)
  BY <1>2
<1>4. ASSUME NEW a \in S, NEW b \in S, NEW c \in S, Less(a, b), Less(b, c) PROVE Less(a, c)
  <2>1. PICK i \in 1..n : a[i] < b[i] /\ \A j \in 1..i - 1 : a[j] = b[j]
    BY <1>4
  <2>2. PICK k \in 1..n : b[k] < c[k] /\ \A j \in 1..k - 1 : b[j] = c[j]
    BY <1>4
  <2>3. CASE i <= k
    <3>1. a[i] < c[i]
      <4>1. b[i] <= c[i]
        BY <1>2, <2>2, <2>3
      <4> QED
        BY <1>2, <2>1, <4>1
    <3>2. \A j \in 1..i - 1 : a[j] = c[j]
      BY <2>1, <2>2, <2>3
    <3> QED
      BY <3>1, <3>2
  <2>4. CASE k < i
    <3>1. a[k] < c[k]
      BY <1>2, <2>1, <2>2, <2>4
    <3>2. \A j \in 1..k - 1 : a[j] = c[j]
      BY <2>1, <2>2, <2>4
    <3> QED
      BY <3>1, <3>2
  <2> QED
    BY <2>3, <2>4
<1>5. ASSUME NEW a \in S, NEW b \in S, a # b PROVE Less(a, b) \/ Less(b, a)
  <2> DEFINE differ == {i \in 1..n : a[i] # b[i]}
  <2>1. PICK k \in 1..n : a[k] # b[k]
    BY <1>5
  <2>2. PICK m \in differ : \A i \in differ : m <= i
    <3>1. differ \in SUBSET Nat /\ k \in differ
      BY <2>1
    <3> HIDE DEF differ
    <3> QED
      BY <3>1, Least
  <2>3. m \in 1..n /\ a[m] # b[m] /\ \A j \in 1..m - 1 : a[j] = b[j]
    <3>1. m \in 1..n /\ a[m] # b[m]
      BY <2>2
    <3>2. ASSUME NEW j \in 1..m - 1 PROVE a[j] = b[j]
      BY <2>2, <3>1
    <3> QED
      BY <3>1, <3>2
  <2>4. a[m] < b[m] \/ b[m] < a[m]
    BY <1>2, <2>3
  <2> QED
    BY <2>3, <2>4
<1>6. \A x, y \in S : <<x, y>> \in R <=> Less(x, y)
  OBVIOUS
<1>7. StrictOrder(R, S)
  <2> HIDE DEF R, Less
  <2> QED
    BY <1>3, <1>4, <1>5, <1>6 DEF StrictOrder
<1>8. /\ TuplesInOrder(S) \in [1..Cardinality(S) -> S]
      /\ \A i \in 1..Cardinality(S) : Rank(S, R, TuplesInOrder(S)[i]) = i - 1
  <2> DEFINE below(x) == Cardinality({y \in S : TupleLess(y, x)})
  <2>1. ASSUME NEW x \in S PROVE Rank(S, R, x) = below(x)
    <3>1. {y \in S : TupleLess(y, x)} = {y \in S : <<y, x>> \in R}
      <4> HIDE DEF R, Less
      <4> QED
        BY <1>1, <1>6
    <3> HIDE DEF R
    <3> QED
      BY <3>1 DEF Rank
  <2>2. \A i \in 1..Cardinality(S) : \E x \in S : Rank(S, R, x) = i - 1
    <3>1. PICK r : r = R
      OBVIOUS
    <3> HIDE DEF R
    <3>2. StrictOrder(r, S)
      BY <1>7, <3>1, Zenon
    <3>3. EachPlace(S, r)
      BY <3>2, Placed, Zenon
    <3> QED
      BY <3>1, <3>3, Zenon DEF EachPlace
  <2>3. TuplesInOrder(S) = [i \in 1..Cardinality(S) |-> CHOOSE x \in S : below(x) = i - 1]
    BY DEF TuplesInOrder, Sorted
  <2> HIDE DEF R, below
  <2> QED
    BY <2>1, <2>2, <2>3
<1>9. PICK L, N : L = TuplesInOrder(S) /\ N = Cardinality(S)
  OBVIOUS
<1>10. /\ L \in Seq(S) /\ Len(L) = N /\ N \in Nat
       /\ \A i, j \in 1..N : i < j => <<L[i], L[j]>> \in R
       /\ \A x \in S : \E i \in 1..N : L[i] = x
  <2>1. EachAtRank(S, R, L)
    BY <1>8, <1>9 DEF EachAtRank
  <2> HIDE DEF R
  <2>2. AllInOrder(S, R, L)
    BY <1>7, <2>1, InPlace
  <2> QED
    BY <1>9, <2>2 DEF AllInOrder
<1>11. ASSUME NEW i \in 1..N, NEW j \in 1..N, i # j PROVE L[i] # L[j]
  <2>1. i < j \/ j < i
    BY <1>10, <1>11
  <2>2. L[i] \in S /\ L[j] \in S
    BY <1>10
  <2> HIDE DEF R
  <2> QED
    BY <1>7, <1>10, <2>1, <2>2 DEF StrictOrder
<1> HIDE DEF R
<1> QED
  BY <1>9, <1>10, <1>11

(***************************************************************************)
(* What the statistics count: the runs that are not null, and the visited  *)
(* ones of these.                                                          *)
(***************************************************************************)
Relevant(s) == {i \in DOMAIN s : ~s[i].is_null}
Visited(s) == {i \in Relevant(s) : s[i].value # 0}

(* NullRuns gives nothing else.                                              *)
LEMMA AllNull ==
  ASSUME NEW n \in 0..MaxU32
  PROVE  \A i \in 1..Len(NullRuns(n)) : NullRuns(n)[i].is_null
<1> DEFINE S == {k \in 0..MaxU32 : \A i \in 1..Len(NullRuns(k)) : NullRuns(k)[i].is_null}
<1>1. MaxU32 \in Nat
  BY WidthFacts
<1>2. ASSUME NEW k \in 0..MaxU32, \A j \in 0..k - 1 : j \in S PROVE k \in S
  <2>1. CASE k = 0
    <3>1. NullRuns(k) = <<>>
      BY <2>1, RunsIs
    <3> QED
      BY <3>1
  <2>2. CASE k # 0
    <3>1. k \in 1..MaxU32 /\ k \in Nat \ {0}
      BY <2>2
    <3>2. PICK c, m : c = Chunk(k) /\ m = k - c
      OBVIOUS
    <3>3. m \in 0..k - 1 /\ m \in 0..MaxU32 /\ Null(c) \in Run
      BY <1>1, <3>1, <3>2, ChunkIs
    <3>4. NullRuns(k) = <<Null(c)>> \o NullRuns(m) /\ NullRuns(m) \in Seq(Run)
      BY <3>1, <3>2, <3>3, RunsIs
    <3>5. PICK s, t : s = NullRuns(k) /\ t = NullRuns(m)
      OBVIOUS
    <3>6. <<Null(c)>> \in Seq(Run) /\ Len(<<Null(c)>>) = 1 /\ <<Null(c)>>[1] = Null(c)
      BY <3>3
    <3>7. /\ Len(s) = 1 + Len(t) /\ Len(t) \in Nat
          /\ \A i \in 1..1 + Len(t) : s[i] = IF i <= 1 THEN <<Null(c)>>[i] ELSE t[i - 1]
      BY <3>4, <3>5, <3>6, ConcatProperties
    <3>8. \A i \in 1..Len(t) : t[i].is_null
      BY <1>2, <3>3, <3>5
    <3>9. ASSUME NEW i \in 1..Len(s) PROVE s[i].is_null
      <4>1. CASE i = 1
        <5>1. s[i] = Null(c)
          BY <3>6, <3>7, <4>1
        <5> QED
          BY <5>1 DEF Null
      <4>2. CASE i # 1
        <5>1. i - 1 \in 1..Len(t) /\ s[i] = t[i - 1]
          BY <3>7, <4>2
        <5> QED
          BY <3>8, <5>1
      <4> QED
        BY <4>1, <4>2
    <3> QED
      BY <3>5, <3>9
  <2> QED
    BY <2>1, <2>2
<1>3. n \in S
  <2> HIDE DEF S
  <2> QED
    BY <1>1, <1>2, AllBelow
<1> QED
  BY <1>3

(* Null runs change no count.                                                *)
LEMMA NullsUncounted ==
  ASSUME NEW s \in Seq(Run), NEW t \in Seq(Run), \A i \in 1..Len(t) : t[i].is_null
  PROVE  Relevant(s \o t) = Relevant(s) /\ Visited(s \o t) = Visited(s)
<1>1. PICK u, M, N : u = s \o t /\ M = Len(s) /\ N = Len(t)
  OBVIOUS
<1>2. M \in Nat /\ N \in Nat /\ DOMAIN s = 1..M /\ DOMAIN u = 1..M + N
  <2>1. u \in Seq(Run) /\ Len(u) = M + N
    BY <1>1, ConcatProperties
  <2> QED
    BY <1>1, <2>1, LenProperties
<1>3. \A i \in 1..M + N : u[i] = IF i <= M THEN s[i] ELSE t[i - M]
  BY <1>1, ConcatProperties
<1>4. ASSUME NEW i \in 1..M + N, ~(i <= M) PROVE u[i].is_null
  <2>1. i - M \in 1..N
    BY <1>2, <1>4
  <2> QED
    BY <1>1, <1>3, <1>4, <2>1
<1>5. \A i \in 1..M : i \in 1..M + N /\ u[i] = s[i]
  BY <1>2, <1>3
<1>6. \A i \in 1..M + N : i <= M => i \in 1..M
  BY <1>2
<1>7. Relevant(u) = Relevant(s)
  BY <1>2, <1>4, <1>5, <1>6 DEF Relevant
<1>8. \A i \in Relevant(s) : u[i] = s[i]
  BY <1>2, <1>5 DEF Relevant
<1> QED
  BY <1>1, <1>7, <1>8 DEF Visited

(* The run of a line adds one to the relevant, and to the visited if it was  *)
(* hit.                                                                      *)
LEMMA OneCounted ==
  ASSUME NEW s \in Seq(Run), NEW c \in Run, ~c.is_null
  PROVE  /\ Relevant(s \o <<c>>) = Relevant(s) \cup {Len(s) + 1}
         /\ Visited(s \o <<c>>) = Visited(s) \cup (IF c.value = 0 THEN {} ELSE {Len(s) + 1})
         /\ IsFiniteSet(Relevant(s)) /\ IsFiniteSet(Visited(s))
         /\ Len(s) + 1 \notin Relevant(s) /\ Len(s) + 1 \notin Visited(s)
<1>1. PICK u, M : u = s \o <<c>> /\ M = Len(s)
  OBVIOUS
<1>2. <<c>> \in Seq(Run) /\ Len(<<c>>) = 1 /\ <<c>>[1] = c
  OBVIOUS
<1>3. M \in Nat /\ DOMAIN s = 1..M /\ DOMAIN u = 1..M + 1
  <2>1. u \in Seq(Run) /\ Len(u) = M + 1
    BY <1>1, <1>2, ConcatProperties
  <2> QED
    BY <1>1, <2>1, LenProperties
<1>4. \A i \in 1..M + 1 : u[i] = IF i <= M THEN s[i] ELSE <<c>>[i - M]
  BY <1>1, <1>2, ConcatProperties
<1>5. (\A i \in 1..M : u[i] = s[i]) /\ u[M + 1] = c
  BY <1>2, <1>3, <1>4
<1>6. 1..M + 1 = 1..M \cup {M + 1} /\ M + 1 \notin 1..M
  BY <1>3
<1>7. Relevant(u) = Relevant(s) \cup {M + 1}
  BY <1>3, <1>5, <1>6 DEF Relevant
<1>8. \A i \in Relevant(s) : u[i] = s[i]
  BY <1>3, <1>5 DEF Relevant
<1>9. Visited(u) = Visited(s) \cup (IF c.value = 0 THEN {} ELSE {M + 1})
  BY <1>5, <1>7, <1>8 DEF Visited
<1>10. Relevant(s) \in SUBSET (1..M) /\ Visited(s) \in SUBSET (1..M)
  BY <1>3 DEF Relevant, Visited
<1>11. IsFiniteSet(1..M)
  BY <1>3, FS_Interval
<1>12. IsFiniteSet(Relevant(s)) /\ IsFiniteSet(Visited(s))
  BY <1>10, <1>11, FS_Subset
<1> QED
  BY <1>1, <1>6, <1>7, <1>9, <1>10, <1>12

(***************************************************************************)
(* The writer, expand_coverage: for each line in order the null runs of    *)
(* the gap before it, and its hits.                                        *)
(***************************************************************************)
(* Its state, its first one, the function inside VisitAll, and hits cut down *)
(* to 31 bits.                                                               *)
Writer == [out : Seq(Run), prev : 0..MaxU32]
Start == [out |-> <<>>, prev |-> 0]
Walk(lc, lines) ==
    LET after[i \in 0..Len(lines)] ==
          IF i = 0 THEN [out |-> <<>>, prev |-> 0]
          ELSE VisitLine(after[i - 1], lines[i], lc[lines[i]])
    IN  after
Clip(n) == IF n > MaxU31 THEN MaxU31 ELSE n

(* The gap the writer finds leads the reader to the line, in 32-bit          *)
(* arithmetic.                                                               *)
LEMMA Gap ==
  ASSUME NEW p \in 0..MaxU32, NEW a \in 0..MaxU32, NEW n, n = (a - p - 1) % U32
  PROVE  n \in 0..MaxU32 /\ (((p + n) % U32) + 1) % U32 = a
<1>1. MaxU32 \in Nat /\ U32 \in Nat /\ U32 = MaxU32 + 1
  BY WidthFacts DEF MaxU32
<1>2. PICK x : x = a - p - 1
  OBVIOUS
<1>3. x \in Int /\ 0 <= x + U32 /\ x < U32 /\ x < U32 + U32
  BY <1>1, <1>2
<1>4. x % U32 = IF x < 0 THEN x + U32 ELSE IF x < U32 THEN x ELSE x - U32
  BY <1>3, Wraps
<1>5. n = (IF x < 0 THEN x + U32 ELSE x) /\ n \in 0..MaxU32
  BY <1>1, <1>2, <1>3, <1>4
<1>6. PICK y : y = p + n
  OBVIOUS
<1>7. y \in Int /\ 0 <= y + U32 /\ ~(y < 0) /\ y < U32 + U32
  BY <1>1, <1>5, <1>6
<1>8. y % U32 = IF y < 0 THEN y + U32 ELSE IF y < U32 THEN y ELSE y - U32
  BY <1>7, Wraps
<1>9. y = IF x < 0 THEN a - 1 + U32 ELSE a - 1
  BY <1>1, <1>2, <1>5, <1>6
<1>10. y % U32 = IF a = 0 THEN U32 - 1 ELSE a - 1
  BY <1>1, <1>2, <1>3, <1>7, <1>8, <1>9
<1>11. PICK z : z = (y % U32) + 1
  OBVIOUS
<1>12. z = (IF a = 0 THEN U32 ELSE a) /\ z \in Int /\ 0 <= z + U32 /\ ~(z < 0) /\ z < U32 + U32
  BY <1>1, <1>10, <1>11
<1>13. z % U32 = IF z < 0 THEN z + U32 ELSE IF z < U32 THEN z ELSE z - U32
  BY <1>12, Wraps
<1>14. z % U32 = a
  BY <1>1, <1>12, <1>13
<1> QED
  BY <1>5, <1>6, <1>11, <1>14

(* A hit line stays hit when its count is cut down.                          *)
LEMMA HitsIs ==
  ASSUME NEW n \in Nat
  PROVE  Hits(n) \in Run /\ ~Hits(n).is_null /\ Hits(n).value = Clip(n) /\ (Clip(n) = 0 <=> n = 0)
  BY WidthFacts DEF Hits, Run, Clip

(* The invariant of the walk: what was written so far, when read, ends at    *)
(* the line written last, and has its lines and hits; each line counts once. *)
LEMMA VisitLineIs ==
  ASSUME NEW acc \in Writer, NEW line \in 0..MaxU32, NEW hits \in Nat
  PROVE  /\ VisitLine(acc, line, hits) \in Writer
         /\ VisitLine(acc, line, hits).prev = line
         /\ Read(acc.out).line = acc.prev =>
              Read(VisitLine(acc, line, hits).out)
                = [line |-> line,
                   lines |-> [l \in DOMAIN Read(acc.out).lines \cup {line} |->
                                IF l = line THEN Clip(hits) ELSE Read(acc.out).lines[l]]]
         /\ LET next == VisitLine(acc, line, hits).out
            IN  /\ Cardinality(Relevant(next)) = Cardinality(Relevant(acc.out)) + 1
                /\ Cardinality(Visited(next))
                     = Cardinality(Visited(acc.out)) + (IF hits = 0 THEN 0 ELSE 1)
<1>1. PICK s, p, n : s = acc.out /\ p = acc.prev /\ n = (line - p - 1) % U32
  OBVIOUS
<1>2. s \in Seq(Run) /\ p \in 0..MaxU32
  BY <1>1 DEF Writer
<1>3. n \in 0..MaxU32 /\ (((p + n) % U32) + 1) % U32 = line
  <2>1. n = (line - p - 1) % U32
    BY <1>1
  <2> QED
    BY <1>2, <2>1, Gap
<1>4. NullRuns(n) \in Seq(Run)
  BY <1>3, RunsIs
<1>5. PICK t, c : t = s \o NullRuns(n) /\ c = Hits(hits)
  OBVIOUS
<1>6. t \in Seq(Run)
  BY <1>2, <1>4, <1>5, ConcatProperties
<1>7. c \in Run /\ ~c.is_null /\ c.value = Clip(hits) /\ (Clip(hits) = 0 <=> hits = 0)
  BY <1>5, HitsIs
<1>8. VisitLine(acc, line, hits) = [out |-> t \o <<c>>, prev |-> line]
  BY <1>1, <1>5 DEF VisitLine
<1>9. <<c>> \in Seq(Run)
  BY <1>7
<1>10. t \o <<c>> \in Seq(Run)
  BY <1>6, <1>9, ConcatProperties
<1>11. VisitLine(acc, line, hits) \in Writer /\ VisitLine(acc, line, hits).prev = line
  BY <1>8, <1>10 DEF Writer
<1>12. ASSUME NEW f, Read(s).line = p, Read(s).lines = f
       PROVE  Read(t \o <<c>>)
                = [line |-> line,
                   lines |-> [l \in DOMAIN f \cup {line} |-> IF l = line THEN Clip(hits) ELSE f[l]]]
  <2>1. Read(t) = [line |-> (p + n) % U32, lines |-> f]
    BY <1>2, <1>3, <1>5, <1>12, ReadNulls
  <2>2. Read(t \o <<c>>) = ReadRun(Read(t), c)
    BY <1>6, <1>7, ReadNext
  <2>3. PICK q : q = (p + n) % U32
    OBVIOUS
  <2>4. ReadRun([line |-> q, lines |-> f], c)
          = [line |-> (q + 1) % U32,
             lines |-> [l \in DOMAIN f \cup {(q + 1) % U32} |->
                          IF l = (q + 1) % U32 THEN c.value ELSE f[l]]]
    BY <1>7 DEF ReadRun
  <2>5. (q + 1) % U32 = line
    BY <1>3, <2>3
  <2> QED
    BY <1>7, <2>1, <2>2, <2>3, <2>4, <2>5
<1>13. Relevant(t) = Relevant(s) /\ Visited(t) = Visited(s)
  <2>1. \A i \in 1..Len(NullRuns(n)) : NullRuns(n)[i].is_null
    BY <1>3, AllNull
  <2> QED
    BY <1>2, <1>4, <1>5, <2>1, NullsUncounted
<1>14. /\ Cardinality(Relevant(t \o <<c>>)) = Cardinality(Relevant(t)) + 1
       /\ Cardinality(Visited(t \o <<c>>)) = Cardinality(Visited(t)) + (IF hits = 0 THEN 0 ELSE 1)
  <2>1. /\ Relevant(t \o <<c>>) = Relevant(t) \cup {Len(t) + 1}
        /\ Visited(t \o <<c>>) = Visited(t) \cup (IF c.value = 0 THEN {} ELSE {Len(t) + 1})
        /\ IsFiniteSet(Relevant(t)) /\ IsFiniteSet(Visited(t))
        /\ Len(t) + 1 \notin Relevant(t) /\ Len(t) + 1 \notin Visited(t)
    BY <1>6, <1>7, OneCounted
  <2>2. Cardinality(Relevant(t \o <<c>>)) = Cardinality(Relevant(t)) + 1
    BY <2>1, FS_AddElement
  <2>3. CASE hits = 0
    <3>1. Visited(t \o <<c>>) = Visited(t)
      BY <1>7, <2>1, <2>3
    <3>2. Cardinality(Visited(t)) \in Nat
      BY <2>1, FS_CardinalityType
    <3> QED
      BY <2>2, <2>3, <3>1, <3>2
  <2>4. CASE hits # 0
    <3>1. Visited(t \o <<c>>) = Visited(t) \cup {Len(t) + 1}
      BY <1>7, <2>1, <2>4
    <3>2. Cardinality(Visited(t \o <<c>>)) = Cardinality(Visited(t)) + 1
      BY <2>1, <3>1, FS_AddElement
    <3> QED
      BY <2>2, <2>4, <3>2
  <2> QED
    BY <2>3, <2>4
<1>15. ASSUME Read(acc.out).line = acc.prev
       PROVE  Read(VisitLine(acc, line, hits).out)
                = [line |-> line,
                   lines |-> [l \in DOMAIN Read(acc.out).lines \cup {line} |->
                                IF l = line THEN Clip(hits) ELSE Read(acc.out).lines[l]]]
  <2>1. PICK f : f = Read(s).lines
    OBVIOUS
  <2>2. Read(t \o <<c>>)
          = [line |-> line,
             lines |-> [l \in DOMAIN f \cup {line} |-> IF l = line THEN Clip(hits) ELSE f[l]]]
    BY <1>1, <1>12, <1>15, <2>1
  <2>3. VisitLine(acc, line, hits).out = t \o <<c>>
    BY <1>8
  <2> QED
    BY <1>1, <2>1, <2>2, <2>3
<1>16. VisitLine(acc, line, hits).out = t \o <<c>>
  BY <1>8
<1> QED
  BY <1>1, <1>11, <1>13, <1>14, <1>15, <1>16

(* The writer goes from line to line.                                        *)
LEMMA WalkIs ==
  ASSUME NEW D \in SUBSET (0..MaxU32), NEW lc \in [D -> 0..MaxU32], NEW L \in Seq(D)
  PROVE  /\ VisitAll(lc, L) = Walk(lc, L)[Len(L)]
         /\ Walk(lc, L)[0] = Start
         /\ \A i \in 1..Len(L) : Walk(lc, L)[i] = VisitLine(Walk(lc, L)[i - 1], L[i], lc[L[i]])
         /\ \A i \in 0..Len(L) : Walk(lc, L)[i] \in Writer
<1> DEFINE N == Len(L)
           step == [p \in Writer \X (1..N) |-> VisitLine(p[1], L[p[2]], lc[L[p[2]]])]
           back == [i \in 1..N |-> i - 1]
<1>1. MaxU32 \in Nat
  BY WidthFacts
<1>2. N \in Nat /\ \A i \in 1..N : L[i] \in D /\ L[i] \in 0..MaxU32 /\ lc[L[i]] \in Nat
  BY <1>1
<1> HIDE DEF N
<1>3. Start \in Writer
  <2>1. <<>> \in Seq(Run)
    BY EmptySeq
  <2>2. 0 \in 0..MaxU32
    BY <1>1
  <2> QED
    BY <2>1, <2>2 DEF Start, Writer
<1>4. ASSUME NEW acc \in Writer, NEW i \in 1..N PROVE VisitLine(acc, L[i], lc[L[i]]) \in Writer
  BY <1>2, VisitLineIs
<1>5. PICK g \in [0..N -> Writer] : Follows(g, N, Start, step, back)
  <2>1. step \in [Writer \X (1..N) -> Writer]
    <3>1. ASSUME NEW p \in Writer \X (1..N) PROVE VisitLine(p[1], L[p[2]], lc[L[p[2]]]) \in Writer
      <4>1. p[1] \in Writer /\ p[2] \in 1..N
        OBVIOUS
      <4> QED
        BY <1>4, <4>1
    <3> QED
      BY <3>1
  <2>2. back \in [1..N -> Nat] /\ \A i \in 1..N : back[i] < i
    BY <1>2
  <2> HIDE DEF step, back
  <2> QED
    BY <1>2, <1>3, <2>1, <2>2, Recursion
<1>6. g[0] = Start
  BY <1>5 DEF Follows
<1>7. ASSUME NEW i \in 1..N PROVE g[i] = VisitLine(g[i - 1], L[i], lc[L[i]])
  <2>1. g[i] = step[<<g[back[i]], i>>] /\ back[i] = i - 1
    BY <1>5 DEF Follows
  <2>2. i - 1 \in 0..N
    BY <1>2
  <2>3. g[i - 1] \in Writer
    BY <1>5, <2>2
  <2>4. <<g[i - 1], i>> \in Writer \X (1..N)
    BY <2>3
  <2>5. step[<<g[i - 1], i>>] = VisitLine(g[i - 1], L[i], lc[L[i]])
    BY <2>4
  <2> QED
    BY <2>1, <2>5
<1>8. g = [i \in 0..N |-> IF i = 0 THEN Start ELSE VisitLine(g[i - 1], L[i], lc[L[i]])]
  <2>1. ASSUME NEW i \in 0..N PROVE g[i] = IF i = 0 THEN Start ELSE VisitLine(g[i - 1], L[i], lc[L[i]])
    <3>1. i = 0 \/ i \in 1..N
      BY <1>2
    <3> QED
      BY <1>6, <1>7, <3>1
  <2> QED
    BY <1>5, <2>1
<1>9. Walk(lc, L) = [i \in 0..N |-> IF i = 0 THEN Start ELSE VisitLine(Walk(lc, L)[i - 1], L[i], lc[L[i]])]
  BY <1>8 DEF Walk, Start, N
<1>10. 0 \in 0..N /\ \A i \in 1..N : i \in 0..N /\ i # 0
  BY <1>2
<1>11. Walk(lc, L)[0] = Start
  BY <1>9, <1>10, Zenon
<1>12. ASSUME NEW i \in 1..N PROVE Walk(lc, L)[i] = VisitLine(Walk(lc, L)[i - 1], L[i], lc[L[i]])
  BY <1>9, <1>10, Zenon
<1>13. \A i \in 0..N : Walk(lc, L)[i] \in Writer
  <2>1. ASSUME NEW i \in 1..N, Walk(lc, L)[i - 1] \in Writer PROVE Walk(lc, L)[i] \in Writer
    BY <1>4, <1>12, <2>1
  <2>2. PICK f : f = Walk(lc, L)
    OBVIOUS
  <2>3. f[0] \in Writer /\ \A i \in 1..N : f[i - 1] \in Writer => f[i] \in Writer
    BY <1>3, <1>11, <2>1, <2>2
  <2>4. \A i \in 0..N : f[i] \in Writer
    BY <1>2, <2>3, StaysIn
  <2> QED
    BY <2>2, <2>4
<1>14. VisitAll(lc, L) = Walk(lc, L)[N]
  BY DEF VisitAll, Walk, N
<1> QED
  BY <1>11, <1>12, <1>13, <1>14 DEF N

(* By induction on the lines written: all of them are read, and counted.     *)
LEMMA WalkReads ==
  ASSUME NEW D \in SUBSET (0..MaxU32), NEW lc \in [D -> 0..MaxU32], NEW L \in Seq(D), NEW all,
         all = VisitAll(lc, L)
  PROVE  /\ all \in Writer
         /\ Read(all.out) = [line |-> all.prev, lines |-> [l \in {L[k] : k \in 1..Len(L)} |-> Clip(lc[l])]]
         /\ Cardinality(Relevant(all.out)) = Len(L)
         /\ Cardinality(Visited(all.out)) = Cardinality({k \in 1..Len(L) : lc[L[k]] # 0})
<1>1. PICK N, W : N = Len(L) /\ W = Walk(lc, L)
  OBVIOUS
<1>2. MaxU32 \in Nat /\ N \in Nat
  BY <1>1, WidthFacts
<1>3. ASSUME NEW k \in 1..N PROVE L[k] \in D /\ L[k] \in 0..MaxU32 /\ lc[L[k]] \in Nat
  <2>1. L[k] \in D
    BY <1>1
  <2>2. L[k] \in 0..MaxU32 /\ lc[L[k]] \in 0..MaxU32
    BY <2>1, Zenon
  <2>3. \A x \in 0..MaxU32 : x \in Nat
    BY <1>2
  <2> QED
    BY <2>1, <2>2, <2>3, Zenon
<1>4. /\ all = W[N] /\ W[0] = Start
      /\ \A i \in 1..N : W[i] = VisitLine(W[i - 1], L[i], lc[L[i]])
      /\ \A i \in 0..N : W[i] \in Writer
  BY <1>1, WalkIs
<1> DEFINE Seen(i) == {L[k] : k \in 1..i}
           F(i) == [l \in Seen(i) |-> Clip(lc[l])]
           Hit(i) == {k \in 1..i : lc[L[k]] # 0}
           S == {i \in 0..N : /\ Read(W[i].out) = [line |-> W[i].prev, lines |-> F(i)]
                              /\ Cardinality(Relevant(W[i].out)) = i
                              /\ Cardinality(Visited(W[i].out)) = Cardinality(Hit(i))}
<1>5. 0 \in S
  <2>1. W[0].out = <<>> /\ W[0].prev = 0
    BY <1>4 DEF Start
  <2>2. 1..0 = {}
    OBVIOUS
  <2>3. Read(<<>>) = Nothing
    <3>1. <<>> \in Seq(Run) /\ Len(<<>>) = 0
      BY EmptySeq
    <3>2. After(<<>>)[0] = Nothing
      BY <3>1, AfterIs
    <3> QED
      BY <3>1, <3>2 DEF Read
  <2>4. Seen(0) = {} /\ Hit(0) = {}
    BY <2>2
  <2>5. F(0) = [l \in {} |-> 0]
    BY <2>4
  <2>6. Relevant(<<>>) = {} /\ Visited(<<>>) = {}
    <3>1. DOMAIN <<>> = {}
      BY <2>2
    <3> QED
      BY <3>1 DEF Relevant, Visited
  <2>7. Cardinality({}) = 0
    BY FS_EmptySet
  <2>8. 0 \in 0..N
    BY <1>2
  <2>9. Read(W[0].out) = [line |-> W[0].prev, lines |-> F(0)]
    BY <2>1, <2>3, <2>5 DEF Nothing
  <2>10. Cardinality(Relevant(W[0].out)) = 0 /\ Cardinality(Visited(W[0].out)) = Cardinality(Hit(0))
    BY <2>1, <2>4, <2>6, <2>7
  <2> QED
    BY <2>8, <2>9, <2>10
<1>6. ASSUME NEW i \in 1..N, i - 1 \in S PROVE i \in S
  <2>1. PICK acc, line, hits : acc = W[i - 1] /\ line = L[i] /\ hits = lc[L[i]]
    OBVIOUS
  <2>2. PICK next : next = VisitLine(acc, line, hits)
    OBVIOUS
  <2>3. acc \in Writer /\ line \in 0..MaxU32 /\ line \in D /\ hits \in Nat /\ next = W[i]
    <3>1. i - 1 \in 0..N
      BY <1>2
    <3> QED
      BY <1>3, <1>4, <2>1, <2>2, <3>1
  <2>4. /\ Read(acc.out) = [line |-> acc.prev, lines |-> F(i - 1)]
        /\ Cardinality(Relevant(acc.out)) = i - 1
        /\ Cardinality(Visited(acc.out)) = Cardinality(Hit(i - 1))
    BY <1>6, <2>1
  <2>5. 1..i = 1..i - 1 \cup {i} /\ i \notin 1..i - 1
    OBVIOUS
  <2>6. Seen(i) = Seen(i - 1) \cup {line}
    BY <2>1, <2>5
  <2>7. F(i) = [l \in DOMAIN F(i - 1) \cup {line} |-> IF l = line THEN Clip(hits) ELSE F(i - 1)[l]]
    <3>1. DOMAIN F(i - 1) \cup {line} = Seen(i)
      BY <2>6
    <3>2. ASSUME NEW l \in Seen(i) PROVE Clip(lc[l]) = IF l = line THEN Clip(hits) ELSE F(i - 1)[l]
      <4>1. CASE l = line
        BY <2>1, <4>1
      <4>2. CASE l # line
        <5>1. l \in Seen(i - 1)
          BY <2>6, <4>2
        <5> QED
          BY <4>2, <5>1
      <4> QED
        BY <4>1, <4>2
    <3> QED
      BY <3>1, <3>2
  <2>8. Read(next.out) = [line |-> next.prev, lines |-> F(i)]
    <3> HIDE DEF F
    <3>1. VisitLine(acc, line, hits).prev = line
      BY <2>3, VisitLineIs
    <3>2. Read(VisitLine(acc, line, hits).out)
            = [line |-> line,
               lines |-> [l \in DOMAIN F(i - 1) \cup {line} |-> IF l = line THEN Clip(hits) ELSE F(i - 1)[l]]]
      <4>1. PICK f : f = F(i - 1)
        OBVIOUS
      <4>2. Read(acc.out).line = acc.prev /\ Read(acc.out).lines = f
        BY <2>4, <4>1
      <4>3. acc \in Writer /\ line \in 0..MaxU32 /\ hits \in Nat
        BY <2>3
      <4>4. Read(VisitLine(acc, line, hits).out)
              = [line |-> line,
                 lines |-> [l \in DOMAIN Read(acc.out).lines \cup {line} |->
                              IF l = line THEN Clip(hits) ELSE Read(acc.out).lines[l]]]
        BY <4>2, <4>3, VisitLineIs
      <4> QED
        BY <4>1, <4>2, <4>4
    <3> QED
      BY <2>2, <2>7, <3>1, <3>2
  <2>9. /\ Cardinality(Relevant(next.out)) = i - 1 + 1
        /\ Cardinality(Visited(next.out)) = Cardinality(Hit(i - 1)) + (IF hits = 0 THEN 0 ELSE 1)
    <3> HIDE DEF Hit
    <3>1. LET after == VisitLine(acc, line, hits).out
          IN  /\ Cardinality(Relevant(after)) = Cardinality(Relevant(acc.out)) + 1
              /\ Cardinality(Visited(after)) = Cardinality(Visited(acc.out)) + (IF hits = 0 THEN 0 ELSE 1)
      BY <2>3, VisitLineIs
    <3> QED
      BY <2>2, <2>4, <3>1
  <2>10. Cardinality(Hit(i)) = Cardinality(Hit(i - 1)) + (IF hits = 0 THEN 0 ELSE 1)
    <3>1. IsFiniteSet(1..i - 1)
      BY FS_Interval
    <3>2. Hit(i - 1) \in SUBSET (1..i - 1)
      OBVIOUS
    <3>3. IsFiniteSet(Hit(i - 1)) /\ i \notin Hit(i - 1)
      BY <2>5, <3>1, <3>2, FS_Subset
    <3>4. CASE hits = 0
      <4>1. Hit(i) = Hit(i - 1)
        BY <2>1, <2>5, <3>4
      <4>2. Cardinality(Hit(i - 1)) \in Nat
        BY <3>3, FS_CardinalityType
      <4> QED
        <5>1. PICK h : h = Cardinality(Hit(i - 1))
          OBVIOUS
        <5>2. h + 0 = h
          BY <4>2, <5>1
        <5> QED
          BY <3>4, <4>1, <5>1, <5>2
    <3>5. CASE hits # 0
      <4>1. Hit(i) = Hit(i - 1) \cup {i}
        BY <2>1, <2>5, <3>5
      <4> HIDE DEF Hit
      <4>2. Cardinality(Hit(i)) = Cardinality(Hit(i - 1)) + 1
        BY <3>3, <4>1, FS_AddElement
      <4> QED
        BY <3>5, <4>2
    <3> QED
      BY <3>4, <3>5
  <2>11. i - 1 + 1 = i /\ i \in 0..N
    BY <1>2
  <2> QED
    BY <2>3, <2>8, <2>9, <2>10, <2>11
<1>7. N \in S
  <2> HIDE DEF S
  <2>1. \A i \in 0..N : i \in S
    BY <1>2, <1>5, <1>6, UpTo
  <2> QED
    BY <1>2, <2>1
<1>8. N \in 0..N
  BY <1>2
<1> QED
  BY <1>1, <1>4, <1>7, <1>8

(* ExpandCoverage, read back. *)
(* The lines a reader should find, and the ones that count as visited.       *)
Clipped(D, lc) == [l \in D |-> Clip(lc[l])]
HitLines(D, lc) == {l \in D : lc[l] > 0}

(* What is packed is read back, whatever lines and gaps there are, and       *)
(* counted.                                                                  *)
LEMMA PackedAndRead ==
  ASSUME NEW D \in SUBSET (0..MaxU32), NEW lc \in [D -> 0..MaxU32], NEW line_count \in 0..MaxU32,
         NEW packed, packed = ExpandCoverage(lc, line_count)
  PROVE  /\ FromCoverage(packed.coverage) = Clipped(D, lc)
         /\ packed.lines.relevant = Cardinality(D)
         /\ packed.lines.visited = Cardinality(HitLines(D, lc))
<1>1. MaxU32 \in Nat /\ D \in SUBSET Int /\ DOMAIN lc = D
  BY WidthFacts
<1>2. IsFiniteSet(D)
  <2>1. IsFiniteSet(0..MaxU32)
    BY <1>1, FS_Interval
  <2> QED
    BY <2>1, FS_Subset
<1>3. PICK L, N : L = InOrder(D) /\ N = Cardinality(D)
  OBVIOUS
<1>4. /\ L \in Seq(D) /\ Len(L) = N /\ N \in Nat
      /\ \A i, j \in 1..N : i < j => L[i] < L[j]
      /\ \A x \in D : \E i \in 1..N : L[i] = x
  BY <1>1, <1>2, <1>3, InOrderIs
<1>5. PICK all : all = VisitAll(lc, L)
  OBVIOUS
<1>6. /\ all \in Writer
      /\ Read(all.out) = [line |-> all.prev, lines |-> [l \in {L[k] : k \in 1..N} |-> Clip(lc[l])]]
      /\ Cardinality(Relevant(all.out)) = N
      /\ Cardinality(Visited(all.out)) = Cardinality({k \in 1..N : lc[L[k]] # 0})
  <2>1. /\ all \in Writer
        /\ Read(all.out) = [line |-> all.prev, lines |-> [l \in {L[k] : k \in 1..Len(L)} |-> Clip(lc[l])]]
        /\ Cardinality(Relevant(all.out)) = Len(L)
        /\ Cardinality(Visited(all.out)) = Cardinality({k \in 1..Len(L) : lc[L[k]] # 0})
    <3>1. L \in Seq(D)
      BY <1>4
    <3> QED
      BY <1>5, <3>1, WalkReads, ZenonT(40)
  <2>2. Len(L) = N
    BY <1>4
  <2> QED
    BY <2>1, <2>2
<1>7. \A k \in 1..N : L[k] \in D
  BY <1>4
<1>8. {L[k] : k \in 1..N} = D
  BY <1>4, <1>7
<1>9. Cardinality({k \in 1..N : lc[L[k]] # 0}) = Cardinality({l \in D : lc[l] > 0})
  <2> DEFINE S == {k \in 1..N : lc[L[k]] # 0}
             T == {l \in D : lc[l] > 0}
             f == [k \in S |-> L[k]]
  <2>1. \A l \in D : lc[l] > 0 <=> lc[l] # 0
    BY <1>1
  <2>2. f \in [S -> T]
    BY <1>7, <2>1
  <2>3. ASSUME NEW j \in 1..N, NEW k \in 1..N, L[j] = L[k] PROVE j = k
    <3>1. PICK x, y : x = L[j] /\ y = L[k]
      OBVIOUS
    <3>2. x \in Int /\ y \in Int /\ x = y
      BY <1>1, <1>7, <2>3, <3>1
    <3>3. ~(x < y) /\ ~(y < x)
      BY <3>2
    <3>4. ~(L[j] < L[k]) /\ ~(L[k] < L[j])
      BY <3>1, <3>3
    <3>5. ~(j < k) /\ ~(k < j)
      BY <1>4, <3>4
    <3> QED
      BY <3>5
  <2>4. f \in Injection(S, T)
    BY <2>2, <2>3 DEF Injection, IsInjective
  <2>5. ASSUME NEW l \in T PROVE \E k \in S : f[k] = l
    <3>1. PICK k \in 1..N : L[k] = l
      BY <1>4
    <3> QED
      BY <2>1, <3>1
  <2>6. f \in Surjection(S, T)
    BY <2>2, <2>5 DEF Surjection
  <2>7. IsFiniteSet(T)
    BY <1>2, FS_Subset
  <2>8. Cardinality(S) = Cardinality(T)
    <3> HIDE DEF S, T, f
    <3> QED
      BY <2>4, <2>6, <2>7, FS_Injection
  <2> QED
    BY <2>8
<1>10. all.out \in Seq(Run) /\ all.prev \in 0..MaxU32
  BY <1>6 DEF Writer
<1>11. PICK total : total = IF all.prev > line_count THEN all.prev ELSE line_count
  OBVIOUS
<1>12. packed.coverage = (IF all.prev < total THEN all.out \o NullRuns(total - all.prev - 1) ELSE all.out)
  BY <1>1, <1>3, <1>5, <1>11 DEF ExpandCoverage, VisitLines, InOrder
<1>13. PICK c : c = packed.coverage
  OBVIOUS
<1>14. c \in Seq(Run) /\ Read(c).lines = Read(all.out).lines /\ Relevant(c) = Relevant(all.out) /\ Visited(c) = Visited(all.out)
  <2>1. CASE all.prev < total
    <3>1. PICK n : n = total - all.prev - 1
      OBVIOUS
    <3>2. n \in 0..MaxU32
      BY <1>1, <1>10, <1>11, <2>1, <3>1
    <3>3. c = all.out \o NullRuns(n) /\ NullRuns(n) \in Seq(Run) /\ \A i \in 1..Len(NullRuns(n)) : NullRuns(n)[i].is_null
      BY <1>12, <1>13, <2>1, <3>1, <3>2, RunsIs, AllNull
    <3>4. Read(c).lines = Read(all.out).lines
      BY <1>10, <3>2, <3>3, ReadNulls
    <3> QED
      BY <1>10, <3>3, <3>4, NullsUncounted, ConcatProperties
  <2>2. CASE ~(all.prev < total)
    BY <1>10, <1>12, <1>13, <2>2
  <2> QED
    BY <2>1, <2>2
<1>15. packed.lines = [relevant |-> Cardinality(Relevant(c)), visited |-> Cardinality(Visited(c))]
  BY <1>13 DEF ExpandCoverage, Relevant, Visited
<1>16. FromCoverage(c) = [l \in D |-> Clip(lc[l])]
  <2>1. FromCoverage(c) = Read(c).lines
    BY <1>14, ReadTyped
  <2>2. Read(all.out).lines = [l \in D |-> Clip(lc[l])]
    BY <1>6, <1>8
  <2> QED
    BY <1>14, <2>1, <2>2
<1> QED
  BY <1>3, <1>6, <1>9, <1>13, <1>14, <1>15, <1>16 DEF Clipped, HitLines

(* The same, for a file whose length is not known.                           *)
LEMMA ShownLines ==
  ASSUME NEW D \in SUBSET (0..MaxU32), NEW lc \in [D -> 0..MaxU32]
  PROVE  FromCoverage(ExpandCoverage(lc, 0).coverage) = Clipped(D, lc)
<1>1. PICK n, packed : n = 0 /\ packed = ExpandCoverage(lc, n)
  OBVIOUS
<1>2. n \in 0..MaxU32
  BY <1>1, WidthFacts
<1>3. packed = ExpandCoverage(lc, n)
  BY <1>1
<1>4. FromCoverage(packed.coverage) = Clipped(D, lc)
  BY <1>2, <1>3, PackedAndRead
<1> QED
  BY <1>1, <1>4

(* Any lines and hits of 32 bits, and any length of the file.                *)
AnyLines == \E D \in SUBSET (0..MaxU32) : \E lc \in [D -> 0..MaxU32], n \in 0..MaxU32 :
              subject = [part |-> "lines", lc |-> lc, line_count |-> n]

(***************************************************************************)
(* Coverage as the report's JSON has it: items of a line and its hits, in  *)
(* any order.                                                              *)
(***************************************************************************)
(* A number, or anything else.                                               *)
JsonItem == [key : Nat \cup {NotGiven}, hits : Nat \cup {NotGiven}]

(* Of several items one is the last.                                         *)
LEMMA LastOne ==
  ASSUME NEW n \in Nat, NEW S \in SUBSET (1..n), NEW k \in S
  PROVE  \E m \in S : \A j \in S : j <= m
<1> DEFINE T == {n - i : i \in S}
<1>1. T \in SUBSET Nat /\ n - k \in T
  OBVIOUS
<1>2. PICK t \in T : \A u \in T : t <= u
  <2> HIDE DEF T
  <2> QED
    BY <1>1, Least
<1>3. PICK m \in S : t = n - m
  BY <1>2
<1>4. ASSUME NEW j \in S PROVE j <= m
  <2>1. n - j \in T
    OBVIOUS
  <2>2. n - m <= n - j
    BY <1>2, <1>3, <2>1
  <2>3. j \in Int /\ m \in Int
    OBVIOUS
  <2> QED
    BY <2>2, <2>3
<1> QED
  BY <1>4

(* load_line_coverage: of the items of a line the last one counts.           *)
LEMMA LoadedLines ==
  ASSUME NEW items \in Seq(JsonItem), NEW lc, lc = LoadLineCoverage(items),
         \A i \in DOMAIN items : items[i].hits # NotGiven /\ RebaseOK(items[i].key)
  PROVE  /\ DOMAIN lc = {Rebase(items[i].key) : i \in DOMAIN items}
         /\ DOMAIN lc \in SUBSET (0..MaxU32)
         /\ lc \in [DOMAIN lc -> 0..MaxU32]
         /\ \A k \in DOMAIN items :
              (\A j \in DOMAIN items : j > k => Rebase(items[j].key) # Rebase(items[k].key))
                => lc[Rebase(items[k].key)] = ClipU32(items[k].hits)
<1>1. PICK n : n = Len(items)
  OBVIOUS
<1>2. n \in Nat /\ DOMAIN items = 1..n /\ MaxU32 \in Nat
  BY <1>1, WidthFacts
<1>3. ASSUME NEW i \in 1..n
      PROVE  items[i].hits \in Nat /\ items[i].key \in 0..MaxU32 /\ Rebase(items[i].key) \in 0..MaxU32
  <2>1. items[i] \in JsonItem
    BY <1>1
  <2>2. items[i].hits \in Nat /\ items[i].key \in Nat /\ items[i].key <= MaxU32
    BY <1>2, <2>1 DEF JsonItem, RebaseOK
  <2>3. PICK k : k = items[i].key
    OBVIOUS
  <2>4. k \in 0..MaxU32
    BY <1>2, <2>2, <2>3
  <2>5. Rebase(k) \in 0..MaxU32
    BY <1>2, <2>4 DEF Rebase
  <2> QED
    BY <2>2, <2>3, <2>4, <2>5
<1> DEFINE Same(l) == {i \in 1..n : Rebase(items[i].key) = l}
           Newest(l) == CHOOSE i \in Same(l) : \A j \in Same(l) : j <= i
           D == {Rebase(items[i].key) : i \in 1..n}
<1>4. lc = [l \in D |-> ClipU32(items[Newest(l)].hits)]
  BY <1>2 DEF LoadLineCoverage
<1>5. ASSUME NEW l \in D PROVE Newest(l) \in Same(l) /\ \A j \in Same(l) : j <= Newest(l)
  <2>1. PICK k \in 1..n : Rebase(items[k].key) = l
    BY <1>5
  <2>2. k \in Same(l) /\ Same(l) \in SUBSET (1..n)
    BY <2>1
  <2> HIDE DEF Same
  <2>3. \E m \in Same(l) : \A j \in Same(l) : j <= m
    BY <1>2, <2>2, LastOne
  <2> QED
    BY <2>3
<1>6. ASSUME NEW h \in Nat PROVE ClipU32(h) \in 0..MaxU32
  BY <1>2 DEF ClipU32
<1>7. ASSUME NEW l \in D PROVE ClipU32(items[Newest(l)].hits) \in 0..MaxU32
  <2>1. Newest(l) \in 1..n
    BY <1>5
  <2> HIDE DEF Newest
  <2> QED
    BY <1>3, <1>6, <2>1
<1>8. DOMAIN lc = D /\ D \in SUBSET (0..MaxU32)
  BY <1>3, <1>4
<1>9. lc \in [D -> 0..MaxU32]
  <2> HIDE DEF Newest, D
  <2> QED
    BY <1>4, <1>7
<1>10. ASSUME NEW k \in 1..n, \A j \in 1..n : j > k => Rebase(items[j].key) # Rebase(items[k].key)
       PROVE  lc[Rebase(items[k].key)] = ClipU32(items[k].hits)
  <2>1. PICK l : l = Rebase(items[k].key)
    OBVIOUS
  <2>2. l \in D /\ k \in Same(l)
    BY <2>1
  <2>3. PICK m : m = Newest(l)
    OBVIOUS
  <2>4. m \in Same(l) /\ k <= m
    BY <1>5, <2>2, <2>3
  <2>5. m \in 1..n /\ Rebase(items[m].key) = l
    BY <2>4
  <2>6. ~(m > k)
    BY <1>10, <2>1, <2>5
  <2>7. m = k
    BY <2>4, <2>5, <2>6
  <2> HIDE DEF Newest, D
  <2> QED
    BY <1>4, <2>1, <2>2, <2>3, <2>7
<1> QED
  BY <1>2, <1>8, <1>9, <1>10

(* A report: no files, or a list of them with items or none.                 *)
AnyJson ==
    \E Files, git, files :
        /\ subject = [part |-> "json", git |-> git, files |-> files]
        /\ files = NotGiven \/ files \in Seq(Files)
        /\ \A f \in Files : f.line_coverage = NotGiven \/ f.line_coverage \in Seq(JsonItem)

(* What LinesSurvive says of a file that is accepted.                        *)
Faithful(items, shown) ==
    /\ DOMAIN shown = {Rebase(items[k].key) : k \in DOMAIN items}
    /\ \A k \in DOMAIN items :
         (\A j \in DOMAIN items : j > k => Rebase(items[j].key) # Rebase(items[k].key))
           => (shown[Rebase(items[k].key)] = 0 <=> items[k].hits = 0)

(* Every file that is accepted shows the lines of its items.                 *)
LEMMA JsonLines ==
  ASSUME NEW file, FileOK(file), file.line_coverage \in Seq(JsonItem),
         NEW items, items = file.line_coverage,
         NEW shown, shown = FromCoverage(ExpandCoverage(LoadFile(file).line_coverage, 0).coverage)
  PROVE  Faithful(items, shown)
<1>1. \A i \in DOMAIN items : items[i].hits # NotGiven /\ RebaseOK(items[i].key)
  BY DEF FileOK
<1>2. PICK lc, D : lc = LoadLineCoverage(items) /\ D = DOMAIN lc
  OBVIOUS
<1>3. /\ D = {Rebase(items[i].key) : i \in DOMAIN items}
      /\ D \in SUBSET (0..MaxU32)
      /\ lc \in [D -> 0..MaxU32]
      /\ \A k \in DOMAIN items :
           (\A j \in DOMAIN items : j > k => Rebase(items[j].key) # Rebase(items[k].key))
             => lc[Rebase(items[k].key)] = ClipU32(items[k].hits)
  <2>1. items \in Seq(JsonItem)
    OBVIOUS
  <2>2. /\ DOMAIN lc = {Rebase(items[i].key) : i \in DOMAIN items}
        /\ DOMAIN lc \in SUBSET (0..MaxU32)
        /\ lc \in [DOMAIN lc -> 0..MaxU32]
        /\ \A k \in DOMAIN items :
             (\A j \in DOMAIN items : j > k => Rebase(items[j].key) # Rebase(items[k].key))
               => lc[Rebase(items[k].key)] = ClipU32(items[k].hits)
    BY <1>1, <1>2, <2>1, LoadedLines, Zenon
  <2> QED
    BY <1>2, <2>2, Zenon
<1>4. shown = [l \in D |-> Clip(lc[l])]
  <2>1. LoadFile(file).line_coverage = lc
    BY <1>2 DEF LoadFile
  <2>2. FromCoverage(ExpandCoverage(lc, 0).coverage) = [l \in D |-> Clip(lc[l])]
    BY <1>3, ShownLines DEF Clipped
  <2> QED
    BY <2>1, <2>2
<1>5. ASSUME NEW k \in DOMAIN items,
             \A j \in DOMAIN items : j > k => Rebase(items[j].key) # Rebase(items[k].key)
      PROVE  shown[Rebase(items[k].key)] = 0 <=> items[k].hits = 0
  <2>1. PICK h, l : h = items[k].hits /\ l = Rebase(items[k].key)
    OBVIOUS
  <2>2. h \in Nat
    <3>1. items[k] \in JsonItem
      OBVIOUS
    <3> QED
      BY <1>1, <2>1, <3>1 DEF JsonItem
  <2>3. l \in D /\ lc[l] = ClipU32(h)
    BY <1>3, <1>5, <2>1
  <2>4. ClipU32(h) \in Nat /\ (ClipU32(h) = 0 <=> h = 0)
    BY <2>2, WidthFacts DEF ClipU32
  <2>5. Clip(ClipU32(h)) = 0 <=> ClipU32(h) = 0
    BY <2>4, HitsIs
  <2>6. shown[l] = Clip(lc[l])
    BY <1>4, <2>3
  <2> QED
    BY <2>1, <2>3, <2>4, <2>5, <2>6
<1> QED
  BY <1>3, <1>4, <1>5 DEF Faithful

(* LinesCorrect: for all lines and hits of 32 bits and files of any length,  *)
(* the runs that expand_coverage packs are read back by from_coverage as the *)
(* same lines and hits (cut down to 31 bits), and the statistics count just  *)
(* these; and for every report, of any number of files and items,            *)
(* load_from_text takes all of it or nothing, and no line and no hit of a    *)
(* file it takes is lost on the way.                                         *)
THEOREM LinesCorrect == AnyLines \/ AnyJson => LinesSurvive
<1>1. ASSUME AnyLines PROVE LinesSurvive
  <2>1. PICK D \in SUBSET (0..MaxU32) : \E lc \in [D -> 0..MaxU32], n \in 0..MaxU32 :
          subject = [part |-> "lines", lc |-> lc, line_count |-> n]
    BY <1>1 DEF AnyLines
  <2>2. PICK lc \in [D -> 0..MaxU32], n \in 0..MaxU32 :
          subject = [part |-> "lines", lc |-> lc, line_count |-> n]
    BY <2>1
  <2>3. subject.part = "lines" /\ subject.part # "json" /\ subject.lc = lc /\ subject.line_count = n /\ DOMAIN lc = D
    BY <2>2
  <2>4. PICK packed : packed = ExpandCoverage(lc, n)
    OBVIOUS
  <2>5. /\ FromCoverage(packed.coverage) = Clipped(D, lc)
        /\ packed.lines.relevant = Cardinality(D)
        /\ packed.lines.visited = Cardinality(HitLines(D, lc))
    BY <2>4, PackedAndRead
  <2> QED
    BY <2>3, <2>4, <2>5 DEF LinesSurvive, Clipped, Clip, HitLines
<1>2. ASSUME AnyJson PROVE LinesSurvive
  <2>1. PICK Files, git, files :
          /\ subject = [part |-> "json", git |-> git, files |-> files]
          /\ files = NotGiven \/ files \in Seq(Files)
          /\ \A f \in Files : f.line_coverage = NotGiven \/ f.line_coverage \in Seq(JsonItem)
    BY <1>2 DEF AnyJson
  <2>2. subject.part = "json" /\ subject.part # "lines" /\ subject.git = git /\ subject.files = files
    BY <2>1
  <2>3. PICK done : done = LoadFromText(subject)
    OBVIOUS
  <2>4. CASE git = NotGiven \/ files = NotGiven \/ \E i \in DOMAIN files : ~FileOK(files[i])
    <3>1. done = NoReport
      BY <2>2, <2>3, <2>4 DEF LoadFromText
    <3>2. ~done.ok /\ done.files = <<>>
      BY <3>1 DEF NoReport
    <3> QED
      BY <2>2, <2>3, <3>2 DEF LinesSurvive
  <2>5. CASE ~(git = NotGiven \/ files = NotGiven \/ \E i \in DOMAIN files : ~FileOK(files[i]))
    <3>1. done = [ok |-> TRUE, git |-> git, files |-> [i \in DOMAIN files |-> LoadFile(files[i])]]
      BY <2>2, <2>3, <2>5 DEF LoadFromText
    <3>2. PICK N : N = Len(files)
      OBVIOUS
    <3>3. files \in Seq(Files) /\ N \in Nat /\ DOMAIN files = 1..N
      BY <2>1, <2>5, <3>2
    <3>4. done.ok /\ done.files = [i \in 1..N |-> LoadFile(files[i])]
      BY <3>1, <3>3
    <3>5. Len(done.files) = N /\ DOMAIN done.files = 1..N
      BY <3>3, <3>4
    <3>6. ASSUME NEW i \in 1..N,
                 NEW items, items = files[i].line_coverage,
                 NEW shown, shown = FromCoverage(ExpandCoverage(done.files[i].line_coverage, 0).coverage)
          PROVE  ShowsItems(items, shown)
      <4>1. PICK file : file = files[i]
        OBVIOUS
      <4>2. FileOK(file) /\ file \in Files /\ done.files[i] = LoadFile(file)
        BY <2>5, <3>3, <3>4, <4>1
      <4>3. items \in Seq(JsonItem) /\ file.line_coverage = items
        <5>1. file.line_coverage # NotGiven
          BY <4>2 DEF FileOK
        <5> QED
          BY <2>1, <3>6, <4>1, <4>2, <5>1
      <4>4. shown = FromCoverage(ExpandCoverage(LoadFile(file).line_coverage, 0).coverage)
        BY <3>6, <4>2
      <4>5. Faithful(items, shown)
        BY <4>2, <4>3, <4>4, JsonLines
      <4>6. ASSUME NEW k \in DOMAIN items
            PROVE  Rebase(items[k].key) = IF items[k].key = 0 THEN 0 ELSE items[k].key - 1
        <5>1. items[k].key \in Nat
          <6>1. items[k] \in JsonItem
            BY <4>3
          <6>2. RebaseOK(items[k].key)
            BY <4>2, <4>3 DEF FileOK
          <6> QED
            BY <6>1, <6>2 DEF JsonItem, RebaseOK
        <5> QED
          BY <5>1 DEF Rebase
      <4> QED
        BY <4>5, <4>6 DEF Faithful, ShowsItems
    <3> QED
      <4>1. \A i \in DOMAIN done.files :
               ShowsItems(files[i].line_coverage, FromCoverage(ExpandCoverage(done.files[i].line_coverage, 0).coverage))
        BY <3>5, <3>6
      <4>2. Len(done.files) = Len(files)
        BY <3>2, <3>5
      <4> QED
        BY <2>2, <2>3, <3>4, <4>1, <4>2, Zenon DEF LinesSurvive
  <2> QED
    BY <2>4, <2>5
<1> QED
  BY <1>1, <1>2

(***************************************************************************)
(* Texts made of pieces. Each conversion of line endings puts a piece in   *)
(* the place of each character.                                            *)
(***************************************************************************)
(* The function inside FlattenSeq.                                           *)
Flatten(p) ==
    LET flatten[i \in 1..Len(p)] == IF i = 1 THEN p[i] ELSE flatten[i - 1] \o p[i]
    IN  flatten

(* FlattenSeq appends piece after piece.                                     *)
Appends(S, n, p, f) ==
    /\ f \in [0..n -> Seq(S)]
    /\ f[0] = <<>> /\ (\A i \in 1..n : f[i] = f[i - 1] \o p[i]) /\ FlattenSeq(p) = f[n]

LEMMA Flat ==
  ASSUME NEW S, NEW n \in Nat, NEW p \in [1..n -> Seq(S)]
  PROVE  \E f : Appends(S, n, p, f)
<1> SUFFICES \E f \in [0..n -> Seq(S)] :
            f[0] = <<>> /\ (\A i \in 1..n : f[i] = f[i - 1] \o p[i]) /\ FlattenSeq(p) = f[n]
  BY DEF Appends
<1> DEFINE V == Seq(S)
           step == [q \in V \X (1..n) |-> q[1] \o p[q[2]]]
           back == [i \in 1..n |-> i - 1]
<1>1. ASSUME NEW s \in V, NEW i \in 1..n PROVE s \o p[i] \in V
  BY ConcatProperties
<1>2. <<>> \in V
  BY EmptySeq
<1>3. PICK g \in [0..n -> V] : Follows(g, n, <<>>, step, back)
  <2>1. step \in [V \X (1..n) -> V]
    <3> HIDE DEF V
    <3>1. ASSUME NEW q \in V \X (1..n) PROVE q[1] \o p[q[2]] \in V
      <4>1. q[1] \in V /\ q[2] \in 1..n
        OBVIOUS
      <4> QED
        BY <1>1, <4>1
    <3> QED
      BY <3>1
  <2>2. back \in [1..n -> Nat] /\ \A i \in 1..n : back[i] < i
    OBVIOUS
  <2> HIDE DEF step, back, V
  <2> QED
    BY <1>2, <2>1, <2>2, Recursion
<1>4. g[0] = <<>>
  BY <1>3 DEF Follows
<1>5. ASSUME NEW i \in 1..n PROVE g[i] = g[i - 1] \o p[i]
  <2> HIDE DEF V
  <2>1. g[i] = step[<<g[back[i]], i>>] /\ back[i] = i - 1
    BY <1>3 DEF Follows
  <2>2. i - 1 \in 0..n
    OBVIOUS
  <2>3. g[i - 1] \in V
    BY <1>3, <2>2
  <2>4. <<g[i - 1], i>> \in V \X (1..n)
    BY <2>3
  <2>5. step[<<g[i - 1], i>>] = g[i - 1] \o p[i]
    BY <2>4
  <2> QED
    BY <2>1, <2>5
<1>6. Len(p) = n
  OBVIOUS
<1>7. CASE n = 0
  <2>1. FlattenSeq(p) = p
    BY <1>6, <1>7 DEF FlattenSeq
  <2>2. p = <<>>
    <3>1. p \in Seq(Seq(S)) /\ <<>> \in Seq(Seq(S))
      BY EmptySeq
    <3>2. Len(p) = Len(<<>>) /\ \A i \in 1..Len(p) : p[i] = <<>>[i]
      BY <1>6, <1>7
    <3> QED
      BY <3>1, <3>2, SeqEqual
  <2> QED
    BY <1>3, <1>4, <1>5, <1>7, <2>1, <2>2
<1>8. CASE n # 0
  <2>1. FlattenSeq(p) = Flatten(p)[n]
    BY <1>6, <1>8 DEF FlattenSeq, Flatten
  <2> DEFINE h == [i \in 1..n |-> g[i]]
  <2>2. g[1] = p[1]
    <3>1. g[1] = g[0] \o p[1] /\ p[1] \in Seq(S)
      <4>1. 1 \in 1..n /\ 1 - 1 = 0
        BY <1>8
      <4> QED
        BY <1>5, <4>1
    <3> QED
      BY <1>4, <3>1, ConcatEmptySeq
  <2>3. h = [i \in 1..n |-> IF i = 1 THEN p[i] ELSE h[i - 1] \o p[i]]
    <3>1. ASSUME NEW i \in 1..n PROVE g[i] = IF i = 1 THEN p[i] ELSE h[i - 1] \o p[i]
      <4>1. CASE i = 1
        BY <2>2, <4>1
      <4>2. CASE i # 1
        <5>1. i - 1 \in 1..n
          BY <4>2
        <5>2. h[i - 1] = g[i - 1]
          BY <5>1
        <5> QED
          BY <1>5, <4>2, <5>2, Zenon
      <4> QED
        BY <4>1, <4>2
    <3> QED
      BY <3>1
  <2>4. Flatten(p) = [i \in 1..n |-> IF i = 1 THEN p[i] ELSE Flatten(p)[i - 1] \o p[i]]
    <3> HIDE DEF h
    <3> QED
      BY <1>6, <2>3, Zenon DEF Flatten
  <2>5. PICK u : u = Flatten(p)
    OBVIOUS
  <2> DEFINE T == {i \in 0..n : i = 0 \/ u[i] = g[i]}
  <2>6. 0 \in T
    OBVIOUS
  <2>7. ASSUME NEW i \in 1..n, i - 1 \in T PROVE i \in T
    <3>1. u[i] = IF i = 1 THEN p[i] ELSE u[i - 1] \o p[i]
      BY <2>4, <2>5, Zenon
    <3>2. CASE i = 1
      BY <2>2, <3>1, <3>2
    <3>3. CASE i # 1
      <4>1. u[i - 1] = g[i - 1]
        BY <2>7, <3>3
      <4>2. g[i] = g[i - 1] \o p[i]
        BY <1>5
      <4>3. u[i] = g[i]
        BY <3>1, <3>3, <4>1, <4>2, Zenon
      <4> QED
        BY <4>3
    <3> QED
      BY <3>2, <3>3
  <2>8. n \in T
    <3> HIDE DEF T
    <3>1. \A i \in 0..n : i \in T
      BY <2>6, <2>7, UpTo
    <3> QED
      BY <3>1
  <2>9. FlattenSeq(p) = g[n]
    BY <1>8, <2>1, <2>5, <2>8
  <2> QED
    BY <1>3, <1>4, <1>5, <2>9
<1> QED
  BY <1>7, <1>8

(* One more piece is appended to what the others give.                       *)
LEMMA FlatNext ==
  ASSUME NEW S, NEW n \in Nat, NEW p \in [1..n -> Seq(S)], NEW q \in [1..n + 1 -> Seq(S)],
         \A i \in 1..n : q[i] = p[i]
  PROVE  FlattenSeq(q) = FlattenSeq(p) \o q[n + 1] /\ FlattenSeq(p) \in Seq(S)
<1>1. PICK f \in [0..n -> Seq(S)] :
            f[0] = <<>> /\ (\A i \in 1..n : f[i] = f[i - 1] \o p[i]) /\ FlattenSeq(p) = f[n]
  <2>1. PICK f : Appends(S, n, p, f)
    BY Flat
  <2> QED
    BY <2>1 DEF Appends
<1>2. PICK m : m = n + 1
  OBVIOUS
<1>3. m \in Nat /\ m \in 1..m /\ m - 1 = n /\ \A i \in 1..n : i \in 1..m
  BY <1>2
<1>4. q \in [1..m -> Seq(S)]
  BY <1>2
<1>5. PICK g \in [0..m -> Seq(S)] :
            g[0] = <<>> /\ (\A i \in 1..m : g[i] = g[i - 1] \o q[i]) /\ FlattenSeq(q) = g[m]
  <2>1. PICK g : Appends(S, m, q, g)
    BY <1>3, <1>4, Flat
  <2> QED
    BY <2>1 DEF Appends
<1> DEFINE T == {i \in 0..n : g[i] = f[i]}
<1>6. 0 \in T
  BY <1>1, <1>5
<1>7. ASSUME NEW i \in 1..n, i - 1 \in T PROVE i \in T
  <2>1. g[i - 1] = f[i - 1] /\ q[i] = p[i] /\ i \in 1..m /\ i \in 0..n
    BY <1>3, <1>7
  <2> QED
    BY <1>1, <1>5, <2>1
<1>8. n \in T
  <2> HIDE DEF T
  <2>1. \A i \in 0..n : i \in T
    BY <1>6, <1>7, UpTo
  <2> QED
    BY <2>1
<1>9. g[m] = g[n] \o q[m]
  BY <1>3, <1>5
<1>10. n \in 0..n
  OBVIOUS
<1> QED
  BY <1>1, <1>2, <1>5, <1>8, <1>9, <1>10

(***************************************************************************)
(* Line endings: a text of any characters, and the two conversions that    *)
(* git_commit::verify tries.                                               *)
(***************************************************************************)
(* A text; the pieces of it without CR, in CRLF and in LF; where its lines   *)
(* end.                                                                      *)
Text(C) == Seq(C)
BareCR(text) == [i \in DOMAIN text |-> IF text[i] = CR THEN <<>> ELSE <<text[i]>>]
Crlf(text) == [i \in DOMAIN text |->
                 IF text[i] = LF /\ (i = 1 \/ text[i - 1] # CR) THEN <<CR, LF>> ELSE <<text[i]>>]
Lf(text) == [i \in DOMAIN text |->
               IF text[i] = CR /\ i < Len(text) /\ text[i + 1] = LF THEN <<>> ELSE <<text[i]>>]
LineFeeds(text) == {i \in DOMAIN text : text[i] = LF}

(* The two characters are not one.                                           *)
LEMMA Newlines == CR # LF
  BY DEF CR, LF

(* The conversions are made of these pieces.                                 *)
LEMMA Pieces ==
  ASSUME NEW C, CR \in C, LF \in C, NEW text \in Text(C)
  PROVE  /\ Len(text) \in Nat /\ DOMAIN text = 1..Len(text)
         /\ \A i \in 1..Len(text) : text[i] \in C
         /\ BareCR(text) \in [1..Len(text) -> Text(C)]
         /\ Crlf(text) \in [1..Len(text) -> Text(C)]
         /\ Lf(text) \in [1..Len(text) -> Text(C)]
         /\ WithoutCR(text) = FlattenSeq(BareCR(text))
         /\ ToCRLF(text) = FlattenSeq(Crlf(text))
         /\ ToLF(text) = FlattenSeq(Lf(text))
<1>1. Len(text) \in Nat /\ DOMAIN text = 1..Len(text) /\ \A i \in 1..Len(text) : text[i] \in C
  BY DEF Text
<1>2. <<>> \in Text(C) /\ <<CR, LF>> \in Text(C)
  BY DEF Text
<1>3. \A i \in 1..Len(text) : <<text[i]>> \in Text(C)
  BY <1>1 DEF Text
<1>4. BareCR(text) \in [1..Len(text) -> Text(C)]
  BY <1>1, <1>2, <1>3 DEF BareCR
<1>5. Crlf(text) \in [1..Len(text) -> Text(C)]
  BY <1>1, <1>2, <1>3 DEF Crlf
<1>6. Lf(text) \in [1..Len(text) -> Text(C)]
  BY <1>1, <1>2, <1>3 DEF Lf
<1> QED
  BY <1>1, <1>4, <1>5, <1>6 DEF WithoutCR, ToCRLF, ToLF, BareCR, Crlf, Lf

(* A text and one more character.                                            *)
LEMMA Longer ==
  ASSUME NEW C, CR \in C, LF \in C, NEW s \in Text(C), NEW c \in C
  PROVE  /\ s \o <<c>> \in Text(C) /\ Len(s \o <<c>>) = Len(s) + 1 /\ Len(s) \in Nat
         /\ \A i \in 1..Len(s) : (s \o <<c>>)[i] = s[i]
         /\ (s \o <<c>>)[Len(s) + 1] = c
<1>1. <<c>> \in Seq(C) /\ Len(<<c>>) = 1 /\ <<c>>[1] = c
  OBVIOUS
<1>2. s \in Seq(C) /\ Len(s) \in Nat
  BY DEF Text
<1>3. s \o <<c>> \in Seq(C) /\ Len(s \o <<c>>) = Len(s) + 1
  BY <1>1, <1>2, ConcatProperties
<1>4. \A i \in 1..Len(s) + 1 : (s \o <<c>>)[i] = IF i <= Len(s) THEN s[i] ELSE <<c>>[i - Len(s)]
  BY <1>1, <1>2, ConcatProperties
<1>5. \A i \in 1..Len(s) : (s \o <<c>>)[i] = s[i]
  BY <1>2, <1>4
<1>6. (s \o <<c>>)[Len(s) + 1] = c
  <2>1. Len(s) + 1 \in 1..Len(s) + 1 /\ ~(Len(s) + 1 <= Len(s)) /\ Len(s) + 1 - Len(s) = 1
    BY <1>2
  <2> QED
    BY <1>1, <1>4, <2>1
<1> QED
  BY <1>2, <1>3, <1>5, <1>6 DEF Text

(* What one more character adds to the text without CR...                    *)
LEMMA BareNext ==
  ASSUME NEW C, CR \in C, LF \in C, NEW s \in Text(C), NEW c \in C
  PROVE  /\ WithoutCR(s \o <<c>>) = WithoutCR(s) \o (IF c = CR THEN <<>> ELSE <<c>>)
         /\ WithoutCR(s) \in Text(C)
<1>1. PICK t, n : t = s \o <<c>> /\ n = Len(s)
  OBVIOUS
<1>2. /\ t \in Text(C) /\ Len(t) = n + 1 /\ n \in Nat
      /\ \A i \in 1..n : t[i] = s[i]
      /\ t[n + 1] = c
  BY <1>1, Longer
<1>3. PICK p, q : p = BareCR(s) /\ q = BareCR(t)
  OBVIOUS
<1>4. p \in [1..n -> Text(C)] /\ WithoutCR(s) = FlattenSeq(p) /\ DOMAIN s = 1..n
  BY <1>1, <1>3, Pieces
<1>5. q \in [1..n + 1 -> Text(C)] /\ WithoutCR(t) = FlattenSeq(q) /\ DOMAIN t = 1..n + 1
  BY <1>2, <1>3, Pieces
<1>6. \A i \in 1..n : q[i] = p[i]
  BY <1>2, <1>3, <1>4, <1>5 DEF BareCR
<1>7. q[n + 1] = IF c = CR THEN <<>> ELSE <<c>>
  <2>1. n + 1 \in 1..n + 1
    BY <1>2
  <2> QED
    BY <1>2, <1>3, <1>5, <2>1 DEF BareCR
<1>8. FlattenSeq(q) = FlattenSeq(p) \o q[n + 1] /\ FlattenSeq(p) \in Text(C)
  BY <1>2, <1>4, <1>5, <1>6, FlatNext DEF Text
<1> QED
  BY <1>1, <1>4, <1>5, <1>7, <1>8

(* ... and to the line feeds.                                                *)
LEMMA FeedsNext ==
  ASSUME NEW C, CR \in C, LF \in C, NEW s \in Text(C), NEW c \in C
  PROVE  /\ LineFeeds(s \o <<c>>) = LineFeeds(s) \cup (IF c = LF THEN {Len(s) + 1} ELSE {})
         /\ IsFiniteSet(LineFeeds(s))
         /\ Cardinality(LineFeeds(s)) \in Nat
         /\ Cardinality(LineFeeds(s \o <<c>>)) = Cardinality(LineFeeds(s)) + (IF c = LF THEN 1 ELSE 0)
<1>1. PICK t, n : t = s \o <<c>> /\ n = Len(s)
  OBVIOUS
<1>2. /\ t \in Text(C) /\ Len(t) = n + 1 /\ n \in Nat
      /\ \A i \in 1..n : t[i] = s[i]
      /\ t[n + 1] = c
  BY <1>1, Longer
<1>3. DOMAIN s = 1..n /\ DOMAIN t = 1..n + 1
  BY <1>1, <1>2, Pieces
<1>4. 1..n + 1 = 1..n \cup {n + 1} /\ n + 1 \notin 1..n
  BY <1>2
<1>5. LineFeeds(t) = LineFeeds(s) \cup (IF c = LF THEN {n + 1} ELSE {})
  BY <1>2, <1>3, <1>4 DEF LineFeeds
<1>6. IsFiniteSet(LineFeeds(s)) /\ n + 1 \notin LineFeeds(s)
  <2>1. IsFiniteSet(1..n)
    BY <1>2, FS_Interval
  <2>2. LineFeeds(s) \in SUBSET (1..n)
    BY <1>3 DEF LineFeeds
  <2> QED
    BY <1>4, <2>1, <2>2, FS_Subset
<1>7. PICK m : m = Cardinality(LineFeeds(s))
  OBVIOUS
<1>8. m \in Nat
  BY <1>6, <1>7, FS_CardinalityType
<1>9. Cardinality(LineFeeds(t)) = m + (IF c = LF THEN 1 ELSE 0)
  <2>1. CASE c = LF
    BY <1>5, <1>6, <1>7, <2>1, FS_AddElement
  <2>2. CASE c # LF
    <3>1. LineFeeds(t) = LineFeeds(s) /\ m + 0 = m
      BY <1>5, <1>8, <2>2
    <3> QED
      BY <1>7, <2>2, <3>1
  <2> QED
    BY <2>1, <2>2
<1> QED
  BY <1>1, <1>5, <1>6, <1>7, <1>8, <1>9

(* The empty text.                                                           *)
LEMMA BareEmpty ==
  ASSUME NEW C, CR \in C, LF \in C
  PROVE  <<>> \in Text(C) /\ WithoutCR(<<>>) = <<>> /\ LineFeeds(<<>>) = {} /\ ToCRLF(<<>>) = <<>>
<1>1. <<>> \in Text(C) /\ Len(<<>>) = 0
  BY EmptySeq DEF Text
<1>2. PICK n : n = 0
  OBVIOUS
<1>3. n \in Nat /\ Len(<<>>) = n
  BY <1>1, <1>2
<1>4. DOMAIN <<>> = {}
  BY <1>1
<1>5. BareCR(<<>>) \in [1..n -> Text(C)] /\ WithoutCR(<<>>) = FlattenSeq(BareCR(<<>>))
  BY <1>1, <1>2, Pieces
<1>6. Crlf(<<>>) \in [1..n -> Text(C)] /\ ToCRLF(<<>>) = FlattenSeq(Crlf(<<>>))
  BY <1>1, <1>2, Pieces
<1>7. FlattenSeq(BareCR(<<>>)) = <<>>
  <2>1. PICK p : p = BareCR(<<>>)
    OBVIOUS
  <2>2. p \in [1..n -> Seq(C)]
    BY <1>5, <2>1 DEF Text
  <2>3. PICK f \in [0..n -> Seq(C)] :
            f[0] = <<>> /\ (\A i \in 1..n : f[i] = f[i - 1] \o p[i]) /\ FlattenSeq(p) = f[n]
    <3>1. PICK f : Appends(C, n, p, f)
      BY <1>3, <2>2, Flat
    <3> QED
      BY <3>1 DEF Appends
  <2> QED
    BY <1>2, <2>1, <2>3
<1>8. FlattenSeq(Crlf(<<>>)) = <<>>
  <2>1. PICK p : p = Crlf(<<>>)
    OBVIOUS
  <2>2. p \in [1..n -> Seq(C)]
    BY <1>6, <2>1 DEF Text
  <2>3. PICK f \in [0..n -> Seq(C)] :
            f[0] = <<>> /\ (\A i \in 1..n : f[i] = f[i - 1] \o p[i]) /\ FlattenSeq(p) = f[n]
    <3>1. PICK f : Appends(C, n, p, f)
      BY <1>3, <2>2, Flat
    <3> QED
      BY <3>1 DEF Appends
  <2> QED
    BY <1>2, <2>1, <2>3
<1>9. LineFeeds(<<>>) = {}
  BY <1>4 DEF LineFeeds
<1> QED
  BY <1>1, <1>5, <1>6, <1>7, <1>8, <1>9

(* What one piece of a conversion does to the rest and to the line count.    *)
(* What may stand for a character without changing anything but CRs: itself, *)
(* nothing for a CR, and CRLF for an LF.                                     *)
Piece(p, c) == p = <<c>> \/ (p = <<>> /\ c = CR) \/ (p = <<CR, LF>> /\ c = LF)

(* Such a piece adds what the character would have added.                    *)
LEMMA PieceAdded ==
  ASSUME NEW C, CR \in C, LF \in C, NEW s \in Text(C), NEW c \in C, NEW p, Piece(p, c)
  PROVE  /\ WithoutCR(s \o p) = WithoutCR(s) \o (IF c = CR THEN <<>> ELSE <<c>>)
         /\ Cardinality(LineFeeds(s \o p)) = Cardinality(LineFeeds(s)) + (IF c = LF THEN 1 ELSE 0)
         /\ s \o p \in Text(C)
<1>1. CASE p = <<c>>
  BY <1>1, BareNext, FeedsNext, Longer
<1>2. CASE p = <<>> /\ c = CR
  <2>1. s \o p = s /\ WithoutCR(s) \o <<>> = WithoutCR(s)
    <3>1. s \in Seq(C) /\ WithoutCR(s) \in Seq(C)
      BY BareNext DEF Text
    <3> QED
      BY <1>2, <3>1, ConcatEmptySeq
  <2>2. PICK m : m = Cardinality(LineFeeds(s))
    OBVIOUS
  <2>3. m + 0 = m
    <3>1. m \in Nat
      BY <2>2, FeedsNext
    <3> QED
      BY <3>1
  <2>4. c # LF
    BY <1>2, Newlines
  <2> QED
    BY <1>2, <2>1, <2>2, <2>3, <2>4
<1>3. CASE p = <<CR, LF>> /\ c = LF
  <2>1. PICK u : u = s \o <<CR>>
    OBVIOUS
  <2>2. s \o p = u \o <<LF>>
    <3>1. <<CR>> \in Seq(C) /\ <<LF>> \in Seq(C) /\ s \in Seq(C)
      BY DEF Text
    <3>2. <<CR, LF>> = <<CR>> \o <<LF>>
      OBVIOUS
    <3>3. (s \o <<CR>>) \o <<LF>> = s \o (<<CR>> \o <<LF>>)
      BY <3>1, ConcatAssociative
    <3> QED
      BY <1>3, <2>1, <3>2, <3>3
  <2>3. u \in Text(C) /\ u \o <<LF>> \in Text(C)
    <3>1. u \in Text(C)
      BY <2>1, Longer
    <3> QED
      BY <3>1, Longer
  <2>4. WithoutCR(u) = WithoutCR(s) /\ WithoutCR(s) \in Text(C)
    <3>1. WithoutCR(u) = WithoutCR(s) \o (IF CR = CR THEN <<>> ELSE <<CR>>) /\ WithoutCR(s) \in Text(C)
      BY <2>1, BareNext
    <3>2. WithoutCR(s) \o <<>> = WithoutCR(s)
      BY <3>1, ConcatEmptySeq DEF Text
    <3> QED
      BY <3>1, <3>2
  <2>5. WithoutCR(u \o <<LF>>) = WithoutCR(u) \o <<LF>>
    <3>1. WithoutCR(u \o <<LF>>) = WithoutCR(u) \o (IF LF = CR THEN <<>> ELSE <<LF>>)
      BY <2>3, BareNext
    <3> QED
      BY <3>1, Newlines
  <2>6. Cardinality(LineFeeds(u)) = Cardinality(LineFeeds(s))
    <3>1. /\ Cardinality(LineFeeds(s)) \in Nat
          /\ Cardinality(LineFeeds(u)) = Cardinality(LineFeeds(s)) + (IF CR = LF THEN 1 ELSE 0)
      BY <2>1, FeedsNext
    <3>2. PICK m : m = Cardinality(LineFeeds(s))
      OBVIOUS
    <3>3. m + 0 = m
      BY <3>1, <3>2
    <3> QED
      BY <3>1, <3>2, <3>3, Newlines
  <2>7. Cardinality(LineFeeds(u \o <<LF>>)) = Cardinality(LineFeeds(u)) + (IF LF = LF THEN 1 ELSE 0)
    BY <2>3, FeedsNext
  <2> QED
    BY <1>3, <2>2, <2>3, <2>4, <2>5, <2>6, <2>7, Newlines
<1> QED
  BY <1>1, <1>2, <1>3 DEF Piece

(* Lines are counted by their ends, and one more if the last has none.       *)
LEMMA LinesOf ==
  ASSUME NEW C, CR \in C, LF \in C, NEW t \in Text(C)
  PROVE  LinesIn(t) = Cardinality(LineFeeds(t)) + (IF Len(t) = 0 \/ t[Len(t)] # LF THEN 1 ELSE 0)
<1>1. t = <<>> <=> Len(t) = 0
  <2>1. t \in Seq(C)
    BY DEF Text
  <2>2. t # <<>> => Len(t) \in Nat \ {0}
    BY <2>1, EmptySeq
  <2> QED
    BY <2>2, EmptySeq
<1> QED
  BY <1>1 DEF LinesIn, LineFeeds

(* A text converted piece by piece keeps its characters and its lines. *)
(* A text of such pieces differs from the one they stand for in CRs only,    *)
(* and has as many lines, if its last character stays.                       *)
LEMMA PiecesKeep ==
  ASSUME NEW C, CR \in C, LF \in C, NEW t \in Text(C), NEW p \in [1..Len(t) -> Text(C)],
         \A i \in 1..Len(t) : Piece(p[i], t[i]),
         Len(t) # 0 => p[Len(t)] # <<>>
  PROVE  /\ FlattenSeq(p) \in Text(C)
         /\ WithoutCR(FlattenSeq(p)) = WithoutCR(t)
         /\ LinesIn(FlattenSeq(p)) = LinesIn(t)
<1>1. PICK n : n = Len(t)
  OBVIOUS
<1>2. /\ n \in Nat /\ DOMAIN t = 1..n /\ \A i \in 1..n : t[i] \in C
      /\ BareCR(t) \in [1..n -> Text(C)] /\ WithoutCR(t) = FlattenSeq(BareCR(t))
  BY <1>1, Pieces
<1>3. PICK f \in [0..n -> Seq(C)] :
            f[0] = <<>> /\ (\A i \in 1..n : f[i] = f[i - 1] \o p[i]) /\ FlattenSeq(p) = f[n]
  <2>1. p \in [1..n -> Seq(C)]
    BY <1>1 DEF Text
  <2>2. PICK f : Appends(C, n, p, f)
    BY <1>2, <2>1, Flat
  <2> QED
    BY <2>2 DEF Appends
<1>4. PICK b : b = BareCR(t)
  OBVIOUS
<1>5. PICK w \in [0..n -> Seq(C)] :
            w[0] = <<>> /\ (\A i \in 1..n : w[i] = w[i - 1] \o b[i]) /\ FlattenSeq(b) = w[n]
  <2>1. b \in [1..n -> Seq(C)]
    BY <1>2, <1>4 DEF Text
  <2>2. PICK w : Appends(C, n, b, w)
    BY <1>2, <2>1, Flat
  <2> QED
    BY <2>2 DEF Appends
<1> DEFINE Feeds(i) == {k \in 1..i : t[k] = LF}
           S == {i \in 0..n : WithoutCR(f[i]) = w[i] /\ Cardinality(LineFeeds(f[i])) = Cardinality(Feeds(i))}
<1>6. 0 \in S
  <2>1. Feeds(0) = {}
    OBVIOUS
  <2>2. WithoutCR(f[0]) = w[0] /\ LineFeeds(f[0]) = {}
    BY <1>3, <1>5, BareEmpty
  <2> QED
    BY <1>2, <2>1, <2>2
<1>7. ASSUME NEW i \in 1..n, i - 1 \in S PROVE i \in S
  <2>1. PICK s, c, q : s = f[i - 1] /\ c = t[i] /\ q = p[i]
    OBVIOUS
  <2>2. s \in Text(C) /\ c \in C /\ Piece(q, c) /\ f[i] = s \o q
    <3>1. i - 1 \in 0..n
      BY <1>2
    <3> QED
      BY <1>1, <1>2, <1>3, <2>1, <3>1 DEF Text
  <2>3. WithoutCR(s) = w[i - 1] /\ Cardinality(LineFeeds(s)) = Cardinality(Feeds(i - 1))
    BY <1>7, <2>1
  <2>4. b[i] = IF c = CR THEN <<>> ELSE <<c>>
    BY <1>2, <1>4, <2>1 DEF BareCR
  <2>5. /\ WithoutCR(s \o q) = WithoutCR(s) \o (IF c = CR THEN <<>> ELSE <<c>>)
        /\ Cardinality(LineFeeds(s \o q)) = Cardinality(LineFeeds(s)) + (IF c = LF THEN 1 ELSE 0)
    BY <2>2, PieceAdded
  <2>6. WithoutCR(f[i]) = w[i]
    BY <1>5, <2>2, <2>3, <2>4, <2>5
  <2>7. Cardinality(Feeds(i)) = Cardinality(Feeds(i - 1)) + (IF c = LF THEN 1 ELSE 0)
    <3>1. 1..i = 1..i - 1 \cup {i} /\ i \notin 1..i - 1
      BY <1>2
    <3>2. IsFiniteSet(1..i - 1)
      BY FS_Interval
    <3>3. Feeds(i - 1) \in SUBSET (1..i - 1)
      OBVIOUS
    <3>4. IsFiniteSet(Feeds(i - 1)) /\ i \notin Feeds(i - 1)
      BY <3>1, <3>2, <3>3, FS_Subset
    <3>5. CASE c = LF
      <4>1. Feeds(i) = Feeds(i - 1) \cup {i}
        BY <2>1, <3>1, <3>5
      <4> HIDE DEF Feeds
      <4> QED
        BY <3>4, <3>5, <4>1, FS_AddElement
    <3>6. CASE c # LF
      <4>1. Feeds(i) = Feeds(i - 1)
        BY <2>1, <3>1, <3>6
      <4> HIDE DEF Feeds
      <4>2. PICK m : m = Cardinality(Feeds(i - 1))
        OBVIOUS
      <4>3. m \in Nat
        BY <3>4, <4>2, FS_CardinalityType
      <4>4. m + 0 = m
        BY <4>3
      <4> QED
        BY <3>6, <4>1, <4>2, <4>4
    <3> QED
      BY <3>5, <3>6
  <2>8. i \in 0..n
    BY <1>2
  <2> QED
    BY <2>2, <2>3, <2>5, <2>6, <2>7, <2>8
<1>8. n \in S
  <2> HIDE DEF S
  <2>1. \A i \in 0..n : i \in S
    BY <1>2, <1>6, <1>7, UpTo
  <2> QED
    BY <1>2, <2>1
<1>9. Feeds(n) = LineFeeds(t)
  BY <1>2 DEF LineFeeds
<1>10. f[n] \in Text(C)
  BY <1>2, <1>3 DEF Text
<1>11. (Len(f[n]) = 0 \/ f[n][Len(f[n])] # LF) <=> (Len(t) = 0 \/ t[Len(t)] # LF)
  <2>1. CASE n = 0
    BY <1>1, <1>3, <2>1, EmptySeq
  <2>2. CASE n # 0
    <3>1. PICK s, q, c : s = f[n - 1] /\ q = p[n] /\ c = t[n]
      OBVIOUS
    <3>2. n - 1 \in 0..n /\ n \in 1..n
      BY <1>2, <2>2
    <3>3. s \in Seq(C) /\ f[n] = s \o q /\ Piece(q, c) /\ q # <<>> /\ c \in C
      BY <1>1, <1>2, <1>3, <2>2, <3>1, <3>2
    <3>4. PICK m : m = Len(s)
      OBVIOUS
    <3>5. m \in Nat
      BY <3>3, <3>4
    <3>6. CASE q = <<c>>
      <4>1. s \in Text(C)
        BY <3>3 DEF Text
      <4>2. Len(s \o <<c>>) = m + 1 /\ (s \o <<c>>)[m + 1] = c
        BY <3>3, <3>4, <4>1, Longer
      <4>3. m + 1 # 0
        BY <3>5
      <4> QED
        BY <1>1, <2>2, <3>1, <3>3, <3>6, <4>2, <4>3
    <3>7. CASE q = <<CR, LF>> /\ c = LF
      <4>1. <<CR, LF>> \in Seq(C) /\ Len(<<CR, LF>>) = 2 /\ <<CR, LF>>[2] = LF
        OBVIOUS
      <4>2. Len(s \o <<CR, LF>>) = m + 2
        BY <3>3, <3>4, <4>1, ConcatProperties
      <4>3. \A i \in 1..m + 2 : (s \o <<CR, LF>>)[i] = IF i <= m THEN s[i] ELSE <<CR, LF>>[i - m]
        BY <3>3, <3>4, <4>1, ConcatProperties
      <4>4. m + 2 \in 1..m + 2 /\ ~(m + 2 <= m) /\ m + 2 - m = 2 /\ m + 2 # 0
        BY <3>5
      <4>5. (s \o <<CR, LF>>)[m + 2] = LF
        <5>1. PICK k : k = m + 2
          OBVIOUS
        <5>2. k \in 1..m + 2 /\ ~(k <= m) /\ k - m = 2
          BY <3>5, <5>1
        <5>3. (s \o <<CR, LF>>)[k] = <<CR, LF>>[k - m]
          BY <4>3, <5>2, Zenon
        <5> QED
          BY <4>1, <5>1, <5>2, <5>3
      <4> QED
        BY <1>1, <2>2, <3>1, <3>3, <3>7, <4>2, <4>4, <4>5
    <3> QED
      BY <3>3, <3>6, <3>7 DEF Piece
  <2> QED
    BY <2>1, <2>2
<1>12. LinesIn(f[n]) = LinesIn(t)
  <2>1. LinesIn(t) = Cardinality(LineFeeds(t)) + (IF Len(t) = 0 \/ t[Len(t)] # LF THEN 1 ELSE 0)
    BY LinesOf
  <2>2. LinesIn(f[n]) = Cardinality(LineFeeds(f[n])) + (IF Len(f[n]) = 0 \/ f[n][Len(f[n])] # LF THEN 1 ELSE 0)
    BY <1>10, LinesOf
  <2>3. Cardinality(LineFeeds(f[n])) = Cardinality(LineFeeds(t))
    BY <1>8, <1>9
  <2> QED
    BY <1>11, <2>1, <2>2, <2>3
<1> QED
  BY <1>2, <1>3, <1>4, <1>5, <1>8, <1>10, <1>12

(* ToCRLF is such a conversion...                                            *)
LEMMA CrlfKeeps ==
  ASSUME NEW C, CR \in C, LF \in C, NEW t \in Text(C)
  PROVE  /\ ToCRLF(t) \in Text(C)
         /\ WithoutCR(ToCRLF(t)) = WithoutCR(t)
         /\ LinesIn(ToCRLF(t)) = LinesIn(t)
<1>1. PICK p : p = Crlf(t)
  OBVIOUS
<1>2. p \in [1..Len(t) -> Text(C)] /\ ToCRLF(t) = FlattenSeq(p) /\ DOMAIN t = 1..Len(t) /\ Len(t) \in Nat
  BY <1>1, Pieces
<1>3. ASSUME NEW i \in 1..Len(t) PROVE Piece(p[i], t[i]) /\ p[i] # <<>>
  <2>1. p[i] = IF t[i] = LF /\ (i = 1 \/ t[i - 1] # CR) THEN <<CR, LF>> ELSE <<t[i]>>
    BY <1>1, <1>2 DEF Crlf
  <2>2. <<CR, LF>> # <<>> /\ <<t[i]>> # <<>>
    OBVIOUS
  <2> QED
    BY <2>1, <2>2 DEF Piece
<1>4. Len(t) # 0 => p[Len(t)] # <<>>
  <2>1. PICK n : n = Len(t)
    OBVIOUS
  <2>2. n # 0 => n \in 1..n
    BY <1>2, <2>1
  <2> QED
    BY <1>3, <2>1, <2>2, Zenon
<1> QED
  BY <1>2, <1>3, <1>4, PiecesKeep

(* ... and ToLF another.                                                     *)
LEMMA LfKeeps ==
  ASSUME NEW C, CR \in C, LF \in C, NEW t \in Text(C)
  PROVE  /\ ToLF(t) \in Text(C)
         /\ WithoutCR(ToLF(t)) = WithoutCR(t)
         /\ LinesIn(ToLF(t)) = LinesIn(t)
<1>1. PICK p : p = Lf(t)
  OBVIOUS
<1>2. p \in [1..Len(t) -> Text(C)] /\ ToLF(t) = FlattenSeq(p) /\ DOMAIN t = 1..Len(t) /\ Len(t) \in Nat
  BY <1>1, Pieces
<1>3. ASSUME NEW i \in 1..Len(t) PROVE Piece(p[i], t[i]) /\ (i = Len(t) => p[i] # <<>>)
  <2>1. p[i] = IF t[i] = CR /\ i < Len(t) /\ t[i + 1] = LF THEN <<>> ELSE <<t[i]>>
    BY <1>1, <1>2 DEF Lf
  <2>2. <<t[i]>> # <<>>
    OBVIOUS
  <2>3. Piece(p[i], t[i])
    BY <2>1 DEF Piece
  <2>4. i = Len(t) => ~(i < Len(t))
    BY <1>2
  <2> QED
    BY <2>1, <2>2, <2>3, <2>4
<1>4. Len(t) # 0 => p[Len(t)] # <<>>
  <2>1. PICK n : n = Len(t)
    OBVIOUS
  <2>2. n # 0 => n \in 1..n
    BY <1>2, <2>1
  <2> QED
    BY <1>3, <2>1, <2>2, Zenon
<1> QED
  BY <1>2, <1>3, <1>4, PiecesKeep

(* What a text with one kind of line ending is converted to. *)
(* A text without CRs has none to lose.                                      *)
LEMMA UnixBare ==
  ASSUME NEW C, CR \in C, LF \in C, NEW t \in Text(C), Unix(t)
  PROVE  WithoutCR(t) = t
<1>1. PICK n, b : n = Len(t) /\ b = BareCR(t)
  OBVIOUS
<1>2. /\ n \in Nat /\ DOMAIN t = 1..n /\ \A i \in 1..n : t[i] \in C
      /\ b \in [1..n -> Seq(C)] /\ WithoutCR(t) = FlattenSeq(b)
  BY <1>1, Pieces DEF Text
<1>3. PICK w \in [0..n -> Seq(C)] :
            w[0] = <<>> /\ (\A i \in 1..n : w[i] = w[i - 1] \o b[i]) /\ FlattenSeq(b) = w[n]
  <2>1. PICK w : Appends(C, n, b, w)
    BY <1>2, Flat
  <2> QED
    BY <2>1 DEF Appends
<1> DEFINE S == {i \in 0..n : w[i] = SubSeq(t, 1, i)}
<1>4. 0 \in S
  <2>1. SubSeq(t, 1, 0) = <<>>
    BY SubSeqEmpty
  <2> QED
    BY <1>2, <1>3, <2>1
<1>5. ASSUME NEW i \in 1..n, i - 1 \in S PROVE i \in S
  <2>1. b[i] = <<t[i]>>
    BY <1>1, <1>2 DEF BareCR, Unix
  <2>2. SubSeq(t, 1, i) = SubSeq(t, 1, i - 1) \o <<t[i]>>
    <3>1. t \in Seq(C) /\ 1 \in 1..Len(t) /\ i \in 1..Len(t)
      BY <1>1, <1>2 DEF Text
    <3> QED
      BY <3>1, SubSeqRecursiveSecond
  <2>3. w[i] = SubSeq(t, 1, i)
    BY <1>3, <1>5, <2>1, <2>2
  <2> QED
    BY <1>2, <2>3
<1>6. n \in S
  <2> HIDE DEF S
  <2>1. \A i \in 0..n : i \in S
    BY <1>2, <1>4, <1>5, UpTo
  <2> QED
    BY <1>2, <2>1
<1>7. SubSeq(t, 1, n) = t
  BY <1>1, SubSeqFull DEF Text
<1> QED
  BY <1>2, <1>3, <1>6, <1>7

(* ToLF takes every CR from a text in CRLF.                                  *)
LEMMA DosBare ==
  ASSUME NEW C, CR \in C, LF \in C, NEW t \in Text(C), Dos(t)
  PROVE  ToLF(t) = WithoutCR(t)
<1>1. DOMAIN t = 1..Len(t) /\ WithoutCR(t) = FlattenSeq(BareCR(t)) /\ ToLF(t) = FlattenSeq(Lf(t))
  BY Pieces
<1>2. Lf(t) = BareCR(t)
  BY DEF Dos, Lf, BareCR
<1> QED
  BY <1>1, <1>2

(* What one more character adds to a text put in CRLF.                       *)
LEMMA CrlfNext ==
  ASSUME NEW C, CR \in C, LF \in C, NEW s \in Text(C), NEW c \in C, Unix(s)
  PROVE  ToCRLF(s \o <<c>>) = ToCRLF(s) \o (IF c = LF THEN <<CR, LF>> ELSE <<c>>)
<1>1. PICK t, n : t = s \o <<c>> /\ n = Len(s)
  OBVIOUS
<1>2. /\ t \in Text(C) /\ Len(t) = n + 1 /\ n \in Nat
      /\ \A i \in 1..n : t[i] = s[i]
      /\ t[n + 1] = c
  BY <1>1, Longer
<1>3. PICK p, q : p = Crlf(s) /\ q = Crlf(t)
  OBVIOUS
<1>4. p \in [1..n -> Seq(C)] /\ ToCRLF(s) = FlattenSeq(p) /\ DOMAIN s = 1..n
  BY <1>1, <1>3, Pieces DEF Text
<1>5. q \in [1..n + 1 -> Seq(C)] /\ ToCRLF(t) = FlattenSeq(q) /\ DOMAIN t = 1..n + 1
  BY <1>2, <1>3, Pieces DEF Text
<1>6. ASSUME NEW i \in 1..n PROVE q[i] = p[i]
  <2>1. i \in 1..n + 1 /\ t[i] = s[i] /\ (i # 1 => i - 1 \in 1..n)
    BY <1>2
  <2>2. i # 1 => t[i - 1] = s[i - 1]
    BY <1>2, <2>1
  <2> QED
    BY <1>3, <1>4, <1>5, <2>1, <2>2 DEF Crlf
<1>7. q[n + 1] = IF c = LF THEN <<CR, LF>> ELSE <<c>>
  <2>1. PICK m : m = n + 1
    OBVIOUS
  <2>2. m \in DOMAIN t /\ m - 1 = n /\ t[m] = c
    BY <1>2, <1>5, <2>1
  <2>3. q[m] = IF t[m] = LF /\ (m = 1 \/ t[m - 1] # CR) THEN <<CR, LF>> ELSE <<t[m]>>
    BY <1>3, <2>2, Zenon DEF Crlf
  <2>4. m = 1 \/ t[m - 1] # CR
    <3>1. m = 1 \/ n \in 1..n
      BY <1>2, <2>1
    <3> QED
      BY <1>2, <1>4, <2>2, <3>1 DEF Unix
  <2>5. q[m] = IF c = LF THEN <<CR, LF>> ELSE <<c>>
    BY <2>2, <2>3, <2>4, Zenon
  <2> QED
    BY <2>1, <2>5
<1>8. FlattenSeq(q) = FlattenSeq(p) \o q[n + 1]
  BY <1>2, <1>4, <1>5, <1>6, FlatNext
<1> QED
  BY <1>1, <1>4, <1>5, <1>7, <1>8

(* A prefix of a text in CRLF, less a CR whose LF is not there yet.          *)
Half(t, i) == IF i > 0 /\ t[i] = CR THEN i - 1 ELSE i

(* A text in CRLF, without its CRs and put in CRLF again, is that text.      *)
LEMMA DosRestored ==
  ASSUME NEW C, CR \in C, LF \in C, NEW t \in Text(C), Dos(t)
  PROVE  ToCRLF(WithoutCR(t)) = t
<1>1. PICK n, b : n = Len(t) /\ b = BareCR(t)
  OBVIOUS
<1>2. /\ n \in Nat /\ DOMAIN t = 1..n /\ \A i \in 1..n : t[i] \in C
      /\ b \in [1..n -> Seq(C)] /\ WithoutCR(t) = FlattenSeq(b) /\ t \in Seq(C)
  BY <1>1, Pieces DEF Text
<1>3. PICK w \in [0..n -> Seq(C)] :
            w[0] = <<>> /\ (\A i \in 1..n : w[i] = w[i - 1] \o b[i]) /\ FlattenSeq(b) = w[n]
  <2>1. PICK w : Appends(C, n, b, w)
    BY <1>2, Flat
  <2> QED
    BY <2>1 DEF Appends
<1>4. ASSUME NEW i \in 1..n
      PROVE  /\ t[i] = LF => i > 1 /\ t[i - 1] = CR
             /\ t[i] = CR => i < n /\ t[i + 1] = LF
  BY <1>1, <1>2 DEF Dos
<1>5. ASSUME NEW i \in 1..n PROVE SubSeq(t, 1, i) = SubSeq(t, 1, i - 1) \o <<t[i]>>
  <2>1. 1 \in 1..Len(t) /\ i \in 1..Len(t)
    BY <1>1, <1>2
  <2> QED
    BY <1>2, <2>1, SubSeqRecursiveSecond
<1> DEFINE S == {i \in 0..n : Unix(w[i]) /\ ToCRLF(w[i]) = SubSeq(t, 1, Half(t, i))}
<1>6. 0 \in S
  <2>1. SubSeq(t, 1, 0) = <<>> /\ Half(t, 0) = 0
    BY SubSeqEmpty DEF Half
  <2>2. ToCRLF(<<>>) = <<>>
    BY BareEmpty
  <2>3. Unix(<<>>)
    BY DEF Unix
  <2> QED
    BY <1>2, <1>3, <2>1, <2>2, <2>3
<1>7. ASSUME NEW i \in 1..n, i - 1 \in S PROVE i \in S
  <2>1. PICK s, c : s = w[i - 1] /\ c = t[i]
    OBVIOUS
  <2>2. s \in Text(C) /\ c \in C /\ i - 1 \in 0..n /\ i \in 0..n
    BY <1>2, <1>3, <2>1 DEF Text
  <2>3. Unix(s) /\ ToCRLF(s) = SubSeq(t, 1, Half(t, i - 1))
    BY <1>7, <2>1
  <2>4. w[i] = s \o (IF c = CR THEN <<>> ELSE <<c>>)
    BY <1>1, <1>2, <1>3, <2>1 DEF BareCR
  <2>5. CASE c = CR
    <3>1. w[i] = s
      BY <2>2, <2>4, <2>5, ConcatEmptySeq DEF Text
    <3>2. Half(t, i - 1) = i - 1
      <4>1. i - 1 > 0 => t[i - 1] # CR
        <5>1. i - 1 > 0 => i - 1 \in 1..n /\ i - 1 + 1 = i
          BY <1>2
        <5>2. i - 1 > 0 /\ t[i - 1] = CR => t[i] = LF
          BY <1>4, <5>1
        <5> QED
          BY <2>1, <2>5, <5>2, Newlines
      <4> QED
        BY <4>1 DEF Half
    <3>3. Half(t, i) = i - 1
      BY <2>1, <2>5 DEF Half
    <3> QED
      BY <2>2, <2>3, <3>1, <3>2, <3>3
  <2>6. CASE c # CR
    <3>1. w[i] = s \o <<c>>
      BY <2>4, <2>6
    <3>2. Unix(w[i])
      <4>1. /\ s \o <<c>> \in Text(C) /\ Len(s \o <<c>>) = Len(s) + 1 /\ Len(s) \in Nat
            /\ \A k \in 1..Len(s) : (s \o <<c>>)[k] = s[k]
            /\ (s \o <<c>>)[Len(s) + 1] = c
        BY <2>2, Longer
      <4>2. DOMAIN (s \o <<c>>) = 1..Len(s) + 1 /\ DOMAIN s = 1..Len(s)
        BY <2>2, <4>1, Pieces
      <4>3. ASSUME NEW k \in 1..Len(s) + 1 PROVE (s \o <<c>>)[k] # CR
        <5>1. k \in 1..Len(s) \/ k = Len(s) + 1
          BY <4>1
        <5> QED
          BY <2>3, <2>6, <4>1, <4>2, <5>1 DEF Unix
      <4> QED
        BY <3>1, <4>2, <4>3 DEF Unix
    <3>3. ToCRLF(w[i]) = SubSeq(t, 1, Half(t, i - 1)) \o (IF c = LF THEN <<CR, LF>> ELSE <<c>>)
      BY <2>2, <2>3, <3>1, CrlfNext
    <3>4. Half(t, i) = i
      BY <2>1, <2>6 DEF Half
    <3>5. CASE c = LF
      <4>1. i > 1 /\ t[i - 1] = CR
        BY <1>4, <2>1, <3>5
      <4>2. PICK j : j = i - 1
        OBVIOUS
      <4>3. j \in 1..n /\ j > 0 /\ j - 1 \in 0..n /\ t[j] = CR
        BY <1>2, <4>1, <4>2
      <4>4. Half(t, j) = j - 1
        BY <4>3 DEF Half
      <4>5. SubSeq(t, 1, j) = SubSeq(t, 1, j - 1) \o <<CR>>
        BY <1>5, <4>3
      <4>6. SubSeq(t, 1, i) = SubSeq(t, 1, j) \o <<LF>>
        BY <1>5, <2>1, <3>5, <4>2
      <4>7. (SubSeq(t, 1, j - 1) \o <<CR>>) \o <<LF>> = SubSeq(t, 1, j - 1) \o (<<CR>> \o <<LF>>)
        <5>1. \A k \in 1..j - 1 : t[k] \in C
          BY <1>2, <4>3
        <5>2. SubSeq(t, 1, j - 1) \in Seq(C)
          BY <4>3, <5>1, SubSeqProperties
        <5>3. <<CR>> \in Seq(C) /\ <<LF>> \in Seq(C)
          OBVIOUS
        <5> QED
          <6>1. PICK u : u = SubSeq(t, 1, j - 1)
            OBVIOUS
          <6>2. (u \o <<CR>>) \o <<LF>> = u \o (<<CR>> \o <<LF>>)
            <7>1. u \in Seq(C)
              BY <5>2, <6>1
            <7> QED
              BY <5>3, <7>1, ConcatAssociative
          <6> QED
            BY <6>1, <6>2
      <4>8. <<CR, LF>> = <<CR>> \o <<LF>>
        OBVIOUS
      <4>9. ToCRLF(w[i]) = SubSeq(t, 1, j - 1) \o <<CR, LF>>
        BY <3>3, <3>5, <4>2, <4>4
      <4>10. ToCRLF(w[i]) = SubSeq(t, 1, i)
        BY <4>5, <4>6, <4>7, <4>8, <4>9
      <4> QED
        BY <2>2, <3>2, <3>4, <4>10
    <3>6. CASE c # LF
      <4>1. i - 1 > 0 => t[i - 1] # CR
        <5>1. i - 1 > 0 => i - 1 \in 1..n /\ i - 1 + 1 = i
          BY <1>2
        <5>2. i - 1 > 0 /\ t[i - 1] = CR => t[i] = LF
          BY <1>4, <5>1
        <5> QED
          BY <2>1, <3>6, <5>2
      <4>2. Half(t, i - 1) = i - 1
        BY <4>1 DEF Half
      <4>3. ToCRLF(w[i]) = SubSeq(t, 1, i)
        BY <1>5, <2>1, <3>3, <3>6, <4>2
      <4> QED
        BY <2>2, <3>2, <3>4, <4>3
    <3> QED
      BY <3>5, <3>6
  <2> QED
    BY <2>5, <2>6
<1>8. n \in S
  <2> HIDE DEF S
  <2>1. \A i \in 0..n : i \in S
    BY <1>2, <1>6, <1>7, UpTo
  <2> QED
    BY <1>2, <2>1
<1>9. Half(t, n) = n
  <2>1. n > 0 => n \in 1..n /\ ~(n < n)
    BY <1>2
  <2>2. n > 0 => t[n] # CR
    BY <1>4, <2>1
  <2> QED
    BY <2>2 DEF Half
<1>10. SubSeq(t, 1, n) = t
  BY <1>1, <1>2, SubSeqFull
<1> QED
  BY <1>2, <1>3, <1>8, <1>9, <1>10

(* Any characters, any text measured by the filter, and any text or none in  *)
(* the commit and in the work tree.                                          *)
AnyTexts ==
    \E C : /\ CR \in C /\ LF \in C
           /\ \E digest \in Text(C), blob, file \in Text(C) \cup {NotGiven} :
                subject = [part |-> "texts", digest |-> digest, blob |-> blob, file |-> file]

(* What matches a digest, as it is or converted, differs from the measured   *)
(* text in CRs only; and what was converted whole matches.                   *)
LEMMA Matched ==
  ASSUME NEW C, CR \in C, LF \in C, NEW digest \in Text(C), NEW t \in Text(C)
  PROVE  /\ Match(digest, t) # "none" =>
              WithoutCR(t) = WithoutCR(digest) /\ LinesIn(t) = LinesIn(digest)
         /\ Converted(t, digest) => Match(digest, t) # "none"
<1>1. ASSUME Match(digest, t) # "none"
      PROVE  WithoutCR(t) = WithoutCR(digest) /\ LinesIn(t) = LinesIn(digest)
  <2>1. digest = t \/ digest = ToCRLF(t) \/ digest = ToLF(t)
    BY <1>1 DEF Match
  <2>2. CASE digest = t
    BY <2>2
  <2>3. CASE digest = ToCRLF(t)
    BY <2>3, CrlfKeeps
  <2>4. CASE digest = ToLF(t)
    BY <2>4, LfKeeps
  <2> QED
    BY <2>1, <2>2, <2>3, <2>4
<1>2. ASSUME Converted(t, digest) PROVE Match(digest, t) # "none"
  <2>1. /\ WithoutCR(t) = WithoutCR(digest)
        /\ Unix(t) \/ Dos(t)
        /\ Unix(digest) \/ Dos(digest)
    BY <1>2 DEF Converted
  <2>2. digest = t \/ digest = ToCRLF(t) \/ digest = ToLF(t)
    <3>1. CASE Unix(t) /\ Unix(digest)
      <4>1. WithoutCR(t) = t /\ WithoutCR(digest) = digest
        BY <3>1, UnixBare
      <4> QED
        BY <2>1, <4>1
    <3>2. CASE Unix(t) /\ Dos(digest)
      <4>1. WithoutCR(t) = t /\ ToCRLF(WithoutCR(digest)) = digest
        BY <3>2, UnixBare, DosRestored
      <4> QED
        BY <2>1, <4>1
    <3>3. CASE Dos(t) /\ Unix(digest)
      <4>1. ToLF(t) = WithoutCR(t) /\ WithoutCR(digest) = digest
        BY <3>3, UnixBare, DosBare
      <4> QED
        BY <2>1, <4>1
    <3>4. CASE Dos(t) /\ Dos(digest)
      <4>1. ToCRLF(WithoutCR(t)) = t /\ ToCRLF(WithoutCR(digest)) = digest
        BY <3>4, DosRestored
      <4> QED
        BY <2>1, <4>1
    <3> QED
      BY <2>1, <3>1, <3>2, <3>3, <3>4
  <2> QED
    BY <2>2 DEF Match
<1> QED
  BY <1>1, <1>2

(* The three ends of git_commit::verify: the commit's text, the work tree's  *)
(* when the commit's is another one, or neither.                             *)
Outcome(digest, blob, file, seen) ==
    \/ /\ blob # NotGiven /\ Match(digest, blob) # "none"
       /\ "in_repo" \in seen.flags /\ "mismatched" \notin seen.flags
       /\ seen.existing /\ seen.lines = LinesIn(blob)
    \/ /\ blob = NotGiven \/ Match(digest, blob) = "none"
       /\ file # NotGiven /\ Match(digest, file) # "none"
       /\ seen.flags # {} /\ "in_repo" \notin seen.flags /\ "mismatched" \notin seen.flags
       /\ ~seen.existing /\ seen.lines = LinesIn(file)
    \/ /\ blob = NotGiven \/ Match(digest, blob) = "none"
       /\ file = NotGiven \/ Match(digest, file) = "none"
       /\ seen.flags = {} \/ "mismatched" \in seen.flags
       /\ ~seen.existing

(* There is no other one.                                                    *)
LEMMA VerifyIs ==
  ASSUME NEW C, CR \in C, LF \in C, NEW digest \in Text(C), NEW blob \in Text(C) \cup {NotGiven},
         NEW file \in Text(C) \cup {NotGiven}, NEW seen, seen = Verify(digest, blob, TRUE, file)
  PROVE  Outcome(digest, blob, file, seen)
<1>1. CASE blob # NotGiven /\ Match(digest, blob) # "none"
  <2>1. seen.existing = TRUE /\ seen.lines = LinesIn(blob)
    BY <1>1 DEF Verify
  <2>2. seen.flags = {"in_repo"} \cup (IF Match(digest, blob) = "exactly" THEN {} ELSE {"different_newline"})
    BY <1>1 DEF Verify
  <2> QED
    BY <1>1, <2>1, <2>2 DEF Outcome
<1>2. CASE ~(blob # NotGiven /\ Match(digest, blob) # "none")
  <2>1. CASE file = NotGiven
    <3>1. seen.flags = {} /\ seen.existing = FALSE
      BY <1>2, <2>1 DEF Verify
    <3> QED
      BY <1>2, <2>1, <3>1 DEF Outcome
  <2>2. CASE file # NotGiven /\ Match(digest, file) = "none"
    <3>1. seen.flags = {"in_fs", "mismatched"} \cup (IF blob = NotGiven THEN {} ELSE {"in_repo"}) /\ seen.existing = FALSE
      BY <1>2, <2>2 DEF Verify
    <3> QED
      BY <1>2, <2>2, <3>1 DEF Outcome
  <2>3. CASE file # NotGiven /\ Match(digest, file) # "none"
    <3>1. /\ seen.flags = {"in_fs"} \cup (IF Match(digest, file) = "exactly" THEN {} ELSE {"different_newline"})
          /\ seen.existing = FALSE /\ seen.lines = LinesIn(file)
      BY <1>2, <2>3 DEF Verify
    <3> QED
      BY <1>2, <2>3, <3>1 DEF Outcome
  <2> QED
    BY <2>1, <2>2, <2>3
<1> QED
  BY <1>1, <1>2

(* TextsCorrect: for all texts of any length and alphabet,                   *)
(* git_commit::verify accepts one only if it differs from the measured text  *)
(* in carriage returns alone and counts the same lines, accepts every text   *)
(* that was converted whole, and stored_file::store keeps that text or warns.*)
THEOREM TextsCorrect == AnyTexts => VerifiedText
<1> SUFFICES ASSUME AnyTexts PROVE VerifiedText
  OBVIOUS
<1>1. PICK C : /\ CR \in C /\ LF \in C
               /\ \E digest \in Text(C), blob, file \in Text(C) \cup {NotGiven} :
                    subject = [part |-> "texts", digest |-> digest, blob |-> blob, file |-> file]
  BY DEF AnyTexts
<1>2. PICK digest \in Text(C), blob \in Text(C) \cup {NotGiven}, file \in Text(C) \cup {NotGiven} :
        subject = [part |-> "texts", digest |-> digest, blob |-> blob, file |-> file]
  BY <1>1
<1>3. subject.part = "texts" /\ subject.digest = digest /\ subject.blob = blob /\ subject.file = file
  BY <1>2
<1>4. PICK seen : seen = Verify(digest, blob, TRUE, file)
  OBVIOUS
<1> DEFINE text == IF "in_repo" \in seen.flags THEN blob ELSE file
           accepted == seen.flags # {} /\ "mismatched" \notin seen.flags
<1>5. Outcome(digest, blob, file, seen)
  BY <1>1, <1>4, VerifyIs
<1>6. ASSUME NEW t \in Text(C)
      PROVE  /\ Match(digest, t) # "none" =>
                  WithoutCR(t) = WithoutCR(digest) /\ LinesIn(t) = LinesIn(digest)
             /\ Converted(t, digest) => Match(digest, t) # "none"
  BY <1>1, Matched
<1>7. accepted => WithoutCR(text) = WithoutCR(digest) /\ seen.lines = LinesIn(digest)
  BY <1>5, <1>6 DEF Outcome
<1>8. ASSUME NEW t \in {blob, file} \ {NotGiven}, Converted(t, digest) PROVE accepted
  BY <1>5, <1>6, <1>8 DEF Outcome
<1>9. ASSUME NEW again, NEW stored, stored = StoreFile(seen, blob, again)
      PROVE  /\ stored.ok /\ ~stored.warned /\ again = file
                  => WithoutCR(stored.text) = WithoutCR(digest)
             /\ stored.ok /\ stored.text # blob => stored.text = again
             /\ seen.existing => stored.ok /\ stored.text = blob
  <2>1. CASE seen.flags = {} \/ (~Kept(seen) /\ again = NotGiven)
    <3>1. stored.ok = FALSE
      BY <1>9, <2>1 DEF StoreFile
    <3>2. ~seen.existing
      BY <1>5, <2>1 DEF Outcome, Kept, WarnsOf
    <3> QED
      BY <3>1, <3>2
  <2>2. CASE ~(seen.flags = {} \/ (~Kept(seen) /\ again = NotGiven))
    <3>1. stored.ok = TRUE /\ stored.text = (IF Kept(seen) THEN blob ELSE again) /\ stored.warned = ("mismatched" \in seen.flags)
      BY <1>9, <2>2 DEF StoreFile, WarnsOf
    <3>2. Kept(seen) <=> "in_repo" \in seen.flags /\ "mismatched" \notin seen.flags
      BY DEF Kept, WarnsOf
    <3>3. ASSUME ~stored.warned, again = file PROVE WithoutCR(stored.text) = WithoutCR(digest)
      <4>1. accepted
        BY <2>2, <3>1, <3>3
      <4>2. stored.text = text
        BY <3>1, <3>2, <3>3, <4>1
      <4> QED
        BY <1>7, <4>1, <4>2
    <3>4. seen.existing => stored.text = blob
      BY <1>5, <3>1, <3>2 DEF Outcome
    <3> QED
      BY <3>1, <3>3, <3>4
  <2> QED
    BY <2>1, <2>2
<1> QED
  BY <1>3, <1>4, <1>7, <1>8, <1>9 DEF VerifiedText

(***************************************************************************)
(* Sums of calls, with and without the width of a word.                    *)
(***************************************************************************)
(* The functions inside Total and SumU32.                                    *)
Totals(numbers) ==
    LET sum[i \in 0..Len(numbers)] == IF i = 0 THEN 0 ELSE sum[i - 1] + numbers[i]
    IN  sum
Wrapped(counts) ==
    LET sum[i \in 0..Len(counts)] == IF i = 0 THEN 0 ELSE (sum[i - 1] + counts[i]) % U32
    IN  sum

(* A sum goes from number to number...                                       *)
LEMMA TotalsIs ==
  ASSUME NEW c \in Seq(Nat)
  PROVE  /\ Totals(c)[0] = 0
         /\ \A i \in 1..Len(c) : Totals(c)[i] = Totals(c)[i - 1] + c[i]
         /\ \A i \in 0..Len(c) : Totals(c)[i] \in Nat
         /\ Total(c) = Totals(c)[Len(c)]
<1>1. PICK n : n = Len(c)
  OBVIOUS
<1> DEFINE step == [p \in Nat \X (1..n) |-> p[1] + c[p[2]]]
           back == [i \in 1..n |-> i - 1]
<1>2. n \in Nat /\ \A i \in 1..n : c[i] \in Nat
  BY <1>1
<1>3. PICK g \in [0..n -> Nat] : Follows(g, n, 0, step, back)
  <2>1. step \in [Nat \X (1..n) -> Nat]
    BY <1>2
  <2>2. back \in [1..n -> Nat] /\ \A i \in 1..n : back[i] < i
    BY <1>2
  <2> HIDE DEF step, back
  <2> QED
    BY <1>2, <2>1, <2>2, Recursion
<1>4. g[0] = 0 /\ \A i \in 1..n : g[i] = g[i - 1] + c[i]
  <2>1. g[0] = 0
    BY <1>3 DEF Follows
  <2>2. ASSUME NEW i \in 1..n PROVE g[i] = g[i - 1] + c[i]
    <3>1. g[i] = step[<<g[back[i]], i>>] /\ back[i] = i - 1
      BY <1>3 DEF Follows
    <3>2. <<g[i - 1], i>> \in Nat \X (1..n)
      BY <1>2, <1>3
    <3> QED
      BY <3>1, <3>2
  <2> QED
    BY <2>1, <2>2
<1>5. g = [i \in 0..n |-> IF i = 0 THEN 0 ELSE g[i - 1] + c[i]]
  BY <1>2, <1>3, <1>4
<1>6. Totals(c) = [i \in 0..n |-> IF i = 0 THEN 0 ELSE Totals(c)[i - 1] + c[i]]
  BY <1>1, <1>5 DEF Totals
<1>7. PICK t : t = Totals(c)
  OBVIOUS
<1>8. t[0] = 0 /\ \A i \in 1..n : t[i] = t[i - 1] + c[i]
  BY <1>2, <1>6, <1>7
<1>9. \A i \in 0..n : t[i] \in Nat
  <2>1. ASSUME NEW i \in 1..n, t[i - 1] \in Nat PROVE t[i] \in Nat
    <3>1. t[i] = t[i - 1] + c[i] /\ c[i] \in Nat
      BY <1>2, <1>8
    <3> QED
      BY <2>1, <3>1
  <2>2. t[0] \in Nat
    BY <1>8
  <2> QED
    BY <1>2, <2>1, <2>2, StaysIn
<1>10. Total(c) = Totals(c)[n]
  BY <1>1 DEF Total, Totals
<1> QED
  BY <1>1, <1>7, <1>8, <1>9, <1>10

(* ... and so does one that wraps.                                           *)
LEMMA WrappedIs ==
  ASSUME NEW c \in Seq(Nat)
  PROVE  /\ Wrapped(c)[0] = 0
         /\ \A i \in 1..Len(c) : Wrapped(c)[i] = (Wrapped(c)[i - 1] + c[i]) % U32
         /\ SumU32(c) = Wrapped(c)[Len(c)]
<1>1. PICK n : n = Len(c)
  OBVIOUS
<1> DEFINE step == [p \in Nat \X (1..n) |-> (p[1] + c[p[2]]) % U32]
           back == [i \in 1..n |-> i - 1]
<1>2. n \in Nat /\ \A i \in 1..n : c[i] \in Nat
  BY <1>1
<1>3. PICK g \in [0..n -> Nat] : Follows(g, n, 0, step, back)
  <2>1. step \in [Nat \X (1..n) -> Nat]
    <3>1. ASSUME NEW p \in Nat \X (1..n) PROVE (p[1] + c[p[2]]) % U32 \in Nat
      <4>1. PICK x : x = p[1] + c[p[2]]
        OBVIOUS
      <4>2. x \in Nat
        BY <1>2, <4>1
      <4> QED
        BY <4>1, <4>2, WidthFacts
    <3> QED
      BY <3>1
  <2>2. back \in [1..n -> Nat] /\ \A i \in 1..n : back[i] < i
    BY <1>2
  <2> HIDE DEF step, back
  <2> QED
    BY <1>2, <2>1, <2>2, Recursion
<1>4. g[0] = 0 /\ \A i \in 1..n : g[i] = (g[i - 1] + c[i]) % U32
  <2>1. g[0] = 0
    BY <1>3 DEF Follows
  <2>2. ASSUME NEW i \in 1..n PROVE g[i] = (g[i - 1] + c[i]) % U32
    <3>1. g[i] = step[<<g[back[i]], i>>] /\ back[i] = i - 1
      BY <1>3 DEF Follows
    <3>2. <<g[i - 1], i>> \in Nat \X (1..n)
      BY <1>2, <1>3
    <3> QED
      BY <3>1, <3>2
  <2> QED
    BY <2>1, <2>2
<1>5. g = [i \in 0..n |-> IF i = 0 THEN 0 ELSE (g[i - 1] + c[i]) % U32]
  BY <1>2, <1>3, <1>4
<1>6. Wrapped(c) = [i \in 0..n |-> IF i = 0 THEN 0 ELSE (Wrapped(c)[i - 1] + c[i]) % U32]
  BY <1>1, <1>5 DEF Wrapped
<1>7. PICK t : t = Wrapped(c)
  OBVIOUS
<1>8. t[0] = 0 /\ \A i \in 1..n : t[i] = (t[i - 1] + c[i]) % U32
  BY <1>2, <1>6, <1>7
<1>9. SumU32(c) = Wrapped(c)[n]
  BY <1>1 DEF SumU32, Wrapped
<1> QED
  BY <1>1, <1>7, <1>8, <1>9

(* A sum only grows, and is no less than any of its numbers.                 *)
LEMMA TotalGrows ==
  ASSUME NEW c \in Seq(Nat)
  PROVE  /\ Total(c) \in Nat
         /\ \A i \in 0..Len(c) : Totals(c)[i] <= Total(c)
         /\ \A i \in 1..Len(c) : c[i] <= Total(c)
<1>1. PICK n, t : n = Len(c) /\ t = Totals(c)
  OBVIOUS
<1>2. n \in Nat /\ \A i \in 1..n : c[i] \in Nat
  BY <1>1
<1>3. /\ t[0] = 0 /\ \A i \in 1..n : t[i] = t[i - 1] + c[i]
      /\ \A i \in 0..n : t[i] \in Nat
      /\ Total(c) = t[n]
  BY <1>1, TotalsIs
<1> DEFINE S == {i \in 0..n : \A k \in 0..i : t[k] <= t[i]}
<1>4. \A i \in 0..n : i \in S
  <2>1. 0 \in S
    BY <1>2, <1>3
  <2>2. ASSUME NEW i \in 1..n, i - 1 \in S PROVE i \in S
    <3>1. t[i - 1] <= t[i] /\ t[i - 1] \in Nat /\ t[i] \in Nat
      <4>1. i \in 0..n /\ i - 1 \in 0..n
        BY <1>2
      <4>2. t[i - 1] \in Nat /\ t[i] \in Nat /\ c[i] \in Nat /\ t[i] = t[i - 1] + c[i]
        BY <1>2, <1>3, <4>1
      <4> QED
        BY <4>2
    <3>2. ASSUME NEW k \in 0..i PROVE t[k] <= t[i]
      <4>1. k = i \/ k \in 0..i - 1
        OBVIOUS
      <4>2. t[k] \in Nat
        BY <1>2, <1>3
      <4> QED
        BY <2>2, <3>1, <4>1, <4>2
    <3> QED
      BY <3>2
  <2> HIDE DEF S
  <2> QED
    BY <1>2, <2>1, <2>2, UpTo
<1>5. \A i \in 0..n : t[i] <= t[n]
  BY <1>2, <1>4
<1>6. ASSUME NEW i \in 1..n PROVE c[i] <= t[n]
  <2>1. i \in 0..n /\ i - 1 \in 0..n
    BY <1>2
  <2>2. t[i] <= t[n] /\ t[i] = t[i - 1] + c[i] /\ t[i - 1] \in Nat /\ t[i] \in Nat /\ t[n] \in Nat
    BY <1>2, <1>3, <1>5, <2>1
  <2> QED
    BY <1>2, <2>2
<1> QED
  BY <1>1, <1>2, <1>3, <1>5, <1>6

(* A sum that fits a word does not wrap on the way.                          *)
LEMMA NoWrap ==
  ASSUME NEW c \in Seq(Nat), Total(c) < U32
  PROVE  SumU32(c) = Total(c)
<1>1. PICK n, t, w : n = Len(c) /\ t = Totals(c) /\ w = Wrapped(c)
  OBVIOUS
<1>2. n \in Nat /\ \A i \in 1..n : c[i] \in Nat
  BY <1>1
<1>3. /\ t[0] = 0 /\ \A i \in 1..n : t[i] = t[i - 1] + c[i]
      /\ \A i \in 0..n : t[i] \in Nat
      /\ Total(c) = t[n]
  BY <1>1, TotalsIs
<1>4. /\ w[0] = 0 /\ \A i \in 1..n : w[i] = (w[i - 1] + c[i]) % U32
      /\ SumU32(c) = w[n]
  BY <1>1, WrappedIs
<1>5. \A i \in 0..n : t[i] <= t[n]
  BY <1>1, <1>3, TotalGrows
<1> DEFINE S == {i \in 0..n : w[i] = t[i]}
<1>6. \A i \in 0..n : i \in S
  <2>1. 0 \in S
    BY <1>2, <1>3, <1>4
  <2>2. ASSUME NEW i \in 1..n, i - 1 \in S PROVE i \in S
    <3>1. w[i - 1] = t[i - 1] /\ i \in 0..n
      BY <1>2, <2>2
    <3>2. t[i] \in Nat /\ t[i] < U32
      <4>1. t[i] \in Nat /\ t[n] \in Nat /\ t[i] <= t[n] /\ t[n] < U32
        BY <1>2, <1>3, <1>5, <3>1
      <4> QED
        BY <4>1, WidthFacts
    <3>3. w[i] = t[i] % U32
      BY <1>3, <1>4, <3>1
    <3>4. t[i] % U32 = t[i]
      <4>1. PICK x, u : x = t[i] /\ u = U32
        OBVIOUS
      <4>2. x \in Nat /\ u \in Nat /\ x < u
        BY <3>2, <4>1, WidthFacts
      <4>3. x % u = x
        BY <4>2
      <4> QED
        BY <4>1, <4>3
    <3> QED
      BY <3>1, <3>3, <3>4
  <2> HIDE DEF S
  <2> QED
    BY <1>2, <2>1, <2>2, UpTo
<1> QED
  BY <1>2, <1>3, <1>4, <1>6

(* A sum is nothing only if all its numbers are.                             *)
LEMMA TotalZero ==
  ASSUME NEW c \in Seq(Nat)
  PROVE  Total(c) = 0 <=> \A i \in 1..Len(c) : c[i] = 0
<1>1. PICK n, t : n = Len(c) /\ t = Totals(c)
  OBVIOUS
<1>2. n \in Nat /\ \A i \in 1..n : c[i] \in Nat
  BY <1>1
<1>3. /\ t[0] = 0 /\ \A i \in 1..n : t[i] = t[i - 1] + c[i]
      /\ Total(c) = t[n]
  BY <1>1, TotalsIs
<1>4. ASSUME Total(c) = 0, NEW i \in 1..n PROVE c[i] = 0
  <2>1. c[i] <= Total(c)
    BY <1>1, TotalGrows
  <2> QED
    BY <1>2, <1>4, <2>1
<1>5. ASSUME \A i \in 1..n : c[i] = 0 PROVE Total(c) = 0
  <2> DEFINE S == {0}
  <2>1. t[0] \in S /\ \A i \in 1..n : t[i - 1] \in S => t[i] \in S
    BY <1>3, <1>5
  <2>2. \A i \in 0..n : t[i] \in S
    <3> HIDE DEF S
    <3> QED
      BY <1>2, <2>1, StaysIn
  <2> QED
    BY <1>2, <1>3, <2>2
<1> QED
  BY <1>1, <1>4, <1>5

(* Lists that agree up to a place have the same sum there.                   *)
LEMMA SameSums ==
  ASSUME NEW c \in Seq(Nat), NEW d \in Seq(Nat), NEW m \in Nat, m <= Len(c), m <= Len(d),
         \A i \in 1..m : c[i] = d[i]
  PROVE  Totals(c)[m] = Totals(d)[m]
<1>1. PICK t, u : t = Totals(c) /\ u = Totals(d)
  OBVIOUS
<1>2. t[0] = 0 /\ \A i \in 1..m : t[i] = t[i - 1] + c[i]
  <2>1. t[0] = 0 /\ \A i \in 1..Len(c) : t[i] = t[i - 1] + c[i]
    BY <1>1, TotalsIs
  <2> QED
    BY <2>1
<1>3. u[0] = 0 /\ \A i \in 1..m : u[i] = u[i - 1] + d[i]
  <2>1. u[0] = 0 /\ \A i \in 1..Len(d) : u[i] = u[i - 1] + d[i]
    BY <1>1, TotalsIs
  <2> QED
    BY <2>1
<1> DEFINE S == {i \in 0..m : t[i] = u[i]}
<1>4. \A i \in 0..m : i \in S
  <2>1. 0 \in S
    BY <1>2, <1>3
  <2>2. ASSUME NEW i \in 1..m, i - 1 \in S PROVE i \in S
    <3>1. t[i - 1] = u[i - 1] /\ c[i] = d[i]
      BY <2>2
    <3> QED
      BY <1>2, <1>3, <3>1
  <2> HIDE DEF S
  <2> QED
    BY <2>1, <2>2, UpTo
<1> QED
  BY <1>1, <1>4

(* What is added number by number is added in sum.                           *)
LEMMA SumOfBoth ==
  ASSUME NEW c \in Seq(Nat), NEW d \in Seq(Nat), NEW e \in Seq(Nat), NEW n \in Nat,
         Len(c) = n, Len(d) = n, Len(e) = n, \A i \in 1..n : e[i] = c[i] + d[i]
  PROVE  Total(e) = Total(c) + Total(d)
<1>1. PICK t, u, v : t = Totals(c) /\ u = Totals(d) /\ v = Totals(e)
  OBVIOUS
<1>2. /\ t[0] = 0 /\ (\A i \in 1..n : t[i] = t[i - 1] + c[i]) /\ (\A i \in 0..n : t[i] \in Nat)
      /\ Total(c) = t[n]
  BY <1>1, TotalsIs
<1>3. /\ u[0] = 0 /\ (\A i \in 1..n : u[i] = u[i - 1] + d[i]) /\ (\A i \in 0..n : u[i] \in Nat)
      /\ Total(d) = u[n]
  BY <1>1, TotalsIs
<1>4. v[0] = 0 /\ (\A i \in 1..n : v[i] = v[i - 1] + e[i]) /\ Total(e) = v[n]
  BY <1>1, TotalsIs
<1> DEFINE S == {i \in 0..n : v[i] = t[i] + u[i]}
<1>5. \A i \in 0..n : i \in S
  <2>1. 0 \in S
    BY <1>2, <1>3, <1>4
  <2>2. ASSUME NEW i \in 1..n, i - 1 \in S PROVE i \in S
    <3>1. v[i - 1] = t[i - 1] + u[i - 1] /\ i \in 0..n /\ i - 1 \in 0..n
      BY <2>2
    <3>2. t[i - 1] \in Nat /\ u[i - 1] \in Nat /\ c[i] \in Nat /\ d[i] \in Nat
      <4>1. t[i - 1] \in Nat /\ u[i - 1] \in Nat
        BY <1>2, <1>3, <3>1, Zenon
      <4>2. c[i] \in Nat
        OBVIOUS
      <4>3. d[i] \in Nat
        OBVIOUS
      <4> QED
        BY <4>1, <4>2, <4>3
    <3>3. t[i] = t[i - 1] + c[i] /\ u[i] = u[i - 1] + d[i] /\ v[i] = v[i - 1] + (c[i] + d[i])
      BY <1>2, <1>3, <1>4
    <3>4. v[i] = t[i] + u[i]
      <4>1. \A x, y, a, b \in Nat : (x + y) + (a + b) = (x + a) + (y + b)
        OBVIOUS
      <4>2. v[i] = (t[i - 1] + u[i - 1]) + (c[i] + d[i])
        BY <3>1, <3>3
      <4> QED
        <5>1. PICK x, y, a, b : x = t[i - 1] /\ y = u[i - 1] /\ a = c[i] /\ b = d[i]
          OBVIOUS
        <5>2. v[i] = (x + y) + (a + b) /\ t[i] = x + a /\ u[i] = y + b
          BY <3>3, <4>2, <5>1
        <5>3. x \in Nat /\ y \in Nat /\ a \in Nat /\ b \in Nat
          BY <3>2, <5>1
        <5> QED
          BY <4>1, <5>2, <5>3
    <3> QED
      BY <3>1, <3>4
  <2> HIDE DEF S
  <2> QED
    BY <2>1, <2>2, UpTo
<1> QED
  BY <1>2, <1>3, <1>4, <1>5

(***************************************************************************)
(* Functions: the entries of a file, by position and by name.              *)
(***************************************************************************)
(* An entry, and the calls of a position, of all names or of one.            *)
Entry == [name : Nat, demangled_name : Nat, count : Nat, start : Nat \X Nat, end : Nat \X Nat]
Calls(fns, p) == [i \in DOMAIN fns |-> IF PosOf(fns[i]) = p THEN fns[i].count ELSE 0]
CallsOf(fns, p, name) ==
    [i \in DOMAIN fns |-> IF PosOf(fns[i]) = p /\ NameOf(fns[i]) = name THEN fns[i].count ELSE 0]
Alias == [link : Nat, demangled : Nat, count : Nat]
CountsOf(s) == [k \in DOMAIN s |-> s[k].count]

(* Names and positions are tuples of numbers, in a finite number.            *)
LEMMA EntryTuples ==
  ASSUME NEW fns \in Seq(Entry), NEW at \in SUBSET DOMAIN fns
  PROVE  /\ Len(fns) \in Nat /\ DOMAIN fns = 1..Len(fns)
         /\ \A i \in DOMAIN fns : fns[i].count \in Nat
         /\ {NameOf(fns[i]) : i \in at} \in SUBSET [1..2 -> Int]
         /\ \A name \in {NameOf(fns[i]) : i \in at} : name[1] \in Nat /\ name[2] \in Nat
         /\ IsFiniteSet({NameOf(fns[i]) : i \in at})
         /\ {PosOf(fns[i]) : i \in at} \in SUBSET [1..4 -> Int]
         /\ IsFiniteSet({PosOf(fns[i]) : i \in at})
<1>1. Len(fns) \in Nat /\ DOMAIN fns = 1..Len(fns) /\ \A i \in DOMAIN fns : fns[i] \in Entry
  OBVIOUS
<1>2. IsFiniteSet(at)
  <2>1. IsFiniteSet(1..Len(fns))
    BY <1>1, FS_Interval
  <2> QED
    BY <1>1, <2>1, FS_Subset
<1>3. ASSUME NEW i \in DOMAIN fns
      PROVE  /\ fns[i].count \in Nat
             /\ NameOf(fns[i]) \in [1..2 -> Int] /\ NameOf(fns[i])[1] \in Nat /\ NameOf(fns[i])[2] \in Nat
             /\ PosOf(fns[i]) \in [1..4 -> Int]
  <2>1. PICK f \in Entry : f = fns[i]
    BY <1>1
  <2>2. f.count \in Nat /\ f.name \in Nat /\ f.demangled_name \in Nat
    BY DEF Entry
  <2>3. f.start[1] \in Nat /\ f.start[2] \in Nat /\ f.end[1] \in Nat /\ f.end[2] \in Nat
    BY DEF Entry
  <2>4. NameOf(f) \in [1..2 -> Int] /\ NameOf(f)[1] \in Nat /\ NameOf(f)[2] \in Nat
    BY <2>2 DEF NameOf
  <2>5. PosOf(f) \in [1..4 -> Int]
    BY <2>3 DEF PosOf
  <2> QED
    BY <2>1, <2>2, <2>4, <2>5
<1>4. IsFiniteSet({NameOf(fns[i]) : i \in at})
  <2> DEFINE g == [i \in at |-> NameOf(fns[i])]
             T == {NameOf(fns[i]) : i \in at}
  <2>1. g \in Surjection(at, T)
    BY DEF Surjection
  <2> HIDE DEF g, T
  <2>2. IsFiniteSet(T)
    BY <1>2, <2>1, FS_Surjection
  <2> QED
    BY <2>2 DEF T
<1>5. IsFiniteSet({PosOf(fns[i]) : i \in at})
  <2> DEFINE g == [i \in at |-> PosOf(fns[i])]
             T == {PosOf(fns[i]) : i \in at}
  <2>1. g \in Surjection(at, T)
    BY DEF Surjection
  <2> HIDE DEF g, T
  <2>2. IsFiniteSet(T)
    BY <1>2, <2>1, FS_Surjection
  <2> QED
    BY <2>2 DEF T
<1> QED
  BY <1>1, <1>3, <1>4, <1>5

(* The calls of the names of a position are those of the position, and none  *)
(* of the sums wraps if this one does not.                                   *)
LEMMA NamesSum ==
  ASSUME NEW fns \in Seq(Entry), NEW p, Total(Calls(fns, p)) < U32, NEW names, names = NamesAt(fns, p)
  PROVE  /\ names \in Seq(Alias) /\ CountsOf(names) \in Seq(Nat)
         /\ Total(CountsOf(names)) = Total(Calls(fns, p))
<1> DEFINE at == {i \in DOMAIN fns : PosOf(fns[i]) = p}
           S == {NameOf(fns[i]) : i \in at}
<1>1. PICK n, N, L : n = Len(fns) /\ N = Cardinality(S) /\ L = TuplesInOrder(S)
  OBVIOUS
<1>2. /\ n \in Nat /\ DOMAIN fns = 1..n /\ \A i \in 1..n : fns[i].count \in Nat
      /\ S \in SUBSET [1..2 -> Int] /\ (\A name \in S : name[1] \in Nat /\ name[2] \in Nat)
      /\ IsFiniteSet(S)
  <2>1. at \in SUBSET DOMAIN fns
    OBVIOUS
  <2> HIDE DEF at
  <2> QED
    BY <1>1, <2>1, EntryTuples
<1>3. /\ L \in Seq(S) /\ Len(L) = N /\ N \in Nat
      /\ \A i, j \in 1..N : i # j => L[i] # L[j]
      /\ \A x \in S : \E i \in 1..N : L[i] = x
  <2>1. 2 \in Nat
    OBVIOUS
  <2> HIDE DEF S
  <2> QED
    BY <1>1, <1>2, <2>1, TuplesInOrderIs, ZenonT(40)
<1>4. DOMAIN L = 1..N /\ \A k \in 1..N : L[k] \in S
  BY <1>3
<1> DEFINE C(k) == CallsOf(fns, p, L[k])
           upto(i, k) == \E j \in 1..k : L[j] = NameOf(fns[i])
           B(k) == [i \in 1..n |-> IF PosOf(fns[i]) = p /\ upto(i, k) THEN fns[i].count ELSE 0]
           plain == [k \in 1..N |-> Total(C(k))]
<1>5. names = [k \in 1..N |-> [link |-> L[k][1], demangled |-> L[k][2], count |-> SumU32(C(k))]]
  <2>1. ASSUME NEW name
        PROVE  CallsOf(fns, p, name)
                 = [i \in DOMAIN fns |-> IF i \in at /\ NameOf(fns[i]) = name THEN fns[i].count ELSE 0]
    BY DEF CallsOf
  <2>2. names = [k \in DOMAIN L |->
                   [link |-> L[k][1], demangled |-> L[k][2],
                    count |-> SumU32([i \in DOMAIN fns |->
                                IF i \in at /\ NameOf(fns[i]) = L[k] THEN fns[i].count ELSE 0])]]
    BY <1>1 DEF NamesAt, TuplesInOrder
  <2> HIDE DEF at
  <2> QED
    BY <1>4, <2>1, <2>2
<1>6. ASSUME NEW k \in 0..N
      PROVE  B(k) \in Seq(Nat) /\ Len(B(k)) = n
  BY <1>2
<1>7. ASSUME NEW k \in 1..N
      PROVE  C(k) \in Seq(Nat) /\ Len(C(k)) = n /\ \A i \in 1..n : C(k)[i] = IF PosOf(fns[i]) = p /\ NameOf(fns[i]) = L[k] THEN fns[i].count ELSE 0
  BY <1>2 DEF CallsOf
<1>8. ASSUME NEW k \in 1..N PROVE Total(B(k)) = Total(B(k - 1)) + Total(C(k))
  <2>1. k - 1 \in 0..N /\ k \in 0..N
    BY <1>3
  <2>2. ASSUME NEW i \in 1..n PROVE B(k)[i] = B(k - 1)[i] + C(k)[i]
    <3>1. upto(i, k) <=> upto(i, k - 1) \/ L[k] = NameOf(fns[i])
      OBVIOUS
    <3>2. ~(upto(i, k - 1) /\ L[k] = NameOf(fns[i]))
      BY <1>3
    <3>3. C(k)[i] = IF PosOf(fns[i]) = p /\ NameOf(fns[i]) = L[k] THEN fns[i].count ELSE 0
      BY <1>7
    <3>4. fns[i].count \in Nat
      BY <1>2
    <3> HIDE DEF upto, C
    <3> QED
      BY <3>1, <3>2, <3>3, <3>4
  <2>3. PICK b, c, a : b = B(k) /\ c = C(k) /\ a = B(k - 1)
    OBVIOUS
  <2>4. /\ b \in Seq(Nat) /\ Len(b) = n /\ a \in Seq(Nat) /\ Len(a) = n /\ c \in Seq(Nat) /\ Len(c) = n
        /\ \A i \in 1..n : b[i] = a[i] + c[i]
    <3> HIDE DEF B, C
    <3> QED
      BY <1>6, <1>7, <2>1, <2>2, <2>3
  <2>5. Total(b) = Total(a) + Total(c)
    BY <1>2, <2>4, SumOfBoth
  <2> QED
    BY <2>3, <2>5
<1>9. Total(B(0)) = 0
  <2>1. PICK b : b = B(0)
    OBVIOUS
  <2>2. b \in Seq(Nat) /\ Len(b) = n /\ \A i \in 1..n : b[i] = 0
    BY <1>2, <2>1
  <2> QED
    BY <2>1, <2>2, TotalZero
<1>10. B(N) = Calls(fns, p)
  <2>1. ASSUME NEW i \in 1..n, PosOf(fns[i]) = p PROVE upto(i, N)
    <3>1. NameOf(fns[i]) \in S
      BY <1>2, <2>1
    <3> HIDE DEF S
    <3> QED
      BY <1>3, <3>1
  <2> HIDE DEF upto
  <2> QED
    BY <1>2, <2>1 DEF Calls
<1>11. plain \in Seq(Nat) /\ Len(plain) = N /\ \A k \in 1..N : plain[k] = Total(C(k))
  <2>1. ASSUME NEW k \in 1..N PROVE Total(C(k)) \in Nat
    BY <1>7, TotalGrows
  <2> HIDE DEF C
  <2> QED
    BY <1>3, <2>1
<1>12. Total(plain) = Total(Calls(fns, p))
  <2>1. PICK c, t : c = plain /\ t = Totals(c)
    OBVIOUS
  <2>2. c \in Seq(Nat) /\ Len(c) = N /\ \A k \in 1..N : c[k] = Total(C(k))
    BY <1>11, <2>1
  <2>3. t[0] = 0 /\ (\A k \in 1..N : t[k] = t[k - 1] + c[k]) /\ Total(c) = t[N]
    BY <2>1, <2>2, TotalsIs
  <2> DEFINE T == {k \in 0..N : t[k] = Total(B(k))}
  <2>4. \A k \in 0..N : k \in T
    <3> HIDE DEF B, C
    <3>1. 0 \in T
      BY <1>3, <1>9, <2>3
    <3>2. ASSUME NEW k \in 1..N, k - 1 \in T PROVE k \in T
      <4>1. t[k] = Total(B(k - 1)) + Total(C(k))
        BY <2>2, <2>3, <3>2
      <4> QED
        BY <1>3, <1>8, <4>1
    <3> HIDE DEF T
    <3> QED
      BY <1>3, <3>1, <3>2, UpTo
  <2>5. t[N] = Total(B(N))
    BY <1>3, <2>4
  <2> QED
    BY <1>10, <2>1, <2>3, <2>5
<1>13. ASSUME NEW k \in 1..N PROVE SumU32(C(k)) = Total(C(k))
  <2>1. Total(C(k)) <= Total(plain)
    <3> HIDE DEF plain, C
    <3> QED
      BY <1>11, TotalGrows
  <2>2. Total(C(k)) \in Nat /\ Total(Calls(fns, p)) \in Nat
    <3>1. Total(C(k)) \in Nat
      BY <1>7, TotalGrows
    <3>2. Total(plain) \in Nat
      <4> HIDE DEF plain
      <4> QED
        BY <1>11, TotalGrows
    <3> QED
      BY <1>12, <3>1, <3>2
  <2>3. Total(C(k)) < U32
    <3> HIDE DEF C, plain
    <3> QED
      BY <1>12, <2>1, <2>2, WidthFacts
  <2> QED
    BY <1>7, <2>3, NoWrap
<1>14. CountsOf(names) = plain
  <2> HIDE DEF C
  <2> QED
    BY <1>5, <1>13 DEF CountsOf
<1>15. names \in Seq(Alias)
  <2>1. ASSUME NEW k \in 1..N PROVE names[k] \in Alias
    <3>1. L[k][1] \in Nat /\ L[k][2] \in Nat
      <4> HIDE DEF S
      <4> QED
        BY <1>2, <1>4
    <3>2. SumU32(C(k)) \in Nat
      <4>1. plain[k] \in Nat /\ plain[k] = SumU32(C(k))
        <5> HIDE DEF C, plain
        <5> QED
          BY <1>11, <1>13
      <4> QED
        BY <4>1
    <3> HIDE DEF C
    <3> QED
      BY <1>5, <3>1, <3>2 DEF Alias
  <2> HIDE DEF C
  <2> QED
    BY <1>3, <1>5, <2>1
<1> HIDE DEF plain
<1> QED
  BY <1>11, <1>12, <1>14, <1>15

(* Labels: the list that soft_alias makes, and the function inside SoftAlias.*)
Label == [label : Nat, count : Nat]
Soft(names) ==
    LET after[i \in 0..Len(names)] == IF i = 0 THEN <<>> ELSE AddAlias(after[i - 1], names[i])
    IN  after

(* A name becomes a label of its own, or adds its calls to the last one.     *)
LEMMA AddAliasIs ==
  ASSUME NEW acc \in Seq(Label), NEW a \in Alias
  PROVE  /\ AddAlias(acc, a) \in Seq(Label)
         /\ CountsOf(acc) \in Seq(Nat)
         /\ Total(CountsOf(acc)) + a.count < U32 =>
              Total(CountsOf(AddAlias(acc, a))) = Total(CountsOf(acc)) + a.count
<1>1. PICK m, c, r, d : m = Len(acc) /\ c = CountsOf(acc) /\ r = AddAlias(acc, a) /\ d = CountsOf(r)
  OBVIOUS
<1>2. /\ m \in Nat /\ DOMAIN acc = 1..m
      /\ \A i \in 1..m : acc[i] \in Label /\ acc[i].count \in Nat /\ acc[i].label \in Nat
  <2>1. m \in Nat /\ DOMAIN acc = 1..m /\ \A i \in 1..m : acc[i] \in Label
    BY <1>1
  <2>2. \A x \in Label : x.count \in Nat /\ x.label \in Nat
    BY DEF Label
  <2> QED
    BY <2>1, <2>2
<1>3. a.count \in Nat /\ LabelOf(a) \in Nat
  BY DEF Alias, LabelOf
<1>4. c \in Seq(Nat) /\ Len(c) = m /\ \A i \in 1..m : c[i] = acc[i].count
  BY <1>1, <1>2 DEF CountsOf
<1>5. CASE acc = <<>> \/ acc[m].label # LabelOf(a)
  <2>1. PICK x : x = [label |-> LabelOf(a), count |-> a.count]
    OBVIOUS
  <2>2. x \in Label /\ x.count = a.count
    BY <1>3, <2>1 DEF Label
  <2>3. r = Append(acc, x)
    BY <1>1, <1>5, <2>1 DEF AddAlias
  <2>4. r \in Seq(Label) /\ Len(r) = m + 1 /\ r[m + 1] = x /\ \A i \in 1..m : r[i] = acc[i]
    BY <1>1, <1>2, <2>2, <2>3
  <2>5. d \in Seq(Nat) /\ Len(d) = m + 1 /\ d[m + 1] = a.count /\ \A i \in 1..m : d[i] = c[i]
    <3>1. DOMAIN r = 1..m + 1
      BY <1>2, <2>4
    <3>2. ASSUME NEW i \in 1..m + 1
          PROVE  r[i].count \in Nat /\ (i \in 1..m => r[i].count = c[i]) /\ (i = m + 1 => r[i].count = a.count)
      <4>1. i \in 1..m \/ i = m + 1
        BY <1>2
      <4> QED
        BY <1>2, <1>3, <1>4, <2>2, <2>4, <4>1
    <3>3. d = [i \in 1..m + 1 |-> r[i].count]
      BY <1>1, <3>1 DEF CountsOf
    <3> QED
      BY <1>2, <3>2, <3>3
  <2>6. Total(d) = Totals(d)[m] + a.count /\ Total(c) = Totals(c)[m]
    <3>1. m + 1 \in 1..Len(d) /\ (m + 1) - 1 = m
      BY <1>2, <2>5
    <3>2. Totals(d)[m + 1] = Totals(d)[m] + d[m + 1] /\ Total(d) = Totals(d)[m + 1]
      BY <2>5, <3>1, TotalsIs
    <3>3. Total(c) = Totals(c)[m]
      BY <1>4, TotalsIs
    <3> QED
      BY <2>5, <3>2, <3>3
  <2>7. Totals(d)[m] = Totals(c)[m]
    <3>1. m <= Len(d) /\ m <= Len(c)
      BY <1>2, <1>4, <2>5
    <3> QED
      BY <1>2, <1>4, <2>5, <3>1, SameSums
  <2> QED
    BY <1>1, <1>4, <2>4, <2>6, <2>7
<1>6. CASE acc # <<>> /\ acc[m].label = LabelOf(a)
  <2>1. m \in 1..m /\ m - 1 \in Nat
    BY <1>1, <1>2, <1>6
  <2>2. PICK s : s = (acc[m].count + a.count) % U32
    OBVIOUS
  <2>3. s \in Nat
    <3>1. PICK z : z = acc[m].count + a.count
      OBVIOUS
    <3>2. z \in Nat
      BY <1>2, <1>3, <2>1, <3>1
    <3> QED
      BY <2>2, <3>1, <3>2, WidthFacts
  <2>4. r = [acc EXCEPT ![m] = [acc[m] EXCEPT !.count = s]]
    BY <1>1, <1>6, <2>2 DEF AddAlias
  <2>5. PICK x : x = [acc[m] EXCEPT !.count = s]
    OBVIOUS
  <2>6. x \in Label /\ x.count = s
    BY <1>2, <2>1, <2>3, <2>5 DEF Label
  <2>7. /\ r \in Seq(Label) /\ Len(r) = m /\ DOMAIN r = 1..m
        /\ r[m] = x /\ \A i \in 1..m - 1 : r[i] = acc[i]
    BY <1>1, <1>2, <2>1, <2>4, <2>5, <2>6
  <2>8. d \in Seq(Nat) /\ Len(d) = m /\ d[m] = s /\ \A i \in 1..m - 1 : d[i] = c[i]
    <3>1. ASSUME NEW i \in 1..m
          PROVE  r[i].count \in Nat /\ (i \in 1..m - 1 => r[i].count = c[i]) /\ (i = m => r[i].count = s)
      <4>1. i \in 1..m - 1 \/ i = m
        BY <1>2
      <4> QED
        BY <1>2, <1>4, <2>3, <2>6, <2>7, <4>1
    <3>2. d = [i \in 1..m |-> r[i].count]
      BY <1>1, <2>7 DEF CountsOf
    <3> QED
      BY <1>2, <2>1, <3>1, <3>2
  <2>9. /\ Total(d) = Totals(d)[m - 1] + s
        /\ Total(c) = Totals(c)[m - 1] + c[m] /\ Totals(c)[m - 1] \in Nat
    <3>1. Totals(d)[m] = Totals(d)[m - 1] + d[m] /\ Total(d) = Totals(d)[m]
      BY <2>1, <2>8, TotalsIs
    <3>2. m - 1 \in 0..m
      BY <2>1
    <3>3. Totals(c)[m] = Totals(c)[m - 1] + c[m] /\ Total(c) = Totals(c)[m] /\ Totals(c)[m - 1] \in Nat
      BY <1>4, <2>1, <3>2, TotalsIs
    <3> QED
      BY <2>8, <3>1, <3>3
  <2>10. Totals(d)[m - 1] = Totals(c)[m - 1]
    <3>1. m - 1 <= Len(d) /\ m - 1 <= Len(c)
      BY <1>4, <2>1, <2>8
    <3> QED
      BY <1>4, <2>1, <2>8, <3>1, SameSums
  <2>11. ASSUME Total(c) + a.count < U32 PROVE Total(d) = Total(c) + a.count
    <3>1. PICK q, k, h : q = Totals(c)[m - 1] /\ k = c[m] /\ h = a.count
      OBVIOUS
    <3>2. q \in Nat /\ k \in Nat /\ h \in Nat /\ Total(c) = q + k /\ s = (k + h) % U32 /\ Total(d) = q + s
      BY <1>2, <1>3, <1>4, <2>1, <2>2, <2>9, <2>10, <3>1
    <3>3. k + h < U32
      <4>1. (q + k) + h < U32 /\ U32 \in Nat
        BY <2>11, <3>1, <3>2, WidthFacts
      <4> QED
        BY <3>2, <4>1
    <3>4. s = k + h
      <4>1. \A z \in Nat : z < U32 => z % U32 = z
        BY WidthFacts
      <4> QED
        BY <3>2, <3>3, <4>1
    <3> QED
      BY <3>1, <3>2, <3>4
  <2> QED
    BY <1>1, <1>4, <2>7, <2>11
<1> QED
  BY <1>1, <1>5, <1>6

(* The list grows from name to name...                                       *)
LEMMA SoftIs ==
  ASSUME NEW names \in Seq(Alias)
  PROVE  /\ Soft(names)[0] = <<>>
         /\ \A i \in 1..Len(names) : Soft(names)[i] = AddAlias(Soft(names)[i - 1], names[i])
         /\ \A i \in 0..Len(names) : Soft(names)[i] \in Seq(Label)
<1>1. PICK n : n = Len(names)
  OBVIOUS
<1> DEFINE V == Seq(Label)
           step == [q \in V \X (1..n) |-> AddAlias(q[1], names[q[2]])]
           back == [i \in 1..n |-> i - 1]
<1>2. n \in Nat /\ (\A i \in 1..n : names[i] \in Alias) /\ <<>> \in V
  BY <1>1
<1>3. \A acc \in V, i \in 1..n : AddAlias(acc, names[i]) \in V
  BY <1>2, AddAliasIs
<1> HIDE DEF V
<1>4. PICK g \in [0..n -> V] : Follows(g, n, <<>>, step, back)
  <2>1. step \in [V \X (1..n) -> V]
    BY <1>3
  <2>2. back \in [1..n -> Nat] /\ \A i \in 1..n : back[i] < i
    BY <1>2
  <2> HIDE DEF step, back
  <2> QED
    BY <1>2, <2>1, <2>2, Recursion
<1>5. g[0] = <<>> /\ \A i \in 1..n : g[i] = AddAlias(g[i - 1], names[i])
  <2>1. g[0] = <<>>
    BY <1>4 DEF Follows
  <2>2. ASSUME NEW i \in 1..n PROVE g[i] = AddAlias(g[i - 1], names[i])
    <3>1. g[i] = step[<<g[back[i]], i>>] /\ back[i] = i - 1
      BY <1>4 DEF Follows
    <3>2. <<g[i - 1], i>> \in V \X (1..n)
      BY <1>2, <1>4
    <3> QED
      BY <3>1, <3>2
  <2> QED
    BY <2>1, <2>2
<1>6. g = [i \in 0..n |-> IF i = 0 THEN <<>> ELSE AddAlias(g[i - 1], names[i])]
  BY <1>2, <1>4, <1>5
<1>7. Soft(names) = [i \in 0..n |-> IF i = 0 THEN <<>> ELSE AddAlias(Soft(names)[i - 1], names[i])]
  BY <1>1, <1>6 DEF Soft
<1>8. PICK t : t = Soft(names)
  OBVIOUS
<1>9. t[0] = <<>> /\ \A i \in 1..n : t[i] = AddAlias(t[i - 1], names[i])
  BY <1>2, <1>7, <1>8
<1>10. \A i \in 0..n : t[i] \in V
  <2>1. t[0] \in V /\ \A i \in 1..n : t[i - 1] \in V => t[i] \in V
    BY <1>2, <1>3, <1>9
  <2> QED
    BY <1>2, <2>1, StaysIn
<1> QED
  BY <1>1, <1>8, <1>9, <1>10 DEF V

(* ... and accounts for all their calls.                                     *)
LEMMA SoftTotal ==
  ASSUME NEW names \in Seq(Alias), NEW f, f.names = names,
         CountsOf(names) \in Seq(Nat), Total(CountsOf(names)) < U32
  PROVE  Total(CountsOf(SoftAlias(f))) = Total(CountsOf(names))
<1>1. PICK n, c, t, s : n = Len(names) /\ c = CountsOf(names) /\ t = Totals(c) /\ s = Soft(names)
  OBVIOUS
<1>2. n \in Nat /\ Len(c) = n /\ \A i \in 1..n : names[i] \in Alias /\ c[i] = names[i].count
  BY <1>1 DEF CountsOf
<1>3. /\ t[0] = 0 /\ (\A i \in 1..n : t[i] = t[i - 1] + c[i]) /\ Total(c) = t[n]
      /\ \A i \in 0..n : t[i] \in Nat
  BY <1>1, <1>2, TotalsIs
<1>4. /\ s[0] = <<>> /\ \A i \in 1..n : s[i] = AddAlias(s[i - 1], names[i])
      /\ \A i \in 0..n : s[i] \in Seq(Label)
  BY <1>1, SoftIs
<1>5. \A i \in 0..n : t[i] <= Total(c)
  BY <1>1, <1>2, TotalGrows
<1>6. SoftAlias(f) = s[n]
  BY <1>1 DEF SoftAlias, Soft
<1> DEFINE S == {i \in 0..n : Total(CountsOf(s[i])) = t[i]}
<1>7. 0 \in S
  <2>1. PICK e : e = CountsOf(s[0])
    OBVIOUS
  <2>2. e \in Seq(Nat) /\ Len(e) = 0
    BY <1>4, <2>1 DEF CountsOf
  <2>3. Total(e) = 0
    <3>1. \A i \in 1..Len(e) : e[i] = 0
      BY <2>2
    <3> QED
      BY <2>2, <3>1, TotalZero
  <2> QED
    BY <1>2, <1>3, <2>1, <2>3
<1>8. ASSUME NEW i \in 1..n, i - 1 \in S PROVE i \in S
  <2>1. Total(CountsOf(s[i - 1])) = t[i - 1] /\ s[i - 1] \in Seq(Label) /\ i - 1 \in 0..n /\ i \in 0..n
    BY <1>2, <1>4, <1>8
  <2>2. t[i - 1] + names[i].count = t[i] /\ names[i] \in Alias
    BY <1>2, <1>3
  <2>3. t[i] < U32
    <3>1. t[i] \in Nat /\ t[n] \in Nat /\ t[i] <= t[n] /\ t[n] < U32
      BY <1>1, <1>2, <1>3, <1>5, <2>1
    <3> QED
      BY <3>1, WidthFacts
  <2>4. Total(CountsOf(AddAlias(s[i - 1], names[i]))) = t[i]
    BY <2>1, <2>2, <2>3, AddAliasIs
  <2> QED
    BY <1>4, <2>1, <2>4
<1>9. \A i \in 0..n : i \in S
  <2> HIDE DEF S
  <2> QED
    BY <1>2, <1>7, <1>8, UpTo
<1> QED
  BY <1>1, <1>2, <1>3, <1>6, <1>9

(* The functions of a file: of any number and in any order, where the calls  *)
(* of a position fit a word.                                                 *)
AnyFunctions ==
    \E fns \in Seq(Entry) :
        /\ subject = [part |-> "functions", fns |-> fns]
        /\ \A i \in DOMAIN fns : Total(Calls(fns, PosOf(fns[i]))) < U32

(* FunctionsCorrect: for every list of functions, of any length, order and   *)
(* number of names, whose calls at a position fit 32 bits, merge_aliases     *)
(* gives one function for each position with the calls of all its names,     *)
(* store_coverage counts it once, as visited if any name was called, and     *)
(* the labels of soft_alias account for all of the calls.                    *)
THEOREM FunctionsCorrect == AnyFunctions => FunctionsCounted
<1> SUFFICES ASSUME AnyFunctions PROVE FunctionsCounted
  OBVIOUS
<1>1. PICK fns \in Seq(Entry) :
        /\ subject = [part |-> "functions", fns |-> fns]
        /\ \A i \in DOMAIN fns : Total(Calls(fns, PosOf(fns[i]))) < U32
  BY DEF AnyFunctions
<1> DEFINE P == {PosOf(fns[i]) : i \in DOMAIN fns}
           called == {PosOf(fns[i]) : i \in {j \in DOMAIN fns : fns[j].count > 0}}
<1>2. PICK N, L, merged : N = Cardinality(P) /\ L = TuplesInOrder(P) /\ merged = MergeAliases(fns)
  OBVIOUS
<1>3. /\ P \in SUBSET [1..4 -> Int] /\ IsFiniteSet(P)
      /\ Len(fns) \in Nat /\ DOMAIN fns = 1..Len(fns) /\ \A i \in DOMAIN fns : fns[i].count \in Nat
  <2>1. DOMAIN fns \in SUBSET DOMAIN fns
    OBVIOUS
  <2> QED
    BY <2>1, EntryTuples
<1>4. /\ L \in Seq(P) /\ Len(L) = N /\ N \in Nat
      /\ \A i, j \in 1..N : i # j => L[i] # L[j]
      /\ \A x \in P : \E i \in 1..N : L[i] = x
  <2>1. PICK four : four = 4
    OBVIOUS
  <2>2. four \in Nat /\ P \in SUBSET [1..four -> Int] /\ IsFiniteSet(P)
    BY <1>3, <2>1
  <2> HIDE DEF P
  <2> QED
    BY <1>2, <2>2, TuplesInOrderIs
<1>5. DOMAIN L = 1..N /\ \A i \in 1..N : L[i] \in P
  <2> HIDE DEF P
  <2> QED
    BY <1>4
<1>6. merged = [i \in 1..N |-> MergedAt(fns, L[i])]
  BY <1>2, <1>5 DEF MergeAliases, TuplesInOrder
<1>7. DOMAIN merged = 1..N /\ Len(merged) = N
  BY <1>4, <1>6
<1>8. ASSUME NEW p \in P
      PROVE  /\ Calls(fns, p) \in Seq(Nat)
             /\ MergedAt(fns, p).pos = p
             /\ MergedAt(fns, p).count = Total(Calls(fns, p))
             /\ Total(CountsOf(SoftAlias(MergedAt(fns, p)))) = Total(Calls(fns, p))
  <2>1. Calls(fns, p) \in Seq(Nat)
    BY <1>3 DEF Calls
  <2>2. Total(Calls(fns, p)) < U32
    BY <1>1
  <2>3. PICK names, f : names = NamesAt(fns, p) /\ f = MergedAt(fns, p)
    OBVIOUS
  <2>4. /\ names \in Seq(Alias) /\ CountsOf(names) \in Seq(Nat)
        /\ Total(CountsOf(names)) = Total(Calls(fns, p))
    BY <2>2, <2>3, NamesSum
  <2>5. f.pos = p /\ f.names = names /\ f.count = SumU32(CountsOf(names))
    BY <2>3 DEF MergedAt, CountsOf
  <2>6. SumU32(CountsOf(names)) = Total(CountsOf(names))
    BY <2>2, <2>4, NoWrap
  <2>7. Total(CountsOf(SoftAlias(f))) = Total(CountsOf(names))
    BY <2>2, <2>4, <2>5, SoftTotal
  <2> QED
    BY <2>1, <2>3, <2>4, <2>5, <2>6, <2>7
<1>9. ASSUME NEW p \in P PROVE MergedAt(fns, p).count # 0 <=> p \in called
  <2>1. PICK c : c = Calls(fns, p)
    OBVIOUS
  <2>2. /\ c \in Seq(Nat) /\ Len(c) = Len(fns)
        /\ \A i \in 1..Len(fns) : c[i] = IF PosOf(fns[i]) = p THEN fns[i].count ELSE 0
    BY <1>3, <1>8, <2>1 DEF Calls
  <2>3. MergedAt(fns, p).count = 0 <=> \A i \in 1..Len(fns) : c[i] = 0
    BY <1>8, <2>1, <2>2, TotalZero
  <2>4. p \in called <=> \E i \in 1..Len(fns) : PosOf(fns[i]) = p /\ fns[i].count > 0
    BY <1>3
  <2>5. \A i \in 1..Len(fns) : fns[i].count > 0 <=> fns[i].count # 0
    BY <1>3
  <2> HIDE DEF called
  <2> QED
    BY <2>2, <2>3, <2>4, <2>5
<1>10. Cardinality({i \in DOMAIN merged : merged[i].count # 0}) = Cardinality(called)
  <2> DEFINE S == {i \in 1..N : merged[i].count # 0}
             f == [i \in S |-> L[i]]
  <2>1. \A i \in 1..N : i \in S <=> L[i] \in called
    <3> HIDE DEF P, called
    <3> QED
      BY <1>5, <1>6, <1>9
  <2>2. called \in SUBSET P /\ S \in SUBSET (1..N)
    OBVIOUS
  <2> HIDE DEF P, called, S
  <2>3. f \in [S -> called]
    BY <2>1, <2>2
  <2>4. f \in Injection(S, called)
    BY <1>4, <2>2, <2>3 DEF Injection, IsInjective
  <2>5. ASSUME NEW p \in called PROVE \E i \in S : f[i] = p
    <3>1. PICK i \in 1..N : L[i] = p
      BY <1>4, <2>2
    <3> QED
      BY <2>1, <3>1
  <2>6. f \in Surjection(S, called)
    BY <2>3, <2>5 DEF Surjection
  <2>7. IsFiniteSet(called)
    BY <1>3, <2>2, FS_Subset
  <2>8. Cardinality(S) = Cardinality(called)
    <3> HIDE DEF f
    <3> QED
      BY <2>4, <2>6, <2>7, FS_Injection
  <2> QED
    BY <1>7, <2>8 DEF S
<1>11. FunctionStats(fns) = [relevant |-> Cardinality(P), visited |-> Cardinality(called)]
  <2> HIDE DEF P, called
  <2> QED
    BY <1>2, <1>7, <1>10 DEF FunctionStats
<1>12. {merged[i].pos : i \in DOMAIN merged} = P
  <2>1. \A i \in 1..N : merged[i].pos = L[i]
    <3> HIDE DEF P
    <3> QED
      BY <1>5, <1>6, <1>8
  <2> HIDE DEF P
  <2> QED
    BY <1>4, <1>5, <1>7, <2>1
<1>13. ASSUME NEW i \in DOMAIN merged
       PROVE  /\ Total(CountsOf(SoftAlias(merged[i]))) = Total(Calls(fns, merged[i].pos))
              /\ merged[i].count = Total(Calls(fns, merged[i].pos))
  <2>1. i \in 1..N /\ merged[i] = MergedAt(fns, L[i]) /\ L[i] \in P
    <3> HIDE DEF P
    <3> QED
      BY <1>5, <1>6, <1>7
  <2> HIDE DEF P
  <2> QED
    BY <1>8, <2>1
<1>14. subject.fns = fns
  BY <1>1
<1>15. /\ FunctionStats(fns) = [relevant |-> Cardinality(P), visited |-> Cardinality(called)]
       /\ {MergeAliases(fns)[i].pos : i \in DOMAIN MergeAliases(fns)} = P
       /\ \A i \in DOMAIN MergeAliases(fns) :
            /\ Total(CountsOf(SoftAlias(MergeAliases(fns)[i]))) = Total(Calls(fns, MergeAliases(fns)[i].pos))
            /\ MergeAliases(fns)[i].count = Total(Calls(fns, MergeAliases(fns)[i].pos))
  <2> HIDE DEF P, called
  <2> QED
    BY <1>2, <1>11, <1>12, <1>13, Zenon
<1> QED
  BY <1>14, <1>15, Zenon DEF FunctionsCounted, CountsOf, Calls
=============================================================================
