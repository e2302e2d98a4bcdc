--------------------------- MODULE NumericProofs ---------------------------
(***************************************************************************)
(* Proofs about the numeric curve, for every question, every number of     *)
(* runs and every reply: no stage between the reply and the submission     *)
(* loses or moves mass, and what is submitted is what Metaculus accepts.   *)
(*                                                                         *)
(* What an operator makes is stated by lemmas (the guardrails, then the    *)
(* repair, the average, the standardised curve); the invariant at the end  *)
(* says which of them each stage of the computation has gone through.      *)
(***************************************************************************)
EXTENDS NumericCdf, DataLemmas, TLAPS

(***************************************************************************)
(* Quotients.                                                              *)
(***************************************************************************)
LEMMA Quotient ==
  ASSUME NEW a \in Int, NEW d \in Nat \ {0}
  PROVE  /\ a \div d \in Int
         /\ d * (a \div d) <= a /\ a < d * (a \div d) + d
OBVIOUS

LEMMA ProductGrows ==
  ASSUME NEW x \in Int, NEW y \in Int, NEW d \in Nat, x <= y
  PROVE  d * x <= d * y /\ x * d <= y * d
OBVIOUS

\* What a quotient is at least, and at most.
LEMMA QuotientAbove ==
  ASSUME NEW a \in Int, NEW d \in Nat \ {0}, NEW x \in Int, d * x <= a
  PROVE  x <= a \div d
<1> DEFINE q == a \div d
<1>1. q \in Int /\ d * q <= a /\ a < d * q + d BY Quotient
<1> HIDE DEF q
<1>2. SUFFICES ASSUME q + 1 <= x PROVE FALSE BY <1>1
<1>3. d * (q + 1) <= d * x BY <1>1, <1>2, ProductGrows
<1> QED BY <1>1, <1>3

LEMMA QuotientBelow ==
  ASSUME NEW a \in Int, NEW d \in Nat \ {0}, NEW x \in Int, a <= d * x
  PROVE  a \div d <= x
<1> DEFINE q == a \div d
<1>1. q \in Int /\ d * q <= a /\ a < d * q + d BY Quotient
<1> HIDE DEF q
<1>2. SUFFICES ASSUME x + 1 <= q PROVE FALSE BY <1>1
<1>3. d * (x + 1) <= d * q BY <1>1, <1>2, ProductGrows
<1> QED BY <1>1, <1>3

LEMMA QuotientNatural ==
  ASSUME NEW a \in Nat, NEW d \in Nat \ {0} PROVE a \div d \in Nat
<1>1. 0 \in Int /\ d * 0 <= a OBVIOUS
<1> QED BY <1>1, Quotient, QuotientAbove

LEMMA QuotientGrows ==
  ASSUME NEW a \in Int, NEW b \in Int, NEW d \in Nat \ {0}, a <= b
  PROVE  a \div d \in Int /\ b \div d \in Int /\ a \div d <= b \div d
BY Quotient, QuotientAbove

LEMMA Bounded ==
  ASSUME NEW x \in Int, NEW h \in Nat
  PROVE  Bound(x, 0, h) \in Int /\ 0 <= Bound(x, 0, h) /\ Bound(x, 0, h) <= h
BY DEF Bound, AtLeast, AtMost

LEMMA BoundGrows ==
  ASSUME NEW x \in Int, NEW y \in Int, NEW h \in Nat, x <= y
  PROVE  Bound(x, 0, h) <= Bound(y, 0, h)
BY DEF Bound, AtLeast, AtMost

(***************************************************************************)
(* Weighted means.                                                         *)
(***************************************************************************)
\* A mean lies between its values, and grows with them.
LEMMA MeanWithin ==
  ASSUME NEW S, IsFiniteSet(S), NEW w, NEW v, NEW p, NEW lo \in Int, NEW hi \in Int,
         \A s \in S : w[s] \in Nat /\ v[s] \in Int /\ p[s] = w[s] * v[s],
         \A s \in S : lo <= v[s] /\ v[s] <= hi,
         NEW W, W = SumFunctionOnSet(w, S)
  PROVE  /\ W \in Nat /\ SumFunctionOnSet(p, S) \in Int
         /\ W * lo <= SumFunctionOnSet(p, S) /\ SumFunctionOnSet(p, S) <= W * hi
         /\ W > 0 => /\ SumFunctionOnSet(p, S) \div W \in Int
                     /\ lo <= SumFunctionOnSet(p, S) \div W
                     /\ SumFunctionOnSet(p, S) \div W <= hi
<1> DEFINE low == [s \in S |-> lo * w[s]]
           high == [s \in S |-> hi * w[s]]
           P == SumFunctionOnSet(p, S)
<1>1. W \in Nat BY SumMonotone
<1>2. \A s \in S : /\ low[s] \in Int /\ high[s] \in Int /\ p[s] \in Int
                   /\ low[s] = lo * w[s] /\ high[s] = hi * w[s]
  OBVIOUS
<1>3. ASSUME NEW s \in S PROVE low[s] <= p[s] /\ p[s] <= high[s]
  <2>1. w[s] * lo <= w[s] * v[s] /\ w[s] * v[s] <= w[s] * hi BY ProductGrows
  <2>2. lo * w[s] = w[s] * lo /\ hi * w[s] = w[s] * hi OBVIOUS
  <2> QED BY <2>1, <2>2
<1> HIDE DEF low, high
<1>4. P \in Int BY <1>2, SumType
<1>5. SumFunctionOnSet(low, S) = lo * W /\ SumFunctionOnSet(high, S) = hi * W
  <2>1. \A s \in S : w[s] \in Int OBVIOUS
  <2>2. SumFunctionOnSet(low, S) = lo * SumFunctionOnSet(w, S) BY <1>2, <2>1, SumTimes
  <2>3. SumFunctionOnSet(high, S) = hi * SumFunctionOnSet(w, S) BY <1>2, <2>1, SumTimes
  <2> QED BY <2>2, <2>3
<1>6. SumFunctionOnSet(low, S) <= P /\ P <= SumFunctionOnSet(high, S)
  BY <1>2, <1>3, SumBelow
<1> HIDE DEF P
<1>7. W * lo <= P /\ P <= W * hi BY <1>1, <1>4, <1>5, <1>6
<1>8. W > 0 => P \div W \in Int /\ lo <= P \div W /\ P \div W <= hi
  BY <1>1, <1>4, <1>7, Quotient, QuotientAbove, QuotientBelow
<1> QED BY <1>1, <1>4, <1>7, <1>8 DEF P

LEMMA MeanGrows ==
  ASSUME NEW S, IsFiniteSet(S), NEW w, NEW u, NEW v, NEW p, NEW q,
         \A s \in S : w[s] \in Nat /\ u[s] \in Int /\ v[s] \in Int,
         \A s \in S : p[s] = w[s] * u[s] /\ q[s] = w[s] * v[s],
         \A s \in S : u[s] <= v[s],
         NEW W \in Nat \ {0}
  PROVE  /\ SumFunctionOnSet(p, S) \in Int /\ SumFunctionOnSet(q, S) \in Int
         /\ SumFunctionOnSet(p, S) <= SumFunctionOnSet(q, S)
         /\ SumFunctionOnSet(p, S) \div W <= SumFunctionOnSet(q, S) \div W
<1>1. \A s \in S : p[s] \in Int /\ q[s] \in Int OBVIOUS
<1>2. \A s \in S : p[s] <= q[s] BY ProductGrows
<1>3. /\ SumFunctionOnSet(p, S) \in Int /\ SumFunctionOnSet(q, S) \in Int
      /\ SumFunctionOnSet(p, S) <= SumFunctionOnSet(q, S)
  BY <1>1, <1>2, SumType, SumBelow
<1> QED BY <1>3, QuotientGrows

(***************************************************************************)
(* The curves of a reply.                                                  *)
(***************************************************************************)
\* A curve on a grid of n points: it rises from at least 0 to at most Unit.
Curve(n) == {c \in [1..n -> 0..Unit] : \A k \in 2..n : c[k - 1] <= c[k]}

LEMMA UnitIsPositive == CdfAssumption => Unit \in Nat \ {0} /\ Unit >= 100
BY DEF CdfAssumption, Unit

\* What grows along the grid is a curve.
LEMMA RisesAlongGrid ==
  ASSUME NEW n \in Nat \ {0}, NEW f, f \in [1..n -> Int],
         \A k \in 1..n : 0 <= f[k] /\ f[k] <= Unit, Unit \in Nat,
         \A k, j \in 1..n : j <= k => f[j] <= f[k]
  PROVE  f \in Curve(n)
<1>1. f \in [1..n -> 0..Unit] OBVIOUS
<1>2. \A k \in 2..n : f[k - 1] <= f[k] OBVIOUS
<1> QED BY <1>1, <1>2 DEF Curve

LEMMA GridRises ==
  ASSUME NEW g \in Geometry, g.lo < g.hi
  PROVE  /\ g.size \in Nat /\ g.size >= 2 /\ Rng(g) \in Nat \ {0}
         /\ \A k \in 1..g.size : Grid(g)[k] \in Int
         /\ \A k, j \in 1..g.size : j <= k => Grid(g)[j] <= Grid(g)[k]
<1>1. g.size \in Nat /\ g.size >= 2 /\ g.lo \in Int /\ g.hi \in Int BY DEF Geometry
<1>2. Rng(g) \in Nat \ {0} BY <1>1 DEF Rng
<1> DEFINE r == Rng(g) d == g.size - 1
<1>3. \A k \in 1..g.size : Grid(g)[k] = g.lo + (r * (k - 1)) \div d BY DEF Grid
<1>4. r \in Nat \ {0} /\ d \in Nat \ {0} BY <1>1, <1>2
<1> HIDE DEF r, d
<1>5. ASSUME NEW k \in 1..g.size, NEW j \in 1..g.size, j <= k
      PROVE  /\ (r * (k - 1)) \div d \in Int /\ (r * (j - 1)) \div d \in Int
             /\ (r * (j - 1)) \div d <= (r * (k - 1)) \div d
  <2>1. r * (k - 1) \in Int /\ r * (j - 1) \in Int BY <1>1, <1>4
  <2>2. r * (j - 1) <= r * (k - 1) BY <1>1, <1>4, <1>5, ProductGrows
  <2> QED BY <1>4, <2>1, <2>2, QuotientGrows
<1>6. \A k \in 1..g.size : Grid(g)[k] \in Int BY <1>1, <1>3, <1>5
<1>7. ASSUME NEW k \in 1..g.size, NEW j \in 1..g.size, j <= k PROVE Grid(g)[j] <= Grid(g)[k]
  BY <1>1, <1>3, <1>5, <1>7
<1> QED BY <1>1, <1>2, <1>6, <1>7

\* A component that a curve can be drawn of.
Drawable(c) == c.center \in Int /\ c.spread \in Nat \ {0} /\ c.weight \in Nat

LEMMA BlockRises ==
  ASSUME CdfAssumption, NEW c, Drawable(c), NEW x \in Int, NEW y \in Int, x <= y
  PROVE  /\ BlockCdf(c, x) \in Int /\ 0 <= BlockCdf(c, x) /\ BlockCdf(c, x) <= Unit
         /\ BlockCdf(c, x) <= BlockCdf(c, y)
<1> DEFINE s == 2 * c.spread
           a == Bound(x - (c.center - c.spread), 0, s)
           b == Bound(y - (c.center - c.spread), 0, s)
<1>1. s \in Nat \ {0} BY DEF Drawable
<1>2. a \in Int /\ b \in Int /\ 0 <= a /\ a <= s /\ a <= b
  <2> DEFINE i == x - (c.center - c.spread) j == y - (c.center - c.spread)
  <2>1. i \in Int /\ j \in Int /\ i <= j BY DEF Drawable
  <2> HIDE DEF i, j, s
  <2>2. Bound(i, 0, s) \in Int /\ Bound(j, 0, s) \in Int /\ 0 <= Bound(i, 0, s)
        /\ Bound(i, 0, s) <= s /\ Bound(i, 0, s) <= Bound(j, 0, s)
    BY <1>1, <2>1, Bounded, BoundGrows
  <2> QED BY <2>2 DEF i, j
<1>3. BlockCdf(c, x) = (Unit * a) \div s /\ BlockCdf(c, y) = (Unit * b) \div s BY DEF BlockCdf
<1> HIDE DEF s, a, b
<1>4. Unit \in Nat \ {0} BY UnitIsPositive
<1> HIDE DEF Unit
<1>5. Unit * a \in Int /\ Unit * b \in Int /\ Unit * a <= Unit * b BY <1>2, <1>4, ProductGrows
<1>6. Unit * a <= Unit * s /\ Unit * s = s * Unit BY <1>1, <1>2, <1>4, ProductGrows
<1>7. s * 0 <= Unit * a
  <2>1. Unit * 0 <= Unit * a BY <1>2, <1>4, ProductGrows
  <2> QED BY <1>1, <1>4, <2>1
<1>8. (Unit * a) \div s \in Int /\ (Unit * a) \div s <= (Unit * b) \div s
  BY <1>1, <1>5, QuotientGrows
<1>9. 0 <= (Unit * a) \div s BY <1>1, <1>5, <1>7, QuotientAbove
<1>10. (Unit * a) \div s <= Unit BY <1>1, <1>4, <1>5, <1>6, QuotientBelow
<1> QED BY <1>3, <1>8, <1>9, <1>10

\* Components that a curve can be drawn of.
Mixed(cs) == /\ IsFiniteSet(DOMAIN cs) /\ \A k \in DOMAIN cs : Drawable(cs[k])
             /\ TotalWeight(cs) > 0

LEMMA MixtureRises ==
  ASSUME CdfAssumption, NEW cs, Mixed(cs), NEW x \in Int, NEW y \in Int, x <= y
  PROVE  /\ MixtureCdf(cs, x) \in Int /\ 0 <= MixtureCdf(cs, x) /\ MixtureCdf(cs, x) <= Unit
         /\ MixtureCdf(cs, x) <= MixtureCdf(cs, y)
<1> DEFINE D == DOMAIN cs
           w == [k \in D |-> cs[k].weight]
           u == [k \in D |-> BlockCdf(cs[k], x)]
           v == [k \in D |-> BlockCdf(cs[k], y)]
           p == [k \in D |-> cs[k].weight * BlockCdf(cs[k], x)]
           q == [k \in D |-> cs[k].weight * BlockCdf(cs[k], y)]
           W == SumFunctionOnSet(w, D)
<1>1. /\ TotalWeight(cs) = W
      /\ MixtureCdf(cs, x) = SumFunctionOnSet(p, D) \div W
      /\ MixtureCdf(cs, y) = SumFunctionOnSet(q, D) \div W
  BY DEF TotalWeight, MixtureCdf, SumFunction
<1>2. IsFiniteSet(D) /\ W > 0 BY <1>1 DEF Mixed
<1>3. Unit \in Int BY UnitIsPositive
<1>4. ASSUME NEW k \in D
      PROVE  /\ w[k] \in Nat /\ u[k] \in Int /\ v[k] \in Int /\ 0 <= u[k] /\ u[k] <= Unit
             /\ u[k] <= v[k] /\ p[k] = w[k] * u[k] /\ q[k] = w[k] * v[k]
  <2> DEFINE c == cs[k]
  <2>1. Drawable(c) BY DEF Mixed
  <2>2. w[k] = c.weight /\ u[k] = BlockCdf(c, x) /\ v[k] = BlockCdf(c, y)
        /\ p[k] = c.weight * BlockCdf(c, x) /\ q[k] = c.weight * BlockCdf(c, y)
    OBVIOUS
  <2> HIDE DEF c, w, u, v, p, q
  <2>3. c.weight \in Nat BY <2>1 DEF Drawable
  <2>4. y <= y OBVIOUS
  <2>5. /\ BlockCdf(c, x) \in Int /\ BlockCdf(c, y) \in Int /\ 0 <= BlockCdf(c, x)
        /\ BlockCdf(c, x) <= Unit /\ BlockCdf(c, x) <= BlockCdf(c, y)
    BY <2>1, <2>4, BlockRises
  <2> QED BY <2>2, <2>3, <2>5
<1> HIDE DEF w, u, v, p, q, D
<1>5. W \in Nat BY <1>2, <1>4, SumMonotone
<1> HIDE DEF W, Unit
<1>6. /\ SumFunctionOnSet(p, D) \div W \in Int
      /\ 0 <= SumFunctionOnSet(p, D) \div W
      /\ SumFunctionOnSet(p, D) \div W <= Unit
  <2>1. W = SumFunctionOnSet(w, D) BY DEF W
  <2>2. \A s \in D : w[s] \in Nat /\ u[s] \in Int /\ p[s] = w[s] * u[s] BY <1>4
  <2>3. \A s \in D : 0 <= u[s] /\ u[s] <= Unit BY <1>4
  <2>4. 0 \in Int OBVIOUS
  <2> QED BY <1>2, <1>3, <2>1, <2>2, <2>3, <2>4, MeanWithin
<1>7. SumFunctionOnSet(p, D) \div W <= SumFunctionOnSet(q, D) \div W
  <2>1. W \in Nat \ {0} BY <1>2, <1>5
  <2>2. \A s \in D : w[s] \in Nat /\ u[s] \in Int /\ v[s] \in Int BY <1>4
  <2>3. \A s \in D : p[s] = w[s] * u[s] /\ q[s] = w[s] * v[s] BY <1>4
  <2>4. \A s \in D : u[s] <= v[s] BY <1>4
  <2> QED BY <1>2, <2>1, <2>2, <2>3, <2>4, MeanGrows
<1> QED BY <1>1, <1>6, <1>7

\* A mixture that is cut rises as well, wherever half of it lies within the limits.
LEMMA CutRises ==
  ASSUME CdfAssumption, NEW cs, Mixed(cs), NEW s \in Limits, SupportHolds(cs, s),
         NEW x \in Int, NEW y \in Int, x <= y
  PROVE  /\ Cut(cs, s, x) \in Int /\ 0 <= Cut(cs, s, x) /\ Cut(cs, s, x) <= Unit
         /\ Cut(cs, s, x) <= Cut(cs, s, y)
<1> DEFINE F(z) == MixtureCdf(cs, z)
           d == F(s.max) - F(s.min)
           C(z) == (Unit * (F(z) - F(s.min))) \div d
<1>1. s.min \in Int /\ s.max \in Int BY DEF Limits
<1>2. \A z \in Int : F(z) \in Int /\ 0 <= F(z) /\ F(z) <= Unit BY MixtureRises
<1>3. \A z, t \in Int : z <= t => F(z) <= F(t) BY MixtureRises
<1>4. 2 * d >= Unit BY DEF SupportHolds
<1>5. \A z \in Int : Cut(cs, s, z) = IF z < s.min THEN 0 ELSE IF z >= s.max THEN Unit ELSE C(z)
  BY DEF Cut
<1>6. Unit \in Nat \ {0} BY UnitIsPositive
<1> HIDE DEF F, Unit
<1>7. d \in Nat \ {0} BY <1>1, <1>2, <1>4, <1>6
<1>8. ASSUME NEW z \in Int, s.min <= z, z < s.max
      PROVE  /\ Unit * (F(z) - F(s.min)) \in Int
             /\ C(z) \in Int /\ 0 <= C(z) /\ C(z) <= Unit
  <2> DEFINE e == F(z) - F(s.min)
  <2>1. e \in Int /\ 0 <= e /\ e <= d BY <1>1, <1>2, <1>3, <1>8
  <2> HIDE DEF e, d
  <2>2. Unit * 0 <= Unit * e /\ Unit * e <= Unit * d BY <1>6, <1>7, <2>1, ProductGrows
  <2>3. Unit * e \in Int /\ d * 0 <= Unit * e /\ Unit * e <= d * Unit
    BY <1>6, <1>7, <2>1, <2>2
  <2>4. (Unit * e) \div d \in Int /\ 0 <= (Unit * e) \div d /\ (Unit * e) \div d <= Unit
    BY <1>6, <1>7, <2>3, Quotient, QuotientAbove, QuotientBelow
  <2> QED BY <2>3, <2>4 DEF e
<1>9. ASSUME s.min <= x, y < s.max PROVE C(x) <= C(y)
  <2> DEFINE e == F(x) - F(s.min) f == F(y) - F(s.min)
  <2>1. e \in Int /\ f \in Int /\ e <= f BY <1>1, <1>2, <1>3
  <2> HIDE DEF e, f, d
  <2>2. Unit * e <= Unit * f BY <1>6, <2>1, ProductGrows
  <2>3. Unit * e \in Int /\ Unit * f \in Int BY <1>6, <2>1
  <2>4. (Unit * e) \div d <= (Unit * f) \div d BY <1>7, <2>2, <2>3, QuotientGrows
  <2> QED BY <2>4 DEF e, f
<1> HIDE DEF C
<1>10. \A z \in Int : Cut(cs, s, z) \in Int /\ 0 <= Cut(cs, s, z) /\ Cut(cs, s, z) <= Unit
  BY <1>1, <1>5, <1>6, <1>8
<1>11. Cut(cs, s, x) <= Cut(cs, s, y)
  <2>1. CASE x < s.min BY <1>5, <1>10, <2>1
  <2>2. CASE ~(x < s.min) /\ y >= s.max BY <1>1, <1>5, <1>10, <2>2
  <2>3. CASE ~(x < s.min) /\ ~(y >= s.max)
    <3>1. s.min <= x /\ x < s.max /\ s.min <= y /\ y < s.max BY <1>1, <2>3
    <3> QED BY <1>1, <1>5, <1>9, <3>1
  <2> QED BY <2>1, <2>2, <2>3
<1> QED BY <1>10, <1>11

LEMMA MixtureCurveRises ==
  ASSUME CdfAssumption, NEW g \in Geometry, g.lo < g.hi, NEW cs, Mixed(cs),
         NEW s \in Limits \cup {Nothing}
  PROVE  MixtureCurve(cs, s, g) \in Curve(g.size)
<1> DEFINE n == g.size
           x == Grid(g)
           f == [k \in 1..n |-> MixtureCdf(cs, x[k])]
           c == [k \in 1..n |-> Cut(cs, s, x[k])]
<1>1. /\ n \in Nat \ {0} /\ \A k \in 1..n : x[k] \in Int
      /\ \A k, j \in 1..n : j <= k => x[j] <= x[k]
  BY GridRises
<1>2. Unit \in Nat BY UnitIsPositive
<1>3. MixtureCurve(cs, s, g) = IF SupportHolds(cs, s) THEN c ELSE f BY DEF MixtureCurve
<1>4. ASSUME NEW k \in 1..n, NEW j \in 1..n, j <= k
      PROVE  /\ f[k] \in Int /\ 0 <= f[k] /\ f[k] <= Unit /\ f[j] <= f[k]
             /\ SupportHolds(cs, s) =>
                  c[k] \in Int /\ 0 <= c[k] /\ c[k] <= Unit /\ c[j] <= c[k]
  <2> DEFINE a == x[j] b == x[k]
  <2>1. f[j] = MixtureCdf(cs, a) /\ f[k] = MixtureCdf(cs, b)
        /\ c[j] = Cut(cs, s, a) /\ c[k] = Cut(cs, s, b)
    OBVIOUS
  <2>2. a \in Int /\ b \in Int /\ a <= b /\ b <= b BY <1>1, <1>4
  <2> HIDE DEF a, b, f, c, n, x
  <2>3. SupportHolds(cs, s) => s \in Limits BY DEF SupportHolds
  <2>4. MixtureCdf(cs, b) \in Int /\ 0 <= MixtureCdf(cs, b) /\ MixtureCdf(cs, b) <= Unit
        /\ MixtureCdf(cs, a) <= MixtureCdf(cs, b)
    BY <2>2, MixtureRises
  <2>5. ASSUME SupportHolds(cs, s)
        PROVE  /\ Cut(cs, s, b) \in Int /\ 0 <= Cut(cs, s, b) /\ Cut(cs, s, b) <= Unit
               /\ Cut(cs, s, a) <= Cut(cs, s, b)
    BY <2>2, <2>3, <2>5, CutRises
  <2> QED BY <2>1, <2>4, <2>5
<1>5. f \in [1..n -> Int]
  <2>1. \A k \in 1..n : k <= k BY <1>1
  <2>2. \A k \in 1..n : f[k] \in Int BY <1>4, <2>1
  <2> QED BY <2>2
<1>6. ASSUME SupportHolds(cs, s) PROVE c \in [1..n -> Int]
  <2>1. \A k \in 1..n : k <= k BY <1>1
  <2>2. \A k \in 1..n : c[k] \in Int BY <1>4, <1>6, <2>1
  <2> QED BY <2>2
<1> HIDE DEF f, c
<1>7. \A k \in 1..n : k <= k BY <1>1
<1> HIDE DEF n
<1>8. f \in Curve(n)
  <2>1. \A k \in 1..n : 0 <= f[k] /\ f[k] <= Unit BY <1>4, <1>7
  <2>2. \A k, j \in 1..n : j <= k => f[j] <= f[k] BY <1>4
  <2> QED BY <1>1, <1>2, <1>5, <2>1, <2>2, RisesAlongGrid
<1>9. ASSUME SupportHolds(cs, s) PROVE c \in Curve(n)
  <2>1. \A k \in 1..n : 0 <= c[k] /\ c[k] <= Unit BY <1>4, <1>7, <1>9
  <2>2. \A k, j \in 1..n : j <= k => c[j] <= c[k] BY <1>4, <1>9
  <2> QED BY <1>1, <1>2, <1>6, <1>9, <2>1, <2>2, RisesAlongGrid
<1> QED BY <1>3, <1>8, <1>9 DEF n

(* A list of values. *)
LEMMA ListedRises ==
  ASSUME CdfAssumption, NEW n \in Nat, NEW r, r.probs \in [1..n -> Nat],
         r.values \in [1..n -> Int], SumFunction(r.probs) > 0,
         NEW x \in Int, NEW y \in Int, x <= y
  PROVE  /\ PmfCdf(r, x) \in Int /\ 0 <= PmfCdf(r, x) /\ PmfCdf(r, x) <= Unit
         /\ PmfCdf(r, x) <= PmfCdf(r, y)
<1> DEFINE p == r.probs
           A == {k \in 1..n : r.values[k] <= x}
           B == {k \in 1..n : r.values[k] <= y}
           a == SumFunctionOnSet(p, A)
           b == SumFunctionOnSet(p, B)
           t == SumFunctionOnSet(p, 1..n)
<1>1. /\ PmfCdf(r, x) = (Unit * a) \div t /\ PmfCdf(r, y) = (Unit * b) \div t /\ t > 0
  BY DEF PmfCdf, MassUpTo, SumFunction
<1>2. A \subseteq B /\ B \subseteq 1..n
  <2>1. \A k \in 1..n : r.values[k] \in Int OBVIOUS
  <2> QED BY <2>1
<1>3. IsFiniteSet(1..n) BY FS_Interval
<1>4. \A k \in 1..n : p[k] \in Nat OBVIOUS
<1> HIDE DEF A, B, p
<1>5. IsFiniteSet(B) /\ A \subseteq 1..n BY <1>2, <1>3, FS_Subset
<1>6. a \in Nat /\ b \in Nat /\ a <= b BY <1>2, <1>4, <1>5, SumMonotone
<1>7. a \in Nat /\ t \in Nat /\ a <= t BY <1>3, <1>4, <1>5, SumMonotone
<1> HIDE DEF a, b, t
<1>8. Unit \in Nat \ {0} /\ t \in Nat \ {0} BY <1>1, <1>7, UnitIsPositive
<1> HIDE DEF Unit
<1>9. Unit * 0 <= Unit * a /\ Unit * a <= Unit * b /\ Unit * a <= Unit * t
  BY <1>6, <1>7, <1>8, ProductGrows
<1>10. Unit * a \in Int /\ Unit * b \in Int /\ t * 0 <= Unit * a /\ Unit * a <= t * Unit
  BY <1>6, <1>7, <1>8, <1>9
<1>11. (Unit * a) \div t \in Int /\ (Unit * a) \div t <= (Unit * b) \div t
  BY <1>8, <1>9, <1>10, QuotientGrows
<1>12. 0 <= (Unit * a) \div t /\ (Unit * a) \div t <= Unit
  <2> DEFINE e == Unit * a
  <2>1. e \in Nat /\ e \in Int /\ e <= t * Unit /\ Unit \in Int BY <1>6, <1>8, <1>10
  <2> HIDE DEF e
  <2>2. e \div t \in Nat BY <1>8, <2>1, QuotientNatural
  <2>3. e \div t <= Unit BY <1>8, <2>1, QuotientBelow
  <2> QED BY <2>2, <2>3 DEF e
<1> QED BY <1>1, <1>11, <1>12

LEMMA ListedCurveRises ==
  ASSUME CdfAssumption, NEW g \in Geometry, g.lo < g.hi, NEW r \in Listed, Usable(r)
  PROVE  PmfCurve(r, g) \in Curve(g.size)
<1> DEFINE n == g.size
           x == Grid(g)
           c == CutPmf(r)
           m == Len(r.probs)
           f == [k \in 1..n |-> PmfCdf(c, x[k])]
<1>1. /\ n \in Nat \ {0} /\ \A k \in 1..n : x[k] \in Int
      /\ \A k, j \in 1..n : j <= k => x[j] <= x[k]
  BY GridRises
<1>2. Unit \in Nat BY UnitIsPositive
<1>3. /\ m \in Nat /\ r.probs \in [1..m -> Nat] /\ r.values \in [1..m -> Int]
      /\ SumFunction(r.probs) > 0
  BY DEF Listed, Usable
<1>4. /\ c.probs \in [1..m -> Nat] /\ c.values \in [1..m -> Int] /\ SumFunction(c.probs) > 0
  <2>1. CASE c = r BY <1>3, <2>1
  <2>2. CASE c # r
    <3>1. /\ 2 * SumFunction(PmfKept(r)) >= SumFunction(r.probs)
          /\ c = [r EXCEPT !.probs = PmfKept(r)]
      BY <2>2 DEF CutPmf
    <3>2. c.probs = PmfKept(r) /\ c.values = r.values BY <3>1 DEF Listed
    <3>3. PmfKept(r) \in [1..m -> Nat] BY <1>3 DEF PmfKept
    <3>4. DOMAIN PmfKept(r) = 1..m /\ DOMAIN r.probs = 1..m BY <1>3, <3>3
    <3>5. SumFunction(PmfKept(r)) \in Nat /\ SumFunction(r.probs) \in Nat
      <4>1. IsFiniteSet(1..m) BY <1>3, FS_Interval
      <4>2. \A k \in 1..m : PmfKept(r)[k] \in Nat /\ r.probs[k] \in Nat BY <1>3, <3>3
      <4> QED BY <3>4, <4>1, <4>2, SumMonotone DEF SumFunction
    <3>6. SumFunction(PmfKept(r)) > 0 BY <1>3, <3>1, <3>5
    <3> QED BY <1>3, <3>2, <3>3, <3>6
  <2> QED BY <2>1, <2>2
<1> HIDE DEF c, m
<1>5. ASSUME NEW k \in 1..n, NEW j \in 1..n, j <= k
      PROVE  f[k] \in Int /\ 0 <= f[k] /\ f[k] <= Unit /\ f[j] <= f[k]
  <2> DEFINE a == x[j] b == x[k]
  <2>1. f[j] = PmfCdf(c, a) /\ f[k] = PmfCdf(c, b) OBVIOUS
  <2>2. a \in Int /\ b \in Int /\ a <= b /\ b <= b BY <1>1, <1>5
  <2> HIDE DEF a, b, f, n, x
  <2>3. PmfCdf(c, b) \in Int /\ 0 <= PmfCdf(c, b) /\ PmfCdf(c, b) <= Unit
        /\ PmfCdf(c, a) <= PmfCdf(c, b)
    BY <1>3, <1>4, <2>2, ListedRises
  <2> QED BY <2>1, <2>3
<1>6. \A k \in 1..n : k <= k BY <1>1
<1>7. f \in [1..n -> Int]
  <2>1. \A k \in 1..n : f[k] \in Int BY <1>5, <1>6
  <2> QED BY <2>1
<1>8. PmfCurve(r, g) = f BY DEF PmfCurve, c
<1> HIDE DEF f, n
<1>9. \A k \in 1..n : 0 <= f[k] /\ f[k] <= Unit BY <1>5, <1>6
<1>10. \A k, j \in 1..n : j <= k => f[j] <= f[k] BY <1>5
<1>11. f \in Curve(n) BY <1>1, <1>2, <1>7, <1>9, <1>10, RisesAlongGrid
<1> QED BY <1>8, <1>11 DEF n

(***************************************************************************)
(* Lists, and what their members weigh.                                    *)
(***************************************************************************)
\* Induction up to a number.
LEMMA Climb ==
  ASSUME NEW N \in Nat, NEW P, 0 \in P, \A i \in 1..N : i - 1 \in P => i \in P
  PROVE  \A i \in 0..N : i \in P
<1> DEFINE Q == {i \in 0..N : i \notin P}
<1> SUFFICES ASSUME Q # {} PROVE FALSE OBVIOUS
<1>1. PICK m \in Q : \A n \in Q : m <= n
  <2>1. Q \in SUBSET Nat OBVIOUS
  <2> HIDE DEF Q
  <2> QED BY <2>1, LeastNumber
<1>2. m \in 1..N /\ m \notin P BY <1>1
<1>3. m - 1 \in 0..N /\ ~(m <= m - 1) BY <1>2
<1>4. m - 1 \notin Q
  <2> HIDE DEF Q
  <2> QED BY <1>1, <1>3
<1> QED BY <1>2, <1>3, <1>4

\* h numbers the elements of T by those of S, each once.
Numbers(h, S, T) == /\ h \in [S -> T] /\ \A x, y \in S : h[x] = h[y] => x = y
                    /\ \A t \in T : \E x \in S : h[x] = t

\* A sum over a set is the sum over its elements counted in another way.
LEMMA SumReindexed ==
  ASSUME NEW S, IsFiniteSet(S), NEW T, IsFiniteSet(T), NEW h, Numbers(h, S, T),
         NEW f, \A t \in T : f[t] \in Int, NEW e, \A x \in S : e[x] = f[h[x]]
  PROVE  SumFunctionOnSet(e, S) = SumFunctionOnSet(f, T)
<1> USE DEF Numbers
<1>1. \A x \in S : e[x] \in Int OBVIOUS
<1>2. ASSUME NEW t \in T PROVE f[t] \in Int /\ SumFunctionOnSet(e, Members(S, h, t)) = f[t]
  <2>1. PICK x \in S : h[x] = t OBVIOUS
  <2>2. Members(S, h, t) = {x} BY <2>1 DEF Members
  <2>3. IsFiniteSet({x}) /\ {x} \ {x} = {} BY FS_Singleton
  <2>4. SumFunctionOnSet(e, {x}) = e[x] + SumFunctionOnSet(e, {x} \ {x})
    <3>1. \A c \in {x} : e[c] \in Int BY <1>1
    <3>2. x \in {x} OBVIOUS
    <3> QED BY <2>3, <3>1, <3>2, SumRemove
  <2>5. SumFunctionOnSet(e, {x}) = e[x]
    <3>1. SumFunctionOnSet(e, {}) = 0 BY SumEmpty
    <3>2. e[x] \in Int BY <1>1
    <3> QED BY <2>3, <2>4, <3>1, <3>2
  <2> QED BY <2>1, <2>2, <2>5
<1>3. MembersOf(S, h, T) = S BY DEF MembersOf
<1>4. SumFunctionOnSet(e, MembersOf(S, h, T)) = SumFunctionOnSet(f, T)
  BY <1>1, <1>2, SumGroups
<1> QED BY <1>3, <1>4

LEMMA ChosenLists ==
  ASSUME NEW S, NEW n \in Nat, NEW list \in [1..n -> S], NEW K \in SUBSET (1..n)
  PROVE  /\ Cardinality(K) \in Nat /\ IsFiniteSet(K)
         /\ Chosen(list, K) \in [1..Cardinality(K) -> S]
         /\ Chosen(list, K) \in Seq(S) /\ Len(Chosen(list, K)) = Cardinality(K)
         /\ \A i \in 1..Cardinality(K) : Ascending(K)[i] \in K
                                         /\ Chosen(list, K)[i] = list[Ascending(K)[i]]
         /\ \A k \in K : \E i \in 1..Cardinality(K) : Ascending(K)[i] = k
         /\ \A i, j \in 1..Cardinality(K) : Ascending(K)[i] = Ascending(K)[j] => i = j
<1>1. IsFiniteSet(1..n) BY FS_Interval
<1>2. IsFiniteSet(K) /\ K \in SUBSET Nat
  <2>1. IsFiniteSet(K) BY <1>1, FS_Subset
  <2>2. 1..n \subseteq Nat OBVIOUS
  <2> QED BY <2>1, <2>2
<1> DEFINE c == Cardinality(K) a == Ascending(K) l == Chosen(list, K)
<1>3. /\ c \in Nat /\ a \in [1..c -> K]
      /\ \A i, j \in 1..c : a[i] = a[j] => i = j
      /\ \A k \in K : \E i \in 1..c : a[i] = k
  BY <1>2, AscendingLists
<1>4. l = [i \in 1..c |-> list[a[i]]] BY DEF Chosen
<1> HIDE DEF a, l, c
<1>5. \A i \in 1..c : a[i] \in K /\ l[i] = list[a[i]] /\ l[i] \in S BY <1>3, <1>4
<1>6. l \in [1..c -> S] BY <1>4, <1>5
<1>7. l \in Seq(S) /\ Len(l) = c BY <1>3, <1>6, NumberedIsSeq
<1> QED BY <1>2, <1>3, <1>5, <1>6, <1>7 DEF a, l, c

\* What each member of a list of components weighs.
Weights(cs) == [k \in DOMAIN cs |-> cs[k].weight]

LEMMA TotalIsSum == ASSUME NEW cs PROVE TotalWeight(cs) = SumFunctionOnSet(Weights(cs), DOMAIN cs)
BY DEF TotalWeight, SumFunction, Weights

LEMMA ChosenWeighs ==
  ASSUME NEW S, \A c \in S : c.weight \in Nat,
         NEW n \in Nat, NEW cs \in [1..n -> S], NEW K \in SUBSET (1..n)
  PROVE  /\ TotalWeight(Chosen(cs, K)) = SumFunctionOnSet(Weights(cs), K)
         /\ TotalWeight(Chosen(cs, K)) \in Nat
<1> DEFINE c == Cardinality(K)
           l == Chosen(cs, K)
           a == Ascending(K)
           w == Weights(cs)
           e == Weights(l)
<1>1. /\ c \in Nat /\ IsFiniteSet(K)
      /\ l \in [1..c -> S] /\ \A i \in 1..c : a[i] \in K /\ l[i] = cs[a[i]]
  <2>1. c \in Nat /\ IsFiniteSet(K) BY ChosenLists
  <2>2. l \in [1..c -> S] BY ChosenLists
  <2>3. \A i \in 1..c : a[i] \in K /\ l[i] = cs[a[i]]
    <3>1. K \in SUBSET Nat OBVIOUS
    <3>2. a \in [1..c -> K] BY <2>1, <3>1, AscendingLists
    <3>3. l = [i \in 1..c |-> cs[a[i]]] BY DEF Chosen
    <3> HIDE DEF a, l, c
    <3> QED BY <3>2, <3>3
  <2> QED BY <2>1, <2>2, <2>3
<1>0. /\ \A k \in K : \E i \in 1..c : a[i] = k
      /\ \A i, j \in 1..c : a[i] = a[j] => i = j
  <2>1. IsFiniteSet(K) /\ K \in SUBSET Nat BY <1>1
  <2> QED BY <2>1, AscendingLists
<1>2. ASSUME NEW k \in K PROVE w[k] \in Nat /\ w[k] = cs[k].weight BY DEF Weights
<1>3. ASSUME NEW i \in 1..c PROVE e[i] = l[i].weight
  <2>1. DOMAIN l = 1..c BY <1>1
  <2> HIDE DEF l, c
  <2> QED BY <2>1 DEF Weights
<1> DEFINE h == [i \in 1..c |-> a[i]]
<1>4. h \in [1..c -> K] /\ \A i \in 1..c : h[i] = a[i] BY <1>1
<1> HIDE DEF c, l, a, w, e, h
<1>5. IsFiniteSet(1..c) BY <1>1, FS_Interval
<1>6. ASSUME NEW i \in 1..c PROVE e[i] = w[h[i]]
  <2>1. h[i] = a[i] /\ a[i] \in K /\ l[i] = cs[a[i]] BY <1>1, <1>4
  <2> QED BY <1>2, <1>3, <2>1
<1>7. \A k \in K : w[k] \in Int BY <1>2
<1>8. \A i, j \in 1..c : h[i] = h[j] => i = j BY <1>0, <1>4
<1>9. \A k \in K : \E i \in 1..c : h[i] = k BY <1>0, <1>4
<1>10. SumFunctionOnSet(e, 1..c) = SumFunctionOnSet(w, K)
  <2> DEFINE I == 1..c T == K
  <2>1. /\ IsFiniteSet(I) /\ h \in [I -> T] /\ IsFiniteSet(T)
        /\ \A x, y \in I : h[x] = h[y] => x = y
        /\ \A t \in T : \E x \in I : h[x] = t
        /\ \A t \in T : w[t] \in Int
        /\ \A x \in I : e[x] = w[h[x]]
    BY <1>1, <1>4, <1>5, <1>6, <1>7, <1>8, <1>9
  <2> HIDE DEF I, T
  <2>2. Numbers(h, I, T) BY <2>1 DEF Numbers
  <2>3. SumFunctionOnSet(e, I) = SumFunctionOnSet(w, T) BY <2>1, <2>2, SumReindexed
  <2> QED BY <2>3 DEF I, T
<1>11. TotalWeight(l) = SumFunctionOnSet(e, 1..c)
  <2>1. DOMAIN l = 1..c BY <1>1
  <2> QED BY <2>1, TotalIsSum DEF e
<1>12. SumFunctionOnSet(w, K) \in Nat BY <1>1, <1>2, SumMonotone
<1> QED BY <1>10, <1>11, <1>12 DEF l, w

\* A set of numbers that is not empty has its least one.
LEMMA MinIsIn ==
  ASSUME NEW S \in SUBSET Nat, S # {}
  PROVE  Min(S) \in S /\ \A x \in S : Min(S) <= x
<1>1. \E m \in S : \A n \in S : m <= n BY LeastNumber
<1> QED BY <1>1 DEF Min

LEMMA MaxIsIn ==
  ASSUME NEW S \in SUBSET Nat, S # {}, IsFiniteSet(S)
  PROVE  Max(S) \in S /\ \A x \in S : x <= Max(S)
<1>1. \A n \in S : n \in Nat OBVIOUS
<1>2. \E m \in S : \A n \in S : n <= m BY <1>1, GreatestNumber
<1> QED BY <1>2 DEF Max

\* Of some components one has the least of what is counted.
LEMMA LeastCounted ==
  ASSUME NEW n \in Nat \ {0}, NEW f, \A k \in 1..n : f[k] \in Nat
  PROVE  {k \in 1..n : \A j \in 1..n : f[k] <= f[j]} # {}
<1> DEFINE F == {f[k] : k \in 1..n}
<1>1. F \in SUBSET Nat /\ F # {}
  <2>1. 1 \in 1..n OBVIOUS
  <2> QED BY <2>1
<1>2. PICK m \in F : \A x \in F : m <= x
  <2> HIDE DEF F
  <2> QED BY <1>1, LeastNumber
<1>3. PICK k \in 1..n : f[k] = m BY <1>2
<1>4. \A j \in 1..n : f[k] <= f[j] BY <1>2, <1>3
<1> QED BY <1>4

LEMMA MostCounted ==
  ASSUME NEW n \in Nat \ {0}, NEW f, \A k \in 1..n : f[k] \in Nat
  PROVE  {k \in 1..n : \A j \in 1..n : f[k] >= f[j]} # {}
<1> DEFINE D == 1..n
           T == SumFunctionOnSet(f, D)
           e == [k \in D |-> T - f[k]]
<1>1. IsFiniteSet(D) BY FS_Interval
<1>2. \A k \in D : T \in Nat /\ f[k] <= T
  <2> HIDE DEF D
  <2> QED BY <1>1, PartBelowSum DEF D
<1>3. \A k \in 1..n : e[k] \in Nat /\ e[k] = T - f[k]
  <2> HIDE DEF T
  <2> QED BY <1>2
<1> HIDE DEF e, T
<1>4. {k \in 1..n : \A j \in 1..n : e[k] <= e[j]} # {} BY <1>3, LeastCounted
<1>5. PICK k \in 1..n : \A j \in 1..n : e[k] <= e[j] BY <1>4
<1>6. \A j \in 1..n : f[k] >= f[j] BY <1>2, <1>3, <1>5
<1> QED BY <1>6

(***************************************************************************)
(* The guardrails.                                                         *)
(***************************************************************************)
\* A component that the guardrails keep as valid, and one with a weight whose centre is in H.
Solid == [family : Families, center : Int, spread : Nat \ {0}, weight : Nat]
Piece(H) == {c \in Solid : c.weight > 0 /\ c.center \in H}

LEMMA SolidFields ==
  ASSUME NEW c \in Solid
  PROVE  /\ c.family \in Families /\ c.center \in Int /\ c.spread \in Nat /\ c.spread > 0
         /\ c.weight \in Nat
BY DEF Solid

\* All that is in a sequence can be in a smaller set.
LEMMA Narrowed ==
  ASSUME NEW n \in Nat, NEW S, NEW l \in [1..n -> S], NEW T, \A i \in 1..n : l[i] \in T
  PROVE  l \in [1..n -> T] /\ l \in Seq(T) /\ Len(l) = n /\ DOMAIN l = 1..n
<1>1. l \in [1..n -> T] OBVIOUS
<1> QED BY <1>1, NumberedIsSeq

LEMMA DistanceIsNatural == ASSUME NEW x \in Int, NEW y \in Int PROVE Abs(x - y) \in Nat
BY DEF Abs

\* The nearest component is one of them.
LEMMA NearestIn ==
  ASSUME NEW n \in Nat \ {0}, NEW cs \in [1..n -> Solid], NEW c \in Solid
  PROVE  Nearest(cs, c) \in 1..n
<1> DEFINE f == [k \in 1..n |-> Abs(cs[k].center - c.center)]
           B == {k \in 1..n : \A j \in 1..n : f[k] <= f[j]}
<1>1. \A k \in 1..n : f[k] \in Nat BY SolidFields, DistanceIsNatural
<1>2. Nearest(cs, c) = Min(B) BY DEF Nearest
<1>3. B \subseteq 1..n /\ B \in SUBSET Nat OBVIOUS
<1> HIDE DEF f
<1>4. B # {} BY <1>1, LeastCounted
<1> HIDE DEF B
<1>5. Min(B) \in B BY <1>3, <1>4, MinIsIn
<1> QED BY <1>2, <1>3, <1>5

LEMMA HeaviestIn ==
  ASSUME NEW n \in Nat \ {0}, NEW cs \in [1..n -> Solid]
  PROVE  Heaviest(cs) \in 1..n /\ \A j \in 1..n : cs[j].weight <= cs[Heaviest(cs)].weight
<1> DEFINE f == [k \in 1..n |-> cs[k].weight]
           B == {k \in 1..n : \A j \in 1..n : f[k] >= f[j]}
<1>1. \A k \in 1..n : f[k] \in Nat /\ f[k] = cs[k].weight BY SolidFields
<1>2. Heaviest(cs) = Min(B) BY DEF Heaviest
<1>3. B \subseteq 1..n /\ B \in SUBSET Nat /\ \A k \in B : \A j \in 1..n : f[k] >= f[j] OBVIOUS
<1> HIDE DEF f
<1>4. B # {} BY <1>1, MostCounted
<1> HIDE DEF B
<1>5. Min(B) \in B BY <1>3, <1>4, MinIsIn
<1>6. Heaviest(cs) \in B BY <1>2, <1>5
<1>7. Heaviest(cs) \in 1..n BY <1>3, <1>6
<1>8. \A j \in 1..n : f[j] <= f[Heaviest(cs)] BY <1>1, <1>3, <1>6
<1> QED BY <1>1, <1>7, <1>8

LEMMA LightestIn ==
  ASSUME NEW n \in Nat \ {0}, NEW cs \in [1..n -> Solid]
  PROVE  Lightest(cs) \in 1..n
<1> DEFINE f == [k \in 1..n |-> cs[k].weight]
           B == {k \in 1..n : \A j \in 1..n : f[k] <= f[j]}
<1>1. \A k \in 1..n : f[k] \in Nat BY SolidFields
<1>2. Lightest(cs) = Min(B) BY DEF Lightest
<1>3. B \subseteq 1..n /\ B \in SUBSET Nat OBVIOUS
<1> HIDE DEF f
<1>4. B # {} BY <1>1, LeastCounted
<1> HIDE DEF B
<1>5. Min(B) \in B BY <1>3, <1>4, MinIsIn
<1> QED BY <1>2, <1>3, <1>5

\* The weights of components are natural numbers, and so is their sum.
LEMMA TotalIsNatural ==
  ASSUME NEW n \in Nat, NEW cs \in [1..n -> Solid]
  PROVE  /\ DOMAIN Weights(cs) = 1..n /\ IsFiniteSet(1..n)
         /\ \A k \in 1..n : Weights(cs)[k] = cs[k].weight /\ Weights(cs)[k] \in Nat
         /\ TotalWeight(cs) = SumFunctionOnSet(Weights(cs), 1..n) /\ TotalWeight(cs) \in Nat
<1> DEFINE w == Weights(cs)
<1>1. w = [k \in 1..n |-> cs[k].weight] BY DEF Weights
<1>2. \A k \in 1..n : w[k] = cs[k].weight /\ w[k] \in Nat BY <1>1, SolidFields
<1>3. IsFiniteSet(1..n) BY FS_Interval
<1> HIDE DEF w
<1>4. TotalWeight(cs) = SumFunctionOnSet(w, 1..n) BY TotalIsSum DEF w
<1>5. TotalWeight(cs) \in Nat BY <1>2, <1>3, <1>4, SumMonotone
<1> QED BY <1>1, <1>2, <1>3, <1>4, <1>5 DEF w

\* One component that gets heavier makes the whole as much heavier.
LEMMA OneHeavier ==
  ASSUME NEW n \in Nat, NEW cs \in [1..n -> Solid], NEW d \in [1..n -> Solid], NEW x \in 1..n,
         NEW y \in Nat, d[x].weight = cs[x].weight + y, \A k \in 1..n : k # x => d[k] = cs[k]
  PROVE  TotalWeight(d) = TotalWeight(cs) + y
<1> DEFINE w == Weights(cs)
           v == Weights(d)
           D == 1..n
           z == x
<1>1. /\ IsFiniteSet(D) /\ \A k \in D : w[k] = cs[k].weight /\ w[k] \in Nat
      /\ TotalWeight(cs) = SumFunctionOnSet(w, D)
  BY TotalIsNatural
<1>2. /\ \A k \in D : v[k] = d[k].weight /\ v[k] \in Nat
      /\ TotalWeight(d) = SumFunctionOnSet(v, D)
  BY TotalIsNatural
<1> HIDE DEF w, v
<1>3. z \in D OBVIOUS
<1>4. v[z] = w[z] + y /\ \A k \in D \ {z} : v[k] = w[k] BY <1>1, <1>2
<1> HIDE DEF D, z
<1>5. SumFunctionOnSet(w, D) = w[z] + SumFunctionOnSet(w, D \ {z})
  <2>1. \A k \in D : w[k] \in Int BY <1>1
  <2> QED BY <1>1, <1>3, <2>1, SumRemove
<1>6. SumFunctionOnSet(v, D) = v[z] + SumFunctionOnSet(v, D \ {z})
  <2>1. \A k \in D : v[k] \in Int BY <1>2
  <2> QED BY <1>1, <1>3, <2>1, SumRemove
<1>7. IsFiniteSet(D \ {z}) BY <1>1, FS_Subset
<1>8. \A k \in D \ {z} : w[k] \in Int BY <1>1
<1>9. SumFunctionOnSet(v, D \ {z}) = SumFunctionOnSet(w, D \ {z}) BY <1>4, <1>7, <1>8, SumSame
<1>10. SumFunctionOnSet(w, D \ {z}) \in Int BY <1>7, <1>8, SumType
<1>11. w[z] \in Nat BY <1>1, <1>3
<1> QED BY <1>1, <1>2, <1>4, <1>5, <1>6, <1>9, <1>10, <1>11

\* What a component's weight is added to.
LEMMA FoldIntoKeeps ==
  ASSUME NEW H, NEW n \in Nat \ {0}, NEW cs \in [1..n -> Piece(H)], NEW c \in Piece(H)
  PROVE  /\ FoldInto(cs, c) \in [1..n -> Piece(H)]
         /\ TotalWeight(FoldInto(cs, c)) = TotalWeight(cs) + c.weight
<1> DEFINE x == Nearest(cs, c)
           d == FoldInto(cs, c)
<1>1. cs \in [1..n -> Solid] /\ c \in Solid BY DEF Piece
<1>2. x \in 1..n BY <1>1, NearestIn
<1>3. d = [k \in 1..n |-> IF k = x THEN [cs[k] EXCEPT !.weight = cs[k].weight + c.weight] ELSE cs[k]]
  BY DEF FoldInto
<1>4. ASSUME NEW p \in Piece(H)
      PROVE  [p EXCEPT !.weight = p.weight + c.weight] \in Piece(H)
  BY DEF Piece, Solid
<1> HIDE DEF d, x
<1>5. d \in [1..n -> Piece(H)] BY <1>2, <1>3, <1>4
<1>6. d[x].weight = cs[x].weight + c.weight /\ \A k \in 1..n : k # x => d[k] = cs[k]
  <2>1. cs[x] \in Solid BY <1>1, <1>2
  <2>2. d[x] = [cs[x] EXCEPT !.weight = cs[x].weight + c.weight] BY <1>2, <1>3
  <2>3. d[x].weight = cs[x].weight + c.weight BY <2>1, <2>2 DEF Solid
  <2> QED BY <1>3, <2>3
<1>7. d \in [1..n -> Solid] BY <1>5 DEF Piece
<1>8. c.weight \in Nat BY <1>1, SolidFields
<1>9. TotalWeight(d) = TotalWeight(cs) + c.weight
  <2> DEFINE y == c.weight
  <2>1. n \in Nat /\ y \in Nat /\ d[x].weight = cs[x].weight + y BY <1>6, <1>8
  <2> HIDE DEF y
  <2>2. TotalWeight(d) = TotalWeight(cs) + y BY <1>1, <1>2, <1>6, <1>7, <2>1, OneHeavier
  <2> QED BY <2>2 DEF y
<1> QED BY <1>5, <1>9 DEF d

\* What the negligible ones are folded into, and what it weighs.
LEMMA KeptWeighSomething ==
  ASSUME NEW n \in Nat \ {0}, NEW cs \in [1..n -> Solid], TotalWeight(cs) > 0,
         NEW heavy, heavy = {k \in 1..n : 200 * cs[k].weight >= TotalWeight(cs)},
         NEW keep, keep = IF heavy = {} THEN {Heaviest(cs)} ELSE heavy
  PROVE  keep \subseteq 1..n /\ keep # {} /\ \A k \in keep : cs[k].weight > 0
<1>1. /\ IsFiniteSet(1..n) /\ TotalWeight(cs) \in Nat
      /\ \A k \in 1..n : Weights(cs)[k] = cs[k].weight /\ Weights(cs)[k] \in Nat
      /\ TotalWeight(cs) = SumFunctionOnSet(Weights(cs), 1..n)
  BY TotalIsNatural
<1>2. CASE heavy # {}
  <2>1. \A k \in 1..n : cs[k].weight \in Nat BY SolidFields
  <2>2. \A k \in heavy : cs[k].weight > 0 BY <1>1, <2>1
  <2> QED BY <1>2, <2>2
<1>3. CASE heavy = {}
  <2> DEFINE x == Heaviest(cs) w == Weights(cs) D == 1..n
  <2>1. x \in 1..n /\ \A j \in 1..n : cs[j].weight <= cs[x].weight BY HeaviestIn
  <2> HIDE DEF x, w
  <2>2. cs[x].weight \in Nat BY <2>1, SolidFields
  <2>3. cs[x].weight # 0
    <3> SUFFICES ASSUME cs[x].weight = 0 PROVE FALSE OBVIOUS
    <3>1. \A k \in D : w[k] = 0 BY <1>1, <2>1 DEF w
    <3>2. IsFiniteSet(D) /\ 0 \in Int BY <1>1
    <3>3. TotalWeight(cs) = SumFunctionOnSet(w, D) BY <1>1 DEF w
    <3> HIDE DEF D
    <3>4. Cardinality(D) \in Nat /\ SumFunctionOnSet(w, D) = 0 * Cardinality(D)
      BY <3>1, <3>2, SumAlike
    <3>5. SumFunctionOnSet(w, D) = 0 BY <3>4
    <3> QED BY <3>3, <3>5
  <2>4. keep = {x} BY <1>3 DEF x
  <2> QED BY <2>1, <2>2, <2>3, <2>4
<1> QED BY <1>2, <1>3

\* The negligible ones are folded into the others: nothing is lost.
LEMMA FoldNegligibleKeeps ==
  ASSUME NEW H, NEW n \in Nat \ {0}, NEW cs \in [1..n -> Solid], TotalWeight(cs) > 0,
         \A k \in 1..n : cs[k].center \in H
  PROVE  \E m \in 1..n : /\ FoldNegligible(cs) \in [1..m -> Piece(H)]
                         /\ TotalWeight(FoldNegligible(cs)) = TotalWeight(cs)
<1> DEFINE heavy == {k \in 1..n : 200 * cs[k].weight >= TotalWeight(cs)}
           keep == IF heavy = {} THEN {Heaviest(cs)} ELSE heavy
           kept == Chosen(cs, keep)
           rest == (1..n) \ keep
           near == [k \in rest |-> Nearest(kept, cs[k])]
           given(i) == {k \in rest : Nearest(kept, cs[k]) = i}
           gift(i) == SumFunction([k \in given(i) |-> cs[k].weight])
           m == Cardinality(keep)
           d == FoldNegligible(cs)
           w == Weights(cs)
           u == Weights(kept)
           v == Weights(d)
           gifts == [i \in 1..m |-> gift(i)]
           a == Ascending(keep)
<1>1. keep \in SUBSET (1..n) /\ keep # {} /\ \A k \in keep : cs[k].weight > 0
  BY KeptWeighSomething
<1>2. d = [i \in DOMAIN kept |-> [kept[i] EXCEPT !.weight = kept[i].weight + gift(i)]]
  BY DEF FoldNegligible
<1>3. /\ m \in Nat /\ IsFiniteSet(keep) /\ kept \in [1..m -> Solid]
      /\ \A i \in 1..m : a[i] \in keep /\ kept[i] = cs[a[i]]
  <2> HIDE DEF keep
  <2>1. m \in Nat /\ IsFiniteSet(keep) BY <1>1, ChosenLists
  <2>2. kept \in [1..m -> Solid] BY <1>1, ChosenLists
  <2>3. keep \in SUBSET Nat BY <1>1
  <2>4. a \in [1..m -> keep] BY <2>1, <2>3, AscendingLists
  <2>5. kept = [i \in 1..m |-> cs[a[i]]] BY DEF Chosen
  <2> HIDE DEF a, kept, m
  <2> QED BY <2>1, <2>2, <2>4, <2>5
<1>4. m \in 1..n
  <2>1. IsFiniteSet(1..n) /\ Cardinality(1..n) = n
    <3>1. 1 \in Int /\ n \in Int OBVIOUS
    <3> QED BY <3>1, FS_Interval
  <2>2. m <= n
    <3> HIDE DEF keep
    <3> QED BY <1>1, <2>1, FS_Subset
  <2>3. m # 0
    <3> HIDE DEF keep
    <3> QED BY <1>1, <1>3, FS_EmptySet
  <2> HIDE DEF m
  <2> QED BY <1>3, <2>2, <2>3
<1>5. /\ TotalWeight(kept) = SumFunctionOnSet(w, keep) /\ TotalWeight(kept) \in Nat
  <2> HIDE DEF keep
  <2>1. \A c \in Solid : c.weight \in Nat BY SolidFields
  <2> QED BY <1>1, <2>1, ChosenWeighs
<1>6. /\ IsFiniteSet(1..n) /\ TotalWeight(cs) = SumFunctionOnSet(w, 1..n)
      /\ \A k \in 1..n : w[k] = cs[k].weight /\ w[k] \in Nat
  BY TotalIsNatural
<1> HIDE DEF heavy, keep, m, kept, d, w, u, v, a
<1>7. rest \subseteq 1..n /\ IsFiniteSet(rest) BY <1>6, FS_Subset
<1>8. \A k \in rest : near[k] \in 1..m
  <2>1. m \in Nat \ {0} BY <1>4
  <2>2. \A k \in rest : cs[k] \in Solid BY <1>7
  <2> QED BY <1>3, <2>1, <2>2, NearestIn
<1>9. ASSUME NEW i \in 1..m
      PROVE  gift(i) \in Nat /\ gift(i) = SumFunctionOnSet(w, Members(rest, near, i))
  <2> DEFINE M == given(i) e == [k \in M |-> cs[k].weight]
  <2>1. M = Members(rest, near, i) BY DEF Members
  <2>2. IsFiniteSet(M)
    <3>1. M \subseteq rest OBVIOUS
    <3> HIDE DEF M, rest
    <3> QED BY <1>7, <3>1, FS_Subset
  <2>3. \A k \in M : w[k] \in Nat /\ e[k] = w[k] /\ w[k] \in Int BY <1>6, <1>7
  <2>4. gift(i) = SumFunctionOnSet(e, M) BY DEF SumFunction
  <2> HIDE DEF M, e, gift
  <2>5. SumFunctionOnSet(e, M) = SumFunctionOnSet(w, M) BY <2>2, <2>3, SumSame
  <2>6. SumFunctionOnSet(w, M) \in Nat BY <2>2, <2>3, SumMonotone
  <2> QED BY <2>1, <2>4, <2>5, <2>6
<1>10. \A i \in 1..m : gifts[i] = gift(i) /\ gifts[i] \in Nat BY <1>9
<1> HIDE DEF gift, gifts, near
<1>11. SumFunctionOnSet(w, rest) = SumFunctionOnSet(gifts, 1..m)
  <2> DEFINE R == rest I == 1..m
  <2>1. IsFiniteSet(R) /\ \A k \in R : w[k] \in Int BY <1>6, <1>7
  <2>2. IsFiniteSet(I) BY <1>3, FS_Interval
  <2>3. ASSUME NEW i \in I
        PROVE  gifts[i] \in Int /\ SumFunctionOnSet(w, Members(R, near, i)) = gifts[i]
    <3>1. gift(i) = SumFunctionOnSet(w, Members(rest, near, i)) BY <1>9
    <3>2. gifts[i] = gift(i) /\ gifts[i] \in Nat BY <1>10
    <3> QED BY <3>1, <3>2
  <2>4. MembersOf(R, near, I) = R BY <1>8 DEF MembersOf
  <2> HIDE DEF R, I
  <2>5. SumFunctionOnSet(w, MembersOf(R, near, I)) = SumFunctionOnSet(gifts, I)
    BY <2>1, <2>2, <2>3, SumGroups
  <2> QED BY <2>4, <2>5 DEF R, I
<1>12. SumFunctionOnSet(w, 1..n) = SumFunctionOnSet(w, keep) + SumFunctionOnSet(w, rest)
  <2> DEFINE R == rest K == keep
  <2>1. 1..n = K \cup R /\ K \cap R = {} BY <1>1
  <2>2. IsFiniteSet(K) /\ IsFiniteSet(R) /\ \A k \in K \cup R : w[k] \in Int
    BY <1>1, <1>3, <1>6, <1>7
  <2> HIDE DEF R, K
  <2>3. SumFunctionOnSet(w, K \cup R) = SumFunctionOnSet(w, K) + SumFunctionOnSet(w, R)
    BY <2>1, <2>2, SumUnion
  <2> QED BY <2>1, <2>3 DEF R, K
<1>13. ASSUME NEW i \in 1..m
       PROVE  d[i] \in Piece(H) /\ d[i].weight = kept[i].weight + gift(i)
  <2> DEFINE k == a[i] p == cs[k] q == [p EXCEPT !.weight = p.weight + gift(i)]
  <2>1. k \in keep /\ k \in 1..n BY <1>1, <1>3
  <2>2. p \in Solid /\ p.weight > 0 /\ p.center \in H BY <1>1, <2>1
  <2>3. d[i] = q /\ kept[i] = p BY <1>2, <1>3
  <2>4. gift(i) \in Nat BY <1>9
  <2> HIDE DEF p
  <2>5. q \in Piece(H) /\ q.weight = p.weight + gift(i) BY <2>2, <2>4 DEF Piece, Solid
  <2> QED BY <2>3, <2>5
<1>14. d \in [1..m -> Piece(H)]
  <2>1. DOMAIN d = 1..m /\ d = [i \in 1..m |-> d[i]] BY <1>2, <1>3
  <2> QED BY <1>13, <2>1
<1>15. TotalWeight(d) = TotalWeight(kept) + SumFunctionOnSet(gifts, 1..m)
  <2>1. d \in [1..m -> Solid] BY <1>14 DEF Piece
  <2>2. /\ IsFiniteSet(1..m) /\ TotalWeight(d) = SumFunctionOnSet(v, 1..m)
        /\ \A i \in 1..m : v[i] = d[i].weight
    BY <1>3, <2>1, TotalIsNatural DEF v
  <2>3. /\ TotalWeight(kept) = SumFunctionOnSet(u, 1..m)
        /\ \A i \in 1..m : u[i] = kept[i].weight /\ u[i] \in Nat
    BY <1>3, TotalIsNatural DEF u
  <2>4. \A i \in 1..m : u[i] \in Int /\ gifts[i] \in Int BY <1>10, <2>3
  <2>5. \A i \in 1..m : v[i] = u[i] + gifts[i] BY <1>10, <1>13, <2>2, <2>3
  <2>6. SumFunctionOnSet(v, 1..m) = SumFunctionOnSet(u, 1..m) + SumFunctionOnSet(gifts, 1..m)
    BY <2>2, <2>4, <2>5, SumPlus
  <2> QED BY <2>2, <2>3, <2>6
<1>16. TotalWeight(d) = TotalWeight(cs) BY <1>5, <1>6, <1>11, <1>12, <1>15
<1> QED BY <1>4, <1>14, <1>16 DEF d

\* The lists of such pieces that weigh W together.
Packs(H, W) == {cs \in Seq(Piece(H)) : cs # <<>> /\ TotalWeight(cs) = W}

LEMMA PackFields ==
  ASSUME NEW H, NEW W, NEW cs \in Packs(H, W)
  PROVE  /\ Len(cs) \in Nat /\ Len(cs) > 0 /\ cs \in [1..Len(cs) -> Piece(H)]
         /\ cs \in [1..Len(cs) -> Solid] /\ DOMAIN cs = 1..Len(cs) /\ TotalWeight(cs) = W
<1>1. cs \in Seq(Piece(H)) /\ cs # <<>> /\ TotalWeight(cs) = W BY DEF Packs
<1>2. cs \in [1..Len(cs) -> Piece(H)] /\ Len(cs) \in Nat /\ Len(cs) > 0 BY <1>1
<1>3. cs \in [1..Len(cs) -> Solid] BY <1>2 DEF Piece
<1> QED BY <1>1, <1>2, <1>3

LEMMA PackOf ==
  ASSUME NEW H, NEW W, NEW n \in Nat \ {0}, NEW cs \in [1..n -> Piece(H)], TotalWeight(cs) = W
  PROVE  cs \in Packs(H, W) /\ Len(cs) = n
<1>1. cs \in Seq(Piece(H)) /\ Len(cs) = n BY NumberedIsSeq
<1>2. cs # <<>> BY <1>1
<1> QED BY <1>1, <1>2 DEF Packs

\* One component fewer, or none when they are few enough.
LEMMA FoldOneKeeps ==
  ASSUME CdfAssumption, NEW H, NEW W, NEW cs \in Packs(H, W)
  PROVE  /\ FoldOne(cs) \in Packs(H, W)
         /\ Len(FoldOne(cs)) <= MaxComponents \/ Len(FoldOne(cs)) <= Len(cs) - 1
<1> DEFINE n == Len(cs)
           x == Lightest(cs)
           K == (1..n) \ {x}
           o == Others(cs)
           w == Weights(cs)
<1>1. /\ n \in Nat \ {0} /\ cs \in [1..n -> Piece(H)] /\ cs \in [1..n -> Solid]
      /\ DOMAIN cs = 1..n /\ TotalWeight(cs) = W
  BY PackFields
<1>2. MaxComponents \in Nat \ {0} BY DEF CdfAssumption
<1>3. CASE n <= MaxComponents
  <2>1. FoldOne(cs) = cs BY <1>3 DEF FoldOne
  <2> QED BY <1>3, <2>1
<1>4. CASE ~(n <= MaxComponents)
  <2> HIDE DEF n, x
  <2>1. FoldOne(cs) = FoldInto(o, cs[x]) BY <1>4 DEF FoldOne, n, x
  <2>2. x \in 1..n BY <1>1, LightestIn DEF x
  <2>3. o = Chosen(cs, K) BY <1>1 DEF Others, x
  <2>4. K \in SUBSET (1..n) OBVIOUS
  <2>5. Cardinality(K) = n - 1
    <3>1. IsFiniteSet(1..n) /\ Cardinality(1..n) = n
      <4>1. 1 \in Int /\ n \in Int BY <1>1
      <4> QED BY <1>1, <4>1, FS_Interval
    <3>2. Cardinality(K) = Cardinality(1..n) - 1 BY <2>2, <3>1, FS_RemoveElement
    <3> QED BY <3>1, <3>2
  <2> HIDE DEF K, o
  <2>6. n - 1 \in Nat \ {0} BY <1>1, <1>2, <1>4
  <2>7. o \in [1..(n - 1) -> Piece(H)]
    <3>1. n \in Nat BY <1>1
    <3>2. o \in [1..Cardinality(K) -> Piece(H)] BY <1>1, <2>3, <2>4, <3>1, ChosenLists
    <3> QED BY <2>5, <3>2
  <2>8. TotalWeight(o) = SumFunctionOnSet(w, K)
    <3>1. \A c \in Piece(H) : c.weight \in Nat BY SolidFields DEF Piece
    <3>2. n \in Nat BY <1>1
    <3> QED BY <1>1, <2>3, <2>4, <3>1, <3>2, ChosenWeighs
  <2>9. W = cs[x].weight + TotalWeight(o)
    <3> DEFINE D == 1..n
    <3>1. /\ IsFiniteSet(D) /\ W = SumFunctionOnSet(w, D)
          /\ \A k \in D : w[k] = cs[k].weight /\ w[k] \in Nat
      BY <1>1, TotalIsNatural
    <3>2. x \in D /\ K = D \ {x} BY <2>2 DEF K
    <3>3. \A k \in D : w[k] \in Int BY <3>1
    <3> HIDE DEF D, w
    <3>4. SumFunctionOnSet(w, D) = w[x] + SumFunctionOnSet(w, D \ {x})
      BY <3>1, <3>2, <3>3, SumRemove
    <3> QED BY <2>8, <3>1, <3>2, <3>4
  <2>10. cs[x] \in Piece(H) /\ cs[x].weight \in Nat BY <1>1, <2>2, SolidFields DEF Piece
  <2>11. TotalWeight(o) \in Nat
    <3>1. o \in [1..(n - 1) -> Solid] BY <2>7 DEF Piece
    <3> QED BY <2>6, <3>1, TotalIsNatural
  <2>12. /\ FoldInto(o, cs[x]) \in [1..(n - 1) -> Piece(H)]
         /\ TotalWeight(FoldInto(o, cs[x])) = TotalWeight(o) + cs[x].weight
    <3> DEFINE l == n - 1 c == cs[x]
    <3>1. l \in Nat \ {0} /\ o \in [1..l -> Piece(H)] /\ c \in Piece(H) BY <2>6, <2>7, <2>10
    <3> HIDE DEF l, c
    <3>2. FoldInto(o, c) \in [1..l -> Piece(H)] BY <3>1, FoldIntoKeeps
    <3>3. TotalWeight(FoldInto(o, c)) = TotalWeight(o) + c.weight BY <3>1, FoldIntoKeeps
    <3> QED BY <3>2, <3>3 DEF l, c
  <2>13. TotalWeight(FoldInto(o, cs[x])) = W BY <2>9, <2>10, <2>11, <2>12
  <2>14. FoldInto(o, cs[x]) \in Packs(H, W) /\ Len(FoldInto(o, cs[x])) = n - 1
    BY <2>6, <2>12, <2>13, PackOf
  <2>15. Len(FoldOne(cs)) <= Len(cs) - 1
    <3>1. Len(FoldOne(cs)) = n - 1 BY <2>1, <2>14
    <3> QED BY <2>6, <3>1 DEF n
  <2> QED BY <2>1, <2>14, <2>15
<1> QED BY <1>3, <1>4

FoldedDown(g, cs) == g = [i \in 0..Len(cs) |-> IF i = 0 THEN cs ELSE FoldOne(g[i - 1])]

\* The lightest are folded until there are few enough.
LEMMA FoldLightestKeeps ==
  ASSUME CdfAssumption, NEW H, NEW W, NEW cs \in Packs(H, W)
  PROVE  FoldLightest(cs) \in Packs(H, W) /\ Len(FoldLightest(cs)) <= MaxComponents
<1> DEFINE N == Len(cs)
           S == Packs(H, W)
           F == [p \in (1..N) \X S |-> FoldOne(p[2])]
<1>1. N \in Nat /\ N > 0 BY PackFields
<1>2. ASSUME NEW i \in 1..N, NEW x \in S
      PROVE  F[<<i, x>>] = FoldOne(x) /\ F[<<i, x>>] \in S
  <2>1. F[<<i, x>>] = FoldOne(x) OBVIOUS
  <2> HIDE DEF F
  <2> QED BY <2>1, FoldOneKeeps
<1> HIDE DEF S, F, N
<1>3. cs \in S BY DEF S
<1>4. PICK h \in [0..N -> S] : Iterates(h, cs, F, N)
  <2>1. \A i \in 1..N, x \in S : F[<<i, x>>] \in S BY <1>2
  <2> QED BY <1>1, <1>3, <2>1, IteratesExist
<1>5. \A i \in 0..N : h[i] = IF i = 0 THEN cs ELSE FoldOne(h[i - 1])
  <2> SUFFICES ASSUME NEW i \in 0..N PROVE h[i] = IF i = 0 THEN cs ELSE FoldOne(h[i - 1])
    OBVIOUS
  <2>1. h[i] = IF i = 0 THEN cs ELSE F[<<i, h[i - 1]>>] BY <1>4 DEF Iterates
  <2>2. i # 0 => i \in 1..N /\ i - 1 \in 0..N BY <1>1
  <2>3. i # 0 => h[i - 1] \in S BY <2>2
  <2> QED BY <1>2, <2>1, <2>2, <2>3
<1>6. FoldedDown(h, cs)
  <2>1. h = [i \in 0..N |-> h[i]] OBVIOUS
  <2> QED BY <1>5, <2>1 DEF FoldedDown, N
<1>7. PICK g : FoldedDown(g, cs) /\ FoldLightest(cs) = g[N]
  <2>1. FoldLightest(cs) = (CHOOSE k : FoldedDown(k, cs))[N] BY DEF FoldLightest, FoldedDown, N
  <2>2. FoldedDown(CHOOSE k : FoldedDown(k, cs), cs) BY <1>6
  <2> QED BY <2>1, <2>2
<1>8. \A i \in 0..N : g[i] = IF i = 0 THEN cs ELSE FoldOne(g[i - 1])
  BY <1>7 DEF FoldedDown, N
<1> DEFINE P == {i \in 0..N : g[i] \in S /\ (Len(g[i]) <= MaxComponents \/ Len(g[i]) <= N - i)}
<1>9. 0 \in P
  <2>1. g[0] = cs /\ 0 \in 0..N BY <1>1, <1>8
  <2> QED BY <1>1, <1>3, <2>1 DEF N
<1>10. ASSUME NEW i \in 1..N, i - 1 \in P PROVE i \in P
  <2> DEFINE c == g[i - 1] d == FoldOne(c)
  <2>1. c \in S /\ (Len(c) <= MaxComponents \/ Len(c) <= N - (i - 1)) BY <1>10
  <2>2. g[i] = d /\ i \in 0..N BY <1>1, <1>8
  <2> HIDE DEF c
  <2>3. d \in S /\ (Len(d) <= MaxComponents \/ Len(d) <= Len(c) - 1)
    BY <2>1, FoldOneKeeps DEF S
  <2>4. Len(c) \in Nat BY <2>1, PackFields DEF S
  <2>5. Len(c) <= MaxComponents => Len(d) <= MaxComponents BY DEF FoldOne
  <2> HIDE DEF d
  <2>6. Len(d) \in Nat BY <2>3, PackFields DEF S
  <2>7. Len(d) <= MaxComponents \/ Len(d) <= N - i BY <1>1, <2>1, <2>3, <2>4, <2>5, <2>6
  <2> QED BY <2>2, <2>3, <2>7
<1> HIDE DEF P
<1>11. N \in P
  <2>1. \A i \in 0..N : i \in P BY <1>1, <1>9, <1>10, Climb
  <2> QED BY <1>1, <2>1
<1>12. g[N] \in S /\ (Len(g[N]) <= MaxComponents \/ Len(g[N]) <= N - N) BY <1>11 DEF P
<1>13. Len(g[N]) \in Nat /\ Len(g[N]) > 0 BY <1>12, PackFields DEF S
<1>14. Len(g[N]) <= MaxComponents BY <1>1, <1>12, <1>13
<1> QED BY <1>7, <1>12, <1>14 DEF S

\* A weighted mean of two numbers lies between them.
LEMMA MeanOfTwo ==
  ASSUME NEW x \in Int, NEW y \in Int, NEW p \in Nat \ {0}, NEW q \in Nat \ {0},
         NEW lo \in Int, NEW hi \in Int, lo <= x, lo <= y, x <= hi, y <= hi
  PROVE  /\ (x * p + y * q) \div (p + q) \in Int
         /\ lo <= (x * p + y * q) \div (p + q) /\ (x * p + y * q) \div (p + q) <= hi
<1> DEFINE a == x * p + y * q
           d == p + q
<1>1. a \in Int /\ d \in Nat \ {0} OBVIOUS
<1>2. lo * p <= x * p /\ lo * q <= y * q /\ x * p <= hi * p /\ y * q <= hi * q BY ProductGrows
<1>3. d * lo = lo * p + lo * q /\ d * hi = hi * p + hi * q OBVIOUS
<1>4. d * lo <= a /\ a <= d * hi
  <2>1. /\ x * p \in Int /\ y * q \in Int /\ lo * p \in Int /\ lo * q \in Int
        /\ hi * p \in Int /\ hi * q \in Int
    OBVIOUS
  <2> QED BY <1>2, <1>3, <2>1
<1> HIDE DEF a, d
<1>5. a \div d \in Int /\ lo <= a \div d /\ a \div d <= hi
  BY <1>1, <1>4, Quotient, QuotientAbove, QuotientBelow
<1> QED BY <1>5 DEF a, d

\* A set of centres with all that lies between them.
Convex(H) == H \subseteq Int /\ \A a, b \in H, x \in Int : a <= x /\ x <= b => x \in H

\* A piece that is no narrower than the floor.
Wide(H, g) == {c \in Piece(H) : c.family = "normal" => c.spread >= MinScale(g)}

LEMMA MinScaleIsInt == ASSUME NEW g \in Geometry, g.lo < g.hi PROVE MinScale(g) \in Int
<1>1. g.size \in Nat /\ g.size - 1 \in Nat \ {0} /\ Rng(g) \in Int BY GridRises DEF Geometry
<1>2. Cell(g) \in Int BY <1>1, Quotient DEF Cell
<1> DEFINE a == (3 * Cell(g)) \div 2 b == (3 * Rng(g)) \div 1000 c == Rng(g) \div 50
<1>3. a \in Int /\ b \in Int /\ c \in Int BY <1>1, <1>2
<1> HIDE DEF a, b, c
<1>4. AtMost(AtLeast(a, b), c) \in Int BY <1>3 DEF AtMost, AtLeast
<1> QED BY <1>4 DEF MinScale, a, b, c

LEMMA WideFields ==
  ASSUME NEW H, Convex(H), NEW g, NEW c \in Wide(H, g)
  PROVE  /\ c \in Piece(H) /\ c \in Solid /\ c.weight \in Nat \ {0} /\ c.center \in H
         /\ c.center \in Int /\ c.spread \in Nat \ {0} /\ c.family \in Families
         /\ c.family = "normal" => c.spread >= MinScale(g)
BY DEF Wide, Piece, Solid

LEMMA WidthFloorWidens ==
  ASSUME NEW H, NEW g \in Geometry, g.lo < g.hi, NEW c \in Piece(H)
  PROVE  WidthFloor(c, g) \in Wide(H, g) /\ WidthFloor(c, g).weight = c.weight
<1> DEFINE m == MinScale(g)
           s == AtLeast(c.spread, m)
           d == [c EXCEPT !.spread = s]
<1>1. m \in Int BY MinScaleIsInt
<1>2. c \in Solid /\ c.weight > 0 /\ c.center \in H BY DEF Piece
<1>3. c.spread \in Nat \ {0} BY <1>2 DEF Solid
<1> HIDE DEF m
<1>4. s \in Nat \ {0} /\ s >= m BY <1>1, <1>3 DEF AtLeast
<1>5. WidthFloor(c, g) = IF c.family = "normal" THEN d ELSE c BY DEF WidthFloor, m
<1> HIDE DEF s
<1>6. d \in Solid /\ d.weight = c.weight /\ d.center = c.center /\ d.spread = s
  BY <1>2, <1>4 DEF Solid
<1>7. d \in Wide(H, g) BY <1>2, <1>4, <1>6 DEF Wide, Piece, m
<1>8. c.family # "normal" => c \in Wide(H, g) BY DEF Wide
<1> QED BY <1>5, <1>6, <1>7, <1>8

\* Two pieces of a family become one between them.
LEMMA MergeTwoKeeps ==
  ASSUME NEW H, Convex(H), NEW g \in Geometry, g.lo < g.hi,
         NEW a \in Wide(H, g), NEW b \in Wide(H, g), a.family = b.family
  PROVE  MergeTwo(a, b) \in Wide(H, g) /\ MergeTwo(a, b).weight = a.weight + b.weight
<1> DEFINE p == a.weight
           q == b.weight
           x == (a.center * p + b.center * q) \div (p + q)
           s == (a.spread * p + b.spread * q) \div (p + q)
           m == MergeTwo(a, b)
<1>1. /\ a \in Solid /\ p \in Nat \ {0} /\ a.center \in H /\ a.center \in Int
      /\ a.spread \in Nat \ {0}
      /\ a.family = "normal" => a.spread >= MinScale(g)
  BY WideFields
<1>2. /\ q \in Nat \ {0} /\ b.center \in H /\ b.center \in Int /\ b.spread \in Nat \ {0}
      /\ b.family = "normal" => b.spread >= MinScale(g)
  BY WideFields
<1>3. m = [a EXCEPT !.center = x, !.spread = s, !.weight = p + q] BY DEF MergeTwo
<1> HIDE DEF p, q
<1>4. x \in Int /\ x \in H
  <2> DEFINE u == a.center v == b.center
  <2>1. u \in H /\ v \in H /\ u \in Int /\ v \in Int BY <1>1, <1>2
  <2> HIDE DEF u, v
  <2>2. CASE u <= v
    <3>1. u <= u /\ v <= v BY <2>1
    <3>2. (u * p + v * q) \div (p + q) \in Int /\ u <= (u * p + v * q) \div (p + q)
          /\ (u * p + v * q) \div (p + q) <= v
      BY <1>1, <1>2, <2>1, <2>2, <3>1, MeanOfTwo
    <3> QED BY <2>1, <3>2 DEF Convex, u, v
  <2>3. CASE ~(u <= v)
    <3>1. u <= u /\ v <= v /\ v <= u BY <2>1, <2>3
    <3>2. (u * p + v * q) \div (p + q) \in Int /\ v <= (u * p + v * q) \div (p + q)
          /\ (u * p + v * q) \div (p + q) <= u
      BY <1>1, <1>2, <2>1, <3>1, MeanOfTwo
    <3> QED BY <2>1, <3>2 DEF Convex, u, v
  <2> QED BY <2>2, <2>3
<1>5. ASSUME NEW l \in Int, l <= a.spread, l <= b.spread PROVE s \in Int /\ l <= s
  <2> DEFINE u == a.spread v == b.spread
  <2>1. u \in Int /\ v \in Int /\ l <= u /\ l <= v BY <1>1, <1>2, <1>5
  <2>2. \E h \in Int : u <= h /\ v <= h BY <2>1
  <2> HIDE DEF u, v
  <2>3. PICK h \in Int : u <= h /\ v <= h BY <2>2
  <2>4. (u * p + v * q) \div (p + q) \in Int /\ l <= (u * p + v * q) \div (p + q)
    BY <1>1, <1>2, <2>1, <2>3, MeanOfTwo
  <2> QED BY <2>4 DEF u, v
<1> HIDE DEF x, s
<1>6. s \in Nat \ {0}
  <2>1. 1 \in Int /\ 1 <= a.spread /\ 1 <= b.spread BY <1>1, <1>2
  <2> QED BY <1>5, <2>1
<1>7. a.family = "normal" => s >= MinScale(g)
  <2>1. MinScale(g) \in Int BY MinScaleIsInt
  <2> QED BY <1>1, <1>2, <1>5, <1>6, <2>1
<1>8. /\ m \in Solid /\ m.family = a.family /\ m.center = x /\ m.spread = s
      /\ m.weight = p + q
  <2> DEFINE r == p + q
  <2>1. r \in Nat /\ m = [a EXCEPT !.center = x, !.spread = s, !.weight = r] BY <1>1, <1>2, <1>3
  <2>2. a \in [family : Families, center : Int, spread : Nat \ {0}, weight : Nat]
    BY <1>1 DEF Solid
  <2> HIDE DEF m, r
  <2>3. m.family = a.family /\ m.center = x /\ m.spread = s /\ m.weight = r BY <2>1, <2>2
  <2>4. m \in Solid BY <1>4, <1>6, <2>1, <2>2 DEF Solid
  <2> QED BY <2>3, <2>4 DEF r
<1> HIDE DEF m
<1>9. p + q > 0 BY <1>1, <1>2
<1>10. m \in Wide(H, g) BY <1>4, <1>7, <1>8, <1>9 DEF Wide, Piece
<1> QED BY <1>8, <1>10 DEF m, p, q

LEMMA NothingWeighsNothing == TotalWeight(<< >>) = 0
<1>1. DOMAIN << >> = {} OBVIOUS
<1>2. SumFunctionOnSet(Weights(<< >>), {}) = 0 BY SumEmpty
<1> QED BY <1>1, <1>2, TotalIsSum

LEMMA OneAppended ==
  ASSUME NEW n \in Nat, NEW cs \in [1..n -> Solid], NEW d \in [1..(n + 1) -> Solid],
         \A k \in 1..n : d[k] = cs[k]
  PROVE  TotalWeight(d) = TotalWeight(cs) + d[n + 1].weight
<1> DEFINE w == Weights(cs)
           v == Weights(d)
           m == n + 1
           D == 1..m
           E == 1..n
<1>1. n \in Nat /\ m \in Nat OBVIOUS
<1>2. /\ IsFiniteSet(E) /\ \A k \in E : w[k] = cs[k].weight /\ w[k] \in Nat
      /\ TotalWeight(cs) = SumFunctionOnSet(w, E)
  BY TotalIsNatural
<1>3. /\ IsFiniteSet(D) /\ \A k \in D : v[k] = d[k].weight /\ v[k] \in Nat
      /\ TotalWeight(d) = SumFunctionOnSet(v, D)
  <2> HIDE DEF m
  <2>1. d \in [1..m -> Solid] BY DEF m
  <2> QED BY <1>1, <2>1, TotalIsNatural
<1> HIDE DEF w, v
<1>4. m \in D /\ D \ {m} = E BY <1>1
<1>5. \A k \in E : v[k] = w[k] BY <1>2, <1>3
<1> HIDE DEF D, E, m
<1>6. SumFunctionOnSet(v, D) = v[m] + SumFunctionOnSet(v, D \ {m})
  <2>1. \A k \in D : v[k] \in Int BY <1>3
  <2> QED BY <1>3, <1>4, <2>1, SumRemove
<1>7. SumFunctionOnSet(v, E) = SumFunctionOnSet(w, E)
  <2>1. \A k \in E : w[k] \in Int BY <1>2
  <2> QED BY <1>2, <1>5, <2>1, SumSame
<1>8. SumFunctionOnSet(w, E) \in Nat BY <1>2, SumMonotone
<1>9. v[m] = d[m].weight /\ v[m] \in Nat BY <1>3, <1>4
<1>10. TotalWeight(d) = TotalWeight(cs) + d[m].weight
  <2> DEFINE a == SumFunctionOnSet(w, E) b == d[m].weight
  <2>1. SumFunctionOnSet(v, D) = v[m] + SumFunctionOnSet(w, E) BY <1>4, <1>6, <1>7
  <2>2. SumFunctionOnSet(v, D) = b + a /\ a \in Nat /\ b \in Nat BY <1>8, <1>9, <2>1
  <2>3. TotalWeight(d) = SumFunctionOnSet(v, D) /\ TotalWeight(cs) = a BY <1>2, <1>3
  <2> HIDE DEF a, b
  <2>4. TotalWeight(d) = TotalWeight(cs) + b BY <2>2, <2>3
  <2> QED BY <2>4 DEF b
<1> QED BY <1>10 DEF m

\* A further piece is merged into one of those that are there, or follows them.
LEMMA MergeInKeeps ==
  ASSUME NEW H, Convex(H), NEW g \in Geometry, g.lo < g.hi,
         NEW done \in Seq(Wide(H, g)), NEW c \in Wide(H, g)
  PROVE  /\ MergeIn(done, c, g) \in Seq(Wide(H, g))
         /\ Len(MergeIn(done, c, g)) \in 1..(Len(done) + 1)
         /\ TotalWeight(MergeIn(done, c, g)) = TotalWeight(done) + c.weight
<1> DEFINE n == Len(done)
           d == MergeIn(done, c, g)
           B == Near(done, c, g)
           W == Wide(H, g)
<1>1. n \in Nat /\ done \in [1..n -> W] /\ DOMAIN done = 1..n OBVIOUS
<1>2. W \subseteq Solid BY DEF Wide, Piece
<1>3. done \in [1..n -> Solid] BY <1>1, <1>2
<1>4. c.weight \in Nat BY WideFields
<1>5. CASE B = {}
  <2> DEFINE e == Append(done, c)
  <2>1. d = e BY <1>5 DEF MergeIn
  <2>2. /\ e \in Seq(W) /\ Len(e) = n + 1 /\ e \in [1..(n + 1) -> W]
        /\ e[n + 1] = c /\ \A k \in 1..n : e[k] = done[k]
    <3> DEFINE V == W
    <3>1. done \in Seq(V) /\ c \in V OBVIOUS
    <3> HIDE DEF V
    <3>2. e \in Seq(V) /\ Len(e) = n + 1 BY <3>1
    <3>3. e[n + 1] = c /\ \A k \in 1..n : e[k] = done[k] BY <3>1
    <3>4. e \in [1..Len(e) -> V]
      <4> HIDE DEF e
      <4> QED BY <3>2
    <3> QED BY <3>2, <3>3, <3>4 DEF V
  <2> HIDE DEF W, n, e
  <2>3. e \in [1..(n + 1) -> Solid] BY <1>2, <2>2
  <2>4. TotalWeight(e) = TotalWeight(done) + c.weight BY <1>1, <1>3, <2>2, <2>3, OneAppended
  <2>5. Len(e) \in 1..(n + 1) BY <1>1, <2>2
  <2> QED BY <2>1, <2>2, <2>4, <2>5 DEF W, n
<1>6. CASE B # {}
  <2> DEFINE x == Min(B)
             a == done[x]
             y == c.weight
  <2>1. B \subseteq 1..n /\ B \in SUBSET Nat /\ \A k \in B : done[k].family = c.family
    BY <1>1 DEF Near
  <2>2. x \in B
    <3> HIDE DEF B
    <3> QED BY <1>6, <2>1, MinIsIn
  <2>3. x \in 1..n /\ a \in W /\ a.family = c.family BY <1>1, <2>1, <2>2
  <2>4. d = [done EXCEPT ![x] = MergeTwo(a, c)] BY <1>6 DEF MergeIn
  <2>5. MergeTwo(a, c) \in W /\ MergeTwo(a, c).weight = a.weight + c.weight
    <3> HIDE DEF a, x
    <3> QED BY <2>3, MergeTwoKeeps
  <2> HIDE DEF d, x, W, n
  <2>6. /\ d \in [1..n -> W] /\ d[x] = MergeTwo(a, c)
        /\ \A k \in 1..n : k # x => d[k] = done[k]
    BY <1>1, <2>3, <2>4, <2>5
  <2>7. d \in [1..n -> Solid] BY <1>2, <2>6
  <2>8. d[x].weight = done[x].weight + y /\ y \in Nat BY <1>4, <2>5, <2>6
  <2> HIDE DEF y
  <2>9. TotalWeight(d) = TotalWeight(done) + y
    BY <1>1, <1>3, <2>3, <2>6, <2>7, <2>8, OneHeavier
  <2>10. d \in Seq(W) /\ Len(d) = n BY <1>1, <2>6, NumberedIsSeq
  <2>11. n \in 1..(n + 1) BY <1>1, <2>3
  <2> QED BY <2>9, <2>10, <2>11 DEF d, y, W, n
<1> QED BY <1>5, <1>6

\* The components in the order of the sort: each of them, once.
LEMMA EarlierOrders ==
  ASSUME NEW n \in Nat, NEW cs \in [1..n -> Solid]
  PROVE  Orders(Earlier(cs), 1..n)
<1> DEFINE D == 1..n
           less(a, b) == \/ a.family = "beta" /\ b.family = "normal"
                         \/ a.family = b.family /\ a.center < b.center
           R == Earlier(cs)
<1>1. \A x, y \in D : <<x, y>> \in R <=> \/ less(cs[x], cs[y])
                                         \/ ~less(cs[y], cs[x]) /\ x < y
  BY DEF Earlier
<1>2. \A x \in D : cs[x].family \in {"normal", "beta"} /\ cs[x].center \in Int /\ x \in Int
  BY SolidFields DEF Families
<1> HIDE DEF R
<1>3. \A a, b \in Solid : less(a, b) => ~less(b, a)
  <2>1. \A a \in Solid : a.family \in {"normal", "beta"} /\ a.center \in Int
    BY SolidFields DEF Families
  <2> QED BY <2>1
<1>4. \A x, y \in D : x # y => <<x, y>> \in R \/ <<y, x>> \in R BY <1>1, <1>2
<1>5. \A x \in D : <<x, x>> \notin R BY <1>1, <1>2
<1>6. ASSUME NEW x \in D, NEW y \in D, NEW z \in D, <<x, y>> \in R, <<y, z>> \in R
      PROVE  <<x, z>> \in R
  <2> DEFINE a == cs[x] b == cs[y] c == cs[z]
  <2>1. /\ a.family \in {"normal", "beta"} /\ a.center \in Int
        /\ b.family \in {"normal", "beta"} /\ b.center \in Int
        /\ c.family \in {"normal", "beta"} /\ c.center \in Int
        /\ x \in Int /\ y \in Int /\ z \in Int
    BY <1>2
  <2>2. less(a, b) \/ (~less(b, a) /\ x < y) BY <1>1, <1>6
  <2>3. less(b, c) \/ (~less(c, b) /\ y < z) BY <1>1, <1>6
  <2> HIDE DEF a, b, c
  <2>4. less(a, c) \/ (~less(c, a) /\ x < z) BY <2>1, <2>2, <2>3
  <2> QED BY <1>1, <2>4 DEF a, b, c
<1> HIDE DEF D
<1>7. Orders(R, D)
  <2>1. \A x, y, z \in D : <<x, y>> \in R /\ <<y, z>> \in R => <<x, z>> \in R BY <1>6
  <2> QED BY <1>4, <1>5, <2>1 DEF Orders
<1> QED BY <1>7 DEF D, R

LEMMA OrderNumbers ==
  ASSUME NEW n \in Nat, NEW cs \in [1..n -> Solid]
  PROVE  Numbers(Ordered(1..n, Earlier(cs)), 1..n, 1..n)
<1> DEFINE D == 1..n
           R == Earlier(cs)
           o == Ordered(D, R)
<1>1. IsFiniteSet(D) /\ Cardinality(D) = n
  <2>1. 1 \in Int /\ n \in Int OBVIOUS
  <2> QED BY <2>1, FS_Interval
<1>2. Orders(R, D) BY EarlierOrders
<1> HIDE DEF R, o, D
<1>3. /\ o \in [1..n -> D] /\ \A x \in D : \E k \in 1..n : o[k] = x
      /\ \A k \in 1..n : RankIn(D, R, o[k]) = k
  BY <1>1, <1>2, OrderedLists DEF o
<1>4. \A x, y \in D : o[x] = o[y] => x = y BY <1>3 DEF D
<1>5. o \in [D -> D] /\ \A t \in D : \E x \in D : o[x] = t BY <1>3 DEF D
<1>6. Numbers(o, D, D) BY <1>4, <1>5 DEF Numbers
<1> QED BY <1>6 DEF D, R, o

MergedSoFar(m, cs, g) ==
  m = [i \in 0..Len(cs) |-> IF i = 0 THEN << >>
                            ELSE MergeIn(m[i - 1], cs[Ordered(DOMAIN cs, Earlier(cs))[i]], g)]

\* The wide pieces merged in their order weigh as much as all of them.
LEMMA MergeNearKeeps ==
  ASSUME NEW H, Convex(H), NEW g \in Geometry, g.lo < g.hi,
         NEW n \in Nat \ {0}, NEW cs \in [1..n -> Wide(H, g)]
  PROVE  /\ MergeNear(cs, g) \in Seq(Wide(H, g)) /\ Len(MergeNear(cs, g)) \in 1..n
         /\ TotalWeight(MergeNear(cs, g)) = TotalWeight(cs)
<1> DEFINE W == Wide(H, g)
           S == Seq(W)
           o == Ordered(1..n, Earlier(cs))
           F == [p \in (1..n) \X S |-> MergeIn(p[2], cs[o[p[1]]], g)]
           w == Weights(cs)
           e == [k \in 1..n |-> cs[o[k]].weight]
<1>1. n \in Nat /\ Len(cs) = n /\ DOMAIN cs = 1..n
  <2>1. n \in Nat OBVIOUS
  <2> QED BY <2>1, NumberedIsSeq
<1>2. cs \in [1..n -> Solid] BY DEF Wide, Piece
<1>3. Numbers(o, 1..n, 1..n) BY <1>1, <1>2, OrderNumbers
<1> HIDE DEF o, W
<1>4. \A i \in 1..n : o[i] \in 1..n /\ cs[o[i]] \in W BY <1>3 DEF Numbers, W
<1>5. ASSUME NEW i \in 1..n, NEW x \in S
      PROVE  F[<<i, x>>] = MergeIn(x, cs[o[i]], g) /\ F[<<i, x>>] \in S
  <2> DEFINE c == cs[o[i]]
  <2>1. F[<<i, x>>] = MergeIn(x, c, g) OBVIOUS
  <2>2. c \in W BY <1>4
  <2> HIDE DEF F, c
  <2>3. MergeIn(x, c, g) \in S BY <2>2, MergeInKeeps DEF W
  <2> QED BY <2>1, <2>3 DEF c
<1>6. << >> \in S OBVIOUS
<1> HIDE DEF S, F
<1>7. PICK h \in [0..n -> S] : Iterates(h, << >>, F, n)
  <2>1. \A i \in 1..n, x \in S : F[<<i, x>>] \in S BY <1>5
  <2> QED BY <1>1, <1>6, <2>1, IteratesExist
<1>8. \A i \in 0..n : h[i] = IF i = 0 THEN << >> ELSE MergeIn(h[i - 1], cs[o[i]], g)
  <2> SUFFICES ASSUME NEW i \in 0..n
               PROVE  h[i] = IF i = 0 THEN << >> ELSE MergeIn(h[i - 1], cs[o[i]], g)
    OBVIOUS
  <2>1. h[i] = IF i = 0 THEN << >> ELSE F[<<i, h[i - 1]>>] BY <1>7 DEF Iterates
  <2>2. i # 0 => i \in 1..n /\ i - 1 \in 0..n BY <1>1
  <2>3. i # 0 => h[i - 1] \in S BY <2>2
  <2> QED BY <1>5, <2>1, <2>2, <2>3
<1>9. MergedSoFar(h, cs, g)
  <2>1. h = [i \in 0..n |-> h[i]] OBVIOUS
  <2> QED BY <1>1, <1>8, <2>1 DEF MergedSoFar, o
<1>10. PICK m : MergedSoFar(m, cs, g) /\ MergeNear(cs, g) = m[n]
  <2>1. MergeNear(cs, g) = (CHOOSE k : MergedSoFar(k, cs, g))[n]
    BY <1>1 DEF MergeNear, MergedSoFar
  <2>2. MergedSoFar(CHOOSE k : MergedSoFar(k, cs, g), cs, g) BY <1>9
  <2> QED BY <2>1, <2>2
<1>11. \A i \in 0..n : m[i] = IF i = 0 THEN << >> ELSE MergeIn(m[i - 1], cs[o[i]], g)
  BY <1>1, <1>10 DEF MergedSoFar, o
<1>12. \A i \in 1..n : e[i] = cs[o[i]].weight /\ e[i] \in Nat
  <2>1. \A c \in W : c.weight \in Nat BY WideFields DEF W
  <2> QED BY <1>4, <2>1
<1> HIDE DEF e
<1> DEFINE Good(i) == /\ m[i] \in S /\ Len(m[i]) \in 0..i /\ (i > 0 => Len(m[i]) > 0)
                      /\ TotalWeight(m[i]) = SumFunctionOnSet(e, 1..i)
           P == {i \in 0..n : Good(i)}
<1>13. 0 \in P
  <2>1. m[0] = << >> /\ 0 \in 0..n BY <1>1, <1>11
  <2>2. SumFunctionOnSet(e, {}) = 0 /\ 1..0 = {} BY SumEmpty
  <2>3. Len(<< >>) = 0 OBVIOUS
  <2> QED BY <1>6, <2>1, <2>2, <2>3, NothingWeighsNothing
<1>14. ASSUME NEW i \in 1..n, i - 1 \in P PROVE i \in P
  <2> DEFINE j == i - 1 d == m[j] c == cs[o[i]] r == MergeIn(d, c, g)
             I == 1..i
             z == i
  <2>1. j \in 0..n /\ i \in Nat /\ j \in Nat /\ i = j + 1 BY <1>1
  <2>2. d \in S /\ Len(d) \in 0..j /\ TotalWeight(d) = SumFunctionOnSet(e, 1..j) BY <1>14
  <2>3. m[i] = r BY <1>1, <1>11
  <2>4. c \in W /\ e[i] = c.weight /\ e[i] \in Nat BY <1>4, <1>12
  <2> HIDE DEF d, c, r
  <2>5. r \in S /\ Len(r) \in 1..(Len(d) + 1) /\ TotalWeight(r) = TotalWeight(d) + c.weight
    <3>1. d \in Seq(Wide(H, g)) /\ c \in Wide(H, g) BY <2>2, <2>4 DEF S, W
    <3>2. r \in Seq(Wide(H, g)) BY <3>1, MergeInKeeps DEF r
    <3>3. Len(r) \in 1..(Len(d) + 1) BY <3>1, MergeInKeeps DEF r
    <3>4. TotalWeight(r) = TotalWeight(d) + c.weight BY <3>1, MergeInKeeps DEF r
    <3> QED BY <3>2, <3>3, <3>4 DEF S, W
  <2>6. IsFiniteSet(I) /\ z \in I /\ I \ {z} = 1..j /\ \A k \in I : e[k] \in Int
    <3>1. IsFiniteSet(I) BY <2>1, FS_Interval
    <3>2. \A k \in I : k \in 1..n BY <1>1
    <3> QED BY <1>12, <2>1, <3>1, <3>2
  <2> HIDE DEF I, z
  <2>7. SumFunctionOnSet(e, I) = e[z] + SumFunctionOnSet(e, I \ {z}) BY <2>6, SumRemove
  <2>8. SumFunctionOnSet(e, I) = e[i] + SumFunctionOnSet(e, 1..j) BY <2>6, <2>7 DEF z
  <2>9. SumFunctionOnSet(e, 1..j) \in Nat
    <3>1. IsFiniteSet(1..j) BY <2>1, FS_Interval
    <3>2. \A k \in 1..j : e[k] \in Nat
      <4>1. \A k \in 1..j : k \in 1..n BY <1>1, <2>1
      <4> QED BY <1>12, <4>1
    <3> QED BY <3>1, <3>2, SumMonotone
  <2>10. TotalWeight(r) = SumFunctionOnSet(e, 1..i) BY <2>2, <2>4, <2>5, <2>8, <2>9 DEF I
  <2>11. Len(r) \in 0..i /\ Len(r) > 0 BY <2>1, <2>2, <2>5
  <2>12. i \in 0..n BY <1>1
  <2> HIDE DEF j
  <2> QED BY <2>3, <2>5, <2>10, <2>11, <2>12
<1> HIDE DEF P
<1>15. n \in P
  <2>1. \A i \in 0..n : i \in P BY <1>1, <1>13, <1>14, Climb
  <2> QED BY <1>1, <2>1
<1>16. m[n] \in S /\ Len(m[n]) \in 1..n /\ TotalWeight(m[n]) = SumFunctionOnSet(e, 1..n)
  BY <1>1, <1>15 DEF P
<1>17. SumFunctionOnSet(e, 1..n) = TotalWeight(cs)
  <2> DEFINE I == 1..n
  <2>1. /\ IsFiniteSet(I) /\ TotalWeight(cs) = SumFunctionOnSet(w, I)
        /\ \A k \in I : w[k] = cs[k].weight /\ w[k] \in Nat
    BY <1>1, <1>2, TotalIsNatural
  <2>2. \A k \in I : e[k] = w[o[k]] BY <1>4, <1>12, <2>1
  <2>3. \A k \in I : w[k] \in Int BY <2>1
  <2>4. Numbers(o, I, I) BY <1>3
  <2> HIDE DEF I, w
  <2>5. SumFunctionOnSet(e, I) = SumFunctionOnSet(w, I)
    BY <2>1, <2>2, <2>3, <2>4, SumReindexed
  <2> QED BY <2>1, <2>5 DEF I
<1> QED BY <1>10, <1>16, <1>17 DEF S, W

LEMMA FallbackIsMixed ==
  ASSUME NEW g \in Geometry, g.lo < g.hi PROVE Mixed(Fallback(g))
<1> DEFINE r == Rng(g)
           s == AtLeast(r \div 4, 1)
           c == [family |-> "normal", center |-> g.lo + r \div 2, spread |-> s, weight |-> 1]
           f == <<c>>
<1>1. r \in Nat \ {0} /\ g.lo \in Int BY GridRises DEF Geometry
<1>2. f = Fallback(g) BY DEF Fallback
<1> HIDE DEF r
<1>3. r \div 4 \in Int /\ r \div 2 \in Int BY <1>1, Quotient
<1>4. s \in Nat \ {0} BY <1>3 DEF AtLeast
<1> HIDE DEF s
<1>5. Drawable(c) BY <1>1, <1>3, <1>4 DEF Drawable
<1>6. c \in Solid
  <2>1. c.center \in Int BY <1>1, <1>3
  <2> QED BY <1>4, <2>1 DEF Solid, Families
<1>7. c.weight = 1 OBVIOUS
<1> HIDE DEF c
<1>8. f \in [1..(0 + 1) -> Solid] /\ << >> \in [1..0 -> Solid] /\ f[0 + 1] = c BY <1>6
<1>9. DOMAIN f = 1..1 /\ f[1] = c OBVIOUS
<1>10. IsFiniteSet(1..1)
  <2>1. 1 \in Int OBVIOUS
  <2> QED BY <2>1, FS_Interval
<1> HIDE DEF f
<1>11. TotalWeight(f) = TotalWeight(<< >>) + f[0 + 1].weight
  <2>1. \A k \in 1..0 : f[k] = << >>[k] OBVIOUS
  <2>2. 0 \in Nat OBVIOUS
  <2> QED BY <1>8, <2>1, <2>2, OneAppended
<1>12. TotalWeight(f) = 1 BY <1>7, <1>8, <1>11, NothingWeighsNothing
<1>13. Mixed(f) BY <1>5, <1>9, <1>10, <1>12 DEF Mixed
<1> QED BY <1>2, <1>13

LEMMA CleanIsSolid ==
  ASSUME NEW comps \in Seq(Component)
  PROVE  /\ Len(Clean(comps)) \in Nat /\ DOMAIN Clean(comps) = 1..Len(Clean(comps))
         /\ Clean(comps) \in [1..Len(Clean(comps)) -> Solid]
<1> DEFINE n == Len(comps)
           K == {k \in 1..n : ValidComponent(comps[k])}
           l == Clean(comps)
           m == Cardinality(K)
<1>1. n \in Nat /\ comps \in [1..n -> Component] /\ DOMAIN comps = 1..n OBVIOUS
<1>2. K \in SUBSET (1..n) /\ \A k \in K : ValidComponent(comps[k]) OBVIOUS
<1>3. l = Chosen(comps, K) BY <1>1 DEF Clean
<1> HIDE DEF n, K, l
<1>4. m \in Nat /\ IsFiniteSet(K) BY <1>1, <1>2, ChosenLists
<1>5. l \in [1..m -> Component] BY <1>1, <1>2, <1>3, ChosenLists
<1>6. l = [i \in 1..m |-> comps[Ascending(K)[i]]] BY <1>3 DEF Chosen
<1>7. Ascending(K) \in [1..m -> K]
  <2>1. K \in SUBSET Nat BY <1>1, <1>2
  <2> QED BY <1>4, <2>1, AscendingLists
<1> HIDE DEF m
<1>8. ASSUME NEW i \in 1..m PROVE l[i] \in Solid
  <2> DEFINE k == Ascending(K)[i] c == comps[k]
  <2>1. k \in K BY <1>7
  <2>2. l[i] = c BY <1>6
  <2>3. ValidComponent(c) /\ c \in Component BY <1>1, <1>2, <2>1
  <2> HIDE DEF c
  <2>4. c \in Solid BY <2>3 DEF ValidComponent, Component, Solid
  <2> QED BY <2>2, <2>4
<1>9. l \in [1..m -> Solid] /\ Len(l) = m /\ DOMAIN l = 1..m BY <1>4, <1>5, <1>8, Narrowed
<1> QED BY <1>4, <1>9 DEF l

\* The components once each has the least width.
Widened(cs, g) == [k \in DOMAIN cs |-> WidthFloor(cs[k], g)]

LEMMA WidenedWeigh ==
  ASSUME NEW H, NEW W, NEW g \in Geometry, g.lo < g.hi, NEW cs \in Packs(H, W)
  PROVE  /\ Widened(cs, g) \in [1..Len(cs) -> Wide(H, g)]
         /\ TotalWeight(Widened(cs, g)) = W
<1> DEFINE n == Len(cs) d == Widened(cs, g) w == Weights(cs) v == Weights(d) D == 1..n
<1>0. d = [k \in DOMAIN cs |-> WidthFloor(cs[k], g)] BY DEF Widened
<1> HIDE DEF d
<1>1. /\ n \in Nat /\ cs \in [1..n -> Piece(H)] /\ cs \in [1..n -> Solid]
      /\ DOMAIN cs = 1..n /\ TotalWeight(cs) = W
  BY PackFields
<1> HIDE DEF n
<1>2. ASSUME NEW k \in 1..n PROVE d[k] \in Wide(H, g) /\ d[k].weight = cs[k].weight
  <2>1. d[k] = WidthFloor(cs[k], g) /\ cs[k] \in Piece(H) BY <1>0, <1>1
  <2> QED BY <2>1, WidthFloorWidens
<1>3. d \in [1..n -> Wide(H, g)]
  <2>1. d = [k \in 1..n |-> d[k]] BY <1>0, <1>1
  <2> QED BY <1>2, <2>1
<1>4. d \in [1..n -> Solid] BY <1>3 DEF Wide, Piece
<1>5. /\ IsFiniteSet(D) /\ W = SumFunctionOnSet(w, D)
      /\ \A k \in D : w[k] = cs[k].weight /\ w[k] \in Int
  BY <1>1, TotalIsNatural
<1>6. TotalWeight(d) = SumFunctionOnSet(v, D) /\ \A k \in D : v[k] = w[k]
  BY <1>1, <1>2, <1>4, <1>5, TotalIsNatural
<1> HIDE DEF D, w, v
<1>7. SumFunctionOnSet(v, D) = SumFunctionOnSet(w, D) BY <1>5, <1>6, SumSame
<1> QED BY <1>3, <1>5, <1>6, <1>7 DEF n, d

\* What the guardrails promise of the mixture d that they make of the valid components cs.
Guarded(d, cs, g) ==
  LET C == {cs[k].center : k \in DOMAIN cs}
  IN  /\ TotalWeight(d) = TotalWeight(cs)
      /\ Len(d) \in 1..MaxComponents
      /\ \A k \in DOMAIN d : /\ \E a, b \in C : Between(d[k].center, a, b)
                             /\ d[k].family = "normal" => d[k].spread >= MinScale(g)

\* The guardrails build what a curve can be drawn of; of components with a weight
\* they lose none.
LEMMA BuiltHolds ==
  ASSUME CdfAssumption, NEW g \in Geometry, g.lo < g.hi, NEW comps \in Seq(Component)
  PROVE  /\ Mixed(BuildMixture(comps, g))
         /\ TotalWeight(Clean(comps)) > 0 => Guarded(BuildMixture(comps, g), Clean(comps), g)
<1> DEFINE cs == Clean(comps)
           n == Len(cs)
           W == TotalWeight(cs)
           C == {cs[k].center : k \in DOMAIN cs}
           H == {x \in Int : \E a, b \in C : Between(x, a, b)}
           kept == FoldLightest(FoldNegligible(cs))
           wide == [k \in DOMAIN kept |-> WidthFloor(kept[k], g)]
           d == MergeNear(wide, g)
           built == BuildMixture(comps, g)
<1>1. n \in Nat /\ DOMAIN cs = 1..n /\ cs \in [1..n -> Solid] BY CleanIsSolid
<1>2. built = IF W = 0 THEN Fallback(g) ELSE d BY DEF BuildMixture
<1>3. W \in Nat BY <1>1, TotalIsNatural
<1> HIDE DEF cs, n
<1>4. C \subseteq Int /\ \A k \in 1..n : cs[k].center \in C
  <2>1. \A k \in 1..n : cs[k].center \in Int BY <1>1, SolidFields
  <2> QED BY <1>1, <2>1
<1> HIDE DEF C
<1>5. Convex(H)
  <2>1. H \subseteq Int OBVIOUS
  <2>2. ASSUME NEW a \in H, NEW b \in H, NEW x \in Int, a <= x, x <= b PROVE x \in H
    <3>1. PICK p \in C : p <= a BY DEF Between
    <3>2. PICK q \in C : b <= q BY DEF Between
    <3>3. p \in Int /\ q \in Int /\ a \in Int /\ b \in Int BY <1>4, <2>1
    <3>4. p <= x /\ x <= q BY <2>2, <3>1, <3>2, <3>3
    <3> QED BY <3>4 DEF Between
  <2> HIDE DEF H
  <2> QED BY <2>1, <2>2 DEF Convex
<1>6. \A k \in 1..n : cs[k].center \in H
  <2>1. \A x \in C : x \in H BY <1>4 DEF Between
  <2> HIDE DEF H
  <2> QED BY <1>4, <2>1
<1>7. \A x \in H : \E a, b \in C : Between(x, a, b) OBVIOUS
<1> HIDE DEF H, W, kept, wide, d, built
<1>8. CASE W = 0
  <2>1. Mixed(built) BY <1>2, <1>8, FallbackIsMixed
  <2> QED BY <1>8, <2>1 DEF W, cs, built
<1>9. CASE W # 0
  <2>1. W > 0 BY <1>3, <1>9
  <2>2. n # 0
    <3> SUFFICES ASSUME n = 0 PROVE FALSE OBVIOUS
    <3>1. DOMAIN cs = {} BY <1>1
    <3>2. SumFunctionOnSet(Weights(cs), {}) = 0 BY SumEmpty
    <3> QED BY <1>9, <3>1, <3>2, TotalIsSum DEF W
  <2>3. n \in Nat \ {0} BY <1>1, <2>2
  <2>4. FoldNegligible(cs) \in Packs(H, W)
    <3>1. PICK m \in 1..n : /\ FoldNegligible(cs) \in [1..m -> Piece(H)]
                            /\ TotalWeight(FoldNegligible(cs)) = TotalWeight(cs)
      BY <1>1, <1>6, <2>1, <2>3, FoldNegligibleKeeps DEF W
    <3>2. m \in Nat \ {0} BY <2>3
    <3> QED BY <3>1, <3>2, PackOf DEF W
  <2>5. kept \in Packs(H, W) /\ Len(kept) <= MaxComponents
    BY <2>4, FoldLightestKeeps DEF kept
  <2>6. wide \in [1..Len(kept) -> Wide(H, g)] /\ TotalWeight(wide) = W
    <3>1. kept \in Packs(H, W) BY <2>5
    <3>2. wide = Widened(kept, g) BY DEF wide, Widened
    <3>3. Widened(kept, g) \in [1..Len(kept) -> Wide(H, g)] BY <3>1, WidenedWeigh
    <3>4. TotalWeight(Widened(kept, g)) = W BY <3>1, WidenedWeigh
    <3> QED BY <3>2, <3>3, <3>4
  <2>7. Len(kept) \in Nat \ {0} BY <2>5, PackFields
  <2>8. /\ d \in Seq(Wide(H, g)) /\ Len(d) \in 1..Len(kept) /\ TotalWeight(d) = W
    <3> DEFINE m == Len(kept)
    <3>1. m \in Nat \ {0} /\ wide \in [1..m -> Wide(H, g)] BY <2>6, <2>7
    <3> HIDE DEF m
    <3>2. d \in Seq(Wide(H, g)) BY <1>5, <3>1, MergeNearKeeps DEF d
    <3>3. Len(d) \in 1..m BY <1>5, <3>1, MergeNearKeeps DEF d
    <3>4. TotalWeight(d) = TotalWeight(wide) BY <1>5, <3>1, MergeNearKeeps DEF d
    <3> QED BY <2>6, <3>2, <3>3, <3>4 DEF m
  <2>9. Len(d) \in 1..MaxComponents
    <3>1. MaxComponents \in Nat BY DEF CdfAssumption
    <3> QED BY <2>5, <2>7, <2>8, <3>1
  <2>10. ASSUME NEW k \in DOMAIN d
         PROVE  /\ d[k].center \in H /\ Drawable(d[k])
                /\ d[k].family = "normal" => d[k].spread >= MinScale(g)
    <3> DEFINE c == d[k]
    <3>1. c \in Wide(H, g) BY <2>8
    <3> HIDE DEF c
    <3>2. /\ c.center \in H /\ c.center \in Int /\ c.weight \in Nat \ {0}
          /\ c.spread \in Nat \ {0}
      BY <1>5, <3>1, WideFields
    <3>3. c.family = "normal" => c.spread >= MinScale(g) BY <1>5, <3>1, WideFields
    <3>4. Drawable(c) BY <3>2 DEF Drawable
    <3> QED BY <3>2, <3>3, <3>4 DEF c
  <2>11. Mixed(d)
    <3>1. DOMAIN d = 1..Len(d) /\ Len(d) \in Nat BY <2>8
    <3>2. IsFiniteSet(1..Len(d)) BY <3>1, FS_Interval
    <3> QED BY <2>1, <2>8, <2>10, <3>1, <3>2 DEF Mixed
  <2>12. Guarded(d, cs, g)
    <3>1. \A k \in DOMAIN d : /\ \E a, b \in C : Between(d[k].center, a, b)
                              /\ d[k].family = "normal" => d[k].spread >= MinScale(g)
      BY <1>7, <2>10
    <3> QED BY <2>8, <2>9, <3>1 DEF Guarded, C, W
  <2> QED BY <1>2, <1>9, <2>11, <2>12 DEF built, cs, W
<1> QED BY <1>8, <1>9

(***************************************************************************)
(* Units.                                                                  *)
(***************************************************************************)
PowersOfTen(t) == t = [e \in 0..MaxSlip |-> IF e = 0 THEN 1 ELSE 10 * t[e - 1]]

LEMMA TenToIsPositive == ASSUME CdfAssumption PROVE \A e \in 0..MaxSlip : TenTo[e] \in Nat \ {0}
<1> DEFINE N == MaxSlip
           S == Nat \ {0}
           F == [p \in (1..N) \X S |-> 10 * p[2]]
<1>1. N \in Nat /\ 1 \in S BY DEF CdfAssumption
<1>2. \A i \in 1..N, x \in S : F[<<i, x>>] = 10 * x /\ F[<<i, x>>] \in S OBVIOUS
<1> HIDE DEF F, S, N
<1>3. PICK h \in [0..N -> S] : Iterates(h, 1, F, N) BY <1>1, <1>2, IteratesExist
<1>4. \A i \in 0..N : h[i] = IF i = 0 THEN 1 ELSE 10 * h[i - 1]
  <2> SUFFICES ASSUME NEW i \in 0..N PROVE h[i] = IF i = 0 THEN 1 ELSE 10 * h[i - 1]
    OBVIOUS
  <2>1. h[i] = IF i = 0 THEN 1 ELSE F[<<i, h[i - 1]>>] BY <1>3 DEF Iterates
  <2>2. i # 0 => i \in 1..N /\ i - 1 \in 0..N BY <1>1
  <2>3. i # 0 => h[i - 1] \in S BY <2>2
  <2> QED BY <1>2, <2>1, <2>2, <2>3
<1>5. PowersOfTen(h)
  <2>1. h = [i \in 0..N |-> h[i]] OBVIOUS
  <2> QED BY <1>4, <2>1 DEF PowersOfTen, N
<1>6. PowersOfTen(TenTo)
  <2>1. TenTo = (CHOOSE t : PowersOfTen(t)) BY DEF TenTo, PowersOfTen
  <2> QED BY <1>5, <2>1
<1>7. \A i \in 0..N : TenTo[i] = IF i = 0 THEN 1 ELSE 10 * TenTo[i - 1]
  BY <1>6 DEF PowersOfTen, N
<1> DEFINE P == {i \in 0..N : TenTo[i] \in S}
<1>8. 0 \in P BY <1>1, <1>7
<1>9. ASSUME NEW i \in 1..N, i - 1 \in P PROVE i \in P
  <2>1. TenTo[i - 1] \in S /\ TenTo[i] = 10 * TenTo[i - 1] /\ i \in 0..N BY <1>1, <1>7, <1>9
  <2>2. TenTo[i] \in S BY <2>1 DEF S
  <2> QED BY <2>1, <2>2
<1> HIDE DEF P
<1>10. \A i \in 0..N : i \in P BY <1>1, <1>8, <1>9, Climb
<1> QED BY <1>10 DEF P, N, S

\* A factor that can be applied.
Applies(f) == f.up \in Nat \ {0} /\ f.down \in Nat \ {0}

LEMMA FactorsApply == ASSUME CdfAssumption PROVE \A e \in Exponents : Applies(Factor(e))
<1>1. MaxSlip \in Nat BY DEF CdfAssumption
<1> SUFFICES ASSUME NEW e \in Exponents PROVE Applies(Factor(e)) OBVIOUS
<1>2. e \in Int /\ (e > 0 => e \in 0..MaxSlip) /\ (e < 0 => -e \in 0..MaxSlip)
  BY <1>1 DEF Exponents
<1>3. (e > 0 => TenTo[e] \in Nat \ {0}) /\ (e < 0 => TenTo[-e] \in Nat \ {0})
  BY <1>2, TenToIsPositive
<1> QED BY <1>3 DEF Applies, Factor

LEMMA OneApplies == ASSUME CdfAssumption PROVE Applies(One)
<1>1. 0 \in Exponents BY DEF CdfAssumption, Exponents
<1> QED BY <1>1, FactorsApply DEF One

LEMMA ScaledIsInt == ASSUME NEW f, Applies(f), NEW x \in Int PROVE Scaled(x, f) \in Int
<1> DEFINE u == f.up d == f.down y == x * u
<1>1. u \in Int /\ d \in Nat \ {0} BY DEF Applies
<1>2. y \in Int BY <1>1
<1> HIDE DEF u, d, y
<1>3. y \div d \in Int BY <1>1, <1>2, Quotient
<1> QED BY <1>3 DEF Scaled, u, d, y

LEMMA RescaledAreComponents ==
  ASSUME NEW f, Applies(f), NEW comps \in Seq(Component)
  PROVE  Rescale(comps, f) \in Seq(Component)
<1> DEFINE n == Len(comps)
<1>1. n \in Nat /\ comps \in [1..n -> Component] /\ DOMAIN comps = 1..n OBVIOUS
<1> HIDE DEF n
<1>2. Rescale(comps, f) = [k \in 1..n |-> [comps[k] EXCEPT !.center = Scaled(comps[k].center, f),
                                                        !.spread = Scaled(comps[k].spread, f)]]
  BY <1>1 DEF Rescale
<1>3. ASSUME NEW c \in Component
      PROVE  [c EXCEPT !.center = Scaled(c.center, f), !.spread = Scaled(c.spread, f)] \in Component
  <2>1. c.center \in Int /\ c.spread \in Int BY DEF Component
  <2>2. Scaled(c.center, f) \in Int /\ Scaled(c.spread, f) \in Int BY <2>1, ScaledIsInt
  <2> QED BY <2>2 DEF Component
<1>4. Rescale(comps, f) \in [1..n -> Component] BY <1>1, <1>2, <1>3
<1> QED BY <1>1, <1>4, NumberedIsSeq

LEMMA ScaledSupport ==
  ASSUME NEW f, Applies(f), NEW s \in Limits \cup {Nothing}
  PROVE  ScaleSupport(s, f) \in Limits \cup {Nothing}
<1>1. CASE s = Nothing BY <1>1 DEF ScaleSupport
<1>2. CASE s # Nothing
  <2>1. s.min \in Int /\ s.max \in Int BY <1>2 DEF Limits
  <2>2. Scaled(s.min, f) \in Int /\ Scaled(s.max, f) \in Int BY <2>1, ScaledIsInt
  <2> QED BY <1>2, <2>2 DEF ScaleSupport, Limits
<1> QED BY <1>1, <1>2

\* What the inferred factor promises of the centres it was inferred from.
Lands(centers, g, f) ==
  f # One => \A k \in DOMAIN centers :
    centers[k] # 0 => ~InWindow(g, centers[k]) /\ InWindow(g, Scaled(centers[k], f))

LEMMA InferredScaleLands ==
  ASSUME CdfAssumption, NEW g, NEW n \in Nat, NEW centers \in [1..n -> Int]
  PROVE  Applies(DetectScale(centers, g)) /\ Lands(centers, g, DetectScale(centers, g))
<1> DEFINE K == {k \in 1..n : centers[k] # 0}
           finite == Chosen(centers, K)
           gabs == [k \in 1..g.size |-> Abs(Grid(g)[k])]
           abs == [k \in DOMAIN finite |-> Abs(finite[k])]
           hits == {m \in Exponents : SnapsTo(Median2(gabs), Median2(abs), m)}
           e == CHOOSE m \in hits : TRUE
           f == DetectScale(centers, g)
           ok == /\ finite # << >>
                 /\ \A k \in DOMAIN finite : ~InWindow(g, finite[k])
                 /\ \/ \A k \in DOMAIN finite : finite[k] < g.lo
                    \/ \A k \in DOMAIN finite : finite[k] > g.hi
                 /\ hits \ {0} # {}
                 /\ \A k \in DOMAIN finite : InWindow(g, Scaled(finite[k], Factor(e)))
<1>1. f = IF ok THEN Factor(e) ELSE One BY DEF DetectScale
<1>2. K \in SUBSET (1..n) /\ \A k \in 1..n : centers[k] # 0 => k \in K OBVIOUS
<1>3. ok => hits # {} /\ e \in Exponents
  <2>1. hits \subseteq Exponents OBVIOUS
  <2> HIDE DEF hits
  <2> QED BY <2>1
<1>4. ASSUME ok, NEW k \in 1..n, centers[k] # 0
      PROVE  ~InWindow(g, centers[k]) /\ InWindow(g, Scaled(centers[k], Factor(e)))
  <2> HIDE DEF K, e, hits
  <2> DEFINE c == Cardinality(K)
  <2>1. c \in Nat /\ IsFiniteSet(K) /\ finite \in [1..c -> Int] BY <1>2, ChosenLists
  <2>2. \E i \in 1..c : Ascending(K)[i] = k
    <3>1. K \in SUBSET Nat /\ k \in K BY <1>2, <1>4
    <3> QED BY <2>1, <3>1, AscendingLists
  <2>3. \A i \in 1..c : finite[i] = centers[Ascending(K)[i]] BY DEF Chosen
  <2>4. DOMAIN finite = 1..c BY <2>1
  <2>5. \A j \in DOMAIN finite : ~InWindow(g, finite[j]) /\ InWindow(g, Scaled(finite[j], Factor(e)))
    BY <1>4
  <2> HIDE DEF finite, c
  <2>6. PICK i \in 1..c : Ascending(K)[i] = k BY <2>2
  <2> QED BY <2>3, <2>4, <2>5, <2>6
<1> HIDE DEF K, finite, e, hits, f, ok
<1>5. Applies(f) BY <1>1, <1>3, FactorsApply, OneApplies
<1>6. Lands(centers, g, f)
  <2>1. DOMAIN centers = 1..n OBVIOUS
  <2>2. f # One => ok /\ f = Factor(e) BY <1>1
  <2> QED BY <1>4, <2>1, <2>2 DEF Lands
<1> QED BY <1>5, <1>6 DEF f

(***************************************************************************)
(* Curves and their masses.                                                *)
(***************************************************************************)
LEMMA MassesOf ==
  ASSUME NEW n \in Nat \ {0}, NEW c \in [1..n -> Int]
  PROVE  /\ Masses(c) \in [1..n -> Int] /\ DOMAIN Masses(c) = 1..n /\ Len(Masses(c)) = n
         /\ Len(c) = n /\ DOMAIN c = 1..n
         /\ Masses(c)[1] = c[1] /\ \A k \in 2..n : Masses(c)[k] = c[k] - c[k - 1]
<1> DEFINE m == Masses(c)
<1>1. m = [k \in 1..n |-> IF k = 1 THEN c[1] ELSE c[k] - c[k - 1]] BY DEF Masses
<1>2. \A k \in 1..n : k # 1 => k - 1 \in 1..n OBVIOUS
<1>3. 1 \in 1..n OBVIOUS
<1>4. \A k \in 1..n : c[k] \in Int OBVIOUS
<1> HIDE DEF m
<1>5. \A k \in 1..n : m[k] \in Int
  <2> SUFFICES ASSUME NEW k \in 1..n PROVE m[k] \in Int OBVIOUS
  <2>1. m[k] = IF k = 1 THEN c[1] ELSE c[k] - c[k - 1] BY <1>1
  <2> QED BY <1>2, <1>3, <1>4, <2>1
<1>6. m \in [1..n -> Int] BY <1>1, <1>5
<1>7. Len(m) = n /\ Len(c) = n
  <2>1. n \in Nat OBVIOUS
  <2> QED BY <1>6, <2>1, NumberedIsSeq
<1>8. \A k \in 2..n : k \in 1..n /\ k # 1 OBVIOUS
<1>9. m[1] = c[1] /\ \A k \in 2..n : m[k] = c[k] - c[k - 1] BY <1>1, <1>3, <1>8
<1> QED BY <1>1, <1>6, <1>7, <1>9 DEF m

LEMMA IntervalGrows ==
  ASSUME NEW a \in Int, NEW i \in Int, a <= i + 1
  PROVE  i + 1 \in a..(i + 1) /\ (a..(i + 1)) \ {i + 1} = a..i
OBVIOUS

\* The masses up to a point add up to what the curve gained until there.
LEMMA MassesAddUp ==
  ASSUME NEW n \in Nat \ {0}, NEW c \in [1..n -> Int], NEW m, \A k \in 2..n : m[k] = c[k] - c[k - 1],
         NEW k \in 1..n
  PROVE  SumFunctionOnSet(m, 2..k) = c[k] - c[1]
<1> DEFINE Sum(i) == SumFunctionOnSet(m, 2..i)
           N == n - 1
           P == {i \in 0..N : Sum(i + 1) = c[i + 1] - c[1]}
<1>1. N \in Nat OBVIOUS
<1>2. \A i \in 1..n : c[i] \in Int OBVIOUS
<1>3. \A i \in 2..n : m[i] \in Int BY <1>2
<1>4. 0 \in P
  <2>1. 2..(0 + 1) = {} /\ 0 + 1 = 1 /\ 1 \in 1..n OBVIOUS
  <2>2. SumFunctionOnSet(m, {}) = 0 BY SumEmpty
  <2> QED BY <1>1, <1>2, <2>1, <2>2
<1>5. ASSUME NEW i \in 1..N, i - 1 \in P PROVE i \in P
  <2> DEFINE j == i + 1 I == 2..j
  <2>1. j \in 2..n /\ i \in 1..n /\ i \in 0..N /\ j - 1 = i OBVIOUS
  <2>2. Sum(i) = c[i] - c[1]
    <3>1. (i - 1) + 1 = i OBVIOUS
    <3> QED BY <1>5, <3>1
  <2>3. IsFiniteSet(I) /\ j \in I /\ I \ {j} = 2..i
    <3>1. j \in Int /\ 2 \in Int OBVIOUS
    <3>2. IsFiniteSet(I)
      <4> HIDE DEF j
      <4> QED BY <3>1, FS_Interval
    <3>3. j \in I /\ I \ {j} = 2..i
      <4>1. 2 \in Int /\ i \in Int /\ 2 <= i + 1 OBVIOUS
      <4> QED BY <4>1, IntervalGrows
    <3> QED BY <3>2, <3>3
  <2>4. \A l \in I : m[l] \in Int
    <3>1. \A l \in I : l \in 2..n OBVIOUS
    <3> QED BY <1>3, <3>1
  <2> HIDE DEF I, j
  <2>5. SumFunctionOnSet(m, I) = m[j] + SumFunctionOnSet(m, I \ {j}) BY <2>3, <2>4, SumRemove
  <2>6. m[j] = c[j] - c[i] BY <2>1
  <2>7. c[j] \in Int /\ c[i] \in Int /\ c[1] \in Int
    <3>1. j \in 1..n /\ 1 \in 1..n BY <2>1
    <3> QED BY <1>2, <2>1, <3>1
  <2>8. SumFunctionOnSet(m, I) = c[j] - c[1]
    <3>1. SumFunctionOnSet(m, I) = m[j] + Sum(i) BY <2>3, <2>5
    <3> HIDE DEF Sum
    <3> QED BY <2>2, <2>6, <2>7, <3>1
  <2> QED BY <2>1, <2>8 DEF I, j
<1> HIDE DEF P
<1>6. k - 1 \in P
  <2>1. \A i \in 0..N : i \in P
    <3> HIDE DEF N
    <3> QED BY <1>1, <1>4, <1>5, Climb
  <2> QED BY <2>1
<1>7. Sum((k - 1) + 1) = c[(k - 1) + 1] - c[1] BY <1>6 DEF P
<1>8. (k - 1) + 1 = k OBVIOUS
<1> QED BY <1>7, <1>8

\* A curve is between its ends.
LEMMA CurveRises ==
  ASSUME NEW n \in Nat \ {0}, NEW c \in [1..n -> Int], \A k \in 2..n : c[k - 1] <= c[k],
         NEW j \in 1..n, NEW k \in 1..n, j <= k
  PROVE  c[j] <= c[k]
<1> DEFINE N == n - j
           P == {i \in 0..N : c[j] <= c[j + i]}
<1>1. N \in Nat /\ \A i \in 1..n : c[i] \in Int OBVIOUS
<1>2. 0 \in P
  <2>1. j + 0 = j OBVIOUS
  <2> QED BY <1>1, <2>1
<1>3. ASSUME NEW i \in 1..N, i - 1 \in P PROVE i \in P
  <2> DEFINE a == j + i b == j + (i - 1)
  <2>1. a \in 2..n /\ b \in 1..n /\ a \in 1..n /\ b = a - 1 /\ i \in 0..N OBVIOUS
  <2>2. c[j] <= c[b] BY <1>3
  <2> HIDE DEF a, b
  <2>3. c[b] <= c[a] BY <2>1
  <2>4. c[a] \in Int /\ c[b] \in Int /\ c[j] \in Int BY <1>1, <2>1
  <2>5. c[j] <= c[a] BY <2>2, <2>3, <2>4
  <2> QED BY <2>1, <2>5 DEF a
<1> HIDE DEF P
<1>4. k - j \in P
  <2>1. \A i \in 0..N : i \in P
    <3> HIDE DEF N
    <3> QED BY <1>1, <1>2, <1>3, Climb
  <2> QED BY <2>1
<1>5. c[j] <= c[j + (k - j)] /\ j + (k - j) = k BY <1>4 DEF P
<1> QED BY <1>5

(***************************************************************************)
(* The repair of a coarse list of values.                                  *)
(***************************************************************************)
\* Gaps between neighbours that skip something.
Gaps(filled, O) == filled \subseteq Neighbours(O) /\ \A p \in filled : p[2] - p[1] - 1 > 0

LEMMA GapFields ==
  ASSUME NEW n \in Nat, NEW O \in SUBSET (2..n), NEW filled, Gaps(filled, O), NEW p \in filled
  PROVE  /\ p[1] \in O /\ p[2] \in O /\ p[1] \in Int /\ p[2] \in Int
         /\ 2 <= p[1] /\ p[1] + 2 <= p[2] /\ p[2] <= n
         /\ \A k \in O : ~(p[1] < k /\ k < p[2])
<1>1. /\ p \in O \X O /\ p[1] < p[2] /\ ~ \E k \in O : p[1] < k /\ k < p[2]
      /\ p[2] - p[1] - 1 > 0
  BY DEF Gaps, Neighbours
<1>2. p[1] \in O /\ p[2] \in O BY <1>1
<1>3. p[1] \in 2..n /\ p[2] \in 2..n BY <1>2
<1> QED BY <1>1, <1>2, <1>3

\* How far the cell of an occupied bin reaches.
LEMMA CellEnds ==
  ASSUME NEW n \in Nat, NEW O \in SUBSET (2..n), NEW filled, Gaps(filled, O), NEW j \in O
  PROVE  /\ LeftEnd(filled, j) \in Int /\ RightEnd(filled, j) \in Int
         /\ 3 <= LeftEnd(filled, j) /\ LeftEnd(filled, j) <= 2 * j - 1
         /\ 2 * j + 1 <= RightEnd(filled, j) /\ RightEnd(filled, j) <= 2 * n + 1
         /\ LeftEnd(filled, j) # 2 * j - 1 =>
              \E p \in filled : p[2] = j /\ LeftEnd(filled, j) = p[1] + j
         /\ RightEnd(filled, j) # 2 * j + 1 =>
              \E p \in filled : p[1] = j /\ RightEnd(filled, j) = j + p[2]
<1> DEFINE L == LeftEnd(filled, j)
           R == RightEnd(filled, j)
           a == CHOOSE p \in filled : p[2] = j
           b == CHOOSE p \in filled : p[1] = j
<1>1. j \in Int /\ 2 <= j /\ j <= n OBVIOUS
<1>2. L = IF \E p \in filled : p[2] = j THEN a[1] + j ELSE 2 * j - 1 BY DEF LeftEnd
<1>3. R = IF \E p \in filled : p[1] = j THEN j + b[2] ELSE 2 * j + 1 BY DEF RightEnd
<1>4. (\E p \in filled : p[2] = j) => a \in filled /\ a[2] = j OBVIOUS
<1>5. (\E p \in filled : p[1] = j) => b \in filled /\ b[1] = j OBVIOUS
<1> HIDE DEF L, R, a, b
<1>6. /\ L \in Int /\ 3 <= L /\ L <= 2 * j - 1
      /\ L # 2 * j - 1 => \E p \in filled : p[2] = j /\ L = p[1] + j
  <2>1. CASE \E p \in filled : p[2] = j
    <3>1. a \in filled /\ a[2] = j /\ L = a[1] + j BY <1>2, <1>4, <2>1
    <3>2. a[1] \in Int /\ 2 <= a[1] /\ a[1] + 2 <= a[2] BY <3>1, GapFields
    <3> QED BY <1>1, <3>1, <3>2
  <2>2. CASE ~ \E p \in filled : p[2] = j BY <1>1, <1>2, <2>2
  <2> QED BY <2>1, <2>2
<1>7. /\ R \in Int /\ 2 * j + 1 <= R /\ R <= 2 * n + 1
      /\ R # 2 * j + 1 => \E p \in filled : p[1] = j /\ R = j + p[2]
  <2>1. CASE \E p \in filled : p[1] = j
    <3>1. b \in filled /\ b[1] = j /\ R = j + b[2] BY <1>3, <1>5, <2>1
    <3>2. b[2] \in Int /\ b[1] + 2 <= b[2] /\ b[2] <= n BY <3>1, GapFields
    <3> QED BY <1>1, <3>1, <3>2
  <2>2. CASE ~ \E p \in filled : p[1] = j BY <1>1, <1>3, <2>2
  <2> QED BY <2>1, <2>2
<1> QED BY <1>6, <1>7 DEF L, R

\* What of a cell lies in or below a bin.
LEMMA CoveredRises ==
  ASSUME NEW k \in Int, NEW i \in Int, k <= i, NEW L \in Int, NEW R \in Int, L < R
  PROVE  /\ Covered(k, L, R) \in Nat /\ Covered(k, L, R) <= R - L
         /\ Covered(k, L, R) <= Covered(i, L, R)
         /\ 2 * k + 1 <= L => Covered(k, L, R) = 0
         /\ R <= 2 * k + 1 => Covered(k, L, R) = R - L
<1> DEFINE h == R - L x == 2 * k + 1 - L y == 2 * i + 1 - L
<1>1. h \in Nat /\ x \in Int /\ y \in Int /\ x <= y OBVIOUS
<1>2. Covered(k, L, R) = Bound(x, 0, h) /\ Covered(i, L, R) = Bound(y, 0, h) BY DEF Covered
<1>3. (2 * k + 1 <= L => x <= 0) /\ (R <= 2 * k + 1 => h <= x) OBVIOUS
<1> HIDE DEF h, x, y
<1>4. /\ Bound(x, 0, h) \in Int /\ 0 <= Bound(x, 0, h) /\ Bound(x, 0, h) <= h
      /\ Bound(x, 0, h) <= Bound(y, 0, h)
  BY <1>1, Bounded, BoundGrows
<1>5. x <= 0 => Bound(x, 0, h) = 0 BY <1>1 DEF Bound, AtLeast, AtMost
<1>6. h <= x => Bound(x, 0, h) = h BY <1>1 DEF Bound, AtLeast, AtMost
<1> QED BY <1>1, <1>2, <1>3, <1>4, <1>5, <1>6 DEF h

\* So much of the mass v.
Part(v, k, L, R) == (v * Covered(k, L, R)) \div (R - L)

LEMMA SpreadRises ==
  ASSUME NEW v \in Nat, NEW k \in Int, NEW i \in Int, k <= i, NEW L \in Int, NEW R \in Int, L < R
  PROVE  /\ Part(v, k, L, R) \in Nat
         /\ Part(v, k, L, R) <= Part(v, i, L, R)
         /\ 2 * k + 1 <= L => Part(v, k, L, R) = 0
         /\ R <= 2 * k + 1 => Part(v, k, L, R) = v
<1> DEFINE h == R - L a == Covered(k, L, R) b == Covered(i, L, R)
<1>1. h \in Nat \ {0} OBVIOUS
<1>2. /\ a \in Nat /\ a <= h /\ a <= b
      /\ (2 * k + 1 <= L => a = 0) /\ (R <= 2 * k + 1 => a = h)
  BY CoveredRises
<1>3. b \in Nat /\ b <= h /\ (2 * i + 1 <= L => b = 0) /\ (R <= 2 * i + 1 => b = h)
  <2>1. i <= i OBVIOUS
  <2> QED BY <2>1, CoveredRises
<1> HIDE DEF h, a, b
<1>4. v * a \in Nat /\ v * b \in Nat /\ v * a <= v * b BY <1>2, <1>3, ProductGrows
<1> DEFINE x == v * a y == v * b
<1>5. a = 0 => x = 0 OBVIOUS
<1>6. a = h => x = h * v BY <1>1
<1> HIDE DEF x, y
<1>7. x \div h \in Nat /\ x \div h <= y \div h
  <2>1. x \in Nat /\ x \in Int /\ y \in Int /\ x <= y BY <1>4 DEF x, y
  <2>2. x \div h \in Nat BY <1>1, <2>1, QuotientNatural
  <2>3. x \div h <= y \div h BY <1>1, <2>1, QuotientGrows
  <2> QED BY <2>2, <2>3
<1>8. a = 0 => x \div h = 0
  <2>1. 0 \in Int /\ 0 <= h * 0 /\ h * 0 <= 0 BY <1>1
  <2>2. 0 \div h <= 0 /\ 0 <= 0 \div h BY <1>1, <2>1, QuotientAbove, QuotientBelow
  <2>3. 0 \div h = 0 BY <1>1, <2>2, Quotient
  <2> QED BY <1>5, <2>3
<1>9. a = h => x \div h = v
  <2> SUFFICES ASSUME a = h PROVE x \div h = v OBVIOUS
  <2>1. x = h * v /\ x \in Int /\ v \in Int BY <1>1, <1>6
  <2>2. x <= h * v /\ h * v <= x BY <2>1
  <2>3. x \div h <= v /\ v <= x \div h BY <1>1, <2>1, <2>2, QuotientAbove, QuotientBelow
  <2> QED BY <1>7, <2>3
<1>10. Part(v, k, L, R) = x \div h /\ Part(v, i, L, R) = y \div h
  BY DEF Part, x, y, h, a, b
<1> QED BY <1>2, <1>7, <1>8, <1>9, <1>10 DEF h

\* None of it below the cell, all of it above.
LEMMA NonePart ==
  ASSUME NEW v \in Nat, NEW k \in Int, NEW L \in Int, NEW R \in Int, L < R, 2 * k + 1 <= L
  PROVE  Part(v, k, L, R) = 0
<1> DEFINE h == R - L
<1>1. h \in Nat \ {0} OBVIOUS
<1>2. Covered(k, L, R) = 0 BY DEF Covered, Bound, AtLeast, AtMost
<1>3. v * 0 = 0 OBVIOUS
<1>4. Part(v, k, L, R) = 0 \div h BY <1>2, <1>3 DEF Part
<1> HIDE DEF h
<1>5. 0 \div h = 0 BY <1>1
<1> QED BY <1>4, <1>5

LEMMA AllPart ==
  ASSUME NEW v \in Nat, NEW k \in Int, NEW L \in Int, NEW R \in Int, L < R, R <= 2 * k + 1
  PROVE  Part(v, k, L, R) = v
<1> DEFINE h == R - L
<1>1. h \in Nat \ {0} OBVIOUS
<1>2. Covered(k, L, R) = h BY DEF Covered, Bound, AtLeast, AtMost
<1>3. Part(v, k, L, R) = (v * h) \div h BY <1>2 DEF Part
<1> HIDE DEF h
<1>4. (v * h) \div h = v
  <2> DEFINE x == v * h
  <2>1. x \in Int /\ v \in Int /\ x <= h * v /\ h * v <= x BY <1>1
  <2> HIDE DEF x
  <2>2. x \div h <= v /\ v <= x \div h BY <1>1, <2>1, QuotientAbove, QuotientBelow
  <2>3. x \div h \in Int BY <1>1, <2>1, Quotient
  <2> QED BY <2>1, <2>2, <2>3 DEF x
<1> QED BY <1>3, <1>4

\* What grows from one bin to another grows where the cell is.
LEMMA PartGrows ==
  ASSUME NEW v \in Nat, NEW k \in Int, NEW i \in Int, k <= i, NEW L \in Int, NEW R \in Int,
         L < R, Part(v, k, L, R) # Part(v, i, L, R)
  PROVE  L < 2 * i + 1 /\ 2 * k + 1 < R
<1> DEFINE a == Covered(k, L, R) b == Covered(i, L, R)
<1>1. i <= i /\ 2 * k + 1 <= 2 * i + 1 OBVIOUS
<1>2. /\ a \in Nat /\ b \in Nat /\ a <= b /\ b <= R - L
      /\ (2 * i + 1 <= L => b = 0) /\ (R <= 2 * k + 1 => a = R - L)
  BY <1>1, CoveredRises
<1>3. a # b BY DEF Part
<1> HIDE DEF a, b
<1> QED BY <1>2, <1>3

\* The bins with a mass hold all of it.
LEMMA OccupiedHoldAll ==
  ASSUME NEW n \in Nat \ {0}, NEW m, \A k \in 2..n : m[k] \in Nat,
         NEW O, O = {k \in 2..n : m[k] > 0}
  PROVE  IsFiniteSet(O) /\ SumFunctionOnSet(m, O) = SumFunctionOnSet(m, 2..n)
<1> DEFINE B == 2..n
           Z == B \ O
<1>1. IsFiniteSet(B)
  <2>1. 2 \in Int /\ n \in Int OBVIOUS
  <2> QED BY <2>1, FS_Interval
<1>2. O \subseteq B /\ O \cup Z = B /\ O \cap Z = {} OBVIOUS
<1>3. \A k \in Z : m[k] = 0 OBVIOUS
<1>4. \A k \in B : m[k] \in Int OBVIOUS
<1> HIDE DEF B, Z
<1>5. IsFiniteSet(O) /\ IsFiniteSet(Z) BY <1>1, <1>2, FS_Subset
<1>6. Cardinality(Z) \in Nat /\ SumFunctionOnSet(m, Z) = 0 * Cardinality(Z)
  <2>1. 0 \in Int OBVIOUS
  <2> QED BY <1>3, <1>5, <2>1, SumAlike
<1>7. \A k \in O \cup Z : m[k] \in Int BY <1>2, <1>4
<1>8. SumFunctionOnSet(m, O \cup Z) = SumFunctionOnSet(m, O) + SumFunctionOnSet(m, Z)
  BY <1>2, <1>5, <1>7, SumUnion
<1>9. SumFunctionOnSet(m, O) \in Int BY <1>2, <1>4, <1>5, SumType
<1>10. SumFunctionOnSet(m, Z) = 0 BY <1>6
<1>11. SumFunctionOnSet(m, B) = SumFunctionOnSet(m, O) + SumFunctionOnSet(m, Z) BY <1>2, <1>8
<1>12. SumFunctionOnSet(m, B) = SumFunctionOnSet(m, O) BY <1>9, <1>10, <1>11
<1> QED BY <1>5, <1>12 DEF B

LEMMA CurveFields ==
  ASSUME NEW n \in Nat \ {0}, Unit \in Nat, NEW c \in Curve(n)
  PROVE  /\ c \in [1..n -> Int] /\ DOMAIN c = 1..n /\ Len(c) = n
         /\ \A k \in 1..n : c[k] \in Nat /\ c[k] <= Unit
         /\ \A k \in 2..n : c[k - 1] <= c[k]
         /\ \A j, k \in 1..n : j <= k => c[j] <= c[k]
<1>1. c \in [1..n -> 0..Unit] /\ \A k \in 2..n : c[k - 1] <= c[k] BY DEF Curve
<1>2. c \in [1..n -> Int] /\ \A k \in 1..n : c[k] \in Nat /\ c[k] <= Unit BY <1>1
<1>3. Len(c) = n
  <2>1. n \in Nat OBVIOUS
  <2> QED BY <1>2, <2>1, NumberedIsSeq
<1>4. \A j, k \in 1..n : j <= k => c[j] <= c[k] BY <1>1, <1>2, CurveRises
<1> QED BY <1>1, <1>2, <1>3, <1>4

\* A repaired curve keeps its ends and rises, and it gains mass only where a gap is filled.
LEMMA RepairHolds ==
  ASSUME Unit \in Nat, NEW n \in Nat \ {0}, NEW all, NEW r, all[r] \in Curve(n)
  PROVE  /\ RepairCoarse(all, r) \in Curve(n)
         /\ RepairCoarse(all, r)[1] = all[r][1] /\ RepairCoarse(all, r)[n] = all[r][n]
         /\ \A k \in 2..n : /\ RepairCoarse(all, r)[k - 1] < RepairCoarse(all, r)[k]
                            /\ all[r][k - 1] = all[r][k]
              => \E p \in Filled(all, r) : p[1] < k /\ k < p[2]
<1> DEFINE c == all[r]
           d == RepairCoarse(all, r)
           m == Masses(c)
           O == Occupied(m)
           filled == Filled(all, r)
           S(j, k) == SpreadMass(filled, m, j, k)
           T(k) == SumFunction([j \in O |-> S(j, k)])
<1>1. /\ c \in [1..n -> Int] /\ DOMAIN c = 1..n
      /\ \A k \in 1..n : c[k] \in Nat /\ c[k] <= Unit
      /\ \A k \in 2..n : c[k - 1] <= c[k]
  BY CurveFields
<1>2. /\ m \in [1..n -> Int] /\ DOMAIN m = 1..n /\ Len(m) = n /\ m[1] = c[1]
      /\ \A k \in 2..n : m[k] = c[k] - c[k - 1]
  BY <1>1, MassesOf
<1>3. \A k \in 2..n : m[k] \in Nat /\ (m[k] = 0 <=> c[k - 1] = c[k])
  <2> SUFFICES ASSUME NEW k \in 2..n PROVE m[k] \in Nat /\ (m[k] = 0 <=> c[k - 1] = c[k])
    OBVIOUS
  <2>1. k \in 1..n /\ k - 1 \in 1..n OBVIOUS
  <2>2. c[k] \in Nat /\ c[k - 1] \in Nat /\ c[k - 1] <= c[k] /\ m[k] = c[k] - c[k - 1]
    BY <1>1, <1>2, <2>1
  <2> QED BY <2>2
<1>4. O = {k \in 2..n : m[k] > 0} BY <1>2 DEF Occupied
<1>5. Gaps(filled, O) BY DEF Gaps, Filled, Fills
<1>6. CASE d = c
  <2>1. \A k \in 2..n : ~(d[k - 1] < d[k] /\ c[k - 1] = c[k])
    <3> SUFFICES ASSUME NEW k \in 2..n, d[k - 1] < d[k], c[k - 1] = c[k] PROVE FALSE OBVIOUS
    <3>1. k \in 1..n /\ k - 1 \in 1..n OBVIOUS
    <3> HIDE DEF c, d
    <3>2. c[k] \in Nat BY <1>1, <3>1
    <3> QED BY <1>6, <3>2
  <2> QED BY <1>6, <2>1
<1>7. CASE d # c
  <2>1. d = [k \in 1..n |-> m[1] + T(k)] BY <1>2, <1>7 DEF RepairCoarse
  <2>2. O \in SUBSET (2..n) /\ IsFiniteSet(O) BY <1>2, <1>3, <1>4, OccupiedHoldAll
  <2> HIDE DEF c, d, m, O, filled
  <2>3. ASSUME NEW j \in O
        PROVE  /\ \A k, i \in 1..n : k <= i =>
                    /\ S(j, k) \in Nat /\ S(j, i) \in Nat /\ S(j, k) <= S(j, i)
                    /\ S(j, k) # S(j, i) => /\ LeftEnd(filled, j) < 2 * i + 1
                                            /\ 2 * k + 1 < RightEnd(filled, j)
               /\ S(j, 1) = 0 /\ S(j, n) = m[j]
    <3> DEFINE L == LeftEnd(filled, j) R == RightEnd(filled, j) v == m[j]
    <3>1. /\ L \in Int /\ R \in Int /\ L < R /\ 3 <= L /\ R <= 2 * n + 1
      <4>1. n \in Nat /\ j \in Int /\ 2 <= j BY <2>2
      <4>2. /\ L \in Int /\ R \in Int /\ 3 <= L /\ L <= 2 * j - 1
            /\ 2 * j + 1 <= R /\ R <= 2 * n + 1
        BY <1>5, <2>2, <4>1, CellEnds
      <4> HIDE DEF L, R
      <4> QED BY <4>1, <4>2
    <3>2. v \in Nat BY <1>3, <2>2
    <3>3. \A k : S(j, k) = Part(v, k, L, R) BY DEF SpreadMass, Part
    <3> HIDE DEF L, R, v, S
    <3>4. ASSUME NEW k \in 1..n, NEW i \in 1..n, k <= i
          PROVE  /\ S(j, k) \in Nat /\ S(j, i) \in Nat /\ S(j, k) <= S(j, i)
                 /\ S(j, k) # S(j, i) => L < 2 * i + 1 /\ 2 * k + 1 < R
      <4> DEFINE a == k b == i
      <4>1. a \in Int /\ b \in Int /\ a <= b /\ b <= b BY <3>4
      <4> HIDE DEF a, b
      <4>2. Part(v, a, L, R) \in Nat /\ Part(v, a, L, R) <= Part(v, b, L, R)
        BY <3>1, <3>2, <4>1, SpreadRises
      <4>3. Part(v, a, L, R) # Part(v, b, L, R) => L < 2 * b + 1 /\ 2 * a + 1 < R
        BY <3>1, <3>2, <4>1, PartGrows
      <4>4. Part(v, b, L, R) \in Nat BY <3>1, <3>2, <4>1, SpreadRises
      <4> QED BY <3>3, <4>2, <4>3, <4>4 DEF a, b
    <3>5. S(j, 1) = 0
      <4> DEFINE a == 1
      <4>1. a \in Int /\ a <= a /\ 2 * a + 1 <= L BY <3>1
      <4> HIDE DEF a
      <4>2. Part(v, a, L, R) = 0 BY <3>1, <3>2, <4>1, NonePart
      <4> QED BY <3>3, <4>2 DEF a
    <3>6. S(j, n) = v
      <4>1. n \in Int /\ n <= n OBVIOUS
      <4>2. Part(v, n, L, R) = v BY <3>1, <3>2, <4>1, AllPart
      <4> QED BY <3>3, <4>2
    <3> QED BY <3>4, <3>5, <3>6 DEF L, R, v
  <2> HIDE DEF S
  <2>4. ASSUME NEW k \in 1..n
        PROVE  /\ T(k) = SumFunctionOnSet([j \in O |-> S(j, k)], O)
               /\ T(k) \in Nat
    <3> DEFINE f == [j \in O |-> S(j, k)]
    <3>1. T(k) = SumFunctionOnSet(f, O) BY DEF SumFunction
    <3>2. k <= k OBVIOUS
    <3>3. \A j \in O : f[j] \in Nat BY <2>3, <3>2
    <3> HIDE DEF f
    <3>4. SumFunctionOnSet(f, O) \in Nat BY <2>2, <3>3, SumMonotone
    <3> HIDE DEF T
    <3> QED BY <3>1, <3>4 DEF f
  <2> HIDE DEF T
  <2>5. ASSUME NEW k \in 1..n, NEW i \in 1..n, k <= i PROVE T(k) <= T(i)
    <3> DEFINE f == [j \in O |-> S(j, k)] h == [j \in O |-> S(j, i)]
    <3>1. \A j \in O : f[j] \in Int /\ h[j] \in Int /\ f[j] <= h[j] BY <2>3, <2>5
    <3>2. T(k) = SumFunctionOnSet(f, O) /\ T(i) = SumFunctionOnSet(h, O) BY <2>4
    <3> HIDE DEF f, h
    <3>3. SumFunctionOnSet(f, O) <= SumFunctionOnSet(h, O) BY <2>2, <3>1, SumBelow
    <3> QED BY <3>2, <3>3
  <2>6. T(1) = 0
    <3> DEFINE f == [j \in O |-> S(j, 1)]
    <3>1. 1 \in 1..n /\ 0 \in Int OBVIOUS
    <3>2. T(1) = SumFunctionOnSet(f, O) BY <2>4, <3>1
    <3>3. \A j \in O : f[j] = 0 BY <2>3
    <3> HIDE DEF f
    <3>4. Cardinality(O) \in Nat /\ SumFunctionOnSet(f, O) = 0 * Cardinality(O)
      BY <2>2, <3>1, <3>3, SumAlike
    <3> QED BY <3>2, <3>4
  <2>7. T(n) = c[n] - c[1]
    <3> DEFINE f == [j \in O |-> S(j, n)]
    <3>1. n \in 1..n OBVIOUS
    <3>2. T(n) = SumFunctionOnSet(f, O) BY <2>4, <3>1
    <3>3. \A j \in O : f[j] = m[j] /\ m[j] \in Int BY <1>3, <2>2, <2>3
    <3> HIDE DEF f
    <3>4. SumFunctionOnSet(f, O) = SumFunctionOnSet(m, O) BY <2>2, <3>3, SumSame
    <3>5. SumFunctionOnSet(m, O) = SumFunctionOnSet(m, 2..n)
      BY <1>3, <1>4, OccupiedHoldAll
    <3>6. SumFunctionOnSet(m, 2..n) = c[n] - c[1] BY <1>1, <1>2, <3>1, MassesAddUp
    <3> QED BY <3>2, <3>4, <3>5, <3>6
  <2>8. c[1] \in Nat /\ c[n] \in Nat /\ c[n] <= Unit /\ m[1] = c[1]
    <3>1. 1 \in 1..n /\ n \in 1..n OBVIOUS
    <3> QED BY <1>1, <1>2, <3>1
  <2>9. \A k \in 1..n : d[k] = c[1] + T(k) BY <2>1, <2>8
  <2>10. d[1] = c[1] /\ d[n] = c[n]
    <3>1. 1 \in 1..n /\ n \in 1..n OBVIOUS
    <3> QED BY <2>6, <2>7, <2>8, <2>9, <3>1
  <2>11. d \in Curve(n)
    <3>1. d \in [1..n -> Int]
      <4>1. d = [k \in 1..n |-> d[k]] BY <2>1
      <4>2. ASSUME NEW k \in 1..n PROVE d[k] \in Int
        <5>1. T(k) \in Nat /\ d[k] = c[1] + T(k) BY <2>4, <2>9
        <5> QED BY <2>8, <5>1
      <4> QED BY <4>1, <4>2
    <3>2. \A k, j \in 1..n : j <= k => d[j] <= d[k]
      <4> SUFFICES ASSUME NEW k \in 1..n, NEW j \in 1..n, j <= k PROVE d[j] <= d[k] OBVIOUS
      <4>1. T(j) <= T(k) /\ T(j) \in Nat /\ T(k) \in Nat BY <2>4, <2>5
      <4> QED BY <2>8, <2>9, <4>1
    <3>3. \A k \in 1..n : 0 <= d[k] /\ d[k] <= Unit
      <4> SUFFICES ASSUME NEW k \in 1..n PROVE 0 <= d[k] /\ d[k] <= Unit OBVIOUS
      <4>1. n \in 1..n /\ k <= n OBVIOUS
      <4>2. d[k] <= d[n] BY <3>2, <4>1
      <4>3. T(k) \in Nat /\ d[k] = c[1] + T(k) BY <2>4, <2>9
      <4> QED BY <2>8, <2>10, <4>2, <4>3
    <3> HIDE DEF Unit
    <3> QED BY <3>1, <3>2, <3>3, RisesAlongGrid
  <2>12. ASSUME NEW k \in 2..n, d[k - 1] < d[k], c[k - 1] = c[k]
         PROVE  \E p \in filled : p[1] < k /\ k < p[2]
    <3> DEFINE i == k - 1
    <3>1. k \in 1..n /\ i \in 1..n /\ i <= k /\ k \in Int /\ 2 * i + 1 = 2 * k - 1 OBVIOUS
    <3>2. k \notin O
      <4>1. m[k] = 0 BY <1>3, <2>12
      <4> QED BY <1>4, <4>1
    <3>3. T(i) < T(k)
      <4>1. d[i] = c[1] + T(i) /\ d[k] = c[1] + T(k) /\ T(i) \in Nat /\ T(k) \in Nat
        BY <2>4, <2>9, <3>1
      <4> QED BY <2>8, <2>12, <4>1
    <3> HIDE DEF i
    <3>4. \E j \in O : S(j, i) # S(j, k)
      <4> SUFFICES ASSUME \A j \in O : S(j, i) = S(j, k) PROVE FALSE OBVIOUS
      <4> DEFINE f == [j \in O |-> S(j, i)] h == [j \in O |-> S(j, k)]
      <4>1. f = h OBVIOUS
      <4>2. T(i) = SumFunctionOnSet(f, O) /\ T(k) = SumFunctionOnSet(h, O) BY <2>4, <3>1
      <4>3. T(i) \in Nat BY <2>4, <3>1
      <4> HIDE DEF f, h
      <4> QED BY <3>3, <4>1, <4>2, <4>3
    <3>5. PICK j \in O : S(j, i) # S(j, k) BY <3>4
    <3>6. LeftEnd(filled, j) < 2 * k + 1 /\ 2 * k - 1 < RightEnd(filled, j)
      BY <2>3, <3>1, <3>5
    <3>7. j \in Int /\ j # k BY <2>2, <3>2
    <3> DEFINE L == LeftEnd(filled, j) R == RightEnd(filled, j)
    <3>8. /\ L \in Int /\ R \in Int
          /\ L # 2 * j - 1 => \E p \in filled : p[2] = j /\ L = p[1] + j
          /\ R # 2 * j + 1 => \E p \in filled : p[1] = j /\ R = j + p[2]
      <4>1. n \in Nat OBVIOUS
      <4> QED BY <1>5, <2>2, <4>1, CellEnds
    <3>9. L < 2 * k + 1 /\ 2 * k - 1 < R BY <3>6
    <3> HIDE DEF L, R
    <3>10. CASE k < j
      <4>1. L # 2 * j - 1 BY <3>1, <3>7, <3>9, <3>10
      <4>2. PICK p \in filled : p[2] = j /\ L = p[1] + j BY <3>8, <4>1
      <4>3. p[1] \in Int
        <5>1. n \in Nat OBVIOUS
        <5> QED BY <1>5, <2>2, <5>1, GapFields
      <4>4. p[1] < k BY <3>1, <3>7, <3>9, <3>10, <4>2, <4>3
      <4> QED BY <3>10, <4>2, <4>4
    <3>11. CASE j < k
      <4>1. R # 2 * j + 1 BY <3>1, <3>7, <3>9, <3>11
      <4>2. PICK p \in filled : p[1] = j /\ R = j + p[2] BY <3>8, <4>1
      <4>3. p[2] \in Int
        <5>1. n \in Nat OBVIOUS
        <5> QED BY <1>5, <2>2, <5>1, GapFields
      <4>4. k < p[2] BY <3>1, <3>7, <3>9, <3>11, <4>2, <4>3
      <4> QED BY <3>11, <4>2, <4>4
    <3> QED BY <3>1, <3>7, <3>10, <3>11
  <2> QED BY <2>10, <2>11, <2>12 DEF c, d, filled
<1> QED BY <1>6, <1>7

(***************************************************************************)
(* The average of the runs.                                                *)
(***************************************************************************)
\* The runs that are kept have curves of n points and weights.
Ready(n) == /\ Kept # {} /\ IsFiniteSet(Kept)
            /\ \A r \in Kept : curves[r] \in Curve(n) /\ replies[r].weight \in Nat \ {0}

LEMMA WeightsAdd ==
  ASSUME NEW n, Ready(n), NEW S \in SUBSET Kept
  PROVE  /\ IsFiniteSet(S)
         /\ SumFunctionOnSet([r \in S |-> replies[r].weight], S) \in Nat
         /\ S # {} => SumFunctionOnSet([r \in S |-> replies[r].weight], S) > 0
<1> DEFINE w == [r \in S |-> replies[r].weight]
           W == SumFunctionOnSet(w, S)
<1>1. IsFiniteSet(S) BY FS_Subset DEF Ready
<1>2. \A r \in S : w[r] \in Nat /\ w[r] > 0 BY DEF Ready
<1> HIDE DEF w
<1>3. W \in Nat BY <1>1, <1>2, SumMonotone
<1>4. ASSUME S # {} PROVE W > 0
  <2>1. PICK r \in S : TRUE BY <1>4
  <2>2. w[r] <= W
    <3> HIDE DEF W
    <3>1. \A s \in S : w[s] \in Nat BY <1>2
    <3> QED BY <1>1, <3>1, PartBelowSum DEF W
  <2> QED BY <1>2, <1>3, <2>1, <2>2
<1> QED BY <1>1, <1>3, <1>4 DEF w

LEMMA WeightSumIsPositive == ASSUME NEW n, Ready(n) PROVE WeightSum \in Nat \ {0}
<1>1. Kept # {} /\ Kept \in SUBSET Kept BY DEF Ready
<1>2. WeightSum = SumFunctionOnSet([r \in Kept |-> replies[r].weight], Kept)
  BY DEF WeightSum, SumFunction
<1> HIDE DEF Kept
<1> QED BY <1>1, <1>2, WeightsAdd

\* The mean of what the kept runs say lies between them ...
LEMMA AverageWithin ==
  ASSUME NEW n, Ready(n), NEW x, NEW lo \in Int, NEW hi \in Int,
         \A r \in Kept : x[r] \in Int /\ lo <= x[r] /\ x[r] <= hi
  PROVE  Average(x) \in Int /\ lo <= Average(x) /\ Average(x) <= hi
<1> DEFINE K == Kept
           w == [r \in K |-> replies[r].weight]
           p == [r \in K |-> replies[r].weight * x[r]]
           W == SumFunctionOnSet(w, K)
<1>1. Average(x) = SumFunctionOnSet(p, K) \div W BY DEF Average, WeightSum, SumFunction
<1>2. IsFiniteSet(K) BY DEF Ready
<1>3. \A r \in K : w[r] \in Nat /\ x[r] \in Int /\ p[r] = w[r] * x[r] BY DEF Ready
<1>4. \A r \in K : lo <= x[r] /\ x[r] <= hi OBVIOUS
<1>5. W > 0
  <2>1. W = WeightSum BY DEF WeightSum, SumFunction
  <2> QED BY <2>1, WeightSumIsPositive
<1>6. W = SumFunctionOnSet(w, K) OBVIOUS
<1> HIDE DEF K, w, p, W
<1>7. /\ SumFunctionOnSet(p, K) \div W \in Int
      /\ lo <= SumFunctionOnSet(p, K) \div W
      /\ SumFunctionOnSet(p, K) \div W <= hi
  BY <1>2, <1>3, <1>4, <1>5, <1>6, MeanWithin
<1> QED BY <1>1, <1>7

\* ... and grows with it.
LEMMA AverageGrows ==
  ASSUME NEW n, Ready(n), NEW x, NEW y,
         \A r \in Kept : x[r] \in Int /\ y[r] \in Int /\ x[r] <= y[r]
  PROVE  Average(x) <= Average(y)
<1> DEFINE K == Kept
           w == [r \in K |-> replies[r].weight]
           p == [r \in K |-> replies[r].weight * x[r]]
           q == [r \in K |-> replies[r].weight * y[r]]
           W == WeightSum
<1>1. Average(x) = SumFunctionOnSet(p, K) \div W /\ Average(y) = SumFunctionOnSet(q, K) \div W
  BY DEF Average, SumFunction
<1>2. IsFiniteSet(K) /\ W \in Nat \ {0} BY WeightSumIsPositive DEF Ready
<1>3. \A r \in K : w[r] \in Nat /\ x[r] \in Int /\ y[r] \in Int BY DEF Ready
<1>4. \A r \in K : p[r] = w[r] * x[r] /\ q[r] = w[r] * y[r] OBVIOUS
<1>5. \A r \in K : x[r] <= y[r] OBVIOUS
<1> HIDE DEF K, w, p, q, W
<1>6. SumFunctionOnSet(p, K) \div W <= SumFunctionOnSet(q, K) \div W
  BY <1>2, <1>3, <1>4, <1>5, MeanGrows
<1> QED BY <1>1, <1>6

LEMMA AverageSame ==
  ASSUME NEW x, NEW y, \A r \in Kept : x[r] = y[r] PROVE Average(x) = Average(y)
<1>1. [r \in Kept |-> replies[r].weight * x[r]] = [r \in Kept |-> replies[r].weight * y[r]]
  OBVIOUS
<1> QED BY <1>1 DEF Average

\* What is missing to u on average is, but for rounding, what the average misses.
LEMMA AverageOfRest ==
  ASSUME NEW n, Ready(n), NEW u \in Int, NEW x, NEW y,
         \A r \in Kept : x[r] \in Int /\ y[r] = u - x[r]
  PROVE  /\ Average(x) \in Int /\ Average(y) \in Int
         /\ u - Average(x) \in {Average(y), Average(y) + 1}
<1> DEFINE K == Kept
           w == [r \in K |-> replies[r].weight]
           p == [r \in K |-> replies[r].weight * x[r]]
           q == [r \in K |-> replies[r].weight * y[r]]
           s == [r \in K |-> p[r] + q[r]]
           W == WeightSum
           P == SumFunctionOnSet(p, K)
           Q == SumFunctionOnSet(q, K)
           a == P \div W
           b == Q \div W
<1>1. Average(x) = a /\ Average(y) = b BY DEF Average, SumFunction
<1>2. IsFiniteSet(K) /\ W \in Nat \ {0} BY WeightSumIsPositive DEF Ready
<1>3. \A r \in K : w[r] \in Int /\ p[r] \in Int /\ q[r] \in Int
  <2> SUFFICES ASSUME NEW r \in K PROVE w[r] \in Int /\ p[r] \in Int /\ q[r] \in Int OBVIOUS
  <2>1. replies[r].weight \in Int /\ x[r] \in Int /\ y[r] \in Int BY DEF Ready
  <2> QED BY <2>1
<1>4. \A r \in K : s[r] = u * w[r] /\ s[r] = p[r] + q[r]
  <2> SUFFICES ASSUME NEW r \in K PROVE s[r] = u * w[r] OBVIOUS
  <2> DEFINE v == replies[r].weight e == x[r]
  <2>1. v \in Int /\ e \in Int /\ y[r] = u - e BY DEF Ready
  <2>2. s[r] = v * e + v * (u - e) /\ w[r] = v BY <2>1
  <2> HIDE DEF v, e, s, w
  <2>3. v * e + v * (u - e) = u * v BY <2>1
  <2> QED BY <2>2, <2>3
<1>5. W = SumFunctionOnSet(w, K) BY DEF WeightSum, SumFunction
<1> HIDE DEF K, w, p, q, s, W
<1>6. P \in Int /\ Q \in Int BY <1>2, <1>3, SumType
<1>7. P + Q = u * W
  <2>1. SumFunctionOnSet(s, K) = P + Q BY <1>2, <1>3, <1>4, SumPlus
  <2>2. SumFunctionOnSet(s, K) = u * SumFunctionOnSet(w, K)
    <3>1. \A r \in K : w[r] \in Int BY <1>3
    <3> QED BY <1>2, <1>4, <3>1, SumTimes
  <2> QED BY <1>5, <2>1, <2>2
<1> HIDE DEF P, Q
<1>8. a \in Int /\ W * a <= P /\ P < W * a + W BY <1>2, <1>6, Quotient
<1>9. b \in Int BY <1>2, <1>6, Quotient
<1> HIDE DEF a
<1>10. u - a - 1 <= b
  <2>1. u - a - 1 \in Int BY <1>8
  <2>2. W * (u - a - 1) <= Q
    <3>1. W * (u - a - 1) = u * W - (W * a + W) BY <1>2, <1>8
    <3>2. W * a \in Int /\ u * W \in Int BY <1>2, <1>8
    <3> QED BY <1>2, <1>6, <1>7, <1>8, <3>1, <3>2
  <2> QED BY <1>2, <1>6, <2>1, <2>2, QuotientAbove
<1>11. b <= u - a
  <2>1. u - a \in Int BY <1>8
  <2>2. Q <= W * (u - a)
    <3>1. W * (u - a) = u * W - W * a BY <1>2, <1>8
    <3>2. W * a \in Int /\ u * W \in Int BY <1>2, <1>8
    <3> QED BY <1>2, <1>6, <1>7, <1>8, <3>1, <3>2
  <2> QED BY <1>2, <1>6, <2>1, <2>2, QuotientBelow
<1> HIDE DEF b
<1>12. u - a = b \/ u - a = b + 1 BY <1>8, <1>9, <1>10, <1>11
<1> QED BY <1>1, <1>8, <1>9, <1>12

\* The highest level whose position is reached.
Reached(N, pos, t) == Max({0} \cup {l \in 0..N : pos[l] <= t})

LEMMA ReachedRises ==
  ASSUME NEW N \in Nat, NEW pos, \A l \in 0..N : pos[l] \in Nat, NEW s \in Int, NEW t \in Int, s <= t
  PROVE  /\ Reached(N, pos, s) \in Nat /\ Reached(N, pos, s) <= N
         /\ Reached(N, pos, s) <= Reached(N, pos, t)
         /\ Reached(N, pos, s) # 0 =>
              \E l \in 1..N : pos[l] <= s
<1> DEFINE A == {0} \cup {l \in 0..N : pos[l] <= s}
           B == {0} \cup {l \in 0..N : pos[l] <= t}
<1>1. IsFiniteSet(0..N)
  <2>1. 0 \in Int /\ N \in Int OBVIOUS
  <2> QED BY <2>1, FS_Interval
<1>2. A \subseteq 0..N /\ B \subseteq 0..N /\ A \in SUBSET Nat /\ B \in SUBSET Nat OBVIOUS
<1>3. A # {} /\ B # {} OBVIOUS
<1>4. A \subseteq B OBVIOUS
<1>5. \A l \in A : l # 0 => l \in 1..N /\ pos[l] <= s OBVIOUS
<1>6. Reached(N, pos, s) = Max(A) /\ Reached(N, pos, t) = Max(B) BY DEF Reached
<1> HIDE DEF A, B
<1>7. IsFiniteSet(A) /\ IsFiniteSet(B) BY <1>1, <1>2, FS_Subset
<1>8. Max(A) \in A BY <1>2, <1>3, <1>7, MaxIsIn
<1>9. \A l \in B : l <= Max(B) BY <1>2, <1>3, <1>7, MaxIsIn
<1>10. Max(A) \in 0..N /\ Max(A) <= Max(B) BY <1>2, <1>4, <1>8, <1>9
<1>11. Max(A) # 0 => \E l \in 1..N : pos[l] <= s BY <1>5, <1>8
<1> QED BY <1>6, <1>10, <1>11

\* Where a curve with a shape reaches a level: beyond all that is as low as its start.
LEMMA PositionIn ==
  ASSUME Unit \in Nat, NEW n \in Nat \ {0}, NEW r, curves[r] \in Curve(n),
         curves[r][1] < curves[r][n], NEW l \in 0..(4 * n)
  PROVE  /\ Position(r, l) \in 1..n
         /\ l > 0 => \A k \in 1..n : curves[r][k] = curves[r][1] => k < Position(r, l)
<1> DEFINE c == curves[r]
           d == c[n] - c[1]
           A == {k \in 1..n : c[k] = c[1]}
           B == {k \in 1..n : 4 * n * (c[k] - c[1]) >= l * d}
<1>1. /\ Len(c) = n /\ \A k \in 1..n : c[k] \in Nat
      /\ \A j, k \in 1..n : j <= k => c[j] <= c[k]
  BY CurveFields
<1>2. Position(r, l) = IF l = 0 THEN Max(A) ELSE Min(B) BY <1>1 DEF Position
<1>3. 1 \in 1..n /\ n \in 1..n /\ l \in Nat /\ l <= 4 * n OBVIOUS
<1>4. IsFiniteSet(1..n)
  <2>1. 1 \in Int /\ n \in Int OBVIOUS
  <2> QED BY <2>1, FS_Interval
<1>5. Max(A) \in 1..n
  <2>1. A \subseteq 1..n /\ A \in SUBSET Nat /\ 1 \in A BY <1>3
  <2> HIDE DEF A
  <2>2. IsFiniteSet(A) /\ A # {} BY <1>4, <2>1, FS_Subset
  <2> QED BY <2>1, <2>2, MaxIsIn
<1> HIDE DEF c
<1>6. d \in Nat /\ d > 0
  <2>1. c[1] < c[n] BY DEF c
  <2> QED BY <1>1, <1>3, <2>1
<1>7. Min(B) \in B
  <2>1. n \in B
    <3>1. l * d <= 4 * n * d
      <4> DEFINE f == 4 * n
      <4>1. f \in Int /\ l <= f /\ l \in Int BY <1>3
      <4> HIDE DEF d, f
      <4>2. l * d <= f * d BY <1>6, <4>1, ProductGrows
      <4> QED BY <4>2 DEF f
    <3>2. l * d \in Int /\ 4 * n * d \in Int BY <1>3, <1>6
    <3> QED BY <1>3, <3>1, <3>2
  <2>2. B \in SUBSET Nat OBVIOUS
  <2> HIDE DEF B
  <2> QED BY <2>1, <2>2, MinIsIn
<1>8. ASSUME l > 0, NEW k \in 1..n, c[k] = c[1] PROVE k < Min(B)
  <2> DEFINE p == Min(B)
  <2>1. p \in 1..n /\ 4 * n * (c[p] - c[1]) >= l * d BY <1>7
  <2> HIDE DEF p
  <2>2. SUFFICES ASSUME p <= k PROVE FALSE BY <2>1 DEF p
  <2>3. c[1] <= c[p] /\ c[p] <= c[k] BY <1>1, <1>3, <2>1, <2>2
  <2>4. c[p] \in Nat /\ c[1] \in Nat BY <1>1, <1>3, <2>1
  <2>5. c[p] - c[1] = 0 BY <1>8, <2>3, <2>4
  <2>6. l * d > 0
    <3> HIDE DEF d
    <3>1. 1 * d <= l * d
      <4>1. 1 <= l /\ 1 \in Int /\ l \in Int BY <1>3, <1>8
      <4> QED BY <1>6, <4>1, ProductGrows
    <3>2. l * d \in Int BY <1>3, <1>6
    <3> QED BY <1>6, <3>1, <3>2
  <2>7. 4 * n * (c[p] - c[1]) = 0 BY <2>5
  <2>8. l * d \in Int BY <1>3, <1>6
  <2> QED BY <2>1, <2>6, <2>7, <2>8
<1>9. Min(B) \in 1..n BY <1>7
<1> HIDE DEF A, B
<1> QED BY <1>2, <1>3, <1>5, <1>8, <1>9 DEF c

\* What ends higher than it starts rises somewhere.
LEMMA RisesSomewhere ==
  ASSUME NEW n \in Nat \ {0}, NEW c, \A i \in 1..n : c[i] \in Int, NEW k \in 1..n, c[1] < c[k]
  PROVE  \E j \in 2..k : c[j - 1] < c[j]
<1> SUFFICES ASSUME \A j \in 2..k : ~(c[j - 1] < c[j]) PROVE FALSE OBVIOUS
<1> DEFINE d == [i \in 1..k |-> -c[i]]
<1>1. k \in Nat \ {0} /\ 1 \in 1..k /\ k \in 1..k OBVIOUS
<1>2. \A i \in 1..k : i \in 1..n OBVIOUS
<1>3. \A i \in 1..k : c[i] \in Int /\ d[i] = -c[i] BY <1>2
<1>4. d \in [1..k -> Int] BY <1>3
<1> HIDE DEF d
<1>5. ASSUME NEW i \in 2..k PROVE d[i - 1] <= d[i]
  <2>1. i \in 1..k /\ i - 1 \in 1..k BY <1>1
  <2>2. ~(c[i - 1] < c[i]) OBVIOUS
  <2>3. c[i] \in Int /\ c[i - 1] \in Int /\ d[i] = -c[i] /\ d[i - 1] = -c[i - 1] BY <1>3, <2>1
  <2> QED BY <2>2, <2>3
<1>6. d[1] <= d[k]
  <2> DEFINE a == 1
  <2>1. a \in 1..k /\ a <= k BY <1>1
  <2> HIDE DEF a
  <2>2. d[a] <= d[k] BY <1>1, <1>4, <1>5, <2>1, CurveRises
  <2> QED BY <2>2 DEF a
<1>7. c[1] \in Int /\ c[k] \in Int /\ d[1] = -c[1] /\ d[k] = -c[k] BY <1>1, <1>3
<1> QED BY <1>6, <1>7

(***************************************************************************)
(* The average of the shapes, in quarters of a bin.                        *)
(***************************************************************************)
ShapedWeight == SumFunction([r \in Shaped |-> replies[r].weight])
ShapedAt(l) == SumFunction([r \in Shaped |-> replies[r].weight * Position(r, l)])
ShapeAt(n, k) ==
  IF k = 1 THEN 0
  ELSE IF Shaped = {} THEN (4 * n * (k - 1)) \div (n - 1)
  ELSE IF k = n THEN 4 * n
  ELSE Reached(4 * n, [l \in 0..(4 * n) |-> ShapedAt(l)], k * ShapedWeight)

LEMMA ShapedFields ==
  ASSUME Unit \in Nat, NEW n \in Nat \ {0}, Ready(n), NEW r \in Shaped
  PROVE  /\ r \in Kept /\ curves[r] \in Curve(n) /\ curves[r][1] < curves[r][n]
         /\ replies[r].weight \in Nat \ {0}
<1>1. r \in Kept /\ curves[r][Len(curves[r])] > curves[r][1] BY DEF Shaped
<1>2. curves[r] \in Curve(n) /\ replies[r].weight \in Nat \ {0} BY <1>1 DEF Ready
<1>3. Len(curves[r]) = n BY <1>2, CurveFields
<1>4. curves[r][1] \in Nat /\ curves[r][n] \in Nat
  <2>1. 1 \in 1..n /\ n \in 1..n OBVIOUS
  <2> QED BY <1>2, <2>1, CurveFields
<1> QED BY <1>1, <1>2, <1>3, <1>4

\* The positions are between the least and the most of the runs' positions.
LEMMA ShapedAtWithin ==
  ASSUME Unit \in Nat, NEW n \in Nat \ {0}, Ready(n), Shaped # {}, NEW l \in 0..(4 * n),
         NEW m \in Int, \A r \in Shaped : m <= Position(r, l)
  PROVE  /\ ShapedWeight \in Nat \ {0} /\ ShapedAt(l) \in Nat
         /\ ShapedWeight * m <= ShapedAt(l)
<1> DEFINE S == Shaped
           w == [r \in S |-> replies[r].weight]
           v == [r \in S |-> Position(r, l)]
           p == [r \in S |-> replies[r].weight * Position(r, l)]
           W == SumFunctionOnSet(w, S)
<1>1. ShapedWeight = W /\ ShapedAt(l) = SumFunctionOnSet(p, S)
  BY DEF ShapedWeight, ShapedAt, SumFunction
<1>2. S \in SUBSET Kept BY DEF Shaped
<1>3. IsFiniteSet(S) /\ W \in Nat /\ W > 0
  <2>1. S # {} OBVIOUS
  <2> HIDE DEF S
  <2> QED BY <1>2, <2>1, WeightsAdd
<1>4. ASSUME NEW r \in S
      PROVE  /\ w[r] \in Nat /\ v[r] \in Int /\ p[r] = w[r] * v[r] /\ p[r] \in Nat
             /\ m <= v[r] /\ v[r] <= n
  <2>1. curves[r] \in Curve(n) /\ curves[r][1] < curves[r][n] /\ replies[r].weight \in Nat \ {0}
    BY ShapedFields
  <2>2. Position(r, l) \in 1..n BY <2>1, PositionIn
  <2>3. Position(r, l) \in Nat /\ Position(r, l) <= n BY <2>2
  <2>4. replies[r].weight * Position(r, l) \in Nat BY <2>1, <2>3
  <2>5. m <= Position(r, l) OBVIOUS
  <2> QED BY <2>1, <2>3, <2>4, <2>5
<1> HIDE DEF S, w, v, p
<1>5. SumFunctionOnSet(p, S) \in Nat
  <2>1. \A r \in S : p[r] \in Nat BY <1>4
  <2> QED BY <1>3, <2>1, SumMonotone
<1>6. W * m <= SumFunctionOnSet(p, S)
  <2>1. \A r \in S : w[r] \in Nat /\ v[r] \in Int /\ p[r] = w[r] * v[r] BY <1>4
  <2>2. \A r \in S : m <= v[r] /\ v[r] <= n BY <1>4
  <2>3. W = SumFunctionOnSet(w, S) /\ n \in Int OBVIOUS
  <2> HIDE DEF W
  <2> QED BY <1>3, <2>1, <2>2, <2>3, MeanWithin
<1> QED BY <1>1, <1>3, <1>5, <1>6

LEMMA ShapeRises ==
  ASSUME Unit \in Nat, NEW n \in Nat, n >= 2, Ready(n), NEW k \in 1..n
  PROVE  /\ ShapeAt(n, k) \in Nat /\ ShapeAt(n, k) <= 4 * n
         /\ \A j \in 1..n : j <= k => ShapeAt(n, j) <= ShapeAt(n, k)
<1> DEFINE N == 4 * n
           pos == [l \in 0..N |-> ShapedAt(l)]
           W == ShapedWeight
           f(i) == (N * (i - 1)) \div (n - 1)
<1>1. N \in Nat /\ n - 1 \in Nat \ {0} OBVIOUS
<1>2. ASSUME NEW i \in 1..n, NEW j \in 1..n, j <= i
      PROVE  f(i) \in Nat /\ f(i) <= N /\ f(j) <= f(i)
  <2> DEFINE a == N * (i - 1) b == N * (j - 1) d == n - 1
  <2>1. a \in Nat /\ a \in Int /\ b \in Int /\ b <= a /\ a <= d * N
    <3>1. i - 1 \in Nat /\ j - 1 \in Nat /\ j - 1 <= i - 1 /\ i - 1 <= d /\ d \in Nat BY <1>2
    <3> HIDE DEF N
    <3>2. b <= a BY <1>1, <3>1, ProductGrows
    <3>3. N * (i - 1) <= N * d
      <4> HIDE DEF d
      <4> QED BY <1>1, <3>1, ProductGrows
    <3>4. N * d = d * N /\ a \in Nat /\ b \in Nat BY <1>1, <3>1
    <3> QED BY <3>2, <3>3, <3>4
  <2>2. d \in Nat \ {0} /\ N \in Int BY <1>1
  <2> HIDE DEF a, b, d, N
  <2>3. a \div d \in Nat BY <2>1, <2>2, QuotientNatural
  <2>4. a \div d <= N BY <2>1, <2>2, QuotientBelow
  <2>5. b \div d <= a \div d BY <2>1, <2>2, QuotientGrows
  <2> QED BY <2>3, <2>4, <2>5 DEF a, b, d
<1>3. \A i : ShapeAt(n, i) = IF i = 1 THEN 0 ELSE IF Shaped = {} THEN f(i)
                             ELSE IF i = n THEN N ELSE Reached(N, pos, i * W)
  BY DEF ShapeAt
<1>4. CASE Shaped = {}
  <2>1. \A i, j \in 1..n : j <= i => f(i) \in Nat /\ f(i) <= N /\ f(j) <= f(i) BY <1>2
  <2>2. k <= k OBVIOUS
  <2>3. f(k) \in Nat /\ f(k) <= N BY <2>1, <2>2
  <2> HIDE DEF f, N
  <2>4. ShapeAt(n, k) \in Nat /\ ShapeAt(n, k) <= N BY <1>1, <1>3, <1>4, <2>3
  <2>5. ASSUME NEW j \in 1..n, j <= k PROVE ShapeAt(n, j) <= ShapeAt(n, k)
    <3>1. CASE j = 1
      <4>1. ShapeAt(n, j) = 0 BY <1>3, <3>1
      <4> QED BY <2>4, <4>1
    <3>2. CASE j # 1
      <4>1. k # 1 BY <2>5, <3>2
      <4>2. ShapeAt(n, j) = f(j) /\ ShapeAt(n, k) = f(k) BY <1>3, <1>4, <3>2, <4>1
      <4> QED BY <2>1, <2>5, <4>2
    <3> QED BY <3>1, <3>2
  <2> QED BY <2>4, <2>5 DEF N
<1>5. CASE Shaped # {}
  <2>1. W \in Nat \ {0} /\ \A l \in 0..N : pos[l] \in Nat
    <3>1. n \in Nat \ {0} OBVIOUS
    <3>2. ASSUME NEW l \in 0..N PROVE W \in Nat \ {0} /\ pos[l] \in Nat
      <4>1. \A r \in Shaped : Position(r, l) \in 1..n BY <3>1, ShapedFields, PositionIn
      <4>2. 1 \in Int /\ \A r \in Shaped : 1 <= Position(r, l) BY <4>1
      <4> QED BY <1>5, <3>1, <4>2, ShapedAtWithin
    <3>3. 0 \in 0..N BY <1>1
    <3> QED BY <3>2, <3>3
  <2> HIDE DEF pos, W, N, f
  <2>2. ASSUME NEW i \in 1..n, NEW j \in 1..n, j <= i
        PROVE  /\ Reached(N, pos, i * W) \in Nat /\ Reached(N, pos, i * W) <= N
               /\ Reached(N, pos, j * W) <= Reached(N, pos, i * W)
    <3> DEFINE s == j * W t == i * W
    <3>1. s \in Int /\ t \in Int BY <2>1
    <3>2. s <= t /\ t <= t
      <4>1. i \in Int /\ j \in Int OBVIOUS
      <4>2. j * W <= i * W BY <2>1, <2>2, <4>1, ProductGrows
      <4> QED BY <3>1, <4>2
    <3> HIDE DEF s, t
    <3>3. Reached(N, pos, t) \in Nat /\ Reached(N, pos, t) <= N
      BY <1>1, <2>1, <3>1, <3>2, ReachedRises
    <3>4. Reached(N, pos, s) <= Reached(N, pos, t)
      BY <1>1, <2>1, <3>1, <3>2, ReachedRises
    <3> QED BY <3>3, <3>4 DEF s, t
  <2>3. \A i \in 1..n : ShapeAt(n, i) \in Nat /\ ShapeAt(n, i) <= N
    <3> SUFFICES ASSUME NEW i \in 1..n PROVE ShapeAt(n, i) \in Nat /\ ShapeAt(n, i) <= N
      OBVIOUS
    <3>1. i <= i OBVIOUS
    <3>2. Reached(N, pos, i * W) \in Nat /\ Reached(N, pos, i * W) <= N BY <2>2, <3>1
    <3> QED BY <1>1, <1>3, <1>5, <3>2
  <2>4. ASSUME NEW j \in 1..n, j <= k PROVE ShapeAt(n, j) <= ShapeAt(n, k)
    <3>1. CASE j = 1
      <4>1. ShapeAt(n, j) = 0 BY <1>3, <3>1
      <4> QED BY <2>3, <4>1
    <3>2. CASE k = n /\ j # 1
      <4>1. ShapeAt(n, k) = N BY <1>3, <1>5, <2>4, <3>2
      <4> QED BY <2>3, <4>1
    <3>3. CASE k # n /\ j # 1
      <4>1. k # 1 /\ j # n BY <2>4, <3>3
      <4>2. ShapeAt(n, j) = Reached(N, pos, j * W) /\ ShapeAt(n, k) = Reached(N, pos, k * W)
        BY <1>3, <1>5, <3>3, <4>1
      <4> QED BY <2>2, <2>4, <4>2
    <3> QED BY <3>1, <3>2, <3>3
  <2> QED BY <2>3, <2>4 DEF N
<1> QED BY <1>4, <1>5

\* Where the shape has risen, one of the runs has.
LEMMA ShapeFollowsRuns ==
  ASSUME Unit \in Nat, NEW n \in Nat, n >= 2, Ready(n), Shaped # {}, NEW k \in 2..n,
         ShapeAt(n, k) # 0
  PROVE  \E r \in Shaped : curves[r][1] < curves[r][k]
<1> DEFINE N == 4 * n
           pos == [l \in 0..N |-> ShapedAt(l)]
           W == ShapedWeight
<1> SUFFICES ASSUME \A r \in Shaped : ~(curves[r][1] < curves[r][k]) PROVE FALSE OBVIOUS
<1>1. n \in Nat \ {0} /\ N \in Nat /\ k \in 1..n OBVIOUS
<1>2. ASSUME NEW r \in Shaped
      PROVE  /\ curves[r] \in Curve(n) /\ curves[r][1] < curves[r][n]
             /\ curves[r][k] = curves[r][1]
  <2> DEFINE c == curves[r]
  <2>1. c \in Curve(n) /\ c[1] < c[n] BY <1>1, ShapedFields
  <2>2. 1 \in 1..n /\ 1 <= k BY <1>1
  <2>3. ~(c[1] < c[k]) OBVIOUS
  <2> HIDE DEF c
  <2>4. c[1] \in Nat /\ c[k] \in Nat /\ c[1] <= c[k] BY <1>1, <2>1, <2>2, CurveFields
  <2>5. c[k] = c[1] BY <2>3, <2>4
  <2> QED BY <2>1, <2>5 DEF c
<1>3. k # n
  <2>1. PICK r \in Shaped : TRUE OBVIOUS
  <2> SUFFICES ASSUME k = n PROVE FALSE OBVIOUS
  <2>2. curves[r][1] < curves[r][n] /\ curves[r][n] = curves[r][1] BY <1>2, <2>1
  <2>3. curves[r][1] \in Nat
    <3>1. 1 \in 1..n BY <1>1
    <3> QED BY <1>1, <1>2, <2>1, <3>1, CurveFields
  <2> QED BY <2>2, <2>3
<1>4. ASSUME NEW l \in 1..N PROVE W \in Nat \ {0} /\ pos[l] \in Nat /\ W * (k + 1) <= pos[l]
  <2>1. l \in 0..N /\ l > 0 BY <1>1
  <2>2. ASSUME NEW r \in Shaped PROVE k + 1 <= Position(r, l)
    <3>1. curves[r] \in Curve(n) /\ curves[r][1] < curves[r][n] /\ curves[r][k] = curves[r][1]
      BY <1>2
    <3>2. Position(r, l) \in 1..n BY <1>1, <2>1, <3>1, PositionIn
    <3>3. k < Position(r, l) BY <1>1, <2>1, <3>1, PositionIn
    <3> QED BY <3>2, <3>3
  <2> DEFINE m == k + 1
  <2>3. m \in Int /\ \A r \in Shaped : m <= Position(r, l) BY <2>2
  <2>4. pos[l] = ShapedAt(l) BY <2>1
  <2> HIDE DEF m, pos
  <2>5. W \in Nat \ {0} /\ ShapedAt(l) \in Nat /\ W * m <= ShapedAt(l)
    BY <1>1, <2>1, <2>3, ShapedAtWithin
  <2> QED BY <2>4, <2>5 DEF m
<1>5. ShapeAt(n, k) = Reached(N, pos, k * W) BY <1>1, <1>3 DEF ShapeAt
<1>6. \E l \in 1..N : pos[l] <= k * W
  <2> DEFINE t == k * W
  <2>1. W \in Nat
    <3>1. 1 \in 1..N BY <1>1
    <3> QED BY <1>4, <3>1
  <2>2. \A l \in 0..N : pos[l] \in Nat
    <3>1. \A l \in 0..N : \A r \in Shaped : Position(r, l) \in 1..n
      BY <1>1, <1>2, PositionIn
    <3>2. 1 \in Int /\ \A l \in 0..N : \A r \in Shaped : 1 <= Position(r, l) BY <3>1
    <3>3. \A l \in 0..N : ShapedAt(l) \in Nat BY <1>1, <3>2, ShapedAtWithin
    <3> QED BY <3>3
  <2>3. t \in Int /\ t <= t BY <2>1
  <2> HIDE DEF t, pos, N
  <2>4. Reached(N, pos, t) # 0 => \E l \in 1..N : pos[l] <= t
    BY <1>1, <2>2, <2>3, ReachedRises
  <2> QED BY <1>5, <2>4 DEF t
<1>7. PICK l \in 1..N : pos[l] <= k * W BY <1>6
<1>8. W \in Nat \ {0} /\ pos[l] \in Nat /\ W * (k + 1) <= pos[l] BY <1>4, <1>7
<1>9. W * (k + 1) = k * W + W /\ k * W \in Nat BY <1>8
<1> HIDE DEF pos, W
<1> QED BY <1>7, <1>8, <1>9

\* What the average may be: it gains nothing where no run does.
Faithful(a, n) ==
  /\ a \in Curve(n)
  /\ Cardinality(Kept) > 1 =>
       /\ a[1] = Average([r \in Kept |-> curves[r][1]])
       /\ Unit - a[n] \in {Average([r \in Kept |-> Unit - curves[r][n]]),
                           Average([r \in Kept |-> Unit - curves[r][n]]) + 1}
  /\ \A k \in 2..n : a[k] > a[k - 1] =>
       Shaped = {} \/ \E r \in Shaped : \E j \in 2..k : curves[r][j] > curves[r][j - 1]

LowEnd == Average([r \in Kept |-> curves[r][1]])
TopEnd(n) == Average([r \in Kept |-> Unit - curves[r][n]])
At(k) == [r \in Kept |-> curves[r][k]]

\* What is kept of a run that rises from j - 1 to j has a shape.
LEMMA RisesIsShaped ==
  ASSUME Unit \in Nat, NEW n \in Nat \ {0}, Ready(n), NEW r \in Kept, NEW k \in 2..n,
         NEW j \in 2..k, curves[r][j - 1] < curves[r][j]
  PROVE  r \in Shaped
<1> DEFINE c == curves[r]
<1>1. c \in Curve(n) BY DEF Ready
<1>2. 1 \in 1..n /\ n \in 1..n /\ j \in 1..n /\ j - 1 \in 1..n /\ 1 <= j - 1 /\ j <= n OBVIOUS
<1>3. c[j - 1] < c[j] OBVIOUS
<1>4. r \in Kept /\ (c[Len(c)] > c[1] => r \in Shaped) BY DEF Shaped
<1> HIDE DEF c
<1>5. Len(c) = n /\ \A i \in 1..n : c[i] \in Nat BY <1>1, CurveFields
<1>6. \A a, b \in 1..n : a <= b => c[a] <= c[b] BY <1>1, CurveFields
<1>7. c[1] <= c[j - 1] /\ c[j] <= c[n] BY <1>2, <1>6
<1>8. c[1] < c[n]
  <2>1. c[1] \in Nat /\ c[j - 1] \in Nat /\ c[j] \in Nat /\ c[n] \in Nat BY <1>2, <1>5
  <2> QED BY <1>3, <1>7, <2>1
<1> QED BY <1>4, <1>5, <1>8

\* The averages at the points make a curve between the averages of the ends.
LEMMA PointsAverage ==
  ASSUME Unit \in Nat, NEW n \in Nat \ {0}, Ready(n)
  PROVE  /\ \A k \in 1..n : Average(At(k)) \in Nat /\ Average(At(k)) <= Unit
         /\ \A k, j \in 1..n : j <= k => Average(At(j)) <= Average(At(k))
<1>1. ASSUME NEW r \in Kept
      PROVE  /\ \A k \in 1..n : curves[r][k] \in Nat /\ curves[r][k] <= Unit
             /\ \A j, k \in 1..n : j <= k => curves[r][j] <= curves[r][k]
  <2> DEFINE c == curves[r]
  <2>1. c \in Curve(n) BY DEF Ready
  <2> HIDE DEF c
  <2>2. \A k \in 1..n : c[k] \in Nat /\ c[k] <= Unit BY <2>1, CurveFields
  <2>3. \A j, k \in 1..n : j <= k => c[j] <= c[k] BY <2>1, CurveFields
  <2> QED BY <2>2, <2>3 DEF c
<1>2. ASSUME NEW k \in 1..n PROVE Average(At(k)) \in Nat /\ Average(At(k)) <= Unit
  <2> DEFINE x == At(k)
  <2>1. \A r \in Kept : x[r] \in Int /\ 0 <= x[r] /\ x[r] <= Unit BY <1>1 DEF At
  <2> HIDE DEF x, Unit
  <2>2. 0 \in Int /\ Unit \in Int OBVIOUS
  <2>3. Average(x) \in Int /\ 0 <= Average(x) /\ Average(x) <= Unit
    BY <2>1, <2>2, AverageWithin
  <2> QED BY <2>3 DEF x
<1>3. ASSUME NEW k \in 1..n, NEW j \in 1..n, j <= k PROVE Average(At(j)) <= Average(At(k))
  <2> DEFINE x == At(j) y == At(k)
  <2>1. \A r \in Kept : x[r] \in Int /\ y[r] \in Int /\ x[r] <= y[r] BY <1>1, <1>3 DEF At
  <2> HIDE DEF x, y
  <2>2. Average(x) <= Average(y) BY <2>1, AverageGrows
  <2> QED BY <2>2 DEF x, y
<1> QED BY <1>2, <1>3

LEMMA TopIsRest ==
  ASSUME Unit \in Nat, NEW n \in Nat \ {0}, Ready(n)
  PROVE  /\ TopEnd(n) \in Int
         /\ Unit - Average(At(n)) \in {TopEnd(n), TopEnd(n) + 1}
<1> DEFINE x == At(n) y == [r \in Kept |-> Unit - curves[r][n]]
<1>1. \A r \in Kept : x[r] \in Int /\ y[r] = Unit - x[r]
  <2> SUFFICES ASSUME NEW r \in Kept PROVE x[r] \in Int /\ y[r] = Unit - x[r] OBVIOUS
  <2> DEFINE c == curves[r]
  <2>1. c \in Curve(n) BY DEF Ready
  <2>2. x[r] = c[n] /\ y[r] = Unit - c[n] BY DEF At
  <2> HIDE DEF c
  <2>3. n \in 1..n OBVIOUS
  <2>4. c[n] \in Nat BY <2>1, <2>3, CurveFields
  <2> QED BY <2>2, <2>4
<1>2. TopEnd(n) = Average(y) BY DEF TopEnd
<1> HIDE DEF x, y, Unit
<1>3. Unit \in Int OBVIOUS
<1>4. Average(y) \in Int /\ Unit - Average(x) \in {Average(y), Average(y) + 1}
  BY <1>1, <1>3, AverageOfRest
<1> QED BY <1>2, <1>4 DEF x

\* The average of a count question is taken point by point.
LEMMA PointwiseIsFaithful ==
  ASSUME Unit \in Nat, NEW n \in Nat \ {0}, Ready(n), NEW a,
         a = [k \in 1..n |-> Average([r \in Kept |-> curves[r][k]])]
  PROVE  Faithful(a, n)
<1>1. \A k \in 1..n : a[k] = Average(At(k)) BY DEF At
<1>2. DOMAIN a = 1..n OBVIOUS
<1> HIDE DEF At
<1>3. /\ \A k \in 1..n : Average(At(k)) \in Nat /\ Average(At(k)) <= Unit
      /\ \A k, j \in 1..n : j <= k => Average(At(j)) <= Average(At(k))
  BY PointsAverage
<1>4. a \in Curve(n)
  <2>1. \A k \in 1..n : a[k] \in Int /\ 0 <= a[k] /\ a[k] <= Unit BY <1>1, <1>3
  <2>2. a \in [1..n -> Int] BY <2>1
  <2>3. \A k, j \in 1..n : j <= k => a[j] <= a[k] BY <1>1, <1>3
  <2> HIDE DEF Unit
  <2> QED BY <2>1, <2>2, <2>3, RisesAlongGrid
<1>5. 1 \in 1..n /\ n \in 1..n OBVIOUS
<1>6. a[1] = Average([r \in Kept |-> curves[r][1]]) BY <1>1, <1>5 DEF At
<1>7. Unit - a[n] \in {Average([r \in Kept |-> Unit - curves[r][n]]),
                       Average([r \in Kept |-> Unit - curves[r][n]]) + 1}
  <2>1. Unit - Average(At(n)) \in {TopEnd(n), TopEnd(n) + 1} BY TopIsRest
  <2>2. a[n] = Average(At(n)) BY <1>1, <1>5
  <2> QED BY <2>1, <2>2 DEF TopEnd
<1>8. ASSUME NEW k \in 2..n, a[k] > a[k - 1]
      PROVE  \E r \in Shaped : \E j \in 2..k : curves[r][j] > curves[r][j - 1]
  <2> SUFFICES ASSUME \A r \in Kept : ~(curves[r][k] > curves[r][k - 1]) PROVE FALSE
    <3>1. PICK r \in Kept : curves[r][k] > curves[r][k - 1] BY <1>8
    <3>2. k \in 2..k /\ k \in 1..n /\ k - 1 \in 1..n OBVIOUS
    <3>3. curves[r][k - 1] < curves[r][k]
      <4> DEFINE c == curves[r]
      <4>1. c \in Curve(n) /\ c[k] > c[k - 1] BY <3>1 DEF Ready
      <4> HIDE DEF c
      <4>2. c[k] \in Nat /\ c[k - 1] \in Nat BY <3>2, <4>1, CurveFields
      <4>3. c[k - 1] < c[k] BY <4>1, <4>2
      <4> QED BY <4>3 DEF c
    <3>4. r \in Shaped BY <3>2, <3>3, RisesIsShaped
    <3> QED BY <3>1, <3>2, <3>4
  <2>1. k \in 1..n /\ k - 1 \in 1..n OBVIOUS
  <2> DEFINE x == At(k) y == At(k - 1)
  <2>2. \A r \in Kept : x[r] \in Int /\ y[r] \in Int /\ x[r] <= y[r]
    <3> SUFFICES ASSUME NEW r \in Kept PROVE x[r] \in Int /\ y[r] \in Int /\ x[r] <= y[r]
      OBVIOUS
    <3> DEFINE c == curves[r]
    <3>1. c \in Curve(n) /\ ~(c[k] > c[k - 1]) BY DEF Ready
    <3>2. x[r] = c[k] /\ y[r] = c[k - 1] BY DEF At
    <3> HIDE DEF c
    <3>3. c[k] \in Nat /\ c[k - 1] \in Nat BY <2>1, <3>1, CurveFields
    <3> QED BY <3>1, <3>2, <3>3
  <2>3. a[k] = Average(x) /\ a[k - 1] = Average(y) /\ a[k] \in Nat /\ a[k - 1] \in Nat
    BY <1>1, <1>3, <2>1
  <2> HIDE DEF x, y
  <2>4. Average(x) <= Average(y) BY <2>2, AverageGrows
  <2> QED BY <1>8, <2>3, <2>4
<1> QED BY <1>4, <1>6, <1>7, <1>8 DEF Faithful

\* A single run's curve is taken as it is.
LEMMA SingleIsFaithful ==
  ASSUME Unit \in Nat, NEW n \in Nat \ {0}, Ready(n), Cardinality(Kept) = 1, NEW a,
         a = curves[CHOOSE r \in Kept : TRUE]
  PROVE  Faithful(a, n)
<1> DEFINE s == CHOOSE r \in Kept : TRUE
<1>1. s \in Kept BY DEF Ready
<1>2. a = curves[s] OBVIOUS
<1> HIDE DEF s
<1>3. curves[s] \in Curve(n) BY <1>1 DEF Ready
<1>4. ASSUME NEW k \in 2..n, curves[s][k] > curves[s][k - 1]
      PROVE  \E r \in Shaped : \E j \in 2..k : curves[r][j] > curves[r][j - 1]
  <2>1. k \in 2..k /\ k \in 1..n /\ k - 1 \in 1..n OBVIOUS
  <2>2. curves[s][k - 1] < curves[s][k]
    <3> DEFINE c == curves[s]
    <3>1. c \in Curve(n) /\ c[k] > c[k - 1] BY <1>3, <1>4
    <3> HIDE DEF c
    <3>2. c[k] \in Nat /\ c[k - 1] \in Nat BY <2>1, <3>1, CurveFields
    <3>3. c[k - 1] < c[k] BY <3>1, <3>2
    <3> QED BY <3>3 DEF c
  <2>3. s \in Shaped BY <1>1, <2>1, <2>2, RisesIsShaped
  <2> QED BY <1>4, <2>1, <2>3
<1>5. ~(Cardinality(Kept) > 1) OBVIOUS
<1>6. \A k \in 2..n : curves[s][k] > curves[s][k - 1] =>
        \E r \in Shaped : \E j \in 2..k : curves[r][j] > curves[r][j - 1]
  BY <1>4
<1> QED BY <1>2, <1>3, <1>5, <1>6 DEF Faithful

\* A quantile average has the mean mass at each end and the mean shape between them.
LEMMA QuantileIs ==
  ASSUME NEW g, NEW n, n = g.size
  PROVE  QuantileAverage(g) =
           [k \in 1..n |-> LowEnd + ((Unit - LowEnd - TopEnd(n)) * ShapeAt(n, k)) \div (4 * n)]
<1> DEFINE w == SumFunction([r \in Shaped |-> replies[r].weight])
           pos == [l \in Levels4(g) |->
                     SumFunction([r \in Shaped |-> replies[r].weight * Position(r, l)])]
           level(k) == IF k = n THEN 4 * n ELSE Max({0} \cup {l \in Levels4(g) : pos[l] <= k * w})
           shape(k) == IF k = 1 THEN 0
                       ELSE IF Shaped = {} THEN (4 * n * (k - 1)) \div (n - 1) ELSE level(k)
<1>1. QuantileAverage(g) =
        [k \in 1..n |-> LowEnd + ((Unit - LowEnd - TopEnd(n)) * shape(k)) \div (4 * n)]
  BY DEF QuantileAverage, LowEnd, TopEnd
<1>2. Levels4(g) = 0..(4 * n) BY DEF Levels4
<1>3. pos = [l \in 0..(4 * n) |-> ShapedAt(l)] BY <1>2 DEF ShapedAt
<1>4. w = ShapedWeight BY DEF ShapedWeight
<1> HIDE DEF pos, w
<1>5. ASSUME NEW k \in 1..n PROVE shape(k) = ShapeAt(n, k)
  <2>1. Max({0} \cup {l \in Levels4(g) : pos[l] <= k * w}) = Reached(4 * n, pos, k * w)
    BY <1>2 DEF Reached
  <2> QED BY <1>3, <1>4, <2>1 DEF ShapeAt
<1> HIDE DEF shape
<1>6. \A k \in 1..n : shape(k) = ShapeAt(n, k) BY <1>5
<1> QED BY <1>1, <1>6

\* A part of a range, in n steps, lies in the range.
LEMMA StretchGrows ==
  ASSUME NEW d \in Nat, NEW N \in Nat \ {0}, NEW s \in Nat, NEW t \in Nat, s <= t, t <= N
  PROVE  /\ (d * t) \div N \in Nat /\ (d * t) \div N <= d
         /\ (d * s) \div N \in Nat /\ (d * s) \div N <= (d * t) \div N
<1> DEFINE a == d * s b == d * t
<1>1. a \in Nat /\ b \in Nat /\ a \in Int /\ b \in Int OBVIOUS
<1>2. a <= b BY ProductGrows
<1>3. b <= N * d
  <2>1. d * t <= d * N BY ProductGrows
  <2>2. d * N = N * d OBVIOUS
  <2> QED BY <2>1, <2>2
<1> HIDE DEF a, b
<1>4. a \div N \in Nat /\ b \div N \in Nat BY <1>1, QuotientNatural
<1>5. a \div N <= b \div N BY <1>1, <1>2, QuotientGrows
<1>6. d \in Int OBVIOUS
<1>7. b \div N <= d BY <1>1, <1>3, <1>6, QuotientBelow
<1> QED BY <1>4, <1>5, <1>7 DEF a, b

\* The ends of the runs, on average.
LEMMA EndsAverage ==
  ASSUME Unit \in Nat, NEW n \in Nat \ {0}, Ready(n)
  PROVE  /\ LowEnd \in Nat /\ TopEnd(n) \in Int
         /\ Unit - LowEnd - TopEnd(n) \in Nat /\ LowEnd <= Unit /\ TopEnd(n) >= 0
<1>1. 1 \in 1..n /\ n \in 1..n /\ 1 <= n OBVIOUS
<1>2. LowEnd = Average(At(1)) BY DEF LowEnd, At
<1>3. /\ \A k \in 1..n : Average(At(k)) \in Nat /\ Average(At(k)) <= Unit
      /\ \A k, j \in 1..n : j <= k => Average(At(j)) <= Average(At(k))
  BY PointsAverage
<1>4. TopEnd(n) \in Int /\ Unit - Average(At(n)) \in {TopEnd(n), TopEnd(n) + 1} BY TopIsRest
<1>5. TopEnd(n) >= 0
  <2> DEFINE y == [r \in Kept |-> Unit - curves[r][n]]
  <2>1. \A r \in Kept : y[r] \in Int /\ 0 <= y[r] /\ y[r] <= Unit
    <3> SUFFICES ASSUME NEW r \in Kept PROVE y[r] \in Int /\ 0 <= y[r] /\ y[r] <= Unit OBVIOUS
    <3> DEFINE c == curves[r]
    <3>1. c \in Curve(n) /\ y[r] = Unit - c[n] BY DEF Ready
    <3> HIDE DEF c, y
    <3>2. c[n] \in Nat /\ c[n] <= Unit BY <1>1, <3>1, CurveFields
    <3> QED BY <3>1, <3>2
  <2>2. TopEnd(n) = Average(y) BY DEF TopEnd
  <2> HIDE DEF y, Unit
  <2>3. 0 \in Int /\ Unit \in Int OBVIOUS
  <2>4. 0 <= Average(y) BY <2>1, <2>3, AverageWithin
  <2> QED BY <1>4, <2>2, <2>4
<1> DEFINE A == Average(At(1)) B == Average(At(n)) T == TopEnd(n)
<1>6. A \in Nat /\ B \in Nat /\ A <= B /\ B <= Unit BY <1>1, <1>3
<1>7. T \in Int /\ Unit - B \in {T, T + 1} /\ T >= 0 BY <1>4, <1>5
<1> HIDE DEF A, B, T, Unit
<1>8. Unit - A - T \in Nat /\ A <= Unit BY <1>6, <1>7
<1> QED BY <1>2, <1>6, <1>7, <1>8 DEF A, T

LEMMA QuantileIsFaithful ==
  ASSUME Unit \in Nat, NEW n \in Nat, n >= 2, Ready(n), NEW a,
         a = [k \in 1..n |-> LowEnd + ((Unit - LowEnd - TopEnd(n)) * ShapeAt(n, k)) \div (4 * n)]
  PROVE  Faithful(a, n)
<1> DEFINE L == LowEnd
           T == TopEnd(n)
           d == Unit - L - T
           N == 4 * n
           q(k) == (d * ShapeAt(n, k)) \div N
<1>1. \A k \in 1..n : a[k] = L + q(k) OBVIOUS
<1>2. DOMAIN a = 1..n OBVIOUS
<1>3. n \in Nat \ {0} /\ N \in Nat \ {0} /\ 1 \in 1..n /\ n \in 1..n /\ 1 # n OBVIOUS
<1>4. L \in Nat /\ T \in Int /\ d \in Nat /\ L <= Unit /\ T >= 0 BY <1>3, EndsAverage
<1>5. \A k \in 1..n : ShapeAt(n, k) \in Nat /\ ShapeAt(n, k) <= N BY ShapeRises
<1>6. \A k, j \in 1..n : j <= k => ShapeAt(n, j) <= ShapeAt(n, k) BY ShapeRises
<1>7. ShapeAt(n, 1) = 0 BY DEF ShapeAt
<1>8. ShapeAt(n, n) = N
  <2>1. CASE Shaped # {} BY <1>3, <2>1 DEF ShapeAt
  <2>2. CASE Shaped = {}
    <3> DEFINE e == n - 1
    <3>1. ShapeAt(n, n) = (N * e) \div e BY <1>3, <2>2 DEF ShapeAt
    <3>2. e \in Nat \ {0} /\ N \in Int OBVIOUS
    <3> HIDE DEF e, N
    <3>3. N * e \in Int /\ e * N <= N * e /\ N * e <= e * N BY <3>2
    <3>4. N <= (N * e) \div e BY <3>2, <3>3, QuotientAbove
    <3>5. (N * e) \div e <= N BY <3>2, <3>3, QuotientBelow
    <3>6. (N * e) \div e \in Int BY <3>2, <3>3, Quotient
    <3> QED BY <3>1, <3>2, <3>4, <3>5, <3>6
  <2> QED BY <2>1, <2>2
<1>9. Unit = L + d + T /\ L + d <= Unit
  <2> HIDE DEF L, T
  <2>1. Unit \in Nat OBVIOUS
  <2> HIDE DEF Unit
  <2> QED BY <1>4, <2>1
<1>10. d \in Int BY <1>4
<1> HIDE DEF L, T, d, N, Unit
<1>11. ASSUME NEW k \in 1..n, NEW j \in 1..n, j <= k
       PROVE  q(k) \in Nat /\ q(k) <= d /\ q(j) \in Nat /\ q(j) <= q(k)
  <2> DEFINE s == ShapeAt(n, j) t == ShapeAt(n, k)
  <2>1. s \in Nat /\ t \in Nat /\ s <= t /\ t <= N BY <1>5, <1>6, <1>11
  <2> HIDE DEF s, t
  <2>2. /\ (d * t) \div N \in Nat /\ (d * t) \div N <= d
        /\ (d * s) \div N \in Nat /\ (d * s) \div N <= (d * t) \div N
    BY <1>3, <1>4, <2>1, StretchGrows
  <2> QED BY <2>2 DEF s, t
<1>12. q(1) = 0
  <2>1. d * 0 = 0 BY <1>4
  <2>2. 0 \div N = 0
    <3>1. 0 \in Nat /\ 0 \in Int /\ 0 <= N * 0 BY <1>3
    <3>2. 0 \div N \in Nat BY <1>3, <3>1, QuotientNatural
    <3>3. 0 \div N <= 0 BY <1>3, <3>1, QuotientBelow
    <3> QED BY <3>2, <3>3
  <2> QED BY <1>7, <2>1, <2>2
<1>13. q(n) = d
  <2>1. q(n) = (d * N) \div N BY <1>8
  <2>2. d * N \in Int /\ N * d <= d * N /\ d * N <= N * d BY <1>3, <1>4
  <2>3. (d * N) \div N \in Int BY <1>3, <2>2, Quotient
  <2>4. d <= (d * N) \div N BY <1>3, <1>10, <2>2, QuotientAbove
  <2>5. (d * N) \div N <= d BY <1>3, <1>10, <2>2, QuotientBelow
  <2> QED BY <1>10, <2>1, <2>3, <2>4, <2>5
<1>14. ASSUME NEW k \in 2..n, q(k) > q(k - 1) PROVE ShapeAt(n, k) # 0
  <2> SUFFICES ASSUME ShapeAt(n, k) = 0 PROVE FALSE OBVIOUS
  <2>1. k \in 1..n /\ k - 1 \in 1..n /\ k - 1 <= k OBVIOUS
  <2>2. q(k - 1) \in Nat BY <1>11, <2>1
  <2>3. q(k) = q(1) BY <1>7
  <2> HIDE DEF q
  <2> QED BY <1>12, <1>14, <2>2, <2>3
<1> HIDE DEF q
<1>15. a \in Curve(n)
  <2>1. \A k \in 1..n : k <= k OBVIOUS
  <2>2. \A k \in 1..n : a[k] \in Int /\ 0 <= a[k] /\ a[k] <= Unit
    <3> SUFFICES ASSUME NEW k \in 1..n PROVE a[k] \in Int /\ 0 <= a[k] /\ a[k] <= Unit OBVIOUS
    <3>1. q(k) \in Nat /\ q(k) <= d BY <1>11, <2>1
    <3>2. a[k] = L + q(k) BY <1>1
    <3>3. Unit \in Nat OBVIOUS
    <3> QED BY <1>4, <1>9, <3>1, <3>2, <3>3
  <2>3. a \in [1..n -> Int] BY <1>2, <2>2
  <2>4. \A k, j \in 1..n : j <= k => a[j] <= a[k]
    <3> SUFFICES ASSUME NEW k \in 1..n, NEW j \in 1..n, j <= k PROVE a[j] <= a[k] OBVIOUS
    <3>1. q(k) \in Nat /\ q(j) \in Nat /\ q(j) <= q(k) BY <1>11
    <3>2. a[k] = L + q(k) /\ a[j] = L + q(j) BY <1>1
    <3> QED BY <1>4, <3>1, <3>2
  <2> QED BY <1>3, <2>2, <2>3, <2>4, RisesAlongGrid
<1>16. a[1] = LowEnd
  <2>1. a[1] = L + 0 BY <1>1, <1>3, <1>12
  <2> QED BY <1>4, <2>1 DEF L
<1>17. Unit - a[n] = TopEnd(n)
  <2>1. a[n] = L + d BY <1>1, <1>3, <1>13
  <2>2. Unit - a[n] = T BY <1>4, <1>9, <2>1
  <2> QED BY <2>2 DEF T
<1>18. ASSUME NEW k \in 2..n, a[k] > a[k - 1], Shaped # {}
       PROVE  \E r \in Shaped : \E j \in 2..k : curves[r][j] > curves[r][j - 1]
  <2>1. k \in 1..n /\ k - 1 \in 1..n /\ k - 1 <= k OBVIOUS
  <2>2. a[k] = L + q(k) /\ a[k - 1] = L + q(k - 1) BY <1>1, <2>1
  <2>3. q(k) \in Nat /\ q(k - 1) \in Nat BY <1>11, <2>1
  <2>4. q(k) > q(k - 1) BY <1>4, <1>18, <2>2, <2>3
  <2>5. ShapeAt(n, k) # 0 BY <1>14, <2>4
  <2>6. Unit \in Nat OBVIOUS
  <2>7. PICK r \in Shaped : curves[r][1] < curves[r][k]
    BY <1>18, <2>5, <2>6, ShapeFollowsRuns
  <2> DEFINE c == curves[r]
  <2>8. c \in Curve(n) /\ c[1] < c[k] BY <1>3, <2>6, <2>7, ShapedFields
  <2> HIDE DEF c
  <2>9. \A i \in 1..n : c[i] \in Int BY <1>3, <2>6, <2>8, CurveFields
  <2>10. PICK j \in 2..k : c[j - 1] < c[j] BY <1>3, <2>1, <2>8, <2>9, RisesSomewhere
  <2>11. c[j] > c[j - 1]
    <3>1. j \in 1..n /\ j - 1 \in 1..n BY <2>10
    <3> QED BY <2>9, <2>10, <3>1
  <2> QED BY <2>7, <2>11 DEF c
<1>19. a[1] = Average([r \in Kept |-> curves[r][1]]) BY <1>16 DEF LowEnd
<1>20. Unit - a[n] = Average([r \in Kept |-> Unit - curves[r][n]]) BY <1>17 DEF TopEnd
<1>21. \A k \in 2..n : a[k] > a[k - 1] =>
         Shaped = {} \/ \E r \in Shaped : \E j \in 2..k : curves[r][j] > curves[r][j - 1]
  BY <1>18
<1> QED BY <1>15, <1>19, <1>20, <1>21 DEF Faithful

\* However the runs are combined.
LEMMA AggregateHolds ==
  ASSUME Unit \in Nat, NEW g, NEW n \in Nat, n >= 2, n = g.size, Ready(n)
  PROVE  Faithful(AggregateCdf(g), n)
<1>1. n \in Nat \ {0} OBVIOUS
<1> DEFINE a == AggregateCdf(g)
<1>2. CASE Cardinality(Kept) = 1
  <2>1. a = curves[CHOOSE r \in Kept : TRUE] BY <1>2 DEF AggregateCdf
  <2> HIDE DEF a
  <2>2. Faithful(a, n) BY <1>1, <1>2, <2>1, SingleIsFaithful
  <2> QED BY <2>2 DEF a
<1>3. CASE Cardinality(Kept) # 1 /\ g.pmf
  <2>1. a = [k \in 1..n |-> Average([r \in Kept |-> curves[r][k]])]
    BY <1>3 DEF AggregateCdf
  <2> HIDE DEF a
  <2>2. Faithful(a, n) BY <1>1, <2>1, PointwiseIsFaithful
  <2> QED BY <2>2 DEF a
<1>4. CASE Cardinality(Kept) # 1 /\ ~g.pmf
  <2>1. a = QuantileAverage(g) BY <1>4 DEF AggregateCdf
  <2>2. a = [k \in 1..n |->
               LowEnd + ((Unit - LowEnd - TopEnd(n)) * ShapeAt(n, k)) \div (4 * n)]
    <3>1. QuantileAverage(g) = [k \in 1..n |->
            LowEnd + ((Unit - LowEnd - TopEnd(n)) * ShapeAt(n, k)) \div (4 * n)]
      BY QuantileIs
    <3> QED BY <2>1, <3>1
  <2> HIDE DEF a
  <2>3. Faithful(a, n) BY <2>2, QuantileIsFaithful
  <2> QED BY <2>3 DEF a
<1> QED BY <1>2, <1>3, <1>4

(***************************************************************************)
(* What is standardised.                                                   *)
(***************************************************************************)
\* A curve with the least step: closed ends are exact, open ones keep the margin.
Spaced(a, n, g) ==
  /\ a \in [1..n -> Nat]
  /\ IF g.openLo THEN a[1] >= Margin(TRUE) ELSE a[1] = 0
  /\ a[n] <= Fine - Margin(g.openHi)
  /\ ~g.openHi => a[n] = Fine
  /\ \A k \in 2..n : a[k] - a[k - 1] >= Unit \div (n - 1)

\* A step of a part of the range is at least the range divided.
LEMMA StepAtLeast ==
  ASSUME NEW u \in Nat, NEW d \in Nat \ {0}, NEW k \in Nat
  PROVE  /\ (u * k) \div d \in Nat /\ (u * (k + 1)) \div d \in Nat /\ u \div d \in Nat
         /\ (u * k) \div d + u \div d <= (u * (k + 1)) \div d
<1> DEFINE x == u * k y == u * (k + 1) p == x \div d q == u \div d
<1>1. x \in Nat /\ y \in Nat /\ y = x + u /\ x \in Int /\ y \in Int /\ u \in Int OBVIOUS
<1> HIDE DEF x, y
<1>2. p \in Nat /\ q \in Nat /\ y \div d \in Nat BY <1>1, QuotientNatural
<1>3. d * p <= x /\ d * q <= u BY <1>1, Quotient
<1> HIDE DEF p, q
<1>4. d * (p + q) <= y
  <2>1. d * (p + q) = d * p + d * q BY <1>2
  <2>2. d * p \in Nat /\ d * q \in Nat BY <1>2
  <2> QED BY <1>1, <1>3, <2>1, <2>2
<1>5. p + q \in Int BY <1>2
<1>6. p + q <= y \div d BY <1>1, <1>4, <1>5, QuotientAbove
<1> QED BY <1>2, <1>6 DEF p, q, x, y

\* What is added at each point so that no step is too small.
LEMMA LeastSteps ==
  ASSUME Unit \in Nat, NEW n \in Nat, n >= 2
  PROVE  /\ \A k \in 1..n : (Unit * (k - 1)) \div (n - 1) \in Nat
         /\ (Unit * (1 - 1)) \div (n - 1) = 0 /\ (Unit * (n - 1)) \div (n - 1) = Unit
         /\ \A k \in 2..n : (Unit * ((k - 1) - 1)) \div (n - 1) + Unit \div (n - 1)
                              <= (Unit * (k - 1)) \div (n - 1)
         /\ Unit \div (n - 1) \in Nat
<1> DEFINE d == n - 1 u == Unit
<1>1. d \in Nat \ {0} /\ u \in Nat /\ u \in Int OBVIOUS
<1>2. Unit = u /\ n - 1 = d OBVIOUS
<1> HIDE DEF d, u
<1>3. ASSUME NEW k \in 2..n
      PROVE  /\ (u * (k - 1)) \div d \in Nat
             /\ (u * ((k - 1) - 1)) \div d + u \div d <= (u * (k - 1)) \div d
  <2> DEFINE i == k - 2
  <2>1. i \in Nat /\ i + 1 = k - 1 /\ (k - 1) - 1 = i OBVIOUS
  <2> HIDE DEF i
  <2>2. /\ (u * (i + 1)) \div d \in Nat
        /\ (u * i) \div d + u \div d <= (u * (i + 1)) \div d
    BY <1>1, <2>1, StepAtLeast
  <2> QED BY <2>1, <2>2
<1>4. (u * (1 - 1)) \div d = 0 /\ u \div d \in Nat
  <2>1. u * (1 - 1) = 0 /\ 0 \in Nat /\ 0 \in Int /\ 0 <= d * 0 BY <1>1
  <2>2. 0 \div d \in Nat /\ u \div d \in Nat BY <1>1, <2>1, QuotientNatural
  <2>3. 0 \div d <= 0 BY <1>1, <2>1, QuotientBelow
  <2>4. 0 \div d = 0 BY <2>2, <2>3
  <2> QED BY <2>1, <2>2, <2>4
<1>5. (u * d) \div d = u
  <2>1. u * d \in Int /\ d * u <= u * d /\ u * d <= d * u BY <1>1
  <2>2. (u * d) \div d \in Int BY <1>1, <2>1, Quotient
  <2>3. u <= (u * d) \div d BY <1>1, <2>1, QuotientAbove
  <2>4. (u * d) \div d <= u BY <1>1, <2>1, QuotientBelow
  <2> QED BY <1>1, <2>2, <2>3, <2>4
<1>6. \A k \in 1..n : (u * (k - 1)) \div d \in Nat
  <2> SUFFICES ASSUME NEW k \in 1..n PROVE (u * (k - 1)) \div d \in Nat OBVIOUS
  <2>1. CASE k = 1 BY <1>4, <2>1
  <2>2. CASE k # 1
    <3>1. k \in 2..n BY <2>2
    <3> QED BY <1>3, <3>1
  <2> QED BY <2>1, <2>2
<1>7. \A k \in 2..n : (u * ((k - 1) - 1)) \div d + u \div d <= (u * (k - 1)) \div d BY <1>3
<1> QED BY <1>2, <1>4, <1>5, <1>6, <1>7

LEMMA MinimumHolds ==
  ASSUME CdfAssumption, NEW g \in Geometry, NEW n \in Nat, n >= 2, NEW c \in Curve(n),
         (IF g.openLo THEN 0 ELSE c[1]) # (IF g.openHi THEN Unit ELSE c[n])
  PROVE  Spaced(ApplyMinimum(c, g), n, g)
<1> DEFINE lo == IF g.openLo THEN 0 ELSE c[1]
           hi == IF g.openHi THEN Unit ELSE c[n]
           ml == Margin(g.openLo)
           mh == Margin(g.openHi)
           keep == 9900 * Percent - ml - mh
           d == hi - lo
           first(k) == (keep * (c[k] - lo)) \div d
           second(k) == (Unit * (k - 1)) \div (n - 1)
           a == ApplyMinimum(c, g)
<1>1. n \in Nat \ {0} /\ Unit \in Nat BY UnitIsPositive
<1>2. /\ c \in [1..n -> Int] /\ Len(c) = n
      /\ \A k \in 1..n : c[k] \in Nat /\ c[k] <= Unit
  BY <1>1, CurveFields
<1>3. \A j, k \in 1..n : j <= k => c[j] <= c[k] BY <1>1, CurveFields
<1>4. a = [k \in 1..n |-> first(k) + second(k) + ml] BY <1>2 DEF ApplyMinimum
<1>5. Percent \in Nat \ {0} /\ Unit = 100 * Percent /\ Fine = 10000 * Percent
  BY DEF CdfAssumption, Unit, Fine
<1>6. /\ ml \in Nat /\ mh \in Nat /\ keep \in Nat /\ keep + Unit + ml = Fine - mh
      /\ Margin(TRUE) = 10 * Percent /\ (g.openLo => ml = Margin(TRUE))
      /\ (~g.openLo => ml = 0) /\ (~g.openHi => mh = 0)
  BY <1>5 DEF Margin, Geometry
<1>7. 1 \in 1..n /\ n \in 1..n /\ 1 <= n OBVIOUS
<1>8. /\ lo \in Nat /\ hi \in Nat /\ d \in Nat \ {0}
      /\ \A k \in 1..n : c[k] - lo \in Nat /\ c[k] - lo <= d
      /\ (~g.openLo => c[1] - lo = 0) /\ (~g.openHi => c[n] - lo = d)
  <2> HIDE DEF Unit
  <2>1. Unit \in Nat BY <1>1
  <2>2. \A k \in 1..n : c[1] <= c[k] /\ c[k] <= c[n] BY <1>3, <1>7
  <2>3. lo # hi OBVIOUS
  <2>4. lo \in Nat /\ hi \in Nat BY <1>2, <1>7, <2>1
  <2>5. \A k \in 1..n : lo <= c[k] /\ c[k] <= hi BY <1>2, <1>7, <2>1, <2>2
  <2>6. (~g.openLo => lo = c[1]) /\ (~g.openHi => hi = c[n]) OBVIOUS
  <2> HIDE DEF lo, hi
  <2>7. lo < hi BY <1>2, <1>7, <2>3, <2>4, <2>5
  <2>8. \A k \in 1..n : c[k] - lo \in Nat /\ c[k] - lo <= d BY <1>2, <2>4, <2>5
  <2>9. c[1] \in Nat /\ c[n] \in Nat BY <1>2, <1>7
  <2>10. (~g.openLo => c[1] - lo = 0) /\ (~g.openHi => c[n] - lo = d) BY <2>4, <2>6, <2>9
  <2> QED BY <2>4, <2>7, <2>8, <2>10
<1>9. /\ \A k \in 1..n : second(k) \in Nat
      /\ second(1) = 0 /\ second(n) = Unit
      /\ \A k \in 2..n : second(k - 1) + Unit \div (n - 1) <= second(k)
      /\ Unit \div (n - 1) \in Nat
  BY <1>1, LeastSteps
<1> HIDE DEF lo, hi, ml, mh, keep, d, second, a, Unit
<1>10. \A k \in 1..n : first(k) \in Nat /\ first(k) <= keep
  <2> SUFFICES ASSUME NEW k \in 1..n PROVE first(k) \in Nat /\ first(k) <= keep OBVIOUS
  <2> DEFINE t == c[k] - lo
  <2>1. t \in Nat /\ t <= d BY <1>8
  <2> HIDE DEF t
  <2>2. t <= t BY <2>1
  <2>3. (keep * t) \div d \in Nat /\ (keep * t) \div d <= keep
    BY <1>6, <1>8, <2>1, <2>2, StretchGrows
  <2> QED BY <2>3 DEF t
<1>11. \A k \in 2..n : first(k - 1) <= first(k)
  <2> SUFFICES ASSUME NEW k \in 2..n PROVE first(k - 1) <= first(k) OBVIOUS
  <2> DEFINE s == c[k - 1] - lo t == c[k] - lo
  <2>1. k \in 1..n /\ k - 1 \in 1..n /\ k - 1 <= k OBVIOUS
  <2>2. s \in Nat /\ t \in Nat /\ t <= d BY <1>8, <2>1
  <2>3. s <= t
    <3>1. c[k - 1] <= c[k] BY <1>3, <2>1
    <3> QED BY <1>2, <1>8, <2>1, <3>1
  <2> HIDE DEF s, t
  <2>4. (keep * s) \div d <= (keep * t) \div d BY <1>6, <1>8, <2>2, <2>3, StretchGrows
  <2> QED BY <2>4 DEF s, t
<1>12. ~g.openLo => first(1) = 0
  <2> SUFFICES ASSUME ~g.openLo PROVE first(1) = 0 OBVIOUS
  <2>1. keep * (c[1] - lo) = 0 BY <1>6, <1>8
  <2>2. 0 \in Nat /\ 0 \in Int /\ 0 <= d * 0 BY <1>8
  <2>3. 0 \div d \in Nat BY <1>8, <2>2, QuotientNatural
  <2>4. 0 \div d <= 0 BY <1>8, <2>2, QuotientBelow
  <2>5. 0 \div d = 0 BY <2>3, <2>4
  <2> QED BY <2>1, <2>5
<1>13. ~g.openHi => first(n) = keep
  <2> SUFFICES ASSUME ~g.openHi PROVE first(n) = keep OBVIOUS
  <2>1. first(n) = (keep * d) \div d BY <1>8
  <2>2. keep * d \in Int /\ d * keep <= keep * d /\ keep \in Int BY <1>6, <1>8
  <2>3. keep <= (keep * d) \div d BY <1>8, <2>2, QuotientAbove
  <2>4. first(n) \in Nat /\ first(n) <= keep BY <1>7, <1>10
  <2> QED BY <1>6, <2>1, <2>3, <2>4
<1>14. \A k \in 1..n : a[k] = first(k) + second(k) + ml BY <1>4
<1>15. DOMAIN a = 1..n BY <1>4
<1> HIDE DEF first
<1>16. \A k \in 1..n : a[k] \in Nat BY <1>6, <1>9, <1>10, <1>14
<1>17. a \in [1..n -> Nat]
  <2>1. a = [k \in 1..n |-> a[k]] BY <1>4
  <2> QED BY <1>16, <2>1
<1>18. IF g.openLo THEN a[1] >= Margin(TRUE) ELSE a[1] = 0
  <2>1. a[1] = first(1) + second(1) + ml /\ first(1) \in Nat BY <1>7, <1>10, <1>14
  <2>2. second(1) = 0 /\ ml \in Nat BY <1>6, <1>9
  <2>3. CASE g.openLo
    <3>1. a[1] >= ml BY <2>1, <2>2
    <3>2. ml = Margin(TRUE) BY <1>6, <2>3
    <3> QED BY <2>3, <3>1, <3>2
  <2>4. CASE ~g.openLo
    <3>1. a[1] = 0 BY <1>6, <1>12, <2>1, <2>2, <2>4
    <3> QED BY <2>4, <3>1
  <2> QED BY <2>3, <2>4
<1>19. a[n] <= Fine - mh /\ (~g.openHi => a[n] = Fine)
  <2>1. a[n] = first(n) + second(n) + ml /\ first(n) \in Nat /\ first(n) <= keep
    BY <1>7, <1>10, <1>14
  <2>2. Fine \in Nat BY <1>5
  <2> QED BY <1>1, <1>6, <1>9, <1>13, <2>1, <2>2
<1>20. \A k \in 2..n : a[k] - a[k - 1] >= Unit \div (n - 1)
  <2> SUFFICES ASSUME NEW k \in 2..n PROVE a[k] - a[k - 1] >= Unit \div (n - 1) OBVIOUS
  <2> DEFINE f == first(k) e == first(k - 1) s == second(k) t == second(k - 1)
             q == Unit \div (n - 1)
  <2>1. k \in 1..n /\ k - 1 \in 1..n OBVIOUS
  <2>2. e \in Nat /\ f \in Nat /\ e <= f BY <1>10, <1>11, <2>1
  <2>3. s \in Nat /\ t \in Nat /\ q \in Nat /\ t + q <= s BY <1>9, <2>1
  <2>4. a[k] = f + s + ml /\ a[k - 1] = e + t + ml BY <1>14, <2>1
  <2> HIDE DEF f, e, s, t, q
  <2>5. a[k] - a[k - 1] >= q BY <1>6, <2>2, <2>3, <2>4
  <2> QED BY <2>5 DEF q
<1> QED BY <1>17, <1>18, <1>19, <1>20 DEF Spaced, a, mh

\* The inner masses: each at least the least step, and they add up to the inside.
Inner(m, n, M) ==
  /\ \A k \in 2..n : m[k] \in Nat \ {0} /\ m[k] >= Unit \div (n - 1)
  /\ M = SumFunctionOnSet(m, 2..n) /\ M \in Nat /\ M <= Fine

\* The cap is low enough to be kept and high enough that not all are at it.
LEMMA CapIsWide ==
  ASSUME CdfAssumption, NEW n \in Nat, n >= 2, n - 1 <= Unit
  PROVE  /\ SafeCap(n) \in Nat /\ SafeCap(n) <= CellCap(n)
         /\ Fine < (n - 1) * SafeCap(n) /\ Unit \div (n - 1) <= SafeCap(n)
<1> DEFINE N == n - 1
           P == Percent
           x == 2000 * P * InboundDefault
           C == x \div N
           y == 95 * C
           S == y \div 100
<1>1. P \in Nat \ {0} /\ N \in Nat \ {0} /\ N <= 100 * P /\ Unit = 100 * P /\ Fine = 10000 * P
  BY DEF CdfAssumption, Unit, Fine
<1>2. x \in Nat /\ x \in Int /\ x >= 12000 * P
  <2>1. InboundDefault \in Nat /\ 6 <= InboundDefault BY DEF CdfAssumption
  <2>2. 2000 * P \in Nat /\ 6 \in Int /\ InboundDefault \in Int BY <1>1, <2>1
  <2>3. (2000 * P) * 6 <= (2000 * P) * InboundDefault
    <3> DEFINE e == 2000 * P
    <3>1. e \in Nat BY <2>2
    <3> HIDE DEF e
    <3>2. e * 6 <= e * InboundDefault BY <2>1, <2>2, <3>1, ProductGrows
    <3> QED BY <3>2 DEF e
  <2>4. (2000 * P) * 6 = 12000 * P BY <1>1
  <2>5. x \in Nat BY <1>1, <2>1
  <2> QED BY <2>3, <2>4, <2>5
<1>3. CellCap(n) = C /\ SafeCap(n) = S BY DEF CellCap, SafeCap
<1> HIDE DEF N, P, x
<1>4. C \in Nat /\ x < N * C + N BY <1>1, <1>2, Quotient, QuotientNatural
<1> HIDE DEF C
<1>5. y \in Nat /\ y \in Int /\ 100 \in Nat \ {0} BY <1>4
<1>6. S \in Nat /\ y < 100 * S + 100
  <2> DEFINE h == 100
  <2>1. h \in Nat \ {0} OBVIOUS
  <2> HIDE DEF h, y
  <2>2. y \div h \in Nat /\ y < h * (y \div h) + h BY <1>5, <2>1, Quotient, QuotientNatural
  <2> QED BY <2>2 DEF h
<1>7. S <= C
  <2> DEFINE h == 100
  <2>1. h \in Nat \ {0} /\ y <= h * C /\ C \in Int BY <1>4
  <2> HIDE DEF h, y
  <2>2. y \div h <= C BY <1>5, <2>1, QuotientBelow
  <2> QED BY <2>2 DEF h
<1>8. 95 * C < 100 * S + 100 BY <1>6
<1> HIDE DEF S, y
<1>9. N * (95 * C) <= N * (100 * S + 100)
  <2>1. 95 * C \in Int /\ 100 * S + 100 \in Int /\ 95 * C <= 100 * S + 100
    BY <1>4, <1>6, <1>8
  <2> QED BY <1>1, <2>1, ProductGrows
<1> DEFINE a == N * C b == N * S
<1>10. N * (95 * C) = 95 * a /\ N * (100 * S + 100) = 100 * b + 100 * N BY <1>1, <1>4, <1>6
<1>11. a \in Nat /\ b \in Nat BY <1>1, <1>4, <1>6
<1> HIDE DEF a, b
<1>12. 12000 * P < a + N BY <1>1, <1>2, <1>4, <1>11 DEF a
<1>13. 95 * a <= 100 * b + 100 * N BY <1>9, <1>10
<1>14. 10000 * P < b BY <1>1, <1>11, <1>12, <1>13
<1>15. Unit <= b /\ Unit \in Int BY <1>1, <1>11, <1>14
<1>16. Unit \div N <= S
  <2>1. Unit <= N * S /\ S \in Int BY <1>6, <1>15 DEF b
  <2> HIDE DEF Unit
  <2> QED BY <1>1, <1>15, <2>1, QuotientBelow
<1> QED BY <1>1, <1>3, <1>6, <1>7, <1>14, <1>16 DEF N, b

\* The bins of S are at the cap and the others have room: what is left for them is at
\* least what they hold.
Capped(c, n, S) ==
  /\ S \in SUBSET (2..n)
  /\ Rest(c, S) \in Nat \ {0} /\ Spare(c, S) \in Nat /\ Rest(c, S) <= Spare(c, S)

LEMMA Cancelled ==
  ASSUME NEW r \in Nat \ {0}, NEW x \in Int, NEW y \in Int, r * y <= r * x
  PROVE  y <= x
<1>1. SUFFICES ASSUME x + 1 <= y PROVE FALSE OBVIOUS
<1>2. r * (x + 1) <= r * y
  <2>1. x + 1 \in Int /\ r \in Nat OBVIOUS
  <2> QED BY <1>1, <2>1, ProductGrows
<1>3. r * (x + 1) = r * x + r OBVIOUS
<1>4. r * x \in Int /\ r * y \in Int OBVIOUS
<1> QED BY <1>2, <1>3, <1>4

\* To take q cells at the cap, which were to hold more than that, leaves the others more.
LEMMA MoreIsLeft ==
  ASSUME NEW spare \in Nat, NEW rest \in Nat \ {0}, rest <= spare, NEW cap \in Nat,
         NEW q \in Nat, NEW a \in Nat, NEW left \in Nat, rest = a + left,
         (cap * rest) * q <= spare * a
  PROVE  left <= spare - cap * q /\ spare - cap * q \in Nat
<1> DEFINE s == spare - cap * q
<1>1. cap * q \in Nat /\ s \in Int OBVIOUS
<1>2. rest * s = rest * spare - (cap * rest) * q OBVIOUS
<1>3. rest * spare = spare * a + spare * left OBVIOUS
<1>4. spare * a \in Nat /\ spare * left \in Nat /\ (cap * rest) * q \in Nat OBVIOUS
<1> HIDE DEF s
<1>5. spare * left <= rest * s BY <1>2, <1>3, <1>4
<1>6. rest * left <= spare * left BY ProductGrows
<1>7. rest * left \in Nat /\ rest * s \in Int /\ left \in Int BY <1>1
<1>8. rest * left <= rest * s BY <1>4, <1>5, <1>6, <1>7
<1>9. left <= s BY <1>1, <1>7, <1>8, Cancelled
<1> QED BY <1>1, <1>9 DEF s

LEMMA CapMoreKeeps ==
  ASSUME CdfAssumption, NEW n \in Nat, n >= 2, n - 1 <= Unit, NEW c \in [1..n -> Nat],
         Inner(Masses(c), n, c[n] - c[1]), NEW S, Capped(c, n, S)
  PROVE  Capped(c, n, CapMore(c, S))
<1> DEFINE T == 2..n
           m == Masses(c)
           cap == SafeCap(n)
           spare == Spare(c, S)
           rest == Rest(c, S)
           A == {k \in T \ S : m[k] * spare > cap * rest}
           R == S \cup A
           B == T \ R
           M == c[n] - c[1]
           a == SumFunctionOnSet(m, A)
           left == SumFunctionOnSet(m, B)
           q == Cardinality(A)
<1>1. Len(c) = n
  <2>1. n \in Nat OBVIOUS
  <2> QED BY <2>1, NumberedIsSeq
<1>2. /\ S \in SUBSET T /\ rest \in Nat \ {0} /\ spare \in Nat /\ rest <= spare
  BY DEF Capped
<1>3. \A k \in T : m[k] \in Nat /\ m[k] > 0
  <2>1. \A k \in T : m[k] \in Nat \ {0} BY DEF Inner
  <2> QED BY <2>1
<1>4. M \in Nat /\ M <= Fine BY DEF Inner
<1>5. cap \in Nat /\ Fine < (n - 1) * cap BY CapIsWide
<1>6. /\ CapMore(c, S) = R
      /\ rest = SumFunctionOnSet(m, T \ S) /\ Rest(c, R) = left
      /\ spare = M - cap * Cardinality(S) /\ Spare(c, R) = M - cap * Cardinality(R)
  BY <1>1 DEF CapMore, Rest, Spare
<1>7. IsFiniteSet(T) /\ Cardinality(T) = n - 1
  <2>1. 2 \in Int /\ n \in Int OBVIOUS
  <2> QED BY <2>1, FS_Interval
<1>8. A \in SUBSET T /\ B \in SUBSET T /\ R \in SUBSET T /\ A \cap B = {} /\ A \cup B = T \ S
      /\ S \cap A = {} /\ R = S \cup A
  BY <1>2
<1>9. \A k \in A : m[k] * spare > cap * rest OBVIOUS
<1>10. B = {} => R = T BY <1>8
<1> HIDE DEF T, m, cap, spare, rest, A, R, B, M
<1>11. IsFiniteSet(A) /\ IsFiniteSet(B) /\ IsFiniteSet(R) /\ IsFiniteSet(S)
  BY <1>2, <1>7, <1>8, FS_Subset
<1>12. q \in Nat /\ Cardinality(S) \in Nat /\ Cardinality(R) = Cardinality(S) + q
  <2>1. q \in Nat /\ Cardinality(S) \in Nat BY <1>11, FS_CardinalityType
  <2>2. Cardinality(S \cap A) = 0 BY <1>8, FS_EmptySet
  <2>3. Cardinality(S \cup A) = Cardinality(S) + Cardinality(A) - Cardinality(S \cap A)
    BY <1>11, FS_Union
  <2> QED BY <1>8, <2>1, <2>2, <2>3
<1>13. \A k \in A : m[k] \in Nat BY <1>3, <1>8
<1>14. \A k \in B : m[k] \in Nat /\ m[k] > 0 BY <1>3, <1>8
<1>15. a \in Nat /\ left \in Nat /\ rest = a + left
  <2>1. a \in Nat
    <3>1. \A k \in A : m[k] \in Nat BY <1>13
    <3> QED BY <1>11, <3>1, SumMonotone
  <2>2. left \in Nat
    <3>1. \A k \in B : m[k] \in Nat BY <1>14
    <3> QED BY <1>11, <3>1, SumMonotone
  <2>3. \A k \in A \cup B : m[k] \in Int BY <1>13, <1>14
  <2>4. SumFunctionOnSet(m, A \cup B) = a + left BY <1>8, <1>11, <2>3, SumUnion
  <2> QED BY <1>6, <1>8, <2>1, <2>2, <2>4
<1>16. (cap * rest) * q <= spare * a
  <2> DEFINE low == [k \in A |-> cap * rest]
             high == [k \in A |-> spare * m[k]]
             e == cap * rest
  <2>1. e \in Int BY <1>2, <1>5
  <2>2. \A k \in A : low[k] = e /\ high[k] = spare * m[k] OBVIOUS
  <2>3. \A k \in A : low[k] \in Int /\ high[k] \in Int /\ low[k] <= high[k]
    <3> SUFFICES ASSUME NEW k \in A
                 PROVE  low[k] \in Int /\ high[k] \in Int /\ low[k] <= high[k] OBVIOUS
    <3>1. m[k] \in Nat /\ m[k] * spare > e BY <1>9, <1>13
    <3>2. m[k] * spare = spare * m[k] /\ spare * m[k] \in Nat BY <1>2, <3>1
    <3> HIDE DEF low, high, e
    <3> QED BY <2>1, <2>2, <3>1, <3>2
  <2> HIDE DEF low, high, e
  <2>4. SumFunctionOnSet(low, A) = e * q BY <1>11, <2>1, <2>2, SumAlike
  <2>5. SumFunctionOnSet(high, A) = spare * a
    <3>1. \A k \in A : m[k] \in Int BY <1>13
    <3>2. spare \in Int BY <1>2
    <3> QED BY <1>11, <2>2, <3>1, <3>2, SumTimes
  <2>6. SumFunctionOnSet(low, A) <= SumFunctionOnSet(high, A) BY <1>11, <2>3, SumBelow
  <2> QED BY <2>4, <2>5, <2>6 DEF e
<1> HIDE DEF q, a, left
<1>17. left <= spare - cap * q /\ spare - cap * q \in Nat
  BY <1>2, <1>5, <1>12, <1>15, <1>16, MoreIsLeft
<1>18. Spare(c, R) = spare - cap * q
  <2>1. cap * Cardinality(R) = cap * Cardinality(S) + cap * q BY <1>5, <1>12
  <2>2. cap * Cardinality(S) \in Nat /\ cap * q \in Nat BY <1>5, <1>12
  <2> QED BY <1>4, <1>6, <2>1, <2>2
<1>19. left # 0
  <2> SUFFICES ASSUME left = 0 PROVE FALSE OBVIOUS
  <2>1. B = {}
    <3> SUFFICES ASSUME NEW k \in B PROVE FALSE OBVIOUS
    <3>1. \A j \in B : m[j] \in Nat BY <1>14
    <3>2. m[k] <= SumFunctionOnSet(m, B) BY <1>11, <3>1, PartBelowSum
    <3>3. m[k] \in Nat /\ m[k] > 0 BY <1>14
    <3> QED BY <3>2, <3>3 DEF left
  <2>2. Cardinality(R) = n - 1 BY <1>7, <1>10, <2>1
  <2>3. M - cap * (n - 1) \in Nat BY <1>6, <1>17, <1>18, <2>2
  <2>4. cap * (n - 1) = (n - 1) * cap /\ cap * (n - 1) \in Nat BY <1>5
  <2>5. Fine \in Int BY DEF Fine, Unit, CdfAssumption
  <2> QED BY <1>4, <1>5, <2>3, <2>4, <2>5
<1>20. Rest(c, R) \in Nat \ {0} /\ Spare(c, R) \in Nat /\ Rest(c, R) <= Spare(c, R)
  BY <1>6, <1>15, <1>17, <1>18, <1>19
<1> QED BY <1>6, <1>8, <1>20 DEF Capped, T

CappedSoFar(g, c) == g = [i \in 0..Len(c) |-> IF i = 0 THEN {} ELSE CapMore(c, g[i - 1])]
CappedAtLast(c) == (CHOOSE g : CappedSoFar(g, c))[Len(c)]

LEMMA NoneIsCapped ==
  ASSUME CdfAssumption, NEW n \in Nat, n >= 2, n - 1 <= Unit, NEW c \in [1..n -> Nat],
         Inner(Masses(c), n, c[n] - c[1])
  PROVE  Capped(c, n, {})
<1> DEFINE T == 2..n
           m == Masses(c)
           M == c[n] - c[1]
           W == SumFunctionOnSet(m, T)
<1>1. Len(c) = n
  <2>1. n \in Nat OBVIOUS
  <2> QED BY <2>1, NumberedIsSeq
<1>2. (\A k \in T : m[k] \in Nat /\ m[k] > 0) /\ M = W /\ M \in Nat
  <2>1. \A k \in T : m[k] \in Nat \ {0} BY DEF Inner
  <2>2. M = W /\ M \in Nat BY DEF Inner
  <2> QED BY <2>1, <2>2
<1>3. 2 \in T OBVIOUS
<1>4. IsFiniteSet(T)
  <2>1. 2 \in Int /\ n \in Int OBVIOUS
  <2> QED BY <2>1, FS_Interval
<1>5. Rest(c, {}) = W
  <2>1. T \ {} = T OBVIOUS
  <2> QED BY <1>1, <2>1 DEF Rest
<1>6. Spare(c, {}) = M
  <2>1. Cardinality({}) = 0 BY FS_EmptySet
  <2>2. SafeCap(Len(c)) * 0 = 0
    <3>1. SafeCap(Len(c)) \in Nat BY <1>1, CapIsWide
    <3> QED BY <3>1
  <2>3. Spare(c, {}) = M - SafeCap(Len(c)) * 0 BY <2>1 DEF Spare
  <2> HIDE DEF M
  <2> QED BY <1>2, <2>2, <2>3
<1> HIDE DEF T, m, M
<1>7. W > 0
  <2> DEFINE t == 2
  <2>1. t \in T BY <1>3
  <2> HIDE DEF t
  <2>2. \A k \in T : m[k] \in Nat BY <1>2
  <2>3. m[t] <= W BY <1>4, <2>1, <2>2, PartBelowSum
  <2>4. m[t] \in Nat /\ m[t] > 0 BY <1>2, <2>1
  <2>5. W \in Nat BY <1>2
  <2> HIDE DEF W
  <2> QED BY <2>3, <2>4, <2>5
<1>8. {} \in SUBSET (2..n) OBVIOUS
<1>9. Rest(c, {}) \in Nat \ {0} /\ Spare(c, {}) \in Nat /\ Rest(c, {}) <= Spare(c, {})
  BY <1>2, <1>5, <1>6, <1>7
<1> QED BY <1>8, <1>9 DEF Capped

\* In as many rounds as there are bins no more are capped.
LEMMA CappingEnds ==
  ASSUME CdfAssumption, NEW n \in Nat, n >= 2, n - 1 <= Unit, NEW c \in [1..n -> Nat],
         Inner(Masses(c), n, c[n] - c[1])
  PROVE  Capped(c, n, CappedAtLast(c)) /\ CapMore(c, CappedAtLast(c)) = CappedAtLast(c)
<1> DEFINE S == {s \in SUBSET (2..n) : Capped(c, n, s)}
           F == [p \in (1..n) \X S |-> CapMore(c, p[2])]
           z == {}
<1>1. Len(c) = n
  <2>1. n \in Nat OBVIOUS
  <2> QED BY <2>1, NumberedIsSeq
<1>2. ASSUME NEW s \in S PROVE CapMore(c, s) \in S
  <2>1. Capped(c, n, s) OBVIOUS
  <2>2. Capped(c, n, CapMore(c, s)) BY <2>1, CapMoreKeeps
  <2>3. CapMore(c, s) \in SUBSET (2..n) BY <2>2 DEF Capped
  <2> QED BY <2>2, <2>3
<1>3. ASSUME NEW i \in 1..n, NEW s \in S PROVE F[<<i, s>>] = CapMore(c, s) /\ F[<<i, s>>] \in S
  <2>1. F[<<i, s>>] = CapMore(c, s) OBVIOUS
  <2> HIDE DEF F, S
  <2> QED BY <1>2, <2>1
<1>4. z \in S BY NoneIsCapped
<1>5. \A s \in S : s \in SUBSET (2..n) /\ Capped(c, n, s) OBVIOUS
<1> HIDE DEF S, F, z
<1>6. PICK h \in [0..n -> S] : Iterates(h, z, F, n)
  <2>1. \A i \in 1..n, s \in S : F[<<i, s>>] \in S BY <1>3
  <2> QED BY <1>4, <2>1, IteratesExist
<1>7. \A i \in 0..n : h[i] = IF i = 0 THEN z ELSE CapMore(c, h[i - 1])
  <2> SUFFICES ASSUME NEW i \in 0..n PROVE h[i] = IF i = 0 THEN z ELSE CapMore(c, h[i - 1])
    OBVIOUS
  <2>1. h[i] = IF i = 0 THEN z ELSE F[<<i, h[i - 1]>>] BY <1>6 DEF Iterates
  <2>2. i # 0 => i \in 1..n /\ i - 1 \in 0..n OBVIOUS
  <2>3. i # 0 => h[i - 1] \in S BY <2>2
  <2> QED BY <1>3, <2>1, <2>2, <2>3
<1>8. CappedSoFar(h, c)
  <2>1. h = [i \in 0..n |-> h[i]] OBVIOUS
  <2> QED BY <1>1, <1>7, <2>1 DEF CappedSoFar, z
<1>9. PICK g : CappedSoFar(g, c) /\ CappedAtLast(c) = g[n]
  <2>1. CappedAtLast(c) = (CHOOSE k : CappedSoFar(k, c))[n] BY <1>1 DEF CappedAtLast
  <2>2. CappedSoFar(CHOOSE k : CappedSoFar(k, c), c) BY <1>8
  <2> QED BY <2>1, <2>2
<1>10. \A i \in 0..n : g[i] = IF i = 0 THEN z ELSE CapMore(c, g[i - 1])
  BY <1>1, <1>9 DEF CappedSoFar, z
<1>11. IsFiniteSet(2..n) /\ Cardinality(2..n) = n - 1
  <2>1. 2 \in Int /\ n \in Int OBVIOUS
  <2> QED BY <2>1, FS_Interval
<1>12. \A s \in S : IsFiniteSet(s) /\ Cardinality(s) \in Nat /\ Cardinality(s) <= n - 1
  BY <1>5, <1>11, FS_Subset, FS_CardinalityType
<1> DEFINE P == {i \in 0..n : /\ g[i] \in S
                              /\ CapMore(c, g[i]) = g[i] \/ Cardinality(g[i]) >= i}
<1>13. 0 \in P
  <2>1. g[0] = z /\ 0 \in 0..n BY <1>10
  <2>2. Cardinality(z) \in Nat BY <1>4, <1>12
  <2>3. Cardinality(g[0]) >= 0 BY <2>1, <2>2
  <2> QED BY <1>4, <2>1, <2>3
<1>14. ASSUME NEW i \in 1..n, i - 1 \in P PROVE i \in P
  <2> DEFINE s == g[i - 1] t == CapMore(c, s)
  <2>1. s \in S /\ (CapMore(c, s) = s \/ Cardinality(s) >= i - 1) BY <1>14
  <2>2. g[i] = t /\ i \in 0..n BY <1>10
  <2>3. t \in S BY <1>2, <2>1
  <2>4. s \subseteq t BY DEF CapMore
  <2>5. CASE t = s BY <2>1, <2>2, <2>3, <2>5
  <2>6. CASE t # s
    <3> HIDE DEF s, t
    <3>1. Cardinality(s) >= i - 1 BY <2>1, <2>6 DEF t
    <3>2. /\ IsFiniteSet(t) /\ Cardinality(t) \in Nat /\ Cardinality(s) \in Nat
      BY <1>12, <2>1, <2>3
    <3>3. s \in SUBSET t BY <2>4
    <3>4. Cardinality(s) <= Cardinality(t) /\ (Cardinality(t) = Cardinality(s) => t = s)
      BY <3>2, <3>3, FS_Subset
    <3>5. Cardinality(t) >= i BY <2>6, <3>1, <3>2, <3>4
    <3> QED BY <2>2, <2>3, <3>5
  <2> QED BY <2>5, <2>6
<1> HIDE DEF P
<1>15. n \in P
  <2>1. \A i \in 0..n : i \in P BY <1>13, <1>14, Climb
  <2> QED BY <2>1
<1>16. g[n] \in S /\ (CapMore(c, g[n]) = g[n] \/ Cardinality(g[n]) >= n) BY <1>15 DEF P
<1>17. Cardinality(g[n]) \in Nat /\ Cardinality(g[n]) <= n - 1 BY <1>12, <1>16
<1>18. CapMore(c, g[n]) = g[n] BY <1>16, <1>17
<1> QED BY <1>5, <1>9, <1>16, <1>18

\* What each inner bin gets.
Scaling(c, n, S) == [k \in 2..n |-> IF k \in S THEN SafeCap(n)
                                    ELSE (Masses(c)[k] * Spare(c, S)) \div Rest(c, S)]

\* None gets less than it had, nor more than the cap.
LEMMA ScalingHolds ==
  ASSUME CdfAssumption, NEW n \in Nat, n >= 2, n - 1 <= Unit, NEW c \in [1..n -> Nat],
         Inner(Masses(c), n, c[n] - c[1]), NEW S, Capped(c, n, S), CapMore(c, S) = S,
         NEW k \in 2..n
  PROVE  /\ Scaling(c, n, S)[k] \in Nat
         /\ Unit \div (n - 1) <= Scaling(c, n, S)[k] /\ Scaling(c, n, S)[k] <= SafeCap(n)
<1> DEFINE cap == SafeCap(n)
           spare == Spare(c, S)
           rest == Rest(c, S)
           x == Masses(c)[k]
           v == Scaling(c, n, S)[k]
           u == Unit \div (n - 1)
<1>1. Len(c) = n
  <2>1. n \in Nat OBVIOUS
  <2> QED BY <2>1, NumberedIsSeq
<1>2. cap \in Nat /\ u <= cap BY CapIsWide
<1>3. x \in Nat /\ x >= u BY DEF Inner
<1>4. rest \in Nat \ {0} /\ spare \in Nat /\ rest <= spare BY DEF Capped
<1>5. v = IF k \in S THEN cap ELSE (x * spare) \div rest BY DEF Scaling
<1>6. k \notin S => ~(x * spare > cap * rest) BY <1>1 DEF CapMore
<1>7. u \in Int
  <2> DEFINE d == n - 1 w == Unit
  <2>1. d \in Nat \ {0} /\ w \in Int BY UnitIsPositive
  <2> HIDE DEF d, w
  <2>2. w \div d \in Int BY <2>1, Quotient
  <2> QED BY <2>2 DEF d, w
<1> HIDE DEF cap, spare, rest, x, v, u
<1>8. ASSUME k \in S PROVE v \in Nat /\ u <= v /\ v <= cap
  <2>1. v = cap BY <1>5, <1>8
  <2> QED BY <1>2, <2>1
<1>9. ASSUME k \notin S PROVE v \in Nat /\ u <= v /\ v <= cap
  <2> DEFINE e == x * spare
  <2>1. e \in Nat /\ e \in Int BY <1>3, <1>4
  <2>2. x * rest <= x * spare
    <3>1. rest \in Int /\ spare \in Int BY <1>4
    <3> QED BY <1>3, <1>4, <3>1, ProductGrows
  <2>3. rest * x <= e
    <3>1. x * rest = rest * x BY <1>3, <1>4
    <3> QED BY <2>2, <3>1
  <2>4. e <= rest * cap
    <3>1. cap * rest = rest * cap /\ cap * rest \in Nat BY <1>2, <1>4
    <3> QED BY <1>6, <1>9, <2>1, <3>1
  <2>5. v = e \div rest BY <1>5, <1>9
  <2> HIDE DEF e
  <2>6. x \in Int /\ cap \in Int BY <1>2, <1>3
  <2>7. e \div rest \in Nat BY <1>4, <2>1, QuotientNatural
  <2>8. x <= e \div rest BY <1>4, <2>1, <2>3, <2>6, QuotientAbove
  <2>9. e \div rest <= cap BY <1>4, <2>1, <2>4, <2>6, QuotientBelow
  <2> QED BY <1>3, <1>7, <2>5, <2>6, <2>7, <2>8, <2>9
<1> QED BY <1>8, <1>9 DEF u, v, cap

\* And but for rounding nothing is lost of what they hold together.
LEMMA ScalingAddsUp ==
  ASSUME CdfAssumption, NEW n \in Nat, n >= 2, n - 1 <= Unit, NEW c \in [1..n -> Nat],
         Inner(Masses(c), n, c[n] - c[1]), NEW S, Capped(c, n, S), CapMore(c, S) = S
  PROVE  /\ SumFunctionOnSet(Scaling(c, n, S), 2..n) \in Int
         /\ SumFunctionOnSet(Scaling(c, n, S), 2..n) <= c[n] - c[1]
         /\ c[n] - c[1] - (n - 1) <= SumFunctionOnSet(Scaling(c, n, S), 2..n)
<1> DEFINE T == 2..n
           m == Masses(c)
           cap == SafeCap(n)
           spare == Spare(c, S)
           rest == Rest(c, S)
           B == T \ S
           M == c[n] - c[1]
           f == Scaling(c, n, S)
           q == Cardinality(B)
           s == Cardinality(S)
           high == [k \in B |-> rest * f[k]]
           mid == [k \in B |-> spare * m[k]]
           gap == [k \in B |-> -rest]
           low == [k \in B |-> spare * m[k] + (-rest)]
           F == SumFunctionOnSet(f, B)
<1>1. Len(c) = n
  <2>1. n \in Nat OBVIOUS
  <2> QED BY <2>1, NumberedIsSeq
<1>2. cap \in Nat BY CapIsWide
<1>3. /\ S \in SUBSET T /\ rest \in Nat \ {0} /\ spare \in Nat BY DEF Capped
<1>4. (\A k \in T : m[k] \in Nat) /\ M \in Nat
  <2>1. \A k \in T : m[k] \in Nat \ {0} BY DEF Inner
  <2>2. M \in Nat BY DEF Inner
  <2> QED BY <2>1, <2>2
<1>5. rest = SumFunctionOnSet(m, B) /\ spare = M - cap * s BY <1>1 DEF Rest, Spare
<1>6. /\ \A k \in S : f[k] = cap
      /\ \A k \in B : f[k] = (m[k] * spare) \div rest
  BY <1>3 DEF Scaling
<1>7. IsFiniteSet(T) /\ Cardinality(T) = n - 1
  <2>1. 2 \in Int /\ n \in Int OBVIOUS
  <2> QED BY <2>1, FS_Interval
<1>8. B \in SUBSET T /\ S \cap B = {} /\ S \cup B = T BY <1>3
<1>9. \A k \in T : f[k] \in Nat BY ScalingHolds
<1>10. \A k \in B : high[k] = rest * f[k] /\ mid[k] = spare * m[k] /\ gap[k] = -rest
                    /\ low[k] = mid[k] + gap[k]
  OBVIOUS
<1> HIDE DEF T, m, cap, spare, rest, B, M, f, high, mid, gap, low
<1>11. IsFiniteSet(S) /\ IsFiniteSet(B) BY <1>3, <1>7, <1>8, FS_Subset
<1>12. q \in Nat /\ s \in Nat /\ q <= n - 1
  <2>1. q \in Nat /\ s \in Nat BY <1>11, FS_CardinalityType
  <2>2. Cardinality(B) <= Cardinality(T) BY <1>7, <1>8, FS_Subset
  <2> QED BY <1>7, <2>1, <2>2
<1>13. \A k \in B : f[k] \in Nat /\ m[k] \in Nat BY <1>4, <1>8, <1>9
<1>14. ASSUME NEW k \in B
       PROVE  /\ high[k] \in Int /\ mid[k] \in Int /\ gap[k] \in Int /\ low[k] \in Int
              /\ low[k] <= high[k] /\ high[k] <= mid[k]
  <2> DEFINE e == m[k] * spare v == f[k]
  <2>1. e \in Int /\ e = spare * m[k] /\ v \in Int /\ v = e \div rest
    BY <1>3, <1>6, <1>13
  <2>2. high[k] = rest * v /\ mid[k] = e /\ gap[k] = -rest /\ low[k] = e + (-rest)
    BY <1>10, <2>1
  <2> HIDE DEF e, v
  <2>3. rest * (e \div rest) <= e /\ e < rest * (e \div rest) + rest
    BY <1>3, <2>1, Quotient
  <2>4. rest * v \in Int BY <1>3, <2>1
  <2>5. rest * v <= e /\ e < rest * v + rest BY <2>1, <2>3
  <2> DEFINE p == rest * v
  <2>6. p \in Int /\ high[k] = p /\ p <= e /\ e < p + rest BY <2>2, <2>4, <2>5
  <2> HIDE DEF p
  <2>7. low[k] \in Int /\ gap[k] \in Int BY <1>3, <2>1, <2>2
  <2>8. low[k] <= p
    <3>1. e + (-rest) <= p BY <1>3, <2>1, <2>6
    <3> QED BY <2>2, <3>1
  <2> QED BY <2>1, <2>2, <2>6, <2>7, <2>8
<1>15. F \in Int
  <2>1. \A k \in B : f[k] \in Int BY <1>13
  <2> QED BY <1>11, <2>1, SumType
<1>16. SumFunctionOnSet(high, B) = rest * F
  <2>1. \A k \in B : f[k] \in Int BY <1>13
  <2>2. rest \in Int BY <1>3
  <2> QED BY <1>10, <1>11, <2>1, <2>2, SumTimes
<1>17. SumFunctionOnSet(mid, B) = spare * rest
  <2>1. \A k \in B : m[k] \in Int BY <1>13
  <2>2. spare \in Int BY <1>3
  <2>3. SumFunctionOnSet(mid, B) = spare * SumFunctionOnSet(m, B)
    BY <1>10, <1>11, <2>1, <2>2, SumTimes
  <2> QED BY <1>5, <2>3
<1>18. SumFunctionOnSet(gap, B) = (-rest) * q
  <2> DEFINE r == -rest
  <2>1. r \in Int /\ \A k \in B : gap[k] = r BY <1>3, <1>10
  <2> HIDE DEF r
  <2>2. SumFunctionOnSet(gap, B) = r * Cardinality(B) BY <1>11, <2>1, SumAlike
  <2> QED BY <2>2 DEF r
<1>19. SumFunctionOnSet(low, B) = SumFunctionOnSet(mid, B) + SumFunctionOnSet(gap, B)
  <2>1. \A k \in B : mid[k] \in Int /\ gap[k] \in Int BY <1>14
  <2>2. \A k \in B : low[k] = mid[k] + gap[k] BY <1>10
  <2> QED BY <1>11, <2>1, <2>2, SumPlus
<1>20. SumFunctionOnSet(low, B) <= SumFunctionOnSet(high, B)
  <2>1. \A k \in B : low[k] \in Int /\ high[k] \in Int BY <1>14
  <2>2. \A k \in B : low[k] <= high[k] BY <1>14
  <2> QED BY <1>11, <2>1, <2>2, SumBelow
<1>21. SumFunctionOnSet(high, B) <= SumFunctionOnSet(mid, B)
  <2>1. \A k \in B : high[k] \in Int /\ mid[k] \in Int BY <1>14
  <2>2. \A k \in B : high[k] <= mid[k] BY <1>14
  <2> QED BY <1>11, <2>1, <2>2, SumBelow
<1>22. SumFunctionOnSet(f, T) = cap * s + F
  <2>1. \A k \in S \cup B : f[k] \in Int BY <1>8, <1>9
  <2>2. SumFunctionOnSet(f, S \cup B) = SumFunctionOnSet(f, S) + F
    BY <1>8, <1>11, <2>1, SumUnion
  <2>3. SumFunctionOnSet(f, S) = cap * s
    <3>1. cap \in Int BY <1>2
    <3> QED BY <1>6, <1>11, <3>1, SumAlike
  <2> QED BY <1>8, <2>2, <2>3
<1> HIDE DEF F, q, s
<1>23. F <= spare
  <2>1. rest * F <= spare * rest BY <1>16, <1>17, <1>21
  <2>2. rest * F <= rest * spare
    <3>1. spare * rest = rest * spare BY <1>3
    <3> QED BY <2>1, <3>1
  <2>3. spare \in Int BY <1>3
  <2> QED BY <1>3, <1>15, <2>2, <2>3, Cancelled
<1>24. spare - q <= F
  <2>1. spare * rest + (-rest) * q <= rest * F BY <1>16, <1>17, <1>18, <1>19, <1>20
  <2>2. spare * rest + (-rest) * q = rest * (spare - q) BY <1>3, <1>12
  <2>3. rest * (spare - q) <= rest * F BY <2>1, <2>2
  <2>4. spare - q \in Int BY <1>3, <1>12
  <2> QED BY <1>3, <1>15, <2>3, <2>4, Cancelled
<1>25. cap * s \in Nat BY <1>2, <1>12
<1> DEFINE W == SumFunctionOnSet(f, T)
<1>26. W \in Int /\ W <= M /\ M - (n - 1) <= W
  <2> DEFINE p == cap * s
  <2>1. W = p + F BY <1>22
  <2>2. p \in Nat /\ spare = M - p BY <1>5, <1>25
  <2> HIDE DEF W, p
  <2> QED BY <1>4, <1>12, <1>15, <1>23, <1>24, <2>1, <2>2
<1> QED BY <1>26 DEF W, M, f, T

LEMMA SpacedIsInner ==
  ASSUME CdfAssumption, NEW g \in Geometry, NEW n \in Nat, n >= 2, n - 1 <= Unit,
         NEW c, Spaced(c, n, g)
  PROVE  c \in [1..n -> Nat] /\ Inner(Masses(c), n, c[n] - c[1])
<1> DEFINE m == Masses(c) u == Unit \div (n - 1)
<1>1. c \in [1..n -> Nat] /\ \A k \in 2..n : c[k] - c[k - 1] >= u BY DEF Spaced
<1>2. c \in [1..n -> Int] /\ \A k \in 1..n : c[k] \in Nat BY <1>1
<1>3. u \in Nat /\ u >= 1
  <2> DEFINE d == n - 1 w == Unit
  <2>1. d \in Nat \ {0} /\ w \in Nat /\ w \in Int /\ d <= w BY UnitIsPositive
  <2> HIDE DEF d, w
  <2>2. d * 1 <= w /\ 1 \in Int BY <2>1
  <2>3. w \div d \in Nat /\ 1 <= w \div d BY <2>1, <2>2, QuotientNatural, QuotientAbove
  <2> QED BY <2>3 DEF d, w
<1>4. n \in Nat \ {0} /\ n \in 1..n /\ 1 \in 1..n OBVIOUS
<1>5. \A k \in 2..n : m[k] = c[k] - c[k - 1] BY <1>2, <1>4, MassesOf
<1> HIDE DEF m, u
<1>6. \A k \in 2..n : m[k] \in Nat \ {0} /\ m[k] >= u
  <2> SUFFICES ASSUME NEW k \in 2..n PROVE m[k] \in Nat \ {0} /\ m[k] >= u OBVIOUS
  <2>1. k \in 1..n /\ k - 1 \in 1..n OBVIOUS
  <2>2. c[k] \in Nat /\ c[k - 1] \in Nat BY <1>2, <2>1
  <2>3. m[k] = c[k] - c[k - 1] /\ c[k] - c[k - 1] >= u BY <1>1, <1>5
  <2> QED BY <1>3, <2>2, <2>3
<1>7. SumFunctionOnSet(m, 2..n) = c[n] - c[1] BY <1>2, <1>4, <1>5, MassesAddUp
<1>8. c[1] <= c[n]
  <2>1. \A k \in 2..n : c[k - 1] <= c[k]
    <3> SUFFICES ASSUME NEW k \in 2..n PROVE c[k - 1] <= c[k] OBVIOUS
    <3>1. k \in 1..n /\ k - 1 \in 1..n OBVIOUS
    <3>2. c[k] \in Nat /\ c[k - 1] \in Nat BY <1>2, <3>1
    <3> QED BY <1>1, <1>3, <3>2
  <2> DEFINE a == 1
  <2>2. a \in 1..n /\ a <= n BY <1>4
  <2> HIDE DEF a
  <2>3. c[a] <= c[n] BY <1>2, <1>4, <2>1, <2>2, CurveRises
  <2> QED BY <2>3 DEF a
<1>9. c[n] - c[1] \in Nat /\ c[n] - c[1] <= Fine
  <2>1. c[n] <= Fine - Margin(g.openHi) BY DEF Spaced
  <2>2. Margin(g.openHi) \in Nat /\ Fine \in Nat
    BY DEF Margin, Fine, Unit, CdfAssumption
  <2>3. c[n] \in Nat /\ c[1] \in Nat BY <1>2, <1>4
  <2> QED BY <1>8, <2>1, <2>2, <2>3
<1> QED BY <1>1, <1>6, <1>7, <1>9 DEF Inner, m, u

\* What Metaculus accepts.
Acceptable(f, n, g) ==
  /\ IF g.openLo THEN f[1] >= Margin(TRUE) ELSE f[1] = 0
  /\ f[n] <= Fine - Margin(g.openHi)
  /\ g.openHi \/ f[n] >= Fine - n
  /\ \A k \in 2..n : Masses(f)[k] >= Unit \div (n - 1) /\ Masses(f)[k] <= CellCap(n)

LEMMA CapMassesHolds ==
  ASSUME CdfAssumption, NEW g \in Geometry, NEW n \in Nat, n >= 2, n - 1 <= Unit,
         NEW c, Spaced(c, n, g)
  PROVE  Acceptable(CapMasses(c), n, g)
<1> DEFINE S == CappedAtLast(c)
           v == Scaling(c, n, S)
           f == CapMasses(c)
           W(k) == SumFunctionOnSet(v, 2..k)
<1>1. c \in [1..n -> Nat] /\ Inner(Masses(c), n, c[n] - c[1]) BY SpacedIsInner
<1>2. Len(c) = n
  <2>1. n \in Nat OBVIOUS
  <2> QED BY <1>1, <2>1, NumberedIsSeq
<1>3. Capped(c, n, S) /\ CapMore(c, S) = S BY <1>1, CappingEnds
<1>4. f = [k \in 1..n |-> c[1] + W(k)]
  <2>1. f = [k \in 1..Len(c) |-> c[1] + SumFunctionOnSet(
               [i \in 2..Len(c) |-> IF i \in CappedAtLast(c) THEN SafeCap(Len(c))
                  ELSE (Masses(c)[i] * Spare(c, CappedAtLast(c))) \div Rest(c, CappedAtLast(c))],
               2..k)]
    BY DEF CapMasses, CappedAtLast, CappedSoFar
  <2>2. v = [i \in 2..Len(c) |-> IF i \in CappedAtLast(c) THEN SafeCap(Len(c))
               ELSE (Masses(c)[i] * Spare(c, CappedAtLast(c))) \div Rest(c, CappedAtLast(c))]
    BY <1>2 DEF Scaling
  <2>3. f = [k \in 1..Len(c) |-> c[1] + SumFunctionOnSet(v, 2..k)] BY <2>1, <2>2
  <2> HIDE DEF v, f
  <2> QED BY <1>2, <2>3
<1> HIDE DEF S
<1>5. \A k \in 2..n : v[k] \in Nat /\ Unit \div (n - 1) <= v[k] /\ v[k] <= SafeCap(n)
  BY <1>1, <1>3, ScalingHolds
<1>6. /\ SumFunctionOnSet(v, 2..n) \in Int
      /\ SumFunctionOnSet(v, 2..n) <= c[n] - c[1]
      /\ c[n] - c[1] - (n - 1) <= SumFunctionOnSet(v, 2..n)
  BY <1>1, <1>3, ScalingAddsUp
<1> HIDE DEF v, f
<1>7. n \in 1..n /\ 1 \in 1..n /\ n \in Nat \ {0} OBVIOUS
<1>8. \A k \in 1..n : c[k] \in Nat BY <1>1
<1>9. ASSUME NEW k \in 1..n PROVE W(k) \in Int
  <2> DEFINE I == 2..k
  <2>1. IsFiniteSet(I)
    <3>1. 2 \in Int /\ k \in Int OBVIOUS
    <3> QED BY <3>1, FS_Interval
  <2>2. \A i \in I : v[i] \in Int
    <3>1. \A i \in I : i \in 2..n OBVIOUS
    <3> QED BY <1>5, <3>1
  <2> HIDE DEF I
  <2>3. SumFunctionOnSet(v, I) \in Int BY <2>1, <2>2, SumType
  <2> QED BY <2>3 DEF I
<1>10. ASSUME NEW k \in 2..n PROVE W(k) = v[k] + W(k - 1)
  <2> DEFINE I == 2..k i == k - 1
  <2>1. IsFiniteSet(I)
    <3>1. 2 \in Int /\ k \in Int OBVIOUS
    <3> QED BY <3>1, FS_Interval
  <2>2. \A l \in I : v[l] \in Int
    <3>1. \A l \in I : l \in 2..n OBVIOUS
    <3> QED BY <1>5, <3>1
  <2>3. k \in I /\ I \ {k} = 2..i
    <3>1. 2 \in Int /\ i \in Int /\ 2 <= i + 1 /\ i + 1 = k OBVIOUS
    <3> HIDE DEF i
    <3>2. i + 1 \in 2..(i + 1) /\ (2..(i + 1)) \ {i + 1} = 2..i BY <3>1, IntervalGrows
    <3> QED BY <3>1, <3>2
  <2> DEFINE z == k
  <2>4. z \in I BY <2>3
  <2> HIDE DEF I, i, z
  <2>5. SumFunctionOnSet(v, I) = v[z] + SumFunctionOnSet(v, I \ {z})
    BY <2>1, <2>2, <2>4, SumRemove
  <2> QED BY <2>3, <2>5 DEF I, i, z
<1>11. W(1) = 0
  <2>1. 2..1 = {} OBVIOUS
  <2>2. SumFunctionOnSet(v, {}) = 0 BY SumEmpty
  <2> QED BY <2>1, <2>2
<1>12. \A k \in 1..n : f[k] = c[1] + W(k) BY <1>4
<1>13. W(n) <= c[n] - c[1] /\ c[n] - c[1] - (n - 1) <= W(n) /\ W(n) \in Int BY <1>6
<1> HIDE DEF W
<1>14. \A k \in 1..n : f[k] \in Int
  <2> SUFFICES ASSUME NEW k \in 1..n PROVE f[k] \in Int OBVIOUS
  <2>1. f[k] = c[1] + W(k) /\ W(k) \in Int /\ c[1] \in Nat BY <1>7, <1>8, <1>9, <1>12
  <2> QED BY <2>1
<1>15. f \in [1..n -> Int]
  <2>1. DOMAIN f = 1..n /\ f = [k \in 1..n |-> f[k]] BY <1>4
  <2> QED BY <1>14, <2>1
<1>16. f[1] = c[1]
  <2>1. f[1] = c[1] + W(1) /\ c[1] \in Nat BY <1>7, <1>8, <1>12
  <2> QED BY <1>11, <2>1
<1>17. f[n] <= c[n] /\ f[n] >= c[n] - n /\ f[n] \in Int
  <2>1. f[n] = c[1] + W(n) /\ c[1] \in Nat /\ c[n] \in Nat BY <1>7, <1>8, <1>12
  <2> QED BY <1>13, <2>1
<1>18. \A k \in 2..n : Masses(f)[k] = f[k] - f[k - 1] BY <1>7, <1>15, MassesOf
<1>19. SafeCap(n) \in Nat /\ SafeCap(n) <= CellCap(n) BY CapIsWide
<1>20. CellCap(n) \in Int /\ Unit \div (n - 1) \in Int
  <2> DEFINE d == n - 1 w == Unit x == 2000 * Percent * InboundDefault
  <2>1. d \in Nat \ {0} /\ w \in Int /\ x \in Int
    <3>1. w \in Int BY UnitIsPositive
    <3>2. x \in Int BY DEF CdfAssumption
    <3> QED BY <3>1, <3>2
  <2>2. CellCap(n) = x \div d BY DEF CellCap
  <2> HIDE DEF d, w, x
  <2>3. x \div d \in Int /\ w \div d \in Int BY <2>1, Quotient
  <2> QED BY <2>2, <2>3 DEF d, w
<1>21. ASSUME NEW k \in 2..n
       PROVE  Masses(f)[k] >= Unit \div (n - 1) /\ Masses(f)[k] <= CellCap(n)
  <2> DEFINE u == Unit \div (n - 1) p == Masses(f)[k]
  <2>1. k \in 1..n /\ k - 1 \in 1..n OBVIOUS
  <2>2. p = f[k] - f[k - 1] BY <1>18
  <2>3. f[k] = c[1] + W(k) /\ f[k - 1] = c[1] + W(k - 1) BY <1>12, <2>1
  <2>4. W(k) = v[k] + W(k - 1) /\ W(k - 1) \in Int /\ c[1] \in Nat
    BY <1>7, <1>8, <1>9, <1>10, <2>1
  <2>5. v[k] \in Nat /\ u <= v[k] /\ v[k] <= SafeCap(n) BY <1>5
  <2>6. u \in Int /\ CellCap(n) \in Int BY <1>20
  <2> HIDE DEF u, p
  <2>7. p = v[k] BY <2>2, <2>3, <2>4, <2>5
  <2>8. p >= u /\ p <= CellCap(n) BY <1>19, <2>5, <2>6, <2>7
  <2> QED BY <2>8 DEF u, p
<1>22. /\ IF g.openLo THEN c[1] >= Margin(TRUE) ELSE c[1] = 0
       /\ c[n] <= Fine - Margin(g.openHi) /\ (~g.openHi => c[n] = Fine)
  BY DEF Spaced
<1>23. IF g.openLo THEN f[1] >= Margin(TRUE) ELSE f[1] = 0 BY <1>16, <1>22
<1>24. f[n] <= Fine - Margin(g.openHi)
  <2>1. Margin(g.openHi) \in Nat /\ Fine \in Nat
    BY DEF Margin, Fine, Unit, CdfAssumption
  <2>2. c[n] \in Nat BY <1>7, <1>8
  <2>3. c[n] <= Fine - Margin(g.openHi) BY <1>22
  <2> QED BY <1>17, <2>1, <2>2, <2>3
<1>25. g.openHi \/ f[n] >= Fine - n
  <2> SUFFICES ASSUME ~g.openHi PROVE f[n] >= Fine - n OBVIOUS
  <2>1. c[n] = Fine BY <1>22
  <2> QED BY <1>17, <2>1
<1> QED BY <1>21, <1>23, <1>24, <1>25 DEF Acceptable, f

\* A curve with mass inside its open or closed ends is standardised to one that is accepted.
LEMMA StandardizeHolds ==
  ASSUME CdfAssumption, NEW g \in Geometry, NEW n \in Nat, n >= 2, n - 1 <= Unit,
         NEW c \in Curve(n),
         (IF g.openLo THEN 0 ELSE c[1]) # (IF g.openHi THEN Unit ELSE c[n])
  PROVE  Acceptable(Standardize(c, g), n, g)
<1> DEFINE a == ApplyMinimum(c, g)
<1>1. Spaced(a, n, g) BY MinimumHolds
<1>2. Standardize(c, g) = CapMasses(a) BY DEF Standardize
<1> HIDE DEF a
<1>3. Acceptable(CapMasses(a), n, g) BY <1>1, CapMassesHolds
<1> QED BY <1>2, <1>3

(***************************************************************************)
(* The invariant.                                                          *)
(***************************************************************************)
Points == geometry.size
Runs == DOMAIN replies

\* What is made on the way, as it was made.
MadeWhole == made = [factor |-> made.factor, built |-> made.built, drawn |-> made.drawn,
                     accepted |-> made.accepted, average |-> made.average]
FactorsInferred == made.factor =
  [r \in Runs |-> IF r \in Mixtures THEN ScaleOf(replies[r], geometry) ELSE One]
MixturesBuilt == made.built = [r \in Mixtures |-> [u \in Units |->
  BuildMixture(Rescale(replies[r].components, FactorOf(r, u)), geometry)]]
CurvesDrawn == \A r \in Runs, u \in Units : made.drawn[r][u] \in Curve(Points)
AverageMade == Faithful(made.average, Points)
SomeKept == curves \in [Runs -> Curve(Points) \cup {Nothing}] /\ Kept # {}

\* Each stage has what it needs of those before it.
CdfInv ==
  /\ geometry \in Geometries /\ replies \in ReplySets /\ MadeWhole
  /\ IF stage = "infer" THEN made.factor = Nothing ELSE FactorsInferred
  /\ IF stage \in {"infer", "guard"} THEN made.built = Nothing ELSE MixturesBuilt
  /\ stage = "witness" => CurvesDrawn
  /\ stage \in {"repair", "aggregate", "standardize"} => SomeKept
  /\ stage = "repair" => curves = made.accepted
  /\ RepairKeepsTheMass
  /\ stage = "standardize" => AverageMade
  /\ SubmissionIsAccepted

\* What is known of a question and of its runs.
LEMMA QuestionIs ==
  ASSUME CdfAssumption, geometry \in Geometries
  PROVE  /\ geometry \in Geometry /\ geometry.lo < geometry.hi
         /\ Points \in Nat /\ Points >= 2 /\ Points - 1 <= Unit /\ Points \in Nat \ {0}
         /\ Nothing \notin Curve(Points) /\ Unit \in Nat
<1>1. /\ geometry \in Geometry /\ geometry.lo < geometry.hi /\ Points - 1 <= Unit
      /\ Nothing \notin [1..Points -> Int]
  BY DEF CdfAssumption, Points
<1>2. Points \in Nat /\ Points >= 2 BY <1>1 DEF Geometry, Points
<1>3. Unit \in Nat BY UnitIsPositive
<1>4. Nothing \notin Curve(Points)
  <2> SUFFICES ASSUME Nothing \in Curve(Points) PROVE FALSE OBVIOUS
  <2>1. Points \in Nat \ {0} BY <1>2
  <2> DEFINE c == Nothing
  <2>2. c \in Curve(Points) OBVIOUS
  <2> HIDE DEF c
  <2>3. c \in [1..Points -> Int] BY <1>3, <2>1, <2>2, CurveFields
  <2> QED BY <1>1, <2>3 DEF c
<1> QED BY <1>1, <1>2, <1>3, <1>4

LEMMA RunsAre ==
  ASSUME CdfAssumption, replies \in ReplySets
  PROVE  /\ IsFiniteSet(Runs)
         /\ \A r \in Runs : replies[r].weight \in Nat \ {0}
         /\ \A r \in Mixtures : r \in Runs /\ replies[r].components \in Seq(Component)
                                /\ replies[r].support \in Limits \cup {Nothing}
         /\ \A r \in Runs \ Mixtures : replies[r] \in Listed /\ Usable(replies[r])
<1>1. replies \in Seq(Mixture \cup Listed) /\ \A r \in Runs : Usable(replies[r])
  BY DEF CdfAssumption, Runs
<1>2. Runs = 1..Len(replies) /\ Len(replies) \in Nat BY <1>1 DEF Runs
<1>3. IsFiniteSet(Runs)
  <2> DEFINE l == Len(replies)
  <2>1. 1 \in Int /\ l \in Int /\ Runs = 1..l BY <1>2
  <2> HIDE DEF l
  <2> QED BY <2>1, FS_Interval
<1>4. \A r \in Runs : replies[r] \in Mixture \/ replies[r] \in Listed BY <1>1, <1>2
<1>5. \A r \in Runs : replies[r].weight \in Nat \ {0} BY <1>4 DEF Mixture, Listed
<1>6. \A r \in Mixtures : r \in Runs /\ replies[r] \in Mixture
  BY <1>4 DEF Mixtures, Listed, Runs
<1>7. \A r \in Mixtures : /\ replies[r].components \in Seq(Component)
                          /\ replies[r].support \in Limits \cup {Nothing}
  BY <1>6 DEF Mixture
<1>8. \A r \in Runs \ Mixtures : replies[r] \in Listed BY <1>4 DEF Mixtures, Mixture, Runs
<1> QED BY <1>1, <1>3, <1>5, <1>6, <1>7, <1>8

LEMMA SomeKeptIsReady ==
  ASSUME CdfAssumption, replies \in ReplySets, SomeKept
  PROVE  Ready(Points) /\ Kept \in SUBSET Runs
<1>1. /\ IsFiniteSet(Runs) /\ \A r \in Runs : replies[r].weight \in Nat \ {0} BY RunsAre
<1>2. curves \in [Runs -> Curve(Points) \cup {Nothing}] /\ Kept # {} BY DEF SomeKept
<1>3. Kept \in SUBSET Runs /\ \A r \in Kept : curves[r] # Nothing BY <1>2 DEF Kept
<1>4. IsFiniteSet(Kept) BY <1>1, <1>3, FS_Subset
<1>5. \A r \in Kept : curves[r] \in Curve(Points) BY <1>2, <1>3
<1> QED BY <1>1, <1>2, <1>3, <1>4, <1>5 DEF Ready

LEMMA CentersAreNumbers ==
  ASSUME NEW comps \in Seq(Component)
  PROVE  /\ Len(comps) \in Nat /\ DOMAIN comps = 1..Len(comps)
         /\ [j \in DOMAIN comps |-> comps[j].center] \in [1..Len(comps) -> Int]
<1>1. Len(comps) \in Nat /\ DOMAIN comps = 1..Len(comps) OBVIOUS
<1>2. \A j \in DOMAIN comps : comps[j] \in Component BY <1>1
<1>3. \A j \in DOMAIN comps : comps[j].center \in Int BY <1>2 DEF Component
<1> QED BY <1>1, <1>3

\* The factor that is used for a run can be applied.
LEMMA FactorApplies ==
  ASSUME CdfAssumption, replies \in ReplySets, FactorsInferred
  PROVE  \A r \in Mixtures, u \in Units : Applies(FactorOf(r, u))
<1> SUFFICES ASSUME NEW r \in Mixtures, NEW u \in Units PROVE Applies(FactorOf(r, u)) OBVIOUS
<1>1. r \in Runs /\ replies[r].components \in Seq(Component) BY RunsAre
<1>2. CASE u = "plain" BY <1>2, OneApplies DEF FactorOf
<1>3. CASE u # "plain"
  <2> DEFINE comps == replies[r].components
             n == Len(comps)
             x == [k \in DOMAIN comps |-> comps[k].center]
  <2>1. FactorOf(r, u) = made.factor[r] BY <1>3 DEF FactorOf
  <2>2. made.factor[r] = ScaleOf(replies[r], geometry) BY <1>1 DEF FactorsInferred
  <2>3. ScaleOf(replies[r], geometry) = DetectScale(x, geometry) BY DEF ScaleOf
  <2>4. n \in Nat /\ x \in [1..n -> Int] BY <1>1, CentersAreNumbers
  <2> HIDE DEF n, x, comps
  <2>5. Applies(DetectScale(x, geometry)) BY <2>4, InferredScaleLands
  <2> QED BY <2>1, <2>2, <2>3, <2>5
<1> QED BY <1>2, <1>3

LEMMA FactorsLand ==
  ASSUME CdfAssumption, replies \in ReplySets, FactorsInferred
  PROVE  NoCentreLeavesTheGrid
<1> SUFFICES ASSUME NEW r \in Mixtures, made.factor[r] # One,
                    NEW k \in DOMAIN replies[r].components,
                    replies[r].components[k].center # 0
             PROVE  /\ ~InWindow(geometry, replies[r].components[k].center)
                    /\ InWindow(geometry, Scaled(replies[r].components[k].center, made.factor[r]))
  BY DEF NoCentreLeavesTheGrid
<1> DEFINE comps == replies[r].components
           n == Len(comps)
           x == [j \in DOMAIN comps |-> comps[j].center]
           f == made.factor[r]
<1>1. r \in Runs /\ comps \in Seq(Component) BY RunsAre
<1>2. f = ScaleOf(replies[r], geometry) BY <1>1 DEF FactorsInferred
<1>3. ScaleOf(replies[r], geometry) = DetectScale(x, geometry) BY DEF ScaleOf
<1>4. n \in Nat /\ x \in [1..n -> Int] BY <1>1, CentersAreNumbers
<1>5. k \in DOMAIN x /\ x[k] = replies[r].components[k].center OBVIOUS
<1>6. f # One OBVIOUS
<1> HIDE DEF n, x, comps, f
<1>7. Lands(x, geometry, DetectScale(x, geometry)) BY <1>4, InferredScaleLands
<1>8. ~InWindow(geometry, x[k]) /\ InWindow(geometry, Scaled(x[k], f))
  BY <1>2, <1>3, <1>5, <1>6, <1>7 DEF Lands
<1> QED BY <1>5, <1>8 DEF f

LEMMA BuiltIsGuarded ==
  ASSUME CdfAssumption, geometry \in Geometries, replies \in ReplySets, FactorsInferred,
         MixturesBuilt
  PROVE  /\ GuardrailsKeepTheMass
         /\ \A r \in Mixtures, u \in Units : Mixed(made.built[r][u])
<1>1. geometry \in Geometry /\ geometry.lo < geometry.hi BY QuestionIs
<1>2. ASSUME NEW r \in Mixtures, NEW u \in Units
      PROVE  /\ Mixed(made.built[r][u])
             /\ TotalWeight(Clean(Rescale(replies[r].components, FactorOf(r, u)))) > 0 =>
                  Guarded(made.built[r][u], Clean(Rescale(replies[r].components, FactorOf(r, u))),
                          geometry)
  <2> DEFINE comps == Rescale(replies[r].components, FactorOf(r, u))
  <2>1. Applies(FactorOf(r, u)) BY FactorApplies
  <2>2. replies[r].components \in Seq(Component) BY RunsAre
  <2>3. comps \in Seq(Component)
    <3> DEFINE f == FactorOf(r, u) cs == replies[r].components
    <3>1. Applies(f) /\ cs \in Seq(Component) BY <2>1, <2>2
    <3> HIDE DEF f, cs
    <3>2. Rescale(cs, f) \in Seq(Component) BY <3>1, RescaledAreComponents
    <3> QED BY <3>2 DEF f, cs
  <2>4. made.built[r][u] = BuildMixture(comps, geometry) BY DEF MixturesBuilt
  <2> HIDE DEF comps
  <2>5. Mixed(BuildMixture(comps, geometry)) BY <1>1, <2>3, BuiltHolds
  <2>6. TotalWeight(Clean(comps)) > 0 =>
          Guarded(BuildMixture(comps, geometry), Clean(comps), geometry)
    BY <1>1, <2>3, BuiltHolds
  <2> QED BY <2>4, <2>5, <2>6 DEF comps
<1>3. GuardrailsKeepTheMass BY <1>2 DEF GuardrailsKeepTheMass, Guarded
<1> QED BY <1>2, <1>3

LEMMA CdfInitInv == ASSUME CdfAssumption, CdfInit PROVE CdfInv
BY DEF CdfInit, CdfInv, Unmade, MadeWhole, RepairKeepsTheMass, SubmissionIsAccepted

LEMMA InferInv == ASSUME CdfInv, Infer PROVE CdfInv'
<1>1. /\ geometry' = geometry /\ replies' = replies /\ stage = "infer" /\ stage' = "guard"
      /\ made' = [made EXCEPT !.factor =
           [r \in DOMAIN replies |-> IF r \in Mixtures THEN ScaleOf(replies[r], geometry) ELSE One]]
  BY DEF Infer
<1>2. geometry \in Geometries /\ replies \in ReplySets /\ MadeWhole /\ made.built = Nothing
  BY <1>1 DEF CdfInv
<1>3. Mixtures' = Mixtures /\ Runs' = Runs BY <1>1 DEF Mixtures, Runs
<1>4. MadeWhole' /\ made'.built = made.built BY <1>1, <1>2 DEF MadeWhole
<1>5. FactorsInferred'
  <2>1. made'.factor =
          [r \in Runs |-> IF r \in Mixtures THEN ScaleOf(replies[r], geometry) ELSE One]
    BY <1>1, <1>2 DEF MadeWhole, Runs
  <2> QED BY <1>1, <1>3, <2>1 DEF FactorsInferred
<1>6. RepairKeepsTheMass' /\ SubmissionIsAccepted'
  BY <1>1 DEF RepairKeepsTheMass, SubmissionIsAccepted
<1> QED BY <1>1, <1>2, <1>4, <1>5, <1>6 DEF CdfInv

LEMMA GuardInv == ASSUME CdfInv, Guard PROVE CdfInv'
<1>1. /\ geometry' = geometry /\ replies' = replies /\ stage = "guard" /\ stage' = "draw"
      /\ made' = [made EXCEPT !.built = [r \in Mixtures |-> [u \in Units |->
           BuildMixture(Rescale(replies[r].components, FactorOf(r, u)), geometry)]]]
  BY DEF Guard
<1>2. geometry \in Geometries /\ replies \in ReplySets /\ MadeWhole /\ FactorsInferred
  BY <1>1 DEF CdfInv
<1>3. Mixtures' = Mixtures /\ Runs' = Runs BY <1>1 DEF Mixtures, Runs
<1>4. MadeWhole' /\ made'.factor = made.factor BY <1>1, <1>2 DEF MadeWhole
<1>5. FactorsInferred' BY <1>1, <1>2, <1>3, <1>4 DEF FactorsInferred
<1>6. MixturesBuilt'
  <2>1. made'.built = [r \in Mixtures |-> [u \in Units |->
          BuildMixture(Rescale(replies[r].components, FactorOf(r, u)), geometry)]]
    BY <1>1, <1>2 DEF MadeWhole
  <2>2. \A r, u : FactorOf(r, u)' = FactorOf(r, u) BY <1>4 DEF FactorOf
  <2> QED BY <1>1, <1>3, <2>1, <2>2 DEF MixturesBuilt
<1>7. RepairKeepsTheMass' /\ SubmissionIsAccepted'
  BY <1>1 DEF RepairKeepsTheMass, SubmissionIsAccepted
<1> QED BY <1>1, <1>2, <1>4, <1>5, <1>6, <1>7 DEF CdfInv

\* What was made before stays.
LEMMA MadeStays ==
  ASSUME geometry' = geometry, replies' = replies, made'.factor = made.factor,
         made'.built = made.built, FactorsInferred, MixturesBuilt
  PROVE  FactorsInferred' /\ MixturesBuilt'
<1>1. Mixtures' = Mixtures /\ Runs' = Runs BY DEF Mixtures, Runs
<1>2. FactorsInferred' BY <1>1 DEF FactorsInferred
<1>3. \A r, u : FactorOf(r, u)' = FactorOf(r, u) BY DEF FactorOf
<1>4. MixturesBuilt' BY <1>1, <1>3 DEF MixturesBuilt
<1> QED BY <1>2, <1>4

LEMMA DrawInv == ASSUME CdfAssumption, CdfInv, Draw PROVE CdfInv'
<1> DEFINE d == [r \in DOMAIN replies |-> [u \in Units |->
                  IF r \in Mixtures
                  THEN MixtureCurve(made.built[r][u],
                                    ScaleSupport(replies[r].support, FactorOf(r, u)), geometry)
                  ELSE PmfCurve(replies[r], geometry)]]
<1>1. /\ geometry' = geometry /\ replies' = replies /\ stage = "draw" /\ stage' = "witness"
      /\ made' = [made EXCEPT !.drawn = d]
  BY DEF Draw
<1>2. /\ geometry \in Geometries /\ replies \in ReplySets /\ MadeWhole /\ FactorsInferred
      /\ MixturesBuilt
  BY <1>1 DEF CdfInv
<1>3. ASSUME NEW r \in Runs, NEW u \in Units PROVE d[r][u] \in Curve(Points)
  <2>1. geometry \in Geometry /\ geometry.lo < geometry.hi BY <1>2, QuestionIs
  <2>2. CASE r \in Mixtures
    <3> DEFINE cs == made.built[r][u]
               s == ScaleSupport(replies[r].support, FactorOf(r, u))
    <3>1. d[r][u] = MixtureCurve(cs, s, geometry) BY <2>2 DEF Runs
    <3>2. Mixed(cs) BY <1>2, <2>2, BuiltIsGuarded
    <3>3. s \in Limits \cup {Nothing}
      <4>1. Applies(FactorOf(r, u)) BY <1>2, <2>2, FactorApplies
      <4>2. replies[r].support \in Limits \cup {Nothing} BY <1>2, <2>2, RunsAre
      <4> QED BY <4>1, <4>2, ScaledSupport
    <3> HIDE DEF cs, s, d
    <3>4. MixtureCurve(cs, s, geometry) \in Curve(geometry.size)
      BY <2>1, <3>2, <3>3, MixtureCurveRises
    <3> QED BY <3>1, <3>4 DEF Points
  <2>3. CASE r \notin Mixtures
    <3>1. d[r][u] = PmfCurve(replies[r], geometry) BY <2>3 DEF Runs
    <3>2. replies[r] \in Listed /\ Usable(replies[r]) BY <1>2, <2>3, RunsAre
    <3> HIDE DEF d
    <3>3. PmfCurve(replies[r], geometry) \in Curve(geometry.size)
      BY <2>1, <3>2, ListedCurveRises
    <3> QED BY <3>1, <3>3 DEF Points
  <2> QED BY <2>2, <2>3
<1> HIDE DEF d
<1>4. /\ MadeWhole' /\ made'.factor = made.factor /\ made'.built = made.built /\ made'.drawn = d
  BY <1>1, <1>2 DEF MadeWhole
<1>5. FactorsInferred' /\ MixturesBuilt' BY <1>1, <1>2, <1>4, MadeStays
<1>6. Runs' = Runs /\ Points' = Points BY <1>1 DEF Runs, Points
<1>7. CurvesDrawn'
  <2>1. \A r \in Runs, u \in Units : made'.drawn[r][u] \in Curve(Points) BY <1>3, <1>4
  <2> QED BY <1>6, <2>1 DEF CurvesDrawn, Curve
<1>8. RepairKeepsTheMass' /\ SubmissionIsAccepted'
  BY <1>1 DEF RepairKeepsTheMass, SubmissionIsAccepted
<1> QED BY <1>1, <1>2, <1>4, <1>5, <1>7, <1>8 DEF CdfInv

LEMMA WitnessInv == ASSUME CdfAssumption, CdfInv, Witness PROVE CdfInv'
<1> DEFINE c == [r \in DOMAIN replies |-> Accepted(replies[r], made.factor[r], made.drawn[r])]
<1>1. /\ geometry' = geometry /\ replies' = replies /\ stage = "witness"
      /\ curves' = c /\ made' = [made EXCEPT !.accepted = c]
      /\ stage' = IF \E r \in DOMAIN replies : c[r] # Nothing THEN "repair" ELSE "abstain"
  BY DEF Witness
<1>2. /\ geometry \in Geometries /\ replies \in ReplySets /\ MadeWhole /\ FactorsInferred
      /\ MixturesBuilt /\ CurvesDrawn
  BY <1>1 DEF CdfInv
<1>3. \A r \in Runs : c[r] \in Curve(Points) \cup {Nothing}
  <2> SUFFICES ASSUME NEW r \in Runs PROVE c[r] \in Curve(Points) \cup {Nothing} OBVIOUS
  <2>1. made.drawn[r].scaled \in Curve(Points) /\ made.drawn[r].plain \in Curve(Points)
    <3>1. "scaled" \in Units /\ "plain" \in Units BY DEF Units
    <3>2. made.drawn[r]["scaled"] \in Curve(Points) /\ made.drawn[r]["plain"] \in Curve(Points)
      BY <1>2, <3>1 DEF CurvesDrawn
    <3> QED BY <3>2
  <2>2. c[r] = Accepted(replies[r], made.factor[r], made.drawn[r]) BY DEF Runs
  <2>3. \/ c[r] = made.drawn[r].scaled \/ c[r] = made.drawn[r].plain \/ c[r] = Nothing
    BY <2>2 DEF Accepted
  <2> QED BY <2>1, <2>3
<1>4. c = [r \in Runs |-> c[r]] BY DEF Runs
<1> HIDE DEF c
<1>5. /\ MadeWhole' /\ made'.factor = made.factor /\ made'.built = made.built
      /\ made'.accepted = c
  BY <1>1, <1>2 DEF MadeWhole
<1>6. FactorsInferred' /\ MixturesBuilt' BY <1>1, <1>2, <1>5, MadeStays
<1>7. Runs' = Runs /\ Points' = Points BY <1>1 DEF Runs, Points
<1>8. stage' = "repair" => SomeKept'
  <2> SUFFICES ASSUME stage' = "repair" PROVE SomeKept' OBVIOUS
  <2>1. PICK r \in Runs : c[r] # Nothing BY <1>1 DEF Runs
  <2>2. c \in [Runs -> Curve(Points) \cup {Nothing}] BY <1>3, <1>4
  <2>3. r \in DOMAIN c BY <1>4, <2>1
  <2>4. r \in Kept' BY <1>1, <2>1, <2>3 DEF Kept
  <2>5. curves' \in [Runs' -> Curve(Points') \cup {Nothing}] BY <1>1, <1>7, <2>2
  <2> QED BY <2>4, <2>5 DEF SomeKept, Curve
<1>9. stage' \in {"repair", "abstain"} BY <1>1
<1>10. RepairKeepsTheMass' /\ SubmissionIsAccepted'
  BY <1>9 DEF RepairKeepsTheMass, SubmissionIsAccepted
<1>11. stage' = "repair" => curves' = made'.accepted BY <1>1, <1>5
<1> QED BY <1>1, <1>2, <1>5, <1>6, <1>8, <1>9, <1>10, <1>11 DEF CdfInv

\* A point that a repaired run has gained lies between two it had, where another run
\* sees something.
LEMMA GainedIsSeen ==
  ASSUME Unit \in Nat, NEW n \in Nat \ {0}, NEW all, NEW r, all[r] \in Curve(n),
         NEW k \in 2..n, Masses(RepairCoarse(all, r))[k] > 0, Masses(all[r])[k] = 0
  PROVE  /\ \E a, b \in Occupied(Masses(all[r])) : a < k /\ k < b
         /\ Cardinality(DOMAIN all) = 1
            \/ \E q \in DOMAIN all \ {r} : Masses(all[q])[k] > 0
<1> DEFINE c == all[r]
           d == RepairCoarse(all, r)
           m == Masses(c)
<1>1. d \in Curve(n) BY RepairHolds
<1>2. c \in Curve(n) /\ Masses(d)[k] > 0 /\ Masses(c)[k] = 0 OBVIOUS
<1>3. d[k - 1] < d[k] /\ c[k - 1] = c[k] => \E p \in Filled(all, r) : p[1] < k /\ k < p[2]
  BY RepairHolds
<1>4. Filled(all, r) = {p \in Neighbours(Occupied(m)) : Fills(all, r, Occupied(m), p)}
  BY DEF Filled
<1> HIDE DEF c, d, m
<1>5. k \in 1..n /\ k - 1 \in 1..n OBVIOUS
<1>6. d[k - 1] < d[k]
  <2>1. d \in [1..n -> Int] /\ \A i \in 1..n : d[i] \in Nat BY <1>1, CurveFields
  <2>2. Masses(d)[k] = d[k] - d[k - 1] BY <2>1, MassesOf
  <2>3. d[k] \in Nat /\ d[k - 1] \in Nat BY <1>5, <2>1
  <2> QED BY <1>2, <2>2, <2>3
<1>7. c[k - 1] = c[k]
  <2>1. c \in [1..n -> Int] /\ \A i \in 1..n : c[i] \in Nat BY <1>2, CurveFields
  <2>2. Masses(c)[k] = c[k] - c[k - 1] BY <2>1, MassesOf
  <2>3. c[k] \in Nat /\ c[k - 1] \in Nat BY <1>5, <2>1
  <2> QED BY <1>2, <2>2, <2>3
<1>8. PICK p \in Filled(all, r) : p[1] < k /\ k < p[2] BY <1>3, <1>6, <1>7
<1>9. p \in Neighbours(Occupied(m)) /\ Fills(all, r, Occupied(m), p) BY <1>4, <1>8
<1>10. p[1] \in Occupied(m) /\ p[2] \in Occupied(m) BY <1>9 DEF Neighbours
<1>11. k \in (p[1] + 1)..(p[2] - 1)
  <2>1. p[1] \in Int /\ p[2] \in Int
    <3>1. Len(m) = n
      <4>1. c \in [1..n -> Int] BY <1>2, CurveFields
      <4>2. Len(Masses(c)) = n BY <4>1, MassesOf
      <4> QED BY <4>2 DEF m
    <3>2. \A j \in Occupied(m) : j \in 2..n BY <3>1 DEF Occupied
    <3> QED BY <1>10, <3>2
  <2> QED BY <1>8, <2>1
<1>12. Cardinality(DOMAIN all) = 1 \/ \E q \in DOMAIN all \ {r} : Masses(all[q])[k] > 0
  BY <1>9, <1>11 DEF Fills
<1>13. \E a, b \in Occupied(m) : a < k /\ k < b BY <1>8, <1>10
<1> QED BY <1>12, <1>13 DEF m, c

LEMMA RepairInv == ASSUME CdfAssumption, CdfInv, Repair PROVE CdfInv'
<1> DEFINE all == [r \in Kept |-> curves[r]]
           d == [r \in DOMAIN curves |-> IF r \in Kept THEN RepairCoarse(all, r) ELSE Nothing]
<1>1. /\ geometry' = geometry /\ replies' = replies /\ made' = made
      /\ stage = "repair" /\ stage' = "aggregate" /\ curves' = d
  BY DEF Repair
<1>2. /\ geometry \in Geometries /\ replies \in ReplySets /\ MadeWhole /\ FactorsInferred
      /\ MixturesBuilt /\ SomeKept /\ curves = made.accepted
  BY <1>1 DEF CdfInv
<1>3. Points \in Nat \ {0} /\ Nothing \notin Curve(Points) /\ Unit \in Nat BY <1>2, QuestionIs
<1>4. Ready(Points) BY <1>2, SomeKeptIsReady
<1>5. \A r \in Kept : all[r] \in Curve(Points) /\ all[r] = curves[r] BY <1>4 DEF Ready
<1>6. DOMAIN all = Kept OBVIOUS
<1>7. /\ curves \in [Runs -> Curve(Points) \cup {Nothing}] /\ Kept # {} BY <1>2 DEF SomeKept
<1>8. \A r \in Kept : r \in Runs /\ d[r] = RepairCoarse(all, r) BY <1>7 DEF Kept
<1>9. DOMAIN d = Runs /\ \A r \in Runs : r \notin Kept => d[r] = Nothing BY <1>7
<1>10. Kept' = {r \in Runs : d[r] # Nothing} BY <1>1, <1>9 DEF Kept
<1>11. d = [r \in Runs |-> d[r]] BY <1>7
<1> HIDE DEF all, d
<1>12. ASSUME NEW r \in Kept
       PROVE  /\ d[r] \in Curve(Points)
              /\ d[r][1] = curves[r][1] /\ d[r][Points] = curves[r][Points]
              /\ Masses(d[r])[1] = Masses(curves[r])[1]
              /\ \A k \in 2..Points :
                   (Masses(d[r])[k] > 0 /\ Masses(curves[r])[k] = 0) =>
                     /\ \E a, b \in Occupied(Masses(curves[r])) : a < k /\ k < b
                     /\ Cardinality(Kept) = 1
                        \/ \E q \in Kept \ {r} : Masses(curves[q])[k] > 0
  <2>1. all[r] \in Curve(Points) /\ all[r] = curves[r] BY <1>5
  <2>2. d[r] = RepairCoarse(all, r) BY <1>8
  <2>3. /\ RepairCoarse(all, r) \in Curve(Points)
        /\ RepairCoarse(all, r)[1] = all[r][1] /\ RepairCoarse(all, r)[Points] = all[r][Points]
    BY <1>3, <2>1, RepairHolds
  <2>4. Masses(d[r])[1] = Masses(curves[r])[1]
    <3> DEFINE x == d[r] y == curves[r]
    <3>1. x \in Curve(Points) /\ y \in Curve(Points) /\ x[1] = y[1] BY <2>1, <2>2, <2>3
    <3> HIDE DEF x, y
    <3>2. x \in [1..Points -> Int] /\ y \in [1..Points -> Int] BY <1>3, <3>1, CurveFields
    <3>3. Masses(x)[1] = x[1] /\ Masses(y)[1] = y[1] BY <1>3, <3>2, MassesOf
    <3> QED BY <3>1, <3>3 DEF x, y
  <2>5. ASSUME NEW k \in 2..Points, Masses(d[r])[k] > 0, Masses(curves[r])[k] = 0
        PROVE  /\ \E a, b \in Occupied(Masses(curves[r])) : a < k /\ k < b
               /\ Cardinality(Kept) = 1 \/ \E q \in Kept \ {r} : Masses(curves[q])[k] > 0
    <3>1. Masses(RepairCoarse(all, r))[k] > 0 /\ Masses(all[r])[k] = 0 BY <2>1, <2>2, <2>5
    <3>2. \E a, b \in Occupied(Masses(all[r])) : a < k /\ k < b
      BY <1>3, <2>1, <3>1, GainedIsSeen
    <3>3. Cardinality(DOMAIN all) = 1
          \/ \E q \in DOMAIN all \ {r} : Masses(all[q])[k] > 0
      BY <1>3, <2>1, <3>1, GainedIsSeen
    <3> QED BY <1>5, <1>6, <2>1, <3>2, <3>3
  <2> QED BY <2>1, <2>2, <2>3, <2>4, <2>5
<1>13. Kept' = Kept
  <2>1. \A r \in Kept : r \in Runs /\ d[r] # Nothing BY <1>3, <1>8, <1>12
  <2>2. \A r \in Runs : d[r] # Nothing => r \in Kept BY <1>9
  <2> QED BY <1>10, <2>1, <2>2
<1>14. Points' = Points /\ Runs' = Runs BY <1>1 DEF Points, Runs
<1>15. SomeKept'
  <2>1. \A r \in Runs : d[r] \in Curve(Points) \cup {Nothing} BY <1>9, <1>12
  <2>2. d \in [Runs -> Curve(Points) \cup {Nothing}] BY <1>11, <2>1
  <2>3. curves' \in [Runs' -> Curve(Points') \cup {Nothing}] BY <1>1, <1>14, <2>2
  <2> QED BY <1>7, <1>13, <2>3 DEF SomeKept, Curve
<1>16. RepairKeepsTheMass'
  <2> SUFFICES ASSUME NEW r \in Kept
               PROVE  /\ Masses(d[r])[1] = Masses(curves[r])[1]
                      /\ d[r][Points] = curves[r][Points]
                      /\ \A k \in 2..Points :
                           (Masses(d[r])[k] > 0 /\ Masses(curves[r])[k] = 0) =>
                             /\ \E a, b \in Occupied(Masses(curves[r])) : a < k /\ k < b
                             /\ Cardinality(Kept) > 1 =>
                                  \E q \in Kept \ {r} : Masses(curves[q])[k] > 0
    <3>1. Kept' = Kept /\ curves' = d /\ made'.accepted = curves /\ geometry'.size = Points
      BY <1>1, <1>2, <1>13 DEF Points
    <3> QED BY <3>1 DEF RepairKeepsTheMass
  <2> QED BY <1>12
<1>17. FactorsInferred' /\ MixturesBuilt' BY <1>1, <1>2, MadeStays
<1>18. MadeWhole' BY <1>1, <1>2 DEF MadeWhole
<1>19. SubmissionIsAccepted' BY <1>1 DEF SubmissionIsAccepted
<1> QED BY <1>1, <1>2, <1>15, <1>16, <1>17, <1>18, <1>19 DEF CdfInv

LEMMA CombineInv == ASSUME CdfAssumption, CdfInv, Combine PROVE CdfInv'
<1> DEFINE a == AggregateCdf(geometry)
<1>1. /\ geometry' = geometry /\ replies' = replies /\ curves' = curves
      /\ stage = "aggregate" /\ stage' = "standardize"
      /\ made' = [made EXCEPT !.average = a]
  BY DEF Combine
<1>2. /\ geometry \in Geometries /\ replies \in ReplySets /\ MadeWhole /\ FactorsInferred
      /\ MixturesBuilt /\ SomeKept
  BY <1>1 DEF CdfInv
<1>3. Points \in Nat /\ Points >= 2 /\ Unit \in Nat /\ Points = geometry.size
  BY <1>2, QuestionIs DEF Points
<1>4. Ready(Points) BY <1>2, SomeKeptIsReady
<1>5. Faithful(a, Points) BY <1>3, <1>4, AggregateHolds
<1> HIDE DEF a
<1>6. /\ MadeWhole' /\ made'.factor = made.factor /\ made'.built = made.built
      /\ made'.average = a
  BY <1>1, <1>2 DEF MadeWhole
<1>7. FactorsInferred' /\ MixturesBuilt' BY <1>1, <1>2, <1>6, MadeStays
<1>8. Points' = Points /\ Runs' = Runs /\ Kept' = Kept BY <1>1 DEF Points, Runs, Kept
<1>9. SomeKept' BY <1>1, <1>2, <1>8 DEF SomeKept, Curve
<1>10. AverageMade'
  <2>1. Shaped' = Shaped BY <1>1, <1>8 DEF Shaped
  <2>2. Faithful(made'.average, Points) BY <1>5, <1>6
  <2> QED BY <1>1, <1>8, <2>1, <2>2 DEF AverageMade, Faithful, Curve, Average, WeightSum
<1>11. RepairKeepsTheMass' /\ SubmissionIsAccepted'
  BY <1>1 DEF RepairKeepsTheMass, SubmissionIsAccepted
<1> QED BY <1>1, <1>2, <1>6, <1>7, <1>9, <1>10, <1>11 DEF CdfInv

LEMMA SubmitInv == ASSUME CdfAssumption, CdfInv, Submit PROVE CdfInv'
<1> DEFINE c == made.average
           flat == (IF geometry.openLo THEN 0 ELSE c[1])
                     = (IF geometry.openHi THEN Unit ELSE c[Len(c)])
<1>1. /\ geometry' = geometry /\ replies' = replies /\ made' = made /\ curves' = curves
      /\ stage = "standardize"
      /\ final' = IF flat THEN Nothing ELSE Standardize(c, geometry)
      /\ stage' = IF flat THEN "error" ELSE "submit"
  BY DEF Submit
<1>2. /\ geometry \in Geometries /\ replies \in ReplySets /\ MadeWhole /\ FactorsInferred
      /\ MixturesBuilt /\ AverageMade
  BY <1>1 DEF CdfInv
<1>3. /\ geometry \in Geometry /\ Points \in Nat /\ Points >= 2 /\ Points - 1 <= Unit
      /\ Unit \in Nat /\ Points \in Nat \ {0}
  BY <1>2, QuestionIs
<1>4. c \in Curve(Points) BY <1>2 DEF AverageMade, Faithful
<1>5. Len(c) = Points
  <2> HIDE DEF c
  <2> QED BY <1>3, <1>4, CurveFields
<1>6. ASSUME stage' = "submit" PROVE Acceptable(final', Points, geometry)
  <2>1. ~flat BY <1>1, <1>6
  <2>2. final' = Standardize(c, geometry) BY <1>1, <2>1
  <2>3. (IF geometry.openLo THEN 0 ELSE c[1]) # (IF geometry.openHi THEN Unit ELSE c[Points])
    BY <1>5, <2>1
  <2> HIDE DEF c, flat
  <2>4. Acceptable(Standardize(c, geometry), Points, geometry)
    BY <1>3, <1>4, <2>3, StandardizeHolds
  <2> QED BY <2>2, <2>4
<1> HIDE DEF c, flat
<1>7. stage' \in {"submit", "error"} BY <1>1
<1>8. SubmissionIsAccepted'
  <2> SUFFICES ASSUME stage' = "submit"
               PROVE  /\ IF geometry.openLo THEN final'[1] >= Margin(TRUE) ELSE final'[1] = 0
                      /\ final'[Points] <= Fine - Margin(geometry.openHi)
                      /\ geometry.openHi \/ final'[Points] >= Fine - Points
                      /\ \A k \in 2..Points : /\ Masses(final')[k] >= Unit \div (Points - 1)
                                              /\ Masses(final')[k] <= CellCap(Points)
    BY <1>1 DEF SubmissionIsAccepted, Points
  <2> QED BY <1>6 DEF Acceptable
<1>9. FactorsInferred' /\ MixturesBuilt' BY <1>1, <1>2, MadeStays
<1>10. MadeWhole' BY <1>1, <1>2 DEF MadeWhole
<1>11. RepairKeepsTheMass' BY <1>7 DEF RepairKeepsTheMass
<1> QED BY <1>1, <1>2, <1>7, <1>8, <1>9, <1>10, <1>11 DEF CdfInv

LEMMA CdfStays == ASSUME CdfInv, UNCHANGED cdfVars PROVE CdfInv'
<1>1. /\ geometry' = geometry /\ replies' = replies /\ made' = made /\ curves' = curves
      /\ stage' = stage /\ final' = final
  BY DEF cdfVars
<1>2. geometry \in Geometries /\ replies \in ReplySets /\ MadeWhole BY DEF CdfInv
<1>3. /\ Points' = Points /\ Runs' = Runs /\ Kept' = Kept /\ Mixtures' = Mixtures
      /\ Shaped' = Shaped
  BY <1>1 DEF Points, Runs, Kept, Mixtures, Shaped
<1>4. MadeWhole' BY <1>1, <1>2 DEF MadeWhole
<1>5. IF stage = "infer" THEN made.factor = Nothing ELSE FactorsInferred BY DEF CdfInv
<1>6. IF stage' = "infer" THEN made'.factor = Nothing ELSE FactorsInferred'
  BY <1>1, <1>3, <1>5 DEF FactorsInferred
<1>7. IF stage \in {"infer", "guard"} THEN made.built = Nothing ELSE MixturesBuilt BY DEF CdfInv
<1>8. IF stage' \in {"infer", "guard"} THEN made'.built = Nothing ELSE MixturesBuilt'
  <2>1. \A r, u : FactorOf(r, u)' = FactorOf(r, u) BY <1>1 DEF FactorOf
  <2>2. MixturesBuilt => MixturesBuilt' BY <1>1, <1>3, <2>1 DEF MixturesBuilt
  <2> QED BY <1>1, <1>7, <2>2
<1>9. (stage = "witness" => CurvesDrawn) /\ (stage' = "witness" => CurvesDrawn')
  <2>1. stage = "witness" => CurvesDrawn BY DEF CdfInv
  <2>2. CurvesDrawn => CurvesDrawn' BY <1>1, <1>3 DEF CurvesDrawn, Curve
  <2> QED BY <1>1, <2>1, <2>2
<1>10. stage' \in {"repair", "aggregate", "standardize"} => SomeKept'
  <2>1. stage \in {"repair", "aggregate", "standardize"} => SomeKept BY DEF CdfInv
  <2>2. SomeKept => SomeKept' BY <1>1, <1>3 DEF SomeKept, Curve
  <2> QED BY <1>1, <2>1, <2>2
<1>11. stage' = "repair" => curves' = made'.accepted
  <2>1. stage = "repair" => curves = made.accepted BY DEF CdfInv
  <2> QED BY <1>1, <2>1
<1>12. RepairKeepsTheMass'
  <2>1. RepairKeepsTheMass BY DEF CdfInv
  <2> QED BY <1>1, <1>3, <2>1 DEF RepairKeepsTheMass
<1>13. stage' = "standardize" => AverageMade'
  <2>1. stage = "standardize" => AverageMade BY DEF CdfInv
  <2>2. AverageMade => AverageMade'
    BY <1>1, <1>3 DEF AverageMade, Faithful, Curve, Average, WeightSum
  <2> QED BY <1>1, <2>1, <2>2
<1>14. SubmissionIsAccepted'
  <2>1. SubmissionIsAccepted BY DEF CdfInv
  <2> QED BY <1>1, <2>1 DEF SubmissionIsAccepted
<1> QED
  BY <1>1, <1>2, <1>4, <1>6, <1>8, <1>9, <1>10, <1>11, <1>12, <1>13, <1>14 DEF CdfInv

LEMMA CdfNextInv == ASSUME CdfAssumption, CdfInv, [CdfNext]_cdfVars PROVE CdfInv'
<1>1. CASE Infer BY <1>1, InferInv
<1>2. CASE Guard BY <1>2, GuardInv
<1>3. CASE Draw BY <1>3, DrawInv
<1>4. CASE Witness BY <1>4, WitnessInv
<1>5. CASE Repair BY <1>5, RepairInv
<1>6. CASE Combine BY <1>6, CombineInv
<1>7. CASE Submit BY <1>7, SubmitInv
<1>8. CASE UNCHANGED cdfVars BY <1>8, CdfStays
<1> QED BY <1>1, <1>2, <1>3, <1>4, <1>5, <1>6, <1>7, <1>8 DEF CdfNext

LEMMA CdfInvKeeps == ASSUME CdfAssumption, CdfInv PROVE MassIsKept
<1>1. geometry \in Geometries /\ replies \in ReplySets BY DEF CdfInv
<1>2. NoCentreLeavesTheGrid
  <2>1. CASE stage = "infer"
    <3>1. made.factor = Nothing BY <2>1 DEF CdfInv
    <3> QED BY <3>1 DEF NoCentreLeavesTheGrid
  <2>2. CASE stage # "infer"
    <3>1. FactorsInferred BY <2>2 DEF CdfInv
    <3> QED BY <1>1, <3>1, FactorsLand
  <2> QED BY <2>1, <2>2
<1>3. GuardrailsKeepTheMass
  <2>1. CASE stage \in {"infer", "guard"}
    <3>1. made.built = Nothing BY <2>1 DEF CdfInv
    <3> QED BY <3>1 DEF GuardrailsKeepTheMass
  <2>2. CASE stage \notin {"infer", "guard"}
    <3>1. FactorsInferred /\ MixturesBuilt BY <2>2 DEF CdfInv
    <3> QED BY <1>1, <3>1, BuiltIsGuarded
  <2> QED BY <2>1, <2>2
<1>4. RepairKeepsTheMass BY DEF CdfInv
<1>5. AverageKeepsTheTails
  <2> SUFFICES ASSUME stage = "standardize" PROVE AverageKeepsTheTails
    BY DEF AverageKeepsTheTails
  <2> DEFINE a == made.average
  <2>1. Faithful(a, Points) BY DEF CdfInv, AverageMade
  <2>2. a \in Curve(Points) BY <2>1 DEF Faithful
  <2>3. \A k \in 2..Points : a[k] >= a[k - 1]
    <3> SUFFICES ASSUME NEW k \in 2..Points PROVE a[k] >= a[k - 1] OBVIOUS
    <3>1. Points \in Nat \ {0} /\ Unit \in Nat BY <1>1, QuestionIs
    <3>2. k \in 1..Points /\ k - 1 \in 1..Points BY <3>1
    <3> HIDE DEF a
    <3>3. a[k] \in Nat /\ a[k - 1] \in Nat BY <2>2, <3>1, <3>2, CurveFields
    <3>4. \A j \in 2..Points : a[j - 1] <= a[j] BY <2>2, <3>1, CurveFields
    <3> QED BY <3>3, <3>4
  <2> QED BY <2>1, <2>3 DEF AverageKeepsTheTails, Faithful, Points
<1> QED BY <1>2, <1>3, <1>4, <1>5 DEF MassIsKept

\* Whatever the runs reply and whatever the question's grid: the unit that is inferred
\* leaves no centre off the grid that was on it, the guardrails keep all the weight, the
\* repair keeps the mass in and below the grid and fills only what another run sees, and
\* the average keeps the tails (bot/forecasters/numeric.py up to aggregate_numeric_cdfs).
THEOREM CurvesAlwaysKeepMass == CdfSpec => []MassIsKept
<1>1. CdfAssumption BY CdfAssumption
<1>2. CdfInit => CdfInv BY <1>1, CdfInitInv
<1>3. CdfInv /\ [CdfNext]_cdfVars => CdfInv' BY <1>1, CdfNextInv
<1>4. CdfInv => MassIsKept BY <1>1, CdfInvKeeps
<1> QED BY <1>2, <1>3, <1>4, PTL DEF CdfSpec

\* What _standardize_cdf makes of any average that has mass to place is what Metaculus
\* accepts: its ends, its least step and its cap.
THEOREM SubmissionsAlwaysAccepted == CdfSpec => []SubmissionIsAccepted
<1>1. CdfAssumption BY CdfAssumption
<1>2. CdfInit => CdfInv BY <1>1, CdfInitInv
<1>3. CdfInv /\ [CdfNext]_cdfVars => CdfInv' BY <1>1, CdfNextInv
<1>4. CdfInv => SubmissionIsAccepted BY DEF CdfInv
<1> QED BY <1>2, <1>3, <1>4, PTL DEF CdfSpec
=============================================================================
